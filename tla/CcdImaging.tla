----------------------------- MODULE CcdImaging -----------------------------
(***************************************************************************)
(* An imaging sequence with a camera driven by OpenSkyImager (gtkImager):  *)
(* the page iAstroHub_ccd.html, its handlers ccd.php, stop_ccd.php and     *)
(* read_ccd.php, the sequence program ccdcontrol.c, the watcher            *)
(* check_idle.c and the histogram handler setHist.php.                     *)
(*                                                                         *)
(* No two of these programs talk to each other: all they share is the      *)
(* existence of the files status_ccd and status_capture, a few parameter   *)
(* files, the folder tmp_images, gtkImager's fifo and the LAST LINE of its *)
(* log.  Every step below is one access to one of them.                    *)
(*                                                                         *)
(* gtkImager is not part of the repository; the actions of the camera say  *)
(* what the programs above rely on, as the log kept with them              *)
(* (www/CCD_log.bak) records it.                                           *)
(***************************************************************************)
EXTENDS Naturals, Sequences, FiniteSets

CONSTANTS
  Page,       \* browser tabs showing iAstroHub_ccd.html
  Job,        \* bound: runs of ccdcontrol that can be alive at once
  Watcher,    \* bound: runs of check_idle that can be alive at once
  Requests,   \* the parameters users ask for: filter code, frames per filter
  CheckLimit, \* timeout of check_idle (60 in the code)
  Dithering,  \* the file "dithering" exists
  Prompt,     \* the sleeps are long enough: see Settled, Slept and Waited
  MaxStarts, MaxStops, MaxTemps, MaxHists, MaxErrors, MaxHangs \* bounds: how often each is tried

ASSUME CcdImagingAssumption ==
  /\ Requests \subseteq [filter : Nat, frames : Nat \ {0}]
  /\ CheckLimit \in Nat \ {0}
  /\ Dithering \in BOOLEAN /\ Prompt \in BOOLEAN
  /\ MaxStarts \in Nat /\ MaxStops \in Nat /\ MaxTemps \in Nat
  /\ MaxHists \in Nat /\ MaxErrors \in Nat /\ MaxHangs \in Nat

(* The switch of ccdcontrol: a two-digit code is a range of filter wheel   *)
(* positions, any other number is that one position (0: no filter wheel).  *)
Ranges == {13, 23, 14, 24, 34}
FirstFilter(f) == IF f \in Ranges THEN f \div 10 ELSE f
LastFilter(f)  == IF f \in Ranges THEN f % 10 ELSE f

NoParams == [filter |-> 0, frames |-> 0]
NoJob    == [pc |-> "none", slot |-> 0, frame |-> 0, params |-> NoParams, base |-> 0]
NoWatch  == [pc |-> "none", i |-> 0]

JobPc == {"none", "new", "filter", "frame", "mark", "poll", "save", "clear",
          "error", "dither", "ending"}
Lines == {"other", "run", "capview", "preview", "error", "busy", "idle"}
Fifo  == {"set", "run", "stop", "isidle", "gettemp", "adu", "getpreview"}

VARIABLES
  statusCcd,     \* the file status_ccd exists
  statusCapture, \* the file status_capture exists
  params,        \* ccd_filter.txt and ccd_nf.txt
  fifo,          \* /tmp/gtkImager
  camera,        \* gtkImager's camera
  log,           \* the last line of CCD_log.txt
  fresh,         \* images in tmp_images that are not in images yet
  saved,         \* images in images
  job,           \* the runs of ccdcontrol
  watcher,       \* the runs of check_idle
  flgCcd,        \* the page's flg_ccd
  answer,        \* the page's newest status request: xmlhttp2
  start,         \* the page's ccd.php
  wanted,        \* its arguments
  stop,          \* the page's stop_ccd.php
  hist,          \* a setHist.php
  count          \* how often each bounded event has happened

pageVars   == <<flgCcd, answer>>
phpVars    == <<start, wanted, stop, hist>>
fileVars   == <<statusCcd, statusCapture, params>>
cameraVars == <<fifo, camera, log>>
imageVars  == <<fresh, saved>>
vars == <<fileVars, cameraVars, imageVars, job, watcher, pageVars, phpVars, count>>

Live(j) == job[j].pc # "none"
Events  == {"start", "stop", "temp", "hist", "error", "hang"}

TypeOK ==
  /\ statusCcd \in BOOLEAN /\ statusCapture \in BOOLEAN
  /\ params \in Requests \cup {NoParams}
  /\ fifo \in Seq(Fifo)
  /\ camera \in {"idle", "exposing", "saving", "stuck"}
  /\ log \in Lines
  /\ fresh \in Nat /\ saved \in Nat
  /\ job \in [Job -> [pc : JobPc, slot : Nat, frame : Nat,
                      params : Requests \cup {NoParams}, base : Nat]]
  /\ watcher \in [Watcher -> [pc : {"none", "ask", "poll"}, i : 0..CheckLimit]]
  /\ flgCcd \in [Page -> BOOLEAN]
  /\ answer \in [Page -> {"none", "asked", "text", "stars"}]
  /\ start \in [Page -> {"none", "guard", "write", "spawn"}]
  /\ wanted \in [Page -> Requests \cup {NoParams}]
  /\ stop \in [Page -> {"none", "kill", "decide"}]
  /\ hist \in {"none", "minadu", "maxadu", "preview"}
  /\ count \in [Events -> Nat]

Init ==
  /\ statusCcd = FALSE /\ statusCapture = FALSE
  /\ params = NoParams
  /\ fifo = <<>> /\ camera = "idle" /\ log = "other"
  /\ fresh = 0 /\ saved = 0
  /\ job = [j \in Job |-> NoJob]
  /\ watcher = [w \in Watcher |-> NoWatch]
  /\ flgCcd = [p \in Page |-> TRUE]
  /\ answer = [p \in Page |-> "none"]
  /\ start = [p \in Page |-> "none"]
  /\ wanted = [p \in Page |-> NoParams]
  /\ stop = [p \in Page |-> "none"]
  /\ hist = "none"
  /\ count = [e \in Events |-> 0]

(* What the sleeps and timers of the code count on.  Settled: before the   *)
(* next click, or the first status request a second after one, ccd.php or  *)
(* stop_ccd.php has run and ccdcontrol has begun.  Slept: gtkImager reads  *)
(* its fifo within the second a program sleeps after writing to it.        *)
(* Waited: within the three seconds of ccdcontrol's longer sleeps, or the  *)
(* eleven of a filter wheel, the camera's image is in its folder and a     *)
(* setHist.php that began before has written both limits (one second       *)
(* apart), which are taken.                                                *)
Settled == Prompt => /\ \A p \in Page : start[p] = "none" /\ stop[p] = "none"
                     /\ \A j \in Job : job[j].pc # "new"
Slept  == Prompt => fifo = <<>>
Waited == Prompt => camera # "saving" /\ hist \notin {"minadu", "maxadu"} /\ fifo = <<>>

Happens(e, max) ==
  /\ count[e] < max
  /\ count' = [count EXCEPT ![e] = @ + 1]

-----------------------------------------------------------------------------
(* The camera: gtkImager takes one command at a time from its fifo and     *)
(* logs the answer.                                                        *)

Echo(cmds) == fifo' = fifo \o cmds

(* A limit of the histogram makes a new preview if there is an image; the  *)
(* rest is acknowledged or refused.  STOP is an error when no capture runs *)
(* and lets the running one come to its end; RUN starts one if none runs.  *)
Answers(cmd) ==
  CASE cmd = "run"        -> IF camera = "idle" THEN {"run"} ELSE {"run", "error"}
    [] cmd = "stop"       -> IF camera \in {"exposing", "stuck"} THEN {"other"} ELSE {"error"}
    [] cmd = "isidle"     -> CASE camera = "idle"   -> {"idle"}
                               [] camera = "saving" -> {"idle", "busy"}
                               [] OTHER             -> {"busy"}
    [] cmd = "adu"        -> {"preview", "other", "error"}
    [] cmd = "getpreview" -> {"other", "error"}
    [] OTHER              -> {"other"}

TakeCommand ==
  /\ fifo # <<>>
  /\ fifo' = Tail(fifo)
  /\ camera' = IF Head(fifo) = "run" /\ camera = "idle" THEN "exposing" ELSE camera
  /\ log' \in Answers(Head(fifo))
  /\ UNCHANGED <<fileVars, imageVars, job, watcher, pageVars, phpVars, count>>

(* An exposure is logged twice: a PREVIEW line when it is read out ...     *)
ExposureEnds ==
  /\ camera = "exposing"
  /\ camera' = "saving"
  /\ log' = "preview"
  /\ UNCHANGED <<fileVars, fifo, imageVars, job, watcher, pageVars, phpVars, count>>

(* ... and a CAPVIEW line when the image is in tmp_images.                 *)
ImageSaved ==
  /\ camera = "saving"
  /\ camera' = "idle"
  /\ log' = "capview"
  /\ fresh' = fresh + 1
  /\ UNCHANGED <<fileVars, fifo, saved, job, watcher, pageVars, phpVars, count>>

ExposureFails ==
  /\ camera = "exposing"
  /\ Happens("error", MaxErrors)
  /\ camera' = "idle"
  /\ log' = "error"
  /\ UNCHANGED <<fileVars, fifo, imageVars, job, watcher, pageVars, phpVars>>

(* The camera no longer answers the driver: no image, and STOP is in vain. *)
CameraHangs ==
  /\ camera = "exposing"
  /\ Happens("hang", MaxHangs)
  /\ camera' = "stuck"
  /\ UNCHANGED <<fileVars, fifo, log, imageVars, job, watcher, pageVars, phpVars>>

-----------------------------------------------------------------------------
(* The page                                                                *)

ClickStart(p) ==
  /\ ~flgCcd[p]
  /\ start[p] = "none"
  /\ Settled
  /\ Happens("start", MaxStarts)
  /\ flgCcd' = [flgCcd EXCEPT ![p] = TRUE]
  /\ answer' = [answer EXCEPT ![p] = "none"]
  /\ start' = [start EXCEPT ![p] = "guard"]
  /\ \E r \in Requests : wanted' = [wanted EXCEPT ![p] = r]
  /\ UNCHANGED <<fileVars, cameraVars, imageVars, job, watcher, stop, hist>>

ClickStop(p) ==
  /\ flgCcd[p]
  /\ stop[p] = "none"
  /\ Settled
  /\ Happens("stop", MaxStops)
  /\ answer' = [answer EXCEPT ![p] = "none"]
  /\ stop' = [stop EXCEPT ![p] = "kill"]
  /\ UNCHANGED <<fileVars, cameraVars, imageVars, job, watcher, flgCcd, start, wanted, hist>>

GetTemp(p) ==
  /\ ~flgCcd[p]
  /\ Settled
  /\ Happens("temp", MaxTemps)
  /\ answer' = [answer EXCEPT ![p] = "none"]
  /\ Echo(<<"gettemp">>)
  /\ UNCHANGED <<fileVars, camera, log, imageVars, job, watcher, flgCcd, phpVars>>

(* ReadCCD, each second while flg_ccd is 1: the new request takes the      *)
(* place of one that is not answered yet.                                  *)
ReadCCD(p) ==
  /\ flgCcd[p]
  /\ Settled
  /\ answer[p] = "none" \/ ~Prompt
  /\ answer' = [answer EXCEPT ![p] = "asked"]
  /\ UNCHANGED <<fileVars, cameraVars, imageVars, job, watcher, flgCcd, phpVars, count>>

ReadCcdPhp(p) ==
  /\ answer[p] = "asked"
  /\ answer' = [answer EXCEPT ![p] = IF statusCcd THEN "text" ELSE "stars"]
  /\ UNCHANGED <<fileVars, cameraVars, imageVars, job, watcher, flgCcd, phpVars, count>>

HandleResponse2(p) ==
  /\ answer[p] \in {"text", "stars"}
  /\ answer' = [answer EXCEPT ![p] = "none"]
  /\ flgCcd' = [flgCcd EXCEPT ![p] = @ /\ answer[p] # "stars"]
  /\ UNCHANGED <<fileVars, cameraVars, imageVars, job, watcher, phpVars, count>>

-----------------------------------------------------------------------------
(* ccd.php, with status_connect there: camset.php has connected a camera.  *)

\* mutant: the check for status_ccd is left out
CameraFreeAlways == TRUE

CameraFree == ~statusCcd

CcdPhpGuard(p) ==
  /\ start[p] = "guard"
  /\ start' = [start EXCEPT ![p] = IF CameraFree THEN "write" ELSE "none"]
  /\ UNCHANGED <<fileVars, cameraVars, imageVars, job, watcher, pageVars, wanted, stop,
                 hist, count>>

CcdPhpWrite(p) ==
  /\ start[p] = "write"
  /\ start' = [start EXCEPT ![p] = "spawn"]
  /\ params' = wanted[p]
  /\ Echo(<<"set">>)
  /\ UNCHANGED <<statusCcd, statusCapture, camera, log, imageVars, job, watcher,
                 pageVars, wanted, stop, hist, count>>

CcdPhpSpawn(p) ==
  /\ start[p] = "spawn"
  /\ start' = [start EXCEPT ![p] = "none"]
  /\ wanted' = [wanted EXCEPT ![p] = NoParams]
  /\ \E j \in Job : ~Live(j) /\ job' = [job EXCEPT ![j] = [NoJob EXCEPT !.pc = "new"]]
  /\ UNCHANGED <<fileVars, cameraVars, imageVars, watcher, pageVars, stop, hist, count>>

-----------------------------------------------------------------------------
(* ccdcontrol.c                                                            *)

Go(j, pc) == job' = [job EXCEPT ![j].pc = pc]

(* The same with new values of the two loops' counters.                    *)
Loop(j, pc, slot, frame) ==
  job' = [job EXCEPT ![j] = [pc |-> pc, slot |-> slot, frame |-> frame,
                             params |-> job[j].params, base |-> job[j].base]]

(* The parameter files are read, then status_ccd is created.               *)
JobBegins(j) ==
  /\ job[j].pc = "new"
  /\ statusCcd' = TRUE
  /\ job' = [job EXCEPT ![j] = [pc |-> "filter", slot |-> FirstFilter(params.filter),
                                frame |-> 1, params |-> params, base |-> saved]]
  /\ UNCHANGED <<statusCapture, params, cameraVars, imageVars, watcher, pageVars, phpVars,
                 count>>

(* sleep(3) or the program that turns the filter wheel.                    *)
ChangeFilter(j) ==
  /\ job[j].pc = "filter"
  /\ \/ /\ job[j].slot <= LastFilter(job[j].params.filter)
        /\ Waited
        /\ Loop(j, "frame", job[j].slot, 1)
     \/ /\ job[j].slot > LastFilter(job[j].params.filter)
        /\ Go(j, "ending")
  /\ UNCHANGED <<fileVars, cameraVars, imageVars, watcher, pageVars, phpVars, count>>

SendRun(j) ==
  /\ job[j].pc = "frame"
  /\ \/ /\ job[j].frame <= job[j].params.frames
        /\ Echo(<<"run">>)
        /\ Go(j, "mark")
     \/ /\ job[j].frame > job[j].params.frames
        /\ Loop(j, "filter", job[j].slot + 1, job[j].frame)
        /\ UNCHANGED fifo
  /\ UNCHANGED <<fileVars, camera, log, imageVars, watcher, pageVars, phpVars, count>>

MarkCapture(j) ==
  /\ job[j].pc = "mark"
  /\ statusCapture' = TRUE
  /\ Go(j, "poll")
  /\ UNCHANGED <<statusCcd, params, cameraVars, imageVars, watcher, pageVars, phpVars, count>>

\* mutants: CA is not looked for; the answer to RUN itself is taken for the end of the exposure
DoneLinesPreview == {"preview"}
DoneLinesRun == {"capview", "preview", "run"}

DoneLines == {"capview", "preview"}

(* Once a second: no status_capture ends the loop; a log line beginning    *)
(* with CA or PR makes the program remove it itself.                       *)
Poll(j) ==
  /\ job[j].pc = "poll"
  /\ Slept
  /\ \/ /\ ~statusCapture
        /\ Go(j, "save")
        /\ UNCHANGED statusCapture
     \/ /\ statusCapture /\ log \in DoneLines
        /\ statusCapture' = FALSE
        /\ UNCHANGED job
     \/ /\ statusCapture /\ log = "error"
        /\ Go(j, "error")
        /\ UNCHANGED statusCapture
  /\ UNCHANGED <<statusCcd, params, cameraVars, imageVars, watcher, pageVars, phpVars, count>>

\* mutant: status_ccd stays behind
JobFailsKeepsStatus(j) ==
  /\ job[j].pc = "error"
  /\ statusCapture' = FALSE
  /\ job' = [job EXCEPT ![j] = NoJob]
  /\ UNCHANGED <<statusCcd, params, cameraVars, imageVars, watcher, pageVars, phpVars, count>>

JobFails(j) ==
  /\ job[j].pc = "error"
  /\ statusCapture' = FALSE /\ statusCcd' = FALSE
  /\ job' = [job EXCEPT ![j] = NoJob]
  /\ UNCHANGED <<params, cameraVars, imageVars, watcher, pageVars, phpVars, count>>

(* After sleep(3).                                                         *)
Copy(j) ==
  /\ job[j].pc = "save"
  /\ Waited
  /\ saved' = saved + fresh
  /\ fresh' = 0
  /\ Go(j, "clear")
  /\ UNCHANGED <<fileVars, cameraVars, watcher, pageVars, phpVars, count>>

(* rm tmp_images; the frame is counted; with more than one frame a dither  *)
(* may come before the delay.                                              *)
Clear(j) ==
  /\ job[j].pc = "clear"
  /\ fresh' = 0
  /\ LET next == IF Dithering /\ job[j].params.frames > 1 THEN "dither" ELSE "frame"
     IN  Loop(j, next, job[j].slot, job[j].frame + 1)
  /\ UNCHANGED <<fileVars, cameraVars, saved, watcher, pageVars, phpVars, count>>

(* system("remote_client 4") returns.                                      *)
DitherDone(j) ==
  /\ job[j].pc = "dither"
  /\ Go(j, "frame")
  /\ UNCHANGED <<fileVars, cameraVars, imageVars, watcher, pageVars, phpVars, count>>

JobEnds(j) ==
  /\ job[j].pc = "ending"
  /\ statusCcd' = FALSE
  /\ job' = [job EXCEPT ![j] = NoJob]
  /\ UNCHANGED <<statusCapture, params, cameraVars, imageVars, watcher, pageVars, phpVars,
                 count>>

-----------------------------------------------------------------------------
(* stop_ccd.php and check_idle.c                                           *)

(* kill_ccd.sh: every ccdcontrol that runs at this moment.                 *)
StopKill(p) ==
  /\ stop[p] = "kill"
  /\ stop' = [stop EXCEPT ![p] = "decide"]
  /\ job' = [j \in Job |-> NoJob]
  /\ UNCHANGED <<fileVars, cameraVars, imageVars, watcher, pageVars, start, wanted, hist,
                 count>>

StopDecide(p) ==
  /\ stop[p] = "decide"
  /\ stop' = [stop EXCEPT ![p] = "none"]
  /\ \/ /\ statusCapture
        /\ Echo(<<"stop", "stop">>)
        /\ \E w \in Watcher : /\ watcher[w].pc = "none"
                              /\ watcher' = [watcher EXCEPT ![w] = [pc |-> "ask", i |-> 1]]
        /\ UNCHANGED statusCcd
     \/ /\ ~statusCapture
        /\ statusCcd' = FALSE
        /\ UNCHANGED <<fifo, watcher>>
  /\ UNCHANGED <<statusCapture, params, camera, log, imageVars, job, pageVars, start,
                 wanted, hist, count>>

AskIdle(w) ==
  /\ watcher[w].pc = "ask"
  /\ Slept
  /\ Echo(<<"isidle">>)
  /\ watcher' = [watcher EXCEPT ![w].pc = "poll"]
  /\ UNCHANGED <<fileVars, camera, log, imageVars, job, pageVars, phpVars, count>>

(* i = i + 1; if (i >= timeout)                                            *)
GivesUp(w) == watcher[w].i + 1 >= CheckLimit

\* mutant: only status_capture is removed
RemoveCapture == statusCapture' = FALSE /\ UNCHANGED statusCcd

RemoveBoth == statusCapture' = FALSE /\ statusCcd' = FALSE

(* A look at the log.  Idle, or the timeout reached: both status files     *)
(* are removed, whoever made them, and the program ends.                   *)
CheckIdle(w) ==
  /\ watcher[w].pc = "poll"
  /\ Slept
  /\ \/ /\ log = "idle"
        /\ RemoveBoth
        /\ watcher' = [watcher EXCEPT ![w] = NoWatch]
        /\ UNCHANGED fifo
     \/ /\ log # "idle" /\ GivesUp(w)
        /\ Echo(<<"isidle">>)
        /\ RemoveBoth
        /\ watcher' = [watcher EXCEPT ![w] = NoWatch]
     \/ /\ log # "idle" /\ ~GivesUp(w)
        /\ Echo(<<"isidle">>)
        /\ watcher' = [watcher EXCEPT ![w].i = @ + 1]
        /\ UNCHANGED <<statusCapture, statusCcd>>
  /\ UNCHANGED <<params, camera, log, imageVars, job, pageVars, phpVars, count>>

-----------------------------------------------------------------------------
(* setHist.php, from the image viewer, looks at status_ccd once: the rest  *)
(* of it comes seconds later.                                              *)
SetHist ==
  /\ hist = "none"
  /\ Happens("hist", MaxHists)
  /\ hist' = IF ~statusCcd THEN "minadu" ELSE "none"
  /\ UNCHANGED <<fileVars, cameraVars, imageVars, job, watcher, pageVars, start, wanted,
                 stop>>

(* MINADU, a second, MAXADU.                                               *)
SetAdu ==
  /\ hist \in {"minadu", "maxadu"}
  /\ hist' = IF hist = "minadu" THEN "maxadu" ELSE "preview"
  /\ Echo(<<"adu">>)
  /\ UNCHANGED <<fileVars, camera, log, imageVars, job, watcher, pageVars, start, wanted,
                 stop, count>>

(* minmaxadu_check returns when the last line of the log is a PR line and  *)
(* also after four looks: GETPREVIEW is written in any case.  hist_check   *)
(* then looks for its GE line, for the viewer's eyes only.                 *)
GetPreview ==
  /\ hist = "preview"
  /\ hist' = "none"
  /\ Echo(<<"getpreview">>)
  /\ UNCHANGED <<fileVars, camera, log, imageVars, job, watcher, pageVars, start, wanted,
                 stop, count>>

-----------------------------------------------------------------------------
CameraStep == TakeCommand \/ ExposureEnds \/ ImageSaved \/ ExposureFails \/ CameraHangs
PageStep(p) == ClickStart(p) \/ ClickStop(p) \/ GetTemp(p)
ServedStep(p) ==
  ReadCcdPhp(p) \/ HandleResponse2(p) \/ CcdPhpGuard(p) \/ CcdPhpWrite(p)
    \/ CcdPhpSpawn(p) \/ StopKill(p) \/ StopDecide(p)
JobStep(j) ==
  JobBegins(j) \/ ChangeFilter(j) \/ SendRun(j) \/ MarkCapture(j) \/ Poll(j)
    \/ JobFails(j) \/ Copy(j) \/ Clear(j) \/ JobEnds(j)
WatchStep(w) == AskIdle(w) \/ CheckIdle(w)

Next ==
  \/ CameraStep
  \/ \E p \in Page : PageStep(p) \/ ReadCCD(p) \/ ServedStep(p)
  \/ \E j \in Job : JobStep(j) \/ DitherDone(j)
  \/ \E w \in Watcher : WatchStep(w)
  \/ SetHist \/ SetAdu \/ GetPreview

(* Processes run, pages poll while flg_ccd is 1, the camera reads its fifo *)
(* and an exposure comes to an end unless the camera hangs.  Nobody has to *)
(* click anything, and nothing is promised of the guide server's answer.   *)
Fairness ==
  /\ WF_vars(TakeCommand) /\ WF_vars(ExposureEnds) /\ WF_vars(ImageSaved)
  /\ WF_vars(SetAdu) /\ WF_vars(GetPreview)
  /\ \A p \in Page : /\ SF_vars(ReadCCD(p)) /\ WF_vars(ReadCcdPhp(p))
                     /\ WF_vars(HandleResponse2(p)) /\ WF_vars(CcdPhpGuard(p))
                     /\ WF_vars(CcdPhpWrite(p)) /\ WF_vars(CcdPhpSpawn(p))
                     /\ WF_vars(StopKill(p)) /\ WF_vars(StopDecide(p))
  /\ \A j \in Job : /\ WF_vars(JobStep(j)) /\ SF_vars(Poll(j))
  /\ \A w \in Watcher : SF_vars(WatchStep(w))

Spec == Init /\ [][Next]_vars
FairSpec == Spec /\ Fairness
-----------------------------------------------------------------------------
(* Properties                                                              *)

(* ccd.php, setHist.php and the page all decide by status_ccd whether the  *)
(* camera is in use, and iAstroHub_ccd.html:386 answers "Camera is busy."  *)
(* instead of starting a second sequence: two never run at once, and from  *)
(* its first step on the one that runs is never without the file,          *)
(* whichever of ccdcontrol, stop_ccd.php and check_idle removes it.        *)
OneSequence ==
  /\ \A i, j \in Job : Live(i) /\ Live(j) => i = j
  /\ \A j \in Job : job[j].pc \notin {"none", "new", "error"} => statusCcd

(* A sequence that says Done has put as many images into the archive as    *)
(* were asked for: each filter of the range, each frame.                   *)
AllFramesSaved ==
  \A j \in Job : job[j].pc = "ending" =>
    LET r == job[j].params
    IN saved - job[j].base >= (LastFilter(r.filter) + 1 - FirstFilter(r.filter)) * r.frames

(* Whatever the camera does, stopping releases it: check_idle removes      *)
(* status_ccd when the camera is idle or after its timeout.                *)
StopReleases == \A p \in Page : stop[p] = "decide" ~> ~statusCcd

(* Every sequence comes to an end unless the camera hangs: the end of each *)
(* exposure is seen in the log although only its last line is looked at.   *)
SequenceEnds == \A j \in Job : Live(j) ~> (~Live(j) \/ camera = "stuck")

(* The page becomes usable again after every sequence, also one that       *)
(* failed or was stopped.                                                  *)
PageReleased == \A p \in Page : flgCcd[p] ~> (~flgCcd[p] \/ camera = "stuck")
=============================================================================
