---------------------------- MODULE DslrImaging ----------------------------
(***************************************************************************)
(* An imaging sequence with a DSLR: the page iAstroHub_dslr.html, its      *)
(* handlers dslr.php, stop_dslr.php and read_dslr.php, the daemon          *)
(* monitor_camera.c that starts the sequence program, that program in the  *)
(* three forms setdslrN.php installs (dslr1.c with shutterN.sh, dslrds.c,  *)
(* dslr_usb0.c), the downloaders (dslr_getphoto.sh with gphoto2, else      *)
(* dslrds_getphoto.sh) and kill_dslrN.sh.                                  *)
(*                                                                         *)
(* They share the files startdslr, status_dslr, status_mlu and             *)
(* status_loading, the camera, and the habit of killing each other by      *)
(* name.                                                                   *)
(***************************************************************************)
EXTENDS Naturals, FiniteSets

CONSTANTS
  Page,      \* browser tabs showing iAstroHub_dslr.html
  Job,       \* bound: runs of dslr alive at once
  Loader,    \* bound: runs of the downloader alive at once
  Drivers,   \* what setdslrN.php has installed: "gphoto", "ds" (dsusb, rf), "usb" (RTS)
  Frames,    \* the numbers of frames users ask for
  Mlu, Dithering, \* these files exist
  Download,  \* the file download exists at first
  Prompt,    \* the sleeps of the code are long enough: see Settled
  MaxStarts, MaxStops, MaxErrors, MaxReboots, MaxToggles \* bounds: how often each is tried

ASSUME DslrImagingAssumption ==
  /\ Drivers \subseteq {"gphoto", "ds", "usb"}
  /\ Frames \subseteq Nat \ {0}
  /\ {Mlu, Download, Dithering, Prompt} \subseteq BOOLEAN
  /\ {MaxStarts, MaxStops, MaxErrors, MaxReboots, MaxToggles} \subseteq Nat

VARIABLES
  driver,    \* how the shutter is driven, chosen once
  startdslr, \* the file startdslr exists
  wantedNf,  \* dslr_nf.txt
  download,  \* the file download exists: photos are fetched
  statusDslr, statusMlu, statusLoading, \* these files exist
  monitor,   \* monitor_camera
  job,       \* the runs of dslr, with the shutter script each has called
  loader,    \* the runs of the downloader
  shutter,   \* the camera's shutter; "timed": gphoto2 runs on its own and will close it
  taken,     \* photos on the card
  fetched,   \* how many had been taken when the newest photo was downloaded
  missed,    \* how many when a downloader last found no camera or no photo
  flgCcd, answer, \* the page's flg_ccd and its newest status request
  start, asked,   \* the page's dslr.php and its arguments
  stop,      \* the page's stop_dslr.php
  count      \* how often each bounded event has happened

statusVars == <<statusDslr, statusMlu, statusLoading>>
requestVars == <<startdslr, wantedNf, download>>
cameraVars == <<shutter, taken, fetched, missed>>
pageVars   == <<flgCcd, answer>>
phpVars    == <<start, asked, stop>>
vars == <<driver, requestVars, statusVars, monitor, job, loader, cameraVars, pageVars, phpVars,
          count>>

NoJob   == [pc |-> "none", i |-> 0, n |-> 0]
Live(j) == job[j].pc # "none"
Events  == {"start", "stop", "error", "reboot", "toggle"}

TypeOK ==
  /\ driver \in Drivers
  /\ {startdslr, download, statusDslr, statusMlu, statusLoading} \subseteq BOOLEAN
  /\ shutter \in {"closed", "open", "timed"}
  /\ wantedNf \in Frames \cup {0}
  /\ monitor \in {"look", "remove"}
  /\ job \in [Job -> [pc : {"none", "new", "frame", "mlu", "open", "expose", "after",
                            "wait", "dither", "ending"},
                      i : Nat, n : Frames \cup {0}]]
  /\ loader \in [Loader -> {"none", "new", "load"}]
  /\ taken \in Nat /\ {fetched, missed} \subseteq 0..taken
  /\ flgCcd \in [Page -> BOOLEAN]
  /\ answer \in [Page -> {"none", "asked", "text", "stars"}]
  /\ start \in [Page -> {"none", "guard", "write"}]
  /\ asked \in [Page -> Frames \cup {0}]
  /\ stop \in [Page -> {"none", "guard", "kill", "release", "rest", "clean"}]
  /\ count \in [Events -> Nat]

Idle(f) == f = [p \in Page |-> "none"]

Init ==
  /\ driver \in Drivers
  /\ startdslr = FALSE /\ wantedNf = 0 /\ download = Download
  /\ statusDslr = FALSE /\ statusMlu = FALSE /\ statusLoading = FALSE
  /\ monitor = "look"
  /\ job = [j \in Job |-> NoJob]
  /\ loader = [l \in Loader |-> "none"]
  /\ shutter = "closed" /\ taken = 0 /\ fetched = 0 /\ missed = 0
  /\ flgCcd = [p \in Page |-> TRUE]
  /\ answer = [p \in Page |-> "none"]
  /\ Idle(start) /\ asked = [p \in Page |-> 0] /\ Idle(stop)
  /\ count = [e \in Events |-> 0]

(* What the timers count on: before the next click, and before the first   *)
(* status request a second after one, the handlers have ended,             *)
(* monitor_camera (which looks once a second) has taken startdslr and the  *)
(* program it started has made status_dslr.                                *)
Settled == Prompt => /\ Idle(start) /\ Idle(stop) /\ ~startdslr /\ monitor = "look"
                     /\ \A j \in Job : job[j].pc # "new"

Happens(e, max) ==
  /\ count[e] < max
  /\ count' = [count EXCEPT ![e] = @ + 1]

-----------------------------------------------------------------------------
(* The page and its handlers                                               *)

ClickStart(p) ==
  /\ ~flgCcd[p] /\ start[p] = "none"
  /\ Settled
  /\ Happens("start", MaxStarts)
  /\ flgCcd' = [flgCcd EXCEPT ![p] = TRUE]
  /\ answer' = [answer EXCEPT ![p] = "none"]
  /\ start' = [start EXCEPT ![p] = "guard"]
  /\ \E n \in Frames : asked' = [asked EXCEPT ![p] = n]
  /\ UNCHANGED <<driver, requestVars, statusVars, monitor, job, loader, cameraVars, stop>>

ClickStop(p) ==
  /\ flgCcd[p] /\ stop[p] = "none"
  /\ Settled
  /\ Happens("stop", MaxStops)
  /\ answer' = [answer EXCEPT ![p] = "none"]
  /\ stop' = [stop EXCEPT ![p] = "guard"]
  /\ UNCHANGED <<driver, requestVars, statusVars, monitor, job, loader, cameraVars, flgCcd, start,
                 asked>>

(* ReadCCD: the new request takes the place of an unanswered one.          *)
ReadCCD(p) ==
  /\ flgCcd[p]
  /\ Settled
  /\ answer[p] = "none" \/ ~Prompt
  /\ answer' = [answer EXCEPT ![p] = "asked"]
  /\ UNCHANGED <<driver, requestVars, statusVars, monitor, job, loader, cameraVars, flgCcd,
                 phpVars, count>>

ReadDslrPhp(p) ==
  /\ answer[p] = "asked"
  /\ answer' = [answer EXCEPT ![p] = IF statusDslr THEN "text" ELSE "stars"]
  /\ UNCHANGED <<driver, requestVars, statusVars, monitor, job, loader, cameraVars, flgCcd,
                 phpVars, count>>

HandleResponse2(p) ==
  /\ answer[p] \in {"text", "stars"}
  /\ answer' = [answer EXCEPT ![p] = "none"]
  /\ flgCcd' = [flgCcd EXCEPT ![p] = @ /\ answer[p] # "stars"]
  /\ UNCHANGED <<driver, requestVars, statusVars, monitor, job, loader, cameraVars, phpVars,
                 count>>

\* mutant: the check for status_dslr is left out
DslrFreeAlways == TRUE

DslrFree == ~statusDslr

DslrPhpGuard(p) ==
  /\ start[p] = "guard"
  /\ start' = [start EXCEPT ![p] = IF DslrFree THEN "write" ELSE "none"]
  /\ UNCHANGED <<driver, requestVars, statusVars, monitor, job, loader, cameraVars, pageVars,
                 asked, stop, count>>

DslrPhpWrite(p) ==
  /\ start[p] = "write"
  /\ start' = [start EXCEPT ![p] = "none"]
  /\ asked' = [asked EXCEPT ![p] = 0]
  /\ wantedNf' = asked[p]
  /\ startdslr' = TRUE
  /\ UNCHANGED <<driver, download, statusVars, monitor, job, loader, cameraVars, pageVars, stop,
                 count>>

(* download.php: the button that turns fetching on and off, at any time.   *)
ToggleDownload ==
  /\ Happens("toggle", MaxToggles)
  /\ download' = ~download
  /\ UNCHANGED <<driver, startdslr, wantedNf, statusVars, monitor, job, loader, cameraVars,
                 pageVars, phpVars>>

(* monitor_camera: the program is started, then the request is removed.    *)
MonitorLook ==
  /\ monitor = "look"
  /\ startdslr
  /\ monitor' = "remove"
  /\ \E j \in Job : ~Live(j) /\ job' = [job EXCEPT ![j].pc = "new"]
  /\ UNCHANGED <<driver, requestVars, statusVars, loader, cameraVars, pageVars, phpVars, count>>

MonitorRemove ==
  /\ monitor = "remove"
  /\ monitor' = "look"
  /\ startdslr' = FALSE
  /\ UNCHANGED <<driver, wantedNf, download, statusVars, job, loader, cameraVars, pageVars,
                 phpVars, count>>

-----------------------------------------------------------------------------
(* The sequence program                                                    *)

Go(j, pc) == job' = [job EXCEPT ![j].pc = pc]

\* mutant: the program does not create status_dslr
JobBeginsQuiet(j) ==
  /\ job[j].pc = "new"
  /\ job' = [job EXCEPT ![j] = [pc |-> "frame", i |-> 1, n |-> wantedNf]]
  /\ UNCHANGED <<driver, requestVars, statusVars, monitor, loader, cameraVars, pageVars, phpVars,
                 count>>

JobBegins(j) ==
  /\ job[j].pc = "new"
  /\ statusDslr' = TRUE
  /\ job' = [job EXCEPT ![j] = [pc |-> "frame", i |-> 1, n |-> wantedNf]]
  /\ UNCHANGED <<driver, requestVars, statusMlu, statusLoading, monitor, loader, cameraVars,
                 pageVars, phpVars, count>>

(* The head of the loop, two seconds after the start; with mirror lock-up, *)
(* a first pulse of the shutter line under status_mlu.                     *)
NextFrame(j) ==
  /\ job[j].pc = "frame"
  /\ Prompt => monitor = "look"
  /\ \/ /\ job[j].i > job[j].n
        /\ Go(j, "ending")
        /\ UNCHANGED statusMlu
     \/ /\ job[j].i <= job[j].n
        /\ Mlu /\ driver # "gphoto"
        /\ statusMlu' = TRUE
        /\ Go(j, "mlu")
     \/ /\ job[j].i <= job[j].n
        /\ ~Mlu \/ driver = "gphoto"
        /\ Go(j, "open")
        /\ UNCHANGED statusMlu
  /\ UNCHANGED <<driver, requestVars, statusDslr, statusLoading, monitor, loader, cameraVars,
                 pageVars, phpVars, count>>

MirrorUp(j) ==
  /\ job[j].pc = "mlu"
  /\ statusMlu' = FALSE
  /\ Go(j, "open")
  /\ UNCHANGED <<driver, requestVars, statusDslr, statusLoading, monitor, loader, cameraVars,
                 pageVars, phpVars, count>>

OpenShutter(j) ==
  /\ job[j].pc = "open"
  /\ shutter' = "open"
  /\ Go(j, "expose")
  /\ UNCHANGED <<driver, requestVars, statusVars, monitor, loader, taken, fetched, missed, pageVars,
                 phpVars, count>>

CloseShutter(j) ==
  /\ job[j].pc = "expose"
  /\ shutter' = "closed"
  /\ taken' = taken + 1
  /\ Go(j, "after")
  /\ UNCHANGED <<driver, requestVars, statusVars, monitor, loader, fetched, missed, pageVars,
                 phpVars, count>>

\* mutant: shutterN.sh does not remove status_loading
RemoveStatusOnly == statusDslr' = FALSE /\ UNCHANGED statusLoading

RemoveStatus == statusDslr' = FALSE /\ statusLoading' = FALSE

(* shutterN.sh: gphoto2 reports an error; every process with dslr in its   *)
(* name is killed and the status files are removed.                        *)
ShutterError(j) ==
  /\ driver = "gphoto"
  /\ job[j].pc = "expose"
  /\ Happens("error", MaxErrors)
  /\ shutter' = "closed"
  /\ job' = [i \in Job |-> NoJob]
  /\ loader' = [l \in Loader |-> "none"]
  /\ RemoveStatus
  /\ UNCHANGED <<driver, requestVars, statusMlu, monitor, taken, fetched, missed, pageVars,
                 phpVars>>

(* After the delay: the downloader is started in the background, or not.   *)
Delay(j) ==
  /\ job[j].pc = "after"
  /\ Go(j, "wait")
  /\ \/ /\ download
        /\ \E l \in Loader : loader[l] = "none" /\ loader' = [loader EXCEPT ![l] = "new"]
     \/ ~download /\ UNCHANGED loader
  /\ UNCHANGED <<driver, requestVars, statusVars, monitor, cameraVars, pageVars, phpVars, count>>

\* mutants: the wait for status_loading is left out, or the sleep before it
LoadedAlways == TRUE
LoadedNoSleep == ~statusLoading

(* sleep(7) lets the downloader make status_loading; the loop waits until  *)
(* it is gone.                                                             *)
Loaded == /\ Prompt => \A l \in Loader : loader[l] # "new"
          /\ ~statusLoading

AwaitDownload(j) ==
  /\ job[j].pc = "wait"
  /\ Loaded
  /\ job' = [job EXCEPT ![j] =
       [pc |-> IF Dithering /\ job[j].i < job[j].n THEN "dither" ELSE "frame",
        i |-> job[j].i + 1, n |-> job[j].n]]
  /\ UNCHANGED <<driver, requestVars, statusVars, monitor, loader, cameraVars, pageVars, phpVars,
                 count>>

(* system("remote_client 4") returns.                                      *)
DitherDone(j) ==
  /\ job[j].pc = "dither"
  /\ Go(j, "frame")
  /\ UNCHANGED <<driver, requestVars, statusVars, monitor, loader, cameraVars, pageVars, phpVars,
                 count>>

JobEnds(j) ==
  /\ job[j].pc = "ending"
  /\ statusDslr' = FALSE
  /\ job' = [job EXCEPT ![j] = NoJob]
  /\ UNCHANGED <<driver, requestVars, statusMlu, statusLoading, monitor, loader, cameraVars,
                 pageVars, phpVars, count>>

-----------------------------------------------------------------------------
(* The downloader: it fetches the newest photo on the card.                *)

(* dslrds_getphoto.sh gives up at once when gphoto2 detects no camera.     *)
LoadBegins(l) ==
  /\ loader[l] = "new"
  /\ \/ /\ statusLoading' = TRUE
        /\ loader' = [loader EXCEPT ![l] = "load"]
        /\ UNCHANGED missed
     \/ /\ driver # "gphoto"
        /\ missed' = taken
        /\ loader' = [loader EXCEPT ![l] = "none"]
        /\ UNCHANGED statusLoading
  /\ UNCHANGED <<driver, requestVars, statusDslr, statusMlu, monitor, job, shutter, taken, fetched,
                 pageVars, phpVars, count>>

(* The photo is fetched, or there is none: "No JPG file!"                  *)
LoadEnds(l) ==
  /\ loader[l] = "load"
  /\ statusLoading' = FALSE
  /\ \/ fetched' = taken /\ UNCHANGED missed
     \/ missed' = taken /\ UNCHANGED fetched
  /\ loader' = [loader EXCEPT ![l] = "none"]
  /\ UNCHANGED <<driver, requestVars, statusDslr, statusMlu, monitor, job, shutter, taken,
                 pageVars, phpVars, count>>

-----------------------------------------------------------------------------
(* stop_dslr.php and the installed kill_dslr.sh, which takes its time: the *)
(* sequence goes on between its steps.                                     *)

StopGo(p, pc) == stop' = [stop EXCEPT ![p] = pc]

StopGuard(p) ==
  /\ stop[p] = "guard"
  /\ StopGo(p, IF statusMlu THEN "none" ELSE IF driver = "gphoto" THEN "kill" ELSE "release")
  /\ UNCHANGED <<driver, requestVars, statusVars, monitor, job, loader, cameraVars, pageVars,
                 start, asked, count>>

(* kill gphoto2: the shutter script of a running exposure loses its        *)
(* program, and dslr1 goes on as if the exposure were over.                *)
KillGphoto(p) ==
  /\ stop[p] = "kill"
  /\ StopGo(p, "release")
  /\ job' = [j \in Job |-> IF job[j].pc = "expose" THEN [job[j] EXCEPT !.pc = "after"]
                                                   ELSE job[j]]
  /\ shutter' = IF shutter = "timed" THEN "open" ELSE shutter
  /\ UNCHANGED <<driver, requestVars, statusVars, monitor, loader, taken, fetched, missed, pageVars,
                 start, asked, count>>

\* mutant: the shutter is not released
ReleasedNot == shutter

Released == IF driver = "usb" THEN shutter ELSE "closed"

ReleaseShutter(p) ==
  /\ stop[p] = "release"
  /\ StopGo(p, "rest")
  /\ shutter' = Released
  /\ UNCHANGED <<driver, requestVars, statusVars, monitor, job, loader, taken, fetched, missed,
                 pageVars, start, asked, count>>

\* mutant: the line is held by a helper whose name the pattern misses
KillRestHelper(p) ==
  /\ stop[p] = "rest"
  /\ StopGo(p, "clean")
  /\ job' = [j \in Job |-> NoJob]
  /\ loader' = [l \in Loader |-> "none"]
  /\ UNCHANGED <<driver, requestVars, statusVars, monitor, cameraVars, pageVars, start, asked,
                 count>>

(* Shutter scripts, downloaders and dslr itself; a program that held the   *)
(* serial port open drops RTS with it.  gphoto2 is not killed again.       *)
KillRest(p) ==
  /\ stop[p] = "rest"
  /\ StopGo(p, "clean")
  /\ job' = [j \in Job |-> NoJob]
  /\ loader' = [l \in Loader |-> "none"]
  /\ shutter' = CASE driver = "usb" -> "closed"
                  [] driver = "gphoto" /\ \E j \in Job : job[j].pc = "expose" -> "timed"
                  [] OTHER -> shutter
  /\ UNCHANGED <<driver, requestVars, statusVars, monitor, taken, fetched, missed, pageVars, start,
                 asked, count>>

StopClean(p) ==
  /\ stop[p] = "clean"
  /\ StopGo(p, "none")
  /\ RemoveStatus
  /\ UNCHANGED <<driver, requestVars, statusMlu, monitor, job, loader, cameraVars, pageVars,
                 start, asked, count>>

(* gphoto2 is told the whole exposure in one command: also without its     *)
(* script it closes the shutter at the end.                                *)
OrphanCloses ==
  /\ shutter = "timed"
  /\ shutter' = "closed"
  /\ UNCHANGED <<driver, requestVars, statusVars, monitor, job, loader, taken, fetched, missed,
                 pageVars, phpVars, count>>

-----------------------------------------------------------------------------
\* mutant: rc.local clears status_dslr only
BootClearsDslr == statusDslr' = FALSE /\ UNCHANGED statusLoading

(* rc.local clears these two; startdslr and status_mlu stay as they are.   *)
BootClears == statusDslr' = FALSE /\ statusLoading' = FALSE

(* The power fails and comes back: only files survive.                     *)
Reboot ==
  /\ Happens("reboot", MaxReboots)
  /\ BootClears
  /\ monitor' = "look"
  /\ job' = [j \in Job |-> NoJob]
  /\ loader' = [l \in Loader |-> "none"]
  /\ shutter' = "closed"
  /\ start' = [p \in Page |-> "none"] /\ asked' = [p \in Page |-> 0]
  /\ stop' = [p \in Page |-> "none"]
  /\ answer' = [p \in Page |-> "none"]
  /\ UNCHANGED <<driver, requestVars, statusMlu, taken, fetched, missed, flgCcd>>

-----------------------------------------------------------------------------
PageStep(p) == ClickStart(p) \/ ClickStop(p)
ServedStep(p) ==
  ReadDslrPhp(p) \/ HandleResponse2(p) \/ DslrPhpGuard(p) \/ DslrPhpWrite(p) \/ StopGuard(p)
    \/ KillGphoto(p) \/ ReleaseShutter(p) \/ KillRest(p) \/ StopClean(p)
JobStep(j) ==
  JobBegins(j) \/ NextFrame(j) \/ MirrorUp(j) \/ OpenShutter(j) \/ CloseShutter(j)
    \/ Delay(j) \/ AwaitDownload(j) \/ JobEnds(j)
LoadStep(l) == LoadBegins(l) \/ LoadEnds(l)

Next ==
  \/ \E p \in Page : PageStep(p) \/ ReadCCD(p) \/ ServedStep(p)
  \/ ToggleDownload \/ MonitorLook \/ MonitorRemove
  \/ \E j \in Job : JobStep(j) \/ ShutterError(j) \/ DitherDone(j)
  \/ \E l \in Loader : LoadStep(l)
  \/ OrphanCloses \/ Reboot

(* Processes run and pages poll while flg_ccd is 1; nobody has to click    *)
(* and nothing is promised of the guide server's answer.                   *)
Fairness ==
  /\ WF_vars(MonitorLook) /\ WF_vars(MonitorRemove) /\ WF_vars(OrphanCloses)
  /\ \A p \in Page : /\ SF_vars(ReadCCD(p)) /\ WF_vars(ReadDslrPhp(p))
                     /\ WF_vars(HandleResponse2(p)) /\ WF_vars(DslrPhpGuard(p))
                     /\ WF_vars(DslrPhpWrite(p)) /\ WF_vars(StopGuard(p))
                     /\ WF_vars(KillGphoto(p)) /\ WF_vars(ReleaseShutter(p))
                     /\ WF_vars(KillRest(p)) /\ WF_vars(StopClean(p))
  /\ \A j \in Job : WF_vars(JobStep(j))
  /\ \A l \in Loader : WF_vars(LoadStep(l))

Spec == Init /\ [][Next]_vars
FairSpec == Spec /\ Fairness
-----------------------------------------------------------------------------
(* Properties                                                              *)

(* The request goes through a file and a daemon, and whoever removes       *)
(* status_dslr (the program, its shutter script, stop_dslr.php or rc.local *)
(* at boot) does not look whose it is: still two sequences never drive the *)
(* shutter at the same time, and from its first step on a sequence that is *)
(* alive is never without the file.                                        *)
OneSequence ==
  /\ \A i, j \in Job : Live(i) /\ Live(j) => i = j
  /\ \A j \in Job : job[j].pc \notin {"none", "new"} => statusDslr

(* The downloader and the shutter both talk to the camera: no photo is     *)
(* downloaded while the next one is being exposed.                         *)
NoDownloadWhileExposing ==
  \A j \in Job : job[j].pc \in {"expose", "mlu"} => \A l \in Loader : loader[l] = "none"

(* With download on all the time, a sequence does not say Done before the  *)
(* photo of its last frame has been fetched, unless the downloader itself, *)
(* after that frame, found no camera or no photo on it.                    *)
LastPhotoSought ==
  Download /\ count["toggle"] = 0 =>
    \A j \in Job : job[j].pc = "ending" => taken \in {fetched, missed}

(* Every sequence comes to an end: no path, a stop, a camera error or a    *)
(* power cut in the middle of a download, leaves a status_loading behind   *)
(* on which a later sequence, with download turned off, would wait for     *)
(* ever.                                                                   *)
SequenceEnds == \A j \in Job : job[j].pc \notin {"none", "dither"} ~> job[j].pc \in {"none", "dither"}

(* A request that dslr.php has written becomes a running sequence, if the  *)
(* power stays on: the daemon's remove() does not take a request it has    *)
(* not started, and one that survived a power cut is started too.          *)
RequestRuns == (startdslr /\ count["reboot"] = MaxReboots) ~> statusDslr

(* After a stop that is not refused the shutter does not stay open, though *)
(* the sequence may open it once more between the release and the kill.    *)
StopCloses == \A p \in Page : stop[p] = "clean" ~> shutter = "closed"
=============================================================================
