----------------------------- MODULE CcdProofs -----------------------------
(***************************************************************************)
(* For every number of tabs, sequences, requests, exposures, errors and    *)
(* hangs, with users who wait (Prompt) and one stop: type correctness, and *)
(* that the file status_ccd keeps two sequences apart.  The file is made   *)
(* by a program started after the test for it, and removed by three        *)
(* programs that do not look whose it is; the invariant says why none of   *)
(* them meets another.                                                     *)
(***************************************************************************)
EXTENDS CcdImaging, TLAPS

(* With a second stop, its watcher may remove the file of a later sequence.*)
Waits == Prompt /\ MaxStops <= 1

(* A click is served before the next one.                                  *)
OneClick ==
  /\ \A p, q \in Page : start[p] # "none" /\ start[q] # "none" => p = q
  /\ \A p, q \in Page : stop[p] # "none" /\ stop[q] # "none" => p = q
  /\ \A p, q \in Page : start[p] # "none" => stop[q] = "none"

(* From the guard of ccd.php to the start of ccdcontrol nobody uses the    *)
(* camera: no file, no program, no watcher that could remove the file.     *)
Clear4Start ==
  \A p \in Page : start[p] \in {"write", "spawn"} =>
    /\ ~statusCcd
    /\ \A j \in Job : job[j].pc = "none"
    /\ \A w \in Watcher : watcher[w].pc = "none"

(* A sequence is alone, and has its file once it has begun.                *)
JobAlone ==
  /\ \A i, j \in Job : job[i].pc # "none" /\ job[j].pc # "none" => i = j
  /\ \A j \in Job : job[j].pc \notin {"none", "new"} => statusCcd
  /\ \A j \in Job : job[j].pc = "new" =>
       \A p \in Page : start[p] = "none" /\ stop[p] = "none"
  /\ \A j \in Job : job[j].pc # "none" => \A w \in Watcher : watcher[w].pc = "none"

(* status_capture is there only inside status_ccd, and only while a        *)
(* sequence waits for an exposure or after it has been killed.             *)
CaptureInside ==
  /\ statusCapture => statusCcd
  /\ \A j \in Job : job[j].pc \notin {"none", "poll", "error"} => ~statusCapture

(* A stop has no program left when it decides, and its watcher is alone    *)
(* with the file until it removes it.                                      *)
StopAlone ==
  /\ \A p \in Page : stop[p] = "decide" => \A j \in Job : job[j].pc = "none"
  /\ \A p \in Page : stop[p] # "none" =>
       count["stop"] # 0 /\ \A w \in Watcher : watcher[w].pc = "none"
  /\ \A w \in Watcher : watcher[w].pc # "none" => statusCcd /\ count["stop"] # 0
  /\ \A v, w \in Watcher : watcher[v].pc # "none" /\ watcher[w].pc # "none" => v = w
  /\ count["stop"] <= MaxStops

Apart == OneClick /\ Clear4Start /\ JobAlone /\ CaptureInside /\ StopAlone
Inv   == TypeOK /\ Apart
-----------------------------------------------------------------------------
(* Types                                                                   *)

(* The filter wheel positions of a request are numbers.                    *)
LEMMA FilterType ==
  ASSUME NEW f \in Nat PROVE FirstFilter(f) \in Nat /\ LastFilter(f) \in Nat
BY DEF FirstFilter, LastFilter, Ranges

(* The fifo stays a sequence of commands when one is written or read.      *)
LEMMA FifoType ==
  ASSUME fifo \in Seq(Fifo)
  PROVE  /\ \A c \in Fifo : fifo \o <<c>> \in Seq(Fifo) /\ fifo \o <<c, c>> \in Seq(Fifo)
         /\ fifo # <<>> => Tail(fifo) \in Seq(Fifo)
BY DEF Fifo

(* The camera keeps the types.                                             *)
LEMMA CameraType ==
  ASSUME CcdImagingAssumption, TypeOK, CameraStep
  PROVE  TypeOK'
<1>1. CASE TakeCommand
  <2>1. fifo' \in Seq(Fifo)
    BY <1>1, FifoType DEF TypeOK, TakeCommand
  <2>2. camera' \in {"idle", "exposing", "saving", "stuck"} /\ log' \in Lines
    <3>1. \A cmd \in Fifo : Answers(cmd) \subseteq Lines
      BY DEF Answers, Lines
    <3>2. Head(fifo) \in Fifo
      BY <1>1 DEF TypeOK, TakeCommand
    <3> QED BY <1>1, <3>1, <3>2 DEF TypeOK, TakeCommand
  <2>3. QED
    BY <1>1, <2>1, <2>2 DEF TypeOK, TakeCommand, fileVars, imageVars, pageVars, phpVars
<1>2. CASE ExposureEnds \/ ImageSaved
  BY <1>2 DEF TypeOK, ExposureEnds, ImageSaved, Lines, fileVars, imageVars, pageVars, phpVars
<1>3. CASE ExposureFails
  BY <1>3 DEF TypeOK, ExposureFails, Happens, Lines, Events, fileVars, imageVars, pageVars, phpVars
<1>4. CASE CameraHangs
  BY <1>4 DEF TypeOK, CameraHangs, Happens, Events, fileVars, imageVars, pageVars, phpVars
<1>5. QED BY <1>1, <1>2, <1>3, <1>4 DEF CameraStep

(* The page and its handlers keep the types.                               *)
LEMMA PageType ==
  ASSUME CcdImagingAssumption, TypeOK, NEW p \in Page,
         PageStep(p) \/ ReadCCD(p) \/ ServedStep(p)
  PROVE  TypeOK'
<1> USE DEF fileVars, cameraVars, imageVars, pageVars, phpVars
<1>1. CASE ClickStart(p)
  BY <1>1 DEF TypeOK, ClickStart, Happens, Events
<1>2. CASE ClickStop(p)
  BY <1>2 DEF TypeOK, ClickStop, Happens, Events
<1>3. CASE GetTemp(p)
  <2>1. fifo' \in Seq(Fifo)
    BY <1>3, FifoType DEF TypeOK, GetTemp, Echo, Fifo
  <2>2. QED BY <1>3, <2>1 DEF TypeOK, GetTemp, Happens, Events
<1>4. CASE ReadCCD(p) \/ ReadCcdPhp(p) \/ HandleResponse2(p)
  BY <1>4 DEF TypeOK, ReadCCD, ReadCcdPhp, HandleResponse2
<1>5. CASE CcdPhpGuard(p)
  BY <1>5 DEF TypeOK, CcdPhpGuard
<1>6. CASE CcdPhpWrite(p)
  <2>1. fifo' \in Seq(Fifo)
    BY <1>6, FifoType DEF TypeOK, CcdPhpWrite, Echo, Fifo
  <2>2. QED BY <1>6, <2>1 DEF TypeOK, CcdPhpWrite
<1>7. CASE CcdPhpSpawn(p)
  <2>1. [NoJob EXCEPT !.pc = "new"] \in
          [pc : JobPc, slot : Nat, frame : Nat, params : Requests \cup {NoParams}, base : Nat]
    BY DEF NoJob, JobPc
  <2>2. QED BY <1>7, <2>1 DEF TypeOK, CcdPhpSpawn
<1>8. CASE StopKill(p)
  <2>1. job' \in [Job -> [pc : JobPc, slot : Nat, frame : Nat,
                          params : Requests \cup {NoParams}, base : Nat]]
    <3>1. NoJob \in [pc : JobPc, slot : Nat, frame : Nat,
                    params : Requests \cup {NoParams}, base : Nat]
      BY DEF NoJob, JobPc
    <3>2. QED BY <1>8, <3>1 DEF StopKill
  <2>2. QED BY <1>8, <2>1 DEF TypeOK, StopKill
<1>9. CASE StopDecide(p)
  <2>1. fifo' \in Seq(Fifo)
    <3>1. fifo' = fifo \o <<"stop", "stop">> \/ fifo' = fifo
      BY <1>9 DEF StopDecide, Echo
    <3>2. QED BY <3>1, FifoType DEF TypeOK, Fifo
  <2>2. watcher' \in [Watcher -> [pc : {"none", "ask", "poll"}, i : 0..CheckLimit]]
    <3>1. [pc |-> "ask", i |-> 1] \in [pc : {"none", "ask", "poll"}, i : 0..CheckLimit]
      BY DEF CcdImagingAssumption
    <3>2. QED BY <1>9, <3>1 DEF TypeOK, StopDecide
  <2>3. statusCcd' \in BOOLEAN /\ stop' \in [Page -> {"none", "kill", "decide"}]
    BY <1>9 DEF TypeOK, StopDecide
  <2>4. QED BY <1>9, <2>1, <2>2, <2>3 DEF TypeOK, StopDecide
<1>10. QED
  BY <1>1, <1>2, <1>3, <1>4, <1>5, <1>6, <1>7, <1>8, <1>9 DEF PageStep, ServedStep

(* A sequence keeps the types.                                             *)
LEMMA JobType ==
  ASSUME CcdImagingAssumption, TypeOK, NEW j \in Job, JobStep(j) \/ DitherDone(j)
  PROVE  TypeOK'
<1> USE DEF fileVars, cameraVars, imageVars, pageVars, phpVars
<1> DEFINE J == [pc : JobPc, slot : Nat, frame : Nat, params : Requests \cup {NoParams}, base : Nat]
<1>0. job \in [Job -> J] /\ job[j] \in J
  BY DEF TypeOK
<1>1. CASE JobBegins(j)
  <2>1. params.filter \in Nat
    BY DEF TypeOK, NoParams, CcdImagingAssumption
  <2>2. [pc |-> "filter", slot |-> FirstFilter(params.filter), frame |-> 1,
         params |-> params, base |-> saved] \in J
    BY <2>1, FilterType DEF TypeOK, JobPc
  <2>3. job' \in [Job -> J]
    BY <1>0, <1>1, <2>2 DEF JobBegins
  <2>4. QED BY <1>1, <2>3 DEF TypeOK, JobBegins
<1>2. CASE ChangeFilter(j)
  <2>1. job' \in [Job -> J]
    BY <1>0, <1>2 DEF ChangeFilter, Go, Loop, JobPc
  <2>2. QED BY <1>2, <2>1 DEF TypeOK, ChangeFilter
<1>3. CASE SendRun(j)
  <2>1. job' \in [Job -> J]
    BY <1>0, <1>3 DEF SendRun, Go, Loop, JobPc
  <2>2. fifo' \in Seq(Fifo)
    <3>1. fifo' = fifo \o <<"run">> \/ fifo' = fifo
      BY <1>3 DEF SendRun, Echo
    <3>2. QED BY <3>1, FifoType DEF TypeOK, Fifo
  <2>3. QED BY <1>3, <2>1, <2>2 DEF TypeOK, SendRun
<1>4. CASE MarkCapture(j)
  <2>1. job' \in [Job -> J]
    BY <1>0, <1>4 DEF MarkCapture, Go, JobPc
  <2>2. QED BY <1>4, <2>1 DEF TypeOK, MarkCapture
<1>5. CASE Poll(j)
  <2>1. job' \in [Job -> J]
    BY <1>0, <1>5 DEF Poll, Go, JobPc
  <2>2. QED BY <1>5, <2>1 DEF TypeOK, Poll
<1>6. CASE JobFails(j) \/ JobEnds(j)
  <2>1. NoJob \in J
    BY DEF NoJob, JobPc
  <2>2. job' \in [Job -> J]
    BY <1>0, <1>6, <2>1 DEF JobFails, JobEnds
  <2>3. QED BY <1>6, <2>2 DEF TypeOK, JobFails, JobEnds
<1>7. CASE Copy(j) \/ Clear(j)
  <2>1. job' \in [Job -> J]
    <3>1. CASE Copy(j)
      BY <1>0, <3>1 DEF Copy, Go, JobPc
    <3>2. CASE Clear(j)
      BY <1>0, <3>2 DEF Clear, Loop, JobPc
    <3>3. QED BY <1>7, <3>1, <3>2
  <2>2. CASE Copy(j)
    BY <2>1, <2>2 DEF TypeOK, Copy
  <2>3. CASE Clear(j)
    BY <2>1, <2>3 DEF TypeOK, Clear
  <2>4. QED BY <1>7, <2>2, <2>3
<1>8. CASE DitherDone(j)
  <2>1. job' \in [Job -> J]
    BY <1>0, <1>8 DEF DitherDone, Go, JobPc
  <2>2. QED BY <1>8, <2>1 DEF TypeOK, DitherDone
<1>9. QED
  BY <1>1, <1>2, <1>3, <1>4, <1>5, <1>6, <1>7, <1>8 DEF JobStep

(* The watcher and the histogram keep the types.                           *)
LEMMA OtherType ==
  ASSUME CcdImagingAssumption, TypeOK,
         (\E w \in Watcher : WatchStep(w)) \/ SetHist \/ SetAdu \/ GetPreview
  PROVE  TypeOK'
<1> USE DEF fileVars, cameraVars, imageVars, pageVars, phpVars
<1>1. ASSUME NEW w \in Watcher, WatchStep(w) PROVE TypeOK'
  <2>1. fifo' \in Seq(Fifo)
    <3>1. fifo' = fifo \o <<"isidle">> \/ fifo' = fifo
      BY <1>1 DEF WatchStep, AskIdle, CheckIdle, Echo
    <3>2. QED BY <3>1, FifoType DEF TypeOK, Fifo
  <2>2. CheckLimit \in Nat /\ watcher[w] \in [pc : {"none", "ask", "poll"}, i : 0..CheckLimit]
    BY DEF CcdImagingAssumption, TypeOK
  <2>3. watcher' \in [Watcher -> [pc : {"none", "ask", "poll"}, i : 0..CheckLimit]]
    <3>1. CASE AskIdle(w)
      BY <3>1, <2>2 DEF TypeOK, AskIdle
    <3>2. CASE CheckIdle(w)
      <4>1. NoWatch \in [pc : {"none", "ask", "poll"}, i : 0..CheckLimit]
        BY <2>2 DEF NoWatch
      <4>2. CASE watcher' = [watcher EXCEPT ![w] = NoWatch]
        BY <4>1, <4>2 DEF TypeOK
      <4>3. CASE ~GivesUp(w) /\ watcher' = [watcher EXCEPT ![w].i = @ + 1]
        <5>1. watcher[w].i + 1 \in 0..CheckLimit
          BY <4>3, <2>2 DEF GivesUp
        <5>2. QED BY <4>3, <5>1, <2>2 DEF TypeOK
      <4>4. QED BY <3>2, <4>2, <4>3 DEF CheckIdle
    <3>3. QED BY <1>1, <3>1, <3>2 DEF WatchStep
  <2>4. QED
    BY <1>1, <2>1, <2>3 DEF TypeOK, WatchStep, AskIdle, CheckIdle, RemoveBoth
<1>2. CASE SetHist
  BY <1>2 DEF TypeOK, SetHist, Happens, Events
<1>3. CASE SetAdu \/ GetPreview
  <2>1. fifo' \in Seq(Fifo)
    BY <1>3, FifoType DEF TypeOK, SetAdu, GetPreview, Echo, Fifo
  <2>2. QED BY <1>3, <2>1 DEF TypeOK, SetAdu, GetPreview
<1>4. QED BY <1>1, <1>2, <1>3

(* The initial values have their types.                                    *)
LEMMA InitType == Init => TypeOK
<1> SUFFICES ASSUME Init PROVE TypeOK
  OBVIOUS
<1>1. NoJob \in [pc : JobPc, slot : Nat, frame : Nat, params : Requests \cup {NoParams}, base : Nat]
  BY DEF NoJob, JobPc
<1>2. NoWatch \in [pc : {"none", "ask", "poll"}, i : 0..CheckLimit]
  BY CcdImagingAssumption DEF CcdImagingAssumption, NoWatch
<1>3. fifo \in Seq(Fifo) /\ log \in Lines
  BY DEF Init, Lines
<1>4. job \in [Job -> [pc : JobPc, slot : Nat, frame : Nat,
                      params : Requests \cup {NoParams}, base : Nat]]
  BY <1>1 DEF Init
<1>5. watcher \in [Watcher -> [pc : {"none", "ask", "poll"}, i : 0..CheckLimit]]
  BY <1>2 DEF Init
<1>6. QED BY <1>3, <1>4, <1>5 DEF Init, TypeOK

(* Types are kept by every step.                                           *)
LEMMA TypeStep ==
  ASSUME CcdImagingAssumption, TypeOK, [Next]_vars
  PROVE  TypeOK'
<1>1. CASE UNCHANGED vars
  BY <1>1 DEF TypeOK, vars, fileVars, cameraVars, imageVars, pageVars, phpVars
<1>2. CASE Next
  BY <1>2, CameraType, PageType, JobType, OtherType DEF Next
<1>3. QED BY <1>1, <1>2
-----------------------------------------------------------------------------
(* The programs stay apart                                                 *)

(* Steps that touch neither files nor programs nor clicks.                 *)
LEMMA Quiet ==
  ASSUME Apart, UNCHANGED <<statusCcd, statusCapture, job, watcher, start, stop, count["stop"]>>
  PROVE  Apart'
BY DEF Apart, OneClick, Clear4Start, JobAlone, CaptureInside, StopAlone

(* Steps that only take a sequence from one of its stages to another: the  *)
(* file status_capture, if it is there, is removed or left to a stage that *)
(* waits.                                                                  *)
LEMMA JobMoves ==
  ASSUME Inv, NEW j \in Job, NEW pc \in JobPc \ {"none", "new"},
         job[j].pc \notin {"none", "new"},
         \A i \in Job : job'[i].pc = IF i = j THEN pc ELSE job[i].pc,
         UNCHANGED <<statusCcd, watcher, start, stop, count>>,
         statusCapture' => pc \in {"poll", "error"}
  PROVE  Apart'
<1>1. \A i \in Job : job'[i].pc # "none" <=> job[i].pc # "none"
  OBVIOUS
<1>2. OneClick'
  BY DEF Inv, Apart, OneClick
<1>3. Clear4Start'
  BY <1>1 DEF Inv, Apart, Clear4Start
<1>4. JobAlone'
  BY <1>1 DEF Inv, Apart, JobAlone
<1>5. CaptureInside'
  <2>1. statusCcd /\ \A i \in Job : i # j => job'[i].pc = "none"
    BY DEF Inv, Apart, JobAlone
  <2>2. QED BY <2>1 DEF Inv, Apart, CaptureInside
<1>6. StopAlone'
  BY <1>1 DEF Inv, Apart, StopAlone
<1>7. QED BY <1>2, <1>3, <1>4, <1>5, <1>6 DEF Apart

(* The camera does not meddle with files.                                  *)
LEMMA CameraApart ==
  ASSUME Inv, CameraStep PROVE Apart'
<1>1. UNCHANGED <<statusCcd, statusCapture, job, watcher, start, stop, count["stop"]>>
  BY DEF Inv, TypeOK, CameraStep, TakeCommand, ExposureEnds, ImageSaved, ExposureFails, CameraHangs,
         Happens, Events, fileVars, phpVars
<1>2. QED BY <1>1, Quiet DEF Inv

(* A click finds every earlier one served.                                 *)
LEMMA ClickApart ==
  ASSUME CcdImagingAssumption, Waits, Inv, NEW p \in Page, ClickStart(p) \/ ClickStop(p)
  PROVE  Apart'
<1>1. /\ \A q \in Page : start[q] = "none" /\ stop[q] = "none"
      /\ \A j \in Job : job[j].pc # "new"
      /\ UNCHANGED <<statusCcd, statusCapture, job, watcher>>
  BY DEF Waits, ClickStart, ClickStop, Settled, fileVars
<1>2. CASE ClickStart(p)
  <2>1. /\ start' = [start EXCEPT ![p] = "guard"] /\ stop' = stop
        /\ count'["stop"] = count["stop"]
    BY <1>2 DEF Inv, TypeOK, ClickStart, Happens, Events
  <2>2. \A q \in Page : start'[q] = IF q = p THEN "guard" ELSE "none"
    BY <1>1, <2>1 DEF Inv, TypeOK
  <2>3. QED
    BY <1>1, <2>1, <2>2
    DEF Inv, Apart, OneClick, Clear4Start, JobAlone, CaptureInside, StopAlone
<1>3. CASE ClickStop(p)
  <2>1. /\ stop' = [stop EXCEPT ![p] = "kill"] /\ start' = start
        /\ count["stop"] < MaxStops /\ count'["stop"] = count["stop"] + 1
    BY <1>3 DEF Inv, TypeOK, ClickStop, Happens, Events
  <2>2. \A q \in Page : stop'[q] = IF q = p THEN "kill" ELSE "none"
    BY <1>1, <2>1 DEF Inv, TypeOK
  <2>3. count["stop"] = 0 /\ count'["stop"] = 1
    BY <2>1 DEF Inv, TypeOK, Events, Waits, CcdImagingAssumption
  <2>4. \A w \in Watcher : watcher[w].pc = "none"
    BY <2>3 DEF Inv, Apart, StopAlone
  <2>5. OneClick' /\ Clear4Start' /\ JobAlone' /\ CaptureInside'
    BY <1>1, <2>1, <2>2, <2>4 DEF Inv, Apart, OneClick, Clear4Start, JobAlone, CaptureInside
  <2>6. StopAlone'
    BY <1>1, <2>1, <2>2, <2>3, <2>4 DEF StopAlone, CcdImagingAssumption
  <2>7. QED BY <2>5, <2>6 DEF Apart
<1>4. QED BY <1>2, <1>3

(* Status and temperature requests do not meddle with files.               *)
LEMMA AskApart ==
  ASSUME Inv, NEW p \in Page,
         GetTemp(p) \/ ReadCCD(p) \/ ReadCcdPhp(p) \/ HandleResponse2(p)
  PROVE  Apart'
<1>1. UNCHANGED <<statusCcd, statusCapture, job, watcher, start, stop, count["stop"]>>
  BY DEF Inv, TypeOK, GetTemp, ReadCCD, ReadCcdPhp, HandleResponse2, Happens, Events,
         fileVars, phpVars
<1>2. QED BY <1>1, Quiet DEF Inv

(* ccd.php goes on only without status_ccd; then nothing lives that could  *)
(* have made it or could remove it.                                        *)
LEMMA StartApart ==
  ASSUME Inv, NEW p \in Page, CcdPhpGuard(p) \/ CcdPhpWrite(p) \/ CcdPhpSpawn(p)
  PROVE  Apart'
<1>1. /\ start[p] # "none"
      /\ UNCHANGED <<statusCcd, statusCapture, watcher, stop, count>>
  BY DEF CcdPhpGuard, CcdPhpWrite, CcdPhpSpawn, fileVars, pageVars
<1>2. /\ \A q \in Page : stop[q] = "none"
      /\ \A q \in Page : q # p => start[q] = "none"
      /\ \A j \in Job : job[j].pc # "new"
  BY <1>1 DEF Inv, Apart, OneClick, JobAlone
<1>3. CASE CcdPhpGuard(p)
  <2>1. /\ job' = job
        /\ \A q \in Page : start'[q] = IF q # p THEN "none"
                                       ELSE IF ~statusCcd THEN "write" ELSE "none"
    BY <1>2, <1>3 DEF Inv, TypeOK, CcdPhpGuard, CameraFree
  <2>2. ~statusCcd => /\ \A j \in Job : job[j].pc = "none"
                      /\ \A w \in Watcher : watcher[w].pc = "none"
    BY <1>2 DEF Inv, Apart, JobAlone, StopAlone
  <2>3. OneClick' /\ Clear4Start'
    BY <1>1, <1>2, <2>1, <2>2 DEF OneClick, Clear4Start
  <2>4. JobAlone' /\ CaptureInside' /\ StopAlone'
    BY <1>1, <1>2, <2>1 DEF Inv, Apart, JobAlone, CaptureInside, StopAlone
  <2>5. QED BY <2>3, <2>4 DEF Apart
<1>4. CASE CcdPhpWrite(p)
  <2>1. /\ job' = job /\ start[p] = "write"
        /\ \A q \in Page : start'[q] = IF q = p THEN "spawn" ELSE "none"
    BY <1>2, <1>4 DEF Inv, TypeOK, CcdPhpWrite
  <2>2. OneClick' /\ Clear4Start'
    BY <1>1, <1>2, <2>1 DEF Inv, Apart, OneClick, Clear4Start
  <2>3. JobAlone' /\ CaptureInside' /\ StopAlone'
    BY <1>1, <1>2, <2>1 DEF Inv, Apart, JobAlone, CaptureInside, StopAlone
  <2>4. QED BY <2>2, <2>3 DEF Apart
<1>5. CASE CcdPhpSpawn(p)
  <2>1. start[p] = "spawn" /\ \A q \in Page : start'[q] = "none"
    BY <1>2, <1>5 DEF Inv, TypeOK, CcdPhpSpawn
  <2>2. /\ ~statusCcd
        /\ \A j \in Job : job[j].pc = "none"
        /\ \A w \in Watcher : watcher[w].pc = "none"
    BY <2>1 DEF Inv, Apart, Clear4Start
  <2>3. PICK j \in Job : job' = [job EXCEPT ![j] = [NoJob EXCEPT !.pc = "new"]]
    BY <1>5 DEF CcdPhpSpawn
  <2>4. \A i \in Job : job'[i].pc = IF i = j THEN "new" ELSE "none"
    BY <2>2, <2>3 DEF Inv, TypeOK, NoJob
  <2>5. OneClick' /\ Clear4Start' /\ JobAlone'
    BY <1>1, <1>2, <2>1, <2>2, <2>4 DEF OneClick, Clear4Start, JobAlone
  <2>6. CaptureInside' /\ StopAlone'
    BY <1>1, <1>2, <2>1, <2>2, <2>4 DEF Inv, Apart, CaptureInside, StopAlone
  <2>7. QED BY <2>5, <2>6 DEF Apart
<1>6. QED BY <1>3, <1>4, <1>5

(* stop_ccd.php kills first; when it decides no sequence is left that its  *)
(* choice could concern.                                                   *)
LEMMA StopApart ==
  ASSUME Inv, NEW p \in Page, StopKill(p) \/ StopDecide(p)
  PROVE  Apart'
<1>1. stop[p] # "none" /\ UNCHANGED <<statusCapture, start, count>>
  BY DEF StopKill, StopDecide, fileVars, pageVars
<1>2. /\ \A q \in Page : start[q] = "none"
      /\ \A q \in Page : q # p => stop[q] = "none"
      /\ \A w \in Watcher : watcher[w].pc = "none"
      /\ count["stop"] # 0
  BY <1>1 DEF Inv, Apart, OneClick, StopAlone
<1>3. CASE StopKill(p)
  <2>1. /\ UNCHANGED <<statusCcd, watcher>>
        /\ \A j \in Job : job'[j].pc = "none"
        /\ \A q \in Page : stop'[q] = IF q = p THEN "decide" ELSE "none"
    BY <1>2, <1>3 DEF Inv, TypeOK, StopKill, fileVars, NoJob
  <2>2. OneClick' /\ Clear4Start' /\ JobAlone'
    BY <1>1, <1>2, <2>1 DEF OneClick, Clear4Start, JobAlone
  <2>3. CaptureInside' /\ StopAlone'
    BY <1>1, <1>2, <2>1 DEF Inv, Apart, CaptureInside, StopAlone
  <2>4. QED BY <2>2, <2>3 DEF Apart
<1>4. CASE StopDecide(p)
  <2>1. /\ job' = job /\ \A j \in Job : job[j].pc = "none"
        /\ \A q \in Page : stop'[q] = "none"
    BY <1>2, <1>4 DEF Inv, TypeOK, Apart, StopAlone, StopDecide
  <2>2. OneClick' /\ Clear4Start' /\ JobAlone'
    BY <1>1, <1>2, <2>1 DEF OneClick, Clear4Start, JobAlone
  <2>3. CASE statusCapture /\ statusCcd' = statusCcd
             /\ \E w \in Watcher : watcher' = [watcher EXCEPT ![w] = [pc |-> "ask", i |-> 1]]
    <3>1. PICK w \in Watcher : watcher' = [watcher EXCEPT ![w] = [pc |-> "ask", i |-> 1]]
      BY <2>3
    <3>2. \A v \in Watcher : v # w => watcher'[v].pc = "none"
      BY <1>2, <3>1 DEF Inv, TypeOK
    <3>3. QED
      BY <1>1, <1>2, <2>1, <2>2, <2>3, <3>2 DEF Inv, Apart, CaptureInside, StopAlone
  <2>4. CASE ~statusCapture /\ statusCcd' = FALSE /\ watcher' = watcher
    BY <1>1, <1>2, <2>1, <2>2, <2>4 DEF Inv, Apart, CaptureInside, StopAlone
  <2>5. QED BY <1>4, <2>3, <2>4 DEF StopDecide
<1>5. QED BY <1>3, <1>4

(* The watcher removes both files when no sequence is alive and none is    *)
(* about to start.                                                         *)
LEMMA WatchApart ==
  ASSUME Inv, NEW w \in Watcher, WatchStep(w)
  PROVE  Apart'
<1>1. /\ watcher[w].pc # "none"
      /\ UNCHANGED <<job, start, stop, count>>
  BY DEF WatchStep, AskIdle, CheckIdle, pageVars, phpVars
<1>2. /\ \A v \in Watcher : v # w => watcher[v].pc = "none" /\ watcher'[v].pc = "none"
      /\ \A j \in Job : job[j].pc = "none"
      /\ \A q \in Page : stop[q] = "none" /\ start[q] \notin {"write", "spawn"}
      /\ statusCcd /\ count["stop"] # 0
  BY <1>1 DEF Inv, TypeOK, Apart, Clear4Start, JobAlone, StopAlone, WatchStep, AskIdle, CheckIdle
<1>3. \/ UNCHANGED <<statusCcd, statusCapture>>
      \/ ~statusCcd' /\ ~statusCapture' /\ watcher'[w].pc = "none"
  BY DEF Inv, TypeOK, WatchStep, AskIdle, CheckIdle, RemoveBoth, NoWatch, fileVars
<1>4. OneClick' /\ Clear4Start' /\ JobAlone' /\ CaptureInside'
  BY <1>1, <1>2, <1>3 DEF Inv, Apart, OneClick, Clear4Start, JobAlone, CaptureInside
<1>5. StopAlone'
  BY <1>1, <1>2, <1>3 DEF Inv, Apart, StopAlone
<1>6. QED BY <1>4, <1>5 DEF Apart

(* The histogram does not meddle with files.                               *)
LEMMA HistApart ==
  ASSUME Inv, SetHist \/ SetAdu \/ GetPreview PROVE Apart'
<1>1. UNCHANGED <<statusCcd, statusCapture, job, watcher, start, stop, count["stop"]>>
  BY DEF Inv, TypeOK, SetHist, SetAdu, GetPreview, Happens, Events, fileVars
<1>2. QED BY <1>1, Quiet DEF Inv

(* A sequence makes its file with its first step and removes it with its   *)
(* last; in between it only goes from stage to stage.                      *)
LEMMA JobApart ==
  ASSUME Inv, NEW j \in Job, JobStep(j) \/ DitherDone(j)
  PROVE  Apart'
<1> DEFINE Moves(pc) ==
      /\ \A i \in Job : job'[i].pc = IF i = j THEN pc ELSE job[i].pc
      /\ UNCHANGED <<statusCcd, watcher, start, stop, count>>
      /\ statusCapture' => pc \in {"poll", "error"}
<1>0. job[j].pc # "none" /\ \A i \in Job : i # j => job[i].pc = "none"
  BY DEF JobStep, JobBegins, ChangeFilter, SendRun, MarkCapture, Poll, JobFails, Copy, Clear,
         JobEnds, DitherDone, Inv, Apart, JobAlone
<1>1. CASE JobBegins(j)
  <2>1. /\ statusCcd' /\ UNCHANGED <<statusCapture, watcher, start, stop, count>>
        /\ \A i \in Job : job'[i].pc = IF i = j THEN "filter" ELSE "none"
        /\ job[j].pc = "new"
    BY <1>0, <1>1 DEF Inv, TypeOK, JobBegins, phpVars
  <2>2. /\ \A q \in Page : start[q] = "none" /\ stop[q] = "none"
        /\ \A w \in Watcher : watcher[w].pc = "none"
        /\ ~statusCapture
    BY <2>1 DEF Inv, Apart, JobAlone, CaptureInside
  <2>3. OneClick' /\ Clear4Start' /\ JobAlone'
    BY <2>1, <2>2 DEF OneClick, Clear4Start, JobAlone
  <2>4. CaptureInside' /\ StopAlone'
    BY <2>1, <2>2 DEF Inv, Apart, CaptureInside, StopAlone
  <2>5. QED BY <2>3, <2>4 DEF Apart
<1>2. CASE JobEnds(j) \/ JobFails(j)
  <2>1. /\ ~statusCcd' /\ ~statusCapture' /\ UNCHANGED <<watcher, start, stop, count>>
        /\ \A i \in Job : job'[i].pc = "none"
    <3>1. job' = [job EXCEPT ![j] = NoJob] /\ UNCHANGED <<watcher, start, stop, count>>
      BY <1>2 DEF JobEnds, JobFails, phpVars
    <3>2. \A i \in Job : job'[i].pc = "none"
      BY <1>0, <3>1 DEF Inv, TypeOK, NoJob
    <3>3. ~statusCcd' /\ ~statusCapture'
      BY <1>2 DEF Inv, Apart, CaptureInside, JobEnds, JobFails
    <3>4. QED BY <3>1, <3>2, <3>3
  <2>2. \A w \in Watcher : watcher[w].pc = "none"
    BY <1>0 DEF Inv, Apart, JobAlone
  <2>3. QED
    BY <2>1, <2>2 DEF Inv, Apart, OneClick, Clear4Start, JobAlone, CaptureInside, StopAlone
<1>3. CASE ChangeFilter(j) \/ SendRun(j) \/ MarkCapture(j) \/ Poll(j) \/ Copy(j) \/ Clear(j)
           \/ DitherDone(j)
  <2>1. /\ job[j].pc \notin {"none", "new"}
        /\ UNCHANGED <<statusCcd, watcher, start, stop, count>>
    BY <1>3 DEF ChangeFilter, SendRun, MarkCapture, Poll, Copy, Clear, DitherDone, fileVars, phpVars
  <2>2. job[j].pc \notin {"poll", "error"} => ~statusCapture
    BY <2>1 DEF Inv, Apart, CaptureInside
  <2>3. CASE ChangeFilter(j) \/ SendRun(j) \/ Copy(j) \/ Clear(j) \/ DitherDone(j)
    <3>1. /\ ~statusCapture'
          /\ \E pc \in JobPc \ {"none", "new"} :
                \A i \in Job : job'[i].pc = IF i = j THEN pc ELSE job[i].pc
      <4>1. ~statusCapture' /\ job \in [Job -> [pc : JobPc, slot : Nat, frame : Nat,
                                     params : Requests \cup {NoParams}, base : Nat]]
        BY <2>2, <2>3 DEF Inv, TypeOK, ChangeFilter, SendRun, Copy, Clear, DitherDone, fileVars
      <4>2. CASE ChangeFilter(j)
        BY <4>1, <4>2 DEF ChangeFilter, Go, Loop, JobPc
      <4>3. CASE SendRun(j)
        <5>1. \/ job' = [job EXCEPT ![j].pc = "mark"]
              \/ Loop(j, "filter", job[j].slot + 1, job[j].frame)
          BY <4>3 DEF SendRun, Go
        <5>2. PICK pc \in {"mark", "filter"} :
                \A i \in Job : job'[i].pc = IF i = j THEN pc ELSE job[i].pc
          BY <4>1, <5>1 DEF Loop
        <5>3. QED BY <4>1, <5>2 DEF JobPc
      <4>4. CASE Copy(j) \/ DitherDone(j)
        <5>1. PICK pc \in JobPc \ {"none", "new"} : job' = [job EXCEPT ![j].pc = pc]
          BY <4>4 DEF Copy, DitherDone, Go, JobPc
        <5>2. QED BY <4>1, <5>1
      <4>5. CASE Clear(j)
        BY <4>1, <4>5 DEF Clear, Loop, JobPc
      <4>6. QED BY <2>3, <4>1, <4>2, <4>3, <4>4, <4>5
    <3>2. QED BY <2>1, <3>1, JobMoves
  <2>4. CASE MarkCapture(j)
    <3>1. Moves("poll")
      BY <2>1, <2>4 DEF Inv, TypeOK, MarkCapture, Go
    <3>2. QED BY <2>1, <3>1, JobMoves DEF JobPc
  <2>5. CASE Poll(j)
    <3>1. \E pc \in {"save", "poll", "error"} : Moves(pc)
      BY <2>1, <2>5 DEF Inv, TypeOK, Poll, Go
    <3>2. QED BY <2>1, <3>1, JobMoves DEF JobPc
  <2>6. QED BY <1>3, <2>3, <2>4, <2>5
<1>4. QED BY <1>1, <1>2, <1>3 DEF JobStep
-----------------------------------------------------------------------------
(* The theorems                                                            *)

(* Every variable has its type: whatever users, the camera and the timers  *)
(* do, also without the assumption that users wait.                        *)
THEOREM TypeCorrect == Spec => []TypeOK
<1>1. Init => TypeOK
  BY InitType
<1>2. TypeOK /\ [Next]_vars => TypeOK'
  BY CcdImagingAssumption, TypeStep
<1>3. QED BY <1>1, <1>2, PTL DEF Spec

(* With users who wait and one stop the programs stay apart.               *)
THEOREM CcdInvariant == Waits => (Spec => []Inv)
<1> SUFFICES ASSUME Waits PROVE Spec => []Inv
  OBVIOUS
<1>1. Init => Inv
  <2>1. Init => TypeOK
    BY InitType
  <2>2. Init => Apart
    BY CcdImagingAssumption
    DEF Init, Apart, OneClick, Clear4Start, JobAlone, CaptureInside, StopAlone, NoJob, NoWatch,
        Events
  <2>3. QED BY <2>1, <2>2 DEF Inv
<1>2. Inv /\ [Next]_vars => Inv'
  <2> SUFFICES ASSUME Inv, [Next]_vars PROVE Apart'
    BY CcdImagingAssumption, TypeStep DEF Inv
  <2>1. CASE UNCHANGED vars
    <3>1. UNCHANGED <<statusCcd, statusCapture, job, watcher, start, stop, count["stop"]>>
      BY <2>1 DEF vars, fileVars, phpVars
    <3>2. QED BY <3>1, Quiet DEF Inv
  <2>2. CASE CameraStep
    BY <2>2, CameraApart
  <2>3. ASSUME NEW p \in Page, PageStep(p) \/ ReadCCD(p) \/ ServedStep(p) PROVE Apart'
    BY <2>3, CcdImagingAssumption, ClickApart, AskApart, StartApart, StopApart
    DEF PageStep, ServedStep
  <2>4. ASSUME NEW j \in Job, JobStep(j) \/ DitherDone(j) PROVE Apart'
    BY <2>4, JobApart
  <2>5. ASSUME NEW w \in Watcher, WatchStep(w) PROVE Apart'
    BY <2>5, WatchApart
  <2>6. CASE SetHist \/ SetAdu \/ GetPreview
    BY <2>6, HistApart
  <2>7. QED BY <2>1, <2>2, <2>3, <2>4, <2>5, <2>6 DEF Next
<1>3. QED BY <1>1, <1>2, PTL DEF Spec

(* ccd.php's test of a file that the program it starts makes later keeps   *)
(* two sequences apart, and the one that runs keeps its file.              *)
THEOREM OneAtATime == Waits => (Spec => []OneSequence)
<1> SUFFICES ASSUME Waits PROVE Spec => []OneSequence
  OBVIOUS
<1>1. Inv => OneSequence
  BY DEF Inv, Apart, JobAlone, OneSequence, Live
<1>2. Spec => []Inv
  BY CcdInvariant
<1>3. QED BY <1>1, <1>2, PTL
-----------------------------------------------------------------------------
(* Every frame is kept                                                     *)

(* n images at least have come to the archive in the filters a sequence    *)
(* has finished and in the one it is at.                                   *)
Kept(r, n, s) ==
  r.base + (r.slot - FirstFilter(r.params.filter)) * r.params.frames + n <= s

(* What a run of ccdcontrol has done, by the stage it is at, when s images *)
(* are in the archive: the counters of both loops say it.                  *)
Tally(r, s) ==
  /\ r.pc \notin {"none", "new"} =>
       r.slot \in FirstFilter(r.params.filter) .. LastFilter(r.params.filter) + 1
  /\ r.pc \in {"filter", "ending"} => Kept(r, 0, s)
  /\ r.pc = "ending" => r.slot = LastFilter(r.params.filter) + 1
  /\ r.pc \in {"frame", "dither", "mark", "poll", "save", "clear"} =>
       /\ r.slot <= LastFilter(r.params.filter)
       /\ r.frame \in 1..(r.params.frames + 1)
  /\ r.pc \in {"frame", "dither", "mark", "poll", "save"} => Kept(r, r.frame - 1, s)
  /\ r.pc \in {"mark", "poll", "save", "clear"} => r.frame <= r.params.frames
  /\ r.pc = "clear" => Kept(r, r.frame, s)

(* An image is in tmp_images, or the camera is writing one.                *)
ImageComes == fresh # 0 \/ camera = "saving"

(* While a run waits for an exposure, the lines that say it is over are    *)
(* not the last of the log before the image comes; and the run goes on     *)
(* only with an image.                                                     *)
Exposed(r) ==
  /\ r.pc \in {"mark", "poll"} /\ ~ImageComes => fifo # <<>> \/ log \notin DoneLines
  /\ r.pc = "poll" /\ ~statusCapture => ImageComes
  /\ r.pc = "save" => ImageComes

(* From the filter on no histogram limit is on its way to the camera,      *)
(* whose PREVIEW line would look like the end of an exposure.              *)
NoAdu == \A i \in 1..Len(fifo) : fifo[i] # "adu"
Undisturbed(r) ==
  r.pc \in {"frame", "dither", "mark", "poll", "save", "clear"} =>
    hist \notin {"minadu", "maxadu"} /\ NoAdu

Framed == \A j \in Job : Tally(job[j], saved) /\ Exposed(job[j]) /\ Undisturbed(job[j])
(* The switch of ccdcontrol counts upwards.                                *)
LEMMA Ordered ==
  ASSUME NEW f \in Nat PROVE FirstFilter(f) <= LastFilter(f) /\ LastFilter(f) + 1 \in Nat
BY DEF FirstFilter, LastFilter, Ranges

(* Another filter is another round of frames.                              *)
LEMMA Round ==
  ASSUME NEW a \in Nat, NEW n \in Nat PROVE (a + 1) * n = a * n + n /\ a * n \in Nat /\ 0 * n = 0
OBVIOUS

(* The counters of a run, typed.                                           *)
LEMMA RunType ==
  ASSUME CcdImagingAssumption, Inv, NEW j \in Job
  PROVE  /\ job[j] \in [pc : JobPc, slot : Nat, frame : Nat,
                        params : Requests \cup {NoParams}, base : Nat]
         /\ job[j].params.filter \in Nat /\ job[j].params.frames \in Nat
         /\ FirstFilter(job[j].params.filter) \in Nat /\ LastFilter(job[j].params.filter) \in Nat
<1>1. job[j] \in [pc : JobPc, slot : Nat, frame : Nat,
                  params : Requests \cup {NoParams}, base : Nat]
  BY DEF Inv, TypeOK
<1>2. job[j].params.filter \in Nat /\ job[j].params.frames \in Nat
  BY <1>1 DEF CcdImagingAssumption, NoParams
<1> QED BY <1>1, <1>2, FilterType

(* Steps that neither take an image nor count one: runs go on as they are, *)
(* or are killed, or begin.                                                *)
LEMMA Aside ==
  ASSUME Framed, UNCHANGED <<log, fresh, saved>>, camera' = "saving" <=> camera = "saving",
         fifo # <<>> => fifo' # <<>>,
         \A j \in Job : \/ job'[j].pc \in {"none", "new"}
                        \/ /\ job'[j] = job[j]
                           /\ hist' = hist \/ hist' \notin {"minadu", "maxadu"}
                           /\ NoAdu => NoAdu',
         statusCapture' = statusCapture \/ \A j \in Job : job'[j].pc \in {"none", "new"}
  PROVE  Framed'
<1>1. ASSUME NEW j \in Job PROVE Tally(job'[j], saved') /\ Exposed(job[j])' /\ Undisturbed(job[j])'
  <2>1. CASE job'[j].pc \in {"none", "new"}
    BY <2>1 DEF Tally, Exposed, Undisturbed
  <2>2. CASE /\ job'[j] = job[j] /\ statusCapture' = statusCapture
             /\ hist' = hist \/ hist' \notin {"minadu", "maxadu"}
             /\ NoAdu => NoAdu'
    <3>1. Tally(job[j], saved) /\ Exposed(job[j]) /\ Undisturbed(job[j]) /\ (ImageComes' <=> ImageComes)
      BY DEF Framed, ImageComes
    <3> QED BY <2>2, <3>1 DEF Tally, Exposed, Undisturbed, DoneLines
  <2> QED BY <2>1, <2>2
<1> QED BY <1>1 DEF Framed

(* A command in the fifo is one until gtkImager has taken it, and a limit  *)
(* of the histogram comes there by setHist.php only.                       *)
LEMMA Echoed ==
  ASSUME fifo \in Seq(Fifo), NEW c \in Fifo \ {"adu"},
         fifo' = fifo \/ Echo(<<c>>) \/ Echo(<<c, c>>)
  PROVE  (fifo # <<>> => fifo' # <<>>) /\ (NoAdu => NoAdu')
<1>1. CASE fifo' = fifo
  BY <1>1 DEF NoAdu
<1>2. CASE Echo(<<c>>)
  <2>1. fifo' = Append(fifo, c)
    BY <1>2 DEF Echo
  <2> QED BY <2>1 DEF NoAdu
<1>3. CASE Echo(<<c, c>>)
  <2>1. fifo' = Append(Append(fifo, c), c)
    BY <1>3 DEF Echo
  <2>2. Append(fifo, c) \in Seq(Fifo) /\ Append(fifo, c) # <<>>
    OBVIOUS
  <2>3. NoAdu => \A i \in 1..Len(Append(fifo, c)) : Append(fifo, c)[i] # "adu"
    BY DEF NoAdu
  <2> DEFINE q == Append(fifo, c)
  <2> HIDE DEF q
  <2>4. Append(q, c) # <<>> /\ (NoAdu => \A i \in 1..Len(Append(q, c)) : Append(q, c)[i] # "adu")
    BY <2>2, <2>3 DEF q
  <2> QED BY <2>1, <2>4 DEF NoAdu, q
<1> QED BY <1>1, <1>2, <1>3

(* gtkImager overwrites the line that ends an exposure, and writes it only *)
(* when the image comes.                                                   *)
LEMMA CameraFramed ==
  ASSUME Inv, Framed, CameraStep PROVE Framed'
<1>1. UNCHANGED <<saved, job, statusCapture, hist>>
  BY DEF CameraStep, TakeCommand, ExposureEnds, ImageSaved, ExposureFails, CameraHangs, fileVars,
         imageVars, phpVars
<1>2. ASSUME NEW j \in Job
      PROVE  Tally(job'[j], saved') /\ Tally(job[j], saved) /\ Exposed(job[j]) /\ Undisturbed(job[j])
  BY <1>1 DEF Framed
<1>3. CASE TakeCommand
  <2>1. UNCHANGED fresh /\ (camera' = "saving" <=> camera = "saving")
    BY <1>3 DEF TakeCommand, imageVars
  <2>2. ImageComes' <=> ImageComes
    BY <2>1 DEF ImageComes
  <2>3. NoAdu => NoAdu' /\ log' \notin DoneLines
    <3>1. /\ fifo \in Seq(Fifo) /\ fifo # <<>> /\ fifo' = Tail(fifo) /\ log' \in Answers(Head(fifo))
      BY <1>3 DEF TakeCommand, Inv, TypeOK
    <3>2. Head(fifo) = fifo[1] /\ 1 \in 1..Len(fifo)
      BY <3>1
    <3>3. NoAdu => log' \notin DoneLines
      BY <3>1, <3>2 DEF NoAdu, DoneLines, Answers
    <3>4. NoAdu => NoAdu'
      BY <3>1 DEF NoAdu
    <3> QED BY <3>3, <3>4
  <2>4. ASSUME NEW j \in Job PROVE Exposed(job[j])' /\ Undisturbed(job[j])'
    BY <1>1, <1>2, <2>2, <2>3 DEF Exposed, Undisturbed, DoneLines
  <2> QED BY <1>2, <2>4 DEF Framed
<1>4. CASE ExposureEnds \/ ImageSaved
  <2>1. ImageComes' /\ fifo' = fifo
    BY <1>4 DEF ExposureEnds, ImageSaved, ImageComes, Inv, TypeOK
  <2>2. ASSUME NEW j \in Job PROVE Exposed(job[j])' /\ Undisturbed(job[j])'
    BY <1>1, <1>2, <2>1 DEF Exposed, Undisturbed, NoAdu
  <2> QED BY <1>2, <2>2 DEF Framed
<1>5. CASE ExposureFails
  <2>1. log' = "error" /\ UNCHANGED <<fresh, fifo>> /\ camera' # "saving" /\ camera # "saving"
    BY <1>5 DEF ExposureFails, imageVars
  <2>2. ASSUME NEW j \in Job PROVE Exposed(job[j])' /\ Undisturbed(job[j])'
    BY <1>1, <1>2, <2>1 DEF Exposed, Undisturbed, NoAdu, ImageComes, DoneLines
  <2> QED BY <1>2, <2>2 DEF Framed
<1>6. CASE CameraHangs
  <2>1. UNCHANGED <<log, fresh, fifo>> /\ camera' # "saving" /\ camera # "saving"
    BY <1>6 DEF CameraHangs, imageVars
  <2>2. NoAdu => NoAdu'
    BY <2>1 DEF NoAdu
  <2> QED BY <1>1, <2>1, <2>2, Aside
<1> QED BY <1>3, <1>4, <1>5, <1>6 DEF CameraStep

(* Users and the programs that stop a sequence keep what it has counted.   *)
LEMMA OthersFramed ==
  ASSUME Inv, Framed,
         \/ \E p \in Page : PageStep(p) \/ ReadCCD(p) \/ ServedStep(p)
         \/ \E w \in Watcher : WatchStep(w)
         \/ SetHist \/ SetAdu \/ GetPreview
         \/ \E j \in Job : JobFails(j) \/ JobEnds(j)
         \/ UNCHANGED vars
  PROVE  Framed'
<1> USE DEF fileVars, cameraVars, imageVars, pageVars, phpVars
<1>0. fifo \in Seq(Fifo)
  BY DEF Inv, TypeOK
<1>1. ASSUME NEW p \in Page, PageStep(p) \/ ReadCCD(p) \/ ServedStep(p) PROVE Framed'
  <2>1. UNCHANGED <<log, fresh, saved, statusCapture, camera, hist>>
    BY <1>1 DEF PageStep, ServedStep, ClickStart, ClickStop, GetTemp, ReadCCD, ReadCcdPhp,
       HandleResponse2, CcdPhpGuard, CcdPhpWrite, CcdPhpSpawn, StopKill, StopDecide
  <2>2. \E c \in Fifo \ {"adu"} : fifo' = fifo \/ Echo(<<c>>) \/ Echo(<<c, c>>)
    BY <1>1 DEF PageStep, ServedStep, ClickStart, ClickStop, GetTemp, ReadCCD, ReadCcdPhp,
       HandleResponse2, CcdPhpGuard, CcdPhpWrite, CcdPhpSpawn, StopKill, StopDecide, Fifo
  <2>3. \A j \in Job : job'[j] = job[j] \/ job'[j].pc \in {"none", "new"}
    <3>1. CASE CcdPhpSpawn(p)
      <4>1. PICK j \in Job : job' = [job EXCEPT ![j] = [NoJob EXCEPT !.pc = "new"]]
        BY <3>1 DEF CcdPhpSpawn
      <4>2. [NoJob EXCEPT !.pc = "new"].pc = "new"
        BY DEF NoJob
      <4> QED BY <4>1, <4>2 DEF Inv, TypeOK
    <3>2. CASE StopKill(p)
      BY <3>2 DEF StopKill, NoJob
    <3>3. CASE job' = job
      BY <3>3
    <3> QED BY <1>1, <3>1, <3>2, <3>3 DEF PageStep, ServedStep, ClickStart, ClickStop, GetTemp,
               ReadCCD, ReadCcdPhp, HandleResponse2, CcdPhpGuard, CcdPhpWrite, StopDecide
  <2> QED BY <1>0, <2>1, <2>2, <2>3, Aside, Echoed
<1>2. ASSUME NEW w \in Watcher, WatchStep(w) PROVE Framed'
  <2>1. UNCHANGED <<log, fresh, saved, job, camera, hist>> /\ watcher[w].pc # "none"
    BY <1>2 DEF WatchStep, AskIdle, CheckIdle
  <2>2. \A j \in Job : job[j].pc = "none"
    BY <2>1 DEF Inv, Apart, JobAlone
  <2>3. fifo' = fifo \/ Echo(<<"isidle">>)
    BY <1>2 DEF WatchStep, AskIdle, CheckIdle
  <2> QED BY <1>0, <2>1, <2>2, <2>3, Aside, Echoed DEF Fifo
<1>3. CASE SetHist
  <2>1. UNCHANGED <<log, fresh, saved, job, statusCapture, camera, fifo>>
    BY <1>3 DEF SetHist
  <2>2. hist' \notin {"minadu", "maxadu"} \/ \A j \in Job : job[j].pc \in {"none", "new"}
    BY <1>3 DEF SetHist, Inv, Apart, JobAlone
  <2>3. NoAdu => NoAdu'
    BY <2>1 DEF NoAdu
  <2> QED BY <2>1, <2>2, <2>3, Aside
<1>4. CASE SetAdu
  <2>1. UNCHANGED <<log, fresh, saved, job, statusCapture, camera, fileVars>>
    BY <1>4 DEF SetAdu
  <2>2. fifo' # <<>>
    <3>1. fifo' = Append(fifo, "adu") /\ "adu" \in Fifo
      BY <1>0, <1>4 DEF SetAdu, Echo, Fifo
    <3> QED BY <1>0, <3>1
  <2>3. ASSUME NEW j \in Job PROVE Tally(job'[j], saved') /\ Exposed(job[j])' /\ Undisturbed(job[j])'
    <3>1. Tally(job[j], saved) /\ Exposed(job[j]) /\ Undisturbed(job[j]) /\ (ImageComes' <=> ImageComes)
      BY <2>1 DEF Framed, ImageComes
    <3>2. hist \in {"minadu", "maxadu"}
      BY <1>4 DEF SetAdu
    <3> QED BY <2>1, <2>2, <3>1, <3>2 DEF Tally, Exposed, Undisturbed
  <2> QED BY <2>3 DEF Framed
<1>5. CASE GetPreview
  <2>1. UNCHANGED <<log, fresh, saved, job, statusCapture, camera>> /\ hist' = "none"
    BY <1>5 DEF GetPreview
  <2>2. Echo(<<"getpreview">>) /\ "getpreview" \in Fifo \ {"adu"}
    BY <1>5 DEF GetPreview, Fifo
  <2> QED BY <1>0, <2>1, <2>2, Aside, Echoed
<1>6. ASSUME NEW j \in Job, JobFails(j) \/ JobEnds(j) PROVE Framed'
  <2>1. /\ UNCHANGED <<log, fresh, saved, fifo, camera, hist>> /\ job[j].pc # "none"
        /\ job' = [job EXCEPT ![j] = NoJob]
    BY <1>6 DEF JobFails, JobEnds
  <2>2. \A i \in Job : job'[i].pc = "none"
    BY <2>1 DEF Inv, TypeOK, Apart, JobAlone, NoJob
  <2> QED BY <2>1, <2>2, Aside
<1>7. CASE UNCHANGED vars
  <2>1. NoAdu => NoAdu'
    BY <1>7 DEF vars, NoAdu
  <2> QED BY <1>7, <2>1, Aside DEF vars
<1> QED BY <1>1, <1>2, <1>3, <1>4, <1>5, <1>6, <1>7

(* The other runs are none: only the one that makes a step counts.         *)
LEMMA OneRun ==
  ASSUME Framed, NEW j \in Job, \A i \in Job : i # j => job'[i].pc = "none",
         Tally(job'[j], saved'), Exposed(job[j])', Undisturbed(job[j])'
  PROVE  Framed'
<1>1. ASSUME NEW i \in Job, i # j
      PROVE  Tally(job'[i], saved') /\ Exposed(job[i])' /\ Undisturbed(job[i])'
  <2>1. job'[i].pc = "none"
    BY <1>1
  <2> QED BY <2>1 DEF Tally, Exposed, Undisturbed
<1> QED BY <1>1 DEF Framed

(* The two loops of ccdcontrol.                                            *)
LEMMA JobFramed ==
  ASSUME CcdImagingAssumption, Prompt, Inv, Framed, NEW j \in Job,
         \/ JobBegins(j) \/ ChangeFilter(j) \/ SendRun(j) \/ MarkCapture(j) \/ Poll(j)
         \/ Copy(j) \/ Clear(j) \/ DitherDone(j)
  PROVE  Framed'
<1> DEFINE r == job[j]
           n == r.params.frames
           f == r.params.filter
           Same(t) == t.params = r.params /\ t.base = r.base
<1> USE DEF fileVars, cameraVars, imageVars
<1>0. /\ r \in [pc : JobPc, slot : Nat, frame : Nat, params : Requests \cup {NoParams}, base : Nat]
      /\ f \in Nat /\ n \in Nat /\ FirstFilter(f) \in Nat /\ LastFilter(f) \in Nat
      /\ job \in [Job -> [pc : JobPc, slot : Nat, frame : Nat, params : Requests \cup {NoParams},
                          base : Nat]]
      /\ fresh \in Nat /\ saved \in Nat
  BY RunType DEF Inv, TypeOK
<1>1. r.pc # "none" /\ \A i \in Job : i # j => job[i].pc = "none" /\ job'[i].pc = "none"
  BY <1>0 DEF JobBegins, ChangeFilter, SendRun, MarkCapture, Poll, Copy, Clear, DitherDone, Go,
              Loop, Inv, Apart, JobAlone
<1>2. /\ Tally(r, saved) /\ Exposed(r) /\ Undisturbed(r)
      /\ UNCHANGED <<camera, hist>>
      /\ fifo' = fifo => (NoAdu => NoAdu')
      /\ fresh' = fresh => (ImageComes' <=> ImageComes)
  BY DEF Framed, JobBegins, ChangeFilter, SendRun, MarkCapture, Poll, Copy, Clear, DitherDone,
         phpVars, NoAdu, ImageComes
<1> HIDE DEF r
<1>3. CASE JobBegins(j)
  <2>1. /\ job'[j].pc = "filter" /\ job'[j].params = params /\ job'[j].base = saved
        /\ job'[j].slot = FirstFilter(params.filter) /\ saved' = saved
        /\ UNCHANGED <<fifo, log>>
    BY <1>0, <1>3 DEF JobBegins
  <2>2. params.filter \in Nat /\ params.frames \in Nat
    BY DEF Inv, TypeOK, CcdImagingAssumption, NoParams
  <2>3. Tally(job'[j], saved')
    <3>1. /\ FirstFilter(params.filter) \in Nat
          /\ FirstFilter(params.filter) <= LastFilter(params.filter)
          /\ LastFilter(params.filter) \in Nat
      BY <2>2, Ordered, FilterType
    <3>2. job'[j].slot \in FirstFilter(params.filter) .. LastFilter(params.filter) + 1
      BY <2>1, <3>1
    <3>3. Kept(job'[j], 0, saved')
      BY <1>0, <2>1, <2>2, <3>1, Round DEF Kept
    <3> QED BY <2>1, <3>2, <3>3 DEF Tally
  <2> QED BY <1>1, <1>2, <2>1, <2>3, OneRun DEF Exposed, Undisturbed, DoneLines
<1>4. CASE ChangeFilter(j)
  <2>1. r.pc = "filter" /\ UNCHANGED <<fifo, log, fresh, saved>>
    BY <1>4 DEF ChangeFilter, r
  <2>2. CASE r.slot <= LastFilter(f) /\ Loop(j, "frame", r.slot, 1)
    <3>1. Same(job'[j]) /\ job'[j].pc = "frame" /\ job'[j].slot = r.slot /\ job'[j].frame = 1
      BY <1>0, <2>2 DEF Loop, r
    <3>4. hist \notin {"minadu", "maxadu"} /\ NoAdu
      <4>1. Waited
        BY <1>4, <2>2, <1>0 DEF ChangeFilter, r
      <4> QED BY <4>1 DEF Waited, NoAdu
    <3>2. Kept(job'[j], 1 - 1, saved')
      BY <1>2, <2>1, <3>1 DEF Tally, Kept
    <3>3. Tally(job'[j], saved')
      BY <1>0, <1>2, <2>1, <2>2, <3>1, <3>2 DEF Tally
    <3> QED BY <1>1, <1>2, <2>1, <3>1, <3>3, <3>4, OneRun DEF Exposed, Undisturbed, DoneLines
  <2>3. CASE r.slot > LastFilter(f) /\ Go(j, "ending")
    <3>1. Same(job'[j]) /\ job'[j].pc = "ending" /\ job'[j].slot = r.slot
      BY <1>0, <2>3 DEF Go, r
    <3>2. Kept(job'[j], 0, saved')
      BY <1>2, <2>1, <3>1 DEF Tally, Kept
    <3>3. Tally(job'[j], saved')
      BY <1>0, <1>2, <2>1, <2>3, <3>1, <3>2 DEF Tally
    <3> QED BY <1>1, <1>2, <2>1, <3>1, <3>3, OneRun DEF Exposed, Undisturbed, DoneLines
  <2> QED BY <1>4, <2>2, <2>3 DEF ChangeFilter, r
<1>5. CASE SendRun(j)
  <2>1. r.pc = "frame" /\ UNCHANGED <<log, fresh, saved, statusCapture>>
    BY <1>5 DEF SendRun, r
  <2>2. CASE r.frame <= n /\ Echo(<<"run">>) /\ Go(j, "mark")
    <3>1. /\ Same(job'[j]) /\ job'[j].pc = "mark" /\ job'[j].slot = r.slot
          /\ job'[j].frame = r.frame
      BY <1>0, <2>2 DEF Go, r
    <3>2. fifo' # <<>> /\ (NoAdu => NoAdu')
      <4>1. fifo' = Append(fifo, "run") /\ fifo \in Seq(Fifo) /\ "run" \in Fifo \ {"adu"}
        BY <2>2 DEF Echo, Inv, TypeOK, Fifo
      <4>2. fifo' # <<>>
        BY <4>1
      <4>3. fifo' = fifo \/ Echo(<<"run">>) \/ Echo(<<"run", "run">>)
        BY <2>2
      <4>4. NoAdu => NoAdu'
        BY <4>1, <4>3, Echoed
      <4> QED BY <4>2, <4>4
    <3>3. Kept(job'[j], job'[j].frame - 1, saved')
      BY <1>2, <2>1, <3>1 DEF Tally, Kept
    <3>4. Tally(job'[j], saved')
      BY <1>0, <1>2, <2>1, <2>2, <3>1, <3>3 DEF Tally
    <3>5. Exposed(job[j])' /\ Undisturbed(job[j])'
      BY <1>2, <2>1, <3>1, <3>2 DEF Exposed, Undisturbed
    <3> QED BY <1>1, <3>4, <3>5, OneRun
  <2>3. CASE r.frame > n /\ Loop(j, "filter", r.slot + 1, r.frame) /\ UNCHANGED fifo
    <3>1. Same(job'[j]) /\ job'[j].pc = "filter" /\ job'[j].slot = r.slot + 1
      BY <1>0, <2>3 DEF Loop, r
    <3>2. r.frame - 1 = n /\ r.slot - FirstFilter(f) \in Nat
      BY <1>0, <1>2, <2>1, <2>3 DEF Tally
    <3>3. (r.slot + 1 - FirstFilter(f)) * n = (r.slot - FirstFilter(f)) * n + n
      <4>1. r.slot + 1 - FirstFilter(f) = (r.slot - FirstFilter(f)) + 1
        BY <1>0
      <4> QED BY <1>0, <3>2, <4>1, Round
    <3>4. Kept(job'[j], 0, saved')
      <4>1. r.base + (r.slot - FirstFilter(f)) * n + n <= saved
        BY <1>2, <2>1, <3>2 DEF Tally, Kept
      <4>2. (r.slot - FirstFilter(f)) * n \in Nat
        BY <1>0, <3>2, Round
      <4>3. r.base + ((r.slot + 1 - FirstFilter(f)) * n) + 0 <= saved
        BY <1>0, <3>3, <4>1, <4>2
      <4>4. job'[j].slot - FirstFilter(job'[j].params.filter) = r.slot + 1 - FirstFilter(f)
        <5>1. job'[j].params.filter = f /\ job'[j].slot = r.slot + 1
          BY <3>1
        <5> QED BY <1>0, <5>1
      <4>5. job'[j].params.frames = n /\ job'[j].base = r.base /\ saved' = saved
        BY <2>1, <3>1
      <4> QED BY <4>3, <4>4, <4>5, Zenon DEF Kept
    <3>5. Tally(job'[j], saved')
      BY <1>0, <1>2, <2>1, <3>1, <3>4 DEF Tally
    <3> QED BY <1>1, <1>2, <2>1, <2>3, <3>1, <3>5, OneRun DEF Exposed, Undisturbed, DoneLines
  <2> QED BY <1>5, <2>2, <2>3 DEF SendRun, r
<1>6. CASE MarkCapture(j)
  <2>1. /\ r.pc = "mark" /\ statusCapture' /\ UNCHANGED <<fifo, log, fresh, saved>>
        /\ Same(job'[j]) /\ job'[j].pc = "poll" /\ job'[j].slot = r.slot /\ job'[j].frame = r.frame
    BY <1>0, <1>6 DEF MarkCapture, Go, r
  <2>2. Tally(job'[j], saved')
    BY <1>2, <2>1 DEF Tally, Kept
  <2> QED BY <1>1, <1>2, <2>1, <2>2, OneRun DEF Exposed, Undisturbed, DoneLines
<1>7. CASE Poll(j)
  <2>1. r.pc = "poll" /\ fifo = <<>> /\ UNCHANGED <<fifo, log, fresh, saved>>
    BY <1>7 DEF Poll, Slept, r
  <2>2. CASE ~statusCapture /\ Go(j, "save") /\ UNCHANGED statusCapture
    <3>1. /\ Same(job'[j]) /\ job'[j].pc = "save" /\ job'[j].slot = r.slot
          /\ job'[j].frame = r.frame
      BY <1>0, <2>2 DEF Go, r
    <3>2. Tally(job'[j], saved')
      BY <1>2, <2>1, <3>1 DEF Tally, Kept
    <3> QED BY <1>1, <1>2, <2>1, <2>2, <3>1, <3>2, OneRun DEF Exposed, Undisturbed, DoneLines
  <2>3. CASE log \in DoneLines /\ UNCHANGED job
    <3>1. ImageComes
      BY <1>2, <2>1, <2>3 DEF Exposed
    <3>2. job'[j] = r
      BY <2>3 DEF r
    <3> QED BY <1>1, <1>2, <2>1, <3>1, <3>2, OneRun DEF Exposed, Undisturbed, DoneLines
  <2>4. CASE Go(j, "error") /\ UNCHANGED statusCapture
    <3>1. Same(job'[j]) /\ job'[j].pc = "error" /\ job'[j].slot = r.slot
      BY <1>0, <2>4 DEF Go, r
    <3>2. Tally(job'[j], saved')
      BY <1>2, <2>1, <3>1 DEF Tally
    <3> QED BY <1>1, <1>2, <2>1, <3>1, <3>2, OneRun DEF Exposed, Undisturbed, DoneLines
  <2> QED BY <1>7, <2>2, <2>3, <2>4 DEF Poll
<1>8. CASE Copy(j)
  <2>1. /\ r.pc = "save" /\ saved' = saved + fresh /\ UNCHANGED <<fifo, log>>
        /\ Same(job'[j]) /\ job'[j].pc = "clear" /\ job'[j].slot = r.slot /\ job'[j].frame = r.frame
    BY <1>0, <1>8 DEF Copy, Go, r
  <2>2. Kept(job'[j], job'[j].frame, saved')
    <3>0. ImageComes /\ Waited
      BY <1>2, <1>8, <2>1 DEF Exposed, Copy
    <3>1. fresh >= 1 /\ Kept(r, r.frame - 1, saved) /\ r.slot - FirstFilter(f) \in Nat
      BY <1>0, <1>2, <2>1, <3>0 DEF Tally, ImageComes, Waited
    <3>2. (r.slot - FirstFilter(f)) * n \in Nat
      BY <1>0, <3>1, Round
    <3>3. r.base + (r.slot - FirstFilter(f)) * n + (r.frame - 1) <= saved
      BY <3>1 DEF Kept
    <3>4. r.base + (r.slot - FirstFilter(f)) * n + r.frame <= saved + fresh
      BY <1>0, <3>1, <3>2, <3>3
    <3> QED BY <2>1, <3>4 DEF Kept
  <2>3. Tally(job'[j], saved')
    BY <1>0, <1>2, <2>1, <2>2 DEF Tally
  <2> QED BY <1>1, <1>2, <2>1, <2>3, OneRun DEF Exposed, Undisturbed, DoneLines
<1>9. CASE Clear(j)
  <2>1. /\ r.pc = "clear" /\ saved' = saved /\ UNCHANGED <<fifo, log>>
        /\ Same(job'[j]) /\ job'[j].pc \in {"frame", "dither"} /\ job'[j].slot = r.slot
        /\ job'[j].frame = r.frame + 1
    BY <1>0, <1>9 DEF Clear, Loop, r
  <2>2. job'[j].frame - 1 = r.frame /\ r.frame \in 1..n
    BY <1>0, <1>2, <2>1 DEF Tally
  <2>3. Kept(job'[j], job'[j].frame - 1, saved')
    BY <1>2, <2>1, <2>2 DEF Tally, Kept
  <2>4. Tally(job'[j], saved')
    BY <1>0, <1>2, <2>1, <2>2, <2>3 DEF Tally
  <2> QED BY <1>1, <1>2, <2>1, <2>4, OneRun DEF Exposed, Undisturbed, DoneLines
<1>10. CASE DitherDone(j)
  <2>1. /\ r.pc = "dither" /\ saved' = saved /\ UNCHANGED <<fifo, log>>
        /\ Same(job'[j]) /\ job'[j].pc = "frame" /\ job'[j].slot = r.slot /\ job'[j].frame = r.frame
    BY <1>0, <1>10 DEF DitherDone, Go, r
  <2>2. Tally(job'[j], saved')
    BY <1>2, <2>1 DEF Tally, Kept
  <2> QED BY <1>1, <1>2, <2>1, <2>2, OneRun DEF Exposed, Undisturbed, DoneLines
<1> QED BY <1>3, <1>4, <1>5, <1>6, <1>7, <1>8, <1>9, <1>10
(* With users who wait and one stop a run's counters tell what is saved.   *)
THEOREM FramesCounted == Waits => (Spec => []Framed)
<1> SUFFICES ASSUME Waits PROVE Spec => []Framed
  OBVIOUS
<1>1. Init => Framed
  BY DEF Init, Framed, Tally, Exposed, Undisturbed, NoJob
<1>2. Inv /\ Framed /\ [Next]_vars => Framed'
  <2> SUFFICES ASSUME Inv, Framed, [Next]_vars PROVE Framed'
    OBVIOUS
  <2>1. ASSUME NEW j \in Job, JobStep(j) \/ DitherDone(j) PROVE Framed'
    BY <2>1, CcdImagingAssumption, JobFramed, OthersFramed DEF JobStep, Waits
  <2> QED BY <2>1, CameraFramed, OthersFramed DEF Next
<1>3. Spec => []Inv
  BY CcdInvariant
<1> QED BY <1>1, <1>2, <1>3, PTL DEF Spec

(* A sequence that says Done has put into the archive every frame of every *)
(* filter it was asked for (ccdcontrol.c), although the end of an exposure *)
(* is one line of a log in which anybody's commands leave theirs.          *)
THEOREM NoFrameLost == Waits => (Spec => []AllFramesSaved)
<1> SUFFICES ASSUME Waits PROVE Spec => []AllFramesSaved
  OBVIOUS
<1>1. Inv /\ Framed => AllFramesSaved
  <2> SUFFICES ASSUME Inv, Framed, NEW j \in Job, job[j].pc = "ending"
               PROVE  LET r == job[j].params
                      IN  saved - job[j].base >=
                            (LastFilter(r.filter) + 1 - FirstFilter(r.filter)) * r.frames
    BY DEF AllFramesSaved
  <2> DEFINE f == job[j].params.filter
             n == job[j].params.frames
             k == LastFilter(f) + 1 - FirstFilter(f)
  <2>1. /\ f \in Nat /\ n \in Nat /\ k \in Nat /\ job[j].base \in Nat /\ saved \in Nat
        /\ FirstFilter(f) \in Nat /\ LastFilter(f) \in Nat
    <3>1. /\ f \in Nat /\ n \in Nat /\ job[j].base \in Nat
          /\ FirstFilter(f) \in Nat /\ LastFilter(f) \in Nat
      BY CcdImagingAssumption, RunType
    <3>2. FirstFilter(f) <= LastFilter(f)
      BY <3>1, Ordered
    <3> QED BY <3>1, <3>2 DEF Inv, TypeOK
  <2>2. job[j].slot - FirstFilter(f) = k /\ Kept(job[j], 0, saved)
    <3>1. job[j].slot = LastFilter(f) + 1 /\ Kept(job[j], 0, saved)
      BY DEF Framed, Tally
    <3> QED BY <2>1, <3>1
  <2>3. job[j].base + k * n + 0 <= saved
    BY <2>2 DEF Kept
  <2>4. k * n \in Nat
    BY <2>1, Round
  <2>5. saved - job[j].base >= k * n
    BY <2>1, <2>3, <2>4
  <2> QED BY <2>5
<1>2. Spec => [](Inv /\ Framed)
  BY CcdInvariant, FramesCounted, PTL
<1> QED BY <1>1, <1>2, PTL
=============================================================================
