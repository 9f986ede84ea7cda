---------------------------- MODULE DslrProofs ----------------------------
(***************************************************************************)
(* The safety properties of DSLR imaging for every number of tabs,         *)
(* sequences, frames, stops, camera errors and power cuts, every driver,   *)
(* with or without mirror lock-up, dithering and download, provided that   *)
(* the sleeps of the code are long enough (Prompt).                        *)
(***************************************************************************)
EXTENDS DslrImaging, TLAPS

JobRec == [pc : {"none", "new", "frame", "mlu", "open", "expose", "after", "wait", "dither",
                 "ending"},
           i : Nat, n : Frames \cup {0}]

(* A click is served before the next one.                                  *)
OneClick ==
  /\ \A p, q \in Page : start[p] # "none" /\ start[q] # "none" => p = q
  /\ \A p, q \in Page : stop[p] # "none" /\ stop[q] # "none" => p = q
  /\ \A p, q \in Page : start[p] # "none" => stop[q] = "none"

(* From dslr.php's guard to the first step of the program there is one     *)
(* request: a handler, the file startdslr or a new program, one after the  *)
(* other, and nothing else goes on that could make or remove status_dslr.  *)
OneRequest ==
  /\ \A p \in Page : start[p] # "none" \/ stop[p] # "none" =>
       ~startdslr /\ monitor = "look" /\ \A j \in Job : job[j].pc # "new"
  /\ \A p \in Page : start[p] = "write" => ~statusDslr /\ \A j \in Job : job[j].pc = "none"
  /\ startdslr /\ monitor = "look" => \A j \in Job : job[j].pc = "none"

(* A sequence is alone, has its file, and is gone when a stop tidies up.   *)
JobAlone ==
  /\ \A i, j \in Job : job[i].pc # "none" /\ job[j].pc # "none" => i = j
  /\ \A j \in Job : job[j].pc \notin {"none", "new"} => statusDslr
  /\ \A p \in Page : stop[p] = "clean" => \A j \in Job : job[j].pc = "none"

(* A downloader runs only while the sequence that started it waits, and    *)
(* has its file once it has begun.                                         *)
LoaderAwaited ==
  /\ \A l \in Loader : loader[l] # "none" => \E j \in Job : job[j].pc = "wait"
  /\ \A k, l \in Loader : loader[k] # "none" /\ loader[l] # "none" => k = l
  /\ \A l \in Loader : loader[l] = "load" => statusLoading

(* The number of frames is never 0 on its way to the program.              *)
FramesAsked ==
  /\ \A p \in Page : start[p] # "none" => asked[p] # 0
  /\ startdslr => wantedNf # 0
  /\ \A j \in Job : /\ job[j].pc = "new" => wantedNf # 0
                    /\ job[j].pc \notin {"none", "new"} => job[j].n # 0

(* From its second round on a sequence has fetched what it has taken, or   *)
(* the downloader has looked for it in vain.                               *)
PhotosSought ==
  Download /\ count["toggle"] = 0 =>
    /\ download
    /\ \A j \in Job :
         /\ job[j].pc = "wait" => taken \in {fetched, missed} \/ \E l \in Loader : loader[l] # "none"
         /\ job[j].pc \in {"frame", "dither", "mlu", "open"} =>
              job[j].i <= 1 \/ taken \in {fetched, missed}
         /\ job[j].pc = "ending" => taken \in {fetched, missed}

Apart == OneClick /\ OneRequest /\ JobAlone
Inv   == TypeOK /\ Apart /\ LoaderAwaited /\ FramesAsked /\ PhotosSought
-----------------------------------------------------------------------------
(* Types                                                                   *)

(* The initial values have their types.                                    *)
LEMMA InitType == Init => TypeOK
<1> SUFFICES ASSUME Init PROVE TypeOK
  OBVIOUS
<1>1. job \in [Job -> JobRec]
  BY DEF Init, NoJob, JobRec
<1>2. download \in BOOLEAN
  BY DslrImagingAssumption DEF Init, DslrImagingAssumption
<1>3. count \in [Events -> Nat] /\ {fetched, missed} \subseteq 0..taken /\ taken \in Nat
  BY DEF Init
<1>4. /\ {startdslr, download, statusDslr, statusMlu, statusLoading} \subseteq BOOLEAN
      /\ driver \in Drivers /\ shutter \in {"closed", "open", "timed"}
      /\ wantedNf \in Frames \cup {0} /\ monitor \in {"look", "remove"}
  BY <1>2 DEF Init
<1>5. /\ loader \in [Loader -> {"none", "new", "load"}]
      /\ flgCcd \in [Page -> BOOLEAN]
      /\ answer \in [Page -> {"none", "asked", "text", "stars"}]
  BY DEF Init
<1>6. /\ start \in [Page -> {"none", "guard", "write"}]
      /\ asked \in [Page -> Frames \cup {0}]
      /\ stop \in [Page -> {"none", "guard", "kill", "release", "rest", "clean"}]
  BY DEF Init, Idle
<1>7. QED BY <1>1, <1>3, <1>4, <1>5, <1>6 DEF TypeOK, JobRec

(* The page and its handlers keep the types.                               *)
LEMMA PageType ==
  ASSUME DslrImagingAssumption, TypeOK, NEW p \in Page,
         PageStep(p) \/ ReadCCD(p) \/ ServedStep(p)
  PROVE  TypeOK'
<1> USE DEF requestVars, statusVars, cameraVars, pageVars, phpVars
<1>0. job \in [Job -> JobRec]
  BY DEF TypeOK, JobRec
<1>1. CASE ClickStart(p)
  BY <1>1 DEF TypeOK, ClickStart, Happens, Events
<1>2. CASE ClickStop(p)
  BY <1>2 DEF TypeOK, ClickStop, Happens, Events
<1>3. CASE ReadCCD(p) \/ ReadDslrPhp(p) \/ HandleResponse2(p)
  <2>1. CASE ReadCCD(p)
    BY <2>1 DEF TypeOK, ReadCCD
  <2>2. CASE ReadDslrPhp(p)
    BY <2>2 DEF TypeOK, ReadDslrPhp
  <2>3. CASE HandleResponse2(p)
    BY <2>3 DEF TypeOK, HandleResponse2
  <2>4. QED BY <1>3, <2>1, <2>2, <2>3
<1>4. CASE DslrPhpGuard(p)
  BY <1>4 DEF TypeOK, DslrPhpGuard
<1>5. CASE DslrPhpWrite(p)
  BY <1>5 DEF TypeOK, DslrPhpWrite
<1>6. CASE StopGuard(p)
  BY <1>6 DEF TypeOK, StopGuard, StopGo
<1>7. CASE KillGphoto(p)
  <2>1. job' \in [Job -> JobRec]
    BY <1>0, <1>7 DEF KillGphoto, JobRec
  <2>2. QED BY <1>7, <2>1 DEF TypeOK, KillGphoto, StopGo, JobRec
<1>8. CASE ReleaseShutter(p)
  BY <1>8 DEF TypeOK, ReleaseShutter, StopGo, Released
<1>9. CASE KillRest(p)
  <2>1. job' \in [Job -> JobRec]
    BY <1>9 DEF KillRest, NoJob, JobRec
  <2>2. loader' \in [Loader -> {"none", "new", "load"}] /\ shutter' \in {"closed", "open", "timed"}
    BY <1>9 DEF TypeOK, KillRest
  <2>3. QED BY <1>9, <2>1, <2>2 DEF TypeOK, KillRest, StopGo, JobRec
<1>10. CASE StopClean(p)
  BY <1>10 DEF TypeOK, StopClean, StopGo, RemoveStatus
<1>11. QED
  BY <1>1, <1>2, <1>3, <1>4, <1>5, <1>6, <1>7, <1>8, <1>9, <1>10 DEF PageStep, ServedStep

(* A sequence keeps the types.                                             *)
LEMMA JobType ==
  ASSUME DslrImagingAssumption, TypeOK, NEW j \in Job,
         JobStep(j) \/ ShutterError(j) \/ DitherDone(j)
  PROVE  TypeOK'
<1> USE DEF requestVars, statusVars, cameraVars, pageVars, phpVars
<1>0. job \in [Job -> JobRec] /\ job[j] \in JobRec /\ NoJob \in JobRec
  BY DEF TypeOK, JobRec, NoJob
<1>1. CASE JobBegins(j)
  <2>1. [pc |-> "frame", i |-> 1, n |-> wantedNf] \in JobRec
    BY DEF TypeOK, JobRec
  <2>2. job' \in [Job -> JobRec]
    BY <1>0, <1>1, <2>1 DEF JobBegins
  <2>3. QED BY <1>1, <2>2 DEF TypeOK, JobBegins, JobRec
<1>2. CASE NextFrame(j) \/ MirrorUp(j)
  <2>1. job' \in [Job -> JobRec]
    <3>1. PICK pc \in {"ending", "mlu", "open"} : job' = [job EXCEPT ![j].pc = pc]
      BY <1>2 DEF NextFrame, MirrorUp, Go
    <3>2. QED BY <1>0, <3>1 DEF JobRec
  <2>2. statusMlu' \in BOOLEAN
    BY <1>2 DEF NextFrame, MirrorUp, TypeOK
  <2>3. QED BY <1>2, <2>1, <2>2 DEF TypeOK, NextFrame, MirrorUp, JobRec
<1>3. CASE OpenShutter(j) \/ CloseShutter(j)
  <2>1. job' \in [Job -> JobRec]
    BY <1>0, <1>3 DEF OpenShutter, CloseShutter, Go, JobRec
  <2>2. taken' \in Nat /\ {fetched', missed'} \subseteq 0..taken' /\ shutter' \in {"closed", "open", "timed"}
    BY <1>3 DEF OpenShutter, CloseShutter, TypeOK
  <2>3. QED BY <1>3, <2>1, <2>2 DEF TypeOK, OpenShutter, CloseShutter, JobRec
<1>4. CASE Delay(j)
  <2>1. job' \in [Job -> JobRec]
    BY <1>0, <1>4 DEF Delay, Go, JobRec
  <2>2. QED BY <1>4, <2>1 DEF TypeOK, Delay, JobRec
<1>5. CASE AwaitDownload(j)
  <2>1. job' \in [Job -> JobRec]
    BY <1>0, <1>5 DEF AwaitDownload, JobRec
  <2>2. QED BY <1>5, <2>1 DEF TypeOK, AwaitDownload, JobRec
<1>6. CASE DitherDone(j)
  <2>1. job' \in [Job -> JobRec]
    BY <1>0, <1>6 DEF DitherDone, Go, JobRec
  <2>2. QED BY <1>6, <2>1 DEF TypeOK, DitherDone, JobRec
<1>7. CASE JobEnds(j)
  <2>1. job' \in [Job -> JobRec]
    BY <1>0, <1>7 DEF JobEnds
  <2>2. QED BY <1>7, <2>1 DEF TypeOK, JobEnds, JobRec
<1>8. CASE ShutterError(j)
  <2>1. job' \in [Job -> JobRec]
    BY <1>0, <1>8 DEF ShutterError
  <2>2. /\ {statusDslr', statusLoading'} \subseteq BOOLEAN
        /\ loader' \in [Loader -> {"none", "new", "load"}]
    BY <1>8 DEF TypeOK, ShutterError, RemoveStatus
  <2>3. count' \in [Events -> Nat]
    BY <1>8 DEF TypeOK, ShutterError, Happens, Events
  <2>4. QED BY <1>8, <2>1, <2>2, <2>3 DEF TypeOK, ShutterError, JobRec
<1>9. QED
  BY <1>1, <1>2, <1>3, <1>4, <1>5, <1>6, <1>7, <1>8 DEF JobStep

(* The daemon, the downloader and a power cut keep the types.              *)
LEMMA OtherType ==
  ASSUME DslrImagingAssumption, TypeOK,
         \/ ToggleDownload \/ MonitorLook \/ MonitorRemove
         \/ \E l \in Loader : LoadStep(l)
         \/ OrphanCloses \/ Reboot
  PROVE  TypeOK'
<1> USE DEF requestVars, statusVars, cameraVars, pageVars, phpVars
<1>0. job \in [Job -> JobRec] /\ NoJob \in JobRec
  BY DEF TypeOK, JobRec, NoJob
<1>1. CASE ToggleDownload
  BY <1>1 DEF TypeOK, ToggleDownload, Happens, Events
<1>2. CASE MonitorLook
  <2>1. job' \in [Job -> JobRec]
    BY <1>0, <1>2 DEF MonitorLook, JobRec
  <2>2. QED BY <1>2, <2>1 DEF TypeOK, MonitorLook, JobRec
<1>3. CASE MonitorRemove
  BY <1>3 DEF TypeOK, MonitorRemove
<1>4. ASSUME NEW l \in Loader, LoadStep(l) PROVE TypeOK'
  <2>1. CASE LoadBegins(l)
    <3>1. taken \in Nat /\ taken' = taken /\ {fetched', missed'} \subseteq 0..taken'
      BY <2>1 DEF TypeOK, LoadBegins
    <3>2. statusLoading' \in BOOLEAN /\ loader' \in [Loader -> {"none", "new", "load"}]
      BY <2>1 DEF TypeOK, LoadBegins
    <3>3. QED BY <2>1, <3>1, <3>2 DEF TypeOK, LoadBegins
  <2>2. CASE LoadEnds(l)
    <3>1. taken \in Nat /\ taken' = taken /\ {fetched', missed'} \subseteq 0..taken'
      BY <2>2 DEF TypeOK, LoadEnds
    <3>2. QED BY <2>2, <3>1 DEF TypeOK, LoadEnds
  <2>3. QED BY <1>4, <2>1, <2>2 DEF LoadStep
<1>5. CASE OrphanCloses
  BY <1>5 DEF TypeOK, OrphanCloses
<1>6. CASE Reboot
  <2>1. job' \in [Job -> JobRec]
    BY <1>0, <1>6 DEF Reboot
  <2>2. /\ {startdslr', download', statusDslr', statusMlu', statusLoading'} \subseteq BOOLEAN
        /\ loader' \in [Loader -> {"none", "new", "load"}]
    BY <1>6 DEF TypeOK, Reboot, BootClears
  <2>3. /\ start' \in [Page -> {"none", "guard", "write"}]
        /\ asked' \in [Page -> Frames \cup {0}]
        /\ stop' \in [Page -> {"none", "guard", "kill", "release", "rest", "clean"}]
        /\ answer' \in [Page -> {"none", "asked", "text", "stars"}]
    BY <1>6 DEF Reboot
  <2>4. count' \in [Events -> Nat]
    BY <1>6 DEF TypeOK, Reboot, Happens, Events
  <2>5. QED BY <1>6, <2>1, <2>2, <2>3, <2>4 DEF TypeOK, Reboot, JobRec
<1>7. QED BY <1>1, <1>2, <1>3, <1>4, <1>5, <1>6

(* Types are kept by every step.                                           *)
LEMMA TypeStep ==
  ASSUME DslrImagingAssumption, TypeOK, [Next]_vars
  PROVE  TypeOK'
<1>1. CASE UNCHANGED vars
  BY <1>1 DEF TypeOK, vars, requestVars, statusVars, cameraVars, pageVars, phpVars
<1>2. CASE Next
  BY <1>2, PageType, JobType, OtherType DEF Next
<1>3. QED BY <1>1, <1>2
-----------------------------------------------------------------------------
(* Steps that leave requests, sequences and clicks alone.                  *)
LEMMA QuietApart ==
  ASSUME Apart, UNCHANGED <<startdslr, monitor, statusDslr, start, stop, job>>
  PROVE  Apart'
BY DEF Apart, OneClick, OneRequest, JobAlone

(* Steps that leave downloaders and sequences alone.                       *)
LEMMA QuietLoader ==
  ASSUME LoaderAwaited, UNCHANGED <<loader, statusLoading, job>>
  PROVE  LoaderAwaited'
BY DEF LoaderAwaited

(* Steps that leave the numbers of frames and who carries them alone.      *)
LEMMA QuietAsked ==
  ASSUME FramesAsked, UNCHANGED <<start, asked, startdslr, wantedNf, job>>
  PROVE  FramesAsked'
BY DEF FramesAsked

(* Steps that leave the photos and who fetches them alone.                 *)
LEMMA QuietPhotos ==
  ASSUME PhotosSought, UNCHANGED <<download, count["toggle"], job, fetched, missed, taken, loader>>
  PROVE  PhotosSought'
BY DEF PhotosSought

(* A sequence that goes from one stage to another, with its file.          *)
LEMMA StageApart ==
  ASSUME TypeOK, Apart, NEW j \in Job, job[j].pc \notin {"none", "new"},
         NEW r \in JobRec, r.pc \notin {"none", "new"}, job' = [job EXCEPT ![j] = r],
         UNCHANGED <<startdslr, monitor, statusDslr, start, stop>>
  PROVE  Apart'
<1>1. /\ \A i \in Job : job'[i] = IF i = j THEN r ELSE job[i]
      /\ \A i \in Job : i # j => job[i].pc = "none"
      /\ statusDslr
  BY DEF TypeOK, Apart, JobAlone
<1>2. OneClick' /\ JobAlone'
  BY <1>1 DEF Apart, OneClick, JobAlone
<1>3. OneRequest'
  BY <1>1 DEF Apart, OneRequest
<1>4. QED BY <1>2, <1>3 DEF Apart

(* And the number of frames it was given.                                  *)
LEMMA StageAsked ==
  ASSUME TypeOK, FramesAsked, NEW j \in Job, job[j].pc \notin {"none", "new"},
         NEW r \in JobRec, r.pc # "new", r.n = job[j].n, job' = [job EXCEPT ![j] = r],
         UNCHANGED <<start, asked, startdslr, wantedNf>>
  PROVE  FramesAsked'
<1>1. \A i \in Job : job'[i] = IF i = j THEN r ELSE job[i]
  BY DEF TypeOK
<1>2. QED BY <1>1 DEF FramesAsked

(* A stage that does not wait for a downloader has none.                   *)
LEMMA NoLoader ==
  ASSUME Inv, NEW j \in Job, job[j].pc \notin {"none", "wait"}
  PROVE  \A l \in Loader : loader[l] = "none"
BY DEF Inv, Apart, JobAlone, LoaderAwaited

(* With every program gone the rest follows.                               *)
LEMMA AllGone ==
  ASSUME TypeOK, FramesAsked,
         \A j \in Job : job'[j] = NoJob, \A l \in Loader : loader'[l] = "none",
         PhotosSought, UNCHANGED <<startdslr, wantedNf, download, count["toggle"]>>,
         \/ UNCHANGED <<start, asked>>
         \/ \A p \in Page : start'[p] = "none"
  PROVE  LoaderAwaited' /\ FramesAsked' /\ PhotosSought'
BY DEF NoJob, LoaderAwaited, FramesAsked, PhotosSought
-----------------------------------------------------------------------------
(* The page and its handlers                                               *)

(* A click finds the one before it served, and nothing about to begin.     *)
LEMMA ClickInv ==
  ASSUME DslrImagingAssumption, Prompt, Inv, NEW p \in Page, ClickStart(p) \/ ClickStop(p)
  PROVE  Apart' /\ LoaderAwaited' /\ FramesAsked' /\ PhotosSought'
<1>1. /\ \A q \in Page : start[q] = "none" /\ stop[q] = "none"
      /\ ~startdslr /\ monitor = "look"
      /\ \A j \in Job : job[j].pc # "new"
      /\ UNCHANGED <<startdslr, wantedNf, download, monitor, statusDslr, statusLoading, job, loader,
                     fetched, missed, taken>>
  BY DEF ClickStart, ClickStop, Settled, Idle, requestVars, statusVars, cameraVars
<1>2. count'["toggle"] = count["toggle"]
  BY DEF Inv, TypeOK, ClickStart, ClickStop, Happens, Events
<1>3. LoaderAwaited' /\ PhotosSought'
  BY <1>1, <1>2, QuietLoader, QuietPhotos DEF Inv
<1>4. CASE ClickStart(p)
  <2>1. /\ stop' = stop
        /\ \A q \in Page : start'[q] = IF q = p THEN "guard" ELSE "none"
    BY <1>1, <1>4 DEF Inv, TypeOK, ClickStart
  <2>2. Apart'
    BY <1>1, <2>1 DEF Inv, Apart, OneClick, OneRequest, JobAlone
  <2>3. asked'[p] # 0
    BY <1>4 DEF Inv, TypeOK, ClickStart, DslrImagingAssumption
  <2>4. FramesAsked'
    BY <1>1, <2>1, <2>3 DEF Inv, FramesAsked
  <2>5. QED BY <1>3, <2>2, <2>4
<1>5. CASE ClickStop(p)
  <2>1. /\ UNCHANGED <<start, asked>>
        /\ \A q \in Page : stop'[q] = IF q = p THEN "guard" ELSE "none"
    BY <1>1, <1>5 DEF Inv, TypeOK, ClickStop
  <2>2. Apart'
    BY <1>1, <2>1 DEF Inv, Apart, OneClick, OneRequest, JobAlone
  <2>3. FramesAsked'
    BY <1>1, <2>1, QuietAsked DEF Inv
  <2>4. QED BY <1>3, <2>2, <2>3
<1>6. QED BY <1>4, <1>5

(* Status requests change nothing but the page.                            *)
LEMMA AskInv ==
  ASSUME Inv, NEW p \in Page, ReadCCD(p) \/ ReadDslrPhp(p) \/ HandleResponse2(p)
  PROVE  Apart' /\ LoaderAwaited' /\ FramesAsked' /\ PhotosSought'
<1>1. UNCHANGED <<requestVars, statusVars, monitor, job, loader, cameraVars, phpVars, count>>
  BY DEF ReadCCD, ReadDslrPhp, HandleResponse2
<1>2. QED
  BY <1>1, QuietApart, QuietLoader, QuietAsked, QuietPhotos
  DEF Inv, requestVars, statusVars, cameraVars, phpVars

(* dslr.php looks for status_dslr, then writes the request: nothing else   *)
(* is under way.                                                           *)
LEMMA StartInv ==
  ASSUME DslrImagingAssumption, Inv, NEW p \in Page, DslrPhpGuard(p) \/ DslrPhpWrite(p)
  PROVE  Apart' /\ LoaderAwaited' /\ FramesAsked' /\ PhotosSought'
<1>1. /\ start[p] # "none"
      /\ UNCHANGED <<download, monitor, statusDslr, statusLoading, job, loader, fetched, missed,
                     taken, stop, count>>
  BY DEF DslrPhpGuard, DslrPhpWrite, statusVars, requestVars, cameraVars
<1>2. /\ \A q \in Page : stop[q] = "none" /\ (q # p => start[q] = "none")
      /\ ~startdslr /\ monitor = "look" /\ \A j \in Job : job[j].pc # "new"
      /\ asked[p] # 0
  BY <1>1 DEF Inv, Apart, OneClick, OneRequest, FramesAsked
<1>3. LoaderAwaited' /\ PhotosSought'
  BY <1>1, QuietLoader, QuietPhotos DEF Inv
<1>4. CASE DslrPhpGuard(p)
  <2>1. /\ UNCHANGED <<startdslr, wantedNf, asked>>
        /\ \A q \in Page : start'[q] = IF q # p THEN "none"
                                       ELSE IF ~statusDslr THEN "write" ELSE "none"
    BY <1>2, <1>4 DEF Inv, TypeOK, DslrPhpGuard, DslrFree, requestVars
  <2>2. ~statusDslr => \A j \in Job : job[j].pc = "none"
    BY <1>2 DEF Inv, Apart, JobAlone
  <2>3. OneClick' /\ OneRequest' /\ JobAlone'
    BY <1>1, <1>2, <2>1, <2>2 DEF Inv, Apart, OneClick, OneRequest, JobAlone
  <2>4. FramesAsked'
    BY <1>1, <1>2, <2>1 DEF Inv, FramesAsked
  <2>5. QED BY <1>3, <2>3, <2>4 DEF Apart
<1>5. CASE DslrPhpWrite(p)
  <2>1. /\ startdslr' /\ wantedNf' = asked[p]
        /\ \A q \in Page : start'[q] = "none"
        /\ \A j \in Job : job[j].pc = "none"
    BY <1>2, <1>5 DEF Inv, TypeOK, Apart, OneRequest, DslrPhpWrite
  <2>2. OneClick' /\ OneRequest' /\ JobAlone'
    BY <1>1, <1>2, <2>1 DEF OneClick, OneRequest, JobAlone
  <2>3. FramesAsked'
    BY <1>1, <1>2, <2>1 DEF FramesAsked
  <2>4. QED BY <1>3, <2>2, <2>3 DEF Apart
<1>6. QED BY <1>4, <1>5

(* A stop: while it works on, no sequence can begin; when it removes the   *)
(* files it has killed the one there was.                                  *)
LEMMA StopInv ==
  ASSUME Inv, NEW p \in Page,
         StopGuard(p) \/ KillGphoto(p) \/ ReleaseShutter(p) \/ KillRest(p) \/ StopClean(p)
  PROVE  Apart' /\ LoaderAwaited' /\ FramesAsked' /\ PhotosSought'
<1>1. /\ stop[p] # "none"
      /\ UNCHANGED <<startdslr, wantedNf, download, monitor, fetched, missed, taken, start, asked,
                     count>>
  BY DEF StopGuard, KillGphoto, ReleaseShutter, KillRest, StopClean, StopGo, requestVars,
         cameraVars
<1>2. /\ \A q \in Page : start[q] = "none" /\ (q # p => stop[q] = "none")
      /\ ~startdslr /\ monitor = "look" /\ \A j \in Job : job[j].pc # "new"
  BY <1>1 DEF Inv, Apart, OneClick, OneRequest
<1>3. CASE StopGuard(p) \/ ReleaseShutter(p)
  <2>1. /\ UNCHANGED <<statusDslr, statusLoading, job, loader>>
        /\ \E pc \in {"none", "kill", "release", "rest"} :
              \A q \in Page : stop'[q] = IF q = p THEN pc ELSE "none"
    BY <1>2, <1>3 DEF Inv, TypeOK, StopGuard, ReleaseShutter, StopGo, statusVars
  <2>2. OneClick' /\ OneRequest' /\ JobAlone'
    BY <1>1, <1>2, <2>1 DEF Inv, Apart, OneClick, OneRequest, JobAlone
  <2>3. LoaderAwaited' /\ FramesAsked' /\ PhotosSought'
    BY <1>1, <2>1, QuietLoader, QuietAsked, QuietPhotos DEF Inv
  <2>4. QED BY <2>2, <2>3 DEF Apart
<1>4. CASE KillGphoto(p)
  <2>1. /\ UNCHANGED <<statusDslr, statusLoading, loader>>
        /\ \A q \in Page : stop'[q] = IF q = p THEN "release" ELSE "none"
    BY <1>2, <1>4 DEF Inv, TypeOK, KillGphoto, StopGo, statusVars
  <2>2. \A j \in Job : /\ job[j].pc # "expose" => job'[j] = job[j]
                       /\ job[j].pc = "expose" => /\ job'[j].pc = "after"
                                                  /\ job'[j].n = job[j].n
    BY <1>4 DEF Inv, TypeOK, KillGphoto
  <2>3. OneClick' /\ OneRequest' /\ JobAlone'
    BY <1>1, <1>2, <2>1, <2>2 DEF Inv, Apart, OneClick, OneRequest, JobAlone
  <2>4. LoaderAwaited' /\ FramesAsked'
    BY <1>1, <2>1, <2>2 DEF Inv, LoaderAwaited, FramesAsked
  <2>5. PhotosSought'
    BY <1>1, <2>1, <2>2 DEF Inv, PhotosSought
  <2>6. QED BY <2>3, <2>4, <2>5 DEF Apart
<1>5. CASE KillRest(p)
  <2>1. /\ statusDslr' = statusDslr
        /\ \A q \in Page : stop'[q] = IF q = p THEN "clean" ELSE "none"
        /\ \A j \in Job : job'[j] = NoJob
        /\ \A l \in Loader : loader'[l] = "none"
    BY <1>2, <1>5 DEF Inv, TypeOK, KillRest, StopGo, statusVars
  <2>2. OneClick' /\ OneRequest' /\ JobAlone'
    BY <1>1, <1>2, <2>1 DEF NoJob, OneClick, OneRequest, JobAlone
  <2>3. LoaderAwaited' /\ FramesAsked' /\ PhotosSought'
    BY <1>1, <2>1, AllGone DEF Inv
  <2>4. QED BY <2>2, <2>3 DEF Apart
<1>6. CASE StopClean(p)
  <2>1. /\ \A q \in Page : stop'[q] = "none"
        /\ \A j \in Job : job[j].pc = "none"
        /\ UNCHANGED <<job, loader>>
    BY <1>2, <1>6 DEF Inv, TypeOK, Apart, JobAlone, StopClean, StopGo
  <2>2. \A l \in Loader : loader[l] = "none"
    BY <2>1 DEF Inv, LoaderAwaited
  <2>3. OneClick' /\ OneRequest' /\ JobAlone'
    BY <1>1, <1>2, <2>1 DEF OneClick, OneRequest, JobAlone
  <2>4. LoaderAwaited' /\ FramesAsked' /\ PhotosSought'
    BY <1>1, <2>1, <2>2, QuietAsked, QuietPhotos DEF Inv, LoaderAwaited
  <2>5. QED BY <2>3, <2>4 DEF Apart
<1>7. QED BY <1>3, <1>4, <1>5, <1>6
-----------------------------------------------------------------------------
(* The sequence                                                            *)

(* The first step makes the file, while nobody else is about.              *)
LEMMA BeginInv ==
  ASSUME Inv, NEW j \in Job, JobBegins(j)
  PROVE  Apart' /\ LoaderAwaited' /\ FramesAsked' /\ PhotosSought'
<1>1. /\ job[j].pc = "new" /\ statusDslr'
      /\ UNCHANGED <<startdslr, wantedNf, download, monitor, statusLoading, loader, fetched, missed,
                     taken, start, asked, stop, count>>
  BY DEF JobBegins, requestVars, cameraVars, phpVars
<1>2. /\ \A i \in Job : i # j => job[i].pc = "none"
      /\ \A i \in Job : job'[i] = IF i = j THEN [pc |-> "frame", i |-> 1, n |-> wantedNf]
                                          ELSE job[i]
  BY <1>1 DEF JobBegins, Inv, TypeOK, Apart, JobAlone
<1>3. /\ \A q \in Page : start[q] = "none" /\ stop[q] = "none"
      /\ ~(startdslr /\ monitor = "look") /\ wantedNf # 0
  BY <1>1 DEF Inv, Apart, OneRequest, FramesAsked
<1>4. \A l \in Loader : loader[l] = "none"
  BY <1>1, NoLoader
<1>5. OneClick' /\ OneRequest' /\ JobAlone'
  BY <1>1, <1>2, <1>3 DEF OneClick, OneRequest, JobAlone
<1>6. LoaderAwaited' /\ FramesAsked'
  BY <1>1, <1>2, <1>3, <1>4 DEF LoaderAwaited, FramesAsked
<1>7. PhotosSought'
  BY <1>1, <1>2 DEF Inv, PhotosSought
<1>8. QED BY <1>5, <1>6, <1>7 DEF Apart

(* A stage that neither starts nor awaits a downloader.                    *)
LEMMA StageInv ==
  ASSUME Inv, NEW j \in Job, job[j].pc \notin {"none", "new", "wait"},
         NEW r \in JobRec, r.pc \notin {"none", "new", "wait"}, r.n = job[j].n,
         job' = [job EXCEPT ![j] = r],
         UNCHANGED <<startdslr, wantedNf, monitor, statusDslr, start, asked, stop, loader, download,
                     count["toggle"]>>,
         Download /\ count["toggle"] = 0 =>
           /\ r.pc \in {"frame", "dither", "mlu", "open"} => r.i <= 1 \/ taken' \in {fetched', missed'}
           /\ r.pc = "ending" => taken' \in {fetched', missed'}
  PROVE  Apart' /\ LoaderAwaited' /\ FramesAsked' /\ PhotosSought'
<1>1. /\ \A i \in Job : job'[i] = IF i = j THEN r ELSE job[i]
      /\ \A i \in Job : i # j => job[i].pc = "none"
      /\ \A l \in Loader : loader[l] = "none"
  BY NoLoader DEF Inv, TypeOK, Apart, JobAlone
<1>2. Apart' /\ FramesAsked'
  BY StageApart, StageAsked DEF Inv
<1>3. LoaderAwaited' /\ PhotosSought'
  BY <1>1 DEF Inv, LoaderAwaited, PhotosSought
<1>4. QED BY <1>2, <1>3

(* The loop: its head, the mirror, the shutter, the dither.                *)
LEMMA FrameInv ==
  ASSUME DslrImagingAssumption, Inv, NEW j \in Job,
         NextFrame(j) \/ MirrorUp(j) \/ OpenShutter(j) \/ CloseShutter(j) \/ DitherDone(j)
  PROVE  Apart' /\ LoaderAwaited' /\ FramesAsked' /\ PhotosSought'
<1>1. /\ job[j].pc \in {"frame", "mlu", "open", "expose", "dither"}
      /\ UNCHANGED <<startdslr, wantedNf, monitor, statusDslr, start, asked, stop, loader, download,
                     count["toggle"]>>
  BY DEF NextFrame, MirrorUp, OpenShutter, CloseShutter, DitherDone, requestVars, statusVars,
         phpVars
<1>2. /\ job[j] \in JobRec /\ job[j].i \in Nat /\ job[j].n \in Nat /\ job[j].n # 0
  BY <1>1 DEF Inv, TypeOK, JobRec, FramesAsked, DslrImagingAssumption
<1>3. PICK pc \in {"ending", "mlu", "open", "expose", "after", "frame"} :
        /\ job' = [job EXCEPT ![j].pc = pc]
        /\ pc \in {"ending", "mlu", "open"} =>
             /\ job[j].pc \in {"frame", "mlu"} /\ UNCHANGED <<fetched, missed, taken>>
             /\ pc = "ending" => job[j].i > job[j].n
        /\ pc = "frame" => job[j].pc = "dither" /\ UNCHANGED <<fetched, missed, taken>>
  BY DEF NextFrame, MirrorUp, OpenShutter, CloseShutter, DitherDone, Go, cameraVars
<1> DEFINE r == [job[j] EXCEPT !.pc = pc]
<1>4. /\ r \in JobRec /\ r.pc = pc /\ r.n = job[j].n /\ r.i = job[j].i
      /\ job' = [job EXCEPT ![j] = r]
  BY <1>2, <1>3 DEF JobRec
<1>5. ASSUME Download, count["toggle"] = 0
      PROVE  /\ pc \in {"frame", "dither", "mlu", "open"} => r.i <= 1 \/ taken' \in {fetched', missed'}
             /\ pc = "ending" => taken' \in {fetched', missed'}
  <2>1. job[j].pc \in {"frame", "dither", "mlu", "open"} => job[j].i <= 1 \/ taken \in {fetched, missed}
    BY <1>5 DEF Inv, PhotosSought
  <2>2. pc \in {"frame", "dither", "mlu", "open"} => r.i <= 1 \/ taken' \in {fetched', missed'}
    BY <2>1, <1>3, <1>4
  <2>3. pc = "ending" => taken' \in {fetched', missed'}
    BY <2>1, <1>2, <1>3
  <2>4. QED BY <2>2, <2>3
<1> HIDE DEF r
<1>6. QED BY <1>1, <1>3, <1>4, <1>5, StageInv

(* The downloader is started, or not.                                      *)
LEMMA DelayInv ==
  ASSUME Inv, NEW j \in Job, Delay(j)
  PROVE  Apart' /\ LoaderAwaited' /\ FramesAsked' /\ PhotosSought'
<1>1. /\ job[j].pc = "after"
      /\ UNCHANGED <<startdslr, wantedNf, download, monitor, statusDslr, statusLoading, start,
                     asked, stop, count>>
  BY DEF Delay, requestVars, statusVars, phpVars
<1>2. \A l \in Loader : loader[l] = "none"
  BY <1>1, NoLoader
<1> DEFINE r == [job[j] EXCEPT !.pc = "wait"]
<1>3. /\ r \in JobRec /\ r.pc = "wait" /\ r.n = job[j].n
      /\ job' = [job EXCEPT ![j] = r]
      /\ \A i \in Job : job'[i] = IF i = j THEN r ELSE job[i]
      /\ \A i \in Job : i # j => job[i].pc = "none"
  BY <1>1 DEF Inv, TypeOK, Apart, JobAlone, Delay, Go, JobRec
<1> HIDE DEF r
<1>4. Apart' /\ FramesAsked'
  BY <1>1, <1>3, StageApart, StageAsked DEF Inv
<1>5. CASE download /\ \E l \in Loader : loader' = [loader EXCEPT ![l] = "new"]
  <2>1. PICK l \in Loader : loader' = [loader EXCEPT ![l] = "new"]
    BY <1>5
  <2>2. \A k \in Loader : loader'[k] = IF k = l THEN "new" ELSE "none"
    BY <1>2, <2>1 DEF Inv, TypeOK
  <2>3. LoaderAwaited' /\ PhotosSought'
    BY <1>1, <1>3, <2>2 DEF Inv, LoaderAwaited, PhotosSought
  <2>4. QED BY <1>4, <2>3
<1>6. CASE ~download /\ loader' = loader
  <2>1. LoaderAwaited' /\ PhotosSought'
    BY <1>1, <1>2, <1>3, <1>6 DEF Inv, LoaderAwaited, PhotosSought
  <2>2. QED BY <1>4, <2>1
<1>7. QED BY <1>5, <1>6 DEF Delay

(* The wait for status_loading: seven seconds after its start the          *)
(* downloader has made it, so without the file it is over.                 *)
LEMMA AwaitInv ==
  ASSUME Prompt, Inv, NEW j \in Job, AwaitDownload(j)
  PROVE  Apart' /\ LoaderAwaited' /\ FramesAsked' /\ PhotosSought'
<1>1. /\ job[j].pc = "wait"
      /\ UNCHANGED <<startdslr, wantedNf, download, monitor, statusDslr, statusLoading, loader,
                     start, asked, stop, count, fetched, missed, taken>>
  BY DEF AwaitDownload, requestVars, statusVars, cameraVars, phpVars
<1>2. \A l \in Loader : loader[l] = "none"
  BY DEF AwaitDownload, Loaded, Inv, TypeOK, LoaderAwaited
<1>3. PICK pc \in {"dither", "frame"} :
        job' = [job EXCEPT ![j] = [pc |-> pc, i |-> job[j].i + 1, n |-> job[j].n]]
  BY DEF AwaitDownload
<1> DEFINE r == [pc |-> pc, i |-> job[j].i + 1, n |-> job[j].n]
<1>4. /\ r \in JobRec /\ r.pc = pc /\ r.n = job[j].n
      /\ job' = [job EXCEPT ![j] = r]
      /\ \A i \in Job : job'[i] = IF i = j THEN r ELSE job[i]
      /\ \A i \in Job : i # j => job[i].pc = "none"
  BY <1>1, <1>3 DEF Inv, TypeOK, Apart, JobAlone, JobRec
<1> HIDE DEF r
<1>5. Apart' /\ FramesAsked'
  BY <1>1, <1>4, StageApart, StageAsked DEF Inv
<1>6. LoaderAwaited' /\ PhotosSought'
  BY <1>1, <1>2, <1>4 DEF Inv, LoaderAwaited, PhotosSought
<1>7. QED BY <1>5, <1>6

(* The end, or gphoto2's error, which kills everything named dslr.         *)
LEMMA EndInv ==
  ASSUME Inv, NEW j \in Job, JobEnds(j) \/ ShutterError(j)
  PROVE  Apart' /\ LoaderAwaited' /\ FramesAsked' /\ PhotosSought'
<1>1. /\ job[j].pc \in {"ending", "expose"}
      /\ UNCHANGED <<startdslr, wantedNf, download, monitor, start, asked, stop>>
  BY DEF JobEnds, ShutterError, requestVars, phpVars
<1>2. count'["toggle"] = count["toggle"]
  BY DEF Inv, TypeOK, JobEnds, ShutterError, Happens, Events
<1>3. \A i \in Job : i # j => job[i] = NoJob \/ job[i].pc = "none"
  BY <1>1 DEF Inv, Apart, JobAlone
<1>4. /\ \A i \in Job : job'[i].pc = "none"
      /\ \A l \in Loader : loader'[l] = "none"
  <2>1. CASE JobEnds(j)
    BY <1>1, <1>3, <2>1, NoLoader DEF Inv, TypeOK, JobEnds, NoJob
  <2>2. CASE ShutterError(j)
    BY <2>2 DEF ShutterError, NoJob
  <2>3. QED BY <2>1, <2>2
<1>5. OneClick' /\ OneRequest' /\ JobAlone'
  <2>1. statusDslr' = FALSE
    BY DEF JobEnds, ShutterError, RemoveStatus
  <2>2. QED BY <1>1, <1>4, <2>1 DEF Inv, Apart, OneClick, OneRequest, JobAlone
<1>6. LoaderAwaited' /\ FramesAsked' /\ PhotosSought'
  BY <1>1, <1>2, <1>4 DEF Inv, LoaderAwaited, FramesAsked, PhotosSought
<1>7. QED BY <1>5, <1>6 DEF Apart
-----------------------------------------------------------------------------
(* The daemon, the downloader, the button, a power cut                     *)

(* monitor_camera starts what was asked for, when nothing else is alive.   *)
LEMMA MonitorInv ==
  ASSUME Inv, MonitorLook \/ MonitorRemove
  PROVE  Apart' /\ LoaderAwaited' /\ FramesAsked' /\ PhotosSought'
<1>1. UNCHANGED <<wantedNf, download, statusDslr, statusLoading, loader, fetched, missed, taken,
                  start, asked, stop, count>>
  BY DEF MonitorLook, MonitorRemove, requestVars, statusVars, cameraVars, phpVars
<1>2. CASE MonitorLook
  <2>1. startdslr /\ monitor = "look" /\ monitor' = "remove" /\ startdslr' = startdslr
    BY <1>2 DEF MonitorLook, requestVars
  <2>2. /\ \A q \in Page : start[q] = "none" /\ stop[q] = "none"
        /\ \A j \in Job : job[j].pc = "none"
        /\ wantedNf # 0
    BY <2>1 DEF Inv, Apart, OneRequest, FramesAsked
  <2>3. PICK j \in Job : job' = [job EXCEPT ![j].pc = "new"]
    BY <1>2 DEF MonitorLook
  <2>4. \A i \in Job : job'[i].pc = IF i = j THEN "new" ELSE "none"
    BY <2>2, <2>3 DEF Inv, TypeOK
  <2>5. \A l \in Loader : loader[l] = "none"
    BY <2>2 DEF Inv, LoaderAwaited
  <2>6. OneClick' /\ OneRequest' /\ JobAlone'
    BY <1>1, <2>1, <2>2, <2>4 DEF OneClick, OneRequest, JobAlone
  <2>7. LoaderAwaited' /\ FramesAsked' /\ PhotosSought'
    BY <1>1, <2>1, <2>2, <2>4, <2>5 DEF Inv, LoaderAwaited, FramesAsked, PhotosSought
  <2>8. QED BY <2>6, <2>7 DEF Apart
<1>3. CASE MonitorRemove
  <2>1. monitor = "remove" /\ monitor' = "look" /\ startdslr' = FALSE /\ job' = job
    BY <1>3 DEF MonitorRemove
  <2>2. OneClick' /\ OneRequest' /\ JobAlone'
    BY <1>1, <2>1 DEF Inv, Apart, OneClick, OneRequest, JobAlone
  <2>3. LoaderAwaited' /\ FramesAsked' /\ PhotosSought'
    BY <1>1, <2>1 DEF Inv, LoaderAwaited, FramesAsked, PhotosSought
  <2>4. QED BY <2>2, <2>3 DEF Apart
<1>4. QED BY <1>2, <1>3

(* The downloader is alone, so its file is there until it has ended.       *)
LEMMA LoadInv ==
  ASSUME Inv, NEW l \in Loader, LoadStep(l)
  PROVE  Apart' /\ LoaderAwaited' /\ FramesAsked' /\ PhotosSought'
<1>1. /\ loader[l] # "none"
      /\ UNCHANGED <<startdslr, wantedNf, download, monitor, statusDslr, job, taken, start, asked,
                     stop, count>>
  BY DEF LoadStep, LoadBegins, LoadEnds, requestVars, statusVars, cameraVars, phpVars
<1>2. /\ \A k \in Loader : k # l => loader[k] = "none" /\ loader'[k] = "none"
      /\ \/ loader'[l] = "load" /\ statusLoading' /\ fetched' = fetched /\ missed' = missed
         \/ loader'[l] = "none" /\ taken \in {fetched', missed'}
  BY <1>1 DEF Inv, TypeOK, LoaderAwaited, LoadStep, LoadBegins, LoadEnds, cameraVars
<1>3. Apart' /\ FramesAsked'
  BY <1>1, QuietApart, QuietAsked DEF Inv
<1>4. LoaderAwaited' /\ PhotosSought'
  BY <1>1, <1>2 DEF Inv, LoaderAwaited, PhotosSought
<1>5. QED BY <1>3, <1>4

(* The download button, which only matters to LastPhotoSought, and        *)
(* gphoto2 closing the shutter after its script has been killed.           *)
LEMMA QuietInv ==
  ASSUME DslrImagingAssumption, Inv, ToggleDownload \/ OrphanCloses \/ UNCHANGED vars
  PROVE  Apart' /\ LoaderAwaited' /\ FramesAsked' /\ PhotosSought'
<1>1. UNCHANGED <<startdslr, wantedNf, monitor, statusDslr, statusLoading, job, loader, start,
                  asked, stop, fetched, missed, taken>>
  BY DEF ToggleDownload, OrphanCloses, vars, requestVars, statusVars, cameraVars, phpVars
<1>2. Apart' /\ LoaderAwaited' /\ FramesAsked'
  BY <1>1, QuietApart, QuietLoader, QuietAsked DEF Inv
<1>3. PhotosSought'
  <2>1. CASE ToggleDownload
    <3>1. count["toggle"] \in Nat /\ count'["toggle"] = count["toggle"] + 1
      BY <2>1 DEF Inv, TypeOK, Events, ToggleDownload, Happens
    <3>2. QED BY <3>1 DEF PhotosSought
  <2>2. CASE OrphanCloses \/ UNCHANGED vars
    BY <1>1, <2>2, QuietPhotos DEF Inv, OrphanCloses, vars, requestVars
  <2>3. QED BY <2>1, <2>2
<1>4. QED BY <1>2, <1>3

(* After a power cut a request may be left, but nothing that runs.         *)
LEMMA RebootInv ==
  ASSUME Inv, Reboot
  PROVE  Apart' /\ LoaderAwaited' /\ FramesAsked' /\ PhotosSought'
<1>1. /\ \A q \in Page : start'[q] = "none" /\ stop'[q] = "none"
      /\ \A j \in Job : job'[j] = NoJob
      /\ \A l \in Loader : loader'[l] = "none"
      /\ UNCHANGED <<startdslr, wantedNf, download>>
  BY DEF Reboot, requestVars
<1>2. count'["toggle"] = count["toggle"]
  BY DEF Inv, TypeOK, Reboot, Happens, Events
<1>3. OneClick' /\ OneRequest' /\ JobAlone'
  BY <1>1 DEF NoJob, OneClick, OneRequest, JobAlone
<1>4. LoaderAwaited' /\ FramesAsked' /\ PhotosSought'
  BY <1>1, <1>2, AllGone DEF Inv
<1>5. QED BY <1>3, <1>4 DEF Apart
-----------------------------------------------------------------------------
(* The theorems                                                            *)

(* Every variable has its type, also without Prompt.                       *)
THEOREM TypeCorrect == Spec => []TypeOK
<1>1. TypeOK /\ [Next]_vars => TypeOK'
  BY DslrImagingAssumption, TypeStep
<1>2. QED BY InitType, <1>1, PTL DEF Spec

(* With the sleeps long enough handlers, daemon, sequence, downloader and  *)
(* stop stay apart.                                                        *)
THEOREM DslrInvariant == Prompt => (Spec => []Inv)
<1> SUFFICES ASSUME Prompt PROVE Spec => []Inv
  OBVIOUS
<1>1. Init => Inv
  <2> SUFFICES ASSUME Init PROVE Inv
    OBVIOUS
  <2>1. /\ \A p \in Page : start[p] = "none" /\ stop[p] = "none"
        /\ \A j \in Job : job[j].pc = "none"
        /\ \A l \in Loader : loader[l] = "none"
        /\ startdslr = FALSE /\ download = Download
    BY DEF Init, Idle, NoJob
  <2>2. Apart /\ LoaderAwaited /\ FramesAsked /\ PhotosSought
    BY <2>1 DEF Apart, OneClick, OneRequest, JobAlone, LoaderAwaited, FramesAsked, PhotosSought
  <2>3. QED BY <2>2, InitType DEF Inv
<1>2. Inv /\ [Next]_vars => Inv'
  <2> SUFFICES ASSUME Inv, [Next]_vars
               PROVE  Apart' /\ LoaderAwaited' /\ FramesAsked' /\ PhotosSought'
    BY DslrImagingAssumption, TypeStep DEF Inv
  <2>1. CASE ToggleDownload \/ OrphanCloses \/ UNCHANGED vars
    BY <2>1, DslrImagingAssumption, QuietInv
  <2>2. ASSUME NEW p \in Page, PageStep(p) \/ ReadCCD(p) \/ ServedStep(p)
        PROVE  Apart' /\ LoaderAwaited' /\ FramesAsked' /\ PhotosSought'
    BY <2>2, DslrImagingAssumption, ClickInv, AskInv, StartInv, StopInv DEF PageStep, ServedStep
  <2>3. ASSUME NEW j \in Job, JobStep(j) \/ ShutterError(j) \/ DitherDone(j)
        PROVE  Apart' /\ LoaderAwaited' /\ FramesAsked' /\ PhotosSought'
    BY <2>3, DslrImagingAssumption, BeginInv, FrameInv, DelayInv, AwaitInv, EndInv DEF JobStep
  <2>4. ASSUME NEW l \in Loader, LoadStep(l)
        PROVE  Apart' /\ LoaderAwaited' /\ FramesAsked' /\ PhotosSought'
    BY <2>4, LoadInv
  <2>5. CASE MonitorLook \/ MonitorRemove
    BY <2>5, MonitorInv
  <2>6. CASE Reboot
    BY <2>6, RebootInv
  <2>7. QED BY <2>1, <2>2, <2>3, <2>4, <2>5, <2>6 DEF Next
<1>3. QED BY <1>1, <1>2, PTL DEF Spec

(* Two sequences never drive the shutter at once, and the one that runs    *)
(* keeps its file.                                                         *)
THEOREM OneAtATime == Prompt => (Spec => []OneSequence)
<1> SUFFICES ASSUME Prompt PROVE Spec => []OneSequence
  OBVIOUS
<1>1. Inv => OneSequence
  BY DEF Inv, Apart, JobAlone, OneSequence, Live
<1>2. QED BY <1>1, DslrInvariant, PTL

(* No photo is downloaded while the next one is exposed.                   *)
THEOREM DownloadApart == Prompt => (Spec => []NoDownloadWhileExposing)
<1> SUFFICES ASSUME Prompt PROVE Spec => []NoDownloadWhileExposing
  OBVIOUS
<1>1. Inv => NoDownloadWhileExposing
  BY DEF Inv, Apart, JobAlone, LoaderAwaited, NoDownloadWhileExposing
<1>2. QED BY <1>1, DslrInvariant, PTL

(* A sequence that says Done has fetched its last photo, or the downloader *)
(* has looked for it in vain after the last frame.                         *)
THEOREM LastPhotoNotForgotten == Prompt => (Spec => []LastPhotoSought)
<1> SUFFICES ASSUME Prompt PROVE Spec => []LastPhotoSought
  OBVIOUS
<1>1. Inv => LastPhotoSought
  BY DEF Inv, PhotosSought, LastPhotoSought
<1>2. QED BY <1>1, DslrInvariant, PTL
=============================================================================
