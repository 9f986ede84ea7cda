-------------------------- MODULE HatTrickProofs --------------------------
(***************************************************************************)
(* A GoQat sequence and the guiding monitor on one Commands.txt, for every *)
(* number of runs, filters, frames, stops, camera failures and power cuts, *)
(* every writer overwriting the file without looking.  Three layers: types *)
(* and the monitor's own commands, whatever users do; one sequence, when   *)
(* users wait for a stop to have its effect (~Overlap), whatever is        *)
(* overwritten; and every frame, as long as no cancel is overwritten       *)
(* before GoQat has read it.                                               *)
(***************************************************************************)
EXTENDS HatTrick, TLAPS

RunRec == [pc : RunPc, last : Nat, filter : Nat, frames : Nat, frame : Nat, shot : Nat]

Busy(p) == run[p].pc \notin {"none", "focuser"}

(* A frame is named when its button is pressed, the camera's work has a    *)
(* name, and only QSI_stop.php cancels.                                    *)
FramesNamed ==
  /\ \A p \in Proc : run[p].pc \in {"press", "wait", "process"} => run[p].shot # 0
  /\ slot.cmd = "expose" => pressed # NoFrame
  /\ camera \in {"exposing", "cancelling"} => exposing # NoFrame
  /\ slot.cmd = "cancel" => slot.by = "stop"

(* At most one sequence is prepared or at work, and it has its file.  A    *)
(* stop finds none left; its watcher has the file for itself.              *)
SequenceAlone ==
  /\ \A p, q \in Proc : Busy(p) /\ Busy(q) => p = q
  /\ starting # "idle" =>
       /\ \A p \in Proc : ~Busy(p)
       /\ statusCcd /\ ~statusCapture /\ stopping \in {"no", "focuser"} /\ watchers = 0
  /\ starting = "setup" => prepareCcd
  /\ starting = "spawn" => stopping = "no"
  /\ stopping \in {"cancel", "release"} => statusCcd /\ watchers = 0
  /\ stopping = "focuser" => ~statusCapture /\ watchers = 0
  /\ \A p \in Proc : Busy(p) =>
       /\ statusCcd /\ stopping = "no" /\ watchers = 0
       /\ run[p].pc \notin {"press", "wait"} => ~statusCapture
  /\ statusCapture => statusCcd
  /\ watchers # 0 => statusCcd /\ stopping = "no" /\ watchers = 1

(* The last exposure is over, and the button has not been pressed again.   *)
CameraRests == camera \in {"idle", "hung"} /\ slot.cmd # "expose"

(* From the button to the image in tmp_images, for the frame p waits for.  *)
WaitsForFrame(p) ==
  /\ pressed = <<p, run[p].shot>> /\ script[p] = "none"
  /\ slot.cmd # "cancel" /\ camera # "cancelling"
  /\ camera = "exposing" => exposing = pressed
  /\ ~CameraRests => tmp = {}
  /\ tmp \subseteq {pressed}
  /\ ~statusCapture => tmp = {pressed}

(* From tmp_images to images.                                              *)
SavesFrame(p) ==
  /\ pressed = <<p, run[p].shot>> /\ CameraRests
  /\ script[p] = "copy" => tmp = {pressed}
  /\ script[p] # "copy" => pressed \in images
  /\ script[p] \in {"clear", "none"} => tmp = {}

(* What the sequence at work has for itself: the camera, tmp_images and    *)
(* process_image.sh.                                                       *)
Stage(p) ==
  /\ \A q \in Proc : q # p => script[q] = "none"
  /\ run[p].pc \in {"filter", "frame", "press", "ending"} =>
       CameraRests /\ tmp = {} /\ script[p] = "none"
  /\ run[p].pc = "press" => statusCapture
  /\ run[p].pc = "wait" => WaitsForFrame(p)
  /\ run[p].pc = "process" => SavesFrame(p)

(* It has it from the start to the end, and a stop gives the camera back   *)
(* before the next sequence.                                               *)
FrameAlone ==
  /\ slot.cmd = "expose" => camera \in {"idle", "hung"}
  /\ \A p \in Proc : Busy(p) => Stage(p)
  /\ \A p \in Proc : run[p].pc = "focuser" => script[p] = "none"
  /\ starting # "idle" =>
       CameraRests /\ tmp = {} /\ \A p \in Proc : script[p] = "none"
  /\ stopping = "release" \/ watchers # 0 =>
       slot.cmd # "expose" /\ (camera = "exposing" => slot.cmd = "cancel")
  /\ stopping # "no" /\ ~statusCapture => CameraRests
  /\ stopping = "no" /\ watchers = 0 /\ (\A p \in Proc : ~Busy(p)) => CameraRests

(* The shutter follows the monitor's two commands while none of them is    *)
(* overwritten by another program: the selection has been read before the  *)
(* button, and the button before the report.                               *)
Follows(s, set, select) ==
  /\ monitor = s => IF slot.by = "monitor" THEN slot.cmd = select ELSE selection = s
  /\ monitor = set =>
       selection = s /\ IF slot.by = "monitor" THEN slot.cmd = "setShutter" ELSE shutter = s

MonitorCommands == {"selectClose", "selectOpen", "setShutter"}

ShutterFollows ==
  /\ slot.by = "monitor" <=> slot.cmd \in MonitorCommands
  /\ lost \cap MonitorCommands = {} =>
       /\ monitor = "recv" => shutter = alert /\ slot.by # "monitor"
       /\ Follows("Close", "CloseSet", "selectClose")
       /\ Follows("Open", "OpenSet", "selectOpen")

(* Every cancel has been heard, and what is called complete is in images.  *)
Heard == "cancel" \notin lost
Saved == done \subseteq images

(* The three layers, and what the second and the third assume of users.    *)
TypeInv  == HatTypeOK /\ FramesNamed
AloneInv == TypeInv /\ SequenceAlone
FrameInv == AloneInv /\ (Heard => FrameAlone /\ Saved)

NotOverlapping == ~Overlap
-----------------------------------------------------------------------------
(* Types                                                                   *)

(* Empty is not a command.                                                 *)
LEMMA SlotType ==
  ASSUME slot \in Command \cup {Empty}
  PROVE  /\ slot # Empty => slot \in Command
         /\ slot = Empty => slot.cmd = "none" /\ slot.by = "none"
         /\ \A c \in Commands, b \in Writers :
              [cmd |-> c, by |-> b] \in Command \cup {Empty}
BY DEF Command, Empty

(* What a write leaves in the file and in lost.                            *)
LEMMA WriteType ==
  ASSUME TypeOK, NEW c \in Commands, NEW b \in Writers, Write(c, b)
  PROVE  /\ slot' \in Command \cup {Empty} /\ lost' \subseteq Vital
         /\ slot' = [cmd |-> c, by |-> b] /\ slot'.cmd = c /\ slot'.by = b
<1>1. slot' = [cmd |-> c, by |-> b] /\ slot' \in Command \cup {Empty}
  BY DEF Write, Command
<1>2. lost' \subseteq Vital
  BY DEF Write, TypeOK, Vital
<1>3. QED BY <1>1, <1>2

(* The initial values.                                                     *)
LEMMA InitType == HatInit => TypeInv
<1> SUFFICES ASSUME HatInit PROVE TypeInv
  OBVIOUS
<1>1. run \in [Proc -> RunRec]
  BY DEF HatInit, Init, NoRun, RunRec, RunPc
<1>2. setupLeft \in 0..SetupLen
  BY QsiAssumption DEF QsiAssumption, HatInit, Init
<1>3. count \in [Events -> Nat] /\ script \in [Proc -> {"none", "copy", "preview", "clear"}]
  BY DEF HatInit, Init
<1>4. TypeOK
  BY <1>1, <1>2, <1>3 DEF HatInit, Init, TypeOK, RunRec
<1>5. FramesNamed
  BY DEF HatInit, Init, FramesNamed, NoRun, Empty
<1>6. QED BY <1>4, <1>5 DEF TypeInv, HatTypeOK, HatInit

(* One run's record is replaced.                                           *)
LEMMA RunUpdate ==
  ASSUME run \in [Proc -> RunRec], NEW p \in Proc, NEW r \in RunRec,
         run' = [run EXCEPT ![p] = r]
  PROVE  /\ run' \in [Proc -> RunRec] /\ run'[p] = r
         /\ \A q \in Proc : q # p => run'[q] = run[q]
OBVIOUS

(* What each step of a run does to its record.                             *)
LEMMA RunEffect ==
  ASSUME run \in [Proc -> RunRec], NEW p \in Proc, RunStep(p)
  PROVE  /\ run' \in [Proc -> RunRec]
         /\ \A q \in Proc : q # p => run'[q] = run[q]
         /\ SelectFilter(p) =>
              /\ run[p].pc = "filter" /\ run'[p].pc \in {"frame", "ending"}
              /\ run'[p].shot = run[p].shot
         /\ BeginFrame(p) =>
              /\ run[p].pc = "frame"
              /\ \/ run'[p].pc = "filter" /\ UNCHANGED statusCapture
                 \/ run'[p].pc = "press" /\ run'[p].shot # 0 /\ statusCapture'
         /\ PressStart(p) =>
              run[p].pc = "press" /\ run'[p].pc = "wait" /\ run'[p].shot = run[p].shot
         /\ Wait(p) =>
              /\ run[p].pc = "wait" /\ run'[p].shot = run[p].shot
              /\ \/ run' = run /\ script' = script
                 \/ run'[p].pc = "process" /\ script' = [script EXCEPT ![p] = "copy"]
         /\ Completed(p) => run[p].pc = "process" /\ run'[p].pc = "frame"
         /\ Finish(p) =>
              run[p].pc = "ending" /\ run'[p].pc = IF FocuserLink THEN "focuser" ELSE "none"
         /\ CloseFocuser(p) => run[p].pc = "focuser" /\ run'[p].pc = "none"
<1> DEFINE Others == run' \in [Proc -> RunRec] /\ \A q \in Proc : q # p => run'[q] = run[q]
<1>0. run[p] \in RunRec
  OBVIOUS
<1> USE DEF At, RunRec, RunPc
<1>1. ASSUME SelectFilter(p) PROVE Others
  BY <1>0, <1>1 DEF SelectFilter, Loop
<1>2. ASSUME SelectFilter(p)
      PROVE  /\ run[p].pc = "filter" /\ run'[p].pc \in {"frame", "ending"}
          /\ run'[p].shot = run[p].shot
  BY <1>0, <1>2 DEF SelectFilter, Loop
<1>3. ASSUME BeginFrame(p) PROVE Others
  BY <1>0, <1>3 DEF BeginFrame, Loop
<1>4. ASSUME BeginFrame(p)
      PROVE  /\ run[p].pc = "frame"
          /\ \/ run'[p].pc = "filter" /\ UNCHANGED statusCapture
             \/ run'[p].pc = "press" /\ run'[p].shot # 0 /\ statusCapture'
  BY <1>0, <1>4 DEF BeginFrame, Loop
<1>5. ASSUME PressStart(p) PROVE Others
  BY <1>0, <1>5 DEF PressStart
<1>6. ASSUME PressStart(p)
      PROVE  run[p].pc = "press" /\ run'[p].pc = "wait" /\ run'[p].shot = run[p].shot
  BY <1>0, <1>6 DEF PressStart
<1>7. ASSUME Wait(p) PROVE Others
  BY <1>0, <1>7 DEF Wait
<1>8. ASSUME Wait(p)
      PROVE  /\ run[p].pc = "wait" /\ run'[p].shot = run[p].shot
          /\ \/ run' = run /\ script' = script
             \/ run'[p].pc = "process" /\ script' = [script EXCEPT ![p] = "copy"]
  BY <1>0, <1>8 DEF Wait
<1>9. ASSUME Completed(p) PROVE Others
  BY <1>0, <1>9 DEF Completed, Loop
<1>10. ASSUME Completed(p)
      PROVE  run[p].pc = "process" /\ run'[p].pc = "frame"
  BY <1>0, <1>10 DEF Completed, Loop
<1>11. ASSUME Finish(p) PROVE Others
  BY <1>0, <1>11 DEF Finish
<1>12. ASSUME Finish(p)
      PROVE  run[p].pc = "ending" /\ run'[p].pc = IF FocuserLink THEN "focuser" ELSE "none"
  BY <1>0, <1>12 DEF Finish
<1>13. ASSUME CloseFocuser(p) PROVE Others
  BY <1>0, <1>13 DEF CloseFocuser
<1>14. ASSUME CloseFocuser(p)
      PROVE  run[p].pc = "focuser" /\ run'[p].pc = "none"
  BY <1>0, <1>14 DEF CloseFocuser
<1>15. QED
  BY <1>1, <1>2, <1>3, <1>4, <1>5, <1>6, <1>7, <1>8, <1>9, <1>10, <1>11, <1>12, <1>13, <1>14 DEF RunStep

(* GoQat and the camera.                                                   *)
LEMMA CameraType ==
  ASSUME TypeOK, FramesNamed, CameraStep
  PROVE  TypeOK' /\ FramesNamed'
<1> USE DEF fileVars, slotVars, cameraVars, imageVars, seqVars, requestVars
<1>1. CASE ReadCommand
  <2>1. slot \in Command /\ slot' = Empty /\ UNCHANGED <<lost, run, pressed, tmp, images, done>>
    BY <1>1, SlotType DEF TypeOK, ReadCommand
  <2>2. /\ camera' \in {"idle", "exposing", "cancelling", "hung"}
        /\ exposing' \in {exposing, pressed}
        /\ selection' \in {"Open", "Close"} /\ shutter' \in {"Open", "Close"}
    BY <1>1 DEF TypeOK, ReadCommand
  <2>3. TypeOK'
    BY <1>1, <2>1, <2>2 DEF TypeOK, ReadCommand
  <2>4. camera' \in {"exposing", "cancelling"} => exposing' # NoFrame
    BY <1>1 DEF TypeOK, ReadCommand, FramesNamed
  <2>5. FramesNamed'
    BY <2>1, <2>4 DEF FramesNamed, Empty
  <2>6. QED BY <2>3, <2>5
<1>2. CASE ExposureEnds \/ CancelEnds
  <2>1. exposing \in Frame /\ tmp' \in {tmp, tmp \cup {exposing}} /\ exposing' = NoFrame
    BY <1>2 DEF ExposureEnds, CancelEnds, TypeOK, FramesNamed
  <2>2. \A f \in tmp' \cup images \cup done : f \in Frame
    BY <2>1 DEF TypeOK
  <2>3. TypeOK'
    BY <1>2, <2>1, <2>2 DEF TypeOK, ExposureEnds, CancelEnds
  <2>4. FramesNamed'
    BY <1>2 DEF FramesNamed, ExposureEnds, CancelEnds
  <2>5. QED BY <2>3, <2>4
<1>3. CASE CameraHangs
  <2>1. count' \in [Events -> Nat]
    BY <1>3 DEF TypeOK, CameraHangs, Happens, Events
  <2>2. TypeOK'
    BY <1>3, <2>1 DEF TypeOK, CameraHangs
  <2>3. FramesNamed'
    BY <1>3 DEF FramesNamed, CameraHangs
  <2>4. QED BY <2>2, <2>3
<1>4. QED BY <1>1, <1>2, <1>3 DEF CameraStep

(* QSI_start.php, QSI_stop.php and the watcher.                            *)
LEMMA RequestType ==
  ASSUME QsiAssumption, TypeOK, FramesNamed,
         Start \/ StartStep \/ Stop \/ StopStep \/ WatcherEnds \/ WatcherCloses
  PROVE  TypeOK' /\ FramesNamed'
<1> USE DEF fileVars, slotVars, cameraVars, imageVars, seqVars, requestVars
<1>1. CASE Start
  <2>1. count' \in [Events -> Nat] /\ setupLeft' \in 0..SetupLen
    BY <1>1 DEF TypeOK, Start, Happens, Events, QsiAssumption
  <2>2. TypeOK'
    BY <1>1, <2>1 DEF TypeOK, Start
  <2>3. QED BY <1>1, <2>2 DEF FramesNamed, Start
<1>2. CASE Setup
  <2>1. slot'.cmd = "setup" /\ slot' \in Command \cup {Empty} /\ lost' \subseteq Vital
    BY <1>2, WriteType DEF Setup, Commands, Writers
  <2>2. setupLeft' \in 0..SetupLen
    BY <1>2 DEF TypeOK, Setup, QsiAssumption
  <2>3. TypeOK'
    BY <1>2, <2>1, <2>2 DEF TypeOK, Setup
  <2>4. QED BY <1>2, <2>1, <2>3 DEF FramesNamed, Setup
<1>3. CASE Prepared
  <2>1. TypeOK'
    BY <1>3 DEF TypeOK, Prepared
  <2>2. QED BY <1>3, <2>1 DEF FramesNamed, Prepared
<1>4. ASSUME NEW code \in FilterCode, NEW n \in FrameCount, Spawn(code, n)
      PROVE  TypeOK' /\ FramesNamed'
  <2> DEFINE r == [pc |-> "filter", last |-> LastFilter(code), filter |-> FirstFilter(code),
                   frames |-> n, frame |-> 1, shot |-> 0]
  <2>1. r \in RunRec /\ r.pc = "filter"
    BY DEF QsiAssumption, RunRec, RunPc, LastFilter, FirstFilter, Ranges
  <2>2. run' = [run EXCEPT ![count["run"]] = r]
    BY <1>4 DEF Spawn
  <2> HIDE DEF r
  <2>3. run' \in [Proc -> RunRec] /\ \A p \in Proc : run'[p].pc # "filter" => run'[p] = run[p]
    BY <2>1, <2>2 DEF TypeOK, RunRec
  <2>4. TypeOK'
    BY <1>4, <2>3 DEF TypeOK, Spawn, RunRec
  <2>5. QED BY <1>4, <2>3, <2>4 DEF FramesNamed, Spawn
<1>5. CASE Stop
  <2>1. run' \in [Proc -> RunRec] /\ \A p \in Proc : run'[p].pc = "none"
    BY <1>5 DEF Stop, NoRun, RunRec, RunPc
  <2>2. count' \in [Events -> Nat]
    BY <1>5 DEF TypeOK, Stop, Happens, Events
  <2>3. TypeOK'
    BY <1>5, <2>1, <2>2 DEF TypeOK, Stop, RunRec
  <2>4. QED BY <1>5, <2>1, <2>3 DEF FramesNamed, Stop
<1>6. CASE Cancel
  <2>1. /\ slot'.cmd = "cancel" /\ slot'.by = "stop"
        /\ slot' \in Command \cup {Empty} /\ lost' \subseteq Vital
    BY <1>6, WriteType DEF Cancel, Commands, Writers
  <2>2. TypeOK'
    BY <1>6, <2>1 DEF TypeOK, Cancel
  <2>3. QED BY <1>6, <2>1, <2>2 DEF FramesNamed, Cancel
<1>7. CASE Release
  <2>1. /\ watchers' \in Nat /\ stopping' \in {"no", "cancel", "release", "focuser"}
        /\ statusCcd' \in BOOLEAN /\ statusCapture' \in BOOLEAN
    <3>1. watchers \in Nat /\ statusCcd \in BOOLEAN /\ statusCapture \in BOOLEAN
      BY DEF TypeOK
    <3>2. stopping' \in {"no", "focuser"}
      BY <1>7 DEF Release
    <3>3. watchers' \in {watchers, watchers + 1} /\ statusCcd' \in {FALSE, statusCcd}
      BY <1>7 DEF Release
    <3>4. statusCapture' \in {FALSE, statusCapture}
      BY <1>7 DEF Release
    <3>5. watchers' \in Nat
      BY <3>1, <3>3
    <3>6. statusCcd' \in BOOLEAN /\ statusCapture' \in BOOLEAN
      BY <3>1, <3>3, <3>4
    <3>7. QED BY <3>2, <3>5, <3>6
  <2>2. UNCHANGED <<prepareCcd, statusProcessing, slot, lost, cameraVars, imageVars, seqVars,
                    starting, setupLeft, closing, count>>
    BY <1>7 DEF Release
  <2>3. TypeOK'
    BY <2>1, <2>2 DEF TypeOK
  <2>4. QED BY <2>2, <2>3 DEF FramesNamed
<1>8. CASE WatcherEnds
  <2>1. /\ watchers' \in Nat /\ closing' \in Nat
        /\ statusCcd' \in BOOLEAN /\ statusCapture' \in BOOLEAN
    <3>1. watchers \in Nat /\ closing \in Nat /\ watchers > 0
      BY <1>8 DEF TypeOK, WatcherEnds
    <3>2. watchers' = watchers - 1 /\ statusCapture' = FALSE /\ statusCcd' = FALSE
      BY <1>8 DEF WatcherEnds
    <3>3. closing' \in {closing, closing + 1}
      BY <1>8 DEF WatcherEnds
    <3>4. watchers' \in Nat /\ closing' \in Nat
      BY <3>1, <3>2, <3>3
    <3>5. QED BY <3>2, <3>4
  <2>2. UNCHANGED <<prepareCcd, statusProcessing, slot, lost, cameraVars, imageVars, seqVars,
                    starting, setupLeft, stopping, count>>
    BY <1>8 DEF WatcherEnds
  <2>3. TypeOK'
    BY <2>1, <2>2 DEF TypeOK
  <2>4. QED BY <2>2, <2>3 DEF FramesNamed
<1>9. CASE StopFocuser \/ WatcherCloses
  <2>1. slot'.cmd = "focuser" /\ slot' \in Command \cup {Empty} /\ lost' \subseteq Vital
    BY <1>9, WriteType DEF StopFocuser, WatcherCloses, Commands, Writers
  <2>2. closing' \in Nat /\ stopping' \in {"no", "cancel", "release", "focuser"}
    BY <1>9 DEF TypeOK, StopFocuser, WatcherCloses
  <2>3. UNCHANGED <<fileVars, cameraVars, imageVars, seqVars, starting, setupLeft, watchers, count>>
    BY <1>9 DEF StopFocuser, WatcherCloses
  <2>4. TypeOK'
    BY <2>1, <2>2, <2>3 DEF TypeOK
  <2>5. QED BY <2>1, <2>3, <2>4 DEF FramesNamed
<1>10. QED
  BY <1>1, <1>2, <1>3, <1>4, <1>5, <1>6, <1>7, <1>8, <1>9 DEF StartStep, StopStep

(* QSIcontrol and process_image.sh.                                        *)
LEMMA RunType ==
  ASSUME TypeOK, FramesNamed, NEW p \in Proc, RunStep(p)
  PROVE  TypeOK' /\ FramesNamed'
<1> USE DEF fileVars, slotVars, cameraVars, imageVars, seqVars, requestVars
<1>1. run \in [Proc -> RunRec] /\ run[p] \in RunRec
  BY DEF TypeOK, RunRec
<1>2. run' \in [Proc -> RunRec]
  BY <1>1, RunEffect
<1>3. \A q \in Proc : run'[q].pc \in {"press", "wait", "process"} => run'[q].shot # 0
  BY <1>1, RunEffect DEF RunStep, FramesNamed
<1>4. CASE SelectFilter(p)
  <2>1. UNCHANGED slotVars \/ Write("filter", "seq")
    BY <1>4 DEF SelectFilter
  <2>2. /\ slot' = slot \/ slot'.cmd = "filter"
        /\ slot' \in Command \cup {Empty} /\ lost' \subseteq Vital
    BY <2>1, WriteType DEF TypeOK, Commands, Writers
  <2>3. TypeOK'
    BY <1>2, <1>4, <2>2 DEF TypeOK, SelectFilter, RunRec
  <2>4. QED BY <1>3, <1>4, <2>2, <2>3 DEF FramesNamed, SelectFilter
<1>5. CASE BeginFrame(p)
  <2>1. /\ statusCapture' \in BOOLEAN
        /\ UNCHANGED <<statusCcd, prepareCcd, statusProcessing, slotVars, cameraVars, imageVars,
                       script, pressed, requestVars, count>>
    BY <1>5 DEF BeginFrame, TypeOK
  <2>2. TypeOK'
    BY <1>2, <2>1 DEF TypeOK, RunRec
  <2>3. QED BY <1>3, <2>1, <2>2 DEF FramesNamed
<1>6. CASE PressStart(p)
  <2>1. pressed' = <<p, run[p].shot>> /\ pressed' \in Frame /\ pressed' # NoFrame
    BY <1>1, <1>6 DEF PressStart, At, FramesNamed, Frame, NoFrame, RunRec
  <2>2. slot'.cmd = "expose" /\ slot' \in Command \cup {Empty} /\ lost' \subseteq Vital
    BY <1>6, WriteType DEF PressStart, Commands, Writers
  <2>3. TypeOK'
    BY <1>2, <1>6, <2>1, <2>2 DEF TypeOK, PressStart, RunRec
  <2>4. QED BY <1>3, <1>6, <2>1, <2>2, <2>3 DEF FramesNamed, PressStart
<1>7. CASE Wait(p)
  <2>1. script' \in [Proc -> {"none", "copy", "preview", "clear"}] /\ statusCapture' \in BOOLEAN
    BY <1>7 DEF Wait, TypeOK
  <2>2. UNCHANGED <<statusCcd, prepareCcd, statusProcessing, slotVars, cameraVars, imageVars,
                    pressed, requestVars, count>>
    BY <1>7 DEF Wait
  <2>3. TypeOK'
    BY <1>2, <2>1, <2>2 DEF TypeOK, RunRec
  <2>4. QED BY <1>3, <2>2, <2>3 DEF FramesNamed
<1>8. CASE Completed(p)
  <2>1. <<p, run[p].shot>> \in Frame
    BY <1>1, <1>8 DEF Completed, At, FramesNamed, Frame, RunRec
  <2>2. \A f \in tmp' \cup images' \cup done' : f \in Frame
    BY <1>8, <2>1 DEF Completed, TypeOK
  <2>3. TypeOK'
    BY <1>2, <1>8, <2>2 DEF TypeOK, Completed, RunRec
  <2>4. QED BY <1>3, <1>8, <2>3 DEF Completed, FramesNamed
<1>9. CASE Finish(p)
  <2>1. TypeOK'
    BY <1>2, <1>9 DEF TypeOK, Finish, RunRec
  <2>2. QED BY <1>3, <1>9, <2>1 DEF FramesNamed, Finish
<1>10. CASE CloseFocuser(p)
  <2>1. slot'.cmd = "focuser" /\ slot' \in Command \cup {Empty} /\ lost' \subseteq Vital
    BY <1>10, WriteType DEF CloseFocuser, Commands, Writers
  <2>2. TypeOK'
    BY <1>2, <1>10, <2>1 DEF TypeOK, CloseFocuser, RunRec
  <2>3. QED BY <1>3, <1>10, <2>1, <2>2 DEF FramesNamed, CloseFocuser
<1>11. QED
  BY <1>4, <1>5, <1>6, <1>7, <1>8, <1>9, <1>10 DEF RunStep

(* process_image.sh.                                                       *)
LEMMA ScriptType ==
  ASSUME TypeOK, FramesNamed, NEW p \in Proc, ScriptStep(p)
  PROVE  TypeOK' /\ FramesNamed'
<1> USE DEF fileVars, slotVars, cameraVars, imageVars, seqVars, requestVars
<1>1. script' \in [Proc -> {"none", "copy", "preview", "clear"}] /\ statusProcessing' \in BOOLEAN
  BY DEF ScriptStep, CopyImage, ClearImage, Processed, TypeOK
<1>2. \A f \in tmp' \cup images' \cup done' : f \in tmp \cup images \cup done
  BY DEF ScriptStep, CopyImage, ClearImage, Processed
<1>3. TypeOK'
  BY <1>1, <1>2 DEF ScriptStep, CopyImage, ClearImage, Processed, TypeOK
<1>4. QED BY <1>3 DEF ScriptStep, CopyImage, ClearImage, Processed, FramesNamed

(* The monitor, and a power cut.                                           *)
LEMMA MonitorType ==
  ASSUME TypeInv, (\E armed, beyond \in BOOLEAN : Message(armed, beyond)) \/ SetShutter \/ Report
  PROVE  TypeInv'
<1> USE DEF fileVars, slotVars, cameraVars, imageVars, seqVars, requestVars, qsiVars, qsiButSlot
<1>1. UNCHANGED qsiButSlot
  BY DEF Message, SetShutter, Report
<1>2. UNCHANGED slotVars \/ \E c \in MonitorCommands : Write(c, "monitor")
  BY DEF Message, SetShutter, Report, MonitorCommands
<1>3. /\ slot' \in Command \cup {Empty} /\ lost' \subseteq Vital
      /\ slot' = slot \/ slot'.cmd \in MonitorCommands
  <2>1. CASE UNCHANGED slotVars
    BY <2>1 DEF TypeInv, HatTypeOK, TypeOK
  <2>2. ASSUME NEW c \in MonitorCommands, Write(c, "monitor")
        PROVE  /\ slot' \in Command \cup {Empty} /\ lost' \subseteq Vital
               /\ slot'.cmd \in MonitorCommands
    BY <2>2, WriteType DEF TypeInv, HatTypeOK, MonitorCommands, Commands, Writers
  <2>3. QED BY <1>2, <2>1, <2>2
<1>4. TypeOK'
  BY <1>1, <1>3 DEF TypeInv, HatTypeOK, TypeOK
<1>5. FramesNamed'
  BY <1>1, <1>3 DEF TypeInv, FramesNamed, MonitorCommands
<1>6. /\ hattrick' \in BOOLEAN /\ alert' \in {"Close", "Open"}
      /\ monitor' \in {"recv", "Close", "Open", "CloseSet", "OpenSet"}
  BY DEF Message, SetShutter, Report, TypeInv, HatTypeOK
<1>7. QED BY <1>4, <1>5, <1>6 DEF TypeInv, HatTypeOK

(* After a power cut everything is as at the start, but for the images.    *)
LEMMA CutType == ASSUME QsiAssumption, TypeInv, HatPowerCut PROVE TypeInv'
<1> USE DEF TypeInv, HatTypeOK
<1>1. run' \in [Proc -> RunRec] /\ \A p \in Proc : run'[p].pc = "none"
  BY DEF HatPowerCut, PowerCut, NoRun, RunRec, RunPc
<1>2. /\ count' \in [Events -> Nat] /\ setupLeft' \in 0..SetupLen
      /\ script' \in [Proc -> {"none", "copy", "preview", "clear"}]
  BY DEF HatPowerCut, PowerCut, TypeOK, Happens, Events, QsiAssumption
<1>3. TypeOK'
  BY <1>1, <1>2 DEF HatPowerCut, PowerCut, TypeOK, RunRec, imageVars
<1>4. FramesNamed'
  BY <1>1 DEF HatPowerCut, PowerCut, FramesNamed, Empty
<1>5. QED BY <1>3, <1>4 DEF HatPowerCut

(* Stuttering.                                                             *)
LEMMA StutterType == ASSUME TypeInv, UNCHANGED vars PROVE TypeInv'
BY DEF TypeInv, HatTypeOK, TypeOK, FramesNamed, vars, hatVars, qsiVars, fileVars, slotVars, cameraVars,
       imageVars, seqVars, requestVars

(* The types are inductive without an assumption about users or GoQat.     *)
LEMMA TypeStep == ASSUME QsiAssumption, TypeInv, [Next]_vars PROVE TypeInv'
<1>1. CASE QsiStep /\ UNCHANGED hatVars
  <2>1. TypeOK' /\ FramesNamed'
    BY <1>1, CameraType, RequestType, RunType, ScriptType DEF QsiStep, TypeInv, HatTypeOK
  <2>2. QED BY <1>1, <2>1 DEF TypeInv, HatTypeOK, hatVars
<1>2. QED BY <1>1, MonitorType, CutType, StutterType DEF Next
-----------------------------------------------------------------------------
(* One sequence                                                            *)

aloneVars == <<statusCcd, prepareCcd, statusCapture, starting, stopping, watchers>>

(* At the start there is none.                                             *)
LEMMA InitAlone == HatInit => SequenceAlone
BY DEF HatInit, Init, NoRun, SequenceAlone, Busy

(* Steps of the camera, of the scripts, of the monitor.                    *)
LEMMA AloneSame == ASSUME SequenceAlone, UNCHANGED aloneVars, run' = run PROVE SequenceAlone'
BY DEF SequenceAlone, Busy, aloneVars

(* QSI_start.php finds no status_ccd: nobody else is at work.              *)
LEMMA StartAlone ==
  ASSUME QsiAssumption, NotOverlapping, TypeInv, SequenceAlone, Start \/ StartStep
  PROVE  SequenceAlone'
<1> USE DEF fileVars, slotVars, seqVars, requestVars
<1>1. CASE Start
  <2>1. /\ ~statusCapture /\ watchers = 0 /\ stopping \in {"no", "focuser"}
        /\ \A p \in Proc : ~Busy(p)
    BY <1>1 DEF Start, SequenceAlone, TypeInv, HatTypeOK, TypeOK
  <2>2. run' = run /\ starting' = "setup" /\ statusCcd' /\ prepareCcd'
        /\ UNCHANGED <<statusCapture, stopping, watchers>>
    BY <1>1 DEF Start
  <2>3. QED BY <2>1, <2>2 DEF SequenceAlone, Busy
<1>2. CASE Setup
  BY <1>2, AloneSame DEF Setup, aloneVars
<1>3. CASE Prepared
  BY <1>3 DEF Prepared, SequenceAlone, Busy
<1>4. ASSUME NEW code \in FilterCode, NEW n \in FrameCount, Spawn(code, n)
      PROVE  SequenceAlone'
  <2>1. PICK r : run' = [run EXCEPT ![count["run"]] = r]
    BY <1>4 DEF Spawn
  <2>2. /\ \A p \in Proc : p # count["run"] => run'[p] = run[p]
        /\ count["run"] \in Proc => run'[count["run"]].pc = "filter"
    BY <1>4 DEF Spawn, TypeInv, HatTypeOK, TypeOK
  <2>3. /\ \A p \in Proc : ~Busy(p)
        /\ statusCcd /\ ~statusCapture /\ stopping = "no" /\ watchers = 0
    BY <1>4 DEF Spawn, SequenceAlone
  <2>4. \A p \in Proc : Busy(p)' => p = count["run"]
    BY <2>2, <2>3 DEF Busy
  <2>5. starting' = "idle" /\ UNCHANGED <<statusCcd, prepareCcd, statusCapture, stopping, watchers>>
    BY <1>4 DEF Spawn
  <2>6. QED BY <2>3, <2>4, <2>5 DEF SequenceAlone
<1>5. QED BY <1>1, <1>2, <1>3, <1>4 DEF StartStep

(* A stop leaves no sequence; what is left of status_ccd goes with the     *)
(* stop or with its one watcher.                                           *)
LEMMA StopAlone ==
  ASSUME NotOverlapping, TypeInv, SequenceAlone,
         Stop \/ StopStep \/ WatcherEnds \/ WatcherCloses
  PROVE  SequenceAlone'
<1> USE DEF fileVars, slotVars, seqVars, requestVars
<1>1. CASE Stop
  <2>1. starting = "idle" /\ watchers = 0 /\ statusCcd
    BY <1>1 DEF Stop, SequenceAlone, NotOverlapping, TypeInv, HatTypeOK, TypeOK
  <2>2. \A p \in Proc : ~Busy(p)'
    BY <1>1 DEF Stop, Busy, NoRun
  <2>3. QED BY <1>1, <2>1, <2>2 DEF Stop, SequenceAlone
<1>2. CASE Cancel \/ Release \/ WatcherEnds
  <2>1. /\ starting = "idle" /\ run' = run /\ starting' = starting
        /\ \A p \in Proc : ~Busy(p) /\ ~Busy(p)'
    BY <1>2 DEF Cancel, Release, WatcherEnds, SequenceAlone, TypeInv, HatTypeOK, TypeOK, Busy
  <2>2. CASE Cancel
    BY <2>1, <2>2 DEF Cancel, SequenceAlone
  <2>3. CASE Release
    <3>1. watchers = 0 /\ statusCcd
      BY <2>3 DEF Release, SequenceAlone
    <3>2. \/ /\ statusCapture /\ ~statusCapture' /\ watchers' = 1 /\ statusCcd'
             /\ stopping' = "no"
          \/ /\ ~statusCapture /\ ~statusCapture' /\ watchers' = 0 /\ ~statusCcd'
             /\ stopping' \in {"no", "focuser"}
      <4>1. stopping' \in {"no", "focuser"}
        BY <2>3 DEF Release
      <4>2. CASE statusCapture
        BY <2>3, <3>1, <4>2 DEF Release
      <4>3. CASE ~statusCapture
        BY <2>3, <3>1, <4>1, <4>3 DEF Release
      <4>4. QED BY <4>2, <4>3
    <3>3. QED BY <2>1, <3>1, <3>2 DEF SequenceAlone
  <2>4. CASE WatcherEnds
    <3>1. watchers' = 0 /\ ~statusCcd' /\ ~statusCapture' /\ stopping = "no" /\ stopping' = "no"
      BY <2>4 DEF WatcherEnds, SequenceAlone, TypeInv, HatTypeOK, TypeOK
    <3>2. QED BY <2>1, <3>1 DEF SequenceAlone
  <2>5. QED BY <1>2, <2>2, <2>3, <2>4
<1>3. CASE StopFocuser
  <2>1. stopping' = "no" /\ UNCHANGED <<statusCcd, prepareCcd, statusCapture, starting, run, watchers>>
    BY <1>3 DEF StopFocuser
  <2>2. watchers = 0 /\ \A p \in Proc : ~Busy(p)
    BY <1>3 DEF StopFocuser, SequenceAlone
  <2>3. QED BY <2>1, <2>2 DEF SequenceAlone, Busy
<1>4. CASE WatcherCloses
  BY <1>4, AloneSame DEF WatcherCloses, aloneVars
<1>5. QED BY <1>1, <1>2, <1>3, <1>4 DEF StopStep

(* A sequence at work keeps its file until it ends.                        *)
LEMMA RunAlone ==
  ASSUME TypeInv, SequenceAlone, NEW p \in Proc, RunStep(p)
  PROVE  SequenceAlone'
<1> USE DEF fileVars, slotVars, requestVars
<1>1. /\ run \in [Proc -> RunRec]
      /\ \A q \in Proc : q # p => run'[q] = run[q]
  BY RunEffect DEF TypeInv, HatTypeOK, TypeOK, RunRec
<1>2. UNCHANGED <<prepareCcd, starting, stopping, watchers>>
  BY DEF RunStep, SelectFilter, BeginFrame, PressStart, Wait, Completed, Finish, CloseFocuser
<1>3. CASE CloseFocuser(p)
  <2>1. \A q \in Proc : Busy(q)' => Busy(q) /\ run'[q].pc = run[q].pc
    BY <1>1, <1>3, RunEffect DEF Busy
  <2>2. UNCHANGED <<statusCcd, statusCapture>>
    BY <1>3 DEF CloseFocuser
  <2>3. QED BY <1>2, <2>1, <2>2 DEF SequenceAlone
<1>4. CASE ~CloseFocuser(p)
  <2>1. Busy(p)
    BY <1>1, <1>4, RunEffect DEF Busy, RunStep
  <2>2. /\ \A q \in Proc : q # p => ~Busy(q) /\ ~Busy(q)'
        /\ starting = "idle" /\ stopping = "no" /\ watchers = 0 /\ statusCcd
        /\ run[p].pc \notin {"press", "wait"} => ~statusCapture
    BY <1>1, <2>1 DEF SequenceAlone, Busy, TypeInv, HatTypeOK, TypeOK
  <2>3. CASE Finish(p)
    <3>1. ~statusCcd' /\ ~statusCapture' /\ ~Busy(p)'
      BY <1>1, <2>2, <2>3, RunEffect DEF Finish, Busy
    <3>2. QED BY <1>2, <2>2, <3>1 DEF SequenceAlone
  <2>4. CASE ~Finish(p)
    <3>1. /\ statusCcd' = statusCcd
          /\ run'[p].pc \notin {"press", "wait"} => ~statusCapture'
      <4>1. CASE SelectFilter(p) \/ PressStart(p) \/ Completed(p)
        <5>1. statusCcd' = statusCcd /\ statusCapture' = statusCapture
          BY <4>1 DEF SelectFilter, PressStart, Completed
        <5>2. run[p].pc \in {"filter", "process"} \/ run'[p].pc = "wait"
          BY <1>1, <4>1, RunEffect
        <5>3. QED BY <2>2, <5>1, <5>2
      <4>2. CASE BeginFrame(p)
        BY <1>1, <2>2, <4>2, RunEffect DEF BeginFrame
      <4>3. CASE Wait(p)
        <5>1. statusCcd' = statusCcd /\ (run' = run \/ ~statusCapture')
          BY <4>3 DEF Wait
        <5>2. run[p].pc = "wait"
          BY <4>3 DEF Wait, At
        <5>3. QED BY <5>1, <5>2
      <4>4. QED BY <1>4, <2>4, <4>1, <4>2, <4>3 DEF RunStep
    <3>2. QED BY <1>2, <2>2, <3>1 DEF SequenceAlone
  <2>5. QED BY <2>3, <2>4
<1>5. QED BY <1>3, <1>4

(* If users wait for a stop to have its effect there is one sequence.      *)
LEMMA AloneStep ==
  ASSUME QsiAssumption, NotOverlapping, AloneInv, [Next]_vars
  PROVE  SequenceAlone'
<1> USE DEF AloneInv
<1>1. CASE CameraStep \/ (\E p \in Proc : ScriptStep(p)) \/ SetShutter \/ Report
           \/ (\E armed, beyond \in BOOLEAN : Message(armed, beyond)) \/ UNCHANGED vars
  <2>1. UNCHANGED aloneVars /\ run' = run
    BY <1>1 DEF CameraStep, ReadCommand, ExposureEnds, CancelEnds, CameraHangs, ScriptStep,
       CopyImage, ClearImage, Processed, SetShutter, Report, Message, vars, qsiVars,
       qsiButSlot, fileVars, seqVars, requestVars, aloneVars
  <2>2. QED BY <2>1, AloneSame
<1>2. CASE HatPowerCut
  BY <1>2 DEF HatPowerCut, PowerCut, NoRun, SequenceAlone, Busy
<1>3. QED
  BY <1>1, <1>2, StartAlone, StopAlone, RunAlone DEF Next, QsiStep
-----------------------------------------------------------------------------
(* Every frame                                                             *)

frameVars == <<camera, exposing, pressed, tmp, images, done, script, stopping, watchers,
               statusCapture>>
Neutral(c) == c \notin {"expose", "cancel"}

LEMMA InitFrame == HatInit => FrameAlone /\ Saved
BY DEF HatInit, Init, NoRun, Empty, FrameAlone, Saved, Busy, CameraRests

(* While every cancel is heard, nobody but QSI_stop.php finds one in the   *)
(* file.                                                                   *)
LEMMA HeardSoFar == ASSUME [Next]_vars, Heard' PROVE Heard
<1> USE DEF fileVars, slotVars, cameraVars, imageVars, seqVars, requestVars
<1>1. lost \subseteq lost'
  <2>1. ASSUME NEW c, NEW b, Write(c, b) PROVE lost \subseteq lost'
    BY <2>1 DEF Write
  <2>2. CASE QsiStep
    <3>1. lost' = lost \/ \E c \in Commands, b \in Writers : Write(c, b)
      <4>1. CASE Start \/ StartStep
        BY <4>1 DEF Start, StartStep, Setup, Prepared, Spawn, Commands, Writers
      <4>2. CASE Stop \/ StopStep \/ WatcherEnds \/ WatcherCloses
        BY <4>2 DEF Stop, StopStep, Cancel, Release, StopFocuser, WatcherEnds, WatcherCloses,
           Commands, Writers
      <4>3. CASE CameraStep \/ \E p \in Proc : ScriptStep(p)
        BY <4>3 DEF CameraStep, ReadCommand, ExposureEnds, CancelEnds, CameraHangs, ScriptStep,
           CopyImage, ClearImage, Processed
      <4>4. ASSUME NEW p \in Proc, RunStep(p)
            PROVE  lost' = lost \/ \E c \in Commands, b \in Writers : Write(c, b)
        BY <4>4 DEF RunStep, SelectFilter, BeginFrame, PressStart, Wait, Completed, Finish,
           CloseFocuser, Commands, Writers
      <4>5. QED BY <2>2, <4>1, <4>2, <4>3, <4>4 DEF QsiStep
    <3>2. QED BY <2>1, <3>1
  <2>3. CASE HatPowerCut
    BY <2>3 DEF HatPowerCut, PowerCut
  <2>4. CASE SetShutter \/ Report \/ UNCHANGED vars
    BY <2>1, <2>4 DEF SetShutter, Report, vars, qsiVars
  <2>5. ASSUME NEW armed \in BOOLEAN, NEW beyond \in BOOLEAN, Message(armed, beyond) PROVE lost \subseteq lost'
    BY <2>1, <2>5 DEF Message
  <2>6. QED BY <2>2, <2>3, <2>4, <2>5 DEF Next
<1>2. QED BY <1>1 DEF Heard

LEMMA WriteOver ==
  ASSUME TypeInv, Heard', NEW c \in Commands, NEW b \in Writers, Write(c, b)
  PROVE  slot'.cmd = c /\ (slot.cmd = "cancel" => b = "stop")
<1>1. slot'.cmd = c
  BY WriteType DEF TypeInv, HatTypeOK
<1>2. ASSUME slot.cmd = "cancel" PROVE b = "stop"
  <2>1. slot # Empty /\ slot.by = "stop" /\ "cancel" \in Vital
    BY <1>2, SlotType DEF TypeInv, HatTypeOK, TypeOK, FramesNamed, Commands, Vital
  <2>2. b # "stop" => "cancel" \in lost'
    BY <1>2, <2>1 DEF Write
  <2>3. QED BY <2>2 DEF Heard
<1>3. QED BY <1>1, <1>2

(* Steps that have to do with neither the button nor the frame.            *)
LEMMA FrameSame ==
  ASSUME FrameAlone, Saved, UNCHANGED frameVars,
         \/ slot'.cmd = slot.cmd
         \/ Neutral(slot'.cmd) /\ (slot.cmd = "cancel" => CameraRests),
         starting' # "idle" => starting # "idle",
         \A p \in Proc : /\ Busy(p) => run'[p] = run[p]
                         /\ Busy(p)' => Busy(p)
                         /\ run'[p].pc = "focuser" => run[p].pc = "focuser"
  PROVE  FrameAlone' /\ Saved'
<1> USE DEF frameVars, Neutral
<1>1. CameraRests => CameraRests'
  BY DEF CameraRests
<1>2. \A p \in Proc : Busy(p)' => Stage(p)'
  <2> SUFFICES ASSUME NEW p \in Proc, Busy(p)' PROVE Stage(p)'
    OBVIOUS
  <2>1. Busy(p) /\ Stage(p) /\ run'[p] = run[p]
    BY DEF FrameAlone
  <2>2. WaitsForFrame(p) => WaitsForFrame(p)'
    BY <1>1, <2>1 DEF WaitsForFrame
  <2>3. SavesFrame(p) => SavesFrame(p)'
    BY <1>1, <2>1 DEF SavesFrame
  <2>4. QED BY <1>1, <2>1, <2>2, <2>3 DEF Stage
<1>3. (\A p \in Proc : ~Busy(p)') => \A p \in Proc : ~Busy(p)
  BY DEF Busy
<1>4. FrameAlone'
  BY <1>1, <1>2, <1>3 DEF FrameAlone, CameraRests
<1>5. QED BY <1>4 DEF Saved

(* GoQat reads the button.                                                 *)
LEMMA ButtonRead ==
  ASSUME AloneInv, FrameAlone, Saved, ReadCommand, slot.cmd = "expose"
  PROVE  FrameAlone' /\ Saved'
<1> USE DEF fileVars, slotVars, cameraVars, imageVars, seqVars, requestVars
<1>1. ~CameraRests /\ camera \in {"idle", "hung"} /\ slot' = Empty /\ slot'.cmd = "none"
  BY DEF CameraRests, FrameAlone, ReadCommand, Empty
<1>2. /\ camera = "idle" => camera' = "exposing" /\ exposing' = pressed
      /\ camera = "hung" => camera' = "hung"
  BY <1>1 DEF ReadCommand
<1>3. UNCHANGED <<fileVars, imageVars, seqVars, requestVars>>
  BY DEF ReadCommand
<1>4. \A p \in Proc : Busy(p)' => Stage(p)'
  <2> SUFFICES ASSUME NEW p \in Proc, Busy(p)' PROVE Stage(p)'
    OBVIOUS
  <2>1. run[p].pc = "wait" /\ WaitsForFrame(p) /\ run'[p] = run[p]
    <3>1. Busy(p) /\ run[p].pc \in RunPc
      BY <1>3 DEF Busy, AloneInv, TypeInv, HatTypeOK, TypeOK
    <3>2. QED BY <1>1, <1>3, <3>1 DEF FrameAlone, Stage, SavesFrame, Busy, RunPc
  <2>2. WaitsForFrame(p)'
    BY <1>1, <1>2, <1>3, <2>1 DEF WaitsForFrame
  <2>3. \A q \in Proc : q # p => script'[q] = "none"
    BY <1>3 DEF FrameAlone, Stage, Busy
  <2>4. QED BY <2>1, <2>2, <2>3 DEF Stage
<1>5. FrameAlone'
  BY <1>1, <1>3, <1>4 DEF FrameAlone, Busy
<1>6. QED BY <1>3, <1>5 DEF Saved

(* The camera: reading out, failing, and the commands it is told.          *)
LEMMA CameraFrame ==
  ASSUME AloneInv, FrameAlone, Saved, CameraStep
  PROVE  FrameAlone' /\ Saved'
<1> USE DEF fileVars, slotVars, cameraVars, imageVars, seqVars, requestVars
<1>1. UNCHANGED <<fileVars, images, done, seqVars, requestVars>>
  BY DEF CameraStep, ReadCommand, ExposureEnds, CancelEnds, CameraHangs
<1>2. CASE ReadCommand
  <2>1. slot'.cmd = "none"
    BY <1>2 DEF ReadCommand, Empty
  <2>2. CASE slot.cmd = "cancel"
    <3>1. /\ camera' = IF camera = "exposing" THEN "cancelling" ELSE camera
          /\ UNCHANGED <<tmp, exposing>>
      BY <1>2, <2>2 DEF ReadCommand
    <3>2. CameraRests => CameraRests'
      BY <2>1, <3>1 DEF CameraRests
    <3>3. \A p \in Proc : Busy(p)' => Stage(p)'
      <4> SUFFICES ASSUME NEW p \in Proc, Busy(p)' PROVE Stage(p)'
        OBVIOUS
      <4>1. Busy(p) /\ Stage(p)
        BY <1>1 DEF Busy, FrameAlone
      <4>2. run[p].pc # "wait"
        BY <2>2, <4>1 DEF Stage, WaitsForFrame
      <4>3. SavesFrame(p) => SavesFrame(p)'
        BY <1>1, <3>1, <3>2 DEF SavesFrame
      <4>4. QED BY <1>1, <3>1, <3>2, <4>1, <4>2, <4>3 DEF Stage
    <3>4. FrameAlone'
      BY <1>1, <2>1, <3>1, <3>2, <3>3 DEF FrameAlone, Busy
    <3>5. QED BY <1>1, <3>4 DEF Saved
  <2>3. CASE Neutral(slot.cmd)
    <3>1. UNCHANGED frameVars
      BY <1>1, <1>2, <2>3 DEF ReadCommand, Neutral, frameVars
    <3>2. Neutral(slot'.cmd) /\ slot.cmd # "cancel"
      BY <2>1, <2>3 DEF Neutral
    <3>3. QED BY <1>1, <3>1, <3>2, FrameSame DEF Busy
  <2>4. QED BY <1>2, <2>2, <2>3, ButtonRead DEF Neutral
<1>3. CASE ExposureEnds \/ CancelEnds \/ CameraHangs
  <2>1. /\ camera \in {"exposing", "cancelling"} /\ camera' \in {"idle", "hung"}
        /\ slot' = slot /\ slot.cmd # "expose"
    BY <1>3 DEF ExposureEnds, CancelEnds, CameraHangs, FrameAlone
  <2>2. CameraRests' /\ ~CameraRests
    BY <2>1 DEF CameraRests
  <2>3. \A p \in Proc : Busy(p)' => Stage(p)'
    <3> SUFFICES ASSUME NEW p \in Proc, Busy(p)' PROVE Stage(p)'
      OBVIOUS
    <3>1. Busy(p) /\ Stage(p) /\ run[p].pc \in RunPc
      BY <1>1 DEF Busy, FrameAlone, AloneInv, TypeInv, HatTypeOK, TypeOK
    <3>2. run[p].pc = "wait" /\ WaitsForFrame(p)
      BY <2>2, <3>1 DEF Busy, Stage, SavesFrame, RunPc
    <3>3. tmp = {} /\ tmp' \subseteq {pressed} /\ (~statusCapture => tmp' = {pressed})
      <4>1. tmp = {} /\ statusCapture /\ (camera = "exposing" => exposing = pressed)
        BY <2>2, <3>2 DEF WaitsForFrame
      <4>2. camera = "exposing" /\ tmp' \in {tmp, tmp \cup {exposing}}
        BY <1>3, <2>1, <3>2 DEF WaitsForFrame, ExposureEnds, CancelEnds, CameraHangs
      <4>3. QED BY <4>1, <4>2
    <3>4. WaitsForFrame(p)'
      BY <1>1, <2>1, <2>2, <3>2, <3>3 DEF WaitsForFrame
    <3>5. QED BY <1>1, <3>1, <3>2, <3>4 DEF Stage
  <2>4. starting = "idle"
    BY <2>2 DEF FrameAlone
  <2>5. FrameAlone'
    BY <1>1, <2>1, <2>2, <2>3, <2>4 DEF FrameAlone, Busy
  <2>6. QED BY <1>1, <2>5 DEF Saved
<1>4. QED BY <1>2, <1>3 DEF CameraStep
(* The folder and the camera are free when a sequence starts.              *)
LEMMA StartFrame ==
  ASSUME NotOverlapping, AloneInv, FrameAlone, Saved, Heard', Start \/ StartStep
  PROVE  FrameAlone' /\ Saved'
<1> USE DEF fileVars, slotVars, cameraVars, imageVars, seqVars, requestVars
<1>1. CASE Start
  <2>1. /\ ~statusCapture /\ stopping \in {"no", "focuser"} /\ watchers = 0
        /\ \A p \in Proc : ~Busy(p) /\ ~Orphan(p)
    BY <1>1 DEF Start, AloneInv, SequenceAlone, NotOverlapping, TypeInv, HatTypeOK, TypeOK
  <2>2. CameraRests /\ \A p \in Proc : script[p] = "none"
    BY <2>1 DEF FrameAlone, Orphan, Alive, At, Busy
  <2>3. tmp' = {} /\ UNCHANGED <<slot, camera, run, script, stopping, watchers, images, done, statusCapture>>
    BY <1>1 DEF Start
  <2>4. CameraRests'
    BY <2>2, <2>3 DEF CameraRests
  <2>5. FrameAlone'
    BY <2>1, <2>2, <2>3, <2>4 DEF FrameAlone, Busy, CameraRests
  <2>6. QED BY <2>3, <2>5 DEF Saved
<1>2. CASE Setup \/ Prepared
  <2>1. UNCHANGED frameVars /\ run' = run /\ starting # "idle"
    BY <1>2 DEF Setup, Prepared, frameVars
  <2>2. slot'.cmd = slot.cmd \/ (Neutral(slot'.cmd) /\ slot.cmd # "cancel")
    <3>1. CASE Setup
      BY <3>1, WriteOver DEF Setup, AloneInv, Neutral, Commands, Writers
    <3>2. CASE Prepared
      <4>1. slot' = slot
        BY <3>2 DEF Prepared
      <4>2. QED BY <4>1
    <3>3. QED BY <1>2, <3>1, <3>2
  <2>3. QED BY <2>1, <2>2, FrameSame DEF Busy
<1>3. ASSUME NEW code \in FilterCode, NEW n \in FrameCount, Spawn(code, n)
      PROVE  FrameAlone' /\ Saved'
  <2>1. PICK r : run' = [run EXCEPT ![count["run"]] = r]
    BY <1>3 DEF Spawn
  <2>2. \A p \in Proc : run'[p] = run[p] \/ run'[p].pc = "filter"
    <3>1. count["run"] \in Proc => run'[count["run"]].pc = "filter"
      BY <1>3 DEF Spawn, AloneInv, TypeInv, HatTypeOK, TypeOK
    <3>2. QED BY <2>1, <3>1 DEF AloneInv, TypeInv, HatTypeOK, TypeOK
  <2>3. /\ \A p \in Proc : ~Busy(p)
        /\ CameraRests /\ tmp = {} /\ stopping = "no" /\ watchers = 0
        /\ \A p \in Proc : script[p] = "none"
    BY <1>3 DEF Spawn, AloneInv, SequenceAlone, FrameAlone
  <2>4. /\ starting' = "idle"
        /\ UNCHANGED <<slot, camera, tmp, images, done, script, stopping, watchers, statusCapture>>
    BY <1>3 DEF Spawn
  <2>5. CameraRests'
    BY <2>3, <2>4 DEF CameraRests
  <2>6. \A p \in Proc : Busy(p)' => Stage(p)'
    BY <2>2, <2>3, <2>4, <2>5 DEF Busy, Stage
  <2>7. FrameAlone'
    BY <2>3, <2>4, <2>5, <2>6 DEF FrameAlone, CameraRests
  <2>8. QED BY <2>4, <2>7 DEF Saved
<1>4. QED BY <1>1, <1>2, <1>3 DEF StartStep

(* A stop, its cancel and its watcher give the camera back.                *)
LEMMA StopFrame ==
  ASSUME NotOverlapping, AloneInv, FrameAlone, Saved, Heard',
         Stop \/ StopStep \/ WatcherEnds \/ WatcherCloses
  PROVE  FrameAlone' /\ Saved'
<1> USE DEF fileVars, slotVars, cameraVars, imageVars, seqVars, requestVars
<1>1. UNCHANGED <<camera, exposing, selection, shutter, imageVars, script, pressed, starting>>
  BY DEF Stop, StopStep, Cancel, Release, StopFocuser, WatcherEnds, WatcherCloses
<1>2. CASE Stop
  <2>1. starting = "idle" /\ watchers = 0
    BY <1>2 DEF Stop, NotOverlapping, AloneInv, SequenceAlone, TypeInv, HatTypeOK, TypeOK
  <2>2. ~statusCapture => CameraRests
    <3>1. ASSUME NEW p \in Proc, Busy(p), ~statusCapture PROVE CameraRests
      <4>1. Stage(p) /\ run[p].pc \in RunPc
        BY <3>1 DEF FrameAlone, AloneInv, TypeInv, HatTypeOK, TypeOK
      <4>2. QED BY <3>1, <4>1 DEF Stage, Busy, RunPc, WaitsForFrame, SavesFrame
    <3>2. stopping = "no"
      BY <1>2 DEF Stop
    <3>3. QED BY <2>1, <3>1, <3>2 DEF FrameAlone
  <2>3. /\ \A p \in Proc : run'[p].pc = "none"
        /\ stopping' = "cancel" /\ UNCHANGED <<slot, watchers, statusCapture>>
    BY <1>2 DEF Stop, NoRun
  <2>4. CameraRests' = CameraRests
    BY <1>1, <2>3 DEF CameraRests
  <2>5. FrameAlone'
    BY <1>1, <2>1, <2>2, <2>3, <2>4 DEF FrameAlone, Busy
  <2>6. QED BY <1>1, <2>5 DEF Saved
<1>3. CASE Cancel \/ Release \/ WatcherEnds
  <2>1. /\ starting = "idle" /\ run' = run
        /\ \A p \in Proc : ~Busy(p) /\ ~Busy(p)'
    BY <1>3 DEF Cancel, Release, WatcherEnds, AloneInv, SequenceAlone, TypeInv,
       HatTypeOK, TypeOK, Busy
  <2>3. CASE Cancel
    <3>1. /\ slot'.cmd = "cancel" /\ stopping' = "release" /\ UNCHANGED <<watchers, statusCapture>>
      BY <2>3, WriteOver DEF Cancel, AloneInv, Commands, Writers
    <3>2. ~statusCapture' => CameraRests'
      BY <1>1, <2>3, <3>1 DEF Cancel, FrameAlone, CameraRests
    <3>3. FrameAlone'
      BY <1>1, <2>1, <3>1, <3>2 DEF FrameAlone
    <3>4. QED BY <1>1, <3>3 DEF Saved
  <2>4. CASE Release
    <3>1. /\ slot.cmd # "expose" /\ (camera = "exposing" => slot.cmd = "cancel")
          /\ ~statusCapture => CameraRests
          /\ watchers = 0 /\ slot' = slot
      BY <2>4 DEF Release, FrameAlone, AloneInv, SequenceAlone
    <3>2. CASE statusCapture
      <4>1. watchers' = 1 /\ stopping' = "no"
        BY <2>4, <3>1, <3>2 DEF Release
      <4>2. FrameAlone'
        BY <1>1, <2>1, <3>1, <4>1 DEF FrameAlone
      <4>3. QED BY <1>1, <4>2 DEF Saved
    <3>3. CASE ~statusCapture
      <4>1. watchers' = 0 /\ stopping' \in {"no", "focuser"}
        BY <2>4, <3>1, <3>3 DEF Release
      <4>2. CameraRests'
        BY <1>1, <3>1, <3>3 DEF CameraRests
      <4>3. FrameAlone'
        BY <1>1, <2>1, <3>1, <4>1, <4>2 DEF FrameAlone
      <4>4. QED BY <1>1, <4>3 DEF Saved
    <3>4. QED BY <3>2, <3>3
  <2>5. CASE WatcherEnds
    <3>1. watchers' = 0 /\ stopping' = "no"
      BY <2>5 DEF WatcherEnds, AloneInv, SequenceAlone
    <3>2. camera \in {"idle", "hung"} /\ slot.cmd # "expose"
      BY <2>5 DEF WatcherEnds, CameraQuiet, FrameAlone, AloneInv, TypeInv, HatTypeOK, TypeOK
    <3>3. slot' = slot
      BY <2>5 DEF WatcherEnds
    <3>4. CameraRests'
      BY <1>1, <3>2, <3>3 DEF CameraRests
    <3>5. FrameAlone'
      BY <1>1, <2>1, <3>1, <3>3, <3>4 DEF FrameAlone
    <3>6. QED BY <1>1, <3>5 DEF Saved
  <2>6. QED BY <1>3, <2>3, <2>4, <2>5
<1>4. CASE StopFocuser
  <2>1. /\ CameraRests /\ ~statusCapture /\ watchers = 0 /\ \A p \in Proc : ~Busy(p)
    BY <1>4 DEF StopFocuser, AloneInv, SequenceAlone, FrameAlone
  <2>2. slot'.cmd = "focuser"
    BY <1>4, WriteOver DEF StopFocuser, AloneInv, Commands, Writers
  <2>3. stopping' = "no" /\ UNCHANGED <<run, watchers>>
    BY <1>4 DEF StopFocuser
  <2>4. CameraRests'
    BY <1>1, <2>1, <2>2 DEF CameraRests
  <2>5. FrameAlone'
    BY <1>1, <2>1, <2>2, <2>3, <2>4 DEF FrameAlone, Busy
  <2>6. QED BY <1>1, <2>5 DEF Saved
<1>5. CASE WatcherCloses
  <2>1. UNCHANGED frameVars /\ UNCHANGED <<run, starting>>
    BY <1>5 DEF WatcherCloses, frameVars
  <2>2. Neutral(slot'.cmd) /\ slot.cmd # "cancel"
    BY <1>5, WriteOver DEF WatcherCloses, AloneInv, Neutral, Commands, Writers
  <2>3. QED BY <2>1, <2>2, FrameSame DEF Busy
<1>6. QED BY <1>2, <1>3, <1>4, <1>5 DEF StopStep

(* process_image.sh works for the run that waits for it, or for one that   *)
(* has been stopped: then nobody uses the folder.                          *)
LEMMA ScriptFrame ==
  ASSUME AloneInv, FrameAlone, Saved, NEW p \in Proc, ScriptStep(p)
  PROVE  FrameAlone' /\ Saved'
<1> USE DEF fileVars, slotVars, cameraVars, imageVars, requestVars
<1>1. /\ script[p] # "none" /\ run[p].pc # "focuser"
      /\ UNCHANGED <<slot, camera, run, pressed, requestVars, statusCapture, done>>
      /\ \A q \in Proc : q # p => script'[q] = script[q]
      /\ images \subseteq images'
  BY DEF ScriptStep, CopyImage, ClearImage, Processed, FrameAlone, AloneInv, TypeInv, HatTypeOK,
     TypeOK
<1>2. starting = "idle" /\ (CameraRests <=> CameraRests')
  BY <1>1 DEF FrameAlone, CameraRests
<1>3. ASSUME NEW q \in Proc, Busy(q)' PROVE Stage(q)'
  <2>1. Busy(q) /\ Stage(q) /\ run[q].pc \in RunPc
    BY <1>1, <1>3 DEF Busy, FrameAlone, AloneInv, TypeInv, HatTypeOK, TypeOK
  <2>2. q = p
    BY <1>1, <2>1 DEF Stage
  <2>3. run[p].pc = "process" /\ SavesFrame(p)
    BY <1>1, <2>1, <2>2 DEF Stage, WaitsForFrame, Busy, RunPc
  <2>4. SavesFrame(p)'
    <3>1. CASE CopyImage(p)
      <4>1. script'[p] = "preview" /\ tmp = {pressed} /\ images' = images \cup tmp
        BY <2>3, <3>1 DEF CopyImage, SavesFrame, AloneInv, TypeInv, HatTypeOK, TypeOK
      <4>2. QED BY <1>1, <1>2, <2>3, <4>1 DEF SavesFrame
    <3>2. CASE ClearImage(p)
      <4>1. script'[p] = "clear" /\ script[p] = "preview" /\ tmp' = {} /\ images' = images
        BY <3>2 DEF ClearImage, AloneInv, TypeInv, HatTypeOK, TypeOK
      <4>2. QED BY <1>1, <1>2, <2>3, <4>1 DEF SavesFrame
    <3>3. CASE Processed(p)
      <4>1. script'[p] = "none" /\ script[p] = "clear" /\ tmp' = tmp /\ images' = images
        BY <3>3 DEF Processed, AloneInv, TypeInv, HatTypeOK, TypeOK
      <4>2. QED BY <1>1, <1>2, <2>3, <4>1 DEF SavesFrame
    <3>4. QED BY <3>1, <3>2, <3>3 DEF ScriptStep
  <2>5. QED BY <1>1, <2>1, <2>2, <2>3, <2>4 DEF Stage
<1>4. FrameAlone'
  BY <1>1, <1>2, <1>3 DEF FrameAlone, Busy
<1>5. QED BY <1>1, <1>4 DEF Saved
(* The sequence at work: from the button to the folder images.             *)
LEMMA RunFrame ==
  ASSUME TypeInv', AloneInv, SequenceAlone', FrameAlone, Saved, Heard',
         NEW p \in Proc, RunStep(p)
  PROVE  FrameAlone' /\ Saved'
<1> USE DEF fileVars, slotVars, cameraVars, imageVars, requestVars
<1>1. /\ run \in [Proc -> RunRec] /\ run' \in [Proc -> RunRec]
      /\ \A q \in Proc : q # p => run'[q] = run[q]
      /\ UNCHANGED <<camera, exposing, tmp, images, starting, stopping, watchers>>
  <2>1. run \in [Proc -> RunRec]
    BY DEF AloneInv, TypeInv, HatTypeOK, TypeOK, RunRec
  <2>2. UNCHANGED <<camera, exposing, tmp, images, starting, stopping, watchers>>
    BY DEF RunStep, SelectFilter, BeginFrame, PressStart, Wait, Completed, Finish, CloseFocuser
  <2>3. QED BY <2>1, <2>2, RunEffect
<1>2. CASE CloseFocuser(p)
  <2>1. /\ run[p].pc = "focuser" /\ run'[p].pc = "none"
        /\ slot.cmd # "cancel" /\ slot'.cmd = "focuser"
    BY <1>1, <1>2, RunEffect, WriteOver DEF CloseFocuser, AloneInv, Commands, Writers
  <2>2. UNCHANGED frameVars
    BY <1>1, <1>2 DEF CloseFocuser, frameVars
  <2>3. \A q \in Proc : /\ Busy(q) => run'[q] = run[q]
                        /\ Busy(q)' => Busy(q)
                        /\ run'[q].pc = "focuser" => run[q].pc = "focuser"
    BY <1>1, <2>1 DEF Busy
  <2>4. QED BY <1>1, <2>1, <2>2, <2>3, FrameSame DEF Neutral
<1>3. CASE ~CloseFocuser(p)
  <2>1. Busy(p)
    BY <1>1, <1>3, RunEffect DEF Busy, RunStep
  <2>2. /\ \A q \in Proc : q # p => ~Busy(q) /\ ~Busy(q)' /\ script[q] = "none"
        /\ starting = "idle" /\ stopping = "no" /\ watchers = 0
        /\ Stage(p)
    BY <1>1, <2>1 DEF AloneInv, SequenceAlone, FrameAlone, Stage, Busy, TypeInv, HatTypeOK, TypeOK
  <2>3. ASSUME slot'.cmd = "expose" => camera \in {"idle", "hung"},
               \A q \in Proc : q # p => script'[q] = "none",
               Busy(p)' => Stage(p)',
               ~Busy(p)' => CameraRests' /\ script'[p] = "none",
               Saved'
        PROVE  FrameAlone' /\ Saved'
    <3>1. \A q \in Proc : Busy(q)' => Stage(q)'
      BY <2>2, <2>3
    <3>2. \A q \in Proc : run'[q].pc = "focuser" => script'[q] = "none"
      BY <2>3 DEF Busy
    <3>3. QED BY <1>1, <2>2, <2>3, <3>1, <3>2 DEF FrameAlone
  <2>4. CASE SelectFilter(p) \/ BeginFrame(p)
    <3>1. /\ CameraRests /\ tmp = {} /\ script[p] = "none"
          /\ run'[p].pc \in {"filter", "frame", "press", "ending"}
          /\ run'[p].pc = "press" => statusCapture'
      BY <1>1, <2>2, <2>4, RunEffect DEF Stage
    <3>2. UNCHANGED <<script, done>>
      BY <2>4 DEF SelectFilter, BeginFrame
    <3>3. slot'.cmd # "expose"
      <4>1. CASE SelectFilter(p)
        BY <3>1, <4>1, WriteOver DEF SelectFilter, CameraRests, AloneInv, Commands, Writers
      <4>2. CASE BeginFrame(p)
        BY <3>1, <4>2 DEF BeginFrame, CameraRests
      <4>3. QED BY <2>4, <4>1, <4>2
    <3>4. CameraRests'
      BY <1>1, <3>1, <3>3 DEF CameraRests
    <3>5. Stage(p)' /\ Busy(p)'
      BY <1>1, <2>2, <3>1, <3>2, <3>4 DEF Stage, Busy
    <3>6. QED BY <1>1, <2>2, <2>3, <3>2, <3>3, <3>5 DEF Saved
  <2>5. CASE PressStart(p)
    <3>1. /\ CameraRests /\ tmp = {} /\ script[p] = "none" /\ statusCapture
          /\ run'[p].pc = "wait" /\ run'[p].shot = run[p].shot
      BY <1>1, <2>2, <2>5, RunEffect DEF Stage
    <3>2. /\ slot'.cmd = "expose" /\ pressed' = <<p, run[p].shot>>
          /\ UNCHANGED <<script, done, statusCapture>>
      BY <2>5, WriteOver DEF PressStart, AloneInv, Commands, Writers
    <3>3. camera \in {"idle", "hung"}
      BY <3>1 DEF CameraRests
    <3>4. WaitsForFrame(p)'
      BY <1>1, <3>1, <3>2, <3>3 DEF WaitsForFrame
    <3>5. Stage(p)' /\ Busy(p)'
      BY <2>2, <3>1, <3>2, <3>4 DEF Stage, Busy
    <3>6. QED BY <1>1, <2>2, <2>3, <3>2, <3>3, <3>5 DEF Saved
  <2>6. CASE Wait(p)
    <3>1. /\ WaitsForFrame(p) /\ run[p].pc = "wait" /\ run'[p].shot = run[p].shot
          /\ UNCHANGED <<slot, pressed, done>>
      BY <1>1, <2>2, <2>6, RunEffect DEF Stage, Wait
    <3>2. CASE statusCapture
      <4>1. tmp # {} /\ UNCHANGED <<run, script>>
        BY <2>6, <3>2 DEF Wait
      <4>2. tmp = {pressed} /\ CameraRests
        BY <3>1, <4>1 DEF WaitsForFrame
      <4>3. CameraRests'
        BY <1>1, <3>1, <4>2 DEF CameraRests
      <4>4. WaitsForFrame(p)'
        BY <1>1, <3>1, <4>1, <4>2, <4>3 DEF WaitsForFrame
      <4>5. Stage(p)' /\ Busy(p)'
        BY <2>2, <3>1, <4>1, <4>4 DEF Stage, Busy
      <4>6. QED BY <1>1, <2>2, <2>3, <3>1, <4>1, <4>2, <4>5 DEF Saved, CameraRests
    <3>3. CASE ~statusCapture
      <4>1. /\ run'[p].pc = "process" /\ script'[p] = "copy"
            /\ \A q \in Proc : q # p => script'[q] = script[q]
        <5>1. run' = [run EXCEPT ![p].pc = "process"] /\ script' = [script EXCEPT ![p] = "copy"]
          BY <2>6, <3>3 DEF Wait
        <5>2. QED BY <1>1, <5>1 DEF AloneInv, TypeInv, HatTypeOK, TypeOK, RunRec
      <4>2. tmp = {pressed} /\ CameraRests
        BY <3>1, <3>3 DEF WaitsForFrame
      <4>3. CameraRests'
        BY <1>1, <3>1, <4>2 DEF CameraRests
      <4>4. SavesFrame(p)'
        BY <1>1, <3>1, <4>1, <4>2, <4>3 DEF SavesFrame, WaitsForFrame
      <4>5. Stage(p)' /\ Busy(p)'
        BY <2>2, <4>1, <4>4 DEF Stage, Busy
      <4>6. QED BY <1>1, <2>2, <2>3, <3>1, <4>1, <4>2, <4>5 DEF Saved, CameraRests
    <3>4. QED BY <3>2, <3>3
  <2>7. CASE Completed(p)
    <3>1. SavesFrame(p) /\ run'[p].pc = "frame" /\ script[p] = "none"
      BY <1>1, <2>2, <2>7, RunEffect DEF Stage, Completed
    <3>2. CameraRests /\ tmp = {} /\ <<p, run[p].shot>> \in images
      BY <3>1 DEF SavesFrame
    <3>3. UNCHANGED <<slot, script>> /\ done' = done \cup {<<p, run[p].shot>>}
      BY <2>7 DEF Completed
    <3>4. CameraRests' /\ Saved'
      BY <1>1, <3>2, <3>3 DEF CameraRests, Saved
    <3>5. Stage(p)' /\ Busy(p)'
      BY <1>1, <2>2, <3>1, <3>2, <3>3, <3>4 DEF Stage, Busy
    <3>6. QED BY <1>1, <2>2, <2>3, <3>2, <3>3, <3>4, <3>5 DEF CameraRests
  <2>8. CASE Finish(p)
    <3>1. /\ CameraRests /\ script[p] = "none" /\ ~Busy(p)'
          /\ UNCHANGED <<slot, script, done>>
      <4>1. run[p].pc = "ending" /\ run'[p].pc \in {"focuser", "none"}
        BY <1>1, <2>8, RunEffect
      <4>2. QED BY <2>2, <2>8, <4>1 DEF Stage, Finish, Busy
    <3>2. CameraRests' /\ Saved'
      BY <1>1, <3>1 DEF CameraRests, Saved
    <3>3. QED BY <2>2, <2>3, <3>1, <3>2 DEF CameraRests
  <2>9. QED BY <1>3, <2>4, <2>5, <2>6, <2>7, <2>8 DEF RunStep
<1>4. QED BY <1>2, <1>3

(* While every cancel is heard, too, every frame that is called complete   *)
(* is in the folder.                                                       *)
LEMMA FrameStep ==
  ASSUME NotOverlapping, FrameInv, TypeInv', SequenceAlone', [Next]_vars, Heard'
  PROVE  FrameAlone' /\ Saved'
<1>0. AloneInv /\ FrameAlone /\ Saved
  BY HeardSoFar DEF FrameInv
<1>1. CASE SetShutter \/ Report \/ (\E armed, beyond \in BOOLEAN : Message(armed, beyond))
           \/ UNCHANGED vars
  <2>1. UNCHANGED frameVars /\ run' = run /\ starting' = starting
    BY <1>1 DEF SetShutter, Report, Message, vars, qsiVars, qsiButSlot, fileVars,
       cameraVars, imageVars, seqVars, requestVars, frameVars
  <2>2. slot' = slot \/ (slot.cmd # "cancel" /\ Neutral(slot'.cmd))
    <3>1. CASE Report \/ UNCHANGED vars
      <4>1. slot' = slot
        BY <3>1 DEF Report, vars, qsiVars, slotVars
      <4>2. QED BY <4>1
    <3>2. CASE SetShutter
      BY <1>0, <3>2, WriteOver DEF SetShutter, AloneInv, Neutral, Commands, Writers
    <3>3. ASSUME NEW armed \in BOOLEAN, NEW beyond \in BOOLEAN, Message(armed, beyond)
          PROVE  slot' = slot \/ (slot.cmd # "cancel" /\ Neutral(slot'.cmd))
      <4>1. slot' = slot \/ \E c \in {"selectClose", "selectOpen"} : Write(c, "monitor")
        <5>1. CASE ~statusCapture
          BY <3>3, <5>1 DEF Message, slotVars
        <5>2. CASE statusCapture
          BY <3>3, <5>2 DEF Message, slotVars
        <5>3. QED BY <5>1, <5>2
      <4>2. QED BY <1>0, <4>1, WriteOver DEF AloneInv, Neutral, Commands, Writers
    <3>4. QED BY <1>1, <3>1, <3>2, <3>3
  <2>3. QED BY <1>0, <2>1, <2>2, FrameSame DEF Busy
<1>2. CASE HatPowerCut
  <2>1. /\ \A p \in Proc : run'[p].pc = "none" /\ script'[p] = "none"
        /\ CameraRests' /\ slot'.cmd = "none" /\ starting' = "idle" /\ stopping' = "no"
        /\ watchers' = 0 /\ UNCHANGED imageVars
    BY <1>2 DEF HatPowerCut, PowerCut, NoRun, CameraRests, Empty
  <2>2. QED BY <1>0, <2>1 DEF FrameAlone, Saved, Busy, imageVars
<1>3. QED
  BY <1>0, <1>1, <1>2, CameraFrame, StartFrame, StopFrame, RunFrame, ScriptFrame DEF Next, QsiStep
-----------------------------------------------------------------------------
(* The shutter                                                             *)

LEMMA InitFollows == HatInit => ShutterFollows
BY DEF HatInit, Init, Empty, ShutterFollows, Follows, MonitorCommands

(* Another program's command over one of the monitor's is noted in lost.   *)
LEMMA FollowsOthers ==
  ASSUME TypeInv, ShutterFollows, QsiStep, ~ReadCommand, UNCHANGED hatVars
  PROVE  ShutterFollows'
<1> USE DEF fileVars, slotVars, cameraVars, imageVars, seqVars, requestVars
<1>1. UNCHANGED <<selection, shutter>>
  BY DEF QsiStep, Start, StartStep, Setup, Prepared, Spawn, Stop, StopStep, Cancel, Release,
     StopFocuser, WatcherEnds, WatcherCloses, CameraStep, ExposureEnds, CancelEnds, CameraHangs,
     RunStep, SelectFilter, BeginFrame, PressStart, Wait, Completed, Finish, CloseFocuser,
     ScriptStep, CopyImage, ClearImage, Processed
<1>2. \/ UNCHANGED slotVars
      \/ \E c \in Commands \ MonitorCommands, b \in Writers \ {"monitor"} : Write(c, b)
  <2>1. CASE Start \/ StartStep
    BY <2>1 DEF Start, StartStep, Setup, Prepared, Spawn, Commands, Writers, MonitorCommands
  <2>2. CASE Stop \/ StopStep \/ WatcherEnds \/ WatcherCloses
    BY <2>2 DEF Stop, StopStep, Cancel, Release, StopFocuser, WatcherEnds, WatcherCloses,
       Commands, Writers, MonitorCommands
  <2>3. CASE CameraStep \/ \E p \in Proc : ScriptStep(p)
    BY <2>3 DEF CameraStep, ExposureEnds, CancelEnds, CameraHangs, ScriptStep, CopyImage,
       ClearImage, Processed
  <2>4. ASSUME NEW p \in Proc, RunStep(p)
        PROVE  \/ UNCHANGED slotVars
               \/ \E c \in Commands \ MonitorCommands, b \in Writers \ {"monitor"} : Write(c, b)
    <3>1. CASE SelectFilter(p)
      BY <3>1 DEF SelectFilter, Commands, Writers, MonitorCommands
    <3>2. CASE PressStart(p)
      BY <3>2 DEF PressStart, Commands, Writers, MonitorCommands
    <3>3. CASE CloseFocuser(p)
      BY <3>3 DEF CloseFocuser, Commands, Writers, MonitorCommands
    <3>4. CASE BeginFrame(p) \/ Wait(p) \/ Completed(p) \/ Finish(p)
      BY <3>4 DEF BeginFrame, Wait, Completed, Finish
    <3>5. QED BY <2>4, <3>1, <3>2, <3>3, <3>4 DEF RunStep
  <2>5. QED BY <2>1, <2>2, <2>3, <2>4 DEF QsiStep
<1>3. CASE UNCHANGED slotVars
  BY <1>1, <1>3 DEF ShutterFollows, Follows, hatVars
<1>4. ASSUME NEW c \in Commands \ MonitorCommands, NEW b \in Writers \ {"monitor"}, Write(c, b)
      PROVE  ShutterFollows'
  <2>1. /\ slot'.by = b /\ slot'.cmd = c
        /\ lost \subseteq lost'
        /\ slot.by = "monitor" => slot.cmd \in lost'
    <3>1. slot'.by = b /\ slot'.cmd = c /\ lost \subseteq lost'
      BY <1>4, WriteType DEF TypeInv, HatTypeOK, Write
    <3>2. ASSUME slot.by = "monitor" PROVE slot.cmd \in lost'
      <4>1. slot # Empty /\ slot.cmd \in MonitorCommands
        BY <3>2 DEF ShutterFollows, Empty
      <4>2. slot.cmd \in Vital /\ slot.cmd # "expose"
        BY <4>1 DEF MonitorCommands, Vital, Commands
      <4>3. QED BY <1>4, <3>2, <4>1, <4>2 DEF Write
    <3>3. QED BY <3>1, <3>2
  <2>2. slot'.by # "monitor" /\ slot'.cmd \notin MonitorCommands
    BY <1>4, <2>1
  <2>3. ASSUME lost' \cap MonitorCommands = {}
        PROVE  slot.by # "monitor" /\ lost \cap MonitorCommands = {}
    BY <2>1, <2>3 DEF ShutterFollows
  <2>4. QED BY <1>1, <2>2, <2>3 DEF ShutterFollows, Follows, hatVars
<1>5. QED BY <1>2, <1>3, <1>4

(* GoQat reads: the monitor's command takes effect.                        *)
LEMMA FollowsRead ==
  ASSUME TypeInv, ShutterFollows, ReadCommand, UNCHANGED hatVars
  PROVE  ShutterFollows'
<1>1. slot'.by = "none" /\ slot'.cmd = "none"
  BY DEF ReadCommand, Empty
<1>2. /\ selection' = IF slot.cmd = "selectClose" THEN "Close"
                      ELSE IF slot.cmd = "selectOpen" THEN "Open" ELSE selection
      /\ shutter' = IF slot.cmd = "setShutter" THEN selection ELSE shutter
  BY DEF ReadCommand
<1>3. UNCHANGED <<monitor, alert, lost>>
  BY DEF hatVars, ReadCommand
<1> SUFFICES ASSUME lost \cap MonitorCommands = {}
             PROVE  ShutterFollows'
  BY <1>1, <1>3 DEF ShutterFollows, MonitorCommands
<1> USE DEF MonitorCommands
<1>4. monitor = "recv" => shutter' = alert
  BY <1>2 DEF ShutterFollows
<1>5. monitor = "Close" => selection' = "Close"
  BY <1>2 DEF ShutterFollows, Follows
<1>6. monitor = "Open" => selection' = "Open"
  BY <1>2 DEF ShutterFollows, Follows
<1>7. monitor = "CloseSet" => selection' = "Close" /\ shutter' = "Close"
  BY <1>2 DEF ShutterFollows, Follows
<1>8. monitor = "OpenSet" => selection' = "Open" /\ shutter' = "Open"
  BY <1>2 DEF ShutterFollows, Follows
<1>9. QED
  BY <1>1, <1>3, <1>4, <1>5, <1>6, <1>7, <1>8 DEF ShutterFollows, Follows

(* The monitor's own steps.                                                *)
LEMMA FollowsMonitor ==
  ASSUME TypeInv, ShutterFollows,
         SetShutter \/ Report \/ \E armed, beyond \in BOOLEAN : Message(armed, beyond)
  PROVE  ShutterFollows'
<1> USE DEF slotVars, MonitorCommands
<1>1. UNCHANGED <<selection, shutter>>
  BY DEF SetShutter, Report, Message, qsiVars, qsiButSlot, cameraVars
<1>2. CASE Report
  <2>1. UNCHANGED slotVars /\ slot.by # "monitor" /\ monitor' = "recv"
    BY <1>2 DEF Report, Paused, qsiVars
  <2>2. lost \cap MonitorCommands = {} => shutter = alert'
    BY <1>2, <2>1 DEF Report, ShutterFollows, Follows
  <2>3. QED BY <1>1, <2>1, <2>2 DEF ShutterFollows, Follows
<1>3. CASE SetShutter
  <2>1. /\ slot'.by = "monitor" /\ slot'.cmd = "setShutter" /\ slot.by # "monitor"
        /\ lost \subseteq lost'
    BY <1>3 DEF SetShutter, Write, Paused
  <2>2. lost \cap MonitorCommands = {} =>
          \/ monitor = "Close" /\ monitor' = "CloseSet" /\ selection = "Close"
          \/ monitor = "Open" /\ monitor' = "OpenSet" /\ selection = "Open"
    BY <1>3, <2>1 DEF SetShutter, ShutterFollows, Follows
  <2>3. QED BY <1>1, <2>1, <2>2 DEF ShutterFollows, Follows
<1>4. ASSUME NEW armed \in BOOLEAN, NEW beyond \in BOOLEAN, Message(armed, beyond)
      PROVE  ShutterFollows'
  <2>1. /\ alert' = alert /\ monitor = "recv"
        /\ lost \cap MonitorCommands = {} => shutter = alert /\ slot.by # "monitor"
    BY <1>4 DEF Message, ShutterFollows
  <2>2. /\ lost \subseteq lost'
        /\ \/ UNCHANGED <<slot, monitor>>
           \/ slot' = [cmd |-> "selectClose", by |-> "monitor"] /\ monitor' = "Close"
           \/ slot' = [cmd |-> "selectOpen", by |-> "monitor"] /\ monitor' = "Open"
    BY <1>4 DEF Message, Write
  <2>3. CASE UNCHANGED <<slot, monitor>>
    BY <1>1, <2>1, <2>2, <2>3 DEF ShutterFollows, Follows
  <2>4. CASE \/ slot' = [cmd |-> "selectClose", by |-> "monitor"] /\ monitor' = "Close"
             \/ slot' = [cmd |-> "selectOpen", by |-> "monitor"] /\ monitor' = "Open"
    BY <2>4 DEF ShutterFollows, Follows
  <2>5. QED BY <2>2, <2>3, <2>4
<1>5. QED BY <1>2, <1>3, <1>4

(* The shutter follows the monitor's commands, or one of them is lost.     *)
LEMMA FollowsStep ==
  ASSUME TypeInv, ShutterFollows, [Next]_vars
  PROVE  ShutterFollows'
<1>1. CASE HatPowerCut
  BY <1>1 DEF HatPowerCut, PowerCut, Empty, ShutterFollows, Follows, MonitorCommands
<1>2. CASE UNCHANGED vars
  BY <1>2 DEF vars, qsiVars, slotVars, hatVars, cameraVars, ShutterFollows, Follows
<1>3. QED
  BY <1>1, <1>2, FollowsOthers, FollowsRead, FollowsMonitor DEF Next
-----------------------------------------------------------------------------
(* The theorems                                                            *)

(* Every variable keeps its type, and frames have names.                   *)
THEOREM TypeCorrect == Spec => []HatTypeOK
<1>1. HatInit => TypeInv
  BY InitType
<1>2. TypeInv /\ [Next]_vars => TypeInv'
  BY QsiAssumption, TypeStep
<1>3. TypeInv => HatTypeOK
  BY DEF TypeInv
<1>4. QED BY <1>1, <1>2, <1>3, PTL DEF Spec

(* If users wait for a stop to have its effect, QSI_start.php never starts *)
(* a sequence beside another one.                                          *)
THEOREM OneAtATime == NotOverlapping => (Spec => []OneSequence)
<1> SUFFICES ASSUME NotOverlapping PROVE Spec => []OneSequence
  OBVIOUS
<1>1. HatInit => AloneInv
  BY InitType, InitAlone DEF AloneInv
<1>2. AloneInv /\ [Next]_vars => AloneInv'
  BY QsiAssumption, TypeStep, AloneStep DEF AloneInv
<1>3. AloneInv => OneSequence
  BY DEF AloneInv, SequenceAlone, OneSequence, Alive, At, Busy
<1>4. QED BY <1>1, <1>2, <1>3, PTL DEF Spec

(* If users wait for a stop to have its effect, the invariant of every     *)
(* frame holds, whichever commands are overwritten.                        *)
THEOREM FrameInvariant == NotOverlapping => (Spec => []FrameInv)
<1> SUFFICES ASSUME NotOverlapping PROVE Spec => []FrameInv
  OBVIOUS
<1>1. HatInit => FrameInv
  BY InitType, InitAlone, InitFrame DEF AloneInv, FrameInv
<1>2. FrameInv /\ [Next]_vars => FrameInv'
  <2> SUFFICES ASSUME FrameInv, [Next]_vars PROVE FrameInv'
    OBVIOUS
  <2>1. TypeInv'
    BY QsiAssumption, TypeStep DEF FrameInv, AloneInv
  <2>2. SequenceAlone'
    BY QsiAssumption, AloneStep DEF FrameInv
  <2>3. QED BY <2>1, <2>2, FrameStep DEF FrameInv, AloneInv
<1>3. QED BY <1>1, <1>2, PTL DEF Spec

(* A frame that image.txt calls complete is in the folder images, as long  *)
(* as no cancel has been overwritten unread.                               *)
THEOREM FramesSaved == NotOverlapping => (Spec => []CompletedSaved)
<1>1. FrameInv => CompletedSaved
  BY DEF FrameInv, Heard, Saved, CompletedSaved
<1>2. QED BY <1>1, FrameInvariant, PTL

(* An exposure is started when the camera has finished the one before, as  *)
(* long as no cancel has been overwritten unread.                          *)
THEOREM CameraWaitedFor == NotOverlapping => (Spec => StartWhenIdle)
<1>1. FrameInv =>
        (ReadCommand /\ slot.cmd = "expose" /\ "cancel" \notin lost => camera \in {"idle", "hung"})
  BY DEF FrameInv, FrameAlone, Heard
<1>2. QED BY <1>1, FrameInvariant, PTL DEF StartWhenIdle

(* Between two messages the shutter is set as alert.txt says, whatever     *)
(* users and the other writers of Commands.txt do, unless one of the       *)
(* monitor's own commands has been overwritten unread.                     *)
THEOREM ReportIsTrue == Spec => []ShutterAsReported
<1>1. HatInit => TypeInv /\ ShutterFollows
  BY InitType, InitFollows
<1>2. (TypeInv /\ ShutterFollows) /\ [Next]_vars => (TypeInv /\ ShutterFollows)'
  BY QsiAssumption, TypeStep, FollowsStep
<1>3. TypeInv /\ ShutterFollows => ShutterAsReported
  BY DEF ShutterFollows, ShutterAsReported, MonitorCommands
<1>4. QED BY <1>1, <1>2, <1>3, PTL DEF Spec
=============================================================================
