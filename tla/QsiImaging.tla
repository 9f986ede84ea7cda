----------------------------- MODULE QsiImaging -----------------------------
(***************************************************************************)
(* An imaging sequence with a camera driven by GoQat: QSI_start.php,       *)
(* QSI_stop.php, the sequence program QSIcontrol.c, process_image.sh and   *)
(* the watcher check_idle_QSI.c.                                           *)
(*                                                                         *)
(* GoQat is told what to do through Commands.txt: one file, one command,   *)
(* overwritten by every writer without a look at what is in it.  A         *)
(* writer's pauses keep its own commands apart; nothing keeps the commands *)
(* of two writers apart, and one that is overwritten before GoQat has read *)
(* it is lost.  The actions of GoQat, which is not part of the repository, *)
(* say what the programs rely on.                                          *)
(***************************************************************************)
EXTENDS Naturals, FiniteSets

CONSTANTS
  MaxRuns,     \* bound: the runs of QSIcontrol
  FilterCode,  \* ccd_filter.txt: the filter codes users ask for
  FrameCount,  \* ccd_nf.txt: the numbers of frames users ask for
  FocuserLink, \* the file focuserlink exists
  Overlap,     \* users stop again, or start again, before a stop has had its effect
  SetupLen,    \* bound: the commands QSI_start.php writes (six or seven)
  MaxStops, MaxHangs, MaxCuts  \* bounds: stops, camera failures, power cuts

ASSUME QsiAssumption ==
  /\ FilterCode \subseteq Nat
  /\ FrameCount \subseteq Nat \ {0}
  /\ FocuserLink \in BOOLEAN /\ Overlap \in BOOLEAN
  /\ SetupLen \in Nat \ {0}
  /\ MaxRuns \in Nat \ {0} /\ MaxStops \in Nat /\ MaxHangs \in Nat /\ MaxCuts \in Nat

(* The switch of QSIcontrol: a two-digit code is a range of positions.     *)
Ranges == {13, 23, 14, 24, 34}
FirstFilter(f) == IF f \in Ranges THEN f \div 10 ELSE f
LastFilter(f)  == IF f \in Ranges THEN f % 10 ELSE f

Writers  == {"start", "seq", "stop", "watcher", "monitor"}
Commands == {"setup", "filter", "expose", "cancel", "focuser",
             "selectClose", "selectOpen", "setShutter"}
(* The commands whose loss makes a difference here.                        *)
Vital    == Commands \ {"setup", "filter", "focuser"}
Command  == [cmd : Commands, by : Writers]
Empty    == [cmd |-> "none", by |-> "none"]

Proc == 1..MaxRuns

(* A frame is known by the run that asked for it and its number in the run.*)
Frame == Proc \X (Nat \ {0})
NoFrame == <<>>
NoRun == [pc |-> "none", last |-> 0, filter |-> 0, frames |-> 0, frame |-> 0, shot |-> 0]
RunPc == {"none", "filter", "frame", "press", "wait", "process", "ending", "focuser"}

VARIABLES
  statusCcd,        \* the file status_ccd exists
  prepareCcd,       \* the file prepare_ccd exists
  statusCapture,    \* the file status_capture exists
  statusProcessing, \* the file status_processing exists
  slot,             \* Commands.txt: a command GoQat has not read yet
  lost,             \* which Vital commands another program has overwritten unread
  camera,           \* the camera, as GoQat sees it
  exposing,         \* the frame the camera works on
  pressed,          \* the frame the newest btnCCDStart was written for
  selection,        \* GoQat's combo box "shutter open"
  shutter,          \* what btnCConfSetShutOpen set last
  tmp,              \* the images in tmp_images
  images,           \* the images in images
  starting,         \* QSI_start.php
  setupLeft,        \* the commands QSI_start.php has still to write
  stopping,         \* QSI_stop.php
  run,              \* the runs of QSIcontrol
  script,           \* the process_image.sh each run has started
  done,             \* the frames image.txt calls "Completed"
  watchers,         \* how many check_idle_QSI are waiting
  closing,          \* how many of them have still to close the focuser's link
  count             \* how often each bounded event has happened

fileVars   == <<statusCcd, prepareCcd, statusCapture, statusProcessing>>
slotVars   == <<slot, lost>>
cameraVars == <<camera, exposing, selection, shutter>>
imageVars  == <<tmp, images, done>>
seqVars    == <<run, script, pressed>>
requestVars == <<starting, setupLeft, stopping, watchers, closing>>
qsiVars == <<fileVars, slotVars, cameraVars, imageVars, seqVars, requestVars, count>>

At(p, pc) == run[p].pc = pc
Alive(p)  == ~At(p, "none")
Orphan(p) == ~Alive(p) /\ script[p] # "none"
Events    == {"run", "stop", "hang", "cut"}

TypeOK ==
  /\ statusCcd \in BOOLEAN /\ prepareCcd \in BOOLEAN
  /\ statusCapture \in BOOLEAN /\ statusProcessing \in BOOLEAN
  /\ slot \in Command \cup {Empty} /\ lost \subseteq Vital
  /\ camera \in {"idle", "exposing", "cancelling", "hung"}
  /\ \A f \in {exposing, pressed} \ {NoFrame} : f \in Frame
  /\ selection \in {"Open", "Close"} /\ shutter \in {"Open", "Close"}
  /\ \A f \in tmp \cup images \cup done : f \in Frame
  /\ starting \in {"idle", "setup", "spawn"} /\ setupLeft \in 0..SetupLen
  /\ stopping \in {"no", "cancel", "release", "focuser"}
  /\ run \in [Proc -> [pc : RunPc, last : Nat, filter : Nat, frames : Nat,
                       frame : Nat, shot : Nat]]
  /\ script \in [Proc -> {"none", "copy", "preview", "clear"}]
  /\ watchers \in Nat /\ closing \in Nat
  /\ count \in [Events -> Nat]

Init ==
  /\ statusCcd = FALSE /\ prepareCcd = FALSE
  /\ statusCapture = FALSE /\ statusProcessing = FALSE
  /\ slot = Empty /\ lost = {} /\ pressed = NoFrame
  /\ camera = "idle" /\ exposing = NoFrame
  /\ selection = "Open" /\ shutter = "Open"
  /\ tmp = {} /\ images = {} /\ done = {}
  /\ starting = "idle" /\ setupLeft = 0 /\ stopping = "no"
  /\ watchers = 0 /\ closing = 0
  /\ run = [p \in Proc |-> NoRun]
  /\ script = [p \in Proc |-> "none"]
  /\ count = [e \in Events |-> 0]

Happens(e, max) ==
  /\ count[e] < max
  /\ count' = [count EXCEPT ![e] = @ + 1]

(* echo ... > Commands.txt: what is in it is overwritten, read or not.  (A *)
(* cancel that overwrites a start has taken it back: nothing is lost.)     *)
Write(cmd, by) ==
  /\ slot' = [cmd |-> cmd, by |-> by]
  /\ lost' = IF /\ slot # Empty /\ slot.by # by
                /\ ~(slot.cmd = "expose" /\ cmd = "cancel")
             THEN lost \cup ({slot.cmd} \cap Vital) ELSE lost

(* A writer pauses after a command, long enough for GoQat to read it if    *)
(* nobody else writes: its own command has left the file.                  *)
Paused(by) == slot.by # by

-----------------------------------------------------------------------------
(* GoQat and the camera                                                    *)

ReadCommand ==
  /\ slot # Empty
  /\ slot' = Empty
  /\ camera' = CASE slot.cmd = "expose" /\ camera = "idle" -> "exposing"
                 [] slot.cmd = "cancel" /\ camera = "exposing" -> "cancelling"
                 [] OTHER -> camera
  /\ exposing' = IF slot.cmd = "expose" /\ camera = "idle" THEN pressed ELSE exposing
  /\ selection' = CASE slot.cmd = "selectClose" -> "Close"
                    [] slot.cmd = "selectOpen" -> "Open"
                    [] OTHER -> selection
  /\ shutter' = IF slot.cmd = "setShutter" THEN selection ELSE shutter
  /\ UNCHANGED <<fileVars, lost, imageVars, seqVars, requestVars, count>>

(* The image is saved to tmp_images automatically.                         *)
ExposureEnds ==
  /\ camera = "exposing"
  /\ camera' = "idle"
  /\ tmp' = tmp \cup {exposing}
  /\ exposing' = NoFrame
  /\ UNCHANGED <<fileVars, slotVars, selection, shutter, images, done, seqVars, requestVars, count>>

(* A cancelled exposure is read out and may be saved as well.              *)
CancelEnds ==
  /\ camera = "cancelling"
  /\ camera' = "idle"
  /\ tmp' \in {tmp, tmp \cup {exposing}}
  /\ exposing' = NoFrame
  /\ UNCHANGED <<fileVars, slotVars, selection, shutter, images, done, seqVars, requestVars, count>>

CameraHangs ==
  /\ camera \in {"exposing", "cancelling"}
  /\ Happens("hang", MaxHangs)
  /\ camera' = "hung"
  /\ UNCHANGED <<fileVars, slotVars, exposing, selection, shutter, imageVars, seqVars, requestVars>>

-----------------------------------------------------------------------------
(* QSI_start.php                                                           *)

\* mutant: the guard on status_ccd is forgotten
StartAlways ==
  /\ starting = "idle"
  /\ Happens("run", MaxRuns)
  /\ Overlap \/ \A p \in Proc : ~Orphan(p)
  /\ statusCcd' = TRUE /\ prepareCcd' = TRUE
  /\ tmp' = {}
  /\ starting' = "setup" /\ setupLeft' = SetupLen
  /\ UNCHANGED <<statusCapture, statusProcessing, slotVars, cameraVars, images, done,
                 seqVars, stopping, watchers, closing>>

Start ==
  /\ starting = "idle"
  /\ ~statusCcd
  /\ Happens("run", MaxRuns)
  /\ Overlap \/ \A p \in Proc : ~Orphan(p)
  /\ statusCcd' = TRUE /\ prepareCcd' = TRUE
  /\ tmp' = {}
  /\ starting' = "setup" /\ setupLeft' = SetupLen
  /\ UNCHANGED <<statusCapture, statusProcessing, slotVars, cameraVars, images, done,
                 seqVars, stopping, watchers, closing>>

(* The temperature, the binning, the exposure ... half a second apart.     *)
Setup ==
  /\ starting = "setup" /\ setupLeft > 0
  /\ Paused("start")
  /\ Write("setup", "start")
  /\ setupLeft' = setupLeft - 1
  /\ UNCHANGED <<fileVars, cameraVars, imageVars, seqVars, starting, stopping, watchers, closing, count>>

(* More than three seconds have passed: a stop that was under way when the *)
(* request began has ended, and a stop, a watcher or a sequence that had   *)
(* just removed status_ccd has closed the focuser's link.                  *)
Prepared ==
  /\ starting = "setup" /\ setupLeft = 0
  /\ stopping = "no" /\ closing = 0 /\ \A p \in Proc : ~At(p, "focuser")
  /\ Paused("start")
  /\ prepareCcd' = FALSE
  /\ starting' = "spawn"
  /\ UNCHANGED <<statusCcd, statusCapture, statusProcessing, slotVars, cameraVars, imageVars,
                 seqVars, setupLeft, stopping, watchers, closing, count>>

Spawn(code, frames) ==
  /\ starting = "spawn"
  /\ LET p == count["run"] IN
     run' = [run EXCEPT ![p] = [pc |-> "filter", last |-> LastFilter(code),
                                filter |-> FirstFilter(code), frames |-> frames,
                                frame |-> 1, shot |-> 0]]
  /\ starting' = "idle"
  /\ UNCHANGED <<fileVars, slotVars, cameraVars, imageVars, script, pressed, setupLeft, stopping,
                 watchers, closing, count>>

-----------------------------------------------------------------------------
(* QSIcontrol                                                              *)

(* The program goes on elsewhere, with new values of its counters.         *)
Loop(p, pc, filter, frame, shot) ==
  run' = [run EXCEPT ![p] = [pc |-> pc, last |-> run[p].last, filter |-> filter,
                             frames |-> run[p].frames, frame |-> frame, shot |-> shot]]

(* The outer loop: the next filter, unless the code is 0, or the end.      *)
SelectFilter(p) ==
  /\ At(p, "filter")
  /\ \/ /\ run[p].filter > run[p].last
        /\ run' = [run EXCEPT ![p].pc = "ending"]
        /\ UNCHANGED slotVars
     \/ /\ run[p].filter <= run[p].last
        /\ IF run[p].filter = 0 THEN UNCHANGED slotVars ELSE Write("filter", "seq")
        /\ Loop(p, "frame", run[p].filter, 1, run[p].shot)
  /\ UNCHANGED <<fileVars, cameraVars, imageVars, script, pressed, requestVars, count>>

(* The inner loop: status_capture first, then the button.  Two seconds     *)
(* have passed: a stop that has missed the program has ended.              *)
BeginFrame(p) ==
  /\ At(p, "frame")
  /\ stopping = "no"
  /\ Paused("seq")
  /\ \/ /\ run[p].frame > run[p].frames
        /\ Loop(p, "filter", run[p].filter + 1, run[p].frame, run[p].shot)
        /\ UNCHANGED statusCapture
     \/ /\ run[p].frame <= run[p].frames
        /\ statusCapture' = TRUE
        /\ Loop(p, "press", run[p].filter, run[p].frame, run[p].shot + 1)
  /\ UNCHANGED <<statusCcd, prepareCcd, statusProcessing, slotVars, cameraVars, imageVars,
                 script, pressed, requestVars, count>>

PressStart(p) ==
  /\ At(p, "press")
  /\ Write("expose", "seq")
  /\ pressed' = <<p, run[p].shot>>
  /\ run' = [run EXCEPT ![p].pc = "wait"]
  /\ UNCHANGED <<fileVars, cameraVars, imageVars, script, requestVars, count>>

\* mutant: nobody looks into tmp_images
WaitForever(p) ==
  /\ At(p, "wait")
  /\ Paused("seq")
  /\ ~statusCapture
  /\ run' = [run EXCEPT ![p].pc = "process"]
  /\ script' = [script EXCEPT ![p] = "copy"]
  /\ UNCHANGED <<fileVars, slotVars, cameraVars, imageVars, pressed, requestVars, count>>

(* Once a second: remove status_capture when tmp_images is not empty; go   *)
(* on when it is gone, whoever removed it.                                 *)
Wait(p) ==
  /\ At(p, "wait")
  /\ Paused("seq")
  /\ \/ /\ statusCapture /\ tmp # {}
        /\ statusCapture' = FALSE
        /\ UNCHANGED <<run, script>>
     \/ /\ ~statusCapture
        /\ run' = [run EXCEPT ![p].pc = "process"]
        /\ script' = [script EXCEPT ![p] = "copy"]
        /\ UNCHANGED statusCapture
  /\ UNCHANGED <<statusCcd, prepareCcd, statusProcessing, slotVars, cameraVars, imageVars,
                 pressed, requestVars, count>>

\* mutant: process_image.sh clears the folder before it copies
CopyImageCleared(p) ==
  /\ script[p] = "copy"
  /\ statusProcessing' = TRUE
  /\ tmp' = {}
  /\ script' = [script EXCEPT ![p] = "preview"]
  /\ UNCHANGED <<statusCcd, prepareCcd, statusCapture, slotVars, cameraVars, images, done,
                 run, pressed, requestVars, count>>

(* process_image.sh, which a kill of QSIcontrol does not end.              *)
CopyImage(p) ==
  /\ script[p] = "copy"
  /\ statusProcessing' = TRUE
  /\ images' = images \cup tmp
  /\ script' = [script EXCEPT ![p] = "preview"]
  /\ UNCHANGED <<statusCcd, prepareCcd, statusCapture, slotVars, cameraVars, tmp, done,
                 run, pressed, requestVars, count>>

ClearImage(p) ==
  /\ script[p] = "preview"
  /\ tmp' = {}
  /\ script' = [script EXCEPT ![p] = "clear"]
  /\ UNCHANGED <<fileVars, slotVars, cameraVars, images, done, run, pressed, requestVars, count>>

Processed(p) ==
  /\ script[p] = "clear"
  /\ statusProcessing' = FALSE
  /\ script' = [script EXCEPT ![p] = "none"]
  /\ UNCHANGED <<statusCcd, prepareCcd, statusCapture, slotVars, cameraVars, imageVars,
                 run, pressed, requestVars, count>>

(* "Frame %d of %d : Completed", and the next one.                         *)
Completed(p) ==
  /\ At(p, "process")
  /\ script[p] = "none"
  /\ done' = done \cup {<<p, run[p].shot>>}
  /\ Loop(p, "frame", run[p].filter, run[p].frame + 1, run[p].shot)
  /\ UNCHANGED <<fileVars, slotVars, cameraVars, tmp, images, script, pressed, requestVars, count>>

Finish(p) ==
  /\ At(p, "ending")
  /\ statusCcd' = FALSE
  /\ run' = [run EXCEPT ![p].pc = IF FocuserLink THEN "focuser" ELSE "none"]
  /\ UNCHANGED <<prepareCcd, statusCapture, statusProcessing, slotVars, cameraVars, imageVars,
                 script, pressed, requestVars, count>>

CloseFocuser(p) ==
  /\ At(p, "focuser")
  /\ Write("focuser", "seq")
  /\ run' = [run EXCEPT ![p].pc = "none"]
  /\ UNCHANGED <<fileVars, cameraVars, imageVars, script, pressed, requestVars, count>>

-----------------------------------------------------------------------------
(* QSI_stop.php and check_idle_QSI                                         *)

(* kill_QSI.sh ends every QSIcontrol.  Users stop what has been started.   *)
(* (The instant between the removal of prepare_ccd and the program it      *)
(* announces is left out.)                                                 *)
Stop ==
  /\ stopping = "no"
  /\ ~prepareCcd /\ starting # "spawn"
  /\ statusCcd /\ (Overlap \/ watchers = 0)
  /\ Happens("stop", MaxStops)
  /\ run' = [p \in Proc |-> NoRun]
  /\ statusProcessing' = FALSE
  /\ stopping' = "cancel"
  /\ UNCHANGED <<statusCcd, prepareCcd, statusCapture, slotVars, cameraVars, imageVars,
                 script, pressed, starting, setupLeft, watchers, closing>>

Cancel ==
  /\ stopping = "cancel"
  /\ Write("cancel", "stop")
  /\ stopping' = "release"
  /\ UNCHANGED <<fileVars, cameraVars, imageVars, seqVars, starting, setupLeft, watchers, closing, count>>

\* mutant: status_ccd is removed at once, no watcher is started
ReleaseAtOnce ==
  /\ stopping = "release"
  /\ statusCapture' = FALSE
  /\ statusCcd' = FALSE
  /\ stopping' = IF FocuserLink THEN "focuser" ELSE "no"
  /\ UNCHANGED <<prepareCcd, statusProcessing, slotVars, cameraVars, imageVars, seqVars, starting,
                 setupLeft, watchers, closing, count>>

(* An interrupted capture keeps status_ccd until the camera is idle.       *)
Release ==
  /\ stopping = "release"
  /\ \/ /\ statusCapture
        /\ statusCapture' = FALSE
        /\ watchers' = watchers + 1
        /\ stopping' = "no"
        /\ UNCHANGED statusCcd
     \/ /\ ~statusCapture
        /\ statusCcd' = FALSE
        /\ stopping' = IF FocuserLink THEN "focuser" ELSE "no"
        /\ UNCHANGED <<statusCapture, watchers>>
  /\ UNCHANGED <<prepareCcd, statusProcessing, slotVars, cameraVars, imageVars, seqVars, starting,
                 setupLeft, closing, count>>

StopFocuser ==
  /\ stopping = "focuser"
  /\ Write("focuser", "stop")
  /\ stopping' = "no"
  /\ UNCHANGED <<fileVars, cameraVars, imageVars, seqVars, starting, setupLeft, watchers, closing,
                 count>>

\* mutant: the watcher waits without a limit
CameraQuietOnly == camera = "idle"

(* The last line of GoQat's log begins with FI once the camera is idle; if *)
(* other lines follow or the camera hangs, sixty polls end the wait.  That *)
(* is longer than a cancelled exposure takes.                              *)
CameraQuiet == camera # "cancelling" /\ (camera = "exposing" => slot.cmd # "cancel")

WatcherEnds ==
  /\ watchers > 0
  /\ CameraQuiet
  /\ watchers' = watchers - 1
  /\ statusCapture' = FALSE
  /\ statusCcd' = FALSE
  /\ closing' = IF FocuserLink THEN closing + 1 ELSE closing
  /\ UNCHANGED <<prepareCcd, statusProcessing, slotVars, cameraVars, imageVars, seqVars,
                 starting, setupLeft, stopping, count>>

WatcherCloses ==
  /\ closing > 0
  /\ closing' = closing - 1
  /\ Write("focuser", "watcher")
  /\ UNCHANGED <<fileVars, cameraVars, imageVars, seqVars, starting, setupLeft, stopping, watchers,
                 count>>

(* Power cut and boot: rc.local removes the files, startapp.php empties    *)
(* Commands.txt, the camera comes up as it is switched on.                 *)
PowerCut ==
  /\ Happens("cut", MaxCuts)
  /\ statusCcd' = FALSE /\ prepareCcd' = FALSE
  /\ statusCapture' = FALSE /\ statusProcessing' = FALSE
  /\ slot' = Empty /\ camera' = "idle" /\ exposing' = NoFrame /\ pressed' = NoFrame
  /\ selection' = "Open" /\ shutter' = "Open"
  /\ starting' = "idle" /\ setupLeft' = 0 /\ stopping' = "no"
  /\ watchers' = 0 /\ closing' = 0
  /\ run' = [p \in Proc |-> NoRun]
  /\ script' = [p \in Proc |-> "none"]
  /\ UNCHANGED <<lost, imageVars>>

-----------------------------------------------------------------------------
StartStep ==
  \/ Setup \/ Prepared
  \/ \E code \in FilterCode, n \in FrameCount : Spawn(code, n)

StopStep == Cancel \/ Release \/ StopFocuser

RunStep(p) ==
  \/ SelectFilter(p) \/ BeginFrame(p) \/ PressStart(p) \/ Wait(p) \/ Completed(p)
  \/ Finish(p) \/ CloseFocuser(p)

ScriptStep(p) == CopyImage(p) \/ ClearImage(p) \/ Processed(p)

CameraStep == ReadCommand \/ ExposureEnds \/ CancelEnds \/ CameraHangs

QsiStep ==
  \/ Start \/ StartStep \/ Stop \/ StopStep \/ WatcherEnds \/ WatcherCloses \/ CameraStep
  \/ \E p \in Proc : RunStep(p) \/ ScriptStep(p)

(* Programs and PHP requests run to their end, GoQat reads its file and    *)
(* an exposure ends; users, failures and power cuts promise nothing.       *)
QsiFairness ==
  /\ WF_qsiVars(ReadCommand) /\ WF_qsiVars(ExposureEnds) /\ WF_qsiVars(CancelEnds)
  /\ WF_qsiVars(StartStep) /\ WF_qsiVars(StopStep)
  /\ WF_qsiVars(WatcherEnds) /\ WF_qsiVars(WatcherCloses)
  /\ WF_qsiVars(\E p \in Proc : RunStep(p)) /\ WF_qsiVars(\E p \in Proc : ScriptStep(p))

-----------------------------------------------------------------------------
(* Properties                                                              *)

(* status_ccd is tested by QSI_start.php, written by it, removed by three  *)
(* programs that do not know of each other: there is never more than one   *)
(* sequence in preparation or at work, and while there is one the file is  *)
(* there for the next request to see.                                      *)
OneSequence ==
  LET busy == {p \in Proc : Alive(p) /\ run[p].pc # "focuser"} IN
  /\ \A p, q \in busy : p = q
  /\ starting # "idle" => busy = {}
  /\ busy # {} \/ starting # "idle" => statusCcd

(* image.txt says "Frame %d of %d : Completed" (QSIcontrol.c:155): the     *)
(* image of that frame has been copied to the folder images, unless the    *)
(* cancel of a stop has been overwritten unread and its exposure went on.  *)
CompletedSaved == "cancel" \notin lost => done \subseteq images

(* A frame is started only when the exposure a stop has cancelled is over: *)
(* that is what check_idle_QSI waits for ("Waiting for CCD to be ready").  *)
(* Again the cancel itself may have been overwritten; then nothing ends    *)
(* that exposure before its time.                                          *)
StartWhenIdle ==
  [][ReadCommand /\ slot.cmd = "expose" /\ "cancel" \notin lost =>
       camera \in {"idle", "hung"}]_qsiVars

(* Every sequence ends, by itself or stopped, unless the camera hangs or   *)
(* the start of a frame has been overwritten unread.                       *)
SequenceEnds ==
  \A p \in Proc : Alive(p) ~> ~Alive(p) \/ camera = "hung" \/ "expose" \in lost

(* A stop gives the camera back: status_ccd goes, also when the camera     *)
(* hangs and whichever commands have been overwritten.                     *)
StopReleases == stopping \in {"cancel", "release"} ~> ~statusCcd
=============================================================================
