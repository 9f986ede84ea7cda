----------------------------- MODULE Calibration -----------------------------
(***************************************************************************)
(* Calibrating the guider: the page's calibrating(), guiding() and stop()  *)
(* (iAstroHub_ccd.html), the handlers calibrate.php, autoguide.php,        *)
(* stop.php, read_calibrate.php and read_autoguide.php, and the            *)
(* calibration window of the modified Lin_guider (rcalibration.cpp, and    *)
(* the remote commands of lin_guider.cpp that open and close it).          *)
(*                                                                         *)
(* Lin_guider has one GUI thread.  A calibration is a loop inside a        *)
(* handler that calls processEvents(), so that commands and clicks are     *)
(* handled inside the loop: a second calibration nests in the first, and   *)
(* only the innermost loop goes on.  What a command does until it returns  *)
(* or waits in a loop is one step.                                         *)
(***************************************************************************)
EXTENDS Naturals, Sequences, FiniteSets

CONSTANTS
  Tab,       \* browser tabs
  Gui,       \* what a user does in Lin_guider's own window (VNC): "none", "boxes", "all"
  Prompt,    \* users are slower than the handlers and timers: see Settled
  SavedTwo,  \* two_axis in Lin_guider's configuration file
  MaxLoads, MaxCalibrations, MaxGuides, MaxStops, MaxClicks \* bounds: user actions

ASSUME CalibrationAssumption ==
  /\ Gui \in {"none", "boxes", "all"}
  /\ {Prompt, SavedTwo} \subseteq BOOLEAN
  /\ {MaxLoads, MaxCalibrations, MaxGuides, MaxStops, MaxClicks} \subseteq Nat

Command == {"startGuide", "stopGuide", "startCal", "stopCal"}
Axis    == {"RA", "DEC"}
Leg     == {"raOut", "raBack", "decOut", "decBack"}
Event   == {"load", "calibrate", "guide", "stop", "click"}

VARIABLES
  open, flgGuiding, flgCalibrating, \* the page: loaded, and its flags
  timerG, timerC,  \* a setTimeout of monitor(), of monitor_cal() is pending
  asked,           \* the page's newest status request, or its answer
  start, stop,     \* the tab's handlers: autoguide.php or calibrate.php; stop.php
  statusG, statusC,\* the files status_guiding, status_calibrating
  text,            \* what calibrating.txt says
  inbox,           \* remote_client processes whose command is not handled yet
  visible,         \* the calibration window is shown
  guiding,         \* the guider window is shown and guides
  locked,          \* menu and toolbar are disabled
  box, saved,      \* two_axis and auto_mode: the checkboxes; m_calibration_params
  enabled,         \* the Start button, and the checkboxes
  manual,          \* is_started and axis of a manual calibration
  frames,          \* the calibration loops on the stack, the innermost last
  point,           \* start_x1 .. end_y2: the run each was measured in
  pulse,           \* the run whose pulse the driver is giving on each axis
  run,             \* how many calibrations have begun
  count            \* how often each bounded event has happened

pageVars == <<open, flgGuiding, flgCalibrating, timerG, timerC, asked>>
phpVars  == <<start, stop>>
fileVars == <<statusG, statusC>>
wndVars  == <<visible, locked, box, saved, enabled, manual>>
loopVars == <<frames, point, pulse, run>>
vars == <<pageVars, phpVars, fileVars, text, inbox, guiding, wndVars, loopVars, count>>

NoRun  == 0
Runs   == 0..(MaxCalibrations + MaxClicks)
Rest   == [a \in Axis |-> NoRun]
Params == [auto : BOOLEAN, two : BOOLEAN]
Remark == {"RA reached", "RA warning", "DEC drifting", "DEC reached", "DEC warning", "+++++"}

TypeOK ==
  /\ {open, flgGuiding, flgCalibrating, timerG, timerC} \subseteq [Tab -> BOOLEAN]
  /\ asked \in [Tab -> {"none", "guiding?", "calibrating?", "GGGGG", "+++"}]
  /\ start \in [Tab -> {"none", "calibrate", "calibrate!", "guide", "guide!", "guiding"}]
  /\ stop \in [Tab -> {"none", "begin", "guider", "reticle"}]
  /\ {statusG, statusC, visible, guiding, locked, enabled} \subseteq BOOLEAN
  /\ text \in SUBSET Remark
  /\ inbox \in SUBSET (Tab \X Command)
  /\ {box, saved} \subseteq Params
  /\ manual \in {"off"} \cup Axis
  /\ frames \in Seq([id : Runs, two : BOOLEAN, leg : Leg, ok : BOOLEAN])
  /\ point \in [{"start1", "end1", "start2", "end2"} -> Runs]
  /\ pulse \in [Axis -> Runs]
  /\ run \in Runs
  /\ count \in [Event -> Nat]

Init ==
  /\ open = [t \in Tab |-> FALSE]
  /\ flgGuiding = [t \in Tab |-> FALSE] /\ flgCalibrating = [t \in Tab |-> FALSE]
  /\ timerG = [t \in Tab |-> FALSE] /\ timerC = [t \in Tab |-> FALSE]
  /\ asked = [t \in Tab |-> "none"]
  /\ start = [t \in Tab |-> "none"] /\ stop = [t \in Tab |-> "none"]
  /\ statusG = FALSE /\ statusC = FALSE /\ text = {} /\ inbox = {}
  /\ visible = FALSE /\ guiding = FALSE /\ locked = FALSE
  /\ box = [auto |-> FALSE, two |-> FALSE]
  /\ saved \in {[auto |-> a, two |-> SavedTwo] : a \in BOOLEAN}
  /\ enabled = TRUE /\ manual = "off"
  /\ frames = <<>> /\ pulse = Rest /\ run = NoRun
  /\ point = [p \in {"start1", "end1", "start2", "end2"} |-> NoRun]
  /\ count = [e \in Event |-> 0]

Inner == frames[Len(frames)]
Outer == SubSeq(frames, 1, Len(frames) - 1)

(* Prompt: before a user acts again the handlers are done, their commands  *)
(* handled, every page has heard the news it asks for each second, and a   *)
(* loop whose window was closed has noticed (it looks every LOOP_DELAY).   *)
Settled == Prompt =>
  /\ \A t \in Tab : /\ start[t] = "none" /\ stop[t] = "none" /\ asked[t] = "none"
                    /\ timerG[t] => flgGuiding[t] /\ statusG
                    /\ timerC[t] => flgCalibrating[t] /\ "+++++" \notin text
  /\ inbox = {}
  /\ frames # <<>> => visible

UserActs(e, max) ==
  /\ Settled /\ count[e] < max
  /\ count' = [count EXCEPT ![e] = @ + 1]

-----------------------------------------------------------------------------
(* The page.                                                               *)

(* Loading: monitor() sets flg_guiding without asking first.               *)
Load(t) ==
  /\ UserActs("load", MaxLoads)
  /\ open' = [open EXCEPT ![t] = TRUE]
  /\ flgGuiding' = [flgGuiding EXCEPT ![t] = TRUE]
  /\ flgCalibrating' = [flgCalibrating EXCEPT ![t] = FALSE]
  /\ timerG' = [timerG EXCEPT ![t] = TRUE]
  /\ timerC' = [timerC EXCEPT ![t] = FALSE]
  /\ asked' = [asked EXCEPT ![t] = "none"]
  /\ UNCHANGED <<phpVars, fileVars, text, inbox, guiding, wndVars, loopVars>>

Free(t) == ~flgGuiding[t] /\ ~flgCalibrating[t]

ClickCalibrate(t) ==
  /\ open[t] /\ Free(t) /\ start[t] = "none"
  /\ <<t, "startCal">> \notin inbox  \* bound: one remote_client 7 of a tab at a time
  /\ UserActs("calibrate", MaxCalibrations)
  /\ flgCalibrating' = [flgCalibrating EXCEPT ![t] = TRUE]
  /\ timerC' = [timerC EXCEPT ![t] = TRUE]
  /\ start' = [start EXCEPT ![t] = "calibrate"]
  /\ asked' = [asked EXCEPT ![t] = "none"]
  /\ UNCHANGED <<open, flgGuiding, timerG, stop, fileVars, text, inbox, guiding,
                 wndVars, loopVars>>

ClickGuide(t) ==
  /\ open[t] /\ Free(t) /\ start[t] = "none"
  /\ UserActs("guide", MaxGuides)
  /\ flgGuiding' = [flgGuiding EXCEPT ![t] = TRUE]
  /\ timerG' = [timerG EXCEPT ![t] = TRUE]
  /\ start' = [start EXCEPT ![t] = "guide"]
  /\ asked' = [asked EXCEPT ![t] = "none"]
  /\ UNCHANGED <<open, flgCalibrating, timerC, stop, fileVars, text, inbox, guiding,
                 wndVars, loopVars>>

(* stop(): the timers that are pending will fire once more.                *)
PageStop(t) ==
  /\ stop[t] = "none"  \* bound: one stop.php of a tab at a time
  /\ flgGuiding' = [flgGuiding EXCEPT ![t] = FALSE]
  /\ flgCalibrating' = [flgCalibrating EXCEPT ![t] = FALSE]
  /\ stop' = [stop EXCEPT ![t] = "begin"]
  /\ asked' = [asked EXCEPT ![t] = "none"]
  /\ UNCHANGED <<open, timerG, timerC, start, fileVars, text, inbox, guiding,
                 wndVars, loopVars>>

ClickStop(t) == open[t] /\ UserActs("stop", MaxStops) /\ PageStop(t)

(* Prompt: a second after a click its handler has got past the flag and    *)
(* its commands are handled; a status request is answered within a second. *)
InTime(t) == Prompt => /\ \A u \in Tab : start[u] \in {"none", "guiding"}
                       /\ inbox = {} /\ asked[t] = "none"

ReadGuiding(t) ==
  /\ timerG[t] /\ InTime(t)
  /\ asked' = [asked EXCEPT ![t] = "guiding?"]
  /\ timerG' = [timerG EXCEPT ![t] = flgGuiding[t]]
  /\ UNCHANGED <<open, flgGuiding, flgCalibrating, timerC, phpVars, fileVars, text,
                 inbox, guiding, wndVars, loopVars, count>>

ReadCalibrating(t) ==
  /\ timerC[t] /\ InTime(t)
  /\ asked' = [asked EXCEPT ![t] = "calibrating?"]
  /\ timerC' = [timerC EXCEPT ![t] = flgCalibrating[t]]
  /\ UNCHANGED <<open, flgGuiding, flgCalibrating, timerG, phpVars, fileVars, text,
                 inbox, guiding, wndVars, loopVars, count>>

(* read_autoguide.php and read_calibrate.php; an answer that only shows    *)
(* progress changes nothing in the page.                                   *)
ReadPhp(t) ==
  /\ \/ asked[t] = "guiding?"
        /\ asked' = [asked EXCEPT ![t] = IF statusG THEN "none" ELSE "GGGGG"]
     \/ asked[t] = "calibrating?"
        /\ asked' = [asked EXCEPT ![t] = IF "+++++" \in text THEN "+++" ELSE "none"]
  /\ UNCHANGED <<open, flgGuiding, flgCalibrating, timerG, timerC, phpVars, fileVars,
                 text, inbox, guiding, wndVars, loopVars, count>>

HandleResponse(t) ==
  /\ asked[t] \in {"GGGGG", "+++"}
  /\ PageStop(t)
  /\ UNCHANGED count

-----------------------------------------------------------------------------
(* The handlers.  Each tests its own flag only.                            *)

StatusCFreeAlways == TRUE  \* mutant: calibrate.php does not test the file
StatusCFree == ~statusC

CalibratePhpTest(t) ==
  /\ start[t] = "calibrate"
  /\ start' = [start EXCEPT ![t] = IF StatusCFree THEN "calibrate!" ELSE "none"]
  /\ UNCHANGED <<pageVars, stop, fileVars, text, inbox, guiding, wndVars, loopVars, count>>

(* It blanks calibrating.txt and runs remote_client in the background.     *)
CalibratePhp(t) ==
  /\ start[t] = "calibrate!"
  /\ statusC' = TRUE /\ text' = {}
  /\ inbox' = inbox \cup {<<t, "startCal">>}
  /\ start' = [start EXCEPT ![t] = "none"]
  /\ UNCHANGED <<pageVars, stop, statusG, guiding, wndVars, loopVars, count>>

AutoguidePhpTest(t) ==
  /\ start[t] = "guide"
  /\ start' = [start EXCEPT ![t] = IF statusG THEN "none" ELSE "guide!"]
  /\ UNCHANGED <<pageVars, stop, fileVars, text, inbox, guiding, wndVars, loopVars, count>>

AutoguidePhp(t) ==
  /\ \/ /\ start[t] = "guide!"
        /\ statusG' = TRUE
        /\ inbox' = inbox \cup {<<t, "startGuide">>}
        /\ start' = [start EXCEPT ![t] = "guiding"]
     \/ /\ start[t] = "guiding" /\ <<t, "startGuide">> \notin inbox
        /\ start' = [start EXCEPT ![t] = "none"]
        /\ UNCHANGED <<statusG, inbox>>
  /\ UNCHANGED <<pageVars, stop, statusC, text, guiding, wndVars, loopVars, count>>

StopPhpReticleSkipped(t) ==  \* mutant: remote_client 8 is forgotten
  /\ stop[t] = "guider" /\ <<t, "stopGuide">> \notin inbox
  /\ stop' = [stop EXCEPT ![t] = "reticle"]
  /\ UNCHANGED <<inbox, fileVars>>

StopPhpReticle(t) ==
  /\ stop[t] = "guider" /\ <<t, "stopGuide">> \notin inbox
  /\ inbox' = inbox \cup {<<t, "stopCal">>}
  /\ stop' = [stop EXCEPT ![t] = "reticle"]
  /\ UNCHANGED fileVars
RemoveFlags == statusG' = FALSE /\ statusC' = FALSE

(* remote_client 6, then 8, each waiting for its answer; then the flags.   *)
StopPhp(t) ==
  /\ \/ /\ stop[t] = "begin"
        /\ inbox' = inbox \cup {<<t, "stopGuide">>}
        /\ stop' = [stop EXCEPT ![t] = "guider"]
        /\ UNCHANGED fileVars
     \/ StopPhpReticle(t)
     \/ /\ stop[t] = "reticle" /\ <<t, "stopCal">> \notin inbox
        /\ RemoveFlags
        /\ stop' = [stop EXCEPT ![t] = "none"]
        /\ UNCHANGED inbox
  /\ UNCHANGED <<pageVars, start, text, guiding, wndVars, loopVars, count>>

-----------------------------------------------------------------------------
(* Lin_guider's windows.  closeEvent() runs whenever close() is called,    *)
(* also when the window is hidden or was never shown.                      *)

CloseEventPulseRuns == pulse  \* mutant: the driver is not reset
CloseEventPulse == Rest

(* The commands close both windows first.  The guider window is not in     *)
(* this repository: closing it ends guiding and unlocks the toolbar,       *)
(* showing it locks the toolbar.                                           *)
CloseReticle ==
  /\ visible' = FALSE /\ locked' = FALSE /\ saved' = box
  /\ pulse' = CloseEventPulse
  /\ manual' = "off" /\ enabled' = TRUE
  /\ UNCHANGED <<box, frames, point, run, text>>

GuiderStopsNot == guiding' = guiding  \* mutant: a calibration leaves the guider alone
GuiderStops == guiding' = FALSE

NextRun == run + 1

(* The loop begins: start point and first pulse.                           *)
StartLoop(two, base) ==
  /\ frames' = Append(frames, [id |-> NextRun, two |-> two, leg |-> "raOut", ok |-> FALSE])
  /\ run' = NextRun
  /\ point' = [point EXCEPT !["start1"] = NextRun]
  /\ pulse' = [base EXCEPT !["RA"] = NextRun]
  /\ text' = {} /\ enabled' = FALSE
  /\ manual' = "off"

(* A click in manual mode: begin, end of the RA drift, end of the DEC drift. *)
ManualStep(two, doing, base) ==
  /\ \/ /\ doing = "off"
        /\ manual' = "RA" /\ run' = NextRun
        /\ point' = [point EXCEPT !["start1"] = NextRun]
     \/ /\ doing = "RA" /\ two
        /\ manual' = "DEC"
        /\ point' = [point EXCEPT !["end1"] = run, !["start2"] = run]
        /\ UNCHANGED run
     \/ /\ doing = "RA" /\ ~two
        /\ manual' = "off" /\ point' = [point EXCEPT !["end1"] = run]
        /\ UNCHANGED run
     \/ /\ doing = "DEC"
        /\ manual' = "off" /\ point' = [point EXCEPT !["end2"] = run]
        /\ UNCHANGED run
  /\ pulse' = base /\ enabled' = TRUE
  /\ UNCHANGED <<frames, text>>

(* The Start button, with the checkboxes b, a manual calibration at doing  *)
(* and the driver's pulses base: too near the edge, manual, or automatic.  *)
StartButton(b, doing, base) ==
  \/ /\ text' = {"+++++"} /\ enabled' = TRUE /\ manual' = doing /\ pulse' = base
     /\ UNCHANGED <<frames, point, run>>
  \/ ~b.auto /\ ManualStep(b.two, doing, base)
  \/ b.auto /\ StartLoop(b.two, base)

CalParamsBeforeClose == box  \* mutant: auto_mode is set before close() writes it back
CalParams == [auto |-> TRUE, two |-> box.two]

(* START_CALIBRATION: close both, auto_mode, show (the boxes are filled    *)
(* from what close() wrote back), and the button.                          *)
StartCalibration ==
  /\ GuiderStops
  /\ visible' = TRUE /\ locked' = TRUE
  /\ saved' = CalParams /\ box' = CalParams
  /\ StartButton(CalParams, "off", CloseEventPulse)

StartAutoguiding ==
  /\ guiding' = TRUE
  /\ visible' = FALSE /\ locked' = TRUE /\ saved' = box
  /\ pulse' = CloseEventPulse
  /\ manual' = "off" /\ enabled' = TRUE
  /\ UNCHANGED <<box, frames, point, run, text>>

StopAutoguiding ==
  /\ guiding' = FALSE /\ locked' = FALSE
  /\ UNCHANGED <<visible, box, saved, enabled, manual, loopVars, text>>

StopCalibration == CloseReticle /\ UNCHANGED guiding

OnRemoteCmd(t, cmd) ==
  /\ <<t, cmd>> \in inbox
  /\ inbox' = inbox \ {<<t, cmd>>}
  /\ CASE cmd = "startCal"   -> StartCalibration
       [] cmd = "stopCal"    -> StopCalibration
       [] cmd = "startGuide" -> StartAutoguiding
       [] cmd = "stopGuide"  -> StopAutoguiding
  /\ UNCHANGED <<pageVars, phpVars, fileVars, count>>

(* The windows under the user's mouse.                                     *)
GuiShow ==
  /\ ~visible /\ ~locked
  /\ visible' = TRUE /\ locked' = TRUE /\ box' = saved
  /\ UNCHANGED <<saved, enabled, manual, loopVars, text>>

GuiClose == visible /\ CloseReticle

GuiToggle ==
  /\ visible /\ enabled /\ manual = "off"
  /\ box' \in {[box EXCEPT !.auto = ~@], [box EXCEPT !.two = ~@]}
  /\ UNCHANGED <<visible, locked, saved, enabled, manual, loopVars, text>>

GuiStart ==
  /\ visible /\ enabled
  /\ StartButton(box, manual, pulse)
  /\ UNCHANGED <<visible, locked, box, saved>>

GuiActs ==
  /\ Gui # "none" /\ UserActs("click", MaxClicks)
  /\ GuiShow \/ GuiClose \/ GuiToggle \/ (Gui = "all" /\ GuiStart)
  /\ UNCHANGED <<pageVars, phpVars, fileVars, inbox, guiding>>

-----------------------------------------------------------------------------
(* The innermost loop, after each processEvents().                         *)

LoopLeaves ==  \* the window is hidden: return without a word
  /\ frames # <<>> /\ ~visible
  /\ frames' = Outer
  /\ UNCHANGED <<point, pulse, run, wndVars, text>>

LegBack(axis) == IF axis = "RA" THEN "raBack" ELSE "decBack"

(* The drift ends a second after its pulse would, or at the sensor's edge. *)
DriftEnds ==
  /\ frames # <<>> /\ visible
  /\ LET f == Inner
         axis == IF f.leg = "raOut" THEN "RA" ELSE "DEC"
     IN /\ f.leg \in {"raOut", "decOut"}
        /\ \E base \in {pulse, Rest} :
             /\ base[axis] # f.id
             /\ pulse' = [base EXCEPT ![axis] = f.id]
        /\ point' = [point EXCEPT ![IF axis = "RA" THEN "end1" ELSE "end2"] = f.id]
        /\ frames' = Append(Outer, [f EXCEPT !.leg = LegBack(axis)])
  /\ UNCHANGED <<run, wndVars, text>>

WarnedNever(f, axis) == {}  \* mutant: auto_term_ok begins as true
Warned(f, axis) ==
  IF f.ok THEN {} ELSE {IF axis = "RA" THEN "RA warning" ELSE "DEC warning"}

WidgetsBack == enabled' = TRUE
LastRemarkMute == {}  \* mutant: an end without +++++
LastRemark == {"+++++"}

(* The way back ends at the start point or after turn_back_time, by which  *)
(* the pulse may not have ended: time() counts whole seconds.  Then the    *)
(* other axis, or the result: either way a line with +++++.                *)
BackEnds ==
  /\ frames # <<>> /\ visible
  /\ \E reached \in BOOLEAN :
       LET axis == IF Inner.leg = "raBack" THEN "RA" ELSE "DEC"
           f    == [Inner EXCEPT !.ok = @ \/ reached]
           home == IF axis = "RA" THEN "RA reached" ELSE "DEC reached"
           said == text \cup (IF reached THEN {home} ELSE {}) \cup Warned(f, axis)
           base == IF reached THEN Rest ELSE pulse
       IN /\ f.leg \in {"raBack", "decBack"}
          /\ \/ /\ f.leg = "raBack" /\ f.two
                /\ frames' = Append(Outer, [f EXCEPT !.leg = "decOut"])
                /\ point' = [point EXCEPT !["start2"] = f.id]
                /\ pulse' = [base EXCEPT !["DEC"] = f.id]
                /\ text' = said \cup {"DEC drifting"}
                /\ UNCHANGED enabled
             \/ /\ f.leg = "decBack" \/ ~f.two
                /\ frames' = Outer
                /\ pulse' = base
                /\ text' = said \cup LastRemark
                /\ WidgetsBack
                /\ UNCHANGED point
  /\ UNCHANGED <<run, visible, locked, box, saved, manual>>

LoopStep ==
  /\ LoopLeaves \/ DriftEnds \/ BackEnds
  /\ UNCHANGED <<pageVars, phpVars, fileVars, inbox, guiding, count>>

(* The driver ends a pulse when its time is over.                          *)
PulseEnds(axis) ==
  /\ pulse[axis] # NoRun
  /\ pulse' = [pulse EXCEPT ![axis] = NoRun]
  /\ UNCHANGED <<pageVars, phpVars, fileVars, text, inbox, guiding, wndVars, frames,
                 point, run, count>>

-----------------------------------------------------------------------------
UserNext == \/ GuiActs
            \/ \E t \in Tab : Load(t) \/ ClickCalibrate(t) \/ ClickGuide(t) \/ ClickStop(t)
TabNext(t) == \/ ReadGuiding(t) \/ ReadCalibrating(t) \/ ReadPhp(t) \/ HandleResponse(t)
              \/ CalibratePhpTest(t) \/ CalibratePhp(t)
              \/ AutoguidePhpTest(t) \/ AutoguidePhp(t) \/ StopPhp(t)
Next ==
  \/ UserNext
  \/ \E t \in Tab : TabNext(t) \/ \E cmd \in Command : OnRemoteCmd(t, cmd)
  \/ LoopStep
  \/ \E axis \in Axis : PulseEnds(axis)

Spec == Init /\ [][Next]_vars

(* Timers fire, handlers and Lin_guider's event loop run, a pulse and a    *)
(* loop's waiting time end.  Users owe nothing.                            *)
Fairness ==
  /\ \A t \in Tab :
       /\ WF_vars(ReadGuiding(t)) /\ WF_vars(ReadCalibrating(t))
       /\ WF_vars(ReadPhp(t)) /\ WF_vars(HandleResponse(t))
       /\ WF_vars(CalibratePhpTest(t) \/ CalibratePhp(t))
       /\ WF_vars(AutoguidePhpTest(t) \/ AutoguidePhp(t)) /\ WF_vars(StopPhp(t))
       /\ \A cmd \in Command : WF_vars(OnRemoteCmd(t, cmd))
  /\ WF_vars(LoopStep)
  /\ \A axis \in Axis : WF_vars(PulseEnds(axis))
FairSpec == Spec /\ Fairness

-----------------------------------------------------------------------------
(* Properties.                                                             *)

(* Every automatic calibration computes with points measured in itself,    *)
(* and comes back to its own start: nested event handling never lets one   *)
(* run overwrite start_x1 .. end_y2 under another.                         *)
OwnPoints == frames # <<>> =>
  LET mine == CASE Inner.leg = "raOut"   -> {"start1"}
                [] Inner.leg = "raBack"  -> {"start1", "end1"}
                [] Inner.leg = "decOut"  -> {"start1", "end1", "start2"}
                [] Inner.leg = "decBack" -> {"start1", "end1", "start2", "end2"}
  IN \A p \in mine : point[p] = Inner.id

(* While a calibration's loop runs with its window shown, status_calibrating *)
(* exists: what calibrate.php tests is true of Lin_guider.                 *)
FlagHonest == (frames # <<>> /\ visible) => statusC

(* A finished report says of the RA axis either that the start point was   *)
(* reached or that it was not.                                             *)
RaReported == ("DEC drifting" \in text \/ ("+++++" \in text /\ text # {"+++++"})) =>
                {"RA reached", "RA warning"} \cap text # {}

(* A calibration started from a page is automatic, whatever the checkboxes *)
(* and the closing of the window wrote back: it loops or says why not.     *)
WebNeverManual == [][\A t \in Tab : <<t, "startCal">> \in inbox \ inbox' =>
                        Len(frames') > Len(frames) \/ text' = {"+++++"}]_vars

(* No calibration pulse goes on after its window is closed, by whichever   *)
(* command or click, and however loops are nested.                         *)
HiddenAtRest == ~visible => pulse = Rest

(* The mount is never driven by the guider and by a calibration at once.   *)
DriveExclusive == guiding => pulse = Rest /\ ~(visible /\ frames # <<>>)

(* When no loop runs a shown window can be started: no path out of a       *)
(* calibration, and no order of commands, leaves the button disabled.      *)
ButtonUsable == frames = <<>> => enabled

(* The page that started a calibration learns its end and lets go: its     *)
(* flag falls, and status_calibrating with it, unless somebody works at    *)
(* Lin_guider's own windows: closing one there writes no last line.        *)
AtTheWindow == count["click"] > 0
PageReleased ==
  /\ \A t \in Tab : flgCalibrating[t] ~> ~flgCalibrating[t] \/ AtTheWindow
  /\ statusC ~> ~statusC \/ AtTheWindow
=============================================================================
