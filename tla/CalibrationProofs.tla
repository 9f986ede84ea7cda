------------------------- MODULE CalibrationProofs -------------------------
(***************************************************************************)
(* What nested event handling cannot break in the calibration window, for  *)
(* every number of tabs, clicks, commands and nested loops, and without    *)
(* the assumption that users are slower than the handlers.  In the second  *)
(* part they are, and nobody starts a calibration at Lin_guider's window:  *)
(* then loops do not nest, and what a loop relies on is its own.           *)
(***************************************************************************)
EXTENDS Calibration, SequenceTheorems, TLAPS

Frame == [id : Nat, two : BOOLEAN, leg : Leg, ok : BOOLEAN]

(* The variables a loop and the check boxes depend on.                     *)
LoopTypeOK ==
  /\ run \in Nat
  /\ box \in Params /\ saved \in Params
  /\ frames \in Seq(Frame)

(* What closeEvent() leaves behind: also under a loop that has not looked  *)
(* yet the button works again, so the loop may simply return.              *)
ClosedUsable == ~visible => enabled

CInv ==
  /\ LoopTypeOK
  /\ HiddenAtRest
  /\ ClosedUsable
  /\ ButtonUsable
-----------------------------------------------------------------------------
(* The stack of loops.                                                     *)

(* Putting a loop on the stack: it is not empty then, and one longer.      *)
LEMMA PushFrame ==
  ASSUME NEW s \in Seq(Frame), NEW f \in Frame
  PROVE  /\ Append(s, f) \in Seq(Frame)
         /\ Append(s, f) # <<>>
         /\ Len(Append(s, f)) > Len(s)
<1>1. /\ Append(s, f) \in Seq(Frame)
      /\ Len(s) \in Nat
      /\ Len(Append(s, f)) = Len(s) + 1
  BY AppendProperties, LenProperties
<1>2. Append(s, f) # <<>>
  BY AppendProperties
<1>3. QED BY <1>1, <1>2

(* The innermost loop and the ones it interrupts.                          *)
LEMMA PopFrame ==
  ASSUME frames \in Seq(Frame), frames # <<>>
  PROVE  Inner \in Frame /\ Outer \in Seq(Frame)
<1>1. Len(frames) \in Nat /\ Len(frames) # 0
  BY LenProperties, EmptySeq
<1>2. Inner \in Frame
  BY <1>1, ElementOfSeq DEF Inner
<1>3. Outer \in Seq(Frame)
  <2>1. /\ 1 \in Int /\ Len(frames) - 1 \in Int
        /\ \A i \in 1..(Len(frames) - 1) : frames[i] \in Frame
    BY <1>1, ElementOfSeq
  <2>2. QED BY <2>1, SubSeqProperties DEF Outer
<1>4. QED BY <1>2, <1>3
-----------------------------------------------------------------------------
(* The commands and clicks.                                                *)

(* The Start button leaves the stack well formed, and the button disabled  *)
(* only if a loop has begun; an automatic start begins one or says why not. *)
LEMMA ButtonLemma ==
  ASSUME LoopTypeOK, NEW b \in Params, NEW doing, NEW base,
         StartButton(b, doing, base)
  PROVE  /\ run' \in Nat /\ frames' \in Seq(Frame)
         /\ frames' = <<>> => enabled'
         /\ b.auto => Len(frames') > Len(frames) \/ text' = {"+++++"}
<1>0. run \in Nat /\ frames \in Seq(Frame) /\ b.auto \in BOOLEAN /\ b.two \in BOOLEAN
  BY DEF LoopTypeOK, Params
<1>1. CASE text' = {"+++++"} /\ enabled' = TRUE /\ UNCHANGED <<frames, point, run>>
  BY <1>0, <1>1
<1>2. CASE ~b.auto /\ ManualStep(b.two, doing, base)
  <2>1. run' \in Nat /\ frames' = frames /\ enabled'
    BY <1>0, <1>2 DEF ManualStep, NextRun
  <2>2. QED BY <2>1, <1>0, <1>2
<1>3. CASE b.auto /\ StartLoop(b.two, base)
  <2> DEFINE f == [id |-> NextRun, two |-> b.two, leg |-> "raOut", ok |-> FALSE]
  <2>1. f \in Frame /\ NextRun \in Nat
    BY <1>0 DEF Frame, Leg, NextRun
  <2>2. frames' = Append(frames, f) /\ run' = NextRun
    BY <1>3 DEF StartLoop
  <2> HIDE DEF f
  <2>3. QED BY <1>0, <2>1, <2>2, PushFrame
<1>4. QED BY <1>1, <1>2, <1>3 DEF StartButton

(* Whatever closes the window stops the mount and frees the button.        *)
LEMMA CloseLemma ==
  ASSUME CInv, CloseReticle
  PROVE  CInv'
BY DEF CInv, LoopTypeOK, HiddenAtRest, ClosedUsable, ButtonUsable, CloseReticle, CloseEventPulse

LEMMA CommandLemma ==
  ASSUME CInv, NEW t \in Tab, NEW cmd \in Command, OnRemoteCmd(t, cmd)
  PROVE  CInv'
<1>1. CASE cmd = "startCal"
  <2>1. StartCalibration
    BY <1>1 DEF OnRemoteCmd
  <2>2. LoopTypeOK /\ CalParams \in Params
    BY DEF CInv, LoopTypeOK, CalParams, Params
  <2>3. run' \in Nat /\ frames' \in Seq(Frame) /\ (frames' = <<>> => enabled')
    <3>1. StartButton(CalParams, "off", CloseEventPulse)
      BY <2>1 DEF StartCalibration
    <3>2. QED BY <2>2, <3>1, ButtonLemma
  <2>4. visible' = TRUE /\ box' \in Params /\ saved' \in Params
    BY <2>1, <2>2 DEF StartCalibration
  <2>5. QED BY <2>3, <2>4 DEF CInv, LoopTypeOK, HiddenAtRest, ClosedUsable, ButtonUsable
<1>2. CASE cmd = "stopCal"
  BY <1>2, CloseLemma DEF OnRemoteCmd, StopCalibration
<1>3. CASE cmd = "startGuide"
  BY <1>3 DEF OnRemoteCmd, StartAutoguiding, CInv, LoopTypeOK, HiddenAtRest, ClosedUsable,
              ButtonUsable, CloseEventPulse
<1>4. CASE cmd = "stopGuide"
  BY <1>4 DEF OnRemoteCmd, StopAutoguiding, loopVars, CInv, LoopTypeOK, HiddenAtRest,
              ClosedUsable, ButtonUsable
<1>5. QED BY <1>1, <1>2, <1>3, <1>4 DEF Command

LEMMA GuiLemma ==
  ASSUME CInv, GuiActs
  PROVE  CInv'
<1>1. CASE GuiShow
  BY <1>1 DEF GuiShow, loopVars, CInv, LoopTypeOK, HiddenAtRest, ClosedUsable, ButtonUsable
<1>2. CASE GuiClose
  BY <1>2, CloseLemma DEF GuiClose
<1>3. CASE GuiToggle
  <2>1. box' \in Params
    BY <1>3 DEF GuiToggle, CInv, LoopTypeOK, Params
  <2>2. QED BY <1>3, <2>1 DEF GuiToggle, loopVars, CInv, LoopTypeOK, HiddenAtRest,
                             ClosedUsable, ButtonUsable
<1>4. CASE GuiStart
  <2>1. LoopTypeOK /\ box \in Params /\ StartButton(box, manual, pulse)
    BY <1>4 DEF CInv, LoopTypeOK, GuiStart
  <2>2. run' \in Nat /\ frames' \in Seq(Frame) /\ (frames' = <<>> => enabled')
    BY <2>1, ButtonLemma
  <2>3. visible /\ UNCHANGED <<visible, box, saved>>
    BY <1>4 DEF GuiStart
  <2>4. QED BY <2>1, <2>2, <2>3 DEF CInv, LoopTypeOK, HiddenAtRest, ClosedUsable, ButtonUsable
<1>5. QED BY <1>1, <1>2, <1>3, <1>4 DEF GuiActs
-----------------------------------------------------------------------------
(* The loops.                                                              *)

LEMMA DriftLemma ==
  ASSUME CInv, DriftEnds
  PROVE  CInv'
<1>1. Inner \in Frame /\ Outer \in Seq(Frame)
  BY PopFrame DEF CInv, LoopTypeOK, DriftEnds
<1>2. PICK axis \in {"RA", "DEC"} : frames' = Append(Outer, [Inner EXCEPT !.leg = LegBack(axis)])
  BY DEF DriftEnds
<1>3. [Inner EXCEPT !.leg = LegBack(axis)] \in Frame
  BY <1>1 DEF Frame, Leg, LegBack
<1>4. frames' \in Seq(Frame) /\ frames' # <<>>
  BY <1>1, <1>2, <1>3, PushFrame
<1>5. QED BY <1>4 DEF DriftEnds, wndVars, CInv, LoopTypeOK, HiddenAtRest, ClosedUsable,
                      ButtonUsable

LEMMA BackLemma ==
  ASSUME CInv, BackEnds
  PROVE  CInv'
<1>1. Inner \in Frame /\ Outer \in Seq(Frame)
  BY PopFrame DEF CInv, LoopTypeOK, BackEnds
<1>2. frames' \in Seq(Frame) /\ (frames' # <<>> \/ enabled')
  <2>1. PICK reached \in BOOLEAN :
          \/ frames' = Append(Outer, [[Inner EXCEPT !.ok = @ \/ reached] EXCEPT !.leg = "decOut"])
          \/ frames' = Outer /\ enabled'
    BY DEF BackEnds, WidgetsBack
  <2>2. [[Inner EXCEPT !.ok = @ \/ reached] EXCEPT !.leg = "decOut"] \in Frame
    BY <1>1 DEF Frame, Leg
  <2>3. QED BY <1>1, <2>1, <2>2, PushFrame
<1>3. visible /\ UNCHANGED <<run, visible, box, saved>>
  BY DEF BackEnds
<1>4. QED BY <1>2, <1>3 DEF CInv, LoopTypeOK, HiddenAtRest, ClosedUsable, ButtonUsable

(* A loop that finds its window hidden: what closed it has tidied up.      *)
LEMMA LeaveLemma ==
  ASSUME CInv, LoopLeaves
  PROVE  CInv'
<1>1. Outer \in Seq(Frame)
  BY PopFrame DEF CInv, LoopTypeOK, LoopLeaves
<1>2. QED BY <1>1 DEF LoopLeaves, wndVars, CInv, LoopTypeOK, HiddenAtRest, ClosedUsable,
                      ButtonUsable

LEMMA PulseLemma ==
  ASSUME CInv, NEW axis \in Axis, PulseEnds(axis)
  PROVE  CInv'
<1>1. pulse # Rest
  BY DEF PulseEnds, Rest
<1>2. QED BY <1>1 DEF PulseEnds, wndVars, CInv, LoopTypeOK, HiddenAtRest, ClosedUsable,
                      ButtonUsable

(* The page and its handlers touch nothing of Lin_guider.                  *)
LEMMA WebLemma ==
  ASSUME CInv, NEW t \in Tab,
         \/ TabNext(t)
         \/ Load(t) \/ ClickCalibrate(t) \/ ClickGuide(t) \/ ClickStop(t)
  PROVE  CInv'
<1>1. UNCHANGED <<wndVars, loopVars>>
  BY DEF TabNext, Load, ClickCalibrate, ClickGuide, ClickStop, PageStop, ReadGuiding,
         ReadCalibrating, ReadPhp, HandleResponse, CalibratePhpTest, CalibratePhp,
         AutoguidePhpTest, AutoguidePhp, StopPhp
<1>2. QED BY <1>1 DEF wndVars, loopVars, CInv, LoopTypeOK, HiddenAtRest, ClosedUsable,
                      ButtonUsable
-----------------------------------------------------------------------------
LEMMA InitLemma == Init => CInv
<1>1. <<>> \in Seq(Frame)
  BY EmptySeq
<1>2. SavedTwo \in BOOLEAN
  BY CalibrationAssumption
<1>3. QED BY <1>1, <1>2 DEF Init, NoRun, Params, CInv, LoopTypeOK, HiddenAtRest, ClosedUsable,
                            ButtonUsable

LEMMA NextLemma == CInv /\ [Next]_vars => CInv'
<1> SUFFICES ASSUME CInv, [Next]_vars PROVE CInv'
  OBVIOUS
<1>1. CASE UserNext
  BY <1>1, GuiLemma, WebLemma DEF UserNext
<1>2. CASE \E t \in Tab : TabNext(t)
  BY <1>2, WebLemma
<1>3. CASE \E t \in Tab, cmd \in Command : OnRemoteCmd(t, cmd)
  BY <1>3, CommandLemma
<1>4. CASE LoopStep
  BY <1>4, LeaveLemma, DriftLemma, BackLemma DEF LoopStep
<1>5. CASE \E axis \in Axis : PulseEnds(axis)
  BY <1>5, PulseLemma
<1>6. CASE UNCHANGED vars
  BY <1>6 DEF vars, wndVars, loopVars, CInv, LoopTypeOK, HiddenAtRest, ClosedUsable,
              ButtonUsable
<1>7. QED BY <1>1, <1>2, <1>3, <1>4, <1>5, <1>6 DEF Next

(* The invariant of the calibration window: no closed window leaves the    *)
(* mount moving or the button dead, however many loops are on the stack.   *)
THEOREM WindowInvariant == Spec => []CInv
BY InitLemma, NextLemma, PTL DEF Spec

(* No pulse of a calibration outlives its window.                          *)
THEOREM HiddenStopsMount == Spec => []HiddenAtRest
<1>1. CInv => HiddenAtRest
  BY DEF CInv
<1>2. QED BY <1>1, WindowInvariant, PTL

(* When the last loop is left the Start button works again.                *)
THEOREM ButtonComesBack == Spec => []ButtonUsable
<1>1. CInv => ButtonUsable
  BY DEF CInv
<1>2. QED BY <1>1, WindowInvariant, PTL

(* A command that leaves the queue of requests has been carried out.       *)
LEMMA TakenLemma ==
  ASSUME [Next]_vars, NEW t \in Tab, <<t, "startCal">> \in inbox \ inbox'
  PROVE  StartCalibration
<1>1. ~UNCHANGED inbox
  OBVIOUS
<1>2. CASE UserNext
  BY <1>1, <1>2 DEF UserNext, GuiActs, Load, ClickCalibrate, ClickGuide, ClickStop, PageStop
<1>3. CASE \E u \in Tab : TabNext(u)
  <2>1. inbox \subseteq inbox'
    BY <1>3 DEF TabNext, PageStop, ReadGuiding, ReadCalibrating, ReadPhp, HandleResponse,
                CalibratePhpTest, CalibratePhp, AutoguidePhpTest, AutoguidePhp, StopPhp,
                StopPhpReticle
  <2>2. QED BY <2>1
<1>4. CASE \E u \in Tab, cmd \in Command : OnRemoteCmd(u, cmd)
  <2>1. PICK u \in Tab, cmd \in Command : OnRemoteCmd(u, cmd)
    BY <1>4
  <2>2. cmd = "startCal"
    BY <2>1 DEF OnRemoteCmd
  <2>3. QED BY <2>1, <2>2 DEF OnRemoteCmd
<1>5. CASE LoopStep
  BY <1>1, <1>5 DEF LoopStep
<1>6. CASE \E axis \in Axis : PulseEnds(axis)
  BY <1>1, <1>6 DEF PulseEnds
<1>7. CASE UNCHANGED vars
  BY <1>1, <1>7 DEF vars
<1>8. QED BY <1>2, <1>3, <1>4, <1>5, <1>6, <1>7 DEF Next

(* A calibration started from a page runs by itself or says why not,       *)
(* whatever the check boxes said before.                                   *)
THEOREM PageCalibratesItself == Spec => WebNeverManual
<1>1. CInv /\ [Next]_vars =>
        [\A t \in Tab : <<t, "startCal">> \in inbox \ inbox' =>
           Len(frames') > Len(frames) \/ text' = {"+++++"}]_vars
  <2> SUFFICES ASSUME CInv, [Next]_vars, NEW t \in Tab, <<t, "startCal">> \in inbox \ inbox'
               PROVE  Len(frames') > Len(frames) \/ text' = {"+++++"}
    OBVIOUS
  <2>1. StartButton(CalParams, "off", CloseEventPulse)
    BY TakenLemma DEF StartCalibration
  <2>2. LoopTypeOK /\ CalParams \in Params /\ CalParams.auto
    BY DEF CInv, LoopTypeOK, CalParams, Params
  <2>3. QED BY <2>1, <2>2, ButtonLemma
<1>2. QED BY <1>1, WindowInvariant, PTL DEF Spec, WebNeverManual
-----------------------------------------------------------------------------
(* With users slower than the handlers: one loop at a time                 *)

(* What the sleeps and timers of the page count on, and nobody starts a    *)
(* calibration at Lin_guider's own window.                                 *)
Orderly == Prompt /\ Gui # "all"

(* The types of what the page and its handlers keep.                       *)
WebTypeOK ==
  /\ asked \in [Tab -> {"none", "guiding?", "calibrating?", "GGGGG", "+++"}]
  /\ start \in [Tab -> {"none", "calibrate", "calibrate!", "guide", "guide!", "guiding"}]
  /\ stop \in [Tab -> {"none", "begin", "guider", "reticle"}]
  /\ inbox \subseteq Tab \X Command
  /\ point \in [{"start1", "end1", "start2", "end2"} -> Nat]

NobodyStops == \A u \in Tab : stop[u] = "none" /\ asked[u] = "none"

(* A start is served before anything else happens at the pages.            *)
Served ==
  /\ \A t, u \in Tab : start[t] # "none" /\ start[u] # "none" => t = u
  /\ \A t \in Tab : start[t] \notin {"none", "guiding"} => inbox = {} /\ NobodyStops
  /\ \A t \in Tab : <<t, "startCal">> \in inbox =>
       inbox = {<<t, "startCal">>} /\ NobodyStops /\ \A u \in Tab : start[u] = "none"

(* calibrate.php's test keeps two loops apart: the file is there as long   *)
(* as a loop's window is shown, and removed behind a hidden one.           *)
OneLoop ==
  /\ FlagHonest
  /\ Len(frames) <= 1
  /\ \A t \in Tab : start[t] = "calibrate" => frames = <<>> \/ statusC
  /\ \A t \in Tab : start[t] = "calibrate!" => frames = <<>>
  /\ \A t \in Tab : <<t, "startCal">> \in inbox => frames = <<>> /\ statusC
  /\ \A t \in Tab : stop[t] = "reticle" /\ <<t, "stopCal">> \notin inbox => ~visible

RaRemark == {"RA reached", "RA warning"}

(* The loop measures for itself, and its report says of RA what it must.   *)
OwnReport(f) ==
  /\ point["start1"] = f.id
  /\ f.leg \in {"raBack", "decOut", "decBack"} => point["end1"] = f.id
  /\ f.leg \in {"decOut", "decBack"} => point["start2"] = f.id /\ RaRemark \cap text # {}
  /\ f.leg = "decBack" => point["end2"] = f.id
  /\ f.leg \in {"raOut", "raBack"} => ~f.ok /\ text = {}

Reports == RaReported /\ (frames # <<>> => OwnReport(frames[1]))

WInv == CInv /\ WebTypeOK /\ Served /\ OneLoop /\ Reports /\ DriveExclusive

(* What a user who acts has waited for.                                    *)
Calm ==
  /\ \A u \in Tab : start[u] = "none" /\ stop[u] = "none" /\ asked[u] = "none"
  /\ inbox = {}
  /\ frames # <<>> => visible

LEMMA UserCalm ==
  ASSUME Orderly, Settled PROVE Calm
BY DEF Orderly, Settled, Calm

(* No start is under way: nothing at the pages can disturb a loop.         *)
NoStart ==
  /\ \A u \in Tab : start[u] \in {"none", "guiding"}
  /\ \A u \in Tab : <<u, "startCal">> \notin inbox

(* Only a page where nothing is being started asks or stops.               *)
LEMMA StopsAlone ==
  ASSUME WInv, NEW t \in Tab, stop[t] # "none" \/ asked[t] # "none"
  PROVE  NoStart
BY DEF WInv, Served, NobodyStops, NoStart

(* Steps of the pages leave Lin_guider alone; what they may do is report.  *)
LEMMA WebOnly ==
  ASSUME WInv, CInv', UNCHANGED <<wndVars, loopVars, guiding, text>>,
         WebTypeOK', Served', OneLoop'
  PROVE  WInv'
<1>1. UNCHANGED <<visible, frames, point, pulse, guiding, text>>
  BY DEF wndVars, loopVars
<1>2. Reports'
  BY <1>1 DEF WInv, Reports, RaReported, OwnReport
<1>3. DriveExclusive'
  BY <1>1 DEF WInv, DriveExclusive
<1> QED BY <1>2, <1>3 DEF WInv

(* Clicks on a page.                                                       *)
LEMMA ClickKeeps ==
  ASSUME Orderly, WInv, NEW t \in Tab, CInv',
         Load(t) \/ ClickCalibrate(t) \/ ClickGuide(t) \/ ClickStop(t)
  PROVE  WInv'
<1>0. Calm /\ WebTypeOK
  BY UserCalm DEF Load, ClickCalibrate, ClickGuide, ClickStop, UserActs, WInv
<1>1. /\ UNCHANGED <<wndVars, loopVars, guiding, text, inbox, statusC>>
      /\ UNCHANGED <<visible, frames, point>>
      /\ asked' = [asked EXCEPT ![t] = "none"]
  BY DEF Load, ClickCalibrate, ClickGuide, ClickStop, PageStop, phpVars, fileVars, wndVars, loopVars
<1>2. /\ start' \in [Tab -> {"none", "calibrate", "calibrate!", "guide", "guide!", "guiding"}]
      /\ stop' \in [Tab -> {"none", "begin", "guider", "reticle"}]
      /\ \A u \in Tab : u # t => start'[u] = "none" /\ stop'[u] = "none"
      /\ \/ start'[t] = "none" /\ stop'[t] \in {"none", "begin"}
         \/ start'[t] \in {"calibrate", "guide"} /\ stop'[t] = "none"
  BY <1>0 DEF Calm, WebTypeOK, Load, ClickCalibrate, ClickGuide, ClickStop, PageStop, phpVars
<1>3. WebTypeOK'
  BY <1>0, <1>1, <1>2 DEF WebTypeOK
<1>4. \A u \in Tab : asked'[u] = "none"
  BY <1>0, <1>1 DEF Calm, WebTypeOK
<1>5. Served'
  BY <1>0, <1>1, <1>2, <1>4 DEF Calm, Served, NobodyStops
<1>6. OneLoop'
  BY <1>0, <1>1, <1>2 DEF Calm, WInv, OneLoop, FlagHonest
<1> QED BY <1>1, <1>3, <1>5, <1>6, WebOnly

(* Status requests, their answers, and the stop an answer leads to.        *)
LEMMA AskKeeps ==
  ASSUME Orderly, WInv, NEW t \in Tab, CInv',
         ReadGuiding(t) \/ ReadCalibrating(t) \/ ReadPhp(t) \/ HandleResponse(t)
  PROVE  WInv'
<1>0. NoStart /\ WebTypeOK
  <2>1. CASE ReadGuiding(t) \/ ReadCalibrating(t)
    BY <2>1 DEF ReadGuiding, ReadCalibrating, InTime, Orderly, NoStart, WInv
  <2>2. CASE ReadPhp(t) \/ HandleResponse(t)
    BY <2>2, StopsAlone DEF ReadPhp, HandleResponse, WInv
  <2> QED BY <2>1, <2>2
<1>1. /\ UNCHANGED <<wndVars, loopVars, guiding, text, inbox, statusC>>
      /\ UNCHANGED <<visible, frames, point, start>>
  BY DEF ReadGuiding, ReadCalibrating, ReadPhp, HandleResponse, PageStop, phpVars, fileVars,
         wndVars, loopVars
<1>2. asked' \in [Tab -> {"none", "guiding?", "calibrating?", "GGGGG", "+++"}]
  BY <1>0 DEF WebTypeOK, ReadGuiding, ReadCalibrating, ReadPhp, HandleResponse, PageStop
<1>3. stop' = stop \/ stop' = [stop EXCEPT ![t] = "begin"]
  BY DEF ReadGuiding, ReadCalibrating, ReadPhp, HandleResponse, PageStop, phpVars
<1>4. WebTypeOK'
  BY <1>0, <1>1, <1>2, <1>3 DEF WebTypeOK
<1>5. Served'
  BY <1>0, <1>1 DEF NoStart, WInv, Served
<1>6. OneLoop'
  <2>1. \A u \in Tab : stop'[u] = "reticle" => stop[u] = "reticle"
    BY <1>0, <1>3 DEF WebTypeOK
  <2> QED BY <1>0, <1>1, <2>1 DEF NoStart, WInv, OneLoop, FlagHonest
<1> QED BY <1>1, <1>4, <1>5, <1>6, WebOnly

(* calibrate.php and autoguide.php.                                        *)
LEMMA StartKeeps ==
  ASSUME WInv, NEW t \in Tab, CInv',
         CalibratePhpTest(t) \/ CalibratePhp(t) \/ AutoguidePhpTest(t) \/ AutoguidePhp(t)
  PROVE  WInv'
<1>0. /\ WebTypeOK /\ start[t] # "none" /\ \A u \in Tab : u # t => start[u] = "none"
      /\ UNCHANGED <<stop, asked>>
  BY DEF CalibratePhpTest, CalibratePhp, AutoguidePhpTest, AutoguidePhp, pageVars, WInv, Served
<1>1. UNCHANGED <<wndVars, loopVars, guiding, visible, frames, point, pulse>>
  BY DEF CalibratePhpTest, CalibratePhp, AutoguidePhpTest, AutoguidePhp, wndVars, loopVars
<1>2. start[t] # "guiding" => inbox = {} /\ NobodyStops
  BY <1>0 DEF WInv, Served
<1>3. \A u \in Tab : <<u, "startCal">> \notin inbox
  BY <1>0 DEF WInv, Served
<1>4. CASE CalibratePhpTest(t)
  <2>1. UNCHANGED <<inbox, text, statusC>>
    BY <1>4 DEF CalibratePhpTest, fileVars
  <2>2. /\ start[t] = "calibrate"
        /\ \/ ~statusC /\ start' = [start EXCEPT ![t] = "calibrate!"]
           \/ start' = [start EXCEPT ![t] = "none"]
    BY <1>4 DEF CalibratePhpTest, StatusCFree
  <2>3. WebTypeOK'
    BY <1>0, <1>1, <2>1, <2>2 DEF WebTypeOK
  <2>4. /\ \A u \in Tab : u # t => start'[u] = "none"
        /\ start'[t] = "none" \/ (start'[t] = "calibrate!" /\ ~statusC)
    BY <1>0, <2>2 DEF WebTypeOK
  <2>5. Served'
    BY <1>0, <1>2, <1>3, <2>1, <2>2, <2>4 DEF Served, NobodyStops
  <2>6. OneLoop'
    BY <1>0, <1>1, <1>3, <2>1, <2>2, <2>4 DEF WInv, OneLoop, FlagHonest
  <2> QED BY <1>1, <2>1, <2>3, <2>5, <2>6, WebOnly
<1>5. CASE CalibratePhp(t)
  <2>1. /\ start[t] = "calibrate!" /\ statusC' /\ text' = {}
        /\ inbox' = inbox \cup {<<t, "startCal">>} /\ start' = [start EXCEPT ![t] = "none"]
    BY <1>5 DEF CalibratePhp
  <2>2. inbox' = {<<t, "startCal">>} /\ frames = <<>>
    BY <1>2, <2>1 DEF WInv, OneLoop
  <2>3. WebTypeOK'
    BY <1>0, <1>1, <2>1, <2>2 DEF WebTypeOK, Command
  <2>4. \A u \in Tab : start'[u] = "none"
    BY <1>0, <2>1 DEF WebTypeOK
  <2>5. Served'
    BY <1>0, <1>2, <2>1, <2>2, <2>4 DEF Served, NobodyStops
  <2>6. OneLoop'
    BY <1>0, <1>1, <1>2, <2>1, <2>2, <2>4 DEF WInv, OneLoop, FlagHonest, NobodyStops
  <2>7. Reports' /\ DriveExclusive'
    BY <1>1, <2>1, <2>2 DEF WInv, Reports, RaReported, DriveExclusive
  <2> QED BY <2>3, <2>5, <2>6, <2>7 DEF WInv
<1>6. CASE AutoguidePhpTest(t) \/ AutoguidePhp(t)
  <2>1. /\ UNCHANGED <<text, statusC>>
        /\ inbox' = inbox \/ (start[t] = "guide!" /\ inbox' = inbox \cup {<<t, "startGuide">>})
        /\ start[t] \in {"guide", "guide!", "guiding"}
        /\ \E pc \in {"none", "guide!", "guiding"} : start' = [start EXCEPT ![t] = pc]
        /\ start[t] # "guide" => \E pc \in {"none", "guiding"} : start' = [start EXCEPT ![t] = pc]
    BY <1>6 DEF AutoguidePhpTest, AutoguidePhp, fileVars
  <2>2. WebTypeOK'
    BY <1>0, <1>1, <2>1 DEF WebTypeOK, Command
  <2>3. /\ \A u \in Tab : u # t => start'[u] = "none"
        /\ start'[t] \in {"none", "guide!", "guiding"}
        /\ start[t] # "guide" => start'[t] \in {"none", "guiding"}
    BY <1>0, <2>1 DEF WebTypeOK
  <2>4. \A u \in Tab : <<u, "startCal">> \notin inbox'
    <3>1. inbox' \subseteq inbox \cup {<<t, "startGuide">>}
      BY <2>1
    <3>2. \A u \in Tab : <<u, "startCal">> # <<t, "startGuide">>
      OBVIOUS
    <3> QED BY <1>3, <3>1, <3>2
  <2>5. start[t] = "guide" => inbox' = {} /\ NobodyStops
    BY <1>2, <2>1
  <2>6. Served'
    BY <1>0, <2>1, <2>3, <2>4, <2>5 DEF Served, NobodyStops
  <2>7. OneLoop'
    <3>1. \A u \in Tab : <<u, "stopCal">> \in inbox => <<u, "stopCal">> \in inbox'
      BY <2>1
    <3> QED BY <1>0, <1>1, <2>1, <2>3, <2>4, <3>1 DEF WInv, OneLoop, FlagHonest
  <2> QED BY <1>1, <2>1, <2>2, <2>6, <2>7, WebOnly
<1> QED BY <1>4, <1>5, <1>6

(* stop.php removes status_calibrating behind a hidden window.             *)
LEMMA StopKeeps ==
  ASSUME WInv, NEW t \in Tab, CInv', StopPhp(t)
  PROVE  WInv'
<1>0. NoStart /\ WebTypeOK
  BY StopsAlone DEF StopPhp, StopPhpReticle, WInv
<1>1. /\ UNCHANGED <<wndVars, loopVars, guiding, text, visible, frames, point, start, asked>>
      /\ inbox \subseteq inbox' /\ \A u \in Tab : <<u, "startCal">> \notin inbox'
  BY <1>0 DEF StopPhp, StopPhpReticle, pageVars, wndVars, loopVars, NoStart
<1>2. Served'
  BY <1>0, <1>1 DEF NoStart, WInv, Served
<1>3. CASE stop[t] = "begin" /\ inbox' = inbox \cup {<<t, "stopGuide">>}
           /\ stop' = [stop EXCEPT ![t] = "guider"] /\ UNCHANGED fileVars
  <2>1. WebTypeOK'
    BY <1>0, <1>1, <1>3 DEF WebTypeOK, Command
  <2>2. \A u \in Tab : stop'[u] = "reticle" => stop[u] = "reticle"
    BY <1>0, <1>3 DEF WebTypeOK
  <2>3. OneLoop'
    BY <1>0, <1>1, <1>3, <2>2 DEF NoStart, WInv, OneLoop, FlagHonest, fileVars
  <2> QED BY <1>1, <1>2, <2>1, <2>3, WebOnly
<1>4. CASE StopPhpReticle(t)
  <2>1. /\ inbox' = inbox \cup {<<t, "stopCal">>} /\ stop' = [stop EXCEPT ![t] = "reticle"]
        /\ UNCHANGED statusC
    BY <1>4 DEF StopPhpReticle, fileVars
  <2>2. WebTypeOK'
    BY <1>0, <1>1, <2>1 DEF WebTypeOK, Command
  <2>3. \A u \in Tab : u # t => stop'[u] = stop[u]
    BY <1>0, <2>1 DEF WebTypeOK
  <2>4. OneLoop'
    BY <1>0, <1>1, <2>1, <2>3 DEF NoStart, WInv, OneLoop, FlagHonest
  <2> QED BY <1>1, <1>2, <2>2, <2>4, WebOnly
<1>5. CASE stop[t] = "reticle" /\ <<t, "stopCal">> \notin inbox /\ RemoveFlags
           /\ stop' = [stop EXCEPT ![t] = "none"] /\ inbox' = inbox
  <2>1. ~visible
    BY <1>5 DEF WInv, OneLoop
  <2>2. WebTypeOK'
    BY <1>0, <1>1, <1>5 DEF WebTypeOK
  <2>3. OneLoop'
    BY <1>0, <1>1, <2>1 DEF NoStart, WInv, OneLoop, FlagHonest
  <2> QED BY <1>1, <1>2, <2>2, <2>3, WebOnly
<1> QED BY <1>3, <1>4, <1>5 DEF StopPhp
(* A stack of one loop.                                                    *)
LEMMA OneFrame ==
  ASSUME frames \in Seq(Frame), Len(frames) <= 1, frames # <<>>
  PROVE  Len(frames) = 1 /\ Inner = frames[1] /\ Inner \in Frame /\ Outer = <<>>
<1>1. Len(frames) \in Nat /\ Len(frames) # 0
  BY LenProperties, EmptySeq
<1>2. Len(frames) = 1
  <2>1. \A n \in Nat : n # 0 /\ n <= 1 => n = 1
    OBVIOUS
  <2> QED BY <1>1, <2>1, Zenon
<1>3. Inner = frames[1] /\ Inner \in Frame
  BY <1>2, PopFrame DEF Inner
<1>4. Outer = <<>>
  <2>1. Len(Outer) = 0 /\ Outer \in Seq(Frame)
    BY <1>2, PopFrame DEF Outer
  <2> QED BY <2>1, EmptySeq
<1> QED BY <1>2, <1>3, <1>4

LEMMA Single ==
  ASSUME NEW f \in Frame
  PROVE  /\ Append(<<>>, f) # <<>> /\ Len(Append(<<>>, f)) = 1
         /\ Append(<<>>, f)[1] = f
<1>1. <<>> \in Seq(Frame)
  BY EmptySeq
<1> QED BY <1>1, AppendProperties, LenProperties

(* A command is handled when no other is under way that starts a loop.     *)
LEMMA CommandServed ==
  ASSUME WInv, NEW t \in Tab, NEW cmd \in Command, OnRemoteCmd(t, cmd)
  PROVE  /\ NoStart' /\ Served' /\ UNCHANGED <<start, stop, asked, statusC>>
         /\ inbox' \subseteq inbox
<1>1. /\ <<t, cmd>> \in inbox /\ inbox' = inbox \ {<<t, cmd>>}
      /\ UNCHANGED <<start, stop, asked, statusC>>
  BY DEF OnRemoteCmd, pageVars, phpVars, fileVars
<1>2. \A u \in Tab : start[u] \in {"none", "guiding"}
  BY <1>1 DEF WInv, Served
<1>3. \A u \in Tab : <<u, "startCal">> \notin inbox'
  BY <1>1 DEF WInv, Served
<1> QED BY <1>1, <1>2, <1>3 DEF NoStart, WInv, Served

(* START_CALIBRATION finds no loop, so the one it begins is alone.         *)
LEMMA CalibrationKeeps ==
  ASSUME WInv, NEW t \in Tab, OnRemoteCmd(t, "startCal"), CInv'
  PROVE  WInv'
<1>0. /\ NoStart' /\ Served' /\ UNCHANGED <<start, stop, asked, statusC>> /\ inbox' \subseteq inbox
      /\ <<t, "startCal">> \in inbox /\ StartCalibration
  BY CommandServed DEF OnRemoteCmd, Command
<1>1. frames = <<>> /\ statusC /\ NobodyStops
  BY <1>0 DEF WInv, OneLoop, Served
<1>2. ~guiding'
  BY <1>0 DEF StartCalibration, GuiderStops
<1>3. \/ text' = {"+++++"} /\ UNCHANGED <<frames, point>>
      \/ StartLoop(CalParams.two, CloseEventPulse)
  BY <1>0 DEF StartCalibration, StartButton, CalParams
<1>4. CASE text' = {"+++++"} /\ UNCHANGED <<frames, point>>
  <2>1. WebTypeOK'
    BY <1>0, <1>4 DEF WInv, WebTypeOK
  <2>2. OneLoop'
    BY <1>0, <1>1, <1>4 DEF WInv, OneLoop, FlagHonest, NobodyStops, NoStart
  <2>3. Reports' /\ DriveExclusive'
    BY <1>1, <1>2, <1>4 DEF Reports, RaReported, DriveExclusive
  <2> QED BY <1>0, <2>1, <2>2, <2>3 DEF WInv
<1>5. CASE StartLoop(CalParams.two, CloseEventPulse)
  <2>1. PICK f \in Frame :
          f = [id |-> NextRun, two |-> CalParams.two, leg |-> "raOut", ok |-> FALSE]
    <3>1. [id |-> NextRun, two |-> CalParams.two, leg |-> "raOut", ok |-> FALSE] \in Frame
      BY DEF Frame, Leg, NextRun, WInv, CInv, LoopTypeOK, CalParams, Params
    <3> QED BY <3>1, Zenon
  <2>2. frames' = Append(<<>>, f) /\ text' = {} /\ point' = [point EXCEPT !["start1"] = NextRun]
    BY <1>1, <1>5, <2>1 DEF StartLoop
  <2>3. f.id = NextRun /\ f.leg = "raOut" /\ f.ok = FALSE /\ NextRun \in Nat
    BY <2>1 DEF Frame
  <2>4. frames' # <<>> /\ Len(frames') = 1 /\ frames'[1] = f
    BY <2>1, <2>2, Single
  <2>5. WebTypeOK' /\ point'["start1"] = f.id
    BY <1>0, <2>1, <2>2, <2>3 DEF WInv, WebTypeOK
  <2>6. OneLoop'
    BY <1>0, <1>1, <2>4 DEF WInv, OneLoop, FlagHonest, NobodyStops, NoStart
  <2>7. OwnReport(f)'
    BY <2>2, <2>3, <2>5 DEF OwnReport
  <2>8. Reports'
    BY <2>2, <2>4, <2>7 DEF Reports, RaReported, OwnReport
  <2> QED BY <1>0, <1>2, <2>5, <2>6, <2>8 DEF WInv, DriveExclusive
<1> QED BY <1>3, <1>4, <1>5

(* What closes or leaves windows keeps the loop for what it is.            *)
LEMMA WindowKeeps ==
  ASSUME WInv, CInv', UNCHANGED <<frames, point, text, statusC>>, WebTypeOK', Served',
         visible' => visible \/ frames = <<>>,
         guiding' => pulse' = Rest /\ ~(visible' /\ frames # <<>>),
         \A t \in Tab : start'[t] \in {"calibrate", "calibrate!"} => start'[t] = start[t],
         \A t \in Tab : <<t, "startCal">> \in inbox' => <<t, "startCal">> \in inbox,
         \A t \in Tab : stop'[t] = "reticle" /\ <<t, "stopCal">> \notin inbox' => ~visible'
  PROVE  WInv'
<1>1. OneLoop'
  BY DEF WInv, OneLoop, FlagHonest
<1>2. Reports'
  BY DEF WInv, Reports, RaReported, OwnReport
<1>3. DriveExclusive'
  BY DEF DriveExclusive
<1> QED BY <1>1, <1>2, <1>3 DEF WInv

(* The other commands.                                                     *)
LEMMA CommandKeeps ==
  ASSUME WInv, NEW t \in Tab, NEW cmd \in Command \ {"startCal"}, OnRemoteCmd(t, cmd), CInv'
  PROVE  WInv'
<1>0. /\ Served' /\ UNCHANGED <<start, stop, asked, statusC>> /\ inbox' = inbox \ {<<t, cmd>>}
  BY CommandServed DEF OnRemoteCmd
<1>1. UNCHANGED <<frames, point, text>>
  BY DEF OnRemoteCmd, StopCalibration, StartAutoguiding, StopAutoguiding, CloseReticle, loopVars,
         Command
<1>2. WebTypeOK'
  BY <1>0, <1>1 DEF WInv, WebTypeOK
<1>3. CASE cmd \in {"stopCal", "startGuide"}
  <2>1. ~visible' /\ pulse' = Rest
    BY <1>3 DEF OnRemoteCmd, StopCalibration, StartAutoguiding, CloseReticle, CloseEventPulse
  <2> QED BY <1>0, <1>1, <1>2, <2>1, WindowKeeps
<1>4. CASE cmd = "stopGuide"
  <2>1. ~guiding' /\ visible' = visible
    BY <1>4 DEF OnRemoteCmd, StopAutoguiding
  <2>2. \A u \in Tab : <<u, "stopCal">> \in inbox => <<u, "stopCal">> \in inbox'
    BY <1>0, <1>4
  <2> QED BY <1>0, <1>1, <1>2, <2>1, <2>2, WindowKeeps DEF WInv, OneLoop
<1> QED BY <1>3, <1>4 DEF Command

(* The check boxes and the windows under the mouse.                        *)
LEMMA MouseKeeps ==
  ASSUME Orderly, WInv, GuiActs, CInv'
  PROVE  WInv'
<1>0. /\ Calm /\ UNCHANGED <<start, stop, asked, statusC, inbox, guiding>>
      /\ GuiShow \/ GuiClose \/ GuiToggle
  BY UserCalm DEF GuiActs, UserActs, Orderly, pageVars, phpVars, fileVars
<1>1. UNCHANGED <<frames, point, text>>
  BY <1>0 DEF GuiShow, GuiClose, GuiToggle, CloseReticle, loopVars
<1>2. WebTypeOK' /\ Served'
  BY <1>0, <1>1 DEF WInv, WebTypeOK, Served, NobodyStops
<1>3. \/ frames = <<>> /\ pulse' = pulse
      \/ ~visible' /\ pulse' = Rest
      \/ visible' = visible /\ pulse' = pulse
  BY <1>0 DEF Calm, GuiShow, GuiClose, GuiToggle, CloseReticle, CloseEventPulse, loopVars
<1>4. guiding' => pulse' = Rest /\ ~(visible' /\ frames # <<>>)
  BY <1>0, <1>3 DEF WInv, DriveExclusive
<1> QED BY <1>0, <1>1, <1>2, <1>3, <1>4, WindowKeeps DEF Calm

(* A loop goes on to its next leg.                                         *)
LEMMA NextLeg ==
  ASSUME WInv, CInv', NEW g \in Frame, frames # <<>>, visible, frames' = Append(Outer, g),
         UNCHANGED <<visible, guiding, start, stop, asked, inbox, statusC>>,
         point' \in [{"start1", "end1", "start2", "end2"} -> Nat],
         RaReported', OwnReport(g)'
  PROVE  WInv'
<1>1. frames' # <<>> /\ Len(frames') = 1 /\ frames'[1] = g
  BY OneFrame, Single DEF WInv, CInv, LoopTypeOK, OneLoop
<1>2. WebTypeOK' /\ Served'
  BY DEF WInv, WebTypeOK, Served, NobodyStops
<1>3. OneLoop'
  BY <1>1 DEF WInv, OneLoop, FlagHonest
<1>4. Reports'
  BY <1>1 DEF Reports, OwnReport
<1>5. DriveExclusive'
  BY DEF WInv, DriveExclusive
<1> QED BY <1>2, <1>3, <1>4, <1>5 DEF WInv

(* A loop is left.                                                         *)
LEMMA LastLeg ==
  ASSUME WInv, CInv', frames # <<>>, frames' = Outer, RaReported',
         UNCHANGED <<visible, guiding, start, stop, asked, inbox, statusC, point>>,
         guiding => pulse' = Rest
  PROVE  WInv'
<1>1. frames' = <<>>
  BY OneFrame DEF WInv, CInv, LoopTypeOK, OneLoop
<1>2. WebTypeOK' /\ Served'
  BY DEF WInv, WebTypeOK, Served, NobodyStops
<1>3. OneLoop'
  <2>1. Len(frames') = 0
    BY <1>1, EmptySeq
  <2> QED BY <1>1, <2>1 DEF WInv, OneLoop, FlagHonest
<1>4. Reports' /\ DriveExclusive'
  BY <1>1 DEF Reports, DriveExclusive
<1> QED BY <1>2, <1>3, <1>4 DEF WInv
(* A loop's own step: it keeps to its points, and says what it must.       *)
LEMMA DriftKeeps ==
  ASSUME WInv, DriftEnds, CInv', UNCHANGED <<start, stop, asked, inbox, statusC, guiding>>
  PROVE  WInv'
<1>0. /\ Inner \in Frame /\ Inner = frames[1] /\ frames # <<>> /\ visible
      /\ OwnReport(Inner) /\ RaReported /\ UNCHANGED <<visible, text>>
      /\ point \in [{"start1", "end1", "start2", "end2"} -> Nat]
  BY OneFrame DEF WInv, CInv, LoopTypeOK, OneLoop, Reports, DriftEnds, wndVars, WebTypeOK
<1>1. PICK id \in Nat, two \in BOOLEAN, leg \in Leg, ok \in BOOLEAN :
        Inner.id = id /\ Inner.two = two /\ Inner.leg = leg /\ Inner.ok = ok
  BY <1>0 DEF Frame
<1>2. CASE leg = "raOut"
  <2>1. PICK g \in Frame : /\ g = [id |-> id, two |-> two, leg |-> "raBack", ok |-> ok]
                           /\ frames' = Append(Outer, g) /\ point' = [point EXCEPT !["end1"] = id]
    <3>1. /\ frames' = Append(Outer, [Inner EXCEPT !.leg = "raBack"])
          /\ point' = [point EXCEPT !["end1"] = id]
      BY <1>1, <1>2 DEF DriftEnds, LegBack
    <3>2. [Inner EXCEPT !.leg = "raBack"] = [id |-> id, two |-> two, leg |-> "raBack", ok |-> ok]
      BY <1>0, <1>1 DEF Frame
    <3>3. [id |-> id, two |-> two, leg |-> "raBack", ok |-> ok] \in Frame
      BY DEF Frame, Leg
    <3> QED BY <3>1, <3>2, <3>3, Zenon
  <2>2. /\ point' \in [{"start1", "end1", "start2", "end2"} -> Nat]
        /\ point'["end1"] = id /\ point'["start1"] = point["start1"]
    BY <1>0, <2>1
  <2>3. OwnReport(g)' /\ RaReported'
    BY <1>0, <1>1, <1>2, <2>1, <2>2 DEF OwnReport, RaReported
  <2> QED BY <1>0, <2>1, <2>2, <2>3, NextLeg
<1>3. CASE leg = "decOut"
  <2>1. PICK g \in Frame : /\ g = [id |-> id, two |-> two, leg |-> "decBack", ok |-> ok]
                           /\ frames' = Append(Outer, g) /\ point' = [point EXCEPT !["end2"] = id]
    <3>1. /\ frames' = Append(Outer, [Inner EXCEPT !.leg = "decBack"])
          /\ point' = [point EXCEPT !["end2"] = id]
      BY <1>1, <1>3 DEF DriftEnds, LegBack
    <3>2. [Inner EXCEPT !.leg = "decBack"] = [id |-> id, two |-> two, leg |-> "decBack", ok |-> ok]
      BY <1>0, <1>1 DEF Frame
    <3>3. [id |-> id, two |-> two, leg |-> "decBack", ok |-> ok] \in Frame
      BY DEF Frame, Leg
    <3> QED BY <3>1, <3>2, <3>3, Zenon
  <2>2. /\ point' \in [{"start1", "end1", "start2", "end2"} -> Nat]
        /\ point'["end2"] = id
        /\ \A p \in {"start1", "end1", "start2"} : point'[p] = point[p]
    BY <1>0, <2>1
  <2>3. OwnReport(g)' /\ RaReported'
    BY <1>0, <1>1, <1>3, <2>1, <2>2 DEF OwnReport, RaReported
  <2> QED BY <1>0, <2>1, <2>2, <2>3, NextLeg
<1> QED BY <1>1, <1>2, <1>3 DEF DriftEnds

LEMMA BackKeeps ==
  ASSUME WInv, BackEnds, CInv', UNCHANGED <<start, stop, asked, inbox, statusC, guiding>>
  PROVE  WInv'
<1>0. /\ Inner \in Frame /\ Inner = frames[1] /\ frames # <<>> /\ visible /\ ~guiding
      /\ OwnReport(Inner) /\ RaReported /\ UNCHANGED visible
      /\ point \in [{"start1", "end1", "start2", "end2"} -> Nat]
  BY OneFrame DEF WInv, CInv, LoopTypeOK, OneLoop, Reports, BackEnds, WebTypeOK, DriveExclusive
<1>1. PICK id \in Nat, two \in BOOLEAN, leg \in Leg, ok \in BOOLEAN :
        Inner.id = id /\ Inner.two = two /\ Inner.leg = leg /\ Inner.ok = ok
  BY <1>0 DEF Frame
<1>2. PICK reached \in BOOLEAN :
        LET axis == IF Inner.leg = "raBack" THEN "RA" ELSE "DEC"
            f    == [Inner EXCEPT !.ok = @ \/ reached]
            home == IF axis = "RA" THEN "RA reached" ELSE "DEC reached"
            said == text \cup (IF reached THEN {home} ELSE {}) \cup Warned(f, axis)
        IN  /\ f.leg \in {"raBack", "decBack"}
            /\ \/ /\ f.leg = "raBack" /\ f.two
                  /\ frames' = Append(Outer, [f EXCEPT !.leg = "decOut"])
                  /\ point' = [point EXCEPT !["start2"] = f.id]
                  /\ text' = said \cup {"DEC drifting"}
               \/ /\ f.leg = "decBack" \/ ~f.two
                  /\ frames' = Outer
                  /\ text' = said \cup LastRemark
                  /\ UNCHANGED point
  BY DEF BackEnds
<1>3. PICK f \in Frame : /\ f = [id |-> id, two |-> two, leg |-> leg, ok |-> ok \/ reached]
                         /\ f = [Inner EXCEPT !.ok = @ \/ reached]
  <2>1. [Inner EXCEPT !.ok = @ \/ reached] =
          [id |-> id, two |-> two, leg |-> leg, ok |-> ok \/ reached]
    BY <1>0, <1>1 DEF Frame
  <2>2. [id |-> id, two |-> two, leg |-> leg, ok |-> ok \/ reached] \in Frame
    BY DEF Frame
  <2> QED BY <2>1, <2>2, Zenon
<1>4. f.id = id /\ f.two = two /\ f.leg = leg /\ f.ok = (ok \/ reached)
  BY <1>3
<1>5. /\ leg \in {"raBack", "decBack"} /\ text \subseteq text'
      /\ leg = "raBack" => RaRemark \cap text' # {}
  <2>1. leg = "raBack" => ~ok
    BY <1>0, <1>1 DEF OwnReport
  <2>2. leg \in {"raBack", "decBack"} /\ text \subseteq text'
    BY <1>2, <1>3, <1>4
  <2>3. ASSUME leg = "raBack" PROVE "RA reached" \in text' \/ "RA warning" \in text'
    <3>1. CASE reached
      BY <1>1, <1>2, <2>3, <3>1
    <3>2. CASE ~reached
      <4>1. Warned(f, "RA") = {"RA warning"}
        BY <1>4, <2>1, <2>3, <3>2 DEF Warned
      <4> QED BY <1>1, <1>2, <1>3, <2>3, <4>1
    <3> QED BY <3>1, <3>2
  <2> QED BY <2>2, <2>3 DEF RaRemark
<1>6. RaRemark \cap text' # {}
  <2>1. leg = "decBack" => RaRemark \cap text # {}
    BY <1>0, <1>1 DEF OwnReport
  <2> QED BY <1>5, <2>1
<1>7. RaReported'
  BY <1>6 DEF RaReported, RaRemark
<1>8. CASE leg = "raBack" /\ frames' = Append(Outer, [f EXCEPT !.leg = "decOut"])
           /\ point' = [point EXCEPT !["start2"] = f.id]
  <2>1. PICK g \in Frame : /\ g = [id |-> id, two |-> two, leg |-> "decOut", ok |-> ok \/ reached]
                           /\ frames' = Append(Outer, g)
    <3>1. [f EXCEPT !.leg = "decOut"] =
            [id |-> id, two |-> two, leg |-> "decOut", ok |-> ok \/ reached]
      BY <1>3
    <3>2. [id |-> id, two |-> two, leg |-> "decOut", ok |-> ok \/ reached] \in Frame
      BY DEF Frame, Leg
    <3> QED BY <1>8, <3>1, <3>2, Zenon
  <2>2. /\ point' \in [{"start1", "end1", "start2", "end2"} -> Nat]
        /\ point'["start2"] = id
        /\ \A p \in {"start1", "end1", "end2"} : point'[p] = point[p]
    BY <1>0, <1>4, <1>8
  <2>3. OwnReport(g)'
    BY <1>0, <1>1, <1>6, <1>8, <2>1, <2>2 DEF OwnReport
  <2> QED BY <1>0, <1>7, <2>1, <2>2, <2>3, NextLeg
<1>9. CASE frames' = Outer /\ UNCHANGED point
  BY <1>0, <1>7, <1>9, LastLeg
<1> QED BY <1>2, <1>3, <1>4, <1>8, <1>9

LEMMA LoopKeeps ==
  ASSUME WInv, LoopStep \/ (\E axis \in Axis : PulseEnds(axis)) \/ UNCHANGED vars, CInv'
  PROVE  WInv'
<1>1. CASE LoopStep
  <2>1. UNCHANGED <<start, stop, asked, inbox, statusC, guiding>>
    BY <1>1 DEF LoopStep, pageVars, phpVars, fileVars
  <2>2. CASE LoopLeaves
    <3>1. frames # <<>> /\ frames' = Outer /\ UNCHANGED <<visible, point, pulse, text>>
      BY <2>2 DEF LoopLeaves, wndVars
    <3> QED BY <2>1, <3>1, LastLeg DEF WInv, Reports, RaReported, DriveExclusive
  <2> QED BY <1>1, <2>1, <2>2, DriftKeeps, BackKeeps DEF LoopStep
<1>2. ASSUME NEW axis \in Axis, PulseEnds(axis) PROVE WInv'
  <2>1. /\ UNCHANGED <<visible, frames, point, text, statusC, guiding, start, stop, asked, inbox>>
        /\ pulse # Rest
    BY <1>2 DEF PulseEnds, Rest, pageVars, phpVars, fileVars, wndVars
  <2>2. WebTypeOK' /\ Served'
    BY <2>1 DEF WInv, WebTypeOK, Served, NobodyStops
  <2> QED BY <2>1, <2>2, WindowKeeps DEF WInv, DriveExclusive, OneLoop
<1>3. CASE UNCHANGED vars
  <2>1. UNCHANGED <<visible, frames, point, pulse, text, statusC, guiding, start, stop, asked,
                    inbox>>
    BY <1>3 DEF vars, pageVars, phpVars, fileVars, wndVars, loopVars
  <2>2. WebTypeOK' /\ Served'
    BY <2>1 DEF WInv, WebTypeOK, Served, NobodyStops
  <2> QED BY <2>1, <2>2, WindowKeeps DEF WInv, DriveExclusive, OneLoop
<1> QED BY <1>1, <1>2, <1>3

(* With users slower than the handlers there is one loop at a time, under  *)
(* its file, however many tabs, commands and stops meet.                   *)
THEOREM WebInvariant == Orderly => (Spec => []WInv)
<1> SUFFICES ASSUME Orderly PROVE Spec => []WInv
  OBVIOUS
<1>1. Init => WInv
  <2> SUFFICES ASSUME Init PROVE WInv
    OBVIOUS
  <2>1. CInv /\ Len(frames) = 0 /\ frames = <<>> /\ ~guiding /\ text = {}
    BY InitLemma, EmptySeq DEF Init
  <2>2. WebTypeOK
    BY DEF Init, WebTypeOK, NoRun
  <2>3. Served /\ OneLoop
    BY <2>1 DEF Init, Served, OneLoop, FlagHonest
  <2> QED BY <2>1, <2>2, <2>3 DEF WInv, Reports, RaReported, DriveExclusive
<1>2. WInv /\ [Next]_vars => WInv'
  <2> SUFFICES ASSUME WInv, [Next]_vars PROVE WInv'
    OBVIOUS
  <2>1. CInv'
    BY NextLemma DEF WInv
  <2>2. CASE UserNext
    BY <2>1, <2>2, MouseKeeps, ClickKeeps DEF UserNext
  <2>3. ASSUME NEW t \in Tab, TabNext(t) PROVE WInv'
    BY <2>1, <2>3, AskKeeps, StartKeeps, StopKeeps DEF TabNext
  <2>4. ASSUME NEW t \in Tab, NEW cmd \in Command, OnRemoteCmd(t, cmd) PROVE WInv'
    BY <2>1, <2>4, CalibrationKeeps, CommandKeeps
  <2> QED BY <2>1, <2>2, <2>3, <2>4, LoopKeeps DEF Next
<1> QED BY <1>1, <1>2, PTL DEF Spec

(* An automatic calibration computes with its own points only (points      *)
(* start_x1 .. end_y2 of rcalibration.cpp).                                *)
THEOREM PointsAreOwn == Orderly => (Spec => []OwnPoints)
<1> SUFFICES ASSUME Orderly PROVE Spec => []OwnPoints
  OBVIOUS
<1>1. WInv => OwnPoints
  <2> SUFFICES ASSUME WInv, frames # <<>> PROVE OwnPoints
    BY DEF OwnPoints
  <2>1. Inner \in Frame /\ OwnReport(Inner)
    BY OneFrame DEF WInv, CInv, LoopTypeOK, OneLoop, Reports
  <2>2. Inner.leg \in Leg
    BY <2>1 DEF Frame
  <2> QED BY <2>1, <2>2 DEF OwnPoints, OwnReport, Leg
<1>2. Spec => []WInv
  BY WebInvariant
<1> QED BY <1>1, <1>2, PTL

(* While a loop's window is shown, status_calibrating is there.            *)
THEOREM FlagIsHonest == Orderly => (Spec => []FlagHonest)
<1> SUFFICES ASSUME Orderly PROVE Spec => []FlagHonest
  OBVIOUS
<1>1. WInv => FlagHonest
  BY DEF WInv, OneLoop
<1>2. Spec => []WInv
  BY WebInvariant
<1> QED BY <1>1, <1>2, PTL

(* A finished report says of RA whether the start point was reached.       *)
THEOREM RaIsReported == Orderly => (Spec => []RaReported)
<1> SUFFICES ASSUME Orderly PROVE Spec => []RaReported
  OBVIOUS
<1>1. WInv => RaReported
  BY DEF WInv, Reports
<1>2. Spec => []WInv
  BY WebInvariant
<1> QED BY <1>1, <1>2, PTL

(* The guider and a calibration never drive the mount at once.             *)
THEOREM OneDriver == Orderly => (Spec => []DriveExclusive)
<1> SUFFICES ASSUME Orderly PROVE Spec => []DriveExclusive
  OBVIOUS
<1>1. WInv => DriveExclusive
  BY DEF WInv
<1>2. Spec => []WInv
  BY WebInvariant
<1> QED BY <1>1, <1>2, PTL
=============================================================================
