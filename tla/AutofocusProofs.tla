--------------------------- MODULE AutofocusProofs ---------------------------
(***************************************************************************)
(* The focuser comes to move without its flag only where a stop meets a    *)
(* V-curve, and every point of a curve that is not being stopped is true,  *)
(* for every number of moves, curves, points, stops, failing exposures and *)
(* unplugged focusers, if users let what they started come to rest.        *)
(***************************************************************************)
EXTENDS Autofocus, TLAPS

Still == focuser # "moving"
Active(m) == mover[m] # "none"

(* The page's move programs, and vcurve's while no stop is at work on it.  *)
Undisturbed(m) == m # 0 \/ flgCurve

(* vcurve has points left to take.                                         *)
CurveLeft == curve.pc \notin {"none", "next"} => curve.left > 0

(* The page does one thing at a time: a move, a curve or a stop, and only  *)
(* stop_vcurve.php meets a curve.                                          *)
OneThing ==
  /\ flgFocus => xhr \in {"move", "MMMMM", "read", "SSSSS"} /\ ~flgCurve
  /\ flgFocus \/ flgCurve => stop = NoStop
  /\ flgCurve => xhr = "none"
  /\ curve.pc = "none" => curve = NoCurve
  /\ curve.pc # "none" => flgCurve \/ stop.by = "stop_vcurve"
  /\ stop # NoStop => curve.pc \notin {"asked", "passed"}

(* The page reads of the end of a curve when it has ended.                 *)
EndRead ==
  /\ last \in Ends => curve.pc \in {"none", "asked", "passed", "new"}
  /\ poll \in Ends => curve.pc = "none"
  /\ ~flgCurve => poll = "none"

(* A program that moves the focuser is the one the page or vcurve waits    *)
(* for, and nobody asks for the position meanwhile.                        *)
Alone ==
  /\ mover[0] # "asked"
  /\ \A m \in Mover \ {0} : Active(m) =>
       /\ m = count["move"] /\ curve.pc = "none" /\ ~Active(0)
       /\ \A a \in Asker : update[a] = NoUpdate
       /\ \/ flgFocus /\ xhr = "move"
          \/ stop = [by |-> "focus_stop", do |-> "kill"] /\ xhr = "stop" /\ mover[m] # "asked"
  /\ flgCurve /\ Active(0) => curve.pc = "moving"
  /\ flgCurve => update["page"] = NoUpdate /\ update["stop"] = NoUpdate
  /\ flgCurve /\ curve.pc # "point" => update["curve"] = NoUpdate

(* The F a program reads is the one that ends its own motion.              *)
OwnAnswer ==
  \A m \in Mover : Undisturbed(m) =>
    /\ mover[m] # "crossed"
    /\ mover[m] \in {"asked", "new", "flushed", "marked", "done"} => Still
    /\ mover[m] \in {"flushed", "marked"} => line = 0
    /\ mover[m] = "marked" => statusFocus
    /\ mover[m] = "waiting" /\ line > 0 => Still

(* Where a stop takes the flag away only vcurve may be moving.             *)
Cleared == stop.do = "clear" /\ focuser = "moving" => Active(0) \/ ~statusFocus

(* While the page waits for the curve: from the answer to the position     *)
(* query to the image nothing moves, and the step that goes into the point *)
(* is where the image is taken; the newest image is that of the point.     *)
TruePoint == flgCurve =>
  /\ curve.pc \notin {"none", "moving"} => Still
  /\ curve.pc = "moving" /\ ~Active(0) => Still
  /\ curve.pc = "point" =>
       /\ update["curve"] = NoUpdate => known \in {pos, Garbage}
       /\ update["curve"].pc = "asked" => update["curve"].at \in {pos, Garbage}
  /\ curve.pc \in {"select", "run"} => curve.step \in {pos, Garbage}
  /\ camera = "exposing" =>
       /\ curve.pc \in {"mark", "poll"} /\ (curve.pc = "poll" => statusCapture)
       /\ log = "other" /\ curve.step \in {shot, Garbage}
  /\ curve.pc \in {"mark", "poll", "measure"} /\ log = "preview" => curve.step \in {image, Garbage}
  /\ curve.pc = "measure" \/ (curve.pc = "poll" /\ ~statusCapture) => log = "preview"

(* What GuardedMotion and PointsTrue say of a step.                        *)
Guarded == focuser' = "moving" /\ ~statusFocus' =>
             (focuser = "moving" /\ ~statusFocus) \/ Overtaken
AddedTrue == \A p \in points' \ points : p.step \in {p.at, Garbage} \/ ~flgCurve

(* The inductive invariant.                                                *)
FInv == /\ TypeOK /\ CurveLeft /\ OneThing /\ EndRead
        /\ Alone /\ OwnAnswer /\ Cleared /\ TruePoint

-----------------------------------------------------------------------------
(* A focus_update starts.                                                  *)
LEMMA UpdateStarts ==
  ASSUME TypeOK, NEW a \in Asker, StartUpdate(a)
  PROVE  /\ update' \in [Asker -> [pc : {"none", "new", "asked"}, at : Nat \cup {Garbage}]]
         /\ update'[a].pc = "new" /\ \A b \in Asker : b # a => update'[b] = update[b]
BY DEF TypeOK, StartUpdate

(* vcurve goes on.                                                         *)
LEMMA CurveGoes ==
  ASSUME TypeOK, NEW pc, Go(pc)
  PROVE  /\ curve'.pc = pc /\ curve'.left = curve.left /\ curve'.step = curve.step
         /\ pc \in CurvePc => curve' \in Curve
BY DEF TypeOK, Go, Curve

(* A script that stops goes on: it clears the flag after it has told the   *)
(* focuser.                                                                *)
LEMMA StopGoesOn ==
  ASSUME TypeOK, stop.do \notin {"none", "query", "vcurve"}, GoOn
  PROVE  /\ stop' \in Stops /\ stop'.by = stop.by
         /\ stop'.do = "clear" <=> stop.do = "halt"
         /\ stop'.do = "kill" => stop.by = "stop_vcurve"
<1>1. stop \in [by : {"focus_stop"}, do : {"kill", "halt", "clear", "pause"}] \cup
              [by : {"stop_vcurve", "stop_all"},
               do : {"STOP", "capture", "ccd", "kill", "halt", "clear", "movers"}]
  BY DEF TypeOK, Stops, NoStop
<1>2. stop'.by = stop.by /\ stop'.do = Plan[stop.by][stop.do]
      /\ stop' = [by |-> stop.by, do |-> Plan[stop.by][stop.do]]
  BY <1>1 DEF GoOn
<1>3. CASE stop.by = "focus_stop"
  <2>1. Plan["focus_stop"] = [kill |-> "halt", halt |-> "clear", clear |-> "pause",
                              pause |-> "query"]
    BY DEF Plan
  <2> QED BY <1>1, <1>2, <1>3, <2>1 DEF Stops
<1>4. CASE stop.by = "stop_vcurve"
  <2>1. Plan["stop_vcurve"] =
          [STOP |-> "capture", capture |-> "ccd", ccd |-> "kill", kill |-> "halt",
           halt |-> "clear", clear |-> "movers", movers |-> "vcurve"]
    BY DEF Plan
  <2> QED BY <1>1, <1>2, <1>4, <2>1 DEF Stops
<1>5. CASE stop.by = "stop_all"
  <2>1. Plan["stop_all"] =
          [kill |-> "halt", halt |-> "clear", clear |-> "STOP", STOP |-> "capture",
           capture |-> "ccd", ccd |-> "movers", movers |-> "vcurve"]
    BY DEF Plan
  <2> QED BY <1>1, <1>2, <1>5, <2>1 DEF Stops
<1> QED BY <1>1, <1>3, <1>4, <1>5

(* A bounded event is counted.                                             *)
LEMMA CountUp ==
  ASSUME count \in [Events -> Nat], NEW e \in Events, NEW max, Happens(e, max)
  PROVE  count' \in [Events -> Nat]
<1>1. count[e] + 1 \in Nat
  OBVIOUS
<1> QED BY <1>1 DEF Happens

(* While a script that stops is at work the page waits for nothing, and    *)
(* its move programs are gone with the first kill.                         *)
LEMMA Stopping ==
  ASSUME TypeOK, OneThing, Alone, stop # NoStop
  PROVE  /\ ~flgFocus /\ ~flgCurve
         /\ stop.do # "kill" => \A m \in Mover : Undisturbed(m) => ~Active(m)
<1>1. ~flgFocus /\ ~flgCurve
  BY DEF OneThing
<1>2. ASSUME NEW m \in Mover, Undisturbed(m), Active(m) PROVE stop.do = "kill"
  BY <1>1, <1>2 DEF Alone, Undisturbed
<1> QED BY <1>1, <1>2

(* Who asks for the position finds no undisturbed program that waits.      *)
LEMMA Asking ==
  ASSUME TypeOK, OneThing, Alone, NEW a \in Asker, update[a] # NoUpdate,
         NEW m \in Mover, Undisturbed(m)
  PROVE  ~Active(m)
<1>1. CASE m # 0
  BY <1>1 DEF Alone
<1>2. CASE m = 0 /\ flgCurve
  BY <1>2 DEF Alone, Asker
<1> QED BY <1>1, <1>2 DEF Undisturbed

(* Every step keeps the types; a point is taken off only while points are  *)
(* left.                                                                   *)
LEMMA TypeStep == TypeOK /\ CurveLeft /\ [Next]_vars => TypeOK'
<1> SUFFICES ASSUME TypeOK, CurveLeft, [Next]_vars PROVE TypeOK'
  OBVIOUS
<1> USE AutofocusAssumption DEF AutofocusAssumption, Mover, Asker, Place, Garbage, Blurred,
      NoCurve, NoUpdate, fileVars, focuserVars, updateVars, cameraVars, curveVars, pageVars
<1>1. ASSUME MotionEnds PROVE TypeOK'
  <2>1. focuser' \in {"still", "moving", "dead"}
    BY <1>1 DEF TypeOK, MotionEnds
  <2>2. pos' \in Nat
    BY <1>1 DEF TypeOK, MotionEnds
  <2>3. line' \in Nat
    BY <1>1 DEF TypeOK, MotionEnds
  <2>4. UNCHANGED <<fileVars, mover, updateVars, cameraVars, curveVars, pageVars, stop, count>>
    BY <1>1 DEF MotionEnds
  <2> HIDE DEF Mover, Asker, Place, Garbage
  <2> QED BY <2>1, <2>2, <2>3, <2>4 DEF TypeOK
<1>2. ASSUME Unplug PROVE TypeOK'
  <2>1. focuser' \in {"still", "moving", "dead"}
    BY <1>2 DEF TypeOK, Unplug
  <2>2. count' \in [Events -> Nat]
    BY <1>2, CountUp DEF TypeOK, Unplug, Events
  <2>3. UNCHANGED <<fileVars, pos, line, mover, updateVars, cameraVars, curveVars, pageVars,
                    stop>>
    BY <1>2 DEF Unplug, Happens
  <2> HIDE DEF Mover, Asker, Place, Garbage
  <2> QED BY <2>1, <2>2, <2>3 DEF TypeOK
<1>3. ASSUME ExposureEnds PROVE TypeOK'
  <2>1. camera' \in {"idle", "exposing"} /\ log' \in {"other", "preview", "error"}
    BY <1>3 DEF TypeOK, ExposureEnds
  <2>2. image' \in Place
    BY <1>3 DEF TypeOK, ExposureEnds
  <2>3. UNCHANGED <<fileVars, focuserVars, mover, updateVars, shot, curveVars, pageVars, stop,
                    count>>
    BY <1>3 DEF ExposureEnds
  <2> HIDE DEF Mover, Asker, Place, Garbage
  <2> QED BY <2>1, <2>2, <2>3 DEF TypeOK
<1>4. ASSUME ExposureFails PROVE TypeOK'
  <2>1. camera' \in {"idle", "exposing"} /\ log' \in {"other", "preview", "error"}
    BY <1>4 DEF TypeOK, ExposureFails
  <2>2. count' \in [Events -> Nat]
    BY <1>4, CountUp DEF TypeOK, ExposureFails, Events
  <2>3. UNCHANGED <<fileVars, focuserVars, mover, updateVars, shot, image, curveVars, pageVars,
                    stop>>
    BY <1>4 DEF ExposureFails, Happens
  <2> HIDE DEF Mover, Asker, Place, Garbage
  <2> QED BY <2>1, <2>2, <2>3 DEF TypeOK
<1>5. ASSUME NEW m \in Mover, MovePhp(m) PROVE TypeOK'
  <2>1. mover' \in [Mover -> MoverPc]
    BY <1>5 DEF TypeOK, MovePhp, MoverPc, SetMover
  <2>2. UNCHANGED <<fileVars, focuserVars, updateVars, cameraVars, curveVars, pageVars, stop,
                    count>>
    BY <1>5 DEF MovePhp
  <2> HIDE DEF Mover, Asker, Place, Garbage
  <2> QED BY <2>1, <2>2 DEF TypeOK
<1>6. ASSUME NEW m \in Mover, Flush(m) PROVE TypeOK'
  <2>1. line' \in Nat
    BY <1>6 DEF TypeOK, Flush
  <2>2. mover' \in [Mover -> MoverPc]
    BY <1>6 DEF TypeOK, Flush, MoverPc, Cross
  <2>3. UNCHANGED <<fileVars, focuser, pos, updateVars, cameraVars, curveVars, pageVars, stop,
                    count>>
    BY <1>6 DEF Flush
  <2> HIDE DEF Mover, Asker, Place, Garbage
  <2> QED BY <2>1, <2>2, <2>3 DEF TypeOK
<1>7. ASSUME NEW m \in Mover, MarkFocus(m) PROVE TypeOK'
  <2>1. statusFocus' \in BOOLEAN
    BY <1>7 DEF TypeOK, MarkFocus
  <2>2. mover' \in [Mover -> MoverPc]
    BY <1>7 DEF TypeOK, MarkFocus, MoverPc, SetMover
  <2>3. UNCHANGED <<statusCcd, statusCapture, focuserVars, updateVars, cameraVars, curveVars,
                    pageVars, stop, count>>
    BY <1>7 DEF MarkFocus
  <2> HIDE DEF Mover, Asker, Place, Garbage
  <2> QED BY <2>1, <2>2, <2>3 DEF TypeOK
<1>8. ASSUME NEW m \in Mover, Command(m) PROVE TypeOK'
  <2>1. focuser' \in {"still", "moving", "dead"}
    BY <1>8 DEF TypeOK, Command
  <2>2. shot' \in Place
    BY <1>8 DEF TypeOK, Command
  <2>3. mover' \in [Mover -> MoverPc]
    BY <1>8 DEF TypeOK, Command, MoverPc, SetMover
  <2>4. UNCHANGED <<fileVars, pos, line, updateVars, camera, log, image, curveVars, pageVars,
                    stop, count>>
    BY <1>8 DEF Command
  <2> HIDE DEF Mover, Asker, Place, Garbage
  <2> QED BY <2>1, <2>2, <2>3, <2>4 DEF TypeOK
<1>9. ASSUME NEW m \in Mover, AwaitF(m) PROVE TypeOK'
  <2>1. line' \in Nat
    BY <1>9 DEF TypeOK, AwaitF
  <2>2. mover' \in [Mover -> MoverPc]
    BY <1>9 DEF TypeOK, AwaitF, MoverPc, Cross
  <2>3. UNCHANGED <<fileVars, focuser, pos, updateVars, cameraVars, curveVars, pageVars, stop,
                    count>>
    BY <1>9 DEF AwaitF
  <2> HIDE DEF Mover, Asker, Place, Garbage
  <2> QED BY <2>1, <2>2, <2>3 DEF TypeOK
<1>10. ASSUME NEW m \in Mover, MoveEnds(m) PROVE TypeOK'
  <2>1. statusFocus' \in BOOLEAN
    BY <1>10 DEF TypeOK, MoveEnds
  <2>2. mover' \in [Mover -> MoverPc]
    BY <1>10 DEF TypeOK, MoveEnds, MoverPc, SetMover
  <2>3. UNCHANGED <<statusCcd, statusCapture, focuserVars, updateVars, cameraVars, curveVars,
                    pageVars, stop, count>>
    BY <1>10 DEF MoveEnds
  <2> HIDE DEF Mover, Asker, Place, Garbage
  <2> QED BY <2>1, <2>2, <2>3 DEF TypeOK
<1>11. ASSUME NEW a \in Asker, AskPosition(a) PROVE TypeOK'
  <2>1. line' \in Nat
    BY <1>11 DEF TypeOK, AskPosition
  <2>2. update' \in [Asker -> [pc : {"none", "new", "asked"}, at : Nat \cup {Garbage}]]
    BY <1>11 DEF TypeOK, AskPosition
  <2>3. mover' \in [Mover -> MoverPc]
    BY <1>11 DEF TypeOK, AskPosition, MoverPc, Cross
  <2>4. UNCHANGED <<fileVars, focuser, pos, known, cameraVars, curveVars, pageVars, stop,
                    count>>
    BY <1>11 DEF AskPosition
  <2> HIDE DEF Mover, Asker, Place, Garbage
  <2> QED BY <2>1, <2>2, <2>3, <2>4 DEF TypeOK
<1>12. ASSUME NEW a \in Asker, ReadPosition(a) PROVE TypeOK'
  <2>1. line' \in Nat
    BY <1>12 DEF TypeOK, ReadPosition
  <2>2. known' \in Nat \cup {Garbage}
    BY <1>12 DEF TypeOK, ReadPosition
  <2>3. update' \in [Asker -> [pc : {"none", "new", "asked"}, at : Nat \cup {Garbage}]]
    BY <1>12 DEF TypeOK, ReadPosition
  <2>4. mover' \in [Mover -> MoverPc]
    BY <1>12 DEF TypeOK, ReadPosition, MoverPc, Cross
  <2>5. UNCHANGED <<fileVars, focuser, pos, cameraVars, curveVars, pageVars, stop, count>>
    BY <1>12 DEF ReadPosition
  <2> HIDE DEF Mover, Asker, Place, Garbage
  <2> QED BY <2>1, <2>2, <2>3, <2>4, <2>5 DEF TypeOK
<1>13. ASSUME MoveAnswered PROVE TypeOK'
  <2>1. xhr' \in {"none", "move", "MMMMM", "read", "SSSSS", "update", "stop"}
    BY <1>13 DEF TypeOK, MoveAnswered
  <2>2. UNCHANGED <<fileVars, focuserVars, mover, updateVars, cameraVars, curveVars, flgFocus,
                    flgCurve, shown, poll, append, stop, count>>
    BY <1>13 DEF MoveAnswered
  <2> HIDE DEF Mover, Asker, Place, Garbage
  <2> QED BY <2>1, <2>2 DEF TypeOK
<1>14. ASSUME FocusReadPhp PROVE TypeOK'
  <2>1. xhr' \in {"none", "move", "MMMMM", "read", "SSSSS", "update", "stop"}
    BY <1>14 DEF TypeOK, FocusReadPhp
  <2>2. UNCHANGED <<fileVars, focuserVars, mover, updateVars, cameraVars, curveVars, flgFocus,
                    flgCurve, shown, poll, append, stop, count>>
    BY <1>14 DEF FocusReadPhp
  <2> HIDE DEF Mover, Asker, Place, Garbage
  <2> QED BY <2>1, <2>2 DEF TypeOK
<1>15. ASSUME HandleResponse6 PROVE TypeOK'
  <2>1. flgFocus' \in BOOLEAN
    BY <1>15 DEF TypeOK, HandleResponse6
  <2>2. xhr' \in {"none", "move", "MMMMM", "read", "SSSSS", "update", "stop"}
    BY <1>15 DEF TypeOK, HandleResponse6
  <2>3. update' \in [Asker -> [pc : {"none", "new", "asked"}, at : Nat \cup {Garbage}]]
    BY <1>15, UpdateStarts DEF TypeOK, HandleResponse6
  <2>4. UNCHANGED <<fileVars, focuserVars, mover, known, cameraVars, curveVars, flgCurve, shown,
                    poll, append, stop, count>>
    BY <1>15 DEF HandleResponse6
  <2> HIDE DEF Mover, Asker, Place, Garbage
  <2> QED BY <2>1, <2>2, <2>3, <2>4 DEF TypeOK
<1>16. ASSUME ShowPosition PROVE TypeOK'
  <2>1. shown' \in BOOLEAN
    BY <1>16 DEF TypeOK, ShowPosition
  <2>2. xhr' \in {"none", "move", "MMMMM", "read", "SSSSS", "update", "stop"}
    BY <1>16 DEF TypeOK, ShowPosition
  <2>3. UNCHANGED <<fileVars, focuserVars, mover, updateVars, cameraVars, curveVars, flgFocus,
                    flgCurve, poll, append, stop, count>>
    BY <1>16 DEF ShowPosition
  <2> HIDE DEF Mover, Asker, Place, Garbage
  <2> QED BY <2>1, <2>2, <2>3 DEF TypeOK
<1>17. ASSUME ReadCurve PROVE TypeOK'
  <2>1. poll' \in Lines \cup {"none"}
    BY <1>17 DEF TypeOK, ReadCurve, Lines, Ends
  <2>2. UNCHANGED <<fileVars, focuserVars, mover, updateVars, cameraVars, curveVars, flgFocus,
                    flgCurve, shown, xhr, append, stop, count>>
    BY <1>17 DEF ReadCurve
  <2> HIDE DEF Mover, Asker, Place, Garbage
  <2> QED BY <2>1, <2>2 DEF TypeOK
<1>18. ASSUME HandleResponse7 PROVE TypeOK'
  <2>1. flgCurve' \in BOOLEAN /\ append' \in BOOLEAN
    BY <1>18 DEF TypeOK, HandleResponse7
  <2>2. poll' \in Lines \cup {"none"}
    BY <1>18 DEF TypeOK, HandleResponse7, Lines, Ends
  <2>3. UNCHANGED <<fileVars, focuserVars, mover, updateVars, cameraVars, curveVars, flgFocus,
                    shown, xhr, stop, count>>
    BY <1>18 DEF HandleResponse7
  <2> HIDE DEF Mover, Asker, Place, Garbage
  <2> QED BY <2>1, <2>2, <2>3 DEF TypeOK
<1>19. ASSUME AppendPhp PROVE TypeOK'
  <2>1. append' \in BOOLEAN
    BY <1>19 DEF TypeOK, AppendPhp
  <2>2. last' \in Lines
    BY <1>19 DEF TypeOK, AppendPhp, Lines, Ends
  <2>3. UNCHANGED <<fileVars, focuserVars, mover, updateVars, cameraVars, curve, points,
                    flgFocus, flgCurve, shown, xhr, poll, stop, count>>
    BY <1>19 DEF AppendPhp
  <2> HIDE DEF Mover, Asker, Place, Garbage
  <2> QED BY <2>1, <2>2, <2>3 DEF TypeOK
<1>20. ASSUME CurvePhp PROVE TypeOK'
  <2>1. curve' \in Curve
    BY <1>20, CurveGoes DEF TypeOK, CurvePhp, Curve, CurvePc
  <2>2. UNCHANGED <<fileVars, focuserVars, mover, updateVars, cameraVars, points, last,
                    pageVars, stop, count>>
    BY <1>20 DEF CurvePhp
  <2> HIDE DEF Mover, Asker, Place, Garbage
  <2> QED BY <2>1, <2>2 DEF TypeOK
<1>21. ASSUME CurveEmpties PROVE TypeOK'
  <2>1. curve' \in Curve
    BY <1>21, CurveGoes DEF TypeOK, CurveEmpties, Curve, CurvePc
  <2>2. points' \in SUBSET Point
    BY <1>21 DEF TypeOK, CurveEmpties, Point
  <2>3. last' \in Lines
    BY <1>21 DEF TypeOK, CurveEmpties, Lines, Ends
  <2>4. UNCHANGED <<fileVars, focuserVars, mover, updateVars, cameraVars, pageVars, stop,
                    count>>
    BY <1>21 DEF CurveEmpties
  <2> HIDE DEF Mover, Asker, Place, Garbage
  <2> QED BY <2>1, <2>2, <2>3, <2>4 DEF TypeOK
<1>22. ASSUME CurveUpdate PROVE TypeOK'
  <2>1. update' \in [Asker -> [pc : {"none", "new", "asked"}, at : Nat \cup {Garbage}]]
    BY <1>22, UpdateStarts DEF TypeOK, CurveUpdate
  <2>2. curve' \in Curve
    BY <1>22, CurveGoes DEF TypeOK, CurveUpdate, Curve, CurvePc
  <2>3. UNCHANGED <<fileVars, focuserVars, mover, known, cameraVars, points, last, pageVars,
                    stop, count>>
    BY <1>22 DEF CurveUpdate
  <2> HIDE DEF Mover, Asker, Place, Garbage
  <2> QED BY <2>1, <2>2, <2>3 DEF TypeOK
<1>23. ASSUME CurvePoint PROVE TypeOK'
  <2>1. statusCcd' \in BOOLEAN
    BY <1>23 DEF TypeOK, CurvePoint
  <2>2. curve' \in Curve
    BY <1>23 DEF TypeOK, CurvePoint, Curve, CurvePc
  <2>3. UNCHANGED <<statusFocus, statusCapture, focuserVars, mover, updateVars, cameraVars,
                    points, last, pageVars, stop, count>>
    BY <1>23 DEF CurvePoint
  <2> HIDE DEF Mover, Asker, Place, Garbage
  <2> QED BY <2>1, <2>2, <2>3 DEF TypeOK
<1>24. ASSUME CurveSelect PROVE TypeOK'
  <2>1. statusCcd' \in BOOLEAN
    BY <1>24 DEF TypeOK, CurveSelect
  <2>2. last' \in Lines
    BY <1>24 DEF TypeOK, CurveSelect, Lines, Ends
  <2>3. curve' \in Curve
    BY <1>24, CurveGoes DEF TypeOK, CurveSelect, Curve, CurvePc
  <2>4. UNCHANGED <<statusFocus, statusCapture, focuserVars, mover, updateVars, cameraVars,
                    points, pageVars, stop, count>>
    BY <1>24 DEF CurveSelect
  <2> HIDE DEF Mover, Asker, Place, Garbage
  <2> QED BY <2>1, <2>2, <2>3, <2>4 DEF TypeOK
<1>25. ASSUME CurveRun PROVE TypeOK'
  <2>1. camera' \in {"idle", "exposing"} /\ log' \in {"other", "preview", "error"}
    BY <1>25 DEF TypeOK, CurveRun
  <2>2. shot' \in Place
    BY <1>25 DEF TypeOK, CurveRun
  <2>3. curve' \in Curve
    BY <1>25, CurveGoes DEF TypeOK, CurveRun, Curve, CurvePc
  <2>4. UNCHANGED <<fileVars, focuserVars, mover, updateVars, image, points, last, pageVars,
                    stop, count>>
    BY <1>25 DEF CurveRun
  <2> HIDE DEF Mover, Asker, Place, Garbage
  <2> QED BY <2>1, <2>2, <2>3, <2>4 DEF TypeOK
<1>26. ASSUME CurveMark PROVE TypeOK'
  <2>1. statusCapture' \in BOOLEAN
    BY <1>26 DEF TypeOK, CurveMark
  <2>2. curve' \in Curve
    BY <1>26, CurveGoes DEF TypeOK, CurveMark, Curve, CurvePc
  <2>3. UNCHANGED <<statusFocus, statusCcd, focuserVars, mover, updateVars, cameraVars, points,
                    last, pageVars, stop, count>>
    BY <1>26 DEF CurveMark
  <2> HIDE DEF Mover, Asker, Place, Garbage
  <2> QED BY <2>1, <2>2, <2>3 DEF TypeOK
<1>27. ASSUME CurvePoll PROVE TypeOK'
  <2>1. statusCapture' \in BOOLEAN /\ statusCcd' \in BOOLEAN
    BY <1>27 DEF TypeOK, CurvePoll
  <2>2. last' \in Lines
    BY <1>27 DEF TypeOK, CurvePoll, Lines, Ends
  <2>3. curve' \in Curve
    BY <1>27, CurveGoes DEF TypeOK, CurvePoll, Curve, CurvePc
  <2>4. UNCHANGED <<statusFocus, focuserVars, mover, updateVars, cameraVars, points, pageVars,
                    stop, count>>
    BY <1>27 DEF CurvePoll
  <2> HIDE DEF Mover, Asker, Place, Garbage
  <2> QED BY <2>1, <2>2, <2>3, <2>4 DEF TypeOK
<1>28. ASSUME CurveMeasure PROVE TypeOK'
  <2>1. statusCcd' \in BOOLEAN
    BY <1>28 DEF TypeOK, CurveMeasure
  <2>2. points' \in SUBSET Point
    <3>1. [step |-> curve.step, at |-> image] \in Point
      BY DEF TypeOK, Curve, Point
    <3> QED BY <1>28, <3>1 DEF CurveMeasure, TypeOK
  <2>3. curve' \in Curve
    BY <1>28 DEF TypeOK, CurveMeasure, Curve, CurvePc, CurveLeft
  <2>4. last' \in Lines
    BY <1>28 DEF TypeOK, CurveMeasure, Lines, Ends
  <2>5. UNCHANGED <<statusFocus, statusCapture, focuserVars, mover, updateVars, cameraVars,
                    pageVars, stop, count>>
    BY <1>28 DEF CurveMeasure
  <2> HIDE DEF Mover, Asker, Place, Garbage
  <2> QED BY <2>1, <2>2, <2>3, <2>4, <2>5 DEF TypeOK
<1>29. ASSUME CurveNext PROVE TypeOK'
  <2>1. mover' \in [Mover -> MoverPc]
    BY <1>29 DEF TypeOK, CurveNext, MoverPc, SetMover
  <2>2. curve' \in Curve
    BY <1>29, CurveGoes DEF TypeOK, CurveNext, Curve, CurvePc
  <2>3. last' \in Lines
    BY <1>29 DEF TypeOK, CurveNext, Lines, Ends
  <2>4. UNCHANGED <<fileVars, focuserVars, updateVars, cameraVars, points, pageVars, stop,
                    count>>
    BY <1>29 DEF CurveNext
  <2> HIDE DEF Mover, Asker, Place, Garbage
  <2> QED BY <2>1, <2>2, <2>3, <2>4 DEF TypeOK
<1>30. ASSUME CurveMoved PROVE TypeOK'
  <2>1. curve' \in Curve
    BY <1>30, CurveGoes DEF TypeOK, CurveMoved, Curve, CurvePc
  <2>2. UNCHANGED <<fileVars, focuserVars, mover, updateVars, cameraVars, points, last,
                    pageVars, stop, count>>
    BY <1>30 DEF CurveMoved
  <2> HIDE DEF Mover, Asker, Place, Garbage
  <2> QED BY <2>1, <2>2 DEF TypeOK
<1>31. ASSUME KillMovers PROVE TypeOK'
  <2>1. mover' \in [Mover -> MoverPc]
    BY <1>31 DEF TypeOK, KillMovers, MoverPc
  <2>2. stop' \in Stops
    BY <1>31, StopGoesOn DEF TypeOK, KillMovers, Stops
  <2>3. UNCHANGED <<fileVars, focuserVars, updateVars, cameraVars, curveVars, pageVars, count>>
    BY <1>31 DEF KillMovers
  <2> HIDE DEF Mover, Asker, Place, Garbage
  <2> QED BY <2>1, <2>2, <2>3 DEF TypeOK
<1>32. ASSUME Halt PROVE TypeOK'
  <2>1. focuser' \in {"still", "moving", "dead"}
    BY <1>32 DEF TypeOK, Halt
  <2>2. line' \in Nat
    BY <1>32 DEF TypeOK, Halt
  <2>3. pos' \in Nat
    BY <1>32 DEF TypeOK, Halt
  <2>4. mover' \in [Mover -> MoverPc]
    BY <1>32 DEF TypeOK, Halt, MoverPc, Cross
  <2>5. stop' \in Stops
    BY <1>32, StopGoesOn DEF TypeOK, Halt, Stops
  <2>6. UNCHANGED <<fileVars, updateVars, cameraVars, curveVars, pageVars, count>>
    BY <1>32 DEF Halt
  <2> HIDE DEF Mover, Asker, Place, Garbage
  <2> QED BY <2>1, <2>2, <2>3, <2>4, <2>5, <2>6 DEF TypeOK
<1>33. ASSUME ClearFocus PROVE TypeOK'
  <2>1. statusFocus' \in BOOLEAN
    BY <1>33 DEF TypeOK, ClearFocus
  <2>2. stop' \in Stops
    BY <1>33, StopGoesOn DEF TypeOK, ClearFocus, Stops
  <2>3. UNCHANGED <<statusCcd, statusCapture, focuserVars, mover, updateVars, cameraVars,
                    curveVars, pageVars, count>>
    BY <1>33 DEF ClearFocus
  <2> HIDE DEF Mover, Asker, Place, Garbage
  <2> QED BY <2>1, <2>2, <2>3 DEF TypeOK
<1>34. ASSUME StopUpdate PROVE TypeOK'
  <2>1. stop' \in Stops
    BY <1>34, StopGoesOn DEF TypeOK, StopUpdate, Stops, NoStop
  <2>2. update' \in [Asker -> [pc : {"none", "new", "asked"}, at : Nat \cup {Garbage}]]
    BY <1>34, UpdateStarts DEF TypeOK, StopUpdate
  <2>3. UNCHANGED <<fileVars, focuserVars, mover, known, cameraVars, curveVars, pageVars,
                    count>>
    BY <1>34 DEF StopUpdate
  <2> HIDE DEF Mover, Asker, Place, Garbage
  <2> QED BY <2>1, <2>2, <2>3 DEF TypeOK
<1>35. ASSUME StopCapture PROVE TypeOK'
  <2>1. statusCapture' \in BOOLEAN
    BY <1>35 DEF TypeOK, StopCapture
  <2>2. log' \in {"other", "preview", "error"}
    BY <1>35 DEF TypeOK, StopCapture
  <2>3. stop' \in Stops
    <3>1. CASE GoOn
      BY <1>35, <3>1, StopGoesOn DEF StopCapture
    <3>2. CASE stop' = [stop EXCEPT !.do = "ccd"] /\ stop.do = "STOP"
      BY <3>2 DEF TypeOK, Stops, NoStop
    <3> QED BY <1>35, <3>1, <3>2 DEF StopCapture
  <2>4. UNCHANGED <<statusFocus, statusCcd, focuserVars, mover, updateVars, camera, shot, image,
                    curveVars, pageVars, count>>
    BY <1>35 DEF StopCapture
  <2> HIDE DEF Mover, Asker, Place, Garbage
  <2> QED BY <2>1, <2>2, <2>3, <2>4 DEF TypeOK
<1>36. ASSUME StopCcd PROVE TypeOK'
  <2>1. statusCcd' \in BOOLEAN
    BY <1>36 DEF TypeOK, StopCcd
  <2>2. stop' \in Stops
    BY <1>36, StopGoesOn DEF TypeOK, StopCcd, Stops
  <2>3. UNCHANGED <<statusFocus, statusCapture, focuserVars, mover, updateVars, cameraVars,
                    curveVars, pageVars, count>>
    BY <1>36 DEF StopCcd
  <2> HIDE DEF Mover, Asker, Place, Garbage
  <2> QED BY <2>1, <2>2, <2>3 DEF TypeOK
<1>37. ASSUME KillCurve PROVE TypeOK'
  <2>1. curve' \in Curve
    BY <1>37 DEF TypeOK, KillCurve, Curve, CurvePc
  <2>2. stop' \in Stops
    BY <1>37 DEF TypeOK, KillCurve, Stops, NoStop
  <2>3. UNCHANGED <<fileVars, focuserVars, mover, updateVars, cameraVars, points, last,
                    pageVars, count>>
    BY <1>37 DEF KillCurve
  <2> HIDE DEF Mover, Asker, Place, Garbage
  <2> QED BY <2>1, <2>2, <2>3 DEF TypeOK
<1>38. ASSUME ClickMove PROVE TypeOK'
  <2>1. flgFocus' \in BOOLEAN /\ shown' \in BOOLEAN
    BY <1>38 DEF TypeOK, ClickMove
  <2>2. xhr' \in {"none", "move", "MMMMM", "read", "SSSSS", "update", "stop"}
    BY <1>38 DEF TypeOK, ClickMove
  <2>3. count' \in [Events -> Nat]
    BY <1>38, CountUp DEF TypeOK, ClickMove, Events
  <2>4. mover' \in [Mover -> MoverPc]
    BY <1>38 DEF TypeOK, ClickMove, MoverPc, SetMover
  <2>5. UNCHANGED <<fileVars, focuserVars, updateVars, cameraVars, curveVars, flgCurve, poll,
                    append, stop>>
    BY <1>38 DEF ClickMove, Happens
  <2> HIDE DEF Mover, Asker, Place, Garbage
  <2> QED BY <2>1, <2>2, <2>3, <2>4, <2>5 DEF TypeOK
<1>39. ASSUME ClickStop PROVE TypeOK'
  <2>1. flgFocus' \in BOOLEAN /\ flgCurve' \in BOOLEAN /\ shown' \in BOOLEAN
    BY <1>39 DEF TypeOK, ClickStop
  <2>2. xhr' \in {"none", "move", "MMMMM", "read", "SSSSS", "update", "stop"}
    BY <1>39 DEF TypeOK, ClickStop
  <2>3. count' \in [Events -> Nat]
    BY <1>39, CountUp DEF TypeOK, ClickStop, Events
  <2>4. poll' \in Lines \cup {"none"}
    BY <1>39 DEF TypeOK, ClickStop, Lines, Ends
  <2>5. stop' \in Stops
    BY <1>39 DEF TypeOK, ClickStop, Stops, NoStop
  <2>6. UNCHANGED <<fileVars, focuserVars, mover, updateVars, cameraVars, curveVars, append>>
    BY <1>39 DEF ClickStop, Happens
  <2> HIDE DEF Mover, Asker, Place, Garbage
  <2> QED BY <2>1, <2>2, <2>3, <2>4, <2>5, <2>6 DEF TypeOK
<1>40. ASSUME NEW n \in Points, ClickCurve(n) PROVE TypeOK'
  <2>1. flgCurve' \in BOOLEAN /\ shown' \in BOOLEAN
    BY <1>40 DEF TypeOK, ClickCurve
  <2>2. count' \in [Events -> Nat]
    BY <1>40, CountUp DEF TypeOK, ClickCurve, Events
  <2>3. curve' \in Curve
    BY <1>40 DEF TypeOK, ClickCurve, Curve, CurvePc
  <2>4. UNCHANGED <<fileVars, focuserVars, mover, updateVars, cameraVars, points, last,
                    flgFocus, xhr, poll, append, stop>>
    BY <1>40 DEF ClickCurve, Happens
  <2> HIDE DEF Mover, Asker, Place, Garbage
  <2> QED BY <2>1, <2>2, <2>3, <2>4 DEF TypeOK
<1>41. CASE UNCHANGED vars
  BY <1>41 DEF TypeOK, vars
<1> QED BY <1>1, <1>2, <1>3, <1>4, <1>5, <1>6, <1>7, <1>8, <1>9, <1>10, <1>11, <1>12, <1>13,
         <1>14, <1>15, <1>16, <1>17, <1>18, <1>19, <1>20, <1>21, <1>22, <1>23, <1>24, <1>25, <1>26,
         <1>27, <1>28, <1>29, <1>30, <1>31, <1>32, <1>33, <1>34, <1>35, <1>36, <1>37, <1>38, <1>39,
         <1>40, <1>41
      DEF Next, MoverStep, CurveStep, StopStep, FocusPage, CurvePage

-----------------------------------------------------------------------------
(* CurveLeft: only CurveNext ends with no points left.                     *)
LEMMA CurveLeftStep == TypeOK /\ CurveLeft /\ [Next]_vars => CurveLeft'
<1> SUFFICES ASSUME TypeOK, CurveLeft, [Next]_vars PROVE CurveLeft'
  OBVIOUS
<1> USE AutofocusAssumption DEF AutofocusAssumption, NoCurve, curveVars
<1>1. ASSUME MotionEnds PROVE CurveLeft'
  BY <1>1 DEF CurveLeft, TypeOK, Curve, MotionEnds
<1>2. ASSUME Unplug PROVE CurveLeft'
  BY <1>2 DEF CurveLeft, TypeOK, Curve, Unplug
<1>3. ASSUME ExposureEnds PROVE CurveLeft'
  BY <1>3 DEF CurveLeft, TypeOK, Curve, ExposureEnds
<1>4. ASSUME ExposureFails PROVE CurveLeft'
  BY <1>4 DEF CurveLeft, TypeOK, Curve, ExposureFails
<1>5. ASSUME NEW m \in Mover, MovePhp(m) PROVE CurveLeft'
  BY <1>5 DEF CurveLeft, TypeOK, Curve, MovePhp
<1>6. ASSUME NEW m \in Mover, Flush(m) PROVE CurveLeft'
  BY <1>6 DEF CurveLeft, TypeOK, Curve, Flush
<1>7. ASSUME NEW m \in Mover, MarkFocus(m) PROVE CurveLeft'
  BY <1>7 DEF CurveLeft, TypeOK, Curve, MarkFocus
<1>8. ASSUME NEW m \in Mover, Command(m) PROVE CurveLeft'
  BY <1>8 DEF CurveLeft, TypeOK, Curve, Command
<1>9. ASSUME NEW m \in Mover, AwaitF(m) PROVE CurveLeft'
  BY <1>9 DEF CurveLeft, TypeOK, Curve, AwaitF
<1>10. ASSUME NEW m \in Mover, MoveEnds(m) PROVE CurveLeft'
  BY <1>10 DEF CurveLeft, TypeOK, Curve, MoveEnds
<1>11. ASSUME NEW a \in Asker, AskPosition(a) PROVE CurveLeft'
  BY <1>11 DEF CurveLeft, TypeOK, Curve, AskPosition
<1>12. ASSUME NEW a \in Asker, ReadPosition(a) PROVE CurveLeft'
  BY <1>12 DEF CurveLeft, TypeOK, Curve, ReadPosition
<1>13. ASSUME MoveAnswered PROVE CurveLeft'
  BY <1>13 DEF CurveLeft, TypeOK, Curve, MoveAnswered
<1>14. ASSUME FocusReadPhp PROVE CurveLeft'
  BY <1>14 DEF CurveLeft, TypeOK, Curve, FocusReadPhp
<1>15. ASSUME HandleResponse6 PROVE CurveLeft'
  BY <1>15 DEF CurveLeft, TypeOK, Curve, HandleResponse6
<1>16. ASSUME ShowPosition PROVE CurveLeft'
  BY <1>16 DEF CurveLeft, TypeOK, Curve, ShowPosition
<1>17. ASSUME ReadCurve PROVE CurveLeft'
  BY <1>17 DEF CurveLeft, TypeOK, Curve, ReadCurve
<1>18. ASSUME HandleResponse7 PROVE CurveLeft'
  BY <1>18 DEF CurveLeft, TypeOK, Curve, HandleResponse7
<1>19. ASSUME AppendPhp PROVE CurveLeft'
  BY <1>19 DEF CurveLeft, TypeOK, Curve, AppendPhp
<1>20. ASSUME CurvePhp PROVE CurveLeft'
  BY <1>20 DEF CurveLeft, TypeOK, Curve, CurvePhp, Go
<1>21. ASSUME CurveEmpties PROVE CurveLeft'
  BY <1>21 DEF CurveLeft, TypeOK, Curve, CurveEmpties, Go
<1>22. ASSUME CurveUpdate PROVE CurveLeft'
  BY <1>22 DEF CurveLeft, TypeOK, Curve, CurveUpdate, Go
<1>23. ASSUME CurvePoint PROVE CurveLeft'
  BY <1>23 DEF CurveLeft, TypeOK, Curve, CurvePoint
<1>24. ASSUME CurveSelect PROVE CurveLeft'
  BY <1>24 DEF CurveLeft, TypeOK, Curve, CurveSelect, Go
<1>25. ASSUME CurveRun PROVE CurveLeft'
  BY <1>25 DEF CurveLeft, TypeOK, Curve, CurveRun, Go
<1>26. ASSUME CurveMark PROVE CurveLeft'
  BY <1>26 DEF CurveLeft, TypeOK, Curve, CurveMark, Go
<1>27. ASSUME CurvePoll PROVE CurveLeft'
  BY <1>27 DEF CurveLeft, TypeOK, Curve, CurvePoll, Go
<1>28. ASSUME CurveMeasure PROVE CurveLeft'
  BY <1>28 DEF CurveLeft, TypeOK, Curve, CurveMeasure
<1>29. ASSUME CurveNext PROVE CurveLeft'
  BY <1>29 DEF CurveLeft, TypeOK, Curve, CurveNext, Go
<1>30. ASSUME CurveMoved PROVE CurveLeft'
  BY <1>30 DEF CurveLeft, TypeOK, Curve, CurveMoved, Go
<1>31. ASSUME KillMovers PROVE CurveLeft'
  BY <1>31 DEF CurveLeft, TypeOK, Curve, KillMovers
<1>32. ASSUME Halt PROVE CurveLeft'
  BY <1>32 DEF CurveLeft, TypeOK, Curve, Halt
<1>33. ASSUME ClearFocus PROVE CurveLeft'
  BY <1>33 DEF CurveLeft, TypeOK, Curve, ClearFocus
<1>34. ASSUME StopUpdate PROVE CurveLeft'
  BY <1>34 DEF CurveLeft, TypeOK, Curve, StopUpdate
<1>35. ASSUME StopCapture PROVE CurveLeft'
  BY <1>35 DEF CurveLeft, TypeOK, Curve, StopCapture
<1>36. ASSUME StopCcd PROVE CurveLeft'
  BY <1>36 DEF CurveLeft, TypeOK, Curve, StopCcd
<1>37. ASSUME KillCurve PROVE CurveLeft'
  BY <1>37 DEF CurveLeft, TypeOK, Curve, KillCurve
<1>38. ASSUME ClickMove PROVE CurveLeft'
  BY <1>38 DEF CurveLeft, TypeOK, Curve, ClickMove
<1>39. ASSUME ClickStop PROVE CurveLeft'
  BY <1>39 DEF CurveLeft, TypeOK, Curve, ClickStop
<1>40. ASSUME NEW n \in Points, ClickCurve(n) PROVE CurveLeft'
  BY <1>40 DEF CurveLeft, TypeOK, Curve, ClickCurve
<1>41. CASE UNCHANGED vars
  BY <1>41 DEF CurveLeft, vars
<1> QED BY <1>1, <1>2, <1>3, <1>4, <1>5, <1>6, <1>7, <1>8, <1>9, <1>10, <1>11, <1>12, <1>13,
         <1>14, <1>15, <1>16, <1>17, <1>18, <1>19, <1>20, <1>21, <1>22, <1>23, <1>24, <1>25, <1>26,
         <1>27, <1>28, <1>29, <1>30, <1>31, <1>32, <1>33, <1>34, <1>35, <1>36, <1>37, <1>38, <1>39,
         <1>40, <1>41
      DEF Next, MoverStep, CurveStep, StopStep, FocusPage, CurvePage

-----------------------------------------------------------------------------
(* OneThing: only stop_vcurve.php is clicked while a curve is at work.       *)
LEMMA OneThingStep == Patient /\ TypeOK /\ OneThing /\ EndRead /\ [Next]_vars => OneThing'
<1> SUFFICES ASSUME Patient, TypeOK, OneThing, EndRead, [Next]_vars PROVE OneThing'
  OBVIOUS
<1> USE AutofocusAssumption DEF AutofocusAssumption, NoCurve, NoStop, fileVars, focuserVars,
      updateVars, cameraVars, curveVars, pageVars
<1>1. ASSUME MotionEnds PROVE OneThing'
  BY <1>1 DEF OneThing, MotionEnds
<1>2. ASSUME Unplug PROVE OneThing'
  BY <1>2 DEF OneThing, Unplug
<1>3. ASSUME ExposureEnds PROVE OneThing'
  BY <1>3 DEF OneThing, ExposureEnds
<1>4. ASSUME ExposureFails PROVE OneThing'
  BY <1>4 DEF OneThing, ExposureFails
<1>5. ASSUME NEW m \in Mover, MovePhp(m) PROVE OneThing'
  BY <1>5 DEF OneThing, MovePhp, SetMover
<1>6. ASSUME NEW m \in Mover, Flush(m) PROVE OneThing'
  BY <1>6 DEF OneThing, Flush, Cross
<1>7. ASSUME NEW m \in Mover, MarkFocus(m) PROVE OneThing'
  BY <1>7 DEF OneThing, MarkFocus, SetMover
<1>8. ASSUME NEW m \in Mover, Command(m) PROVE OneThing'
  BY <1>8 DEF OneThing, Command, SetMover
<1>9. ASSUME NEW m \in Mover, AwaitF(m) PROVE OneThing'
  BY <1>9 DEF OneThing, AwaitF, Cross
<1>10. ASSUME NEW m \in Mover, MoveEnds(m) PROVE OneThing'
  BY <1>10 DEF OneThing, MoveEnds, SetMover
<1>11. ASSUME NEW a \in Asker, AskPosition(a) PROVE OneThing'
  BY <1>11 DEF OneThing, AskPosition, Cross
<1>12. ASSUME NEW a \in Asker, ReadPosition(a) PROVE OneThing'
  BY <1>12 DEF OneThing, ReadPosition, Cross
<1>13. ASSUME MoveAnswered PROVE OneThing'
  BY <1>13 DEF OneThing, MoveAnswered
<1>14. ASSUME FocusReadPhp PROVE OneThing'
  BY <1>14 DEF OneThing, FocusReadPhp
<1>15. ASSUME HandleResponse6 PROVE OneThing'
  BY <1>15 DEF OneThing, HandleResponse6
<1>16. ASSUME ShowPosition PROVE OneThing'
  BY <1>16 DEF OneThing, ShowPosition
<1>17. ASSUME ReadCurve PROVE OneThing'
  BY <1>17 DEF OneThing, ReadCurve
<1>18. ASSUME HandleResponse7 PROVE OneThing'
  BY <1>18 DEF OneThing, HandleResponse7, EndRead
<1>19. ASSUME AppendPhp PROVE OneThing'
  BY <1>19 DEF OneThing, AppendPhp
<1>20. ASSUME CurvePhp PROVE OneThing'
  BY <1>20, CurveGoes DEF OneThing, CurvePhp
<1>21. ASSUME CurveEmpties PROVE OneThing'
  BY <1>21 DEF OneThing, CurveEmpties, Go
<1>22. ASSUME CurveUpdate PROVE OneThing'
  BY <1>22 DEF OneThing, CurveUpdate, Go
<1>23. ASSUME CurvePoint PROVE OneThing'
  BY <1>23 DEF OneThing, CurvePoint
<1>24. ASSUME CurveSelect PROVE OneThing'
  BY <1>24, CurveGoes DEF OneThing, CurveSelect
<1>25. ASSUME CurveRun PROVE OneThing'
  BY <1>25 DEF OneThing, CurveRun, Go
<1>26. ASSUME CurveMark PROVE OneThing'
  BY <1>26 DEF OneThing, CurveMark, Go
<1>27. ASSUME CurvePoll PROVE OneThing'
  BY <1>27, CurveGoes DEF OneThing, CurvePoll
<1>28. ASSUME CurveMeasure PROVE OneThing'
  BY <1>28 DEF OneThing, CurveMeasure
<1>29. ASSUME CurveNext PROVE OneThing'
  BY <1>29, CurveGoes DEF OneThing, CurveNext
<1>30. ASSUME CurveMoved PROVE OneThing'
  BY <1>30 DEF OneThing, CurveMoved, Go
<1>31. ASSUME KillMovers PROVE OneThing'
  BY <1>31, StopGoesOn DEF OneThing, KillMovers
<1>32. ASSUME Halt PROVE OneThing'
  BY <1>32, StopGoesOn DEF OneThing, Halt, Cross
<1>33. ASSUME ClearFocus PROVE OneThing'
  BY <1>33, StopGoesOn DEF OneThing, ClearFocus
<1>34. ASSUME StopUpdate PROVE OneThing'
  <2>1. CASE stop.do = "pause" /\ GoOn
    BY <1>34, <2>1, StopGoesOn DEF StopUpdate, OneThing
  <2>2. CASE stop.do = "query" /\ stop' = NoStop
    <3>1. stop.by = "focus_stop"
      BY <2>2 DEF TypeOK, Stops
    <3> QED BY <1>34, <2>2, <3>1 DEF StopUpdate, OneThing
  <2> QED BY <1>34, <2>1, <2>2 DEF StopUpdate
<1>35. ASSUME StopCapture PROVE OneThing'
  <2>1. stop # NoStop /\ stop'.by = stop.by
    BY <1>35, StopGoesOn DEF StopCapture, TypeOK, Stops
  <2> QED BY <1>35, <2>1 DEF StopCapture, OneThing
<1>36. ASSUME StopCcd PROVE OneThing'
  BY <1>36, StopGoesOn DEF OneThing, StopCcd
<1>37. ASSUME KillCurve PROVE OneThing'
  BY <1>37 DEF OneThing, KillCurve
<1>38. ASSUME ClickMove PROVE OneThing'
  BY <1>38 DEF OneThing, ClickMove, Idle, Settled, SetMover
<1>39. ASSUME ClickStop PROVE OneThing'
  <2>1. curve' = curve /\ stop = NoStop /\ curve.pc \notin {"asked", "passed"}
    BY <1>39 DEF ClickStop, Begun
  <2>2. ~flgFocus' /\ ~flgCurve'
    BY <1>39 DEF ClickStop, OneThing, Idle
  <2>3. curve.pc # "none" => stop'.by = "stop_vcurve"
    <3>1. curve.pc # "none" => flgCurve /\ ~flgFocus
      BY <2>1 DEF OneThing
    <3> QED BY <1>39, <3>1 DEF ClickStop, Idle
  <2> QED BY <2>1, <2>2, <2>3 DEF OneThing
<1>40. ASSUME NEW n \in Points, ClickCurve(n) PROVE OneThing'
  BY <1>40 DEF OneThing, ClickCurve, Idle, Settled
<1>41. CASE UNCHANGED vars
  BY <1>41 DEF OneThing, vars
<1> QED BY <1>1, <1>2, <1>3, <1>4, <1>5, <1>6, <1>7, <1>8, <1>9, <1>10, <1>11, <1>12, <1>13,
         <1>14, <1>15, <1>16, <1>17, <1>18, <1>19, <1>20, <1>21, <1>22, <1>23, <1>24, <1>25, <1>26,
         <1>27, <1>28, <1>29, <1>30, <1>31, <1>32, <1>33, <1>34, <1>35, <1>36, <1>37, <1>38, <1>39,
         <1>40, <1>41
      DEF Next, MoverStep, CurveStep, StopStep, FocusPage, CurvePage

-----------------------------------------------------------------------------
(* EndRead: an end is written when vcurve ends, and read after it.         *)
LEMMA EndReadStep == TypeOK /\ OneThing /\ EndRead /\ [Next]_vars => EndRead'
<1> SUFFICES ASSUME TypeOK, OneThing, EndRead, [Next]_vars PROVE EndRead'
  OBVIOUS
<1> USE AutofocusAssumption DEF AutofocusAssumption, NoCurve, NoStop, fileVars, focuserVars,
      updateVars, cameraVars, curveVars, pageVars
<1>1. ASSUME MotionEnds PROVE EndRead'
  BY <1>1 DEF EndRead, Ends, MotionEnds
<1>2. ASSUME Unplug PROVE EndRead'
  BY <1>2 DEF EndRead, Ends, Unplug
<1>3. ASSUME ExposureEnds PROVE EndRead'
  BY <1>3 DEF EndRead, Ends, ExposureEnds
<1>4. ASSUME ExposureFails PROVE EndRead'
  BY <1>4 DEF EndRead, Ends, ExposureFails
<1>5. ASSUME NEW m \in Mover, MovePhp(m) PROVE EndRead'
  BY <1>5 DEF EndRead, Ends, MovePhp, SetMover
<1>6. ASSUME NEW m \in Mover, Flush(m) PROVE EndRead'
  BY <1>6 DEF EndRead, Ends, Flush, Cross
<1>7. ASSUME NEW m \in Mover, MarkFocus(m) PROVE EndRead'
  BY <1>7 DEF EndRead, Ends, MarkFocus, SetMover
<1>8. ASSUME NEW m \in Mover, Command(m) PROVE EndRead'
  BY <1>8 DEF EndRead, Ends, Command, SetMover
<1>9. ASSUME NEW m \in Mover, AwaitF(m) PROVE EndRead'
  BY <1>9 DEF EndRead, Ends, AwaitF, Cross
<1>10. ASSUME NEW m \in Mover, MoveEnds(m) PROVE EndRead'
  BY <1>10 DEF EndRead, Ends, MoveEnds, SetMover
<1>11. ASSUME NEW a \in Asker, AskPosition(a) PROVE EndRead'
  BY <1>11 DEF EndRead, Ends, AskPosition, Cross
<1>12. ASSUME NEW a \in Asker, ReadPosition(a) PROVE EndRead'
  BY <1>12 DEF EndRead, Ends, ReadPosition, Cross
<1>13. ASSUME MoveAnswered PROVE EndRead'
  BY <1>13 DEF EndRead, Ends, MoveAnswered
<1>14. ASSUME FocusReadPhp PROVE EndRead'
  BY <1>14 DEF EndRead, Ends, FocusReadPhp
<1>15. ASSUME HandleResponse6 PROVE EndRead'
  BY <1>15 DEF EndRead, Ends, HandleResponse6
<1>16. ASSUME ShowPosition PROVE EndRead'
  BY <1>16 DEF EndRead, Ends, ShowPosition
<1>17. ASSUME ReadCurve PROVE EndRead'
  BY <1>17 DEF EndRead, Ends, ReadCurve
<1>18. ASSUME HandleResponse7 PROVE EndRead'
  BY <1>18 DEF EndRead, Ends, HandleResponse7
<1>19. ASSUME AppendPhp PROVE EndRead'
  BY <1>19 DEF EndRead, Ends, AppendPhp
<1>20. ASSUME CurvePhp PROVE EndRead'
  BY <1>20, CurveGoes DEF EndRead, Ends, CurvePhp
<1>21. ASSUME CurveEmpties PROVE EndRead'
  BY <1>21 DEF EndRead, Ends, CurveEmpties, Go
<1>22. ASSUME CurveUpdate PROVE EndRead'
  BY <1>22 DEF EndRead, Ends, CurveUpdate, Go
<1>23. ASSUME CurvePoint PROVE EndRead'
  BY <1>23 DEF EndRead, Ends, CurvePoint
<1>24. ASSUME CurveSelect PROVE EndRead'
  BY <1>24 DEF EndRead, Ends, CurveSelect, Go
<1>25. ASSUME CurveRun PROVE EndRead'
  BY <1>25 DEF EndRead, Ends, CurveRun, Go
<1>26. ASSUME CurveMark PROVE EndRead'
  BY <1>26 DEF EndRead, Ends, CurveMark, Go
<1>27. ASSUME CurvePoll PROVE EndRead'
  BY <1>27 DEF EndRead, Ends, CurvePoll, Go
<1>28. ASSUME CurveMeasure PROVE EndRead'
  BY <1>28 DEF EndRead, Ends, CurveMeasure
<1>29. ASSUME CurveNext PROVE EndRead'
  BY <1>29 DEF EndRead, Ends, CurveNext, SetMover, Go
<1>30. ASSUME CurveMoved PROVE EndRead'
  BY <1>30 DEF EndRead, Ends, CurveMoved, Go
<1>31. ASSUME KillMovers PROVE EndRead'
  BY <1>31, StopGoesOn DEF EndRead, Ends, KillMovers
<1>32. ASSUME Halt PROVE EndRead'
  BY <1>32, StopGoesOn DEF EndRead, Ends, Halt, Cross
<1>33. ASSUME ClearFocus PROVE EndRead'
  BY <1>33, StopGoesOn DEF EndRead, Ends, ClearFocus
<1>34. ASSUME StopUpdate PROVE EndRead'
  BY <1>34, StopGoesOn DEF EndRead, Ends, StopUpdate
<1>35. ASSUME StopCapture PROVE EndRead'
  BY <1>35, StopGoesOn DEF EndRead, Ends, StopCapture
<1>36. ASSUME StopCcd PROVE EndRead'
  BY <1>36, StopGoesOn DEF EndRead, Ends, StopCcd
<1>37. ASSUME KillCurve PROVE EndRead'
  BY <1>37 DEF EndRead, Ends, KillCurve
<1>38. ASSUME ClickMove PROVE EndRead'
  BY <1>38 DEF EndRead, Ends, ClickMove, Idle, Settled, SetMover
<1>39. ASSUME ClickStop PROVE EndRead'
  BY <1>39 DEF EndRead, Ends, ClickStop, Idle, Begun
<1>40. ASSUME NEW n \in Points, ClickCurve(n) PROVE EndRead'
  BY <1>40 DEF EndRead, Ends, ClickCurve, Idle, Settled
<1>41. CASE UNCHANGED vars
  BY <1>41 DEF EndRead, Ends, vars
<1> QED BY <1>1, <1>2, <1>3, <1>4, <1>5, <1>6, <1>7, <1>8, <1>9, <1>10, <1>11, <1>12, <1>13,
         <1>14, <1>15, <1>16, <1>17, <1>18, <1>19, <1>20, <1>21, <1>22, <1>23, <1>24, <1>25, <1>26,
         <1>27, <1>28, <1>29, <1>30, <1>31, <1>32, <1>33, <1>34, <1>35, <1>36, <1>37, <1>38, <1>39,
         <1>40, <1>41
      DEF Next, MoverStep, CurveStep, StopStep, FocusPage, CurvePage

-----------------------------------------------------------------------------
(* Alone: who starts a program or a query finds none at work.              *)
LEMMA AloneStep == Patient /\ TypeOK /\ OneThing /\ Alone /\ [Next]_vars => Alone'
<1> SUFFICES ASSUME Patient, TypeOK, OneThing, Alone, [Next]_vars PROVE Alone'
  OBVIOUS
<1> USE AutofocusAssumption DEF AutofocusAssumption, NoCurve, NoStop, NoUpdate, fileVars,
      focuserVars, updateVars, cameraVars, curveVars, pageVars
<1>1. ASSUME MotionEnds PROVE Alone'
  BY <1>1 DEF Alone, Active, Mover, Asker, TypeOK, MotionEnds
<1>2. ASSUME Unplug PROVE Alone'
  BY <1>2 DEF Alone, Active, Mover, Asker, TypeOK, Unplug, Happens
<1>3. ASSUME ExposureEnds PROVE Alone'
  BY <1>3 DEF Alone, Active, Mover, Asker, TypeOK, ExposureEnds
<1>4. ASSUME ExposureFails PROVE Alone'
  BY <1>4 DEF Alone, Active, Mover, Asker, TypeOK, ExposureFails, Happens
<1>5. ASSUME NEW m \in Mover, MovePhp(m) PROVE Alone'
  BY <1>5 DEF Alone, Active, Mover, Asker, TypeOK, MovePhp, SetMover
<1>6. ASSUME NEW m \in Mover, Flush(m) PROVE Alone'
  BY <1>6 DEF Alone, Active, Mover, Asker, TypeOK, Flush, Cross
<1>7. ASSUME NEW m \in Mover, MarkFocus(m) PROVE Alone'
  BY <1>7 DEF Alone, Active, Mover, Asker, TypeOK, MarkFocus, SetMover
<1>8. ASSUME NEW m \in Mover, Command(m) PROVE Alone'
  BY <1>8 DEF Alone, Active, Mover, Asker, TypeOK, Command, SetMover
<1>9. ASSUME NEW m \in Mover, AwaitF(m) PROVE Alone'
  BY <1>9 DEF Alone, Active, Mover, Asker, TypeOK, AwaitF, Cross
<1>10. ASSUME NEW m \in Mover, MoveEnds(m) PROVE Alone'
  BY <1>10 DEF Alone, Active, Mover, Asker, TypeOK, MoveEnds, SetMover
<1>11. ASSUME NEW a \in Asker, AskPosition(a) PROVE Alone'
  BY <1>11 DEF Alone, Active, Mover, Asker, TypeOK, AskPosition, Cross
<1>12. ASSUME NEW a \in Asker, ReadPosition(a) PROVE Alone'
  BY <1>12 DEF Alone, Active, Mover, Asker, TypeOK, ReadPosition, Cross
<1>13. ASSUME MoveAnswered PROVE Alone'
  BY <1>13 DEF Alone, Active, Mover, Asker, TypeOK, MoveAnswered
<1>14. ASSUME FocusReadPhp PROVE Alone'
  BY <1>14 DEF Alone, Active, Mover, Asker, TypeOK, FocusReadPhp
<1>15. ASSUME HandleResponse6 PROVE Alone'
  <2>1. CASE xhr = "MMMMM"
    BY <1>15, <2>1 DEF HandleResponse6, Alone, Active
  <2>2. CASE xhr = "SSSSS" /\ flgFocus
    <3>1. ~flgCurve /\ stop = NoStop /\ \A m \in Mover \ {0} : ~Active(m)
      BY <2>2 DEF OneThing, Alone
    <3>2. ~flgCurve' /\ UNCHANGED <<mover, curve>>
      BY <1>15, <3>1 DEF HandleResponse6
    <3> QED BY <3>1, <3>2 DEF Alone, Active
  <2> QED BY <1>15, <2>1, <2>2 DEF HandleResponse6
<1>16. ASSUME ShowPosition PROVE Alone'
  BY <1>16 DEF Alone, Active, Mover, Asker, TypeOK, ShowPosition
<1>17. ASSUME ReadCurve PROVE Alone'
  BY <1>17 DEF Alone, Active, Mover, Asker, TypeOK, ReadCurve
<1>18. ASSUME HandleResponse7 PROVE Alone'
  BY <1>18 DEF Alone, Active, Mover, Asker, TypeOK, HandleResponse7
<1>19. ASSUME AppendPhp PROVE Alone'
  BY <1>19 DEF Alone, Active, Mover, Asker, TypeOK, AppendPhp
<1>20. ASSUME CurvePhp PROVE Alone'
  BY <1>20, CurveGoes DEF Alone, Active, Mover, Asker, TypeOK, CurvePhp, CurvePc
<1>21. ASSUME CurveEmpties PROVE Alone'
  BY <1>21, CurveGoes DEF Alone, Active, Mover, Asker, TypeOK, CurveEmpties, CurvePc
<1>22. ASSUME CurveUpdate PROVE Alone'
  BY <1>22, UpdateStarts, CurveGoes DEF Alone, Active, Mover, Asker, TypeOK, CurveUpdate,
     CurvePc
<1>23. ASSUME CurvePoint PROVE Alone'
  BY <1>23 DEF Alone, Active, Mover, Asker, TypeOK, CurvePoint
<1>24. ASSUME CurveSelect PROVE Alone'
  BY <1>24, CurveGoes DEF Alone, Active, Mover, Asker, TypeOK, CurveSelect, CurvePc
<1>25. ASSUME CurveRun PROVE Alone'
  BY <1>25, CurveGoes DEF Alone, Active, Mover, Asker, TypeOK, CurveRun, CurvePc
<1>26. ASSUME CurveMark PROVE Alone'
  BY <1>26, CurveGoes DEF Alone, Active, Mover, Asker, TypeOK, CurveMark, CurvePc
<1>27. ASSUME CurvePoll PROVE Alone'
  BY <1>27, CurveGoes DEF Alone, Active, Mover, Asker, TypeOK, CurvePoll, CurvePc
<1>28. ASSUME CurveMeasure PROVE Alone'
  BY <1>28 DEF Alone, Active, Mover, Asker, TypeOK, CurveMeasure
<1>29. ASSUME CurveNext PROVE Alone'
  BY <1>29, CurveGoes DEF Alone, Active, Mover, Asker, TypeOK, CurveNext, SetMover, CurvePc
<1>30. ASSUME CurveMoved PROVE Alone'
  BY <1>30, CurveGoes DEF Alone, Active, Mover, Asker, TypeOK, CurveMoved, CurvePc
<1>31. ASSUME KillMovers PROVE Alone'
  BY <1>31, StopGoesOn DEF Alone, Active, Mover, Asker, TypeOK, KillMovers
<1>32. ASSUME Halt PROVE Alone'
  BY <1>32, StopGoesOn DEF Alone, Active, Mover, Asker, TypeOK, Halt, Cross
<1>33. ASSUME ClearFocus PROVE Alone'
  BY <1>33, StopGoesOn DEF Alone, Active, Mover, Asker, TypeOK, ClearFocus
<1>34. ASSUME StopUpdate PROVE Alone'
  <2>1. stop # NoStop /\ stop.do # "kill"
    BY <1>34 DEF StopUpdate
  <2>2. ~flgCurve /\ \A m \in Mover : Undisturbed(m) => ~Active(m)
    BY <2>1, Stopping
  <2>3. ~flgCurve' /\ UNCHANGED <<mover, curve>>
    BY <1>34, <2>2 DEF StopUpdate
  <2> QED BY <2>2, <2>3 DEF Alone, Active, Undisturbed
<1>35. ASSUME StopCapture PROVE Alone'
  BY <1>35, StopGoesOn DEF Alone, Active, Mover, Asker, TypeOK, StopCapture
<1>36. ASSUME StopCcd PROVE Alone'
  BY <1>36, StopGoesOn DEF Alone, Active, Mover, Asker, TypeOK, StopCcd
<1>37. ASSUME KillCurve PROVE Alone'
  <2>1. stop # NoStop /\ stop.do # "kill"
    BY <1>37 DEF KillCurve
  <2>2. ~flgCurve /\ \A m \in Mover : Undisturbed(m) => ~Active(m)
    BY <2>1, Stopping
  <2>3. ~flgCurve' /\ UNCHANGED mover
    BY <1>37, <2>2 DEF KillCurve
  <2> QED BY <2>2, <2>3 DEF Alone, Active, Undisturbed
<1>38. ASSUME ClickMove PROVE Alone'
  <2>1. stop = NoStop /\ curve.pc = "none" /\ ~flgCurve
    BY <1>38 DEF ClickMove, Settled, Idle
  <2>2. /\ \A m \in Mover : mover[m] = "none"
        /\ \A a \in Asker : update[a] = NoUpdate
    BY <1>38 DEF ClickMove, Settled
  <2>3. count'["move"] \in Mover \ {0}
    BY <1>38 DEF ClickMove, Happens, TypeOK, Events, Mover
  <2>4. mover' = [mover EXCEPT ![count'["move"]] = "asked"]
    BY <1>38 DEF ClickMove, SetMover
  <2>5. mover'[0] = "none" /\ \A m \in Mover \ {0} : Active(m)' => m = count'["move"]
    BY <2>2, <2>3, <2>4 DEF TypeOK, Active, Mover
  <2>6. /\ UNCHANGED <<curve, update, stop>>
        /\ ~flgCurve' /\ flgFocus' /\ xhr' = "move"
    BY <1>38, <2>1 DEF ClickMove
  <2> QED BY <2>1, <2>2, <2>5, <2>6 DEF Alone, Active
<1>39. ASSUME ClickStop PROVE Alone'
  BY <1>39 DEF Alone, Active, Mover, Asker, TypeOK, ClickStop, Idle, Begun, Happens
<1>40. ASSUME NEW n \in Points, ClickCurve(n) PROVE Alone'
  BY <1>40 DEF Alone, Active, Mover, Asker, TypeOK, ClickCurve, Idle, Settled, Happens
<1>41. CASE UNCHANGED vars
  BY <1>41 DEF Alone, Active, Mover, Asker, TypeOK, vars
<1> QED BY <1>1, <1>2, <1>3, <1>4, <1>5, <1>6, <1>7, <1>8, <1>9, <1>10, <1>11, <1>12, <1>13,
         <1>14, <1>15, <1>16, <1>17, <1>18, <1>19, <1>20, <1>21, <1>22, <1>23, <1>24, <1>25, <1>26,
         <1>27, <1>28, <1>29, <1>30, <1>31, <1>32, <1>33, <1>34, <1>35, <1>36, <1>37, <1>38, <1>39,
         <1>40, <1>41
      DEF Next, MoverStep, CurveStep, StopStep, FocusPage, CurvePage

-----------------------------------------------------------------------------
(* OwnAnswer: nobody takes an F from a program that waits for it.          *)
LEMMA OwnAnswerStep == Patient /\ TypeOK /\ OneThing /\ Alone /\ OwnAnswer /\ TruePoint /\ [Next]_vars => OwnAnswer'
<1> SUFFICES ASSUME Patient, TypeOK, OneThing, Alone, OwnAnswer, TruePoint, [Next]_vars PROVE OwnAnswer'
  OBVIOUS
<1> USE AutofocusAssumption DEF AutofocusAssumption, NoCurve, NoStop, NoUpdate, fileVars,
      focuserVars, updateVars, cameraVars, curveVars, pageVars
<1>1. ASSUME MotionEnds PROVE OwnAnswer'
  BY <1>1 DEF OwnAnswer, Undisturbed, Still, Alone, Active, Mover, TypeOK, MotionEnds
<1>2. ASSUME Unplug PROVE OwnAnswer'
  BY <1>2 DEF OwnAnswer, Undisturbed, Still, Alone, Active, Mover, TypeOK, Unplug
<1>3. ASSUME ExposureEnds PROVE OwnAnswer'
  BY <1>3 DEF OwnAnswer, Undisturbed, Still, Alone, Active, Mover, TypeOK, ExposureEnds
<1>4. ASSUME ExposureFails PROVE OwnAnswer'
  BY <1>4 DEF OwnAnswer, Undisturbed, Still, Alone, Active, Mover, TypeOK, ExposureFails
<1>5. ASSUME NEW m \in Mover, MovePhp(m) PROVE OwnAnswer'
  BY <1>5 DEF OwnAnswer, Undisturbed, Still, Alone, Active, Mover, TypeOK, MovePhp, SetMover
<1>6. ASSUME NEW m \in Mover, Flush(m) PROVE OwnAnswer'
  BY <1>6 DEF OwnAnswer, Undisturbed, Still, Alone, Active, Mover, TypeOK, Flush, Cross
<1>7. ASSUME NEW m \in Mover, MarkFocus(m) PROVE OwnAnswer'
  BY <1>7 DEF OwnAnswer, Undisturbed, Still, Alone, Active, Mover, TypeOK, MarkFocus, SetMover
<1>8. ASSUME NEW m \in Mover, Command(m) PROVE OwnAnswer'
  BY <1>8 DEF OwnAnswer, Undisturbed, Still, Alone, Active, Mover, TypeOK, Command, SetMover
<1>9. ASSUME NEW m \in Mover, AwaitF(m) PROVE OwnAnswer'
  BY <1>9 DEF OwnAnswer, Undisturbed, Still, Alone, Active, Mover, TypeOK, AwaitF, Cross
<1>10. ASSUME NEW m \in Mover, MoveEnds(m) PROVE OwnAnswer'
  BY <1>10 DEF OwnAnswer, Undisturbed, Still, Alone, Active, Mover, TypeOK, MoveEnds, SetMover
<1>11. ASSUME NEW a \in Asker, AskPosition(a) PROVE OwnAnswer'
  <2>1. update[a] # NoUpdate
    BY <1>11 DEF AskPosition
  <2>2. \A m \in Mover : Undisturbed(m) => mover[m] = "none"
    BY <2>1, Asking DEF Active
  <2>3. UNCHANGED flgCurve /\ \A m \in Mover : mover[m] = "none" => mover'[m] = "none"
    BY <1>11 DEF AskPosition, Cross, TypeOK
  <2> QED BY <2>2, <2>3 DEF OwnAnswer, Undisturbed
<1>12. ASSUME NEW a \in Asker, ReadPosition(a) PROVE OwnAnswer'
  <2>1. update[a] # NoUpdate
    BY <1>12 DEF ReadPosition
  <2>2. \A m \in Mover : Undisturbed(m) => mover[m] = "none"
    BY <2>1, Asking DEF Active
  <2>3. UNCHANGED flgCurve /\ \A m \in Mover : mover[m] = "none" => mover'[m] = "none"
    BY <1>12 DEF ReadPosition, Cross, TypeOK
  <2> QED BY <2>2, <2>3 DEF OwnAnswer, Undisturbed
<1>13. ASSUME MoveAnswered PROVE OwnAnswer'
  BY <1>13 DEF OwnAnswer, Undisturbed, Still, Alone, Active, Mover, TypeOK, MoveAnswered
<1>14. ASSUME FocusReadPhp PROVE OwnAnswer'
  BY <1>14 DEF OwnAnswer, Undisturbed, Still, Alone, Active, Mover, TypeOK, FocusReadPhp
<1>15. ASSUME HandleResponse6 PROVE OwnAnswer'
  BY <1>15 DEF OwnAnswer, Undisturbed, Still, Alone, Active, Mover, TypeOK, HandleResponse6
<1>16. ASSUME ShowPosition PROVE OwnAnswer'
  BY <1>16 DEF OwnAnswer, Undisturbed, Still, Alone, Active, Mover, TypeOK, ShowPosition
<1>17. ASSUME ReadCurve PROVE OwnAnswer'
  BY <1>17 DEF OwnAnswer, Undisturbed, Still, Alone, Active, Mover, TypeOK, ReadCurve
<1>18. ASSUME HandleResponse7 PROVE OwnAnswer'
  BY <1>18 DEF OwnAnswer, Undisturbed, Still, Alone, Active, Mover, TypeOK, HandleResponse7
<1>19. ASSUME AppendPhp PROVE OwnAnswer'
  BY <1>19 DEF OwnAnswer, Undisturbed, Still, Alone, Active, Mover, TypeOK, AppendPhp
<1>20. ASSUME CurvePhp PROVE OwnAnswer'
  BY <1>20, CurveGoes DEF OwnAnswer, Undisturbed, Still, Alone, Active, Mover, TypeOK, CurvePhp,
     CurvePc
<1>21. ASSUME CurveEmpties PROVE OwnAnswer'
  BY <1>21, CurveGoes DEF OwnAnswer, Undisturbed, Still, Alone, Active, Mover, TypeOK,
     CurveEmpties, CurvePc
<1>22. ASSUME CurveUpdate PROVE OwnAnswer'
  BY <1>22, CurveGoes DEF OwnAnswer, Undisturbed, Still, Alone, Active, Mover, TypeOK,
     CurveUpdate, CurvePc
<1>23. ASSUME CurvePoint PROVE OwnAnswer'
  BY <1>23 DEF OwnAnswer, Undisturbed, Still, Alone, Active, Mover, TypeOK, CurvePoint
<1>24. ASSUME CurveSelect PROVE OwnAnswer'
  BY <1>24, CurveGoes DEF OwnAnswer, Undisturbed, Still, Alone, Active, Mover, TypeOK,
     CurveSelect, CurvePc
<1>25. ASSUME CurveRun PROVE OwnAnswer'
  BY <1>25, CurveGoes DEF OwnAnswer, Undisturbed, Still, Alone, Active, Mover, TypeOK, CurveRun,
     CurvePc
<1>26. ASSUME CurveMark PROVE OwnAnswer'
  BY <1>26, CurveGoes DEF OwnAnswer, Undisturbed, Still, Alone, Active, Mover, TypeOK,
     CurveMark, CurvePc
<1>27. ASSUME CurvePoll PROVE OwnAnswer'
  BY <1>27, CurveGoes DEF OwnAnswer, Undisturbed, Still, Alone, Active, Mover, TypeOK,
     CurvePoll, CurvePc
<1>28. ASSUME CurveMeasure PROVE OwnAnswer'
  BY <1>28 DEF OwnAnswer, Undisturbed, Still, Alone, Active, Mover, TypeOK, CurveMeasure
<1>29. ASSUME CurveNext PROVE OwnAnswer'
  <2>1. curve.pc = "next" /\ UNCHANGED <<flgCurve, focuserVars, statusFocus>>
    BY <1>29 DEF CurveNext
  <2>2. flgCurve => ~Active(0) /\ Still
    BY <2>1 DEF Alone, TruePoint
  <2>3. CASE UNCHANGED mover
    BY <2>1, <2>3 DEF OwnAnswer, Undisturbed, Still
  <2>4. CASE mover' = [mover EXCEPT ![0] = "new"]
    <3>1. \A m \in Mover \ {0} : mover'[m] = mover[m]
      BY <2>4 DEF TypeOK
    <3>2. mover'[0] = "new"
      BY <2>4 DEF TypeOK, Mover
    <3>3. ASSUME NEW m \in Mover, Undisturbed(m)'
          PROVE  IF m = 0 THEN flgCurve ELSE Undisturbed(m)
      BY <2>1, <3>3 DEF Undisturbed
    <3> QED BY <2>1, <2>2, <3>1, <3>2, <3>3 DEF OwnAnswer, Still
  <2> QED BY <1>29, <2>3, <2>4 DEF CurveNext, SetMover
<1>30. ASSUME CurveMoved PROVE OwnAnswer'
  BY <1>30, CurveGoes DEF OwnAnswer, Undisturbed, Still, Alone, Active, Mover, TypeOK,
     CurveMoved, CurvePc
<1>31. ASSUME KillMovers PROVE OwnAnswer'
  BY <1>31, StopGoesOn DEF OwnAnswer, Undisturbed, Still, Alone, Active, Mover, TypeOK,
     KillMovers
<1>32. ASSUME Halt PROVE OwnAnswer'
  <2>1. stop # NoStop /\ stop.do # "kill"
    BY <1>32 DEF Halt
  <2>2. ~flgCurve /\ \A m \in Mover : Undisturbed(m) => ~Active(m)
    BY <2>1, Stopping
  <2>3. ~flgCurve' /\ \A m \in Mover : mover[m] = "none" => mover'[m] = "none"
    BY <1>32, <2>2 DEF Halt, Cross, TypeOK
  <2> QED BY <2>2, <2>3 DEF OwnAnswer, Undisturbed, Active
<1>33. ASSUME ClearFocus PROVE OwnAnswer'
  <2>1. stop # NoStop /\ stop.do # "kill"
    BY <1>33 DEF ClearFocus
  <2>2. ~flgCurve /\ \A m \in Mover : Undisturbed(m) => ~Active(m)
    BY <2>1, Stopping
  <2>3. ~flgCurve' /\ UNCHANGED mover
    BY <1>33, <2>2 DEF ClearFocus
  <2> QED BY <2>2, <2>3 DEF OwnAnswer, Undisturbed, Active
<1>34. ASSUME StopUpdate PROVE OwnAnswer'
  BY <1>34, StopGoesOn DEF OwnAnswer, Undisturbed, Still, Alone, Active, Mover, TypeOK,
     StopUpdate
<1>35. ASSUME StopCapture PROVE OwnAnswer'
  BY <1>35, StopGoesOn DEF OwnAnswer, Undisturbed, Still, Alone, Active, Mover, TypeOK,
     StopCapture
<1>36. ASSUME StopCcd PROVE OwnAnswer'
  BY <1>36, StopGoesOn DEF OwnAnswer, Undisturbed, Still, Alone, Active, Mover, TypeOK, StopCcd
<1>37. ASSUME KillCurve PROVE OwnAnswer'
  BY <1>37 DEF OwnAnswer, Undisturbed, Still, Alone, Active, Mover, TypeOK, KillCurve
<1>38. ASSUME ClickMove PROVE OwnAnswer'
  BY <1>38 DEF OwnAnswer, Undisturbed, Still, Alone, Active, Mover, TypeOK, ClickMove, Idle,
     Settled, SetMover
<1>39. ASSUME ClickStop PROVE OwnAnswer'
  BY <1>39 DEF OwnAnswer, Undisturbed, Still, Alone, Active, Mover, TypeOK, ClickStop, Idle,
     Begun
<1>40. ASSUME NEW n \in Points, ClickCurve(n) PROVE OwnAnswer'
  BY <1>40 DEF OwnAnswer, Undisturbed, Still, Alone, Active, Mover, TypeOK, ClickCurve, Idle,
     Settled
<1>41. CASE UNCHANGED vars
  BY <1>41 DEF OwnAnswer, Undisturbed, Still, Alone, Active, Mover, TypeOK, vars
<1> QED BY <1>1, <1>2, <1>3, <1>4, <1>5, <1>6, <1>7, <1>8, <1>9, <1>10, <1>11, <1>12, <1>13,
         <1>14, <1>15, <1>16, <1>17, <1>18, <1>19, <1>20, <1>21, <1>22, <1>23, <1>24, <1>25, <1>26,
         <1>27, <1>28, <1>29, <1>30, <1>31, <1>32, <1>33, <1>34, <1>35, <1>36, <1>37, <1>38, <1>39,
         <1>40, <1>41
      DEF Next, MoverStep, CurveStep, StopStep, FocusPage, CurvePage

-----------------------------------------------------------------------------
(* Cleared: after focus_stop only vcurve's program can move the focuser.   *)
LEMMA ClearedStep == TypeOK /\ OneThing /\ Alone /\ Cleared /\ [Next]_vars => Cleared'
<1> SUFFICES ASSUME TypeOK, OneThing, Alone, Cleared, [Next]_vars PROVE Cleared'
  OBVIOUS
<1> USE AutofocusAssumption DEF AutofocusAssumption, NoCurve, NoStop, NoUpdate, fileVars,
      focuserVars, updateVars, cameraVars, curveVars, pageVars
<1>1. ASSUME MotionEnds PROVE Cleared'
  BY <1>1 DEF Cleared, Active, Alone, Mover, TypeOK, MotionEnds
<1>2. ASSUME Unplug PROVE Cleared'
  BY <1>2 DEF Cleared, Active, Alone, Mover, TypeOK, Unplug
<1>3. ASSUME ExposureEnds PROVE Cleared'
  BY <1>3 DEF Cleared, Active, Alone, Mover, TypeOK, ExposureEnds
<1>4. ASSUME ExposureFails PROVE Cleared'
  BY <1>4 DEF Cleared, Active, Alone, Mover, TypeOK, ExposureFails
<1>5. ASSUME NEW m \in Mover, MovePhp(m) PROVE Cleared'
  BY <1>5 DEF Cleared, Active, Alone, Mover, TypeOK, MovePhp, SetMover
<1>6. ASSUME NEW m \in Mover, Flush(m) PROVE Cleared'
  BY <1>6 DEF Cleared, Active, Alone, Mover, TypeOK, Flush, Cross
<1>7. ASSUME NEW m \in Mover, MarkFocus(m) PROVE Cleared'
  <2>1. CASE m = 0
    BY <1>7, <2>1 DEF MarkFocus, SetMover, Cleared, Active, TypeOK
  <2>2. CASE m # 0
    <3>1. Active(m) /\ UNCHANGED stop
      BY <1>7 DEF MarkFocus, Active
    <3>2. stop.do # "clear"
      BY <2>2, <3>1, Stopping DEF Undisturbed, NoStop
    <3> QED BY <3>1, <3>2 DEF Cleared
  <2> QED BY <2>1, <2>2
<1>8. ASSUME NEW m \in Mover, Command(m) PROVE Cleared'
  <2>1. CASE m = 0
    BY <1>8, <2>1 DEF Command, SetMover, Cleared, Active, TypeOK
  <2>2. CASE m # 0
    <3>1. Active(m) /\ UNCHANGED stop
      BY <1>8 DEF Command, Active
    <3>2. stop.do # "clear"
      BY <2>2, <3>1, Stopping DEF Undisturbed, NoStop
    <3> QED BY <3>1, <3>2 DEF Cleared
  <2> QED BY <2>1, <2>2
<1>9. ASSUME NEW m \in Mover, AwaitF(m) PROVE Cleared'
  BY <1>9 DEF Cleared, Active, Alone, Mover, TypeOK, AwaitF, Cross
<1>10. ASSUME NEW m \in Mover, MoveEnds(m) PROVE Cleared'
  BY <1>10 DEF Cleared, Active, Alone, Mover, TypeOK, MoveEnds, SetMover
<1>11. ASSUME NEW a \in Asker, AskPosition(a) PROVE Cleared'
  BY <1>11 DEF Cleared, Active, Alone, Mover, TypeOK, AskPosition, Cross
<1>12. ASSUME NEW a \in Asker, ReadPosition(a) PROVE Cleared'
  BY <1>12 DEF Cleared, Active, Alone, Mover, TypeOK, ReadPosition, Cross
<1>13. ASSUME MoveAnswered PROVE Cleared'
  BY <1>13 DEF Cleared, Active, Alone, Mover, TypeOK, MoveAnswered
<1>14. ASSUME FocusReadPhp PROVE Cleared'
  BY <1>14 DEF Cleared, Active, Alone, Mover, TypeOK, FocusReadPhp
<1>15. ASSUME HandleResponse6 PROVE Cleared'
  BY <1>15 DEF Cleared, Active, Alone, Mover, TypeOK, HandleResponse6
<1>16. ASSUME ShowPosition PROVE Cleared'
  BY <1>16 DEF Cleared, Active, Alone, Mover, TypeOK, ShowPosition
<1>17. ASSUME ReadCurve PROVE Cleared'
  BY <1>17 DEF Cleared, Active, Alone, Mover, TypeOK, ReadCurve
<1>18. ASSUME HandleResponse7 PROVE Cleared'
  BY <1>18 DEF Cleared, Active, Alone, Mover, TypeOK, HandleResponse7
<1>19. ASSUME AppendPhp PROVE Cleared'
  BY <1>19 DEF Cleared, Active, Alone, Mover, TypeOK, AppendPhp
<1>20. ASSUME CurvePhp PROVE Cleared'
  BY <1>20, CurveGoes DEF Cleared, Active, Alone, Mover, TypeOK, CurvePhp, CurvePc
<1>21. ASSUME CurveEmpties PROVE Cleared'
  BY <1>21, CurveGoes DEF Cleared, Active, Alone, Mover, TypeOK, CurveEmpties, CurvePc
<1>22. ASSUME CurveUpdate PROVE Cleared'
  BY <1>22, CurveGoes DEF Cleared, Active, Alone, Mover, TypeOK, CurveUpdate, CurvePc
<1>23. ASSUME CurvePoint PROVE Cleared'
  BY <1>23 DEF Cleared, Active, Alone, Mover, TypeOK, CurvePoint
<1>24. ASSUME CurveSelect PROVE Cleared'
  BY <1>24, CurveGoes DEF Cleared, Active, Alone, Mover, TypeOK, CurveSelect, CurvePc
<1>25. ASSUME CurveRun PROVE Cleared'
  BY <1>25, CurveGoes DEF Cleared, Active, Alone, Mover, TypeOK, CurveRun, CurvePc
<1>26. ASSUME CurveMark PROVE Cleared'
  BY <1>26, CurveGoes DEF Cleared, Active, Alone, Mover, TypeOK, CurveMark, CurvePc
<1>27. ASSUME CurvePoll PROVE Cleared'
  BY <1>27, CurveGoes DEF Cleared, Active, Alone, Mover, TypeOK, CurvePoll, CurvePc
<1>28. ASSUME CurveMeasure PROVE Cleared'
  BY <1>28 DEF Cleared, Active, Alone, Mover, TypeOK, CurveMeasure
<1>29. ASSUME CurveNext PROVE Cleared'
  BY <1>29, CurveGoes DEF Cleared, Active, Alone, Mover, TypeOK, CurveNext, SetMover, CurvePc
<1>30. ASSUME CurveMoved PROVE Cleared'
  BY <1>30, CurveGoes DEF Cleared, Active, Alone, Mover, TypeOK, CurveMoved, CurvePc
<1>31. ASSUME KillMovers PROVE Cleared'
  BY <1>31, StopGoesOn DEF Cleared, Active, Alone, Mover, TypeOK, KillMovers
<1>32. ASSUME Halt PROVE Cleared'
  BY <1>32, StopGoesOn DEF Cleared, Active, Alone, Mover, TypeOK, Halt, Cross
<1>33. ASSUME ClearFocus PROVE Cleared'
  BY <1>33, StopGoesOn DEF Cleared, Active, Alone, Mover, TypeOK, ClearFocus
<1>34. ASSUME StopUpdate PROVE Cleared'
  BY <1>34, StopGoesOn DEF Cleared, Active, Alone, Mover, TypeOK, StopUpdate
<1>35. ASSUME StopCapture PROVE Cleared'
  <2>1. CASE GoOn
    BY <1>35, <2>1, StopGoesOn DEF StopCapture, Cleared
  <2>2. CASE stop' = [stop EXCEPT !.do = "ccd"] /\ stop.do = "STOP"
    BY <2>2 DEF TypeOK, Stops, Cleared
  <2> QED BY <1>35, <2>1, <2>2 DEF StopCapture
<1>36. ASSUME StopCcd PROVE Cleared'
  BY <1>36, StopGoesOn DEF Cleared, Active, Alone, Mover, TypeOK, StopCcd
<1>37. ASSUME KillCurve PROVE Cleared'
  BY <1>37 DEF Cleared, Active, Alone, Mover, TypeOK, KillCurve
<1>38. ASSUME ClickMove PROVE Cleared'
  BY <1>38 DEF Cleared, Active, Alone, Mover, TypeOK, ClickMove, Idle, Settled, SetMover
<1>39. ASSUME ClickStop PROVE Cleared'
  BY <1>39 DEF Cleared, Active, Alone, Mover, TypeOK, ClickStop, Idle, Begun
<1>40. ASSUME NEW n \in Points, ClickCurve(n) PROVE Cleared'
  BY <1>40 DEF Cleared, Active, Alone, Mover, TypeOK, ClickCurve, Idle, Settled
<1>41. CASE UNCHANGED vars
  BY <1>41 DEF Cleared, Active, Alone, Mover, TypeOK, vars
<1> QED BY <1>1, <1>2, <1>3, <1>4, <1>5, <1>6, <1>7, <1>8, <1>9, <1>10, <1>11, <1>12, <1>13,
         <1>14, <1>15, <1>16, <1>17, <1>18, <1>19, <1>20, <1>21, <1>22, <1>23, <1>24, <1>25, <1>26,
         <1>27, <1>28, <1>29, <1>30, <1>31, <1>32, <1>33, <1>34, <1>35, <1>36, <1>37, <1>38, <1>39,
         <1>40, <1>41
      DEF Next, MoverStep, CurveStep, StopStep, FocusPage, CurvePage

-----------------------------------------------------------------------------
(* TruePoint: vcurve asks, exposes and measures while nothing moves.       *)
LEMMA TruePointStep == Patient /\ TypeOK /\ OneThing /\ Alone /\ OwnAnswer /\ TruePoint /\ [Next]_vars => TruePoint'
<1> SUFFICES ASSUME Patient, TypeOK, OneThing, Alone, OwnAnswer, TruePoint, [Next]_vars PROVE TruePoint'
  OBVIOUS
<1> USE AutofocusAssumption DEF AutofocusAssumption, NoCurve, NoStop, NoUpdate, fileVars,
      focuserVars, updateVars, cameraVars, curveVars, pageVars
<1>1. ASSUME MotionEnds PROVE TruePoint'
  BY <1>1 DEF TruePoint, Still, Active, Alone, Mover, Asker, TypeOK, MotionEnds
<1>2. ASSUME Unplug PROVE TruePoint'
  BY <1>2 DEF TruePoint, Still, Active, Alone, Mover, Asker, TypeOK, Unplug
<1>3. ASSUME ExposureEnds PROVE TruePoint'
  BY <1>3 DEF TruePoint, Still, Active, Alone, Mover, Asker, TypeOK, ExposureEnds
<1>4. ASSUME ExposureFails PROVE TruePoint'
  BY <1>4 DEF TruePoint, Still, Active, Alone, Mover, Asker, TypeOK, ExposureFails
<1>5. ASSUME NEW m \in Mover, MovePhp(m) PROVE TruePoint'
  BY <1>5 DEF TruePoint, Still, Active, Alone, Mover, Asker, TypeOK, MovePhp, SetMover
<1>6. ASSUME NEW m \in Mover, Flush(m) PROVE TruePoint'
  BY <1>6 DEF TruePoint, Still, Active, Alone, Mover, Asker, TypeOK, Flush, Cross
<1>7. ASSUME NEW m \in Mover, MarkFocus(m) PROVE TruePoint'
  BY <1>7 DEF TruePoint, Still, Active, Alone, Mover, Asker, TypeOK, MarkFocus, SetMover
<1>8. ASSUME NEW m \in Mover, Command(m) PROVE TruePoint'
  BY <1>8 DEF TruePoint, Still, Active, Alone, Mover, Asker, TypeOK, Command, SetMover
<1>9. ASSUME NEW m \in Mover, AwaitF(m) PROVE TruePoint'
  BY <1>9 DEF TruePoint, Still, Active, Alone, Mover, Asker, TypeOK, AwaitF, Cross
<1>10. ASSUME NEW m \in Mover, MoveEnds(m) PROVE TruePoint'
  <2>1. mover[m] = "done" /\ UNCHANGED <<statusCapture, focuserVars, updateVars, cameraVars,
                                          curveVars, pageVars>>
    BY <1>10 DEF MoveEnds
  <2>2. curve.pc = "moving" /\ flgCurve => Still
    <3>1. m # 0 => curve.pc = "none"
      BY <2>1 DEF Alone, Active
    <3> QED BY <2>1, <3>1 DEF OwnAnswer, Undisturbed
  <2> QED BY <2>1, <2>2 DEF TruePoint, Still
<1>11. ASSUME NEW a \in Asker, AskPosition(a) PROVE TruePoint'
  BY <1>11 DEF TruePoint, Still, Active, Alone, Mover, Asker, TypeOK, AskPosition, Cross
<1>12. ASSUME NEW a \in Asker, ReadPosition(a) PROVE TruePoint'
  BY <1>12 DEF TruePoint, Still, Active, Alone, Mover, Asker, TypeOK, ReadPosition, Cross
<1>13. ASSUME MoveAnswered PROVE TruePoint'
  BY <1>13 DEF TruePoint, Still, Active, Alone, Mover, Asker, TypeOK, MoveAnswered
<1>14. ASSUME FocusReadPhp PROVE TruePoint'
  BY <1>14 DEF TruePoint, Still, Active, Alone, Mover, Asker, TypeOK, FocusReadPhp
<1>15. ASSUME HandleResponse6 PROVE TruePoint'
  BY <1>15, UpdateStarts DEF TruePoint, Still, Active, Alone, Mover, Asker, TypeOK,
     HandleResponse6
<1>16. ASSUME ShowPosition PROVE TruePoint'
  BY <1>16 DEF TruePoint, Still, Active, Alone, Mover, Asker, TypeOK, ShowPosition
<1>17. ASSUME ReadCurve PROVE TruePoint'
  BY <1>17 DEF TruePoint, Still, Active, Alone, Mover, Asker, TypeOK, ReadCurve
<1>18. ASSUME HandleResponse7 PROVE TruePoint'
  BY <1>18 DEF TruePoint, Still, Active, Alone, Mover, Asker, TypeOK, HandleResponse7
<1>19. ASSUME AppendPhp PROVE TruePoint'
  BY <1>19 DEF TruePoint, Still, Active, Alone, Mover, Asker, TypeOK, AppendPhp
<1>20. ASSUME CurvePhp PROVE TruePoint'
  BY <1>20, CurveGoes DEF TruePoint, Still, Active, Alone, Mover, Asker, TypeOK, CurvePhp,
     CurvePc
<1>21. ASSUME CurveEmpties PROVE TruePoint'
  BY <1>21, CurveGoes DEF TruePoint, Still, Active, Alone, Mover, Asker, TypeOK, CurveEmpties,
     CurvePc
<1>22. ASSUME CurveUpdate PROVE TruePoint'
  BY <1>22, UpdateStarts, CurveGoes DEF TruePoint, Still, Active, Alone, Mover, Asker, TypeOK,
     CurveUpdate, CurvePc
<1>23. ASSUME CurvePoint PROVE TruePoint'
  BY <1>23 DEF TruePoint, Still, Active, Alone, Mover, Asker, TypeOK, CurvePoint
<1>24. ASSUME CurveSelect PROVE TruePoint'
  BY <1>24, CurveGoes DEF TruePoint, Still, Active, Alone, Mover, Asker, TypeOK, CurveSelect,
     CurvePc
<1>25. ASSUME CurveRun PROVE TruePoint'
  BY <1>25, CurveGoes DEF TruePoint, Still, Active, Alone, Mover, Asker, TypeOK, CurveRun,
     CurvePc
<1>26. ASSUME CurveMark PROVE TruePoint'
  BY <1>26, CurveGoes DEF TruePoint, Still, Active, Alone, Mover, Asker, TypeOK, CurveMark,
     CurvePc
<1>27. ASSUME CurvePoll PROVE TruePoint'
  BY <1>27, CurveGoes DEF TruePoint, Still, Active, Alone, Mover, Asker, TypeOK, CurvePoll,
     CurvePc
<1>28. ASSUME CurveMeasure PROVE TruePoint'
  BY <1>28 DEF TruePoint, Still, Active, Alone, Mover, Asker, TypeOK, CurveMeasure
<1>29. ASSUME CurveNext PROVE TruePoint'
  BY <1>29, CurveGoes DEF TruePoint, Still, Active, Alone, Mover, Asker, TypeOK, CurveNext,
     SetMover, CurvePc
<1>30. ASSUME CurveMoved PROVE TruePoint'
  BY <1>30, CurveGoes DEF TruePoint, Still, Active, Alone, Mover, Asker, TypeOK, CurveMoved,
     CurvePc
<1>31. ASSUME KillMovers PROVE TruePoint'
  <2>1. stop # NoStop
    BY <1>31 DEF KillMovers
  <2>2. ~flgCurve'
    BY <1>31, <2>1, Stopping DEF KillMovers
  <2> QED BY <2>2 DEF TruePoint
<1>32. ASSUME Halt PROVE TruePoint'
  BY <1>32, StopGoesOn DEF TruePoint, Still, Active, Alone, Mover, Asker, TypeOK, Halt, Cross
<1>33. ASSUME ClearFocus PROVE TruePoint'
  BY <1>33, StopGoesOn DEF TruePoint, Still, Active, Alone, Mover, Asker, TypeOK, ClearFocus
<1>34. ASSUME StopUpdate PROVE TruePoint'
  BY <1>34, UpdateStarts, StopGoesOn DEF TruePoint, Still, Active, Alone, Mover, Asker, TypeOK,
     StopUpdate
<1>35. ASSUME StopCapture PROVE TruePoint'
  <2>1. stop # NoStop
    BY <1>35 DEF StopCapture
  <2>2. ~flgCurve'
    BY <1>35, <2>1, Stopping DEF StopCapture
  <2> QED BY <2>2 DEF TruePoint
<1>36. ASSUME StopCcd PROVE TruePoint'
  BY <1>36, StopGoesOn DEF TruePoint, Still, Active, Alone, Mover, Asker, TypeOK, StopCcd
<1>37. ASSUME KillCurve PROVE TruePoint'
  <2>1. stop # NoStop
    BY <1>37 DEF KillCurve
  <2>2. ~flgCurve'
    BY <1>37, <2>1, Stopping DEF KillCurve
  <2> QED BY <2>2 DEF TruePoint
<1>38. ASSUME ClickMove PROVE TruePoint'
  BY <1>38 DEF TruePoint, Still, Active, Alone, Mover, Asker, TypeOK, ClickMove, Idle, Settled,
     SetMover
<1>39. ASSUME ClickStop PROVE TruePoint'
  BY <1>39 DEF TruePoint, Still, Active, Alone, Mover, Asker, TypeOK, ClickStop, Idle, Begun
<1>40. ASSUME NEW n \in Points, ClickCurve(n) PROVE TruePoint'
  BY <1>40 DEF TruePoint, Still, Active, Alone, Mover, Asker, TypeOK, ClickCurve, Idle, Settled
<1>41. CASE UNCHANGED vars
  BY <1>41 DEF TruePoint, Still, Active, Alone, Mover, Asker, TypeOK, vars
<1> QED BY <1>1, <1>2, <1>3, <1>4, <1>5, <1>6, <1>7, <1>8, <1>9, <1>10, <1>11, <1>12, <1>13,
         <1>14, <1>15, <1>16, <1>17, <1>18, <1>19, <1>20, <1>21, <1>22, <1>23, <1>24, <1>25, <1>26,
         <1>27, <1>28, <1>29, <1>30, <1>31, <1>32, <1>33, <1>34, <1>35, <1>36, <1>37, <1>38, <1>39,
         <1>40, <1>41
      DEF Next, MoverStep, CurveStep, StopStep, FocusPage, CurvePage

-----------------------------------------------------------------------------
(* GuardedMotion: who moves the focuser has marked the file, and who takes *)
(* it away finds the focuser still.                                        *)
LEMMA GuardedStep == TypeOK /\ OneThing /\ Alone /\ OwnAnswer /\ Cleared /\ [Next]_vars => Guarded
<1> SUFFICES ASSUME TypeOK, OneThing, Alone, OwnAnswer, Cleared, [Next]_vars PROVE Guarded
  OBVIOUS
<1> USE AutofocusAssumption DEF AutofocusAssumption, NoCurve, NoStop, NoUpdate, fileVars,
      focuserVars, updateVars, cameraVars, curveVars, pageVars
<1>1. ASSUME MotionEnds PROVE Guarded
  BY <1>1 DEF Guarded, MotionEnds
<1>2. ASSUME Unplug PROVE Guarded
  BY <1>2 DEF Guarded, Unplug
<1>3. ASSUME ExposureEnds PROVE Guarded
  BY <1>3 DEF Guarded, ExposureEnds
<1>4. ASSUME ExposureFails PROVE Guarded
  BY <1>4 DEF Guarded, ExposureFails
<1>5. ASSUME NEW m \in Mover, MovePhp(m) PROVE Guarded
  BY <1>5 DEF Guarded, MovePhp, SetMover
<1>6. ASSUME NEW m \in Mover, Flush(m) PROVE Guarded
  BY <1>6 DEF Guarded, Flush, Cross
<1>7. ASSUME NEW m \in Mover, MarkFocus(m) PROVE Guarded
  BY <1>7 DEF Guarded, MarkFocus, SetMover
<1>8. ASSUME NEW m \in Mover, Command(m) PROVE Guarded
  <2>1. Undisturbed(m) \/ Overtaken
    <3>1. CASE m = 0 /\ ~flgCurve
      <4>1. mover[0] # "none"
        BY <1>8, <3>1 DEF Command
      <4>2. CASE curve.pc = "none"
        BY <4>1, <4>2 DEF OneThing, Overtaken
      <4>3. CASE curve.pc # "none"
        BY <3>1, <4>1, <4>3 DEF OneThing, Overtaken
      <4> QED BY <4>2, <4>3
    <3> QED BY <3>1 DEF Undisturbed
  <2> QED BY <1>8, <2>1 DEF Command, OwnAnswer, Guarded
<1>9. ASSUME NEW m \in Mover, AwaitF(m) PROVE Guarded
  BY <1>9 DEF Guarded, AwaitF, Cross
<1>10. ASSUME NEW m \in Mover, MoveEnds(m) PROVE Guarded
  <2>1. Undisturbed(m) \/ Overtaken
    <3>1. CASE m = 0 /\ ~flgCurve
      <4>1. mover[0] # "none"
        BY <1>10, <3>1 DEF MoveEnds
      <4>2. CASE curve.pc = "none"
        BY <4>1, <4>2 DEF OneThing, Overtaken
      <4>3. CASE curve.pc # "none"
        BY <3>1, <4>1, <4>3 DEF OneThing, Overtaken
      <4> QED BY <4>2, <4>3
    <3> QED BY <3>1 DEF Undisturbed
  <2> QED BY <1>10, <2>1 DEF MoveEnds, OwnAnswer, Guarded, Still
<1>11. ASSUME NEW a \in Asker, AskPosition(a) PROVE Guarded
  BY <1>11 DEF Guarded, AskPosition, Cross
<1>12. ASSUME NEW a \in Asker, ReadPosition(a) PROVE Guarded
  BY <1>12 DEF Guarded, ReadPosition, Cross
<1>13. ASSUME MoveAnswered PROVE Guarded
  BY <1>13 DEF Guarded, MoveAnswered
<1>14. ASSUME FocusReadPhp PROVE Guarded
  BY <1>14 DEF Guarded, FocusReadPhp
<1>15. ASSUME HandleResponse6 PROVE Guarded
  BY <1>15 DEF Guarded, HandleResponse6
<1>16. ASSUME ShowPosition PROVE Guarded
  BY <1>16 DEF Guarded, ShowPosition
<1>17. ASSUME ReadCurve PROVE Guarded
  BY <1>17 DEF Guarded, ReadCurve
<1>18. ASSUME HandleResponse7 PROVE Guarded
  BY <1>18 DEF Guarded, HandleResponse7
<1>19. ASSUME AppendPhp PROVE Guarded
  BY <1>19 DEF Guarded, AppendPhp
<1>20. ASSUME CurvePhp PROVE Guarded
  BY <1>20 DEF Guarded, CurvePhp, Go
<1>21. ASSUME CurveEmpties PROVE Guarded
  BY <1>21 DEF Guarded, CurveEmpties, Go
<1>22. ASSUME CurveUpdate PROVE Guarded
  BY <1>22 DEF Guarded, CurveUpdate, Go
<1>23. ASSUME CurvePoint PROVE Guarded
  BY <1>23 DEF Guarded, CurvePoint
<1>24. ASSUME CurveSelect PROVE Guarded
  BY <1>24 DEF Guarded, CurveSelect, Go
<1>25. ASSUME CurveRun PROVE Guarded
  BY <1>25 DEF Guarded, CurveRun, Go
<1>26. ASSUME CurveMark PROVE Guarded
  BY <1>26 DEF Guarded, CurveMark, Go
<1>27. ASSUME CurvePoll PROVE Guarded
  BY <1>27 DEF Guarded, CurvePoll, Go
<1>28. ASSUME CurveMeasure PROVE Guarded
  BY <1>28 DEF Guarded, CurveMeasure
<1>29. ASSUME CurveNext PROVE Guarded
  BY <1>29 DEF Guarded, CurveNext, SetMover, Go
<1>30. ASSUME CurveMoved PROVE Guarded
  BY <1>30 DEF Guarded, CurveMoved, Go
<1>31. ASSUME KillMovers PROVE Guarded
  BY <1>31, StopGoesOn DEF Guarded, KillMovers
<1>32. ASSUME Halt PROVE Guarded
  BY <1>32, StopGoesOn DEF Guarded, Halt, Cross
<1>33. ASSUME ClearFocus PROVE Guarded
  <2>1. stop.do = "clear" /\ stop # NoStop /\ UNCHANGED focuser
    BY <1>33 DEF ClearFocus
  <2> QED BY <2>1 DEF Cleared, Overtaken, Guarded, Active
<1>34. ASSUME StopUpdate PROVE Guarded
  BY <1>34, StopGoesOn DEF Guarded, StopUpdate
<1>35. ASSUME StopCapture PROVE Guarded
  BY <1>35, StopGoesOn DEF Guarded, StopCapture
<1>36. ASSUME StopCcd PROVE Guarded
  BY <1>36, StopGoesOn DEF Guarded, StopCcd
<1>37. ASSUME KillCurve PROVE Guarded
  BY <1>37 DEF Guarded, KillCurve
<1>38. ASSUME ClickMove PROVE Guarded
  BY <1>38 DEF Guarded, ClickMove, Idle, Settled, SetMover
<1>39. ASSUME ClickStop PROVE Guarded
  BY <1>39 DEF Guarded, ClickStop, Idle, Begun
<1>40. ASSUME NEW n \in Points, ClickCurve(n) PROVE Guarded
  BY <1>40 DEF Guarded, ClickCurve, Idle, Settled
<1>41. CASE UNCHANGED vars
  BY <1>41 DEF Guarded, vars
<1> QED BY <1>1, <1>2, <1>3, <1>4, <1>5, <1>6, <1>7, <1>8, <1>9, <1>10, <1>11, <1>12, <1>13,
         <1>14, <1>15, <1>16, <1>17, <1>18, <1>19, <1>20, <1>21, <1>22, <1>23, <1>24, <1>25, <1>26,
         <1>27, <1>28, <1>29, <1>30, <1>31, <1>32, <1>33, <1>34, <1>35, <1>36, <1>37, <1>38, <1>39,
         <1>40, <1>41
      DEF Next, MoverStep, CurveStep, StopStep, FocusPage, CurvePage

-----------------------------------------------------------------------------
(* PointsTrue: only CurveMeasure adds a point.                             *)
LEMMA TrueStep == TypeOK /\ TruePoint /\ [Next]_vars => AddedTrue
<1> SUFFICES ASSUME TypeOK, TruePoint, [Next]_vars PROVE AddedTrue
  OBVIOUS
<1> USE AutofocusAssumption DEF AutofocusAssumption, NoCurve, NoStop, NoUpdate, fileVars,
      focuserVars, updateVars, cameraVars, curveVars, pageVars
<1>1. ASSUME MotionEnds PROVE AddedTrue
  BY <1>1 DEF AddedTrue, MotionEnds
<1>2. ASSUME Unplug PROVE AddedTrue
  BY <1>2 DEF AddedTrue, Unplug
<1>3. ASSUME ExposureEnds PROVE AddedTrue
  BY <1>3 DEF AddedTrue, ExposureEnds
<1>4. ASSUME ExposureFails PROVE AddedTrue
  BY <1>4 DEF AddedTrue, ExposureFails
<1>5. ASSUME NEW m \in Mover, MovePhp(m) PROVE AddedTrue
  BY <1>5 DEF AddedTrue, MovePhp, SetMover
<1>6. ASSUME NEW m \in Mover, Flush(m) PROVE AddedTrue
  BY <1>6 DEF AddedTrue, Flush, Cross
<1>7. ASSUME NEW m \in Mover, MarkFocus(m) PROVE AddedTrue
  BY <1>7 DEF AddedTrue, MarkFocus, SetMover
<1>8. ASSUME NEW m \in Mover, Command(m) PROVE AddedTrue
  BY <1>8 DEF AddedTrue, Command, SetMover
<1>9. ASSUME NEW m \in Mover, AwaitF(m) PROVE AddedTrue
  BY <1>9 DEF AddedTrue, AwaitF, Cross
<1>10. ASSUME NEW m \in Mover, MoveEnds(m) PROVE AddedTrue
  BY <1>10 DEF AddedTrue, MoveEnds, SetMover
<1>11. ASSUME NEW a \in Asker, AskPosition(a) PROVE AddedTrue
  BY <1>11 DEF AddedTrue, AskPosition, Cross
<1>12. ASSUME NEW a \in Asker, ReadPosition(a) PROVE AddedTrue
  BY <1>12 DEF AddedTrue, ReadPosition, Cross
<1>13. ASSUME MoveAnswered PROVE AddedTrue
  BY <1>13 DEF AddedTrue, MoveAnswered
<1>14. ASSUME FocusReadPhp PROVE AddedTrue
  BY <1>14 DEF AddedTrue, FocusReadPhp
<1>15. ASSUME HandleResponse6 PROVE AddedTrue
  BY <1>15 DEF AddedTrue, HandleResponse6
<1>16. ASSUME ShowPosition PROVE AddedTrue
  BY <1>16 DEF AddedTrue, ShowPosition
<1>17. ASSUME ReadCurve PROVE AddedTrue
  BY <1>17 DEF AddedTrue, ReadCurve
<1>18. ASSUME HandleResponse7 PROVE AddedTrue
  BY <1>18 DEF AddedTrue, HandleResponse7
<1>19. ASSUME AppendPhp PROVE AddedTrue
  BY <1>19 DEF AddedTrue, AppendPhp
<1>20. ASSUME CurvePhp PROVE AddedTrue
  BY <1>20 DEF AddedTrue, CurvePhp, Go
<1>21. ASSUME CurveEmpties PROVE AddedTrue
  BY <1>21 DEF AddedTrue, CurveEmpties, Go
<1>22. ASSUME CurveUpdate PROVE AddedTrue
  BY <1>22 DEF AddedTrue, CurveUpdate, Go
<1>23. ASSUME CurvePoint PROVE AddedTrue
  BY <1>23 DEF AddedTrue, CurvePoint
<1>24. ASSUME CurveSelect PROVE AddedTrue
  BY <1>24 DEF AddedTrue, CurveSelect, Go
<1>25. ASSUME CurveRun PROVE AddedTrue
  BY <1>25 DEF AddedTrue, CurveRun, Go
<1>26. ASSUME CurveMark PROVE AddedTrue
  BY <1>26 DEF AddedTrue, CurveMark, Go
<1>27. ASSUME CurvePoll PROVE AddedTrue
  BY <1>27 DEF AddedTrue, CurvePoll, Go
<1>28. ASSUME CurveMeasure PROVE AddedTrue
  BY <1>28 DEF AddedTrue, CurveMeasure, TruePoint
<1>29. ASSUME CurveNext PROVE AddedTrue
  BY <1>29 DEF AddedTrue, CurveNext, SetMover, Go
<1>30. ASSUME CurveMoved PROVE AddedTrue
  BY <1>30 DEF AddedTrue, CurveMoved, Go
<1>31. ASSUME KillMovers PROVE AddedTrue
  BY <1>31, StopGoesOn DEF AddedTrue, KillMovers
<1>32. ASSUME Halt PROVE AddedTrue
  BY <1>32, StopGoesOn DEF AddedTrue, Halt, Cross
<1>33. ASSUME ClearFocus PROVE AddedTrue
  BY <1>33, StopGoesOn DEF AddedTrue, ClearFocus
<1>34. ASSUME StopUpdate PROVE AddedTrue
  BY <1>34, StopGoesOn DEF AddedTrue, StopUpdate
<1>35. ASSUME StopCapture PROVE AddedTrue
  BY <1>35, StopGoesOn DEF AddedTrue, StopCapture
<1>36. ASSUME StopCcd PROVE AddedTrue
  BY <1>36, StopGoesOn DEF AddedTrue, StopCcd
<1>37. ASSUME KillCurve PROVE AddedTrue
  BY <1>37 DEF AddedTrue, KillCurve
<1>38. ASSUME ClickMove PROVE AddedTrue
  BY <1>38 DEF AddedTrue, ClickMove, Idle, Settled, SetMover
<1>39. ASSUME ClickStop PROVE AddedTrue
  BY <1>39 DEF AddedTrue, ClickStop, Idle, Begun
<1>40. ASSUME NEW n \in Points, ClickCurve(n) PROVE AddedTrue
  BY <1>40 DEF AddedTrue, ClickCurve, Idle, Settled
<1>41. CASE UNCHANGED vars
  BY <1>41 DEF AddedTrue, vars
<1> QED BY <1>1, <1>2, <1>3, <1>4, <1>5, <1>6, <1>7, <1>8, <1>9, <1>10, <1>11, <1>12, <1>13,
         <1>14, <1>15, <1>16, <1>17, <1>18, <1>19, <1>20, <1>21, <1>22, <1>23, <1>24, <1>25, <1>26,
         <1>27, <1>28, <1>29, <1>30, <1>31, <1>32, <1>33, <1>34, <1>35, <1>36, <1>37, <1>38, <1>39,
         <1>40, <1>41
      DEF Next, MoverStep, CurveStep, StopStep, FocusPage, CurvePage

-----------------------------------------------------------------------------
(* Theorems                                                                *)

(* The initial values.                                                     *)
LEMMA InitInv == Init => FInv
<1> SUFFICES ASSUME Init PROVE FInv
  OBVIOUS
<1>1. TypeOK
  <2>1. /\ count \in [Events -> Nat]
        /\ mover \in [Mover -> MoverPc]
        /\ update \in [Asker -> [pc : {"none", "new", "asked"}, at : Nat \cup {Garbage}]]
    BY DEF Init, NoUpdate, MoverPc
  <2>2. curve \in Curve
    BY DEF Init, NoCurve, Curve, CurvePc
  <2>3. stop \in Stops
    BY DEF Init, Stops
  <2>4. last \in Lines /\ poll \in Lines \cup {"none"}
    BY DEF Init, Lines, Ends
  <2> QED BY <2>1, <2>2, <2>3, <2>4 DEF Init, TypeOK, Place
<1>2. CurveLeft /\ OneThing /\ EndRead
  BY DEF Init, NoCurve, CurveLeft, OneThing, EndRead
<1>3. Alone
  <2>1. /\ \A m \in Mover : ~Active(m)
        /\ \A a \in Asker : update[a] = NoUpdate
        /\ ~flgCurve
    BY DEF Init, Active
  <2>2. mover[0] # "asked"
    BY AutofocusAssumption DEF Init, AutofocusAssumption, Mover
  <2> QED BY <2>1, <2>2 DEF Alone
<1>4. OwnAnswer
  BY DEF Init, OwnAnswer, Still
<1>5. Cleared /\ TruePoint
  BY DEF Init, Cleared, TruePoint, Still
<1> QED BY <1>1, <1>2, <1>3, <1>4, <1>5 DEF FInv

(* Every variable keeps its type: a curve has no negative number of points *)
(* left and a script that stops no step it does not know, whatever users   *)
(* do.                                                                     *)
THEOREM TypeCorrect == Spec => []TypeOK
<1>1. Init => TypeOK /\ CurveLeft
  BY InitInv DEF FInv
<1>2. TypeOK /\ CurveLeft /\ [Next]_vars => (TypeOK /\ CurveLeft)'
  BY TypeStep, CurveLeftStep
<1> QED BY <1>1, <1>2, PTL DEF Spec

(* If users start something only when what went before has come to rest,   *)
(* the page's programs and vcurve have the focuser's line and file in      *)
(* turn, but for a vcurve that a stop has met.                             *)
THEOREM FocuserInvariant == Patient /\ Spec => []FInv
<1>1. FInv /\ Patient /\ [Next]_vars => FInv'
  BY TypeStep, CurveLeftStep, OneThingStep, EndReadStep, AloneStep, OwnAnswerStep, ClearedStep,
     TruePointStep DEF FInv
<1>2. CASE Patient
  BY <1>1, <1>2, InitInv, PTL DEF Spec
<1> QED BY <1>2

(* The focuser comes to move without status_focus, on which move_in.php:3  *)
(* and vcurve.php:3 rely, only where a stop meets the move program of a    *)
(* V-curve: never by a move of the page, by its stop (focus_stop.php:3-9), *)
(* or by a curve left alone.                                               *)
THEOREM MotionGuarded == Patient /\ Spec => GuardedMotion
<1>1. FInv /\ [Next]_vars => [Guarded]_vars
  BY GuardedStep DEF FInv
<1>2. CASE Patient
  BY <1>1, <1>2, FocuserInvariant, PTL DEF Spec, GuardedMotion, Guarded
<1> QED BY <1>2

(* Every point added while the page waits for the curve is the size of a   *)
(* star at the position it names, or its position could not be read        *)
(* (vcurve.c:117-145).                                                     *)
THEOREM PointsAreTrue == Patient /\ Spec => PointsTrue
<1>1. FInv /\ [Next]_vars => [AddedTrue]_vars
  BY TrueStep DEF FInv
<1>2. CASE Patient
  BY <1>1, <1>2, FocuserInvariant, PTL DEF Spec, PointsTrue, AddedTrue
<1> QED BY <1>2
=============================================================================
