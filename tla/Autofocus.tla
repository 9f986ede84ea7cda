----------------------------- MODULE Autofocus -----------------------------
(***************************************************************************)
(* The focuser and the V-curve: the page autofocus.php, the programs       *)
(* move_in, move_out and move_to (alike here: one step each), focus_stop   *)
(* and focus_update on one serial line, and vcurve, which takes an image,  *)
(* notes the star's size and moves on, point by point.                     *)
(*                                                                         *)
(* The programs share the line, whose bytes go to whoever reads first, and *)
(* the file status_focus; vcurve and the camera share status_ccd and       *)
(* status_capture.  Focuser and gtkImager are external: what the programs  *)
(* rely on is modelled.                                                    *)
(***************************************************************************)
EXTENDS Integers

CONSTANTS
  Points,    \* the numbers of points users ask for
  Patient,   \* users wait: see Settled and Begun
  MaxMoves, MaxCurves, MaxStops, MaxErrors, MaxUnplugs \* bounds

ASSUME AutofocusAssumption ==
  /\ Points \subseteq Nat \ {0} /\ Patient \in BOOLEAN
  /\ {MaxMoves, MaxCurves, MaxStops, MaxErrors, MaxUnplugs} \subseteq Nat

VARIABLES
  statusFocus, statusCcd, statusCapture, \* these files exist
  focuser,  \* the focuser: still, moving or unplugged
  pos,      \* its position
  line,     \* the answers (their F) waiting on the serial line
  mover,    \* the move programs: vcurve's is 0, the page's are 1, 2 ...
  update,   \* focus_update, for whom it runs, and what it was told
  known,    \* current_pos.txt
  camera,   \* gtkImager
  log,      \* the last line of its log
  shot,     \* the position at which the running exposure began
  image,    \* the position at which the newest image was taken
  curve,    \* vcurve, and vcurve.php before it
  points,   \* vcurve_x.txt and vcurve_y.txt: where, and of which image
  last,     \* the last line of vcurve.txt
  flgFocus, flgCurve, \* flg_focus and flg_vcurve of the page
  shown,    \* the field pos reads "Moving..."
  xhr,      \* xmlhttp6: the newest request for the focuser, or its answer
  poll,     \* xmlhttp7: the answer of read_vcurve.php
  append,   \* xmlhttp9: append_vcurve.php is called
  stop,     \* the script that stops, and its next step
  count     \* how often each bounded event has happened

fileVars    == <<statusFocus, statusCcd, statusCapture>>
focuserVars == <<focuser, pos, line>>
updateVars  == <<update, known>>
cameraVars  == <<camera, log, shot, image>>
curveVars   == <<curve, points, last>>
pageVars    == <<flgFocus, flgCurve, shown, xhr, poll, append>>
vars == <<fileVars, focuserVars, mover, updateVars, cameraVars, curveVars, pageVars, stop, count>>

Mover   == 0..MaxMoves
Asker   == {"page", "stop", "curve"}
Blurred == -1
Garbage == -2
Place   == Nat \cup {Blurred}
MoverPc == {"none", "asked", "new", "flushed", "marked", "waiting", "crossed", "done"}
CurvePc == {"none", "asked", "passed", "new", "first", "point", "select", "run", "mark", "poll",
            "measure", "next", "moving", "update"}
Curve   == [pc : CurvePc, left : Nat, step : Nat \cup {Garbage}]
Point   == [step : Nat \cup {Garbage}, at : Place]
NoCurve == [pc |-> "none", left |-> 0, step |-> 0]
NoUpdate == [pc |-> "none", at |-> Garbage]
Ends    == {"_____", "^^^^^", "eeeee"}
Lines   == Ends \cup {"other", "-----", "Next"}
Events  == {"move", "curve", "stop", "error", "unplug"}

(* The scripts that stop: which step follows which.                        *)
Plan ==
  [focus_stop  |-> [kill |-> "halt", halt |-> "clear", clear |-> "pause", pause |-> "query"],
   stop_vcurve |-> [STOP |-> "capture", capture |-> "ccd", ccd |-> "kill", kill |-> "halt",
                    halt |-> "clear", clear |-> "movers", movers |-> "vcurve"],
   stop_all    |-> [kill |-> "halt", halt |-> "clear", clear |-> "STOP", STOP |-> "capture",
                    capture |-> "ccd", ccd |-> "movers", movers |-> "vcurve"]]
NoStop == [by |-> "none", do |-> "none"]
Stops  == {NoStop} \cup
  [by : {"focus_stop"}, do : {"kill", "halt", "clear", "pause", "query"}] \cup
  [by : {"stop_vcurve", "stop_all"},
   do : {"STOP", "capture", "ccd", "kill", "halt", "clear", "movers", "vcurve"}]

TypeOK ==
  /\ statusFocus \in BOOLEAN /\ statusCcd \in BOOLEAN /\ statusCapture \in BOOLEAN
  /\ flgFocus \in BOOLEAN /\ flgCurve \in BOOLEAN /\ shown \in BOOLEAN /\ append \in BOOLEAN
  /\ focuser \in {"still", "moving", "dead"} /\ pos \in Nat /\ line \in Nat
  /\ mover \in [Mover -> MoverPc]
  /\ update \in [Asker -> [pc : {"none", "new", "asked"}, at : Nat \cup {Garbage}]]
  /\ known \in Nat \cup {Garbage}
  /\ camera \in {"idle", "exposing"} /\ log \in {"other", "preview", "error"}
  /\ shot \in Place /\ image \in Place
  /\ curve \in Curve
  /\ points \subseteq Point
  /\ last \in Lines /\ poll \in Lines \cup {"none"}
  /\ xhr \in {"none", "move", "MMMMM", "read", "SSSSS", "update", "stop"}
  /\ stop \in Stops
  /\ count \in [Events -> Nat]

Init ==
  /\ statusFocus = FALSE /\ statusCcd = FALSE /\ statusCapture = FALSE
  /\ focuser = "still" /\ pos = 0 /\ line = 0
  /\ mover = [m \in Mover |-> "none"]
  /\ update = [a \in Asker |-> NoUpdate] /\ known = 0
  /\ camera = "idle" /\ log = "other" /\ shot = Blurred /\ image = Blurred
  /\ curve = NoCurve /\ points = {} /\ last = "_____"
  /\ flgFocus = FALSE /\ flgCurve = FALSE /\ shown = FALSE
  /\ xhr = "none" /\ poll = "none" /\ append = FALSE
  /\ stop = NoStop
  /\ count = [e \in Events |-> 0]

Happens(e, max) == count[e] < max /\ count' = [count EXCEPT ![e] = @ + 1]

(* Patient users start something when what went before has come to rest,   *)
(* and stop what has begun.                                                *)
Settled == Patient =>
  /\ stop = NoStop /\ xhr = "none" /\ curve = NoCurve
  /\ \A m \in Mover : mover[m] = "none"
  /\ \A a \in Asker : update[a] = NoUpdate
  /\ focuser # "moving" /\ camera = "idle"
Begun == Patient => /\ \A m \in Mover : mover[m] # "asked"
                    /\ curve.pc \notin {"asked", "passed"}

-----------------------------------------------------------------------------
(* The focuser and the camera                                              *)

(* A motion ends where it was to end and is answered.                      *)
MotionEnds ==
  /\ focuser = "moving"
  /\ focuser' = "still" /\ pos' = pos + 1 /\ line' = line + 1
  /\ UNCHANGED <<fileVars, mover, updateVars, cameraVars, curveVars, pageVars, stop, count>>

Unplug ==
  /\ Happens("unplug", MaxUnplugs)
  /\ focuser' = "dead"
  /\ UNCHANGED <<fileVars, pos, line, mover, updateVars, cameraVars, curveVars, pageVars, stop>>

ExposureEnds ==
  /\ camera = "exposing"
  /\ camera' = "idle" /\ log' = "preview"
  /\ image' = IF focuser = "moving" THEN Blurred ELSE shot
  /\ UNCHANGED <<fileVars, focuserVars, mover, updateVars, shot, curveVars, pageVars, stop, count>>

ExposureFails ==
  /\ camera = "exposing"
  /\ Happens("error", MaxErrors)
  /\ camera' = "idle" /\ log' = "error"
  /\ UNCHANGED <<fileVars, focuserVars, shot, image, mover, updateVars, curveVars, pageVars, stop>>

-----------------------------------------------------------------------------
(* move_in.c, move_out.c, move_to.c                                        *)

SetMover(m, pc) == mover' = [mover EXCEPT ![m] = pc]

(* Who takes an F from the line takes it from the programs that wait.      *)
Cross == [m \in Mover |-> IF mover[m] = "waiting" /\ line > 0 THEN "crossed" ELSE mover[m]]

Flush(m) ==
  /\ mover[m] = "new"
  /\ line' = 0
  /\ mover' = [Cross EXCEPT ![m] = "flushed"]
  /\ UNCHANGED <<fileVars, focuser, pos, updateVars, cameraVars, curveVars, pageVars, stop, count>>

MarkFocus(m) ==
  /\ mover[m] = "flushed"
  /\ statusFocus' = TRUE
  /\ SetMover(m, "marked")
  /\ UNCHANGED <<statusCcd, statusCapture, focuserVars, updateVars, cameraVars, curveVars,
                 pageVars, stop, count>>

(* The command, in vain while the focuser moves.  An image is spoilt.      *)
Command(m) ==
  /\ mover[m] = "marked"
  /\ focuser' = IF focuser = "still" THEN "moving" ELSE focuser
  /\ shot' = IF camera = "exposing" THEN Blurred ELSE shot
  /\ SetMover(m, IF focuser = "moving" THEN "crossed" ELSE "waiting")
  /\ UNCHANGED <<fileVars, pos, line, updateVars, camera, log, image, curveVars, pageVars, stop,
                 count>>

\* mutant: the F of the answer to "FS" is waited for, too
AwaitFTwo(m) ==
  /\ mover[m] \in {"waiting", "crossed"}
  /\ line > 1
  /\ line' = line - 2
  /\ mover' = [Cross EXCEPT ![m] = "done"]
  /\ UNCHANGED <<fileVars, focuser, pos, updateVars, cameraVars, curveVars, pageVars, stop, count>>

(* The loop that reads until an F comes.                                   *)
AwaitF(m) ==
  /\ mover[m] \in {"waiting", "crossed"}
  /\ line > 0
  /\ line' = line - 1
  /\ mover' = [Cross EXCEPT ![m] = "done"]
  /\ UNCHANGED <<fileVars, focuser, pos, updateVars, cameraVars, curveVars, pageVars, stop, count>>

MoveEnds(m) ==
  /\ mover[m] = "done"
  /\ statusFocus' = FALSE
  /\ SetMover(m, "none")
  /\ UNCHANGED <<statusCcd, statusCapture, focuserVars, updateVars, cameraVars, curveVars,
                 pageVars, stop, count>>

-----------------------------------------------------------------------------
(* focus_update.c: flush, "FS", a second, nine bytes.                      *)

StartUpdate(a) == update' = [update EXCEPT ![a].pc = "new"]

AskPosition(a) ==
  /\ update[a].pc = "new"
  /\ line' = IF focuser = "still" THEN 1 ELSE 0
  /\ update' = [update EXCEPT ![a] =
       [pc |-> "asked", at |-> IF focuser = "still" THEN pos ELSE Garbage]]
  /\ mover' = Cross
  /\ UNCHANGED <<fileVars, focuser, pos, known, cameraVars, curveVars, pageVars, stop, count>>

ReadPosition(a) ==
  /\ update[a].pc = "asked"
  /\ line' = IF line > 0 THEN line - 1 ELSE 0
  /\ known' = IF line > 0 THEN update[a].at ELSE Garbage
  /\ update' = [update EXCEPT ![a] = NoUpdate]
  /\ mover' = Cross
  /\ UNCHANGED <<fileVars, focuser, pos, cameraVars, curveVars, pageVars, stop, count>>

-----------------------------------------------------------------------------
(* The page and its requests                                               *)

Idle == ~flgFocus /\ ~flgCurve

(* move_io() and move_to().                                                *)
ClickMove ==
  /\ Idle /\ ~shown
  /\ Settled
  /\ Happens("move", MaxMoves)
  /\ flgFocus' = TRUE /\ shown' = TRUE /\ xhr' = "move"
  /\ SetMover(count'["move"], "asked")
  /\ UNCHANGED <<fileVars, focuserVars, updateVars, cameraVars, curveVars, flgCurve, poll, append,
                 stop>>

(* move_in.php, move_out.php, move_to.php; passthru() returns when the     *)
(* program has ended.                                                      *)
MovePhp(m) ==
  /\ mover[m] = "asked"
  /\ SetMover(m, IF statusFocus THEN "none" ELSE "new")
  /\ UNCHANGED <<fileVars, focuserVars, updateVars, cameraVars, curveVars, pageVars, stop, count>>

MoveAnswered ==
  /\ xhr = "move"
  /\ mover[count["move"]] = "none"
  /\ xhr' = "MMMMM"
  /\ UNCHANGED <<fileVars, focuserVars, mover, updateVars, cameraVars, curveVars, flgFocus,
                 flgCurve, shown, poll, append, stop, count>>

FocusReadPhp ==
  /\ xhr = "read"
  /\ xhr' = IF statusFocus THEN "MMMMM" ELSE "SSSSS"
  /\ UNCHANGED <<fileVars, focuserVars, mover, updateVars, cameraVars, curveVars, flgFocus,
                 flgCurve, shown, poll, append, stop, count>>

(* handleResponse6(): read again, or let go and ask for the position; the  *)
(* guard of focus_update.php is evaluated at once.                         *)
HandleResponse6 ==
  /\ \/ /\ xhr = "MMMMM" /\ flgFocus
        /\ xhr' = "read"
        /\ UNCHANGED <<flgFocus, update>>
     \/ /\ xhr = "SSSSS" /\ flgFocus
        /\ flgFocus' = FALSE
        /\ xhr' = "update"
        /\ IF statusFocus THEN UNCHANGED update ELSE StartUpdate("page")
  /\ UNCHANGED <<fileVars, focuserVars, known, mover, cameraVars, curveVars, flgCurve, shown,
                 poll, append, stop, count>>

(* The position, or "Moving...", or the answer to a stop, is shown.        *)
ShowPosition ==
  /\ \/ xhr = "update" /\ update["page"] = NoUpdate
     \/ xhr = "stop" /\ stop = NoStop
  /\ xhr' = "none"
  /\ shown' = (xhr = "update" /\ statusFocus)
  /\ UNCHANGED <<fileVars, focuserVars, mover, updateVars, cameraVars, curveVars, flgFocus,
                 flgCurve, poll, append, stop, count>>

(* vcurve(); a second vcurve beside one that a stop has missed is not      *)
(* modelled.                                                               *)
ClickCurve(n) ==
  /\ Idle /\ curve = NoCurve
  /\ Settled
  /\ Happens("curve", MaxCurves)
  /\ flgCurve' = TRUE /\ shown' = FALSE
  /\ curve' = [pc |-> "asked", left |-> n, step |-> 0]
  /\ UNCHANGED <<fileVars, focuserVars, mover, updateVars, cameraVars, points, last, flgFocus, xhr,
                 poll, append, stop>>

(* read_vcurve.php, first a second after the click: vcurve has emptied its *)
(* files by then, unless vcurve.php refused.                               *)
ReadCurve ==
  /\ flgCurve /\ poll = "none"
  /\ curve.pc \notin {"asked", "passed", "new"}
  /\ poll' = last
  /\ UNCHANGED <<fileVars, focuserVars, mover, updateVars, cameraVars, curveVars, flgFocus,
                 flgCurve, shown, xhr, append, stop, count>>

(* What else it fills in the field pos with does not matter.               *)
HandleResponse7 ==
  /\ flgCurve /\ poll # "none"
  /\ poll' = "none"
  /\ flgCurve' = (poll \notin Ends)
  /\ append' = (append \/ poll = "-----")
  /\ UNCHANGED <<fileVars, focuserVars, mover, updateVars, cameraVars, curveVars, flgFocus, shown,
                 xhr, stop, count>>

AppendPhp ==
  /\ append
  /\ append' = FALSE /\ last' = "Next"
  /\ UNCHANGED <<fileVars, focuserVars, mover, updateVars, cameraVars, curve, points, flgFocus,
                 flgCurve, shown, xhr, poll, stop, count>>

-----------------------------------------------------------------------------
(* vcurve.c                                                                *)

Go(pc) == curve' = [curve EXCEPT !.pc = pc]

(* vcurve.php: the guard, the parameters' files, and vcurve is started.    *)
CurvePhp ==
  /\ \/ /\ curve.pc = "asked"
        /\ IF statusCcd \/ statusCapture \/ statusFocus THEN curve' = NoCurve ELSE Go("passed")
     \/ /\ curve.pc = "passed"
        /\ Go("new")
  /\ UNCHANGED <<fileVars, focuserVars, mover, updateVars, cameraVars, points, last, pageVars, stop,
                 count>>

CurveEmpties ==
  /\ curve.pc = "new"
  /\ Go("first")
  /\ points' = {} /\ last' = "other"
  /\ UNCHANGED <<fileVars, focuserVars, mover, updateVars, cameraVars, pageVars, stop, count>>

(* focus_update, and the position it has written.                          *)
CurveUpdate ==
  /\ curve.pc \in {"first", "update"}
  /\ update["curve"] = NoUpdate
  /\ StartUpdate("curve")
  /\ Go("point")
  /\ UNCHANGED <<fileVars, focuserVars, known, mover, cameraVars, points, last, pageVars, stop,
                 count>>

CurvePoint ==
  /\ curve.pc = "point"
  /\ update["curve"] = NoUpdate
  /\ statusCcd' = TRUE
  /\ curve' = [pc |-> "select", left |-> curve.left, step |-> known]
  /\ UNCHANGED <<statusFocus, statusCapture, focuserVars, mover, updateVars, cameraVars, points,
                 last, pageVars, stop, count>>

(* GETROIPOS fails when no star has been selected.                         *)
CurveSelect ==
  /\ curve.pc = "select"
  /\ \/ /\ Go("run")
        /\ UNCHANGED <<statusCcd, last>>
     \/ /\ statusCcd' = FALSE /\ last' = "^^^^^"
        /\ curve' = NoCurve
  /\ UNCHANGED <<statusFocus, statusCapture, focuserVars, mover, updateVars, cameraVars, points,
                 pageVars, stop, count>>

(* A camera still exposing may refuse.                                     *)
CurveRun ==
  /\ curve.pc = "run"
  /\ \/ /\ camera = "idle"
        /\ camera' = "exposing" /\ log' = "other"
        /\ shot' = IF focuser = "moving" THEN Blurred ELSE pos
     \/ /\ camera = "exposing"
        /\ log' \in {"other", "error"}
        /\ UNCHANGED <<camera, shot>>
  /\ Go("mark")
  /\ UNCHANGED <<fileVars, focuserVars, mover, updateVars, image, points, last, pageVars, stop,
                 count>>

CurveMark ==
  /\ curve.pc = "mark"
  /\ statusCapture' = TRUE
  /\ Go("poll")
  /\ UNCHANGED <<statusFocus, statusCcd, focuserVars, mover, updateVars, cameraVars, points, last,
                 pageVars, stop, count>>

\* mutant: an error is not looked for
CurvePollOk ==
  /\ curve.pc = "poll"
  /\ \/ /\ ~statusCapture
        /\ Go("measure")
        /\ UNCHANGED statusCapture
     \/ /\ statusCapture /\ log = "preview"
        /\ statusCapture' = FALSE
        /\ UNCHANGED curve
  /\ UNCHANGED <<statusFocus, statusCcd, last, focuserVars, mover, updateVars, cameraVars,
                 points, pageVars, stop, count>>

CurvePoll ==
  /\ curve.pc = "poll"
  /\ \/ /\ ~statusCapture
        /\ Go("measure")
        /\ UNCHANGED <<statusCapture, statusCcd, last>>
     \/ /\ statusCapture /\ log = "preview"
        /\ statusCapture' = FALSE
        /\ UNCHANGED <<statusCcd, last, curve>>
     \/ /\ statusCapture /\ log = "error"
        /\ statusCapture' = FALSE /\ statusCcd' = FALSE /\ last' = "eeeee"
        /\ curve' = NoCurve
  /\ UNCHANGED <<statusFocus, focuserVars, mover, updateVars, cameraVars, points, pageVars, stop,
                 count>>

(* GETFWHM of the newest image; the point and "-----" are written.         *)
CurveMeasure ==
  /\ curve.pc = "measure"
  /\ statusCcd' = FALSE
  /\ points' = points \cup {[step |-> curve.step, at |-> image]}
  /\ curve' = [pc |-> "next", left |-> curve.left - 1, step |-> curve.step]
  /\ last' = "-----"
  /\ UNCHANGED <<statusFocus, statusCapture, focuserVars, mover, updateVars, cameraVars, pageVars,
                 stop, count>>

\* mutant: the move is sent into the background
CurveNextAsync ==
  /\ curve.pc = "next"
  /\ \/ /\ curve.left > 0
        /\ SetMover(0, "new")
        /\ Go("point")
        /\ last' = "other"
     \/ /\ curve.left = 0
        /\ last' = "_____"
        /\ curve' = NoCurve
        /\ UNCHANGED mover
  /\ UNCHANGED <<fileVars, focuserVars, updateVars, cameraVars, points, pageVars, stop, count>>

CurveNext ==
  /\ curve.pc = "next"
  /\ \/ /\ curve.left > 0
        /\ SetMover(0, "new")
        /\ Go("moving")
        /\ last' = "other"
     \/ /\ curve.left = 0
        /\ last' = "_____"
        /\ curve' = NoCurve
        /\ UNCHANGED mover
  /\ UNCHANGED <<fileVars, focuserVars, updateVars, cameraVars, points, pageVars, stop, count>>

(* system() returns when the program has ended, killed or not.             *)
CurveMoved ==
  /\ curve.pc = "moving"
  /\ mover[0] = "none"
  /\ Go("update")
  /\ UNCHANGED <<fileVars, focuserVars, mover, updateVars, cameraVars, points, last, pageVars,
                 stop, count>>

-----------------------------------------------------------------------------
(* focus_stop.php, stop_vcurve.php and stop_all.php                        *)

(* stop_main(): the stop that goes with the flag, one at a time.           *)
ClickStop ==
  /\ stop = NoStop
  /\ Begun
  /\ Happens("stop", MaxStops)
  /\ \/ /\ flgFocus
        /\ flgFocus' = FALSE /\ xhr' = "stop"
        /\ stop' = [by |-> "focus_stop", do |-> "kill"]
        /\ UNCHANGED <<flgCurve, poll>>
     \/ /\ flgCurve
        /\ flgCurve' = FALSE /\ poll' = "none"
        /\ stop' = [by |-> "stop_vcurve", do |-> "STOP"]
        /\ UNCHANGED <<flgFocus, xhr>>
     \/ /\ Idle
        /\ stop' = [by |-> "stop_all", do |-> "kill"]
        /\ UNCHANGED <<flgFocus, flgCurve, xhr, poll>>
  /\ shown' = FALSE
  /\ UNCHANGED <<fileVars, focuserVars, mover, updateVars, cameraVars, curveVars, append>>

GoOn == stop' = [stop EXCEPT !.do = Plan[stop.by][@]]

(* kill_focus.sh, and the first half of kill_vcurve.sh: a request that has *)
(* not started its program is missed.                                      *)
KillMovers ==
  /\ stop.do \in {"kill", "movers"}
  /\ mover' = [m \in Mover |-> IF mover[m] = "asked" THEN "asked" ELSE "none"]
  /\ GoOn
  /\ UNCHANGED <<fileVars, focuserVars, updateVars, cameraVars, curveVars, pageVars, count>>

\* mutant: the focuser is not told
HaltNone ==
  /\ stop.do = "halt"
  /\ GoOn
  /\ UNCHANGED <<fileVars, focuserVars, mover, updateVars, cameraVars, curveVars, pageVars, count>>

(* focus_stop: flush, and the focuser stops and answers.                   *)
Halt ==
  /\ stop.do = "halt"
  /\ focuser' = IF focuser = "moving" THEN "still" ELSE focuser
  /\ line' = IF focuser = "moving" THEN 1 ELSE 0
  /\ pos' \in IF focuser = "moving" THEN {pos, pos + 1} ELSE {pos}
  /\ mover' = Cross
  /\ GoOn
  /\ UNCHANGED <<fileVars, updateVars, cameraVars, curveVars, pageVars, count>>

ClearFocus ==
  /\ stop.do = "clear"
  /\ statusFocus' = FALSE
  /\ GoOn
  /\ UNCHANGED <<statusCcd, statusCapture, focuserVars, mover, updateVars, cameraVars, curveVars,
                 pageVars, count>>

(* focus_stop.php, a second later.                                         *)
StopUpdate ==
  /\ \/ stop.do = "pause" /\ GoOn /\ StartUpdate("stop")
     \/ stop.do = "query" /\ update["stop"] = NoUpdate /\ stop' = NoStop /\ UNCHANGED update
  /\ UNCHANGED <<fileVars, focuserVars, known, mover, cameraVars, curveVars, pageVars, count>>

(* STOP is acknowledged; a running exposure comes to its end.              *)
StopCapture ==
  /\ \/ /\ stop.do = "STOP"
        /\ IF statusCapture
             THEN GoOn /\ log' = (IF camera = "exposing" THEN "other" ELSE "error")
             ELSE stop' = [stop EXCEPT !.do = "ccd"] /\ UNCHANGED log
        /\ UNCHANGED statusCapture
     \/ /\ stop.do = "capture"
        /\ statusCapture' = FALSE
        /\ GoOn
        /\ UNCHANGED log
  /\ UNCHANGED <<statusFocus, statusCcd, focuserVars, mover, updateVars, camera, shot, image,
                 curveVars, pageVars, count>>

StopCcd ==
  /\ stop.do = "ccd"
  /\ statusCcd' = FALSE
  /\ GoOn
  /\ UNCHANGED <<statusFocus, statusCapture, focuserVars, mover, updateVars, cameraVars, curveVars,
                 pageVars, count>>

(* The other half of kill_vcurve.sh.                                       *)
KillCurve ==
  /\ stop.do = "vcurve"
  /\ curve' = IF curve.pc \in {"asked", "passed"} THEN curve ELSE NoCurve
  /\ stop' = NoStop
  /\ UNCHANGED <<fileVars, focuserVars, mover, updateVars, cameraVars, points, last, pageVars,
                 count>>

-----------------------------------------------------------------------------
MoverStep(m) == MovePhp(m) \/ Flush(m) \/ MarkFocus(m) \/ Command(m) \/ AwaitF(m) \/ MoveEnds(m)
CurveStep == \/ CurvePhp \/ CurveEmpties \/ CurveUpdate \/ CurvePoint \/ CurveSelect \/ CurveRun
             \/ CurveMark \/ CurvePoll \/ CurveMeasure \/ CurveNext \/ CurveMoved
StopStep  == \/ KillMovers \/ Halt \/ ClearFocus \/ StopUpdate \/ StopCapture \/ StopCcd
             \/ KillCurve
FocusPage == MoveAnswered \/ FocusReadPhp \/ HandleResponse6 \/ ShowPosition
CurvePage == ReadCurve \/ HandleResponse7

Next ==
  \/ MotionEnds \/ Unplug \/ ExposureEnds \/ ExposureFails
  \/ \E m \in Mover : MoverStep(m)
  \/ \E a \in Asker : AskPosition(a) \/ ReadPosition(a)
  \/ FocusPage \/ CurvePage \/ AppendPhp \/ CurveStep \/ StopStep
  \/ ClickMove \/ ClickStop \/ \E n \in Points : ClickCurve(n)

Spec == Init /\ [][Next]_vars

(* Programs and handlers go on, the focuser and the camera come to an end, *)
(* an answer comes back; users need not click again.                       *)
Fairness ==
  /\ WF_vars(MotionEnds) /\ WF_vars(ExposureEnds)
  /\ \A m \in Mover : WF_vars(MoverStep(m))
  /\ \A a \in Asker : WF_vars(AskPosition(a) \/ ReadPosition(a))
  /\ WF_vars(FocusPage) /\ WF_vars(CurvePage) /\ WF_vars(AppendPhp)
  /\ WF_vars(CurveStep) /\ WF_vars(StopStep)

FairSpec == Spec /\ Fairness

-----------------------------------------------------------------------------
(* A stop meets a V-curve: vcurve's move program runs while a script that  *)
(* stops is at work, or has outlived vcurve.                               *)
Overtaken == mover[0] # "none" /\ (stop # NoStop \/ curve = NoCurve)

(* The focuser comes to move without status_focus, on which move_in.php:3  *)
(* and vcurve.php:3 rely, only where a stop meets a V-curve: whoever ends  *)
(* or stops a move takes the file away, which may be another program's.    *)
GuardedMotion ==
  [][focuser' = "moving" /\ ~statusFocus' =>
       (focuser = "moving" /\ ~statusFocus) \/ Overtaken]_vars

(* While the page waits for a curve, every point added has the size of a   *)
(* star taken where the point says, never one of an image during which the *)
(* focuser moved, and never one of the position before: vcurve.c:117-145   *)
(* takes whatever image is newest and notes what current_pos.txt said two  *)
(* programs ago.  A position focus_update could not read is garbage.  A    *)
(* curve being stopped may add a point of the frame before.                *)
PointsTrue ==
  [][\A p \in points' \ points : p.step \in {p.at, Garbage} \/ ~flgCurve]_vars

(* A move program comes to its end, by its F or killed, unless the focuser *)
(* is unplugged.  It reads until an F comes (move_in.c:60-63), and each    *)
(* other program that reads or flushes the line could take that F from it: *)
(* users who wait keep them apart, and where a stop flushes the F vcurve's *)
(* move waits for, it kills that move afterwards.                          *)
MovesEnd ==
  \A m \in Mover : mover[m] # "none" ~> mover[m] = "none" \/ focuser = "dead"

(* stop_vcurve.php removes the files before it kills vcurve, which may go  *)
(* on meanwhile and leave one: vcurve.php and move_in.php then refuse.     *)
LeftBehind ==
  \/ statusFocus /\ \A m \in Mover : mover[m] = "none"
  \/ (statusCcd \/ statusCapture) /\ curve = NoCurve

(* The page has two seconds to append its line to vcurve.txt, or it hides  *)
(* the one that ends the curve.                                            *)
LateNext == last = "Next" /\ curve = NoCurve

(* The page comes to the end of the move or the curve it waits for,        *)
(* whatever fails, but for a focuser unplugged, a file left behind and a   *)
(* line appended too late.                                                 *)
Excused == focuser = "dead" \/ LeftBehind \/ LateNext
PageReleased == (flgFocus ~> ~flgFocus \/ Excused) /\ (flgCurve ~> ~flgCurve \/ Excused)
=============================================================================
