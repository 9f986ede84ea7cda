----------------------------- MODULE VncStream -----------------------------
(***************************************************************************)
(* What the VNC server sends, cut anywhere into WebSocket messages, and    *)
(* how rfb.js takes it out of the receive queue (websock.js) in the state  *)
(* "normal": message by message and rectangle by rectangle.  What is not   *)
(* there yet is waited for: a method returns false, sometimes after going  *)
(* back, and is called again with the next WebSocket message; what is      *)
(* there too early is left to a timer.                                     *)
(*                                                                         *)
(* A unit stands for the bytes the code waits for and takes at once.  A    *)
(* call of _handle_message() runs to its end before anything else does: pc *)
(* says where it is.                                                       *)
(***************************************************************************)
EXTENDS VncDisplay

CONSTANTS
  Tight, Plain, Pseudo,  \* the rectangles servers send
  Mixed,                 \* Tight ones and Plain ones in one session
  MaxRects, MaxCuts      \* bounds

ASSUME StreamAssumption ==
  /\ Tight \subseteq {"img", "zlib", "fill", "copy", "tiny"}
  /\ Plain \subseteq {"raw", "rre", "hextile", "copy"}
  /\ Pseudo \subseteq {"resize", "screens", "refused", "qemu", "last", "unknown"}
  /\ Mixed \in BOOLEAN
  /\ {MaxRects, MaxCuts} \subseteq Nat

VARIABLES
  net,    \* sent by the server, not yet received
  sent,   \* the number of drawing operations sent
  owed,   \* rectangles of an update announced and not yet sent
  asked,  \* a framebufferUpdateRequest is on its way or unanswered
  family, \* the encodings the server uses
  rQ,     \* received, not yet taken out
  FBU,    \* what of the update is still to come
  pc,     \* _handle_message() runs: at its start or in the loop of rectangles
  msgTimer, \* it will be called again
  count   \* how often each bounded event has happened

streamVars == <<net, sent, owed, asked, family, rQ, FBU, pc, msgTimer, count>>

-----------------------------------------------------------------------------
(* The server                                                              *)

Unit(k, n, id) == [k |-> k, n |-> n, id |-> id]

Drawing(enc) == CASE enc \in {"raw", "rre", "hextile"} -> 2
                  [] enc \in Pseudo -> 0
                  [] OTHER -> 1

(* The units of a rectangle whose operations are numbered from id on.      *)
Rectangle(enc, id) ==
  LET header == Unit(enc, 0, 0)
  IN  CASE enc \in {"img", "zlib", "fill", "tiny"} -> <<header, Unit("ctl", 1, id), Unit("data", 0, id)>>
        [] enc = "copy"    -> <<header, Unit("data", 0, id)>>
        [] enc = "raw"     -> <<header, Unit("data", 0, id), Unit("data", 0, id + 1)>>
        [] enc = "rre"     -> <<header, Unit("ctl", 1, id), Unit("data", 0, id + 1)>>
        [] enc = "hextile" -> <<header, Unit("ctl", 1, id), Unit("data", 0, id),
                                Unit("ctl", 1, id + 1), Unit("data", 0, id + 1)>>
        [] enc \in {"screens", "refused"} -> <<header, Unit("ctl", 1, 0), Unit("data", 0, 0)>>
        [] OTHER -> <<header>>

Encodings == IF Mixed THEN Tight \cup Plain \cup Pseudo
             ELSE (IF family = "tight" THEN Tight ELSE Plain) \cup Pseudo

Happens(e, n, max) == count[e] + n <= max /\ count' = [count EXCEPT ![e] = @ + n]

(* An update is a header with the number of its rectangles, and these.     *)
SendUpdate(rects) ==
  /\ asked /\ owed = 0
  /\ Happens("rect", rects, MaxRects)
  /\ asked' = FALSE
  /\ net' = net \o <<Unit("update", 0, 0), Unit("count", rects, 0)>>
  /\ owed' = rects
  /\ UNCHANGED <<sent, family, rQ, FBU, pc, msgTimer, displayVars>>

(* An update may end before all the rectangles announced are there.        *)
SendRect(enc) ==
  /\ owed > 0
  /\ net' = net \o Rectangle(enc, sent + 1)
  /\ sent' = sent + Drawing(enc)
  /\ owed' = IF enc = "last" THEN 0 ELSE owed - 1
  /\ UNCHANGED <<asked, family, rQ, FBU, pc, msgTimer, count, displayVars>>

SendCut ==
  /\ owed = 0
  /\ Happens("cut", 1, MaxCuts)
  /\ net' = net \o <<Unit("cut", 0, 0), Unit("length", 1, 0), Unit("data", 0, 0)>>
  /\ UNCHANGED <<sent, owed, asked, family, rQ, FBU, pc, msgTimer, displayVars>>

-----------------------------------------------------------------------------
(* websock.js                                                              *)

(* _recv_message(): the rest of a message is put behind what is there; an  *)
(* empty queue is written over.                                            *)
Receive(n) ==
  /\ rQ' = rQ \o SubSeq(net, 1, n)
  /\ net' = SubSeq(net, n + 1, Len(net))
  /\ pc' = "start"
  /\ renderQ' = IF rQ = <<>> THEN [i \in DOMAIN renderQ |-> Overwritten(renderQ[i])] ELSE renderQ
  /\ UNCHANGED <<sent, owed, asked, family, FBU, msgTimer, count, loaded, frame, drawn>>

(* rQwait().                                                               *)
Wait(num) == Len(rQ) < num
Shift(num) == SubSeq(rQ, num + 1, Len(rQ))

-----------------------------------------------------------------------------
(* rfb.js                                                                  *)

NoFBU == [rects |-> 0, bytes |-> 0, left |-> 0, enc |-> "none"]

(* false: no more is done until more has come.                             *)
ReturnFalse == pc' = "idle" /\ UNCHANGED msgTimer

\* mutant: the rest of the queue is left to the next message
ReturnTrueNoTimer(rest) == pc' = "idle" /\ UNCHANGED msgTimer

(* true: the rest of the queue is left to a timer.                         *)
ReturnTrue(rest) ==
  /\ pc' = "idle"
  /\ msgTimer' = (msgTimer \/ rest # <<>>)

CutComplete == Len(rQ) >= 2 /\ ~Wait(2 + rQ[2].n)

\* mutant: the type has been taken out when the text is not there yet
CutTextNoBack ==
  /\ rQ[1].k = "cut"
  /\ \/ /\ ~CutComplete
        /\ rQ' = Shift(1)
        /\ ReturnFalse
     \/ /\ CutComplete
        /\ rQ' = Shift(2 + rQ[2].n)
        /\ ReturnTrue(rQ')
  /\ UNCHANGED <<net, sent, owed, asked, family, FBU, count, displayVars>>

(* _handle_server_cut_text(), _handle_server_fence_msg() and               *)
(* _handle_set_colour_map_msg() alike: header, then payload, going back to *)
(* the type when one is not there.                                         *)
CutText ==
  /\ rQ[1].k = "cut"
  /\ \/ /\ ~CutComplete
        /\ ReturnFalse
        /\ UNCHANGED rQ
     \/ /\ CutComplete
        /\ rQ' = Shift(2 + rQ[2].n)
        /\ ReturnTrue(rQ')
  /\ UNCHANGED <<net, sent, owed, asked, family, FBU, count, displayVars>>

UpdateHeader ==
  /\ rQ[1].k = "update"
  /\ \/ /\ Wait(2)
        /\ ReturnFalse
        /\ UNCHANGED <<rQ, FBU>>
     \/ /\ ~Wait(2)
        /\ FBU' = [FBU EXCEPT !.rects = rQ[2].n, !.bytes = 0]
        /\ rQ' = Shift(2)
        /\ pc' = "rects"
        /\ UNCHANGED msgTimer
  /\ UNCHANGED <<net, sent, owed, asked, family, count, displayVars>>

(* _normal_msg(), called with something in the queue or from the timer.    *)
NormalMsg ==
  /\ pc = "start"
  /\ \/ /\ rQ = <<>>
        /\ ReturnFalse
        /\ UNCHANGED <<net, sent, owed, asked, family, rQ, FBU, count, displayVars>>
     \/ /\ rQ # <<>> /\ FBU.rects > 0
        /\ pc' = "rects"
        /\ UNCHANGED <<net, sent, owed, asked, family, rQ, FBU, msgTimer, count, displayVars>>
     \/ rQ # <<>> /\ FBU.rects = 0 /\ (CutText \/ UpdateHeader)

(* The end of _framebufferUpdate(), and the next request.                  *)
UpdateComplete ==
  /\ pc = "rects" /\ FBU.rects = 0
  /\ asked' = TRUE
  /\ ReturnTrue(rQ)
  /\ UNCHANGED <<net, sent, owed, family, rQ, FBU, count, displayVars>>

(* The head of the loop: wait for FBU.bytes, or read a header of which the *)
(* encoding is known (VncSession has the others).                          *)
NextRect ==
  /\ pc = "rects" /\ FBU.rects > 0
  /\ \/ /\ Wait(IF FBU.bytes = 0 THEN 1 ELSE FBU.bytes)
        /\ ReturnFalse
        /\ UNCHANGED <<rQ, FBU>>
     \/ /\ FBU.bytes = 0 /\ ~Wait(1) /\ rQ[1].k # "unknown"
        /\ FBU' = [FBU EXCEPT !.enc = rQ[1].k]
        /\ rQ' = Shift(1)
        /\ pc' = "decode"
        /\ UNCHANGED msgTimer
     \/ /\ FBU.bytes > 0 /\ ~Wait(FBU.bytes)
        /\ pc' = "decode"
        /\ UNCHANGED <<rQ, FBU, msgTimer>>
  /\ UNCHANGED <<net, sent, owed, asked, family, count, displayVars>>

(* A handler waits for n units in all, and the loop is left.               *)
AwaitBytes(n) ==
  /\ Wait(n)
  /\ FBU' = [FBU EXCEPT !.bytes = n]
  /\ ReturnFalse
  /\ UNCHANGED <<rQ, displayVars>>

RectDone(num) ==
  /\ FBU' = [FBU EXCEPT !.rects = @ - 1, !.bytes = 0, !.left = 0]
  /\ rQ' = Shift(num)
  /\ pc' = "rects"
  /\ UNCHANGED msgTimer

(* display_tight(), with what it draws.                                    *)
TightOp(u) == Op(u.id, FBU.enc = "img", IF FBU.enc = "tiny" THEN "offset" ELSE "own")

DecodeTight ==
  /\ FBU.enc \in {"img", "zlib", "fill", "tiny"}
  /\ \/ AwaitBytes(1)
     \/ ~Wait(1) /\ AwaitBytes(1 + rQ[1].n)
     \/ /\ ~Wait(1) /\ ~Wait(1 + rQ[1].n)
        /\ Push(<<TightOp(rQ[1])>>)
        /\ RectDone(1 + rQ[1].n)

DecodeCopy ==
  /\ FBU.enc = "copy"
  /\ \/ AwaitBytes(1)
     \/ ~Wait(1) /\ Push(<<Op(rQ[1].id, FALSE, "own")>>) /\ RectDone(1)

Lines(n) == [i \in 1..n |-> Op(rQ[i].id, FALSE, "offset")]

(* RAW: as many lines as there are.                                        *)
DecodeRaw ==
  /\ FBU.enc = "raw"
  /\ \/ /\ AwaitBytes(1)
     \/ /\ ~Wait(1)
        /\ LET left == IF FBU.left = 0 THEN 2 ELSE FBU.left
               n == Min({left, Len(rQ)})
           IN  /\ Push(Lines(n))
               /\ IF n = left
                    THEN RectDone(n)
                    ELSE /\ FBU' = [FBU EXCEPT !.left = left - n, !.bytes = 1]
                         /\ rQ' = Shift(n)
                         /\ pc' = "rects"
                         /\ UNCHANGED msgTimer

(* RRE: the background and their number, then the subrectangles.           *)
DecodeRre ==
  /\ FBU.enc = "rre"
  /\ \/ FBU.left = 0 /\ AwaitBytes(1)
     \/ /\ ~Wait(1)
        /\ LET header == IF FBU.left = 0 THEN 1 ELSE 0
               left == IF FBU.left = 0 THEN rQ[1].n ELSE FBU.left
               n == Min({left, Len(rQ) - header})
           IN  /\ Push([i \in 1..(header + n) |-> Op(rQ[i].id, FALSE, "view")])
               /\ IF n = left
                    THEN RectDone(header + n)
                    ELSE /\ FBU' = [FBU EXCEPT !.left = left - n, !.bytes = left - n]
                         /\ rQ' = Shift(header + n)
                         /\ pc' = "rects"
                         /\ UNCHANGED msgTimer

(* HEXTILE, one tile: nothing is taken out before all of it is there.      *)
DecodeHextile ==
  /\ FBU.enc = "hextile"
  /\ LET tiles == IF FBU.left = 0 THEN 2 ELSE FBU.left
         all == IF Wait(1) THEN 1 ELSE 1 + rQ[1].n
     IN  \/ /\ Wait(all)
            /\ FBU' = [FBU EXCEPT !.left = tiles, !.bytes = all]
            /\ ReturnFalse
            /\ UNCHANGED <<rQ, displayVars>>
         \/ /\ ~Wait(all)
            /\ DrawTile(Op(rQ[1].id, FALSE, "own"))
            /\ IF tiles = 1
                 THEN RectDone(all)
                 ELSE /\ FBU' = [FBU EXCEPT !.left = tiles - 1, !.bytes = 0]
                      /\ rQ' = Shift(all)
                      /\ UNCHANGED <<pc, msgTimer>>

(* handle_FB_resize().  The canvas is resized at once, whatever waits in   *)
(* the render queue, and keeps what is on it.                              *)
DecodeResize == FBU.enc = "resize" /\ RectDone(0) /\ UNCHANGED displayVars

(* last_rect().                                                            *)
DecodeLast ==
  /\ FBU.enc = "last"
  /\ FBU' = [FBU EXCEPT !.rects = 0]
  /\ pc' = "rects"
  /\ UNCHANGED <<rQ, msgTimer, displayVars>>

(* ExtendedDesktopSize(): after a refusal neither bytes nor rects is set.  *)
DecodeScreens ==
  /\ FBU.enc \in {"screens", "refused"}
  /\ \/ AwaitBytes(1)
     \/ ~Wait(1) /\ AwaitBytes(1 + rQ[1].n)
     \/ /\ ~Wait(1) /\ ~Wait(1 + rQ[1].n)
        /\ IF FBU.enc = "screens"
             THEN RectDone(1 + rQ[1].n)
             ELSE /\ FBU' = [FBU EXCEPT !.bytes = 1 + rQ[1].n]
                  /\ rQ' = Shift(1 + rQ[1].n)
                  /\ pc' = "rects"
                  /\ UNCHANGED msgTimer
        /\ UNCHANGED displayVars

(* QEMUExtendedKeyEvent() returns nothing, which is taken for false.       *)
DecodeQemu ==
  /\ FBU.enc = "qemu"
  /\ FBU' = [FBU EXCEPT !.rects = @ - 1]
  /\ ReturnFalse
  /\ UNCHANGED <<rQ, displayVars>>

Decode ==
  /\ pc = "decode"
  /\ \/ DecodeTight \/ DecodeCopy \/ DecodeRaw \/ DecodeRre \/ DecodeHextile
     \/ DecodeResize \/ DecodeLast \/ DecodeScreens \/ DecodeQemu
  /\ UNCHANGED <<net, sent, owed, asked, family, count>>

(* The timer of _handle_message().                                         *)
MsgTimer ==
  /\ msgTimer
  /\ msgTimer' = FALSE
  /\ pc' = "start"
  /\ UNCHANGED <<net, sent, owed, asked, family, rQ, FBU, count, displayVars>>
=============================================================================
