---------------------------- MODULE VncDisplay ----------------------------
(***************************************************************************)
(* The canvas of the page vnc.html (display.js).  What can be drawn at     *)
(* once is drawn at once; an image has to be decoded by the browser first, *)
(* and whatever comes while one is pending waits behind it in _renderQ,    *)
(* which is scanned when something is pushed into the empty queue and in   *)
(* each animation frame.                                                   *)
(*                                                                         *)
(* A drawing operation is numbered by the server; what is kept of its data *)
(* is whether the pixels are its own.                                      *)
(***************************************************************************)
EXTENDS Naturals, FiniteSetsExt, SequencesExt

VARIABLES
  renderQ, \* the operations that wait
  loaded,  \* images decoded by the browser
  frame,   \* an animation frame is requested
  drawn    \* what is on the canvas, in the order it came there

displayVars == <<renderQ, loaded, frame, drawn>>

(* own: bytes of its own; view: an array over the receive queue, whose     *)
(* bytes may be overwritten; offset: the receive queue and an offset;      *)
(* wrong: other bytes.                                                     *)
Op(id, img, data) == [id |-> id, img |-> img, data |-> data]

DisplayTypeOK ==
  /\ \A o \in ToSet(renderQ) \cup ToSet(drawn) :
       o.id \in Nat /\ o.img \in BOOLEAN /\ o.data \in {"own", "view", "offset", "wrong"}
  /\ loaded \subseteq Nat /\ frame \in BOOLEAN

DisplayInit == renderQ = <<>> /\ loaded = {} /\ frame = FALSE /\ drawn = <<>>

\* mutant: whatever is ready is drawn
ScanQReady(q) ==
  LET Ready(o) == ~o.img \/ o.id \in loaded
  IN  /\ drawn' = drawn \o SelectSeq(q, Ready)
      /\ renderQ' = SelectSeq(q, LAMBDA o : ~Ready(o))
      /\ frame' = (renderQ' # <<>>)

(* _scan_renderQ(): up to the first image that is not complete.            *)
ScanQ(q) ==
  LET blocked == {i \in DOMAIN q : q[i].img /\ q[i].id \notin loaded}
      n == IF blocked = {} THEN Len(q) ELSE Min(blocked) - 1
  IN  /\ drawn' = drawn \o SubSeq(q, 1, n)
      /\ renderQ' = SubSeq(q, n + 1, Len(q))
      /\ frame' = (renderQ' # <<>>)

(* What stays of the data of an operation that has to wait: fillRect()     *)
(* keeps the array it is given, blitImage() and blitRgbImage() copy from   *)
(* the start of the buffer, whatever the offset.                           *)
Kept(o) == IF o.data = "offset" THEN [o EXCEPT !.data = "wrong"] ELSE o

(* renderQ_push(), and the methods that draw at once when nothing waits.   *)
Push(ops) ==
  /\ IF renderQ = <<>>
       THEN ScanQ(ops)
       ELSE renderQ' = renderQ \o [i \in DOMAIN ops |-> Kept(ops[i])] /\ UNCHANGED <<frame, drawn>>
  /\ UNCHANGED loaded

(* New bytes are written over the receive queue.                           *)
Overwritten(o) == IF o.data = "view" THEN [o EXCEPT !.data = "wrong"] ELSE o

(* finishTile() draws at once, always.                                     *)
DrawTile(o) ==
  /\ drawn' = Append(drawn, o)
  /\ UNCHANGED <<renderQ, loaded, frame>>

(* clear().                                                                *)
Clear == renderQ' = <<>> /\ drawn' = <<>> /\ UNCHANGED <<loaded, frame>>

ImageLoads ==
  \E o \in ToSet(renderQ) :
    /\ o.img /\ o.id \notin loaded
    /\ loaded' = loaded \cup {o.id}
    /\ UNCHANGED <<renderQ, frame, drawn>>

AnimationFrame ==
  /\ frame
  /\ ScanQ(renderQ)
  /\ UNCHANGED loaded
=============================================================================
