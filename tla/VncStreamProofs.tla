--------------------------- MODULE VncStreamProofs ---------------------------
(***************************************************************************)
(* The handlers of rfb.js take an update apart where it is put together:   *)
(* whatever part of a rectangle has come, what a handler takes are the     *)
(* next units of that rectangle, and the stream goes on behind them        *)
(* (TakeRectangle).  The place of the client in the stream (Here) is a     *)
(* function of FBU and of the operations drawn so far; the units that have *)
(* come and those on their way lead from there to the place of the server  *)
(* (There). What is drawn is numbered as it was sent (DrawsInOrder).       *)
(***************************************************************************)
EXTENDS VncSession, TLAPS, FiniteSetTheorems, SequenceTheorems

(* The encodings, as the fields of a unit name them.                       *)
Names == {"img", "zlib", "fill", "copy", "tiny", "raw", "rre", "hextile",
          "resize", "screens", "refused", "qemu", "last", "unknown"}

(* Places in the stream: outside of rectangles (at says before which unit),*)
(* before the next of left rectangles, and behind pos units of a rectangle *)
(* with left still to be completed.  The next operation drawn from the     *)
(* stream has the number id.                                               *)
At(at, id) == [at |-> at, pos |-> 0, left |-> 0, id |-> id]
Between(left, id) ==
  IF left = 0 THEN At("msg", id) ELSE [at |-> "rect", pos |-> 0, left |-> left, id |-> id]
Further(enc, left) == IF enc = "last" THEN 0 ELSE left - 1
Within(enc, pos, left, id) ==
  IF pos = Len(Rectangle(enc, id)) THEN Between(Further(enc, left), id + Drawing(enc))
  ELSE [at |-> enc, pos |-> pos, left |-> left, id |-> id]

(* The unit u may stand at the place p, when the encodings are E.          *)
Fits(E, p, u) ==
  CASE p.at = "init"   -> u.k = "init" /\ u.n = 1
    [] p.at = "msg"    -> u.k \in {"cut", "update"}
    [] p.at = "length" -> u.n = 1
    [] p.at = "count"  -> u.n > 0
    [] p.at = "rect"   -> u.k \in E
    [] p.at \in Names  -> u = Rectangle(p.at, p.id)[p.pos + 1]
    [] OTHER           -> p.at \in {"more", "text"}

(* The place behind it.                                                    *)
After(p, u) ==
  CASE p.at = "init"   -> At("more", p.id)
    [] p.at = "msg"    -> At(IF u.k = "cut" THEN "length" ELSE "count", p.id)
    [] p.at = "length" -> At("text", p.id)
    [] p.at = "count"  -> Between(u.n, p.id)
    [] p.at = "rect"   -> Within(u.k, 1, p.left, p.id)
    [] p.at \in Names  -> Within(p.at, p.pos + 1, p.left, p.id)
    [] OTHER           -> At("msg", p.id)

(* The units s lead from the place p to the place q.                       *)
Leads(E, p, s, q) ==
  \E place : /\ place[1] = p /\ place[Len(s) + 1] = q
             /\ \A i \in 1..Len(s) : Fits(E, place[i], s[i]) /\ place[i + 1] = After(place[i], s[i])
-----------------------------------------------------------------------------

(* A set of numbers has a least one: the least of the intervals 0..n is    *)
(* there because no finite set has an endless chain of smaller ones.       *)
LEMMA LeastNat ==
  ASSUME NEW S \in SUBSET Nat, S # {}
  PROVE  \E n \in S : \A m \in S : n <= m
<1> DEFINE F == {0..n : n \in S}
<1>1. F \subseteq FiniteSubsetsOf(Nat) /\ F # {}
  <2>1. \A n \in S : 0..n \in SUBSET Nat /\ IsFiniteSet(0..n)
    BY FS_Interval
  <2> QED BY <2>1 DEF FiniteSubsetsOf
<1>2. PICK x \in F : \A y \in F : ~(<<y, x>> \in StrictSubsetOrdering(Nat))
  BY <1>1, FS_StrictSubsetOrderingWellFounded, WFMin
<1>3. PICK n \in S : x = 0..n
  OBVIOUS
<1>4. ASSUME NEW m \in S PROVE n <= m
  <2> SUFFICES ASSUME m < n PROVE FALSE
    BY <1>3
  <2>1. 0..m \in F /\ 0..m \in SUBSET Nat /\ 0..n \in SUBSET Nat
    OBVIOUS
  <2>2. 0..m \subseteq 0..n /\ n \in 0..n /\ n \notin 0..m
    OBVIOUS
  <2>3. <<0..m, 0..n>> \in StrictSubsetOrdering(Nat)
    BY <2>1, <2>2 DEF StrictSubsetOrdering
  <2> QED BY <1>2, <1>3, <2>1, <2>3
<1> QED BY <1>4

(* Without units the place stays.                                          *)
LEMMA LeadsNowhere ==
  ASSUME NEW E, NEW p, NEW q
  PROVE  Leads(E, p, <<>>, q) <=> p = q
<1>1. ASSUME p = q PROVE Leads(E, p, <<>>, q)
  <2> DEFINE place == [i \in {1} |-> p]
  <2>1. place[1] = p /\ place[Len(<<>>) + 1] = q /\ 1..Len(<<>>) = {}
    BY <1>1
  <2> HIDE DEF place
  <2> QED BY <2>1 DEF Leads
<1>2. ASSUME Leads(E, p, <<>>, q) PROVE p = q
  BY <1>2 DEF Leads
<1> QED BY <1>1, <1>2

(* One sequence behind the other.                                          *)
LEMMA LeadsBehind ==
  ASSUME NEW E, NEW p, NEW q, NEW r, NEW U, NEW s \in Seq(U), NEW t \in Seq(U),
         Leads(E, p, s, q), Leads(E, q, t, r)
  PROVE  Leads(E, p, s \o t, r)
<1>1. PICK a : /\ a[1] = p /\ a[Len(s) + 1] = q
               /\ \A i \in 1..Len(s) : Fits(E, a[i], s[i]) /\ a[i + 1] = After(a[i], s[i])
  BY DEF Leads
<1>2. PICK b : /\ b[1] = q /\ b[Len(t) + 1] = r
               /\ \A i \in 1..Len(t) : Fits(E, b[i], t[i]) /\ b[i + 1] = After(b[i], t[i])
  BY DEF Leads
<1> DEFINE c == [i \in 1..(Len(s) + Len(t) + 1) |-> IF i <= Len(s) THEN a[i] ELSE b[i - Len(s)]]
<1>3. Len(s) \in Nat /\ Len(t) \in Nat /\ Len(s \o t) = Len(s) + Len(t)
  OBVIOUS
<1>4. c[1] = p /\ c[Len(s \o t) + 1] = r
  BY <1>1, <1>2, <1>3
<1>5. ASSUME NEW i \in 1..Len(s \o t)
      PROVE  Fits(E, c[i], (s \o t)[i]) /\ c[i + 1] = After(c[i], (s \o t)[i])
  <2>1. CASE i <= Len(s)
    <3>1. i \in 1..Len(s) /\ (s \o t)[i] = s[i] /\ c[i] = a[i]
      BY <1>3, <2>1
    <3>2. c[i + 1] = a[i + 1]
      BY <1>1, <1>2, <1>3, <2>1
    <3> QED BY <1>1, <3>1, <3>2
  <2>2. CASE i > Len(s)
    <3>1. /\ i - Len(s) \in 1..Len(t) /\ (s \o t)[i] = t[i - Len(s)]
          /\ c[i] = b[i - Len(s)] /\ c[i + 1] = b[i - Len(s) + 1]
      BY <1>3, <2>2
    <3> QED BY <1>2, <3>1
  <2> QED BY <1>3, <2>1, <2>2
<1> HIDE DEF c
<1> QED BY <1>4, <1>5 DEF Leads

(* What is left of a sequence when n elements have been taken.             *)
LEMMA Rest ==
  ASSUME NEW U, NEW s \in Seq(U), NEW n \in 0..Len(s)
  PROVE  /\ SubSeq(s, n + 1, Len(s)) \in Seq(U) /\ Len(SubSeq(s, n + 1, Len(s))) = Len(s) - n
         /\ \A i \in 1..(Len(s) - n) : SubSeq(s, n + 1, Len(s))[i] = s[n + i]
<1>1. Len(s) \in Nat /\ n \in Nat /\ n + 1 \in Int
  BY LenProperties
<1>2. \A i \in (n + 1)..Len(s) : s[i] \in U
  BY <1>1, ElementOfSeq
<1>3. /\ SubSeq(s, n + 1, Len(s)) \in Seq(U)
      /\ Len(SubSeq(s, n + 1, Len(s))) =
           (IF n + 1 <= Len(s) THEN Len(s) - (n + 1) + 1 ELSE 0)
      /\ \A i \in 1..(Len(s) - (n + 1) + 1) : SubSeq(s, n + 1, Len(s))[i] = s[n + 1 + i - 1]
  BY <1>1, <1>2, SubSeqProperties
<1>4. Len(SubSeq(s, n + 1, Len(s))) = Len(s) - n
  BY <1>1, <1>3
<1>5. ASSUME NEW i \in 1..(Len(s) - n) PROVE SubSeq(s, n + 1, Len(s))[i] = s[n + i]
  <2>1. i \in 1..(Len(s) - (n + 1) + 1) /\ n + 1 + i - 1 = n + i
    BY <1>1
  <2> QED BY <1>3, <2>1
<1> QED BY <1>3, <1>4, <1>5

(* Taken again.                                                            *)
LEMMA RestOfRest ==
  ASSUME NEW U, NEW s \in Seq(U), NEW n \in 1..Len(s)
  PROVE  LET r == SubSeq(s, n, Len(s))
         IN  SubSeq(r, 2, Len(r)) = SubSeq(s, n + 1, Len(s))
<1> DEFINE r == SubSeq(s, n, Len(s))
           t == SubSeq(r, 2, Len(r))
           u == SubSeq(s, n + 1, Len(s))
<1>1. Len(s) \in Nat /\ n - 1 \in 0..Len(s) /\ (n - 1) + 1 = n /\ n \in 0..Len(s)
  BY LenProperties
<1>2. r \in Seq(U) /\ Len(r) = Len(s) - (n - 1) /\ \A i \in 1..(Len(s) - (n - 1)) : r[i] = s[n - 1 + i]
  BY <1>1, Rest
<1>3. u \in Seq(U) /\ Len(u) = Len(s) - n /\ \A i \in 1..(Len(s) - n) : u[i] = s[n + i]
  BY <1>1, Rest
<1> HIDE DEF r, u
<1>4. 1 \in 0..Len(r) /\ 1 + 1 = 2
  BY <1>1, <1>2
<1>5. t \in Seq(U) /\ Len(t) = Len(r) - 1 /\ \A i \in 1..(Len(r) - 1) : t[i] = r[1 + i]
  BY <1>2, <1>4, Rest
<1> HIDE DEF t
<1>6. Len(t) = Len(u)
  BY <1>1, <1>2, <1>3, <1>5
<1>7. ASSUME NEW i \in 1..Len(t) PROVE t[i] = u[i]
  <2>1. t[i] = r[1 + i] /\ 1 + i \in 1..(Len(s) - (n - 1)) /\ n - 1 + (1 + i) = n + i
        /\ i \in 1..(Len(s) - n)
    BY <1>1, <1>2, <1>5
  <2> QED BY <1>2, <1>3, <2>1
<1>8. t = u
  BY <1>3, <1>5, <1>6, <1>7, SeqEqual
<1> QED BY <1>8 DEF t, u, r

(* The first unit fits, and behind it the stream goes on.                  *)
LEMMA TakeOne ==
  ASSUME NEW E, NEW p, NEW q, NEW U, NEW s \in Seq(U), NEW t \in Seq(U), Len(s) >= 1,
         Leads(E, p, s \o t, q)
  PROVE  /\ Fits(E, p, s[1])
         /\ Leads(E, After(p, s[1]), SubSeq(s, 2, Len(s)) \o t, q)
         /\ SubSeq(s, 2, Len(s)) \in Seq(U) /\ Len(SubSeq(s, 2, Len(s))) = Len(s) - 1
<1> DEFINE r == SubSeq(s, 2, Len(s))
           st == s \o t
           rt == r \o t
<1>1. Len(s) \in Nat /\ Len(t) \in Nat /\ 1 \in 0..Len(s) /\ 1 + 1 = 2
  BY LenProperties
<1>2. r \in Seq(U) /\ Len(r) = Len(s) - 1 /\ \A i \in 1..(Len(s) - 1) : r[i] = s[1 + i]
  BY <1>1, Rest
<1>3. Len(st) = Len(s) + Len(t) /\ \A i \in 1..(Len(s) + Len(t)) :
        st[i] = IF i <= Len(s) THEN s[i] ELSE t[i - Len(s)]
  BY ConcatProperties
<1> HIDE DEF r, st
<1>4. Len(rt) = Len(r) + Len(t) /\ \A i \in 1..(Len(r) + Len(t)) :
        rt[i] = IF i <= Len(r) THEN r[i] ELSE t[i - Len(r)]
  BY <1>2, ConcatProperties
<1> HIDE DEF rt
<1>5. PICK a : /\ a[1] = p /\ a[Len(st) + 1] = q
               /\ \A i \in 1..Len(st) : Fits(E, a[i], st[i]) /\ a[i + 1] = After(a[i], st[i])
  BY DEF Leads, st
<1> DEFINE b == [i \in 1..Len(st) |-> a[i + 1]]
<1>6. st[1] = s[1] /\ 1 \in 1..Len(st) /\ Len(rt) = Len(st) - 1
  BY <1>1, <1>2, <1>3, <1>4
<1>7. b[1] = After(p, s[1]) /\ b[Len(rt) + 1] = q
  BY <1>1, <1>3, <1>5, <1>6
<1>8. ASSUME NEW i \in 1..Len(rt)
      PROVE  Fits(E, b[i], rt[i]) /\ b[i + 1] = After(b[i], rt[i])
  <2>1. i \in 1..Len(st) /\ i + 1 \in 1..Len(st)
    BY <1>1, <1>3, <1>6
  <2>2. b[i] = a[i + 1] /\ b[i + 1] = a[(i + 1) + 1]
    BY <1>1, <1>3, <2>1
  <2>3. rt[i] = st[i + 1]
    <3>1. CASE i <= Len(r)
      <4>1. i \in 1..(Len(s) - 1) /\ i \in 1..(Len(r) + Len(t)) /\ i + 1 <= Len(s) /\ 1 + i = i + 1
        BY <1>1, <1>2, <3>1
      <4> QED BY <1>2, <1>3, <1>4, <2>1, <3>1, <4>1
    <3>2. CASE i > Len(r)
      <4>1. /\ i \in 1..(Len(r) + Len(t)) /\ ~(i <= Len(r)) /\ ~(i + 1 <= Len(s))
            /\ i - Len(r) = (i + 1) - Len(s)
        BY <1>1, <1>2, <1>4, <3>2
      <4> QED BY <1>3, <1>4, <2>1, <4>1
    <3> QED BY <1>1, <1>2, <3>1, <3>2
  <2> QED BY <1>5, <2>1, <2>2, <2>3
<1> HIDE DEF b
<1>9. Leads(E, After(p, s[1]), rt, q)
  BY <1>7, <1>8 DEF Leads
<1>10. Fits(E, p, s[1])
  BY <1>5, <1>6
<1> QED BY <1>2, <1>9, <1>10 DEF r, rt

(* Two units.                                                              *)
LEMMA TakeTwo ==
  ASSUME NEW E, NEW p, NEW q, NEW U, NEW s \in Seq(U), NEW t \in Seq(U), Len(s) >= 2,
         Leads(E, p, s \o t, q)
  PROVE  /\ Fits(E, p, s[1]) /\ Fits(E, After(p, s[1]), s[2])
         /\ Leads(E, After(After(p, s[1]), s[2]), SubSeq(s, 3, Len(s)) \o t, q)
         /\ SubSeq(s, 3, Len(s)) \in Seq(U) /\ Len(SubSeq(s, 3, Len(s))) = Len(s) - 2
<1> DEFINE r == SubSeq(s, 2, Len(s))
<1>1. Len(s) \in Nat /\ Len(s) >= 1 /\ 2 \in 1..Len(s) /\ 2 + 1 = 3 /\ 1 \in 0..Len(s) /\ 1 + 1 = 2
  BY LenProperties
<1>2. /\ Fits(E, p, s[1]) /\ Leads(E, After(p, s[1]), r \o t, q)
      /\ r \in Seq(U) /\ Len(r) = Len(s) - 1
  BY <1>1, TakeOne
<1>3. r[1] = s[2]
  <2>1. 1 \in 1..(Len(s) - 1)
    BY <1>1
  <2> QED BY <1>1, <2>1, Rest
<1>4. SubSeq(r, 2, Len(r)) = SubSeq(s, 3, Len(s))
  BY <1>1, RestOfRest
<1> HIDE DEF r
<1>5. Len(r) >= 1
  BY <1>1, <1>2
<1>6. /\ Fits(E, After(p, s[1]), r[1])
      /\ Leads(E, After(After(p, s[1]), r[1]), SubSeq(r, 2, Len(r)) \o t, q)
      /\ SubSeq(r, 2, Len(r)) \in Seq(U) /\ Len(SubSeq(r, 2, Len(r))) = Len(r) - 1
  BY <1>2, <1>5, TakeOne
<1>7. Len(r) - 1 = Len(s) - 2
  BY <1>1, <1>2
<1> QED BY <1>2, <1>3, <1>4, <1>6, <1>7

(* Three units.                                                            *)
LEMMA TakeThree ==
  ASSUME NEW E, NEW p, NEW q, NEW U, NEW s \in Seq(U), NEW t \in Seq(U), Len(s) >= 3,
         Leads(E, p, s \o t, q)
  PROVE  /\ Fits(E, p, s[1]) /\ Fits(E, After(p, s[1]), s[2])
         /\ Fits(E, After(After(p, s[1]), s[2]), s[3])
         /\ Leads(E, After(After(After(p, s[1]), s[2]), s[3]), SubSeq(s, 4, Len(s)) \o t, q)
         /\ SubSeq(s, 4, Len(s)) \in Seq(U) /\ Len(SubSeq(s, 4, Len(s))) = Len(s) - 3
<1> DEFINE r == SubSeq(s, 3, Len(s))
<1>1. Len(s) \in Nat /\ Len(s) >= 2 /\ 3 \in 1..Len(s) /\ 3 + 1 = 4 /\ 2 \in 0..Len(s) /\ 2 + 1 = 3
  BY LenProperties
<1>2. /\ Fits(E, p, s[1]) /\ Fits(E, After(p, s[1]), s[2])
      /\ Leads(E, After(After(p, s[1]), s[2]), r \o t, q)
      /\ r \in Seq(U) /\ Len(r) = Len(s) - 2
  BY <1>1, TakeTwo
<1>3. r[1] = s[3]
  <2>1. 1 \in 1..(Len(s) - 2)
    BY <1>1
  <2> QED BY <1>1, <2>1, Rest
<1>4. SubSeq(r, 2, Len(r)) = SubSeq(s, 4, Len(s))
  BY <1>1, RestOfRest
<1> HIDE DEF r
<1>5. Len(r) >= 1
  BY <1>1, <1>2
<1>6. /\ Fits(E, After(After(p, s[1]), s[2]), r[1])
      /\ Leads(E, After(After(After(p, s[1]), s[2]), r[1]), SubSeq(r, 2, Len(r)) \o t, q)
      /\ SubSeq(r, 2, Len(r)) \in Seq(U) /\ Len(SubSeq(r, 2, Len(r))) = Len(r) - 1
  BY <1>2, <1>5, TakeOne
<1>7. Len(r) - 1 = Len(s) - 3
  BY <1>1, <1>2
<1> QED BY <1>2, <1>3, <1>4, <1>6, <1>7

(* The kinds of units, and the units.                                      *)
Kinds == Names \cup {"version", "data", "types", "challenge", "reason", "result", "init", "ctl",
                      "cut", "length", "update", "count"}
Units == [k : Kinds, n : Nat, id : Nat]

(* The rectangles one by one.                                              *)
LEMMA Rectangles ==
  ASSUME NEW id \in Nat
  PROVE  /\ \A enc \in {"img", "zlib", "fill", "tiny"} : Rectangle(enc, id) =
              <<Unit(enc, 0, 0), Unit("ctl", 1, id), Unit("data", 0, id)>>
         /\ Rectangle("copy", id) = <<Unit("copy", 0, 0), Unit("data", 0, id)>>
         /\ Rectangle("raw", id) = <<Unit("raw", 0, 0), Unit("data", 0, id), Unit("data", 0, id + 1)>>
         /\ Rectangle("rre", id) = <<Unit("rre", 0, 0), Unit("ctl", 1, id), Unit("data", 0, id + 1)>>
         /\ Rectangle("hextile", id) =
              <<Unit("hextile", 0, 0), Unit("ctl", 1, id), Unit("data", 0, id),
                Unit("ctl", 1, id + 1), Unit("data", 0, id + 1)>>
         /\ \A enc \in {"screens", "refused"} : Rectangle(enc, id) =
              <<Unit(enc, 0, 0), Unit("ctl", 1, 0), Unit("data", 0, 0)>>
         /\ \A enc \in {"resize", "qemu", "last", "unknown"} : Rectangle(enc, id) = <<Unit(enc, 0, 0)>>
BY DEF Rectangle

(* A rectangle is a short sequence of units that begins with its encoding. *)
LEMMA RectangleType ==
  ASSUME NEW enc \in Names, NEW id \in Nat
  PROVE  /\ Rectangle(enc, id) \in Seq(Units) /\ Len(Rectangle(enc, id)) \in 1..5
         /\ Rectangle(enc, id)[1].k = enc /\ Drawing(enc) \in Nat
<1>1. \A k \in Kinds, n \in Nat, i \in Nat : Unit(k, n, i) \in Units /\ Unit(k, n, i).k = k
  BY DEF Unit, Units
<1>2. \A a, b, c, d, e \in Units :
        /\ <<a>> \in Seq(Units) /\ <<a, b>> \in Seq(Units) /\ <<a, b, c>> \in Seq(Units)
        /\ <<a, b, c, d, e>> \in Seq(Units)
  OBVIOUS
<1>3. enc \in Kinds /\ {"ctl", "data"} \subseteq Kinds
  BY DEF Kinds
<1>4. Drawing(enc) \in Nat
  BY DEF Drawing
<1>5. CASE enc \in {"img", "zlib", "fill", "tiny"}
  <2>1. Rectangle(enc, id) = <<Unit(enc, 0, 0), Unit("ctl", 1, id), Unit("data", 0, id)>>
    BY <1>5, Rectangles
  <2>2. {Unit(enc, 0, 0), Unit("ctl", 1, id), Unit("data", 0, id)} \subseteq Units
    BY <1>1, <1>3
  <2> QED BY <1>1, <1>2, <1>3, <1>4, <2>1, <2>2
<1>6. CASE enc = "copy"
  <2>1. Rectangle(enc, id) = <<Unit(enc, 0, 0), Unit("data", 0, id)>>
    BY <1>6, Rectangles
  <2>2. {Unit(enc, 0, 0), Unit("data", 0, id)} \subseteq Units
    BY <1>1, <1>3
  <2> QED BY <1>1, <1>2, <1>3, <1>4, <2>1, <2>2
<1>7. CASE enc = "raw"
  <2>1. Rectangle(enc, id) = <<Unit(enc, 0, 0), Unit("data", 0, id), Unit("data", 0, id + 1)>>
    BY <1>7, Rectangles
  <2>2. {Unit(enc, 0, 0), Unit("data", 0, id), Unit("data", 0, id + 1)} \subseteq Units
    BY <1>1, <1>3
  <2> QED BY <1>1, <1>2, <1>3, <1>4, <2>1, <2>2
<1>8. CASE enc = "rre"
  <2>1. Rectangle(enc, id) = <<Unit(enc, 0, 0), Unit("ctl", 1, id), Unit("data", 0, id + 1)>>
    BY <1>8, Rectangles
  <2>2. {Unit(enc, 0, 0), Unit("ctl", 1, id), Unit("data", 0, id + 1)} \subseteq Units
    BY <1>1, <1>3
  <2> QED BY <1>1, <1>2, <1>3, <1>4, <2>1, <2>2
<1>9. CASE enc = "hextile"
  <2>1. Rectangle(enc, id) =
          <<Unit(enc, 0, 0), Unit("ctl", 1, id), Unit("data", 0, id),
            Unit("ctl", 1, id + 1), Unit("data", 0, id + 1)>>
    BY <1>9, Rectangles
  <2>2. {Unit(enc, 0, 0), Unit("ctl", 1, id), Unit("data", 0, id),
          Unit("ctl", 1, id + 1), Unit("data", 0, id + 1)} \subseteq Units
    BY <1>1, <1>3
  <2> QED BY <1>1, <1>2, <1>3, <1>4, <2>1, <2>2
<1>10. CASE enc \in {"screens", "refused"}
  <2>1. Rectangle(enc, id) = <<Unit(enc, 0, 0), Unit("ctl", 1, 0), Unit("data", 0, 0)>>
    BY <1>10, Rectangles
  <2>2. {Unit(enc, 0, 0), Unit("ctl", 1, 0), Unit("data", 0, 0)} \subseteq Units
    BY <1>1, <1>3
  <2> QED BY <1>1, <1>2, <1>3, <1>4, <2>1, <2>2
<1>11. CASE enc \in {"resize", "qemu", "last", "unknown"}
  <2>1. Rectangle(enc, id) = <<Unit(enc, 0, 0)>>
    BY <1>11, Rectangles
  <2>2. {Unit(enc, 0, 0)} \subseteq Units
    BY <1>1, <1>3
  <2> QED BY <1>1, <1>2, <1>3, <1>4, <2>1, <2>2
<1> QED BY <1>5, <1>6, <1>7, <1>8, <1>9, <1>10, <1>11 DEF Names

(* Behind its header are control units and data.                           *)
LEMMA Body ==
  ASSUME NEW enc \in Names, NEW id \in Nat, NEW i \in 2..Len(Rectangle(enc, id))
  PROVE  Rectangle(enc, id)[i].k \in {"ctl", "data"}
<1>1. \A n, m : Unit("ctl", n, m).k \in {"ctl", "data"} /\ Unit("data", n, m).k \in {"ctl", "data"}
  BY DEF Unit
<1>2. \A a, b, c, d, e : /\ \A j \in 2..Len(<<a>>) : FALSE
                         /\ \A j \in 2..Len(<<a, b>>) : <<a, b>>[j] = b
                         /\ \A j \in 2..Len(<<a, b, c>>) : <<a, b, c>>[j] \in {b, c}
                         /\ \A j \in 2..Len(<<a, b, c, d, e>>) : <<a, b, c, d, e>>[j] \in {b, c, d, e}
  OBVIOUS
<1>3. CASE enc \in {"img", "zlib", "fill", "tiny", "screens", "refused"}
  <2>1. \/ Rectangle(enc, id) = <<Unit(enc, 0, 0), Unit("ctl", 1, id), Unit("data", 0, id)>>
        \/ Rectangle(enc, id) = <<Unit(enc, 0, 0), Unit("ctl", 1, 0), Unit("data", 0, 0)>>
    BY <1>3, Rectangles
  <2> QED BY <1>1, <1>2, <2>1
<1>4. CASE enc = "copy"
  <2>1. Rectangle(enc, id) = <<Unit(enc, 0, 0), Unit("data", 0, id)>>
    BY <1>4, Rectangles
  <2> QED BY <1>1, <1>2, <2>1
<1>5. CASE enc = "raw"
  <2>1. Rectangle(enc, id) = <<Unit(enc, 0, 0), Unit("data", 0, id), Unit("data", 0, id + 1)>>
    BY <1>5, Rectangles
  <2> QED BY <1>1, <1>2, <2>1
<1>6. CASE enc = "rre"
  <2>1. Rectangle(enc, id) = <<Unit(enc, 0, 0), Unit("ctl", 1, id), Unit("data", 0, id + 1)>>
    BY <1>6, Rectangles
  <2> QED BY <1>1, <1>2, <2>1
<1>7. CASE enc = "hextile"
  <2>1. Rectangle(enc, id) =
          <<Unit(enc, 0, 0), Unit("ctl", 1, id), Unit("data", 0, id),
            Unit("ctl", 1, id + 1), Unit("data", 0, id + 1)>>
    BY <1>7, Rectangles
  <2> QED BY <1>1, <1>2, <2>1
<1>8. CASE enc \in {"resize", "qemu", "last", "unknown"}
  <2>1. Rectangle(enc, id) = <<Unit(enc, 0, 0)>>
    BY <1>8, Rectangles
  <2> QED BY <1>2, <2>1
<1> QED BY <1>3, <1>4, <1>5, <1>6, <1>7, <1>8 DEF Names

(* ... which most encodings have.                                          *)
LEMMA BodyLength ==
  ASSUME NEW enc \in Names \ {"resize", "qemu", "last", "unknown"}, NEW id \in Nat
  PROVE  /\ Len(Rectangle(enc, id)) \in 2..5
         /\ enc \in {"raw", "rre"} => Len(Rectangle(enc, id)) = 3
         /\ enc = "hextile" => Len(Rectangle(enc, id)) = 5
<1>1. CASE enc \in {"img", "zlib", "fill", "tiny"}
  <2>1. Rectangle(enc, id) = <<Unit(enc, 0, 0), Unit("ctl", 1, id), Unit("data", 0, id)>>
    BY <1>1, Rectangles
  <2> QED BY <1>1, <2>1
<1>2. CASE enc \in {"screens", "refused"}
  <2>1. Rectangle(enc, id) = <<Unit(enc, 0, 0), Unit("ctl", 1, 0), Unit("data", 0, 0)>>
    BY <1>2, Rectangles
  <2> QED BY <1>2, <2>1
<1>3. CASE enc = "copy"
  <2>1. Rectangle(enc, id) = <<Unit(enc, 0, 0), Unit("data", 0, id)>>
    BY <1>3, Rectangles
  <2> QED BY <1>3, <2>1
<1>4. CASE enc = "raw"
  <2>1. Rectangle(enc, id) = <<Unit(enc, 0, 0), Unit("data", 0, id), Unit("data", 0, id + 1)>>
    BY <1>4, Rectangles
  <2> QED BY <1>4, <2>1
<1>5. CASE enc = "rre"
  <2>1. Rectangle(enc, id) = <<Unit(enc, 0, 0), Unit("ctl", 1, id), Unit("data", 0, id + 1)>>
    BY <1>5, Rectangles
  <2> QED BY <1>5, <2>1
<1>6. CASE enc = "hextile"
  <2>1. Rectangle(enc, id) =
          <<Unit(enc, 0, 0), Unit("ctl", 1, id), Unit("data", 0, id),
            Unit("ctl", 1, id + 1), Unit("data", 0, id + 1)>>
    BY <1>6, Rectangles
  <2> QED BY <1>6, <2>1
<1> QED BY <1>1, <1>2, <1>3, <1>4, <1>5, <1>6 DEF Names

(* Inside a rectangle the next unit is its next one.                       *)
LEMMA Inside ==
  ASSUME NEW E, NEW enc \in Names, NEW id \in Nat, NEW left, NEW pos \in Nat \ {0},
         pos < Len(Rectangle(enc, id)), NEW u
  PROVE  /\ Fits(E, Within(enc, pos, left, id), u) <=> u = Rectangle(enc, id)[pos + 1]
         /\ After(Within(enc, pos, left, id), u) = Within(enc, pos + 1, left, id)
<1>1. Within(enc, pos, left, id) = [at |-> enc, pos |-> pos, left |-> left, id |-> id]
  BY RectangleType DEF Within
<1>2. enc \notin {"init", "msg", "length", "count", "rect", "more", "text"}
  BY DEF Names
<1> DEFINE p == [at |-> enc, pos |-> pos, left |-> left, id |-> id]
<1>3. p.at = enc /\ p.pos = pos /\ p.left = left /\ p.id = id
  OBVIOUS
<1> HIDE DEF p
<1>4. (Fits(E, p, u) <=> u = Rectangle(enc, id)[pos + 1]) /\ After(p, u) = Within(enc, pos + 1, left, id)
  BY <1>2, <1>3 DEF Fits, After
<1> QED BY <1>1, <1>4 DEF p

(* Before a rectangle, and outside of updates.                             *)
LEMMA Header ==
  ASSUME NEW E, NEW id, NEW left, left # 0, NEW u
  PROVE  /\ Fits(E, Between(left, id), u) <=> u.k \in E
         /\ After(Between(left, id), u) = Within(u.k, 1, left, id)
<1> DEFINE p == Between(left, id)
<1>1. p.at = "rect" /\ p.left = left /\ p.id = id
  BY DEF Between
<1> HIDE DEF p
<1>2. (Fits(E, p, u) <=> u.k \in E) /\ After(p, u) = Within(u.k, 1, left, id)
  BY <1>1 DEF Fits, After, Names
<1> QED BY <1>2 DEF p

(* The places outside of updates: what fits there, and what comes after.   *)
LEMMA Elsewhere ==
  ASSUME NEW E, NEW id, NEW u
  PROVE  /\ Fits(E, At("init", id), u) <=> u.k = "init" /\ u.n = 1
         /\ After(At("init", id), u) = At("more", id)
         /\ Fits(E, At("more", id), u) /\ After(At("more", id), u) = At("msg", id)
         /\ Fits(E, At("msg", id), u) <=> u.k \in {"cut", "update"}
         /\ u.k = "cut" => After(At("msg", id), u) = At("length", id)
         /\ u.k = "update" => After(At("msg", id), u) = At("count", id)
         /\ Fits(E, At("length", id), u) <=> u.n = 1
         /\ After(At("length", id), u) = At("text", id)
         /\ Fits(E, At("text", id), u) /\ After(At("text", id), u) = At("msg", id)
         /\ Fits(E, At("count", id), u) <=> u.n > 0
         /\ After(At("count", id), u) = Between(u.n, id)
<1>1. \A at : At(at, id).at = at /\ At(at, id).id = id
  BY DEF At
<1>2. Names \cap {"init", "more", "msg", "length", "text", "count"} = {}
  BY DEF Names
<1>3. /\ Fits(E, At("init", id), u) <=> u.k = "init" /\ u.n = 1
      /\ After(At("init", id), u) = At("more", id)
  BY <1>1, <1>2 DEF Fits, After
<1>4. Fits(E, At("more", id), u) /\ After(At("more", id), u) = At("msg", id)
  BY <1>1, <1>2 DEF Fits, After
<1>5. /\ Fits(E, At("msg", id), u) <=> u.k \in {"cut", "update"}
      /\ u.k = "cut" => After(At("msg", id), u) = At("length", id)
      /\ u.k = "update" => After(At("msg", id), u) = At("count", id)
  BY <1>1, <1>2 DEF Fits, After
<1>6. /\ Fits(E, At("length", id), u) <=> u.n = 1
      /\ After(At("length", id), u) = At("text", id)
  BY <1>1, <1>2 DEF Fits, After
<1>7. Fits(E, At("text", id), u) /\ After(At("text", id), u) = At("msg", id)
  BY <1>1, <1>2 DEF Fits, After
<1>8. /\ Fits(E, At("count", id), u) <=> u.n > 0
      /\ After(At("count", id), u) = Between(u.n, id)
  BY <1>1, <1>2 DEF Fits, After
<1> QED BY <1>3, <1>4, <1>5, <1>6, <1>7, <1>8

(* A whole rectangle.                                                      *)
LEMMA LeadsRectangle ==
  ASSUME NEW E, NEW enc \in Names, enc \in E, NEW id \in Nat, NEW left \in Nat, left # 0
  PROVE  Leads(E, Between(left, id), Rectangle(enc, id), Between(Further(enc, left), id + Drawing(enc)))
<1> DEFINE r == Rectangle(enc, id)
           place == [i \in 1..(Len(r) + 1) |-> IF i = 1 THEN Between(left, id)
                                               ELSE Within(enc, i - 1, left, id)]
<1>1. Len(r) \in 1..5 /\ r[1].k = enc
  BY RectangleType
<1>2. place[1] = Between(left, id) /\ place[Len(r) + 1] = Between(Further(enc, left), id + Drawing(enc))
  BY <1>1 DEF Within
<1>3. ASSUME NEW i \in 1..Len(r)
      PROVE  Fits(E, place[i], r[i]) /\ place[i + 1] = After(place[i], r[i])
  <2>1. place[i + 1] = Within(enc, i, left, id)
    BY <1>1
  <2>2. CASE i = 1
    <3>1. place[i] = Between(left, id)
      BY <1>1, <2>2
    <3>2. Fits(E, Between(left, id), r[1]) /\ After(Between(left, id), r[1]) = Within(enc, 1, left, id)
      <4> HIDE DEF r
      <4> QED BY <1>1, Header
    <3>3. place[i + 1] = Within(enc, 1, left, id)
      BY <2>1, <2>2
    <3> QED BY <2>2, <3>1, <3>2, <3>3
  <2>3. CASE i > 1
    <3> DEFINE m == i - 1
    <3>1. place[i] = Within(enc, m, left, id)
      BY <1>1, <2>3
    <3>2. m \in Nat \ {0} /\ m < Len(r) /\ m + 1 = i
      BY <1>1, <2>3
    <3> HIDE DEF m
    <3>3. /\ Fits(E, Within(enc, m, left, id), r[i]) <=> r[i] = r[m + 1]
          /\ After(Within(enc, m, left, id), r[i]) = Within(enc, m + 1, left, id)
      BY <3>2, Inside
    <3> QED BY <2>1, <3>1, <3>2, <3>3
  <2> QED BY <1>1, <2>2, <2>3
<1> HIDE DEF place
<1> QED BY <1>2, <1>3 DEF Leads

-----------------------------------------------------------------------------
(* Operations of the display (Op of VncDisplay).                           *)
Ops == [id : Nat, img : BOOLEAN, data : {"own", "view", "offset", "wrong"}]

(* The beginning of a sequence.                                            *)
LEMMA Beginning ==
  ASSUME NEW U, NEW s \in Seq(U), NEW n \in 0..Len(s)
  PROVE  /\ SubSeq(s, 1, n) \in Seq(U) /\ Len(SubSeq(s, 1, n)) = n
         /\ \A i \in 1..n : SubSeq(s, 1, n)[i] = s[i]
<1>1. Len(s) \in Nat /\ n \in Nat /\ n \in Int /\ 1 \in Int
  BY LenProperties
<1>2. \A i \in 1..n : s[i] \in U
  BY <1>1, ElementOfSeq
<1>3. /\ SubSeq(s, 1, n) \in Seq(U)
      /\ Len(SubSeq(s, 1, n)) = (IF 1 <= n THEN n - 1 + 1 ELSE 0)
      /\ \A i \in 1..(n - 1 + 1) : SubSeq(s, 1, n)[i] = s[1 + i - 1]
  BY <1>1, <1>2, SubSeqProperties
<1>4. n - 1 + 1 = n /\ \A i \in 1..n : 1 + i - 1 = i
  BY <1>1
<1> QED BY <1>1, <1>3, <1>4

(* _scan_renderQ() draws a part of the queue and keeps the rest; what it   *)
(* draws is all when nothing is an image.                                  *)
LEMMA Scanned ==
  ASSUME NEW q \in Seq(Ops), ScanQ(q)
  PROVE  \E n \in 0..Len(q) :
           /\ drawn' = drawn \o SubSeq(q, 1, n) /\ renderQ' = SubSeq(q, n + 1, Len(q))
           /\ (\A i \in 1..Len(q) : ~q[i].img) => n = Len(q)
           /\ frame' = (renderQ' # <<>>)
<1> DEFINE blocked == {i \in DOMAIN q : q[i].img /\ q[i].id \notin loaded}
           n == IF blocked = {} THEN Len(q) ELSE Min(blocked) - 1
<1>1. Len(q) \in Nat /\ DOMAIN q = 1..Len(q)
  BY LenProperties
<1>2. n \in 0..Len(q)
  <2>1. CASE blocked = {}
    BY <1>1, <2>1
  <2>2. CASE blocked # {}
    <3>1. blocked \in SUBSET Nat /\ blocked \subseteq 1..Len(q)
      BY <1>1
    <3> HIDE DEF blocked
    <3>2. \E x \in blocked : \A y \in blocked : x <= y
      BY <2>2, <3>1, LeastNat
    <3>3. Min(blocked) \in blocked
      BY <3>2 DEF Min
    <3>4. Min(blocked) \in 1..Len(q) /\ n = Min(blocked) - 1
      BY <2>2, <3>1, <3>3
    <3> HIDE DEF n
    <3> QED BY <1>1, <3>4
  <2> QED BY <2>1, <2>2
<1>3. (\A i \in 1..Len(q) : ~q[i].img) => n = Len(q)
  BY <1>1
<1>4. /\ drawn' = drawn \o SubSeq(q, 1, n) /\ renderQ' = SubSeq(q, n + 1, Len(q))
      /\ frame' = (renderQ' # <<>>)
  BY DEF ScanQ
<1> HIDE DEF n
<1> QED BY <1>2, <1>3, <1>4

(* What a handler makes of what it has decoded.                            *)
Draws(ops) == \/ Push(ops)
              \/ Len(ops) = 1 /\ DrawTile(ops[1])
              \/ ops = <<>> /\ UNCHANGED displayVars

(* The operations that have come, and those that come with the next units. *)
LEMMA DrawsAll ==
  ASSUME drawn \in Seq(Ops), renderQ \in Seq(Ops), NEW ops \in Seq(Ops), Draws(ops)
  PROVE  /\ drawn' \in Seq(Ops) /\ renderQ' \in Seq(Ops)
         /\ Len(drawn') + Len(renderQ') = Len(drawn) + Len(renderQ) + Len(ops)
<1>1. Len(drawn) \in Nat /\ Len(renderQ) \in Nat /\ Len(ops) \in Nat /\ DOMAIN ops = 1..Len(ops)
  BY LenProperties
<1>2. CASE renderQ = <<>> /\ ScanQ(ops)
  <2>1. PICK n \in 0..Len(ops) : drawn' = drawn \o SubSeq(ops, 1, n) /\ renderQ' = SubSeq(ops, n + 1, Len(ops))
    BY <1>2, Scanned
  <2>2. SubSeq(ops, 1, n) \in Seq(Ops) /\ Len(SubSeq(ops, 1, n)) = n
    BY Beginning
  <2>3. renderQ' \in Seq(Ops) /\ Len(renderQ') = Len(ops) - n
    BY <2>1, Rest
  <2>4. drawn' \in Seq(Ops) /\ Len(drawn') = Len(drawn) + n
    BY <2>1, <2>2, ConcatProperties
  <2>5. Len(renderQ) = 0
    BY <1>2
  <2> QED BY <1>1, <2>3, <2>4, <2>5
<1>3. CASE renderQ' = renderQ \o [i \in DOMAIN ops |-> Kept(ops[i])] /\ drawn' = drawn
  <2> DEFINE kept == [i \in DOMAIN ops |-> Kept(ops[i])]
  <2>1. \A o \in Ops : Kept(o) \in Ops
    BY DEF Kept, Ops
  <2>2. \A i \in 1..Len(ops) : ops[i] \in Ops
    BY ElementOfSeq
  <2>3. kept \in [1..Len(ops) -> Ops]
    BY <1>1, <2>1, <2>2
  <2>4. kept \in Seq(Ops) /\ Len(kept) = Len(ops)
    BY <1>1, <2>3
  <2>5. renderQ' = renderQ \o kept
    BY <1>3
  <2> HIDE DEF kept
  <2>6. renderQ \o kept \in Seq(Ops) /\ Len(renderQ \o kept) = Len(renderQ) + Len(kept)
    BY <2>4, ConcatProperties
  <2>7. renderQ' \in Seq(Ops) /\ Len(renderQ') = Len(renderQ) + Len(ops)
    BY <2>4, <2>5, <2>6
  <2> QED BY <1>1, <1>3, <2>7
<1>4. CASE Len(ops) = 1 /\ DrawTile(ops[1])
  <2>1. ops[1] \in Ops
    BY <1>4, ElementOfSeq, 1 \in 1..1
  <2>2. drawn' = Append(drawn, ops[1]) /\ renderQ' = renderQ
    BY <1>4 DEF DrawTile
  <2>3. drawn' \in Seq(Ops) /\ Len(drawn') = Len(drawn) + 1
    BY <2>1, <2>2, AppendProperties
  <2> QED BY <1>1, <1>4, <2>2, <2>3
<1>5. CASE ops = <<>> /\ UNCHANGED displayVars
  <2>1. Len(ops) = 0 /\ drawn' = drawn /\ renderQ' = renderQ
    BY <1>5 DEF displayVars
  <2> QED BY <1>1, <2>1
<1> QED BY <1>2, <1>3, <1>4, <1>5 DEF Draws, Push

(* What is on the canvas, and behind it what waits, is numbered through;   *)
(* what waits has bytes of its own.                                        *)
InOrder ==
  /\ \A i \in 1..Len(drawn) : drawn[i].id = i /\ drawn[i].data # "wrong"
  /\ \A i \in 1..Len(renderQ) : renderQ[i].id = Len(drawn) + i /\ renderQ[i].data = "own"

(* A scan of what comes next.                                              *)
LEMMA ScanInOrder ==
  ASSUME drawn \in Seq(Ops), \A i \in 1..Len(drawn) : drawn[i].id = i /\ drawn[i].data # "wrong",
         NEW q \in Seq(Ops), ScanQ(q),
         \A i \in 1..Len(q) : q[i].id = Len(drawn) + i /\ q[i].data # "wrong",
         (\A i \in 1..Len(q) : ~q[i].img) \/ (\A i \in 1..Len(q) : q[i].data = "own")
  PROVE  InOrder' /\ ((\A i \in 1..Len(q) : ~q[i].img) => renderQ' = <<>>)
<1>0. Len(drawn) \in Nat /\ Len(q) \in Nat
  BY LenProperties
<1>1. PICK n \in 0..Len(q) :
        /\ drawn' = drawn \o SubSeq(q, 1, n) /\ renderQ' = SubSeq(q, n + 1, Len(q))
        /\ (\A i \in 1..Len(q) : ~q[i].img) => n = Len(q)
  BY Scanned
<1> DEFINE head == SubSeq(q, 1, n)
           tail == SubSeq(q, n + 1, Len(q))
<1>2. head \in Seq(Ops) /\ Len(head) = n /\ \A i \in 1..n : head[i] = q[i]
  BY Beginning
<1>3. tail \in Seq(Ops) /\ Len(tail) = Len(q) - n /\ \A i \in 1..(Len(q) - n) : tail[i] = q[n + i]
  BY Rest
<1>4. drawn' = drawn \o head /\ renderQ' = tail
  BY <1>1
<1> HIDE DEF head, tail
<1>5. /\ Len(drawn \o head) = Len(drawn) + n
      /\ \A i \in 1..(Len(drawn) + n) :
           (drawn \o head)[i] = IF i <= Len(drawn) THEN drawn[i] ELSE head[i - Len(drawn)]
  BY <1>2, ConcatProperties
<1>6. ASSUME NEW i \in 1..Len(drawn') PROVE drawn'[i].id = i /\ drawn'[i].data # "wrong"
  <2>1. CASE i <= Len(drawn)
    <3>1. i \in 1..Len(drawn) /\ drawn'[i] = drawn[i]
      BY <1>0, <1>4, <1>5, <2>1
    <3> QED BY <3>1
  <2>2. CASE i > Len(drawn)
    <3> DEFINE m == i - Len(drawn)
    <3>1. m \in 1..n /\ m \in 1..Len(q) /\ Len(drawn) + m = i
      BY <1>0, <1>1, <1>4, <1>5, <2>2
    <3>2. drawn'[i] = head[m]
      BY <1>0, <1>4, <1>5, <2>2
    <3> HIDE DEF m
    <3>3. drawn'[i] = q[m]
      BY <1>2, <3>1, <3>2
    <3> QED BY <3>1, <3>3
  <2> QED BY <1>0, <1>4, <1>5, <2>1, <2>2
<1>7. ASSUME NEW i \in 1..Len(renderQ')
      PROVE  renderQ'[i].id = Len(drawn') + i /\ renderQ'[i].data = "own"
  <2>0. Len(drawn') = Len(drawn) + n /\ i \in 1..(Len(q) - n)
    BY <1>3, <1>4, <1>5
  <2>1. i \in 1..(Len(q) - n) /\ n + i \in 1..Len(q) /\ Len(drawn') = Len(drawn) + n /\ n # Len(q)
    BY ONLY <1>0, <2>0, n \in 0..Len(q)
  <2>2. renderQ'[i] = q[n + i]
    BY <1>3, <1>4, <2>1
  <2>3. q[n + i].data = "own"
    BY <1>1, <2>1
  <2>4. q[n + i].id = Len(drawn) + (n + i) /\ Len(drawn) + (n + i) = Len(drawn') + i
    BY <1>0, <2>1
  <2> QED BY <2>2, <2>3, <2>4
<1>8. ASSUME n = Len(q) PROVE renderQ' = <<>>
  <2>1. Len(tail) = 0
    BY <1>0, <1>3, <1>8
  <2> QED BY <1>3, <1>4, <2>1, EmptySeq
<1> QED BY <1>1, <1>6, <1>7, <1>8 DEF InOrder

(* What comes with the next units is put behind what waits.                *)
LEMMA DrawsInOrder ==
  ASSUME drawn \in Seq(Ops), renderQ \in Seq(Ops), InOrder,
         NEW ops \in Seq(Ops), Draws(ops),
         \A i \in 1..Len(ops) : ops[i].id = Len(drawn) + Len(renderQ) + i,
         \/ renderQ = <<>> /\ \A i \in 1..Len(ops) : ~ops[i].img /\ ops[i].data # "wrong"
         \/ (Push(ops) \/ ops = <<>>) /\ \A i \in 1..Len(ops) : ops[i].data = "own"
  PROVE  /\ InOrder'
         /\ renderQ = <<>> /\ (\A i \in 1..Len(ops) : ~ops[i].img) => renderQ' = <<>>
<1>1. Len(drawn) \in Nat /\ Len(renderQ) \in Nat /\ Len(ops) \in Nat /\ DOMAIN ops = 1..Len(ops)
  BY LenProperties
<1>2. CASE renderQ = <<>> /\ ScanQ(ops)
  <2>1. Len(renderQ) = 0
    BY <1>2
  <2>2. \A i \in 1..Len(ops) : ops[i].id = Len(drawn) + i /\ ops[i].data # "wrong"
    BY <1>1, <2>1
  <2> QED BY <1>2, <2>2, ScanInOrder DEF InOrder
<1>3. CASE renderQ # <<>> /\ renderQ' = renderQ \o [i \in DOMAIN ops |-> Kept(ops[i])] /\ drawn' = drawn
  <2> DEFINE kept == [i \in DOMAIN ops |-> Kept(ops[i])]
             all == renderQ \o kept
  <2>1. \A i \in 1..Len(ops) : ops[i] \in Ops /\ ops[i].data = "own"
    BY <1>3, ElementOfSeq
  <2>2. \A i \in 1..Len(ops) : kept[i] = ops[i]
    BY <1>1, <2>1 DEF Kept
  <2>3. kept \in [1..Len(ops) -> Ops]
    BY <1>1, <2>1, <2>2
  <2>4. kept \in Seq(Ops) /\ Len(kept) = Len(ops)
    BY <1>1, <2>3
  <2>5. renderQ' = all
    BY <1>3
  <2> HIDE DEF kept
  <2>6. /\ Len(all) = Len(renderQ) + Len(ops)
        /\ \A i \in 1..(Len(renderQ) + Len(ops)) :
             all[i] = IF i <= Len(renderQ) THEN renderQ[i] ELSE kept[i - Len(renderQ)]
    <3>1. /\ Len(renderQ \o kept) = Len(renderQ) + Len(kept)
          /\ \A i \in 1..(Len(renderQ) + Len(kept)) :
               (renderQ \o kept)[i] = IF i <= Len(renderQ) THEN renderQ[i] ELSE kept[i - Len(renderQ)]
      <4>1. renderQ \in Seq(Ops) /\ kept \in Seq(Ops)
        BY <2>4
      <4> QED BY ONLY <4>1, ConcatProperties
    <3> QED BY <2>4, <3>1
  <2> HIDE DEF all
  <2>7. ASSUME NEW i \in 1..Len(all) PROVE all[i].id = Len(drawn) + i /\ all[i].data = "own"
    <3>1. CASE i <= Len(renderQ)
      <4>1. i \in 1..Len(renderQ) /\ all[i] = renderQ[i]
        BY <1>1, <2>6, <3>1
      <4> QED BY <4>1 DEF InOrder
    <3>2. CASE i > Len(renderQ)
      <4> DEFINE m == i - Len(renderQ)
      <4>1. m \in 1..Len(ops) /\ all[i] = kept[m] /\ Len(drawn) + Len(renderQ) + m = Len(drawn) + i
        BY <1>1, <2>6, <3>2
      <4> HIDE DEF m
      <4>2. all[i] = ops[m]
        BY <2>2, <4>1
      <4> QED BY <2>1, <4>1, <4>2
    <3> QED BY <1>1, <2>6, <3>1, <3>2
  <2> QED BY <1>3, <2>5, <2>7 DEF InOrder
<1>4. CASE renderQ = <<>> /\ Len(ops) = 1 /\ DrawTile(ops[1]) /\ ops[1].data # "wrong"
  <2>0. 1 \in 1..1 /\ Len(renderQ) = 0
    BY <1>4
  <2>1. ops[1] \in Ops /\ ops[1].id = Len(drawn) + 1
    <3>1. ops[1].id = Len(drawn) + 0 + 1
      BY <1>4, <2>0
    <3>2. ops[1] \in Ops
      BY <1>4, <2>0, ElementOfSeq
    <3> QED BY <1>1, <3>1, <3>2
  <2>2. drawn' = Append(drawn, ops[1]) /\ renderQ' = renderQ
    BY <1>4 DEF DrawTile
  <2>3. /\ Len(drawn') = Len(drawn) + 1 /\ drawn'[Len(drawn) + 1] = ops[1]
        /\ \A i \in 1..Len(drawn) : drawn'[i] = drawn[i]
    BY <2>1, <2>2, AppendProperties
  <2>4. ASSUME NEW i \in 1..Len(drawn') PROVE drawn'[i].id = i /\ drawn'[i].data # "wrong"
    <3>1. i \in 1..Len(drawn) \/ i = Len(drawn) + 1
      BY <1>1, <2>3
    <3> QED BY <1>4, <2>1, <2>3, <3>1 DEF InOrder
  <2>5. 1..Len(renderQ') = {}
    BY <1>4, <2>2
  <2> QED BY <1>4, <2>2, <2>4, <2>5 DEF InOrder
<1>5. CASE ops = <<>> /\ UNCHANGED displayVars
  <2>1. drawn' = drawn /\ renderQ' = renderQ
    BY <1>5 DEF displayVars
  <2> QED BY <2>1 DEF InOrder
<1>6. Push(ops) => \/ renderQ = <<>> /\ ScanQ(ops)
                   \/ renderQ # <<>> /\ renderQ' = renderQ \o [i \in DOMAIN ops |-> Kept(ops[i])] /\ drawn' = drawn
  BY DEF Push
<1>7. Push(ops) => InOrder' /\ (renderQ = <<>> /\ (\A i \in 1..Len(ops) : ~ops[i].img) => renderQ' = <<>>)
  BY <1>2, <1>3, <1>6
<1>8. CASE Len(ops) = 1 /\ DrawTile(ops[1])
  <2>1. (renderQ = <<>> /\ ops[1].data # "wrong") \/ Push(ops)
    <3>1. Len(ops) # 0 /\ 1 \in 1..Len(ops)
      BY <1>8
    <3> QED BY <3>1
  <2> QED BY <1>4, <1>7, <1>8, <2>1
<1> QED BY <1>5, <1>7, <1>8 DEF Draws
-----------------------------------------------------------------------------
(* The rectangles that may come: none before the session is normal.        *)
Allowed == IF In("normal") THEN Encodings ELSE {}

(* The number of the next operation.                                       *)
Coming == Len(drawn) + Len(renderQ) + 1

(* Where the client is in the rectangle f it decodes, n being the number   *)
(* of the next operation: behind the header, or behind the first operation *)
(* when one is left of two.                                                *)
Begun(f) == IF f.left = 1 THEN 1 ELSE 0
Pos(f) == IF f.left # 1 THEN 1 ELSE IF f.enc = "hextile" THEN 3 ELSE 2
Inner(f, n) == Within(f.enc, Pos(f), f.rects, n - Begun(f))

(* The place of the client in the stream, and that of the server.          *)
Here ==
  IF In("ServerInitialisation") THEN At("init", 1)
  ELSE IF FBU.rects = 0 \/ (pc # "decode" /\ FBU.bytes = 0) THEN Between(FBU.rects, Coming)
  ELSE Inner(FBU, Coming)
There == Between(owed, sent + 1)

(* The type of the stream.                                                 *)
FBUs == [rects : Nat, bytes : Nat, left : 0..2, enc : Names \cup {"none"}]

StreamType ==
  /\ rQ \in Seq(Units) /\ net \in Seq(Units) /\ sent \in Nat /\ owed \in Nat
  /\ FBU \in FBUs /\ pc \in {"idle", "start", "rects", "decode"}
  /\ drawn \in Seq(Ops) /\ renderQ \in Seq(Ops) /\ family \in {"tight", "plain"}

(* What FBU says while an update is taken apart.                           *)
Middle ==
  /\ FBU.left = 2 => FBU.enc = "hextile"
  /\ FBU.left = 1 => FBU.enc \in {"raw", "rre", "hextile"}
  /\ FBU.rects = 0 \/ (pc # "decode" /\ FBU.bytes = 0) => FBU.left = 0
  /\ FBU.rects = 0 => FBU.bytes = 0 /\ pc # "decode"
  /\ FBU.rects > 0 /\ (pc = "decode" \/ FBU.bytes > 0) => FBU.enc \in Encodings
  /\ FBU.bytes > 0 => FBU.enc \notin {"qemu", "last", "unknown"}
  /\ pc = "decode" => FBU.enc # "unknown"

(* Operations are numbered from the next one on.                           *)
Numbered(ops) == ops \in Seq(Ops) /\ \A i \in 1..Len(ops) : ops[i].id = Coming - 1 + i

(* They suit the encoding: images come from img only, bytes that a receive *)
(* overwrites from raw, rre, hextile and tiny only.                        *)
Suits(ops) ==
  /\ \A i \in 1..Len(ops) : ops[i].data # "wrong"
  /\ FBU.enc # "img" => \A i \in 1..Len(ops) : ~ops[i].img
  /\ FBU.enc \notin {"raw", "rre", "hextile"} => Push(ops) \/ ops = <<>>
  /\ FBU.enc \notin {"raw", "rre", "hextile", "tiny"} => \A i \in 1..Len(ops) : ops[i].data = "own"

(* A handler has taken what is there, has made ops of it, and the stream   *)
(* goes on from where the client is then.                                  *)
Taken(ops, q) ==
  /\ Draws(ops) /\ Numbered(ops) /\ Suits(ops)
  /\ StreamType' /\ Middle' /\ Leads(Encodings, Here', rQ' \o net', q)
-----------------------------------------------------------------------------
(* The server sends encodings that have names only.                        *)
LEMMA EncodingNames == ASSUME StreamAssumption PROVE Encodings \subseteq Names
BY DEF StreamAssumption, Encodings, Names

(* The next number.                                                        *)
LEMMA ComingNext ==
  ASSUME StreamType, NEW ops, Numbered(ops), Draws(ops)
  PROVE  /\ Coming \in Nat /\ Coming >= 1 /\ Coming' = Coming + Len(ops) /\ Len(ops) \in Nat
         /\ drawn' \in Seq(Ops) /\ renderQ' \in Seq(Ops)
<1>1. /\ drawn \in Seq(Ops) /\ renderQ \in Seq(Ops) /\ ops \in Seq(Ops)
  BY DEF StreamType, Numbered
<1>2. Len(drawn) \in Nat /\ Len(renderQ) \in Nat /\ Len(ops) \in Nat
  BY <1>1, LenProperties
<1>3. /\ drawn' \in Seq(Ops) /\ renderQ' \in Seq(Ops)
      /\ Len(drawn') + Len(renderQ') = Len(drawn) + Len(renderQ) + Len(ops)
  BY <1>1, DrawsAll
<1> QED BY <1>2, <1>3 DEF Coming

(* A handler that draws nothing.                                           *)
LEMMA Nothing ==
  ASSUME UNCHANGED displayVars
  PROVE  Draws(<<>>) /\ Numbered(<<>>) /\ Suits(<<>>)
<1>1. <<>> \in Seq(Ops) /\ Len(<<>>) = 0 /\ 1..0 = {}
  OBVIOUS
<1> QED BY <1>1 DEF Draws, Numbered, Suits

(* A handler waits.                                                        *)
LEMMA Awaits ==
  ASSUME StreamType, Middle, In("normal"), pc = "decode", FBU.enc \in Encodings,
         FBU.enc \notin {"qemu", "last"},
         UNCHANGED sessionVars, UNCHANGED <<net, sent, owed, asked, family, count>>,
         NEW q, Leads(Encodings, Here, rQ \o net, q),
         NEW n \in Nat, n > 0, NEW left \in {FBU.left, 2},
         left = FBU.left \/ (FBU.left = 0 /\ FBU.enc = "hextile"),
         FBU' = [FBU EXCEPT !.left = left, !.bytes = n], pc' = "idle", UNCHANGED <<rQ, displayVars>>
  PROVE  Taken(<<>>, q)
<1>1. Draws(<<>>) /\ Numbered(<<>>) /\ Suits(<<>>)
  BY Nothing
<1>2. Coming' = Coming /\ Encodings' = Encodings /\ rQ' \o net' = rQ \o net /\ In("normal")'
  BY DEF Coming, displayVars, Encodings, sessionVars, In
<1>3. FBU \in FBUs /\ left \in 0..2 /\ FBU.rects > 0
  BY DEF StreamType, FBUs, Middle
<1>4. /\ FBU' \in FBUs /\ FBU'.rects = FBU.rects /\ FBU'.bytes = n /\ FBU'.left = left
      /\ FBU'.enc = FBU.enc
  BY <1>3 DEF FBUs
<1>5. StreamType' /\ Middle'
  BY <1>2, <1>3, <1>4 DEF StreamType, Middle, displayVars
<1>6. Here = Inner(FBU, Coming)
  BY <1>3 DEF Here, In
<1>7. Here' = Inner(FBU', Coming')
  <2>1. ~(FBU'.rects = 0 \/ (pc' # "decode" /\ FBU'.bytes = 0)) /\ ~In("ServerInitialisation")'
    BY <1>2, <1>3, <1>4 DEF In, FBUs
  <2> QED BY <2>1 DEF Here
<1>8. Inner(FBU', Coming') = Inner(FBU, Coming)
  BY <1>2, <1>4 DEF Inner, Pos, Begun
<1> QED BY <1>1, <1>2, <1>5, <1>6, <1>7, <1>8 DEF Taken

(* A rectangle is done.                                                    *)
LEMMA Done ==
  ASSUME StreamType, Middle, In("normal"), pc = "decode", FBU.rects > 0,
         UNCHANGED sessionVars, UNCHANGED <<net, sent, owed, asked, family, count>>,
         NEW q, NEW n \in 0..Len(rQ), NEW ops, Draws(ops), Numbered(ops), Suits(ops),
         Leads(Encodings, Between(FBU.rects - 1, Coming + Len(ops)), SubSeq(rQ, n + 1, Len(rQ)) \o net, q),
         RectDone(n)
  PROVE  Taken(ops, q)
<1>1. /\ Coming' = Coming + Len(ops) /\ drawn' \in Seq(Ops) /\ renderQ' \in Seq(Ops)
  BY ComingNext
<1>2. Encodings' = Encodings /\ In("normal")' /\ ~In("ServerInitialisation")' /\ net' = net
  BY DEF Encodings, sessionVars, In
<1>3. FBU \in FBUs
  BY DEF StreamType
<1>4. /\ FBU' \in FBUs /\ FBU'.rects = FBU.rects - 1 /\ FBU'.bytes = 0 /\ FBU'.left = 0
      /\ FBU'.enc = FBU.enc /\ pc' = "rects"
  <2>1. FBU.rects - 1 \in Nat /\ 0 \in Nat /\ 0 \in 0..2
    BY <1>3 DEF FBUs
  <2>2. FBU' = [FBU EXCEPT !.rects = FBU.rects - 1, !.bytes = 0, !.left = 0] /\ pc' = "rects"
    BY DEF RectDone
  <2> QED BY <1>3, <2>1, <2>2 DEF FBUs
<1>5. rQ' = SubSeq(rQ, n + 1, Len(rQ)) /\ rQ' \in Seq(Units)
  <2>1. rQ \in Seq(Units)
    BY DEF StreamType
  <2> QED BY <2>1, Rest DEF RectDone, Shift
<1>6. StreamType' /\ Middle'
  BY <1>1, <1>4, <1>5 DEF StreamType, Middle
<1>7. Here' = Between(FBU'.rects, Coming')
  BY <1>2, <1>4 DEF Here
<1> QED BY <1>1, <1>2, <1>4, <1>5, <1>6, <1>7 DEF Taken

(* Where the operations of a rectangle begin.                              *)
LEMMA FromHere ==
  ASSUME StreamType, Middle, In("normal"), pc = "decode"
  PROVE  /\ FBU.rects > 0 /\ FBU.rects \in Nat /\ FBU.left \in 0..2 /\ Coming \in Nat /\ Coming >= 1
         /\ FBU.enc \in Encodings /\ rQ \in Seq(Units) /\ net \in Seq(Units)
         /\ FBU.left # 1 => Here = Within(FBU.enc, 1, FBU.rects, Coming)
         /\ FBU.left = 1 => Here = Within(FBU.enc, IF FBU.enc = "hextile" THEN 3 ELSE 2, FBU.rects, Coming - 1)
<1>1. FBU \in FBUs /\ FBU.rects > 0 /\ FBU.enc \in Encodings /\ rQ \in Seq(Units) /\ net \in Seq(Units)
  BY DEF StreamType, Middle, FBUs
<1>2. Here = Inner(FBU, Coming)
  BY <1>1 DEF Here, In
<1>3. Coming \in Nat /\ Coming >= 1
  BY LenProperties DEF Coming, StreamType
<1>4. FBU.rects \in Nat /\ FBU.left \in 0..2
  BY <1>1 DEF FBUs
<1> QED BY <1>1, <1>2, <1>3, <1>4 DEF Inner, Pos, Begun

(* What is next in a rectangle, and what the two next are.                 *)
LEMMA NextInside ==
  ASSUME NEW E, NEW enc \in Names, NEW id \in Nat, NEW left, NEW pos \in Nat \ {0}, NEW q,
         NEW s \in Seq(Units), NEW t \in Seq(Units),
         Leads(E, Within(enc, pos, left, id), s \o t, q), pos < Len(Rectangle(enc, id)), Len(s) >= 1
  PROVE  /\ s[1] = Rectangle(enc, id)[pos + 1]
         /\ Leads(E, Within(enc, pos + 1, left, id), SubSeq(s, 2, Len(s)) \o t, q)
<1> DEFINE p == Within(enc, pos, left, id)
<1>1. Fits(E, p, s[1]) /\ Leads(E, After(p, s[1]), SubSeq(s, 2, Len(s)) \o t, q)
  BY TakeOne
<1>2. /\ Fits(E, p, s[1]) <=> s[1] = Rectangle(enc, id)[pos + 1]
      /\ After(p, s[1]) = Within(enc, pos + 1, left, id)
  BY Inside
<1> QED BY <1>1, <1>2

(* The next two units.                                                     *)
LEMMA NextTwoInside ==
  ASSUME NEW E, NEW enc \in Names, NEW id \in Nat, NEW left, NEW pos \in Nat \ {0}, NEW q,
         NEW s \in Seq(Units), NEW t \in Seq(Units),
         Leads(E, Within(enc, pos, left, id), s \o t, q), pos + 1 < Len(Rectangle(enc, id)), Len(s) >= 2
  PROVE  /\ s[1] = Rectangle(enc, id)[pos + 1] /\ s[2] = Rectangle(enc, id)[pos + 2]
         /\ Leads(E, Within(enc, pos + 2, left, id), SubSeq(s, 3, Len(s)) \o t, q)
<1> DEFINE p == Within(enc, pos, left, id)
<1>0. pos < Len(Rectangle(enc, id)) /\ pos + 1 \in Nat \ {0} /\ pos + 1 + 1 = pos + 2
  <2>1. Len(Rectangle(enc, id)) \in 1..5
    BY RectangleType
  <2> QED BY <2>1
<1>1. /\ Fits(E, p, s[1]) /\ Fits(E, After(p, s[1]), s[2])
      /\ Leads(E, After(After(p, s[1]), s[2]), SubSeq(s, 3, Len(s)) \o t, q)
  BY TakeTwo
<1>2. /\ Fits(E, p, s[1]) <=> s[1] = Rectangle(enc, id)[pos + 1]
      /\ After(p, s[1]) = Within(enc, pos + 1, left, id)
  BY <1>0, Inside
<1>3. /\ Fits(E, Within(enc, pos + 1, left, id), s[2]) <=> s[2] = Rectangle(enc, id)[pos + 1 + 1]
      /\ After(Within(enc, pos + 1, left, id), s[2]) = Within(enc, pos + 1 + 1, left, id)
  BY <1>0, Inside
<1> QED BY <1>0, <1>1, <1>2, <1>3

(* Behind the last unit of a rectangle.                                    *)
LEMMA AtEnd ==
  ASSUME NEW enc, enc # "last", NEW id, NEW left, NEW pos, pos = Len(Rectangle(enc, id))
  PROVE  Within(enc, pos, left, id) = Between(left - 1, id + Drawing(enc))
BY DEF Within, Further

(* The fields of a unit.                                                   *)
LEMMA UnitValue ==
  ASSUME NEW k, NEW n, NEW id
  PROVE  Unit(k, n, id).n = n /\ Unit(k, n, id).id = id /\ Unit(k, n, id).k = k
BY DEF Unit

(* rQwait() in numbers.                                                    *)
LEMMA WaitsFor ==
  ASSUME StreamType, NEW n \in Nat
  PROVE  /\ Wait(n) <=> Len(rQ) < n
         /\ ~Wait(n) => n \in 0..Len(rQ) /\ Len(rQ) >= n
         /\ Wait(1) => Len(rQ) = 0
<1>1. Len(rQ) \in Nat
  BY LenProperties DEF StreamType
<1> QED BY <1>1 DEF Wait
-----------------------------------------------------------------------------
(* display_tight(): the control byte, then the data behind it.             *)
LEMMA TakeTight ==
  ASSUME StreamAssumption, StreamType, Middle, In("normal"), pc = "decode", DecodeTight,
         UNCHANGED sessionVars, UNCHANGED <<net, sent, owed, asked, family, count>>,
         NEW q, Leads(Encodings, Here, rQ \o net, q)
  PROVE  \E ops : Taken(ops, q)
<1> DEFINE enc == FBU.enc
           id == Coming
<1>1. enc \in {"img", "zlib", "fill", "tiny"} /\ enc \in Names /\ enc \notin {"qemu", "last"} /\ FBU.left # 1
  BY DEF DecodeTight, Names, Middle
<1>2. /\ FBU.rects > 0 /\ FBU.rects \in Nat /\ id \in Nat /\ FBU.enc \in Encodings
      /\ rQ \in Seq(Units) /\ net \in Seq(Units) /\ Here = Within(enc, 1, FBU.rects, id)
      /\ FBU.left \in 0..2 /\ FBU \in FBUs
  BY <1>1, FromHere DEF StreamType
<1>3. /\ Rectangle(enc, id) = <<Unit(enc, 0, 0), Unit("ctl", 1, id), Unit("data", 0, id)>>
      /\ Drawing(enc) = 1
  BY <1>1, <1>2, Rectangles DEF Drawing, StreamAssumption
<1>4. Len(Rectangle(enc, id)) = 3 /\ Rectangle(enc, id)[1 + 1] = Unit("ctl", 1, id)
  BY <1>3
<1>5. ASSUME NEW n \in Nat, n > 0, AwaitBytes(n) PROVE Taken(<<>>, q)
  <2>1. FBU' = [FBU EXCEPT !.left = FBU.left, !.bytes = n]
    BY <1>2, <1>5 DEF AwaitBytes, FBUs
  <2>2. pc' = "idle" /\ UNCHANGED <<rQ, displayVars>>
    BY <1>5 DEF AwaitBytes, ReturnFalse
  <2>3. FBU.left \in {FBU.left, 2}
    OBVIOUS
  <2> QED BY <1>1, <1>2, <1>5, <2>1, <2>2, <2>3, Awaits
<1>6. ASSUME ~Wait(1) PROVE rQ[1] = Unit("ctl", 1, id) /\ rQ[1].n = 1 /\ rQ[1].id = id
  <2>1. Len(rQ) >= 1
    BY <1>6, WaitsFor
  <2>2. Leads(Encodings, Within(enc, 1, FBU.rects, id), rQ \o net, q)
    BY <1>2
  <2> HIDE DEF enc, id
  <2>3. /\ enc \in Names /\ id \in Nat /\ 1 \in Nat \ {0} /\ 1 < Len(Rectangle(enc, id))
        /\ rQ \in Seq(Units) /\ net \in Seq(Units)
    BY <1>1, <1>2, <1>4
  <2>4. /\ rQ[1] = Rectangle(enc, id)[1 + 1]
        /\ Leads(Encodings, Within(enc, 1 + 1, FBU.rects, id), SubSeq(rQ, 2, Len(rQ)) \o net, q)
    BY ONLY <2>1, <2>2, <2>3, NextInside
  <2> QED BY <1>4, <2>4, UnitValue
<1>7. CASE AwaitBytes(1)
  BY <1>5, <1>7
<1>8. CASE ~Wait(1) /\ AwaitBytes(1 + rQ[1].n)
  <2>1. 1 + rQ[1].n = 2
    BY <1>6, <1>8
  <2> QED BY <1>5, <1>8, <2>1
<1>9. CASE ~Wait(1) /\ ~Wait(1 + rQ[1].n) /\ Push(<<TightOp(rQ[1])>>) /\ RectDone(1 + rQ[1].n)
  <2> DEFINE o == TightOp(rQ[1])
             ops == <<o>>
  <2>1. 1 + rQ[1].n = 2 /\ ~Wait(2)
    BY <1>6, <1>9
  <2>2. Len(rQ) >= 2 /\ 2 \in 0..Len(rQ)
    BY <2>1, WaitsFor
  <2>3. Leads(Encodings, Within(enc, 3, FBU.rects, id), SubSeq(rQ, 3, Len(rQ)) \o net, q)
    <3>1. /\ enc \in Names /\ id \in Nat /\ 1 \in Nat \ {0} /\ 1 + 1 < Len(Rectangle(enc, id))
          /\ rQ \in Seq(Units) /\ net \in Seq(Units) /\ Len(rQ) >= 2 /\ 1 + 2 = 3
          /\ Leads(Encodings, Within(enc, 1, FBU.rects, id), rQ \o net, q)
      BY <1>1, <1>2, <1>4, <2>2
    <3> HIDE DEF enc, id
    <3>2. /\ rQ[1] = Rectangle(enc, id)[1 + 1] /\ rQ[2] = Rectangle(enc, id)[1 + 2]
          /\ Leads(Encodings, Within(enc, 1 + 2, FBU.rects, id), SubSeq(rQ, 3, Len(rQ)) \o net, q)
      BY ONLY <3>1, NextTwoInside
    <3> QED BY <3>1, <3>2
  <2>4. Within(enc, 3, FBU.rects, id) = Between(FBU.rects - 1, id + 1)
    BY <1>1, <1>3, <1>4, AtEnd
  <2>5. o \in Ops /\ o.id = id /\ o.data # "wrong" /\ (enc # "tiny" => o.data = "own") /\ (enc # "img" => ~o.img)
    BY <1>2, <1>6, <1>9 DEF TightOp, Op, Ops
  <2> HIDE DEF o
  <2>6. ops \in Seq(Ops) /\ Len(ops) = 1 /\ ops[1] = o /\ \A i \in 1..1 : i = 1
    BY <2>5
  <2>7. Numbered(ops)
    BY <1>2, <2>5, <2>6 DEF Numbered
  <2>8. Draws(ops) /\ Suits(ops)
    BY <1>1, <1>9, <2>5, <2>6 DEF Draws, Suits, o
  <2>9. RectDone(2) /\ 2 + 1 = 3
    BY <1>9, <2>1
  <2> HIDE DEF ops
  <2>10. Leads(Encodings, Between(FBU.rects - 1, Coming + Len(ops)), SubSeq(rQ, 2 + 1, Len(rQ)) \o net, q)
    BY <2>3, <2>4, <2>6, <2>9
  <2>11. Taken(ops, q)
    BY <1>2, <2>2, <2>7, <2>8, <2>9, <2>10, Done
  <2> QED BY <2>11
<1> QED BY <1>7, <1>8, <1>9 DEF DecodeTight

(* FBU.bytes is set, and the queue is too short for it.                    *)
LEMMA AwaitsBytes ==
  ASSUME StreamType, Middle, In("normal"), pc = "decode", FBU.enc \in Encodings,
         FBU.enc \notin {"qemu", "last"},
         UNCHANGED sessionVars, UNCHANGED <<net, sent, owed, asked, family, count>>,
         NEW q, Leads(Encodings, Here, rQ \o net, q),
         NEW n \in Nat, n > 0, AwaitBytes(n)
  PROVE  Taken(<<>>, q)
<1>1. FBU \in FBUs
  BY DEF StreamType
<1>2. FBU' = [FBU EXCEPT !.left = FBU.left, !.bytes = n]
  BY <1>1 DEF AwaitBytes, FBUs
<1>3. pc' = "idle" /\ UNCHANGED <<rQ, displayVars>>
  BY DEF AwaitBytes, ReturnFalse
<1>4. FBU.left \in {FBU.left, 2}
  OBVIOUS
<1> QED BY <1>2, <1>3, <1>4, Awaits

(* One of the two operations of a rectangle has been made.                 *)
LEMMA Halfway ==
  ASSUME StreamType, Middle, In("normal"), pc = "decode", FBU.enc \in Encodings,
         FBU.enc \in {"raw", "rre", "hextile"},
         UNCHANGED sessionVars, UNCHANGED <<net, sent, owed, asked, family, count>>,
         NEW q, NEW n \in 0..Len(rQ), NEW ops, Draws(ops), Numbered(ops), Suits(ops), Len(ops) = 1,
         Leads(Encodings, Within(FBU.enc, IF FBU.enc = "hextile" THEN 3 ELSE 2, FBU.rects, Coming),
               SubSeq(rQ, n + 1, Len(rQ)) \o net, q),
         NEW bytes \in Nat, FBU' = [FBU EXCEPT !.left = 1, !.bytes = bytes],
         pc' \in {"rects", "decode"}, pc' = "decode" \/ bytes > 0, rQ' = Shift(n)
  PROVE  Taken(ops, q)
<1>1. /\ Coming' = Coming + 1 /\ Coming \in Nat /\ drawn' \in Seq(Ops) /\ renderQ' \in Seq(Ops)
  BY ComingNext
<1>2. Encodings' = Encodings /\ In("normal")' /\ ~In("ServerInitialisation")' /\ net' = net
  BY DEF Encodings, sessionVars, In
<1>3. FBU \in FBUs /\ FBU.rects > 0
  BY DEF StreamType, Middle, FBUs
<1>4. /\ FBU' \in FBUs /\ FBU'.rects = FBU.rects /\ FBU'.bytes = bytes /\ FBU'.left = 1
      /\ FBU'.enc = FBU.enc
  <2>1. 1 \in 0..2
    OBVIOUS
  <2> QED BY <1>3, <2>1 DEF FBUs
<1>5. rQ' = SubSeq(rQ, n + 1, Len(rQ)) /\ rQ' \in Seq(Units)
  <2>1. rQ \in Seq(Units)
    BY DEF StreamType
  <2> QED BY <2>1, Rest DEF Shift
<1>6. StreamType' /\ Middle'
  <2>1. StreamType'
    BY <1>1, <1>2, <1>4, <1>5 DEF StreamType
  <2>2. FBU'.rects # 0 /\ ~(pc' # "decode" /\ FBU'.bytes = 0)
    BY <1>3, <1>4 DEF FBUs
  <2>3. Middle'
    BY <1>2, <1>4, <2>2 DEF Middle
  <2> QED BY <2>1, <2>3
<1>7. Here' = Inner(FBU', Coming')
  <2>1. ~(FBU'.rects = 0 \/ (pc' # "decode" /\ FBU'.bytes = 0))
    BY <1>3, <1>4 DEF FBUs
  <2> QED BY <1>2, <2>1 DEF Here
<1>8. Coming' - 1 = Coming
  BY <1>1
<1>9. Here' = Within(FBU.enc, IF FBU.enc = "hextile" THEN 3 ELSE 2, FBU.rects, Coming)
  BY <1>4, <1>7, <1>8 DEF Inner, Pos, Begun
<1> QED BY <1>2, <1>5, <1>6, <1>9 DEF Taken

(* The operations made from the first units of the queue.                  *)
LEMMA OpsOne ==
  ASSUME StreamType, NEW o \in Ops, o.id = Coming
  PROVE  Numbered(<<o>>) /\ Len(<<o>>) = 1
<1>1. Coming \in Nat
  BY LenProperties DEF Coming, StreamType
<1>2. <<o>> \in Seq(Ops) /\ Len(<<o>>) = 1 /\ <<o>>[1] = o /\ \A i \in 1..1 : i = 1
  OBVIOUS
<1> QED BY <1>1, <1>2 DEF Numbered

(* Operations that are no images, without bytes that are wrong.            *)
LEMMA PlainSuits ==
  ASSUME FBU.enc \in {"raw", "rre", "hextile"}, NEW ops,
         \A i \in 1..Len(ops) : ops[i].data # "wrong" /\ ~ops[i].img
  PROVE  Suits(ops)
BY DEF Suits

(* COPYRECT: one operation from one unit.                                  *)
LEMMA TakeCopy ==
  ASSUME StreamAssumption, StreamType, Middle, In("normal"), pc = "decode", DecodeCopy,
         UNCHANGED sessionVars, UNCHANGED <<net, sent, owed, asked, family, count>>,
         NEW q, Leads(Encodings, Here, rQ \o net, q)
  PROVE  \E ops : Taken(ops, q)
<1> DEFINE id == Coming
<1>1. FBU.enc = "copy" /\ "copy" \in Names /\ FBU.enc \notin {"qemu", "last"} /\ FBU.left # 1
  BY DEF DecodeCopy, Names, Middle
<1>2. /\ FBU.rects > 0 /\ FBU.rects \in Nat /\ id \in Nat /\ FBU.enc \in Encodings
      /\ rQ \in Seq(Units) /\ net \in Seq(Units) /\ Here = Within("copy", 1, FBU.rects, id)
  BY <1>1, FromHere
<1>3. Rectangle("copy", id) = <<Unit("copy", 0, 0), Unit("data", 0, id)>> /\ Drawing("copy") = 1
  BY <1>2, Rectangles DEF Drawing, StreamAssumption
<1>4. Len(Rectangle("copy", id)) = 2 /\ Rectangle("copy", id)[1 + 1] = Unit("data", 0, id)
  BY <1>3
<1>5. CASE AwaitBytes(1)
  BY <1>1, <1>2, <1>5, AwaitsBytes
<1>6. CASE ~Wait(1) /\ Push(<<Op(rQ[1].id, FALSE, "own")>>) /\ RectDone(1)
  <2> DEFINE o == Op(rQ[1].id, FALSE, "own")
             ops == <<o>>
  <2>1. /\ Len(rQ) >= 1 /\ 1 \in 0..Len(rQ) /\ 1 + 1 = 2 /\ 1 \in Nat \ {0}
        /\ 1 < Len(Rectangle("copy", id)) /\ Leads(Encodings, Within("copy", 1, FBU.rects, id), rQ \o net, q)
    BY <1>2, <1>4, <1>6, WaitsFor
  <2>2. /\ rQ[1] = Rectangle("copy", id)[1 + 1]
        /\ Leads(Encodings, Within("copy", 1 + 1, FBU.rects, id), SubSeq(rQ, 2, Len(rQ)) \o net, q)
    BY ONLY <1>1, <1>2, <2>1, NextInside
  <2>3. o \in Ops /\ o.id = id /\ o.data = "own" /\ ~o.img
    BY <1>2, <1>4, <2>2, UnitValue DEF Op, Ops
  <2> HIDE DEF o
  <2>4. Numbered(ops) /\ Len(ops) = 1 /\ \A i \in 1..1 : i = 1
    BY <2>3, OpsOne
  <2>5. ops[1] = o
    OBVIOUS
  <2>6. Draws(ops) /\ Suits(ops)
    BY <1>1, <1>6, <2>3, <2>4, <2>5 DEF Draws, Suits, o
  <2> HIDE DEF ops
  <2>7. Within("copy", 2, FBU.rects, id) = Between(FBU.rects - 1, id + 1)
    BY <1>3, <1>4, AtEnd
  <2>8. Leads(Encodings, Between(FBU.rects - 1, Coming + Len(ops)), SubSeq(rQ, 1 + 1, Len(rQ)) \o net, q)
    BY <2>1, <2>2, <2>4, <2>7
  <2>9. Taken(ops, q)
    BY <1>2, <1>6, <2>1, <2>4, <2>6, <2>8, Done
  <2> QED BY <2>9
<1> QED BY <1>5, <1>6 DEF DecodeCopy

(* Math.min().                                                             *)
LEMMA MinOfTwo ==
  ASSUME NEW a \in Nat, NEW b \in Nat
  PROVE  Min({a, b}) = IF a <= b THEN a ELSE b
<1>1. CASE a <= b
  BY <1>1 DEF Min
<1>2. CASE ~(a <= b)
  BY <1>2 DEF Min
<1> QED BY <1>1, <1>2

(* Operations that are numbered from the next one on.                      *)
LEMMA OpsMany ==
  ASSUME StreamType, NEW n \in Nat, NEW ops \in [1..n -> Ops], \A i \in 1..n : ops[i].id = Coming - 1 + i
  PROVE  Numbered(ops) /\ Len(ops) = n
<1>1. ops \in Seq(Ops) /\ Len(ops) = n
  OBVIOUS
<1> QED BY <1>1 DEF Numbered

(* RAW and RRE: two units behind the header, each with an operation.       *)
LEMMA PairUnits ==
  ASSUME StreamAssumption, NEW enc \in {"raw", "rre"}, NEW id \in Nat
  PROVE  /\ Len(Rectangle(enc, id)) = 3 /\ Drawing(enc) = 2 /\ enc \in Names
         /\ Rectangle(enc, id)[2].id = id /\ Rectangle(enc, id)[3].id = id + 1
         /\ enc = "rre" => Rectangle(enc, id)[2].n = 1
<1>1. Drawing(enc) = 2 /\ enc \in Names
  BY DEF Drawing, StreamAssumption, Names
<1>2. CASE enc = "raw"
  <2>1. Rectangle("raw", id) = <<Unit("raw", 0, 0), Unit("data", 0, id), Unit("data", 0, id + 1)>>
    BY Rectangles
  <2> QED BY <1>1, <1>2, <2>1, UnitValue
<1>3. CASE enc = "rre"
  <2>1. Rectangle("rre", id) = <<Unit("rre", 0, 0), Unit("ctl", 1, id), Unit("data", 0, id + 1)>>
    BY Rectangles
  <2> QED BY <1>1, <1>3, <2>1, UnitValue
<1> QED BY <1>2, <1>3

(* The first of them.                                                      *)
LEMMA PairFirst ==
  ASSUME StreamAssumption, NEW enc \in {"raw", "rre"}, NEW E, NEW id \in Nat, NEW left, NEW q,
         NEW s \in Seq(Units), NEW t \in Seq(Units),
         Leads(E, Within(enc, 1, left, id), s \o t, q), Len(s) >= 1
  PROVE  /\ s[1].id = id /\ (enc = "rre" => s[1].n = 1)
         /\ Leads(E, Within(enc, 2, left, id), SubSeq(s, 2, Len(s)) \o t, q)
<1>0. /\ Len(Rectangle(enc, id)) = 3 /\ Drawing(enc) = 2 /\ enc \in Names
      /\ Rectangle(enc, id)[2].id = id /\ Rectangle(enc, id)[3].id = id + 1
      /\ enc = "rre" => Rectangle(enc, id)[2].n = 1
  BY PairUnits
<1>1. /\ 1 < Len(Rectangle(enc, id)) /\ 1 \in Nat \ {0} /\ enc \in Names
      /\ Rectangle(enc, id)[1 + 1].id = id /\ (enc = "rre" => Rectangle(enc, id)[1 + 1].n = 1)
  <2>1. 1 + 1 = 2 /\ 1 < 3 /\ 1 \in Nat \ {0}
    OBVIOUS
  <2> QED BY <1>0, <2>1
<1>2. /\ s[1] = Rectangle(enc, id)[1 + 1]
      /\ Leads(E, Within(enc, 1 + 1, left, id), SubSeq(s, 2, Len(s)) \o t, q)
  BY <1>1, NextInside
<1> QED BY <1>1, <1>2

(* Both.                                                                   *)
LEMMA PairBoth ==
  ASSUME StreamAssumption, NEW enc \in {"raw", "rre"}, NEW E, NEW id \in Nat, NEW left, NEW q,
         NEW s \in Seq(Units), NEW t \in Seq(Units),
         Leads(E, Within(enc, 1, left, id), s \o t, q), Len(s) >= 2
  PROVE  s[1].id = id /\ s[2].id = id + 1
         /\ Leads(E, Between(left - 1, id + 2), SubSeq(s, 3, Len(s)) \o t, q)
<1>0. /\ Len(Rectangle(enc, id)) = 3 /\ Drawing(enc) = 2 /\ enc \in Names
      /\ Rectangle(enc, id)[2].id = id /\ Rectangle(enc, id)[3].id = id + 1
  BY PairUnits
<1>1. 1 + 1 < Len(Rectangle(enc, id)) /\ 1 \in Nat \ {0} /\ enc \in Names
  BY <1>0
<1>2. /\ s[1] = Rectangle(enc, id)[1 + 1] /\ s[2] = Rectangle(enc, id)[1 + 2]
      /\ Leads(E, Within(enc, 1 + 2, left, id), SubSeq(s, 3, Len(s)) \o t, q)
  BY <1>1, NextTwoInside
<1>3. Within(enc, 1 + 2, left, id) = Between(left - 1, id + 2)
  <2>1. 1 + 2 = Len(Rectangle(enc, id))
    BY <1>0
  <2>2. Within(enc, 1 + 2, left, id) = Between(left - 1, id + Drawing(enc))
    BY <2>1, AtEnd
  <2> QED BY <1>0, <2>2
<1> QED BY <1>0, <1>2, <1>3

(* The second, when the first has been taken.                              *)
LEMMA PairSecond ==
  ASSUME StreamAssumption, NEW enc \in {"raw", "rre"}, NEW E, NEW id \in Nat, id >= 1, NEW left, NEW q,
         NEW s \in Seq(Units), NEW t \in Seq(Units),
         Leads(E, Within(enc, 2, left, id - 1), s \o t, q), Len(s) >= 1
  PROVE  s[1].id = id /\ Leads(E, Between(left - 1, id + 1), SubSeq(s, 2, Len(s)) \o t, q)
<1> DEFINE m == id - 1
<1>1. m \in Nat /\ m + 1 = id /\ m + 2 = id + 1
  OBVIOUS
<1>2. Leads(E, Within(enc, 2, left, m), s \o t, q)
  OBVIOUS
<1> HIDE DEF m
<1>3. /\ Len(Rectangle(enc, m)) = 3 /\ Drawing(enc) = 2 /\ enc \in Names
      /\ Rectangle(enc, m)[2].id = m /\ Rectangle(enc, m)[3].id = m + 1
  BY <1>1, PairUnits
<1>4. 2 < Len(Rectangle(enc, m)) /\ 2 \in Nat \ {0} /\ enc \in Names
  BY <1>3
<1>5. /\ s[1] = Rectangle(enc, m)[2 + 1]
      /\ Leads(E, Within(enc, 2 + 1, left, m), SubSeq(s, 2, Len(s)) \o t, q)
  BY <1>1, <1>2, <1>4, NextInside
<1>6. Within(enc, 2 + 1, left, m) = Between(left - 1, m + 2)
  <2>1. 2 + 1 = Len(Rectangle(enc, m))
    BY <1>3
  <2>2. Within(enc, 2 + 1, left, m) = Between(left - 1, m + Drawing(enc))
    BY <2>1, AtEnd
  <2> QED BY <1>3, <2>2
<1> QED BY <1>1, <1>3, <1>5, <1>6

(* What is drawn of the units that are there.                              *)
LEMMA OpsFromQueue ==
  ASSUME StreamType, FBU.enc \in {"raw", "rre", "hextile"}, NEW n \in Nat, n <= Len(rQ),
         NEW data \in {"view", "offset"}, NEW ops, ops = [i \in 1..n |-> Op(rQ[i].id, FALSE, data)],
         Push(ops), \A i \in 1..n : rQ[i].id = Coming - 1 + i
  PROVE  Draws(ops) /\ Numbered(ops) /\ Suits(ops) /\ Len(ops) = n
<1>1. ASSUME NEW i \in 1..n
      PROVE  ops[i] \in Ops /\ ops[i].id = Coming - 1 + i /\ ~ops[i].img /\ ops[i].data # "wrong"
  <2>1. i \in 1..Len(rQ) /\ rQ \in Seq(Units)
    BY LenProperties DEF StreamType
  <2>2. rQ[i] \in Units
    BY <2>1, ElementOfSeq
  <2> QED BY <2>2 DEF Op, Ops, Units
<1>2. ops \in [1..n -> Ops]
  BY <1>1
<1>3. Numbered(ops) /\ Len(ops) = n
  BY <1>1, <1>2, OpsMany
<1>4. \A i \in 1..Len(ops) : ops[i].data # "wrong" /\ ~ops[i].img
  BY <1>1, <1>3
<1>5. Suits(ops)
  BY <1>4, PlainSuits
<1> QED BY <1>3, <1>5 DEF Draws

(* A RAW or RRE rectangle is drawn as far as it is there.                  *)
LEMMA TakePair ==
  ASSUME StreamAssumption, StreamType, Middle, In("normal"), pc = "decode", NEW enc \in {"raw", "rre"}, FBU.enc = enc,
         UNCHANGED sessionVars, UNCHANGED <<net, sent, owed, asked, family, count>>,
         NEW q, Leads(Encodings, Here, rQ \o net, q),
         NEW n \in {1, 2}, Len(rQ) >= n, NEW data \in {"view", "offset"},
         NEW ops, ops = [i \in 1..n |-> Op(rQ[i].id, FALSE, data)], Push(ops),
         \/ FBU.left = 1 /\ n = 1 /\ RectDone(n)
         \/ FBU.left # 1 /\ n = 2 /\ RectDone(n)
         \/ /\ FBU.left # 1 /\ n = 1
            /\ FBU' = [FBU EXCEPT !.left = 1, !.bytes = 1] /\ rQ' = Shift(n) /\ pc' = "rects"
  PROVE  Taken(ops, q)
<1>1. FBU.enc \in {"raw", "rre", "hextile"} /\ FBU.enc # "hextile"
  OBVIOUS
<1>2. /\ FBU.rects > 0 /\ FBU.rects \in Nat /\ Coming \in Nat /\ Coming >= 1 /\ FBU.enc \in Encodings
      /\ rQ \in Seq(Units) /\ net \in Seq(Units)
      /\ FBU.left # 1 => Here = Within(enc, 1, FBU.rects, Coming)
      /\ FBU.left = 1 => Here = Within(enc, 2, FBU.rects, Coming - 1)
  BY <1>1, FromHere
<1>3. n \in 0..Len(rQ) /\ n \in Nat /\ n <= Len(rQ)
  BY <1>2, LenProperties
<1>4. ASSUME \A i \in 1..n : rQ[i].id = Coming - 1 + i
      PROVE  Draws(ops) /\ Numbered(ops) /\ Suits(ops) /\ Len(ops) = n
  BY <1>1, <1>3, <1>4, OpsFromQueue
<1>5. CASE FBU.left = 1 /\ n = 1 /\ RectDone(n)
  <2>1. Leads(Encodings, Within(enc, 2, FBU.rects, Coming - 1), rQ \o net, q) /\ Len(rQ) >= 1
    BY <1>2, <1>5
  <2>2. rQ[1].id = Coming /\ Leads(Encodings, Between(FBU.rects - 1, Coming + 1), SubSeq(rQ, 2, Len(rQ)) \o net, q)
    BY <1>2, <2>1, PairSecond
  <2>3. \A i \in 1..n : rQ[i].id = Coming - 1 + i
    BY <1>2, <1>5, <2>2
  <2>4. Draws(ops) /\ Numbered(ops) /\ Suits(ops) /\ Len(ops) = n /\ n + 1 = 2
    BY <1>4, <1>5, <2>3
  <2>5. Leads(Encodings, Between(FBU.rects - 1, Coming + Len(ops)), SubSeq(rQ, n + 1, Len(rQ)) \o net, q)
    BY <1>5, <2>2, <2>4
  <2> QED BY <1>2, <1>3, <1>5, <2>4, <2>5, Done
<1>6. CASE FBU.left # 1 /\ n = 2 /\ RectDone(n)
  <2>1. Leads(Encodings, Within(enc, 1, FBU.rects, Coming), rQ \o net, q) /\ Len(rQ) >= 2
    BY <1>2, <1>6
  <2>2. /\ rQ[1].id = Coming /\ rQ[2].id = Coming + 1
        /\ Leads(Encodings, Between(FBU.rects - 1, Coming + 2), SubSeq(rQ, 3, Len(rQ)) \o net, q)
    BY <1>2, <2>1, PairBoth
  <2>3. \A i \in 1..n : rQ[i].id = Coming - 1 + i
    <3>1. Coming - 1 + 1 = Coming /\ Coming - 1 + 2 = Coming + 1 /\ \A i \in 1..2 : i = 1 \/ i = 2
      BY <1>2
    <3> QED BY <1>6, <2>2, <3>1
  <2>4. Draws(ops) /\ Numbered(ops) /\ Suits(ops) /\ Len(ops) = n /\ n + 1 = 3
    BY <1>4, <1>6, <2>3
  <2>5. Leads(Encodings, Between(FBU.rects - 1, Coming + Len(ops)), SubSeq(rQ, n + 1, Len(rQ)) \o net, q)
    BY <1>6, <2>2, <2>4
  <2> QED BY <1>2, <1>3, <1>6, <2>4, <2>5, Done
<1>7. CASE /\ FBU.left # 1 /\ n = 1
           /\ FBU' = [FBU EXCEPT !.left = 1, !.bytes = 1] /\ rQ' = Shift(n) /\ pc' = "rects"
  <2>1. Leads(Encodings, Within(enc, 1, FBU.rects, Coming), rQ \o net, q) /\ Len(rQ) >= 1
    BY <1>2, <1>7
  <2>2. rQ[1].id = Coming /\ Leads(Encodings, Within(enc, 2, FBU.rects, Coming), SubSeq(rQ, 2, Len(rQ)) \o net, q)
    BY <1>2, <2>1, PairFirst
  <2>3. \A i \in 1..n : rQ[i].id = Coming - 1 + i
    BY <1>2, <1>7, <2>2
  <2>4. Draws(ops) /\ Numbered(ops) /\ Suits(ops) /\ Len(ops) = 1 /\ n + 1 = 2
    BY <1>4, <1>7, <2>3
  <2>5. Leads(Encodings, Within(FBU.enc, IF FBU.enc = "hextile" THEN 3 ELSE 2, FBU.rects, Coming),
              SubSeq(rQ, n + 1, Len(rQ)) \o net, q)
    BY <1>1, <2>2, <2>4
  <2>6. pc' \in {"rects", "decode"} /\ 1 > 0 /\ 1 \in Nat
    BY <1>7
  <2> QED BY <1>1, <1>2, <1>3, <1>7, <2>4, <2>5, <2>6, Halfway
<1> QED BY <1>5, <1>6, <1>7

(* RAW, as many lines as there are.                                        *)
LEMMA TakeRaw ==
  ASSUME StreamAssumption, StreamType, Middle, In("normal"), pc = "decode", DecodeRaw,
         UNCHANGED sessionVars, UNCHANGED <<net, sent, owed, asked, family, count>>,
         NEW q, Leads(Encodings, Here, rQ \o net, q)
  PROVE  \E ops : Taken(ops, q)
<1>1. FBU.enc = "raw" /\ FBU.enc \notin {"qemu", "last"} /\ FBU.left # 2
  BY DEF DecodeRaw, Middle
<1>2. FBU.enc \in Encodings /\ FBU.left \in {0, 1}
  BY <1>1, FromHere
<1>3. Len(rQ) \in Nat
  BY LenProperties DEF StreamType
<1>4. CASE AwaitBytes(1)
  <2>1. 1 \in Nat /\ 1 > 0
    OBVIOUS
  <2> QED BY <1>1, <1>2, <1>4, <2>1, AwaitsBytes
<1>5. CASE ~AwaitBytes(1)
  <2> DEFINE left == IF FBU.left = 0 THEN 2 ELSE FBU.left
             n == Min({left, Len(rQ)})
  <2>1. /\ ~Wait(1) /\ Push(Lines(n))
        /\ IF n = left THEN RectDone(n)
           ELSE /\ FBU' = [FBU EXCEPT !.left = left - n, !.bytes = 1]
                /\ rQ' = Shift(n) /\ pc' = "rects"
    BY <1>5 DEF DecodeRaw
  <2>2. Len(rQ) >= 1
    BY <2>1, WaitsFor
  <2>3. left = IF FBU.left = 1 THEN 1 ELSE 2
    BY <1>2
  <2> HIDE DEF left
  <2>4. n = IF left <= Len(rQ) THEN left ELSE Len(rQ)
    BY <1>3, <2>3, MinOfTwo
  <2> HIDE DEF n
  <2>5. /\ n \in {1, 2} /\ Len(rQ) >= n
        /\ \/ FBU.left = 1 /\ n = 1 /\ n = left
           \/ FBU.left # 1 /\ n = 2 /\ n = left
           \/ FBU.left # 1 /\ n = 1 /\ n # left /\ left - n = 1
    <3>1. CASE FBU.left = 1
      BY ONLY <1>3, <2>2, <2>3, <2>4, <3>1
    <3>2. CASE FBU.left # 1 /\ Len(rQ) >= 2
      BY ONLY <1>3, <2>3, <2>4, <3>2
    <3>3. CASE FBU.left # 1 /\ ~(Len(rQ) >= 2)
      BY ONLY <1>3, <2>2, <2>3, <2>4, <3>3
    <3> QED BY <3>1, <3>2, <3>3
  <2>6. \/ FBU.left = 1 /\ n = 1 /\ RectDone(n)
        \/ FBU.left # 1 /\ n = 2 /\ RectDone(n)
        \/ /\ FBU.left # 1 /\ n = 1
           /\ FBU' = [FBU EXCEPT !.left = 1, !.bytes = 1] /\ rQ' = Shift(n) /\ pc' = "rects"
    BY <2>1, <2>5
  <2>7. Lines(n) = [i \in 1..n |-> Op(rQ[i].id, FALSE, "offset")] /\ Push(Lines(n))
    BY <2>1 DEF Lines
  <2>8. Taken(Lines(n), q)
    BY <1>1, <2>5, <2>6, <2>7, TakePair
  <2> QED BY <2>8
<1> QED BY <1>4, <1>5

(* RRE: the background and their number, then the subrectangles.           *)
LEMMA TakeRre ==
  ASSUME StreamAssumption, StreamType, Middle, In("normal"), pc = "decode", DecodeRre,
         UNCHANGED sessionVars, UNCHANGED <<net, sent, owed, asked, family, count>>,
         NEW q, Leads(Encodings, Here, rQ \o net, q)
  PROVE  \E ops : Taken(ops, q)
<1> DEFINE Made(n) == [i \in 1..n |-> Op(rQ[i].id, FALSE, "view")]
<1>1. FBU.enc = "rre" /\ FBU.enc \notin {"qemu", "last"} /\ FBU.left # 2 /\ FBU.enc # "hextile"
  BY DEF DecodeRre, Middle
<1>2. /\ FBU.enc \in Encodings /\ FBU.left \in {0, 1} /\ rQ \in Seq(Units) /\ net \in Seq(Units)
      /\ Coming \in Nat /\ (FBU.left # 1 => Here = Within("rre", 1, FBU.rects, Coming))
  BY <1>1, FromHere
<1>3. Len(rQ) \in Nat
  BY <1>2, LenProperties
<1>4. CASE AwaitBytes(1)
  <2>1. 1 \in Nat /\ 1 > 0
    OBVIOUS
  <2> QED BY <1>1, <1>2, <1>4, <2>1, AwaitsBytes
<1>5. CASE ~(FBU.left = 0 /\ AwaitBytes(1))
  <2> DEFINE header == IF FBU.left = 0 THEN 1 ELSE 0
             left == IF FBU.left = 0 THEN rQ[1].n ELSE FBU.left
             n == Min({left, Len(rQ) - header})
             all == header + n
  <2>1. /\ ~Wait(1) /\ Push(Made(all))
        /\ IF n = left THEN RectDone(all)
           ELSE /\ FBU' = [FBU EXCEPT !.left = left - n, !.bytes = left - n]
                /\ rQ' = Shift(all) /\ pc' = "rects"
    BY <1>5 DEF DecodeRre
  <2>2. Len(rQ) >= 1
    BY <2>1, WaitsFor
  <2>3. left = 1
    <3>1. ASSUME FBU.left = 0 PROVE rQ[1].n = 1
      <4>1. Leads(Encodings, Within("rre", 1, FBU.rects, Coming), rQ \o net, q)
        BY <1>2, <3>1
      <4> QED BY <1>2, <2>2, <4>1, PairFirst
    <3> QED BY <1>2, <3>1
  <2>4. header = IF FBU.left = 1 THEN 0 ELSE 1
    BY <1>2
  <2> HIDE DEF left, header
  <2>5. n = IF left <= Len(rQ) - header THEN left ELSE Len(rQ) - header
    <3>1. left \in Nat /\ Len(rQ) - header \in Nat
      BY <1>3, <2>2, <2>3, <2>4
    <3> QED BY <3>1, MinOfTwo
  <2> HIDE DEF n
  <2>6. /\ all \in {1, 2} /\ Len(rQ) >= all
        /\ \/ FBU.left = 1 /\ all = 1 /\ n = left
           \/ FBU.left # 1 /\ all = 2 /\ n = left
           \/ FBU.left # 1 /\ all = 1 /\ n # left /\ left - n = 1
    <3>1. CASE FBU.left = 1
      BY ONLY <1>3, <2>2, <2>3, <2>4, <2>5, <3>1 DEF all
    <3>2. CASE FBU.left # 1 /\ Len(rQ) >= 2
      BY ONLY <1>3, <2>3, <2>4, <2>5, <3>2 DEF all
    <3>3. CASE FBU.left # 1 /\ ~(Len(rQ) >= 2)
      BY ONLY <1>3, <2>2, <2>3, <2>4, <2>5, <3>3 DEF all
    <3> QED BY <3>1, <3>2, <3>3
  <2> HIDE DEF all
  <2>7. \/ FBU.left = 1 /\ all = 1 /\ RectDone(all)
        \/ FBU.left # 1 /\ all = 2 /\ RectDone(all)
        \/ /\ FBU.left # 1 /\ all = 1
           /\ FBU' = [FBU EXCEPT !.left = 1, !.bytes = 1] /\ rQ' = Shift(all) /\ pc' = "rects"
    BY <2>1, <2>6
  <2>8. Made(all) = [i \in 1..all |-> Op(rQ[i].id, FALSE, "view")] /\ Push(Made(all))
    BY <2>1
  <2> HIDE DEF Made
  <2>9. Taken(Made(all), q)
    BY <1>1, <2>6, <2>7, <2>8, TakePair
  <2> QED BY <2>9
<1> QED BY <1>4, <1>5

(* HEXTILE: the first tile, and the second.                                *)
LEMMA HextileUnits ==
  ASSUME StreamAssumption, NEW id \in Nat
  PROVE  /\ Len(Rectangle("hextile", id)) = 5 /\ Drawing("hextile") = 2 /\ "hextile" \in Names
         /\ Rectangle("hextile", id)[2] = Unit("ctl", 1, id) /\ Rectangle("hextile", id)[4] = Unit("ctl", 1, id + 1)
<1>1. Rectangle("hextile", id) =
        <<Unit("hextile", 0, 0), Unit("ctl", 1, id), Unit("data", 0, id),
          Unit("ctl", 1, id + 1), Unit("data", 0, id + 1)>>
  BY Rectangles
<1>2. Drawing("hextile") = 2 /\ "hextile" \in Names
  BY DEF Drawing, StreamAssumption, Names
<1> QED BY <1>1, <1>2

(* The first tile.                                                         *)
LEMMA FirstTile ==
  ASSUME StreamAssumption, NEW E, NEW id \in Nat, NEW left, NEW q, NEW s \in Seq(Units), NEW t \in Seq(Units),
         Leads(E, Within("hextile", 1, left, id), s \o t, q), Len(s) >= 1
  PROVE  /\ s[1].id = id /\ s[1].n = 1
         /\ Len(s) >= 2 => Leads(E, Within("hextile", 3, left, id), SubSeq(s, 3, Len(s)) \o t, q)
<1>0. /\ Len(Rectangle("hextile", id)) = 5 /\ Drawing("hextile") = 2 /\ "hextile" \in Names
      /\ Rectangle("hextile", id)[2] = Unit("ctl", 1, id) /\ Rectangle("hextile", id)[4] = Unit("ctl", 1, id + 1)
  BY HextileUnits
<1>1. /\ 1 < Len(Rectangle("hextile", id)) /\ 1 \in Nat \ {0} /\ "hextile" \in Names
      /\ 1 + 1 < Len(Rectangle("hextile", id)) /\ Rectangle("hextile", id)[1 + 1] = Unit("ctl", 1, id)
  BY <1>0
<1>2. /\ s[1] = Rectangle("hextile", id)[1 + 1]
      /\ Leads(E, Within("hextile", 1 + 1, left, id), SubSeq(s, 2, Len(s)) \o t, q)
  BY <1>1, NextInside
<1>3. s[1].id = id /\ s[1].n = 1
  BY <1>1, <1>2, UnitValue
<1>4. ASSUME Len(s) >= 2
      PROVE  /\ s[1] = Rectangle("hextile", id)[1 + 1] /\ s[2] = Rectangle("hextile", id)[1 + 2]
             /\ Leads(E, Within("hextile", 1 + 2, left, id), SubSeq(s, 3, Len(s)) \o t, q)
  BY <1>1, <1>4, NextTwoInside
<1>5. 1 + 2 = 3
  OBVIOUS
<1> QED BY <1>3, <1>4, <1>5

(* The second tile.                                                        *)
LEMMA SecondTile ==
  ASSUME StreamAssumption, NEW E, NEW id \in Nat, id >= 1, NEW left, NEW q, NEW s \in Seq(Units), NEW t \in Seq(Units),
         Leads(E, Within("hextile", 3, left, id - 1), s \o t, q), Len(s) >= 1
  PROVE  /\ s[1].id = id /\ s[1].n = 1
         /\ Len(s) >= 2 => Leads(E, Between(left - 1, id + 1), SubSeq(s, 3, Len(s)) \o t, q)
<1> DEFINE m == id - 1
<1>1. m \in Nat /\ m + 1 = id /\ m + 2 = id + 1
  OBVIOUS
<1>2. Leads(E, Within("hextile", 3, left, m), s \o t, q)
  OBVIOUS
<1> HIDE DEF m
<1>0. /\ Len(Rectangle("hextile", m)) = 5 /\ Drawing("hextile") = 2 /\ "hextile" \in Names
      /\ Rectangle("hextile", m)[2] = Unit("ctl", 1, m) /\ Rectangle("hextile", m)[4] = Unit("ctl", 1, m + 1)
  BY <1>1, HextileUnits
<1>3. /\ 3 < Len(Rectangle("hextile", m)) /\ 3 \in Nat \ {0} /\ "hextile" \in Names
      /\ 3 + 1 < Len(Rectangle("hextile", m)) /\ Rectangle("hextile", m)[3 + 1] = Unit("ctl", 1, m + 1)
  <2>1. 3 + 1 = 4 /\ 3 \in Nat \ {0} /\ 3 < 5 /\ 4 < 5
    OBVIOUS
  <2> QED BY <1>0, <2>1
<1>4. /\ s[1] = Rectangle("hextile", m)[3 + 1]
      /\ Leads(E, Within("hextile", 3 + 1, left, m), SubSeq(s, 2, Len(s)) \o t, q)
  <2> DEFINE pos == 3
  <2>1. pos < Len(Rectangle("hextile", m)) /\ pos \in Nat \ {0} /\ "hextile" \in Names
    BY <1>3
  <2>2. Leads(E, Within("hextile", pos, left, m), s \o t, q)
    BY <1>2
  <2> HIDE DEF pos
  <2>3. /\ s[1] = Rectangle("hextile", m)[pos + 1]
        /\ Leads(E, Within("hextile", pos + 1, left, m), SubSeq(s, 2, Len(s)) \o t, q)
    BY <1>1, <2>1, <2>2, NextInside
  <2> QED BY <2>3 DEF pos
<1>5. s[1].id = m + 1 /\ s[1].n = 1
  BY <1>3, <1>4, UnitValue
<1>6. ASSUME Len(s) >= 2 PROVE Leads(E, Between(left - 1, m + 2), SubSeq(s, 3, Len(s)) \o t, q)
  <2>1. /\ s[1] = Rectangle("hextile", m)[3 + 1] /\ s[2] = Rectangle("hextile", m)[3 + 2]
        /\ Leads(E, Within("hextile", 3 + 2, left, m), SubSeq(s, 3, Len(s)) \o t, q)
    BY <1>1, <1>2, <1>3, <1>6, NextTwoInside
  <2>2. 3 + 2 = Len(Rectangle("hextile", m))
    BY <1>0
  <2>3. Within("hextile", 3 + 2, left, m) = Between(left - 1, m + Drawing("hextile"))
    BY <2>2, AtEnd
  <2> QED BY <1>0, <2>1, <2>3
<1> QED BY <1>1, <1>5, <1>6

(* ExtendedDesktopSize().                                                  *)
LEMMA ScreensUnits ==
  ASSUME StreamAssumption, "screens" \in Pseudo, NEW E, NEW id \in Nat, NEW left, NEW q,
         NEW s \in Seq(Units), NEW t \in Seq(Units),
         Leads(E, Within("screens", 1, left, id), s \o t, q), Len(s) >= 1
  PROVE  /\ s[1].n = 1
         /\ Len(s) >= 2 => Leads(E, Between(left - 1, id + 0), SubSeq(s, 3, Len(s)) \o t, q)
<1>1. Rectangle("screens", id) = <<Unit("screens", 0, 0), Unit("ctl", 1, 0), Unit("data", 0, 0)>>
  BY Rectangles
<1>2. Drawing("screens") = 0 /\ "screens" \in Names
  BY DEF Drawing, StreamAssumption, Names
<1>3. /\ 1 < Len(Rectangle("screens", id)) /\ 1 \in Nat \ {0}
      /\ 1 + 1 < Len(Rectangle("screens", id)) /\ Rectangle("screens", id)[1 + 1] = Unit("ctl", 1, 0)
      /\ 1 + 2 = Len(Rectangle("screens", id))
  <2>1. Len(Rectangle("screens", id)) = 3 /\ Rectangle("screens", id)[2] = Unit("ctl", 1, 0)
    BY <1>1
  <2>2. 1 + 1 = 2 /\ 1 + 2 = 3 /\ 1 \in Nat \ {0} /\ 1 < 3 /\ 2 < 3
    OBVIOUS
  <2> QED BY <2>1, <2>2
<1>4. /\ s[1] = Rectangle("screens", id)[1 + 1]
      /\ Leads(E, Within("screens", 1 + 1, left, id), SubSeq(s, 2, Len(s)) \o t, q)
  BY <1>2, <1>3, NextInside
<1>5. s[1].n = 1
  BY <1>3, <1>4, UnitValue
<1>6. ASSUME Len(s) >= 2 PROVE Leads(E, Between(left - 1, id + 0), SubSeq(s, 3, Len(s)) \o t, q)
  <2>1. /\ s[1] = Rectangle("screens", id)[1 + 1] /\ s[2] = Rectangle("screens", id)[1 + 2]
        /\ Leads(E, Within("screens", 1 + 2, left, id), SubSeq(s, 3, Len(s)) \o t, q)
    BY <1>2, <1>3, <1>6, NextTwoInside
  <2>2. Within("screens", 1 + 2, left, id) = Between(left - 1, id + Drawing("screens"))
    BY <1>3, AtEnd
  <2> QED BY <1>2, <2>1, <2>2
<1> QED BY <1>5, <1>6

(* HEXTILE: a tile as soon as all of it is there, one after the other.     *)
LEMMA TakeHextile ==
  ASSUME StreamAssumption, StreamType, Middle, In("normal"), pc = "decode", DecodeHextile,
         UNCHANGED sessionVars, UNCHANGED <<net, sent, owed, asked, family, count>>,
         NEW q, Leads(Encodings, Here, rQ \o net, q)
  PROVE  \E ops : Taken(ops, q)
<1> DEFINE tiles == IF FBU.left = 0 THEN 2 ELSE FBU.left
           all == IF Wait(1) THEN 1 ELSE 1 + rQ[1].n
           o == Op(rQ[1].id, FALSE, "own")
           ops == <<o>>
<1>1. FBU.enc = "hextile" /\ FBU.enc \notin {"qemu", "last"}
  BY DEF DecodeHextile
<1>2. /\ FBU.rects > 0 /\ FBU.rects \in Nat /\ Coming \in Nat /\ Coming >= 1 /\ FBU.enc \in Encodings
      /\ rQ \in Seq(Units) /\ net \in Seq(Units) /\ FBU.left \in {0, 1, 2} /\ FBU \in FBUs
      /\ FBU.left # 1 => Here = Within("hextile", 1, FBU.rects, Coming)
      /\ FBU.left = 1 => Here = Within("hextile", 3, FBU.rects, Coming - 1)
  BY <1>1, FromHere DEF StreamType
<1>3. Len(rQ) \in Nat /\ tiles \in {1, 2} /\ (tiles = 1 <=> FBU.left = 1)
  BY <1>2, LenProperties
<1>4. ASSUME ~Wait(1) PROVE Len(rQ) >= 1
  BY <1>4, WaitsFor
<1>5. ASSUME FBU.left # 1, ~Wait(1)
      PROVE  /\ rQ[1].id = Coming /\ rQ[1].n = 1
             /\ Len(rQ) >= 2 => Leads(Encodings, Within("hextile", 3, FBU.rects, Coming), SubSeq(rQ, 3, Len(rQ)) \o net, q)
  <2>1. Leads(Encodings, Within("hextile", 1, FBU.rects, Coming), rQ \o net, q) /\ Len(rQ) >= 1
    BY <1>2, <1>4, <1>5
  <2> QED BY <1>2, <2>1, FirstTile
<1>6. ASSUME FBU.left = 1, ~Wait(1)
      PROVE  /\ rQ[1].id = Coming /\ rQ[1].n = 1
             /\ Len(rQ) >= 2 => Leads(Encodings, Between(FBU.rects - 1, Coming + 1), SubSeq(rQ, 3, Len(rQ)) \o net, q)
  <2>1. Leads(Encodings, Within("hextile", 3, FBU.rects, Coming - 1), rQ \o net, q) /\ Len(rQ) >= 1
    BY <1>2, <1>4, <1>6
  <2> QED BY <1>2, <2>1, SecondTile
<1>7. ASSUME ~Wait(1) PROVE rQ[1].id = Coming /\ all = 2
  BY <1>5, <1>6, <1>7
<1>8. all \in Nat /\ all > 0
  BY <1>7
<1>9. CASE Wait(all) /\ FBU' = [FBU EXCEPT !.left = tiles, !.bytes = all] /\ ReturnFalse /\ UNCHANGED <<rQ, displayVars>>
  <2>1. tiles \in {FBU.left, 2} /\ (tiles = FBU.left \/ (FBU.left = 0 /\ FBU.enc = "hextile"))
    BY <1>1
  <2>2. pc' = "idle"
    BY <1>9 DEF ReturnFalse
  <2> HIDE DEF tiles, all
  <2> QED BY <1>1, <1>2, <1>8, <1>9, <2>1, <2>2, Awaits
<1>10. CASE /\ ~Wait(all) /\ DrawTile(o)
            /\ IF tiles = 1 THEN RectDone(all)
               ELSE FBU' = [FBU EXCEPT !.left = tiles - 1, !.bytes = 0] /\ rQ' = Shift(all) /\ UNCHANGED <<pc, msgTimer>>
  <2>1. ~Wait(1)
    <3>1. CASE Wait(1)
      <4>1. all = 1
        BY <3>1
      <4> QED BY <1>10, <3>1, <4>1
    <3> QED BY <3>1
  <2>2. all = 2 /\ rQ[1].id = Coming
    BY <1>7, <2>1
  <2>3. Len(rQ) >= 2 /\ 2 \in 0..Len(rQ)
    <3>1. ~Wait(2)
      BY <1>10, <2>2
    <3> QED BY <3>1, WaitsFor
  <2>4. o \in Ops /\ o.id = Coming /\ o.data # "wrong" /\ ~o.img
    BY <1>2, <2>2 DEF Op, Ops
  <2> HIDE DEF o, tiles, all
  <2>5. Numbered(ops) /\ Len(ops) = 1
    BY <2>4, OpsOne
  <2>6. ops[1] = o
    OBVIOUS
  <2>7. Draws(ops)
    BY <1>10, <2>5, <2>6 DEF Draws
  <2>8. \A i \in 1..Len(ops) : ops[i].data # "wrong" /\ ~ops[i].img
    <3>1. \A i \in 1..1 : i = 1
      OBVIOUS
    <3> QED BY <2>4, <2>5, <2>6, <3>1
  <2>9. Suits(ops)
    BY <1>1, <2>8, PlainSuits
  <2> HIDE DEF ops
  <2>10. 2 + 1 = 3 /\ 2 - 1 = 1
    OBVIOUS
  <2>11. CASE tiles = 1
    <3>1. Leads(Encodings, Between(FBU.rects - 1, Coming + Len(ops)), SubSeq(rQ, 2 + 1, Len(rQ)) \o net, q)
      BY <1>3, <1>6, <2>1, <2>3, <2>5, <2>10, <2>11
    <3>2. RectDone(2)
      BY <1>10, <2>2, <2>11
    <3>3. Taken(ops, q)
      BY <1>2, <2>3, <2>5, <2>7, <2>9, <3>1, <3>2, Done
    <3> QED BY <3>3
  <2>12. CASE tiles = 2
    <3>1. Leads(Encodings, Within(FBU.enc, IF FBU.enc = "hextile" THEN 3 ELSE 2, FBU.rects, Coming),
                SubSeq(rQ, 2 + 1, Len(rQ)) \o net, q)
      BY <1>1, <1>3, <1>5, <2>1, <2>3, <2>10, <2>12
    <3>2. FBU' = [FBU EXCEPT !.left = 1, !.bytes = 0] /\ rQ' = Shift(2) /\ pc' = "decode" /\ 0 \in Nat
      BY <1>10, <2>2, <2>10, <2>12
    <3>3. pc' \in {"rects", "decode"}
      BY <3>2
    <3>4. Taken(ops, q)
      BY <1>1, <1>2, <2>3, <2>5, <2>7, <2>9, <3>1, <3>2, <3>3, Halfway
    <3> QED BY <3>4
  <2> QED BY <1>3, <2>11, <2>12
<1> QED BY <1>9, <1>10 DEF DecodeHextile

(* Nothing is taken.                                                       *)
LEMMA TakenNone ==
  ASSUME NEW U, NEW s \in Seq(U)
  PROVE  SubSeq(s, 0 + 1, Len(s)) = s
BY SubSeqFull, 0 + 1 = 1

(* Pseudo encodings are only that.                                         *)
LEMMA PseudoOnly ==
  ASSUME StreamAssumption, NEW enc \in Encodings, enc \in {"resize", "screens", "refused", "qemu", "last"}
  PROVE  enc \in Pseudo /\ enc \in Names /\ Drawing(enc) = 0
<1>1. enc \in Pseudo
  BY DEF StreamAssumption, Encodings
<1>2. enc \in Names
  BY DEF Names
<1>3. Drawing(enc) = 0
  BY <1>1 DEF Drawing
<1> QED BY <1>1, <1>2, <1>3

(* ExtendedDesktopSize(), not for a refusal: after one it returns without  *)
(* taking the rectangle off FBU.rects.                                     *)
LEMMA TakeScreens ==
  ASSUME StreamAssumption, "refused" \notin Pseudo, StreamType, Middle, In("normal"), pc = "decode",
         DecodeScreens,
         UNCHANGED sessionVars, UNCHANGED <<net, sent, owed, asked, family, count>>,
         NEW q, Leads(Encodings, Here, rQ \o net, q)
  PROVE  \E ops : Taken(ops, q)
<1>1. /\ FBU.rects > 0 /\ FBU.rects \in Nat /\ Coming \in Nat /\ FBU.enc \in Encodings
      /\ rQ \in Seq(Units) /\ net \in Seq(Units)
      /\ FBU.left # 1 => Here = Within(FBU.enc, 1, FBU.rects, Coming)
  BY FromHere
<1>2. FBU.enc = "screens" /\ "screens" \in Pseudo /\ FBU.enc \notin {"qemu", "last"} /\ FBU.left # 1
  <2>1. FBU.enc \in {"screens", "refused"} /\ FBU.left # 1
    BY DEF DecodeScreens, Middle
  <2>2. FBU.enc \in Pseudo
    BY <1>1, <2>1, PseudoOnly
  <2> QED BY <2>1, <2>2
<1>3. ASSUME NEW n \in Nat, n > 0, AwaitBytes(n) PROVE Taken(<<>>, q)
  BY <1>1, <1>2, <1>3, AwaitsBytes
<1>4. ASSUME ~Wait(1)
      PROVE  /\ rQ[1].n = 1
             /\ Len(rQ) >= 2 => Leads(Encodings, Between(FBU.rects - 1, Coming + 0), SubSeq(rQ, 3, Len(rQ)) \o net, q)
  <2>1. Leads(Encodings, Within("screens", 1, FBU.rects, Coming), rQ \o net, q) /\ Len(rQ) >= 1
    BY <1>1, <1>2, <1>4, WaitsFor
  <2> QED BY <1>1, <1>2, <2>1, ScreensUnits
<1>5. CASE AwaitBytes(1)
  BY <1>3, <1>5
<1>6. CASE ~Wait(1) /\ AwaitBytes(1 + rQ[1].n)
  <2>1. 1 + rQ[1].n = 2
    BY <1>4, <1>6
  <2> QED BY <1>3, <1>6, <2>1
<1>7. CASE ~Wait(1) /\ ~Wait(1 + rQ[1].n) /\ RectDone(1 + rQ[1].n) /\ UNCHANGED displayVars
  <2>1. 1 + rQ[1].n = 2 /\ ~Wait(2) /\ RectDone(2)
    BY <1>4, <1>7
  <2>2. Len(rQ) >= 2 /\ 2 \in 0..Len(rQ) /\ 2 + 1 = 3 /\ Len(<<>>) = 0
    BY <2>1, WaitsFor
  <2>3. Draws(<<>>) /\ Numbered(<<>>) /\ Suits(<<>>)
    BY <1>7, Nothing
  <2>4. Leads(Encodings, Between(FBU.rects - 1, Coming + Len(<<>>)), SubSeq(rQ, 2 + 1, Len(rQ)) \o net, q)
    BY <1>4, <1>7, <2>2
  <2>5. Taken(<<>>, q)
    BY <1>1, <2>1, <2>2, <2>3, <2>4, Done
  <2> QED BY <2>5
<1> QED BY <1>2, <1>5, <1>6, <1>7 DEF DecodeScreens

(* DesktopSize() has a header only.                                        *)
LEMMA TakeResize ==
  ASSUME StreamAssumption, StreamType, Middle, In("normal"), pc = "decode", DecodeResize,
         UNCHANGED sessionVars, UNCHANGED <<net, sent, owed, asked, family, count>>,
         NEW q, Leads(Encodings, Here, rQ \o net, q)
  PROVE  \E ops : Taken(ops, q)
<1>1. /\ FBU.rects > 0 /\ FBU.rects \in Nat /\ Coming \in Nat /\ FBU.enc \in Encodings
      /\ rQ \in Seq(Units) /\ net \in Seq(Units)
      /\ FBU.left # 1 => Here = Within(FBU.enc, 1, FBU.rects, Coming)
  BY FromHere
<1>2. FBU.enc = "resize" /\ FBU.left # 1
  BY DEF DecodeResize, Middle
<1>3. Drawing("resize") = 0
  BY <1>1, <1>2, PseudoOnly
<1>4. Rectangle("resize", Coming) = <<Unit("resize", 0, 0)>>
  BY <1>1, Rectangles
<1>5. Within("resize", 1, FBU.rects, Coming) = Between(FBU.rects - 1, Coming + Drawing("resize"))
  <2>1. 1 = Len(Rectangle("resize", Coming))
    BY <1>4
  <2> QED BY <2>1, AtEnd
<1>6. Draws(<<>>) /\ Numbered(<<>>) /\ Suits(<<>>)
  BY Nothing DEF DecodeResize
<1>7. Len(<<>>) = 0 /\ SubSeq(rQ, 0 + 1, Len(rQ)) = rQ
  BY <1>1, TakenNone
<1>8. 0 \in 0..Len(rQ) /\ RectDone(0)
  BY <1>1, LenProperties DEF DecodeResize
<1>9. Leads(Encodings, Between(FBU.rects - 1, Coming + Len(<<>>)), SubSeq(rQ, 0 + 1, Len(rQ)) \o net, q)
  BY <1>1, <1>2, <1>3, <1>5, <1>7
<1>10. Taken(<<>>, q)
  BY <1>1, <1>6, <1>8, <1>9, Done
<1> QED BY <1>10

(* last_rect() ends the update, however many rectangles were announced.    *)
LEMMA TakeLast ==
  ASSUME StreamAssumption, StreamType, Middle, In("normal"), pc = "decode", DecodeLast,
         UNCHANGED sessionVars, UNCHANGED <<net, sent, owed, asked, family, count>>,
         NEW q, Leads(Encodings, Here, rQ \o net, q)
  PROVE  \E ops : Taken(ops, q)
<1>1. /\ FBU.rects > 0 /\ FBU.rects \in Nat /\ Coming \in Nat /\ FBU.enc \in Encodings
      /\ rQ \in Seq(Units) /\ net \in Seq(Units)
      /\ FBU.left # 1 => Here = Within(FBU.enc, 1, FBU.rects, Coming)
  BY FromHere
<1>2. FBU.enc = "last" /\ FBU.left = 0 /\ FBU.bytes = 0 /\ FBU \in FBUs
  BY DEF DecodeLast, Middle, StreamType, FBUs
<1>3. Drawing("last") = 0
  BY <1>1, <1>2, PseudoOnly
<1>4. Rectangle("last", Coming) = <<Unit("last", 0, 0)>>
  BY <1>1, Rectangles
<1>5. Within("last", 1, FBU.rects, Coming) = Between(0, Coming + Drawing("last"))
  <2>1. 1 = Len(Rectangle("last", Coming))
    BY <1>4
  <2> QED BY <2>1 DEF Within, Further
<1>6. Draws(<<>>) /\ Numbered(<<>>) /\ Suits(<<>>)
  BY Nothing DEF DecodeLast
<1>7. Coming' = Coming /\ Encodings' = Encodings /\ rQ' \o net' = rQ \o net /\ ~In("ServerInitialisation")'
  BY DEF Coming, displayVars, Encodings, sessionVars, In, DecodeLast
<1>8. /\ FBU' \in FBUs /\ FBU'.rects = 0 /\ FBU'.bytes = 0 /\ FBU'.left = 0 /\ pc' = "rects"
      /\ FBU'.enc = "last"
  BY <1>2 DEF FBUs, DecodeLast
<1>9. StreamType'
  BY <1>8 DEF StreamType, DecodeLast, displayVars
<1>10. Middle'
  BY <1>8 DEF Middle
<1>11. Here' = Between(0, Coming)
  BY <1>7, <1>8 DEF Here
<1>12. Coming + 0 = Coming
  BY <1>1
<1>13. Leads(Encodings, Here', rQ' \o net', q)
  BY <1>1, <1>2, <1>3, <1>5, <1>7, <1>11, <1>12
<1> QED BY <1>6, <1>7, <1>9, <1>10, <1>13 DEF Taken

(* QEMUExtendedKeyEvent() takes its rectangle off FBU.rects and waits for  *)
(* the next message.                                                       *)
LEMMA TakeQemu ==
  ASSUME StreamAssumption, StreamType, Middle, In("normal"), pc = "decode", DecodeQemu,
         UNCHANGED sessionVars, UNCHANGED <<net, sent, owed, asked, family, count>>,
         NEW q, Leads(Encodings, Here, rQ \o net, q)
  PROVE  \E ops : Taken(ops, q)
<1>1. /\ FBU.rects > 0 /\ FBU.rects \in Nat /\ Coming \in Nat /\ FBU.enc \in Encodings
      /\ rQ \in Seq(Units) /\ net \in Seq(Units)
      /\ FBU.left # 1 => Here = Within(FBU.enc, 1, FBU.rects, Coming)
  BY FromHere
<1>2. FBU.enc = "qemu" /\ FBU.left = 0 /\ FBU.bytes = 0 /\ FBU \in FBUs
  BY DEF DecodeQemu, Middle, StreamType, FBUs
<1>3. Drawing("qemu") = 0
  BY <1>1, <1>2, PseudoOnly
<1>4. Rectangle("qemu", Coming) = <<Unit("qemu", 0, 0)>>
  BY <1>1, Rectangles
<1>5. Within("qemu", 1, FBU.rects, Coming) = Between(FBU.rects - 1, Coming + Drawing("qemu"))
  <2>1. 1 = Len(Rectangle("qemu", Coming))
    BY <1>4
  <2> QED BY <2>1, AtEnd
<1>6. Draws(<<>>) /\ Numbered(<<>>) /\ Suits(<<>>)
  BY Nothing DEF DecodeQemu
<1>7. Coming' = Coming /\ Encodings' = Encodings /\ rQ' \o net' = rQ \o net /\ ~In("ServerInitialisation")'
  BY DEF Coming, displayVars, Encodings, sessionVars, In, DecodeQemu
<1>8. /\ FBU' \in FBUs /\ FBU'.rects = FBU.rects - 1 /\ FBU'.bytes = 0 /\ FBU'.left = 0 /\ pc' = "idle"
  <2>1. FBU.rects - 1 \in Nat
    BY <1>1
  <2>2. FBU' = [FBU EXCEPT !.rects = FBU.rects - 1] /\ pc' = "idle"
    BY DEF DecodeQemu, ReturnFalse
  <2> QED BY <1>2, <2>1, <2>2 DEF FBUs
<1>9. StreamType'
  BY <1>8 DEF StreamType, DecodeQemu, displayVars
<1>10. Middle'
  BY <1>8 DEF Middle
<1>11. Here' = Between(FBU.rects - 1, Coming)
  BY <1>7, <1>8 DEF Here
<1>12. Coming + 0 = Coming
  BY <1>1
<1>13. Leads(Encodings, Here', rQ' \o net', q)
  BY <1>1, <1>2, <1>3, <1>5, <1>7, <1>11, <1>12
<1> QED BY <1>6, <1>7, <1>9, <1>10, <1>13 DEF Taken

(* A handler of a rectangle takes what is there, and the stream goes on    *)
(* from where it is then.                                                  *)
LEMMA TakeRectangle ==
  ASSUME StreamAssumption, "refused" \notin Pseudo, StreamType, Middle, In("normal"), Decode,
         UNCHANGED sessionVars,
         NEW q, Leads(Encodings, Here, rQ \o net, q)
  PROVE  \E ops : Taken(ops, q)
<1>1. pc = "decode" /\ UNCHANGED <<net, sent, owed, asked, family, count>>
  BY DEF Decode
<1> QED
  BY <1>1, TakeTight, TakeCopy, TakeRaw, TakeRre, TakeHextile, TakeResize, TakeLast,
      TakeScreens, TakeQemu
  DEF Decode
=============================================================================
