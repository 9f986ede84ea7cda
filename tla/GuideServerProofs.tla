------------------------- MODULE GuideServerProofs -------------------------
(***************************************************************************)
(* The Lin_guider command server, for every number of clients, connection  *)
(* objects and restarts: its invariants, and that its two threads          *)
(* implement GuideService: each step, seen through the mapping of          *)
(* GuideServer, is a step of the service or invisible to it.               *)
(***************************************************************************)
EXTENDS GuideServer, SequenceTheorems, TLAPS

(* What a connection object carries at every stage of its way is its own   *)
(* client's command, and an answer that command can have.                  *)
Carried(k) ==
  /\ peer[k] \in Client
  /\ cmdOf[k] \in Command
  /\ cmdOf[k] = request[peer[k]]

Decided(k) ==
  /\ answer[k] \in Answer
  /\ answer[k] = "ok" <=> cmdOf[k] # "dither"

CarriedInv ==
  /\ \A c \in Client :
       /\ unread[c] => request[c] \in Command
       /\ client[c] \in {"new", "connected"} => ~unread[c] /\ request[c] = None
       /\ reply[c] # NoReply => request[c] \in Command
       /\ client[c] = "new" => link[c] = "none"
       /\ link[c] = "none" => client[c] \in {"new", "gone"}
  /\ \A k \in SetOf(inQueue) : Carried(k)
  /\ \A k \in SetOf(frames) : Carried(k) /\ cmdOf[k] = "calibrate"
  /\ longTask # NoConn => Carried(longTask) /\ cmdOf[longTask] = "dither"
  /\ \A k \in SetOf(outQueue) : Carried(k) /\ Decided(k)
  /\ \A k \in Conn : interest[k] = "out" => Carried(k) /\ Decided(k)

IInv ==
  /\ TypeOK
  /\ ConnOwnedOnce
  /\ PeerExclusive
  /\ NoLostCommand
  /\ TimerHasTask
  /\ RightAnswer
  /\ CarriedInv
-----------------------------------------------------------------------------
(* Sequences as queues: what push and pop do to the set of elements.       *)

(* return_conn and do_read push at the back: one element is added, and the *)
(* queue stays free of duplicates when the element was not in it.          *)
LEMMA PushLemma ==
  ASSUME NEW q \in Seq(Conn), NEW k \in Conn
  PROVE  /\ Append(q, k) \in Seq(Conn)
         /\ SetOf(Append(q, k)) = SetOf(q) \cup {k}
         /\ Injective(q) /\ k \notin SetOf(q) => Injective(Append(q, k))
<1>1. /\ Append(q, k) \in Seq(Conn)
      /\ Len(q) \in Nat
      /\ Len(Append(q, k)) = Len(q) + 1
      /\ \A i \in 1..Len(q) : Append(q, k)[i] = q[i]
      /\ Append(q, k)[Len(q) + 1] = k
  BY AppendProperties, LenProperties
<1>2. SetOf(Append(q, k)) = SetOf(q) \cup {k}
  <2>1. SetOf(Append(q, k)) \subseteq SetOf(q) \cup {k}
    BY <1>1 DEF SetOf
  <2>2. SetOf(q) \subseteq SetOf(Append(q, k))
    BY <1>1 DEF SetOf
  <2>3. k \in SetOf(Append(q, k))
    BY <1>1 DEF SetOf
  <2>4. QED BY <2>1, <2>2, <2>3
<1>3. ASSUME Injective(q), k \notin SetOf(q) PROVE Injective(Append(q, k))
  BY <1>1, <1>3 DEF Injective, SetOf
<1>4. QED BY <1>1, <1>2, <1>3

(* A prefix of a queue.                                                    *)
LEMMA PrefixLemma ==
  ASSUME NEW q \in Seq(Conn), NEW n \in 0..Len(q)
  PROVE  /\ SubSeq(q, 1, n) \in Seq(Conn)
         /\ Len(SubSeq(q, 1, n)) = n
         /\ \A i \in 1..n : SubSeq(q, 1, n)[i] = q[i]
<1> DEFINE a == SubSeq(q, 1, n)
<1>0. Len(q) \in Nat /\ \A i \in 1..Len(q) : q[i] \in Conn
  BY LenProperties, ElementOfSeq
<1>1. a \in Seq(Conn) /\ Len(a) = n /\ \A i \in 1..n : a[i] = q[i]
  <2>1. \A i \in 1..n : q[i] \in Conn
    BY <1>0
  <2>2. 1 \in Int /\ n \in Int
    BY <1>0
  <2>3. /\ a \in Seq(Conn)
        /\ Len(a) = IF 1 <= n THEN n - 1 + 1 ELSE 0
        /\ \A i \in 1..(n - 1 + 1) : a[i] = q[1 + i - 1]
    BY <2>1, <2>2, SubSeqProperties
  <2>4. QED BY <2>3, <1>0
<1>2. QED BY <1>1

(* Cutting a queue in two splits its elements; without duplicates the two  *)
(* parts have none in common.                                              *)
LEMMA SplitLemma ==
  ASSUME NEW q \in Seq(Conn), NEW n \in 0..Len(q)
  PROVE  /\ SubSeq(q, 1, n) \in Seq(Conn)
         /\ SubSeq(q, n + 1, Len(q)) \in Seq(Conn)
         /\ SetOf(q) = SetOf(SubSeq(q, 1, n)) \cup SetOf(SubSeq(q, n + 1, Len(q)))
         /\ Injective(q) =>
              /\ Injective(SubSeq(q, 1, n))
              /\ Injective(SubSeq(q, n + 1, Len(q)))
              /\ SetOf(SubSeq(q, 1, n)) \cap SetOf(SubSeq(q, n + 1, Len(q))) = {}
<1> DEFINE a == SubSeq(q, 1, n)
           b == SubSeq(q, n + 1, Len(q))
<1>0. Len(q) \in Nat /\ \A i \in 1..Len(q) : q[i] \in Conn
  BY LenProperties, ElementOfSeq
<1>1. a \in Seq(Conn) /\ Len(a) = n /\ \A i \in 1..n : a[i] = q[i]
  BY PrefixLemma
<1>2. b \in Seq(Conn) /\ Len(b) = Len(q) - n /\ \A i \in 1..(Len(q) - n) : b[i] = q[n + i]
  <2>1. \A i \in (n + 1)..Len(q) : q[i] \in Conn
    BY <1>0
  <2>2. n + 1 \in Int /\ Len(q) \in Int
    BY <1>0
  <2>3. /\ b \in Seq(Conn)
        /\ Len(b) = IF n + 1 <= Len(q) THEN Len(q) - (n + 1) + 1 ELSE 0
        /\ \A i \in 1..(Len(q) - (n + 1) + 1) : b[i] = q[(n + 1) + i - 1]
    BY <2>1, <2>2, SubSeqProperties
  <2>4. QED BY <2>3, <1>0
<1> HIDE DEF a, b
<1>3. SetOf(a) = {q[i] : i \in 1..n}
  BY <1>1 DEF SetOf
<1>4. SetOf(b) = {q[i] : i \in (n + 1)..Len(q)}
  <2>1. \A i \in (n + 1)..Len(q) : i - n \in 1..(Len(q) - n) /\ q[i] = b[i - n]
    BY <1>0, <1>2
  <2>2. \A i \in 1..(Len(q) - n) : n + i \in (n + 1)..Len(q) /\ b[i] = q[n + i]
    BY <1>0, <1>2
  <2>3. QED BY <1>2, <2>1, <2>2 DEF SetOf
<1>5. SetOf(q) = SetOf(a) \cup SetOf(b)
  <2>1. 1..Len(q) = (1..n) \cup ((n + 1)..Len(q))
    BY <1>0
  <2>2. QED BY <1>3, <1>4, <2>1 DEF SetOf
<1>6. ASSUME Injective(q)
      PROVE  Injective(a) /\ Injective(b) /\ SetOf(a) \cap SetOf(b) = {}
  <2>1. Injective(a)
    BY <1>0, <1>1, <1>6 DEF Injective
  <2>2. Injective(b)
    <3> SUFFICES ASSUME NEW i \in 1..Len(b), NEW j \in 1..Len(b), b[i] = b[j] PROVE i = j
      BY DEF Injective
    <3>1. n + i \in 1..Len(q) /\ n + j \in 1..Len(q) /\ q[n + i] = q[n + j]
      BY <1>0, <1>2
    <3>2. QED BY <3>1, <1>6, <1>0 DEF Injective
  <2>3. SetOf(a) \cap SetOf(b) = {}
    BY <1>0, <1>3, <1>4, <1>6 DEF Injective
  <2>4. QED BY <2>1, <2>2, <2>3
<1>7. QED BY <1>1, <1>2, <1>5, <1>6 DEF a, b

(* take_conn pops the front.                                               *)
LEMMA PopFrontLemma ==
  ASSUME NEW q \in Seq(Conn), q # <<>>
  PROVE  /\ Head(q) \in Conn
         /\ Tail(q) \in Seq(Conn)
         /\ Len(Tail(q)) = Len(q) - 1
         /\ Len(q) \in Nat \ {0}
         /\ SetOf(q) = {Head(q)} \cup SetOf(Tail(q))
         /\ Injective(q) => Injective(Tail(q)) /\ Head(q) \notin SetOf(Tail(q))
<1>1. /\ Head(q) \in Conn
      /\ Tail(q) \in Seq(Conn)
      /\ Len(q) \in Nat \ {0}
      /\ Head(q) = q[1]
      /\ Len(Tail(q)) = Len(q) - 1
      /\ \A i \in 1..Len(Tail(q)) : Tail(q)[i] = q[i + 1]
  BY HeadTailProperties, EmptySeq, LenProperties
<1>2. SetOf(q) = {Head(q)} \cup SetOf(Tail(q))
  <2>1. \A i \in 2..Len(q) : i - 1 \in 1..Len(Tail(q)) /\ q[i] = Tail(q)[i - 1]
    BY <1>1
  <2>2. \A i \in 1..Len(Tail(q)) : i + 1 \in 1..Len(q) /\ Tail(q)[i] = q[i + 1]
    BY <1>1
  <2>3. \A i \in 1..Len(q) : i = 1 \/ i \in 2..Len(q)
    BY <1>1
  <2>4. 1 \in 1..Len(q)
    BY <1>1
  <2>5. QED BY <1>1, <2>1, <2>2, <2>3, <2>4 DEF SetOf
<1>3. ASSUME Injective(q) PROVE Injective(Tail(q)) /\ Head(q) \notin SetOf(Tail(q))
  BY <1>1, <1>3 DEF Injective, SetOf
<1>4. QED BY <1>1, <1>2, <1>3

(* The innermost suspended handler is the last of frames.                  *)
LEMMA PopBackLemma ==
  ASSUME NEW q \in Seq(Conn), q # <<>>
  PROVE  LET z == q[Len(q)]
             r == SubSeq(q, 1, Len(q) - 1)
         IN /\ z \in Conn
            /\ r \in Seq(Conn)
            /\ SetOf(q) = SetOf(r) \cup {z}
            /\ Injective(q) => Injective(r) /\ z \notin SetOf(r)
<1>1. Len(q) \in Nat \ {0}
  BY EmptySeq
<1>2. q[Len(q)] \in Conn
  BY <1>1, ElementOfSeq
<1> DEFINE r == SubSeq(q, 1, Len(q) - 1)
<1>3. r \in Seq(Conn) /\ Len(r) = Len(q) - 1 /\ \A i \in 1..(Len(q) - 1) : r[i] = q[i]
  <2>1. Len(q) - 1 \in 0..Len(q)
    BY <1>1
  <2>2. QED BY <2>1, PrefixLemma
<1> HIDE DEF r
<1>4. \A i \in 1..Len(q) : i = Len(q) \/ i \in 1..(Len(q) - 1)
  BY <1>1
<1>5. SetOf(q) = SetOf(r) \cup {q[Len(q)]}
  BY <1>1, <1>3, <1>4 DEF SetOf
<1>6. ASSUME Injective(q) PROVE Injective(r) /\ q[Len(q)] \notin SetOf(r)
  BY <1>1, <1>3, <1>6 DEF Injective, SetOf
<1>7. QED BY <1>2, <1>3, <1>5, <1>6 DEF r
-----------------------------------------------------------------------------
(* The invariant is inductive and implies the properties.                      *)

LEMMA InitInv == Init => IInv
<1> SUFFICES ASSUME Init PROVE IInv
  OBVIOUS
<1> USE GuideServerAssumption
<1>1. SetOf(inQueue) = {} /\ SetOf(outQueue) = {} /\ SetOf(frames) = {} /\ Len(inQueue) = 0
  BY DEF Init, SetOf
<1>2. Injective(inQueue) /\ Injective(outQueue) /\ Injective(frames)
  BY DEF Init, Injective
<1>3. TypeOK
  <2>1. inQueue \in Seq(Conn) /\ outQueue \in Seq(Conn) /\ frames \in Seq(Conn)
    BY EmptySeq DEF Init
  <2>2. restarts \in 0..MaxRestarts /\ pending \in Nat
    BY DEF Init
  <2>3. reply \in [Client -> Reply \cup {NoReply}]
    BY DEF Init
  <2>4. QED BY <2>1, <2>2, <2>3 DEF Init, TypeOK
<1>4. ConnOwnedOnce
  BY <1>1, <1>2 DEF Init, ConnOwnedOnce
<1>5. PeerExclusive
  BY <1>1 DEF Init, PeerExclusive, InUse
<1>6. NoLostCommand
  BY <1>1 DEF Init, NoLostCommand
<1>7. TimerHasTask /\ RightAnswer
  BY DEF Init, TimerHasTask, RightAnswer
<1>8. CarriedInv
  BY <1>1 DEF Init, CarriedInv, NoReply, None, Command
<1>9. QED BY <1>3, <1>4, <1>5, <1>6, <1>7, <1>8 DEF IInv

(* A client connects, or fails to.                                         *)
LEMMA ConnectInv ==
  ASSUME NEW c \in Client, IInv, Connect(c)
  PROVE  IInv'
<1> USE GuideServerAssumption DEF IInv, clientVars, connVars, queueVars, mainVars, Connect
<1>1. TypeOK'
  BY DEF TypeOK
<1>2. ConnOwnedOnce'
  BY DEF ConnOwnedOnce
<1>3. PeerExclusive'
  BY DEF PeerExclusive, InUse, TypeOK, CarriedInv, Carried
<1>4. NoLostCommand'
  BY DEF NoLostCommand
<1>5. TimerHasTask'
  BY DEF TimerHasTask
<1>6. RightAnswer'
  BY DEF RightAnswer, TypeOK, CarriedInv, Carried, NoReply, None, Command
<1>7. CarriedInv'
  BY DEF CarriedInv, Carried, Decided, TypeOK, NoReply, None, Command
<1>8. QED BY <1>1, <1>2, <1>3, <1>4, <1>5, <1>6, <1>7

(* A client writes its command.                                            *)
LEMMA SendInv ==
  ASSUME NEW c \in Client, NEW cmd \in Command, IInv, Send(c, cmd)
  PROVE  IInv'
<1> USE GuideServerAssumption DEF IInv, clientVars, connVars, queueVars, mainVars, Send
<1>1. TypeOK'
  <2>1. client' \in [Client -> {"new", "connected", "waiting", "answered", "eof", "gone"}]
    BY DEF TypeOK
  <2>2. request' \in [Client -> Command \cup {None}]
    BY DEF TypeOK
  <2>3. unread' \in [Client -> BOOLEAN]
    BY DEF TypeOK
  <2>4. QED BY <2>1, <2>2, <2>3 DEF TypeOK
<1>2. ConnOwnedOnce'
  BY DEF ConnOwnedOnce
<1>3. PeerExclusive'
  BY DEF PeerExclusive, InUse, TypeOK, CarriedInv, Carried
<1>4. NoLostCommand'
  BY DEF NoLostCommand
<1>5. TimerHasTask'
  BY DEF TimerHasTask
<1>6. RightAnswer'
  BY DEF RightAnswer, TypeOK, CarriedInv, Carried, NoReply, None, Command
<1>7. CarriedInv'
  BY DEF CarriedInv, Carried, Decided, TypeOK, NoReply, None, Command
<1>8. QED BY <1>1, <1>2, <1>3, <1>4, <1>5, <1>6, <1>7

(* A client reads its answer or end of file.                               *)
LEMMA ReceiveInv ==
  ASSUME NEW c \in Client, IInv, Receive(c)
  PROVE  IInv'
<1> USE GuideServerAssumption DEF IInv, clientVars, connVars, queueVars, mainVars, Receive
<1>1. TypeOK'
  BY DEF TypeOK
<1>2. ConnOwnedOnce'
  BY DEF ConnOwnedOnce
<1>3. PeerExclusive'
  BY DEF PeerExclusive, InUse, TypeOK, CarriedInv, Carried
<1>4. NoLostCommand'
  BY DEF NoLostCommand
<1>5. TimerHasTask'
  BY DEF TimerHasTask
<1>6. RightAnswer'
  BY DEF RightAnswer, TypeOK, CarriedInv, Carried, NoReply, None, Command
<1>7. CarriedInv'
  BY DEF CarriedInv, Carried, Decided, TypeOK, NoReply, None, Command
<1>8. QED BY <1>1, <1>2, <1>3, <1>4, <1>5, <1>6, <1>7

(* A client is killed.                                                     *)
LEMMA InterruptInv ==
  ASSUME NEW c \in Client, IInv, Interrupt(c)
  PROVE  IInv'
<1> USE GuideServerAssumption DEF IInv, clientVars, connVars, queueVars, mainVars, Interrupt, ClientOpen
<1>1. TypeOK'
  BY DEF TypeOK
<1>2. ConnOwnedOnce'
  BY DEF ConnOwnedOnce
<1>3. PeerExclusive'
  BY DEF PeerExclusive, InUse, TypeOK, CarriedInv, Carried
<1>4. NoLostCommand'
  BY DEF NoLostCommand
<1>5. TimerHasTask'
  BY DEF TimerHasTask
<1>6. RightAnswer'
  BY DEF RightAnswer, TypeOK, CarriedInv, Carried, NoReply, None, Command
<1>7. CarriedInv'
  BY DEF CarriedInv, Carried, Decided, TypeOK, NoReply, None, Command
<1>8. QED BY <1>1, <1>2, <1>3, <1>4, <1>5, <1>6, <1>7

(* The server thread is up.                                                *)
LEMMA ServerUpInv ==
  ASSUME IInv, ServerUp
  PROVE  IInv'
<1> USE GuideServerAssumption DEF IInv, clientVars, connVars, queueVars, mainVars, ServerUp
<1>1. TypeOK'
  BY DEF TypeOK
<1>2. ConnOwnedOnce'
  BY DEF ConnOwnedOnce
<1>3. PeerExclusive'
  BY DEF PeerExclusive, InUse, TypeOK, CarriedInv, Carried
<1>4. NoLostCommand'
  BY DEF NoLostCommand
<1>5. TimerHasTask'
  BY DEF TimerHasTask
<1>6. RightAnswer'
  BY DEF RightAnswer, TypeOK, CarriedInv, Carried, NoReply, None, Command
<1>7. CarriedInv'
  BY DEF CarriedInv, Carried, Decided, TypeOK, NoReply, None, Command
<1>8. QED BY <1>1, <1>2, <1>3, <1>4, <1>5, <1>6, <1>7

(* The signal of a queued command.                                         *)
LEMMA EmitDoCommandInv ==
  ASSUME IInv, EmitDoCommand
  PROVE  IInv'
<1> USE GuideServerAssumption DEF IInv, clientVars, connVars, queueVars, mainVars, EmitDoCommand
<1>1. TypeOK'
  BY DEF TypeOK
<1>2. ConnOwnedOnce'
  BY DEF ConnOwnedOnce
<1>3. PeerExclusive'
  BY DEF PeerExclusive, InUse, TypeOK, CarriedInv, Carried
<1>4. NoLostCommand'
  BY LenProperties DEF NoLostCommand, TypeOK
<1>5. TimerHasTask'
  BY DEF TimerHasTask
<1>6. RightAnswer'
  BY DEF RightAnswer, TypeOK, CarriedInv, Carried, NoReply, None, Command
<1>7. CarriedInv'
  BY DEF CarriedInv, Carried, Decided, TypeOK, NoReply, None, Command
<1>8. QED BY <1>1, <1>2, <1>3, <1>4, <1>5, <1>6, <1>7

(* The write to the eventfd.                                               *)
LEMMA NotifyInv ==
  ASSUME IInv, Notify
  PROVE  IInv'
<1> USE GuideServerAssumption DEF IInv, clientVars, connVars, queueVars, mainVars, Notify
<1>1. TypeOK'
  BY DEF TypeOK
<1>2. ConnOwnedOnce'
  BY DEF ConnOwnedOnce
<1>3. PeerExclusive'
  BY DEF PeerExclusive, InUse, TypeOK, CarriedInv, Carried
<1>4. NoLostCommand'
  BY DEF NoLostCommand
<1>5. TimerHasTask'
  BY DEF TimerHasTask
<1>6. RightAnswer'
  BY DEF RightAnswer, TypeOK, CarriedInv, Carried, NoReply, None, Command
<1>7. CarriedInv'
  BY DEF CarriedInv, Carried, Decided, TypeOK, NoReply, None, Command
<1>8. QED BY <1>1, <1>2, <1>3, <1>4, <1>5, <1>6, <1>7

(* The quit flag.                                                          *)
LEMMA RestartBeginInv ==
  ASSUME IInv, RestartBegin
  PROVE  IInv'
<1> USE GuideServerAssumption DEF IInv, clientVars, connVars, queueVars, mainVars, RestartBegin
<1>1. TypeOK'
  BY DEF TypeOK
<1>2. ConnOwnedOnce'
  BY DEF ConnOwnedOnce
<1>3. PeerExclusive'
  BY DEF PeerExclusive, InUse, TypeOK, CarriedInv, Carried
<1>4. NoLostCommand'
  BY DEF NoLostCommand
<1>5. TimerHasTask'
  BY DEF TimerHasTask
<1>6. RightAnswer'
  BY DEF RightAnswer, TypeOK, CarriedInv, Carried, NoReply, None, Command
<1>7. CarriedInv'
  BY DEF CarriedInv, Carried, Decided, TypeOK, NoReply, None, Command
<1>8. QED BY <1>1, <1>2, <1>3, <1>4, <1>5, <1>6, <1>7

(* The new server.                                                         *)
LEMMA RestartEndInv ==
  ASSUME IInv, RestartEnd
  PROVE  IInv'
<1> USE GuideServerAssumption DEF IInv, clientVars, connVars, queueVars, mainVars, RestartEnd
<1>1. TypeOK'
  BY DEF TypeOK
<1>2. ConnOwnedOnce'
  BY DEF ConnOwnedOnce
<1>3. PeerExclusive'
  BY DEF PeerExclusive, InUse, TypeOK, CarriedInv, Carried
<1>4. NoLostCommand'
  BY DEF NoLostCommand
<1>5. TimerHasTask'
  BY DEF TimerHasTask
<1>6. RightAnswer'
  BY DEF RightAnswer, TypeOK, CarriedInv, Carried, NoReply, None, Command
<1>7. CarriedInv'
  BY DEF CarriedInv, Carried, Decided, TypeOK, NoReply, None, Command
<1>8. QED BY <1>1, <1>2, <1>3, <1>4, <1>5, <1>6, <1>7

(* The elements of a queue of connections are connections.                 *)
LEMMA SetOfType ==
  ASSUME NEW q \in Seq(Conn)
  PROVE  SetOf(q) \subseteq Conn
BY ElementOfSeq DEF SetOf

(* So is every object in use.                                              *)
LEMMA InUseType == TypeOK => InUse \subseteq Conn
BY SetOfType DEF TypeOK, InUse

(* close_conn of a connection the server thread owns, its client gone.     *)
LEMMA CloseConnInv ==
  ASSUME IInv, NEW k \in Conn, k \in conns, CloseConn(k), ~ClientOpen(peer[k]),
         ~unread[peer[k]] \/ interest[k] = "out",
         UNCHANGED <<clientVars, unread, queueVars, efd, pending, srv, quit, mainVars, restarts>>
  PROVE  IInv'
<1> USE GuideServerAssumption DEF IInv, clientVars, queueVars, mainVars, CloseConn
<1>1. peer[k] \in Client /\ k \in InUse /\ k \notin freeConns /\ link[peer[k]] = "open"
  BY DEF TypeOK, PeerExclusive, ConnOwnedOnce, InUse
<1>2. /\ k \notin SetOf(inQueue) /\ k \notin SetOf(outQueue) /\ k \notin SetOf(frames)
      /\ k # longTask
  BY DEF ConnOwnedOnce
<1>3. InUse' = InUse
  BY <1>1 DEF InUse
<1>4. TypeOK'
  <2>1. conns' \in SUBSET Conn /\ freeConns' \in SUBSET Conn
    BY DEF TypeOK
  <2>2. link' \in [Client -> {"none", "backlog", "open", "closed"}]
    BY <1>1 DEF TypeOK
  <2>3. peer' \in [Conn -> Client \cup {NoClient}]
    BY DEF TypeOK
  <2>4. cmdOf' \in [Conn -> Command \cup {None}] /\ answer' \in [Conn -> Answer \cup {None}]
    BY DEF TypeOK
  <2>5. interest' \in [Conn -> {"none", "in", "out"}]
    BY DEF TypeOK
  <2>6. QED BY <2>1, <2>2, <2>3, <2>4, <2>5 DEF TypeOK
<1>5. ConnOwnedOnce'
  BY <1>1, <1>2 DEF ConnOwnedOnce, TypeOK
<1>6. PeerExclusive'
  <2>1. \A i, j \in Conn : peer'[i] = peer'[j] /\ peer'[i] # NoClient => i = j
    BY DEF PeerExclusive, TypeOK
  <2>2. \A i \in InUse' : peer'[i] = NoClient <=> i \in freeConns'
    BY <1>1, <1>3 DEF PeerExclusive, TypeOK, InUse
  <2>3. \A i \in Conn : peer'[i] # NoClient => link'[peer'[i]] = "open"
    <3> SUFFICES ASSUME NEW i \in Conn, peer'[i] # NoClient PROVE link'[peer'[i]] = "open"
      OBVIOUS
    <3>1. i # k /\ peer'[i] = peer[i] /\ peer[i] \in Client
      BY DEF TypeOK
    <3>2. peer[i] # peer[k] /\ link[peer[i]] = "open"
      BY <3>1, <1>1 DEF PeerExclusive
    <3>3. QED BY <3>1, <3>2, <1>1 DEF TypeOK
  <2>4. QED BY <2>1, <2>2, <2>3 DEF PeerExclusive
<1>7. NoLostCommand' /\ TimerHasTask' /\ RightAnswer'
  BY DEF NoLostCommand, TimerHasTask, RightAnswer
<1>8. CarriedInv'
  <2>1. \A i \in Conn : i # k => (Carried(i) => Carried(i)') /\ (Decided(i) => Decided(i)')
    BY DEF Carried, Decided, TypeOK
  <2>2. \A i \in Conn : interest'[i] = "out" => i # k /\ interest[i] = "out" /\ cmdOf'[i] = cmdOf[i]
    BY DEF TypeOK
  <2>3. \A i \in Conn : i # k => cmdOf'[i] = cmdOf[i]
    BY DEF TypeOK
  <2>4. SetOf(inQueue) \subseteq Conn /\ SetOf(outQueue) \subseteq Conn /\ SetOf(frames) \subseteq Conn
    BY SetOfType DEF TypeOK
  <2>5. \A c \in Client :
          /\ link'[c] = "none" => link[c] = "none"
          /\ link[c] = "none" => link'[c] = "none"
    BY <1>1 DEF TypeOK
  <2>6. QED BY <1>2, <2>1, <2>2, <2>3, <2>4, <2>5 DEF CarriedInv, TypeOK
<1>9. QED BY <1>4, <1>5, <1>6, <1>7, <1>8

(* return_conn: whatever the main thread held the connection in, it leaves *)
(* that place and joins the out queue with its answer.                     *)
LEMMA ReturnConnInv ==
  ASSUME IInv, NEW k \in Conn, NEW text \in Answer, ReturnConn(k, text),
         Carried(k), text = "ok" <=> cmdOf[k] # "dither",
         k \notin conns, k \notin freeConns, k \notin SetOf(outQueue),
         inQueue' \in Seq(Conn), Injective(inQueue'), SetOf(inQueue') \subseteq SetOf(inQueue) \ {k},
         frames' \in Seq(Conn), Injective(frames'), SetOf(frames') \subseteq SetOf(frames) \ {k},
         longTask' \in {longTask, NoConn}, longTask' # k, timer' \in BOOLEAN, TimerHasTask',
         pending' \in Nat, NoLostCommand',
         UNCHANGED <<clientVars, unread, link, connVars, efd, srv, quit, restarts>>
  PROVE  IInv'
<1> USE GuideServerAssumption DEF IInv, clientVars, connVars, ReturnConn
<1>1. /\ outQueue' \in Seq(Conn)
      /\ SetOf(outQueue') = SetOf(outQueue) \cup {k}
      /\ Injective(outQueue')
  BY PushLemma DEF TypeOK, ConnOwnedOnce
<1>2. TypeOK'
  <2>1. answer' \in [Conn -> Answer \cup {None}]
    BY DEF TypeOK
  <2>2. QED BY <1>1, <2>1 DEF TypeOK
<1>3. ConnOwnedOnce'
  <2>1. k # NoConn
    OBVIOUS
  <2>2. /\ Injective(inQueue') /\ Injective(outQueue') /\ Injective(frames')
        /\ conns' \cap freeConns' = {}
        /\ \A i \in Conn : interest'[i] # "none" <=> i \in conns'
    BY <1>1 DEF ConnOwnedOnce
  <2>3. (conns' \cup freeConns') \cap (SetOf(inQueue') \cup SetOf(outQueue') \cup SetOf(frames')) = {}
    BY <1>1 DEF ConnOwnedOnce
  <2>4. /\ SetOf(inQueue') \cap (SetOf(outQueue') \cup SetOf(frames')) = {}
        /\ SetOf(outQueue') \cap SetOf(frames') = {}
    BY <1>1 DEF ConnOwnedOnce
  <2>5. NoConn \notin conns \cup freeConns \cup SetOf(inQueue) \cup SetOf(outQueue) \cup SetOf(frames)
    BY SetOfType DEF TypeOK
  <2>6. longTask' \notin conns' \cup freeConns' \cup SetOf(inQueue') \cup SetOf(outQueue') \cup SetOf(frames')
    BY <1>1, <2>1, <2>5 DEF ConnOwnedOnce
  <2>7. QED BY <2>2, <2>3, <2>4, <2>6 DEF ConnOwnedOnce
<1>4. PeerExclusive'
  <2>1. InUse' \subseteq InUse \cup {k}
    BY <1>1 DEF InUse
  <2>2. peer[k] # NoClient
    BY DEF Carried
  <2>3. QED BY <2>1, <2>2 DEF PeerExclusive
<1>5. RightAnswer'
  BY DEF RightAnswer
<1>6. CarriedInv'
  <2>1. \A i \in Conn : Carried(i) => Carried(i)'
    BY DEF Carried
  <2>2. \A i \in Conn : i # k /\ Decided(i) => Decided(i)'
    BY DEF Decided, TypeOK
  <2>3. Carried(k)' /\ Decided(k)'
    BY <2>1 DEF Decided, TypeOK
  <2>4. SetOf(inQueue) \subseteq Conn /\ SetOf(outQueue) \subseteq Conn /\ SetOf(frames) \subseteq Conn
    BY SetOfType DEF TypeOK
  <2>5. interest[k] = "none"
    BY DEF ConnOwnedOnce
  <2>6. \A i \in Conn : interest'[i] = "out" => Carried(i)' /\ Decided(i)'
    BY <2>1, <2>2, <2>5 DEF CarriedInv
  <2>7. \A i \in SetOf(outQueue') : Carried(i)' /\ Decided(i)'
    BY <1>1, <2>1, <2>2, <2>3, <2>4 DEF CarriedInv
  <2>8. longTask' # NoConn => Carried(longTask)' /\ cmdOf'[longTask'] = "dither"
    BY <2>1 DEF CarriedInv, TypeOK, Carried
  <2>9. QED BY <2>1, <2>4, <2>6, <2>7, <2>8 DEF CarriedInv
<1>7. QED BY <1>2, <1>3, <1>4, <1>5, <1>6

(* A connection is accepted or refused.                                    *)
LEMMA AcceptInv ==
  ASSUME NEW c \in Client, IInv, Accept(c)
  PROVE  IInv'
<1> USE GuideServerAssumption DEF IInv, clientVars, queueVars, mainVars
<1>0. UNCHANGED <<clientVars, unread, queueVars, efd, pending, srv, quit, mainVars, restarts>>
      /\ link[c] = "backlog"
  BY DEF Accept
<1>1. \A i \in Conn : peer[i] # c
  BY <1>0 DEF PeerExclusive
<1>2. CASE link' = [link EXCEPT ![c] = "closed"] /\ UNCHANGED <<connVars, answer>>
  <2> USE DEF connVars
  <2>1. TypeOK'
    BY <1>0, <1>2 DEF TypeOK
  <2>2. ConnOwnedOnce' /\ NoLostCommand' /\ TimerHasTask' /\ RightAnswer'
    BY <1>0, <1>2 DEF ConnOwnedOnce, NoLostCommand, TimerHasTask, RightAnswer
  <2>3. PeerExclusive'
    BY <1>0, <1>1, <1>2 DEF PeerExclusive, InUse, TypeOK
  <2>4. CarriedInv'
    BY <1>0, <1>2 DEF CarriedInv, Carried, Decided, TypeOK
  <2>5. QED BY <2>1, <2>2, <2>3, <2>4
<1>3. ASSUME NEW k \in Recyclable,
             link' = [link EXCEPT ![c] = "open"],
             conns' = conns \cup {k},
             freeConns' = freeConns \ {k},
             peer' = [peer EXCEPT ![k] = c],
             interest' = [interest EXCEPT ![k] = "in"],
             cmdOf' = [cmdOf EXCEPT ![k] = None],
             answer' = [answer EXCEPT ![k] = None]
      PROVE  IInv'
  <2>1. k \in Conn /\ k # NoConn /\ k \notin conns
    BY <1>3 DEF Recyclable, TypeOK, ConnOwnedOnce, InUse
  <2>2. /\ k \notin SetOf(inQueue) /\ k \notin SetOf(outQueue) /\ k \notin SetOf(frames)
        /\ k # longTask
    BY <1>3, <2>1 DEF Recyclable, ConnOwnedOnce, InUse
  <2>3. TypeOK'
    <3>1. conns' \in SUBSET Conn /\ freeConns' \in SUBSET Conn
      BY <1>3, <2>1 DEF TypeOK
    <3>2. link' \in [Client -> {"none", "backlog", "open", "closed"}]
      BY <1>3 DEF TypeOK
    <3>3. peer' \in [Conn -> Client \cup {NoClient}] /\ interest' \in [Conn -> {"none", "in", "out"}]
      BY <1>3 DEF TypeOK
    <3>4. cmdOf' \in [Conn -> Command \cup {None}] /\ answer' \in [Conn -> Answer \cup {None}]
      BY <1>3 DEF TypeOK
    <3>5. QED BY <1>0, <3>1, <3>2, <3>3, <3>4 DEF TypeOK
  <2>4. ConnOwnedOnce'
    BY <1>0, <1>3, <2>1, <2>2 DEF ConnOwnedOnce, TypeOK
  <2>5. PeerExclusive'
    <3>1. \A i, j \in Conn : peer'[i] = peer'[j] /\ peer'[i] # NoClient => i = j
      BY <1>1, <1>3, <2>1 DEF PeerExclusive, TypeOK
    <3>2. InUse' \subseteq InUse \cup {k}
      BY <1>0, <1>3 DEF InUse
    <3>3. \A i \in InUse' : peer'[i] = NoClient <=> i \in freeConns'
      BY <1>3, <2>1, <3>2, InUseType DEF PeerExclusive, TypeOK
    <3>4. \A i \in Conn : peer'[i] # NoClient => link'[peer'[i]] = "open"
      BY <1>1, <1>3, <2>1 DEF PeerExclusive, TypeOK
    <3>5. QED BY <3>1, <3>3, <3>4 DEF PeerExclusive
  <2>6. NoLostCommand' /\ TimerHasTask' /\ RightAnswer'
    BY <1>0 DEF NoLostCommand, TimerHasTask, RightAnswer
  <2>7. CarriedInv'
    <3>1. \A i \in Conn : i # k => (Carried(i) => Carried(i)') /\ (Decided(i) => Decided(i)')
      BY <1>0, <1>3 DEF Carried, Decided, TypeOK
    <3>2. \A i \in Conn : interest'[i] = "out" => i # k /\ interest[i] = "out"
      BY <1>3, <2>1 DEF TypeOK
    <3>3. \A i \in Conn : i # k => cmdOf'[i] = cmdOf[i]
      BY <1>3 DEF TypeOK
    <3>4. SetOf(inQueue) \subseteq Conn /\ SetOf(outQueue) \subseteq Conn /\ SetOf(frames) \subseteq Conn
      BY SetOfType DEF TypeOK
    <3>5. \A d \in Client :
            /\ link'[d] = "none" => link[d] = "none"
            /\ link[d] = "none" => link'[d] = "none"
      BY <1>0, <1>3 DEF TypeOK
    <3>6. QED BY <1>0, <2>2, <3>1, <3>2, <3>3, <3>4, <3>5 DEF CarriedInv, TypeOK
  <2>8. QED BY <2>3, <2>4, <2>5, <2>6, <2>7
<1>4. QED BY <1>2, <1>3 DEF Accept

(* A packet or end of file is read.                                        *)
LEMMA DoReadInv ==
  ASSUME NEW k \in Conn, IInv, DoRead(k)
  PROVE  IInv'
<1> USE GuideServerAssumption DEF IInv, clientVars, mainVars
<1>0. /\ UNCHANGED <<clientVars, outQueue, efd, pending, quit, mainVars, restarts>>
      /\ srv = "run" /\ k \in conns /\ interest[k] = "in"
  BY DEF DoRead
<1>1. CASE /\ ~unread[peer[k]]
           /\ ~ClientOpen(peer[k])
           /\ CloseConn(k)
           /\ UNCHANGED <<unread, inQueue, srv>>
  BY <1>0, <1>1, CloseConnInv DEF queueVars
<1>2. CASE /\ unread[peer[k]]
           /\ unread' = [unread EXCEPT ![peer[k]] = FALSE]
           /\ cmdOf' = [cmdOf EXCEPT ![k] = request[peer[k]]]
           /\ answer' = [answer EXCEPT ![k] = None]
           /\ Detach(k)
           /\ inQueue' = Append(inQueue, k)
           /\ srv' = "emit"
           /\ UNCHANGED <<peer, freeConns, link>>
  <2> USE DEF Detach
  <2>1. /\ k \notin SetOf(inQueue) /\ k \notin SetOf(outQueue) /\ k \notin SetOf(frames)
        /\ k # longTask /\ k \notin freeConns /\ k \in InUse /\ k # NoConn
    BY <1>0 DEF ConnOwnedOnce, InUse
  <2>2. peer[k] \in Client /\ request[peer[k]] \in Command
    BY <1>2, <2>1 DEF PeerExclusive, CarriedInv, TypeOK
  <2>3. /\ inQueue' \in Seq(Conn)
        /\ SetOf(inQueue') = SetOf(inQueue) \cup {k}
        /\ Injective(inQueue')
        /\ Len(inQueue') = Len(inQueue) + 1
        /\ Len(inQueue) \in Nat
    BY <1>2, <2>1, PushLemma, AppendProperties, LenProperties DEF TypeOK, ConnOwnedOnce
  <2>4. TypeOK'
    <3>1. unread' \in [Client -> BOOLEAN]
      BY <1>2 DEF TypeOK
    <3>2. cmdOf' \in [Conn -> Command \cup {None}] /\ answer' \in [Conn -> Answer \cup {None}]
      BY <1>2, <2>2 DEF TypeOK
    <3>3. interest' \in [Conn -> {"none", "in", "out"}] /\ conns' \in SUBSET Conn
      BY <1>2 DEF TypeOK
    <3>4. QED BY <1>0, <1>2, <2>3, <3>1, <3>2, <3>3 DEF TypeOK
  <2>5. ConnOwnedOnce'
    BY <1>0, <1>2, <2>1, <2>3 DEF ConnOwnedOnce, TypeOK
  <2>6. PeerExclusive'
    <3>1. InUse' = InUse
      BY <1>0, <1>2, <2>3 DEF InUse
    <3>2. QED BY <1>2, <3>1 DEF PeerExclusive
  <2>7. NoLostCommand'
    BY <1>0, <1>2, <2>3 DEF NoLostCommand, TypeOK
  <2>8. TimerHasTask' /\ RightAnswer'
    BY <1>0 DEF TimerHasTask, RightAnswer
  <2>9. CarriedInv'
    <3>1. \A i \in Conn : i # k => (Carried(i) => Carried(i)') /\ (Decided(i) => Decided(i)')
      BY <1>0, <1>2 DEF Carried, Decided, TypeOK
    <3>2. Carried(k)'
      BY <1>0, <1>2, <2>2 DEF Carried, TypeOK
    <3>3. \A i \in Conn : interest'[i] = "out" => i # k /\ interest[i] = "out"
      BY <1>2 DEF TypeOK
    <3>4. \A i \in Conn : i # k => cmdOf'[i] = cmdOf[i]
      BY <1>2 DEF TypeOK
    <3>5. SetOf(inQueue) \subseteq Conn /\ SetOf(outQueue) \subseteq Conn /\ SetOf(frames) \subseteq Conn
      BY SetOfType DEF TypeOK
    <3>6. \A c \in Client : unread'[c] => unread[c]
      BY <1>2, <2>2 DEF TypeOK
    <3>7. \A i \in SetOf(inQueue') : Carried(i)'
      BY <2>3, <3>1, <3>2, <3>5 DEF CarriedInv
    <3>8. QED BY <1>0, <1>2, <2>1, <3>1, <3>3, <3>4, <3>5, <3>6, <3>7 DEF CarriedInv, TypeOK
  <2>10. QED BY <2>4, <2>5, <2>6, <2>7, <2>8, <2>9
<1>3. QED BY <1>1, <1>2 DEF DoRead

(* An answer is written.                                                   *)
LEMMA DoWriteInv ==
  ASSUME NEW k \in Conn, IInv, DoWrite(k)
  PROVE  IInv'
<1> USE GuideServerAssumption DEF IInv
<1>0. /\ UNCHANGED <<client, request, unread, queueVars, efd, pending, srv, quit, mainVars, restarts>>
      /\ k \in conns /\ interest[k] = "out"
  BY DEF DoWrite
<1>1. CASE ~ClientOpen(peer[k]) /\ CloseConn(k) /\ UNCHANGED reply
  BY <1>0, <1>1, CloseConnInv DEF clientVars
<1>2. CASE /\ ClientOpen(peer[k])
           /\ reply' = [reply EXCEPT ![peer[k]] = [cmd |-> cmdOf[k], text |-> answer[k]]]
           /\ interest' = [interest EXCEPT ![k] = "in"]
           /\ UNCHANGED <<conns, freeConns, link, peer, cmdOf, answer>>
  <2> USE DEF queueVars, mainVars
  <2>1. Carried(k) /\ Decided(k)
    BY <1>0 DEF CarriedInv
  <2>2. [cmd |-> cmdOf[k], text |-> answer[k]] \in Reply
    BY <2>1 DEF Carried, Decided, Reply
  <2>3. TypeOK'
    <3>1. reply' \in [Client -> Reply \cup {NoReply}]
      BY <1>2, <2>2 DEF TypeOK
    <3>2. interest' \in [Conn -> {"none", "in", "out"}]
      BY <1>2 DEF TypeOK
    <3>3. QED BY <1>0, <1>2, <3>1, <3>2 DEF TypeOK
  <2>4. ConnOwnedOnce'
    BY <1>0, <1>2 DEF ConnOwnedOnce, TypeOK
  <2>5. PeerExclusive'
    BY <1>0, <1>2 DEF PeerExclusive, InUse
  <2>6. NoLostCommand' /\ TimerHasTask'
    BY <1>0 DEF NoLostCommand, TimerHasTask
  <2>7. RightAnswer'
    <3>1. \A c \in Client : c # peer[k] => reply'[c] = reply[c]
      BY <1>2 DEF TypeOK
    <3>2. reply'[peer[k]] = [cmd |-> cmdOf[k], text |-> answer[k]]
      BY <1>2, <2>1 DEF TypeOK, Carried
    <3>3. QED BY <1>0, <2>1, <3>1, <3>2 DEF RightAnswer, Carried, Decided
  <2>8. CarriedInv'
    <3>1. \A i \in Conn : (Carried(i) => Carried(i)') /\ (Decided(i) => Decided(i)')
      BY <1>0, <1>2 DEF Carried, Decided
    <3>2. \A i \in Conn : interest'[i] = "out" => interest[i] = "out"
      BY <1>2 DEF TypeOK
    <3>3. SetOf(inQueue) \subseteq Conn /\ SetOf(outQueue) \subseteq Conn /\ SetOf(frames) \subseteq Conn
      BY SetOfType DEF TypeOK
    <3>4. \A c \in Client : reply'[c] # NoReply => request[c] \in Command
      BY <1>2, <2>1 DEF CarriedInv, Carried, TypeOK
    <3>5. QED BY <1>0, <1>2, <3>1, <3>2, <3>3, <3>4 DEF CarriedInv, TypeOK
  <2>9. QED BY <2>3, <2>4, <2>5, <2>6, <2>7, <2>8
<1>3. QED BY <1>1, <1>2 DEF DoWrite

(* The server thread drains the eventfd and serves part of the out queue.  *)
LEMMA DrainInv ==
  ASSUME IInv, Drain
  PROVE  IInv'
<1> USE GuideServerAssumption DEF IInv, clientVars, mainVars
<1> DEFINE n == DrainCount(Len(outQueue))
           batch == SetOf(SubSeq(outQueue, 1, n))
           rest == SubSeq(outQueue, n + 1, Len(outQueue))
<1>1. Len(outQueue) \in Nat /\ n \in 0..Len(outQueue)
  BY LenProperties DEF TypeOK, DrainCount
<1>2. /\ rest \in Seq(Conn)
      /\ batch \subseteq Conn
      /\ SetOf(outQueue) = batch \cup SetOf(rest)
      /\ Injective(rest)
      /\ batch \cap SetOf(rest) = {}
  BY <1>1, SplitLemma, SetOfType DEF TypeOK, ConnOwnedOnce
<1>3. /\ outQueue' = rest
      /\ conns' = conns \cup batch
      /\ interest' = [k \in Conn |-> IF k \in batch THEN "out" ELSE interest[k]]
      /\ efd' = FALSE
      /\ UNCHANGED <<clientVars, unread, link, freeConns, peer, cmdOf, inQueue,
                     answer, pending, srv, quit, mainVars, restarts>>
  BY DEF Drain
<1> HIDE DEF n, batch, rest
<1>4. TypeOK'
  <2>1. interest' \in [Conn -> {"none", "in", "out"}]
    BY <1>3 DEF TypeOK
  <2>2. conns' \in SUBSET Conn
    BY <1>2, <1>3 DEF TypeOK
  <2>3. QED BY <1>2, <1>3, <2>1, <2>2 DEF TypeOK
<1>5. ConnOwnedOnce'
  <2>1. \A k \in Conn : interest'[k] # "none" <=> k \in conns'
    BY <1>2, <1>3 DEF ConnOwnedOnce
  <2>2. QED BY <1>2, <1>3, <2>1 DEF ConnOwnedOnce
<1>6. PeerExclusive'
  <2>1. InUse' = InUse
    BY <1>2, <1>3 DEF InUse
  <2>2. QED BY <1>3, <2>1 DEF PeerExclusive
<1>7. NoLostCommand' /\ TimerHasTask' /\ RightAnswer'
  BY <1>3 DEF NoLostCommand, TimerHasTask, RightAnswer
<1>8. CarriedInv'
  <2>1. \A i \in Conn : (Carried(i) => Carried(i)') /\ (Decided(i) => Decided(i)')
    BY <1>3 DEF Carried, Decided
  <2>2. SetOf(inQueue) \subseteq Conn /\ SetOf(outQueue) \subseteq Conn /\ SetOf(frames) \subseteq Conn
    BY SetOfType DEF TypeOK
  <2>3. \A i \in Conn : interest'[i] = "out" => Carried(i) /\ Decided(i)
    BY <1>2, <1>3 DEF CarriedInv
  <2>4. QED BY <1>2, <1>3, <2>1, <2>2, <2>3 DEF CarriedInv, TypeOK
<1>9. QED BY <1>4, <1>5, <1>6, <1>7, <1>8

(* The server thread ends: what the main thread holds survives.            *)
LEMMA CleanupInv ==
  ASSUME IInv, Cleanup
  PROVE  IInv'
<1> USE GuideServerAssumption DEF IInv, clientVars, mainVars
<1> DEFINE closed == {peer[k] : k \in conns}
           deleted == conns \cup freeConns \cup SetOf(inQueue) \cup SetOf(outQueue)
<1>1. SetOf(<<>>) = {} /\ Injective(<<>>) /\ <<>> \in Seq(Conn) /\ Len(<<>>) = 0
  BY EmptySeq DEF SetOf, Injective
<1>2. /\ link' = [c \in Client |->
                    IF c \in closed \/ link[c] = "backlog" THEN "closed" ELSE link[c]]
      /\ peer' = [k \in Conn |-> IF k \in deleted THEN NoClient ELSE peer[k]]
      /\ cmdOf' = [k \in Conn |-> IF k \in deleted THEN None ELSE cmdOf[k]]
      /\ answer' = [k \in Conn |-> IF k \in deleted THEN None ELSE answer[k]]
      /\ interest' = [k \in Conn |-> IF k \in deleted THEN "none" ELSE interest[k]]
      /\ conns' = {} /\ freeConns' = {} /\ inQueue' = <<>> /\ outQueue' = <<>>
      /\ srv = "run" /\ srv' = "down" /\ efd' = FALSE
      /\ UNCHANGED <<clientVars, unread, pending, quit, mainVars, restarts>>
  BY DEF Cleanup
<1>3. deleted \subseteq Conn /\ SetOf(frames) \subseteq Conn
  BY SetOfType DEF TypeOK
<1>4. deleted \cap SetOf(frames) = {} /\ longTask \notin deleted
  BY DEF ConnOwnedOnce
<1>5. conns \subseteq deleted
  OBVIOUS
<1>6. \A i \in Conn : i \notin deleted /\ peer[i] # NoClient => peer[i] \notin closed /\ link[peer[i]] = "open"
  BY <1>5 DEF PeerExclusive, TypeOK
<1>6a. \A c \in Client : c \in closed => link[c] = "open"
  BY DEF PeerExclusive, TypeOK
<1>7. \A c \in Client : (link'[c] = "none" <=> link[c] = "none") /\ (c \notin closed /\ link[c] = "open" => link'[c] = "open")
  BY <1>2, <1>6a
<1> HIDE DEF closed, deleted
<1>8. TypeOK'
  <2>1. link' \in [Client -> {"none", "backlog", "open", "closed"}]
    BY <1>2 DEF TypeOK
  <2>2. peer' \in [Conn -> Client \cup {NoClient}] /\ interest' \in [Conn -> {"none", "in", "out"}]
    BY <1>2 DEF TypeOK
  <2>3. cmdOf' \in [Conn -> Command \cup {None}] /\ answer' \in [Conn -> Answer \cup {None}]
    BY <1>2 DEF TypeOK
  <2>4. conns' \in SUBSET Conn /\ freeConns' \in SUBSET Conn /\ inQueue' \in Seq(Conn) /\ outQueue' \in Seq(Conn)
    BY <1>1, <1>2
  <2>5. QED BY <1>2, <2>1, <2>2, <2>3, <2>4 DEF TypeOK
<1>9. ConnOwnedOnce'
  <2>1. \A k \in Conn : interest'[k] = "none"
    BY <1>2, <1>5 DEF ConnOwnedOnce
  <2>2. QED BY <1>1, <1>2, <2>1 DEF ConnOwnedOnce
<1>10. PeerExclusive'
  <2>1. InUse' \subseteq InUse /\ InUse' \cap deleted = {} /\ InUse' \subseteq Conn
    BY <1>1, <1>2, <1>3, <1>4 DEF InUse, TypeOK
  <2>2. InUse' \cap freeConns = {}
    BY <1>1, <1>2 DEF InUse, ConnOwnedOnce
  <2>3. \A i \in InUse' : peer'[i] # NoClient
    BY <1>2, <2>1, <2>2 DEF PeerExclusive
  <2>4. \A i \in Conn : peer'[i] # NoClient => i \notin deleted /\ peer'[i] = peer[i] /\ peer[i] \in Client
    BY <1>2 DEF TypeOK
  <2>5. \A i \in Conn : peer'[i] # NoClient => link'[peer'[i]] = "open"
    BY <1>6, <1>7, <2>4
  <2>6. \A i, j \in Conn : peer'[i] = peer'[j] /\ peer'[i] # NoClient => i = j
    BY <2>4 DEF PeerExclusive
  <2>7. QED BY <1>2, <2>3, <2>5, <2>6 DEF PeerExclusive
<1>11. NoLostCommand'
  BY <1>1, <1>2 DEF NoLostCommand, TypeOK
<1>12. TimerHasTask' /\ RightAnswer'
  BY <1>2 DEF TimerHasTask, RightAnswer
<1>13. CarriedInv'
  <2>1. \A i \in Conn : i \notin deleted => (Carried(i) => Carried(i)') /\ cmdOf'[i] = cmdOf[i]
    BY <1>2 DEF Carried
  <2>2. \A i \in Conn : interest'[i] # "out"
    BY <1>2, <1>5 DEF ConnOwnedOnce
  <2>3. \A i \in SetOf(frames') : Carried(i)' /\ cmdOf'[i] = "calibrate"
    BY <1>2, <1>3, <1>4, <2>1 DEF CarriedInv
  <2>4. longTask' # NoConn => Carried(longTask)' /\ cmdOf'[longTask'] = "dither"
    BY <1>2, <1>4, <2>1 DEF CarriedInv, TypeOK, Carried
  <2>5. QED BY <1>1, <1>2, <1>7, <2>2, <2>3, <2>4 DEF CarriedInv
<1>14. QED BY <1>8, <1>9, <1>10, <1>11, <1>12, <1>13

(* A command is taken and handled.                                         *)
LEMMA OnRemoteCmdInv ==
  ASSUME IInv, OnRemoteCmd
  PROVE  IInv'
<1> USE GuideServerAssumption DEF IInv
<1> DEFINE k == Head(inQueue)
<1>0. /\ pending \in Nat /\ pending' \in Nat /\ pending' = pending - 1 /\ main = "loop"
      /\ UNCHANGED <<clientVars, unread, link, connVars, efd, srv, quit, restarts>>
  BY DEF OnRemoteCmd, TypeOK
<1>1. CASE inQueue = <<>> /\ UNCHANGED <<answer, queueVars, mainVars>>
  <2> USE DEF clientVars, connVars, queueVars, mainVars
  <2>1. Len(inQueue) = 0
    BY <1>1, EmptySeq
  <2>2. NoLostCommand'
    BY <1>0, <1>1, <2>1 DEF NoLostCommand
  <2>3. TypeOK' /\ ConnOwnedOnce'
    BY <1>0, <1>1 DEF TypeOK, ConnOwnedOnce
  <2>4. PeerExclusive' /\ TimerHasTask' /\ RightAnswer'
    BY <1>0, <1>1 DEF PeerExclusive, InUse, TimerHasTask, RightAnswer
  <2>5. CarriedInv'
    BY <1>0, <1>1 DEF CarriedInv, Carried, Decided
  <2>6. QED BY <2>2, <2>3, <2>4, <2>5
<1>2. CASE inQueue # <<>> /\ inQueue' = Tail(inQueue)
  <2>1. /\ k \in Conn /\ k # NoConn
        /\ inQueue' \in Seq(Conn)
        /\ Len(inQueue') = Len(inQueue) - 1
        /\ Len(inQueue) \in Nat \ {0}
        /\ SetOf(inQueue) = {k} \cup SetOf(inQueue')
        /\ Injective(inQueue') /\ k \notin SetOf(inQueue')
    BY <1>2, PopFrontLemma DEF TypeOK, ConnOwnedOnce
  <2>2. /\ k \notin conns /\ k \notin freeConns /\ k \notin SetOf(outQueue)
        /\ k \notin SetOf(frames) /\ k # longTask
    BY <2>1 DEF ConnOwnedOnce
  <2>3. Carried(k)
    BY <2>1 DEF CarriedInv
  <2>4. NoLostCommand'
    BY <1>0, <1>2, <2>1 DEF NoLostCommand
  <2> HIDE DEF k
  <2>5. ASSUME NEW text \in Answer, ReturnConn(k, text), text = "ok" <=> cmdOf[k] # "dither",
               UNCHANGED <<frames, longTask, timer>>
        PROVE  IInv'
    <3>1. /\ frames' \in Seq(Conn) /\ Injective(frames') /\ SetOf(frames') \subseteq SetOf(frames) \ {k}
          /\ longTask' \in {longTask, NoConn} /\ longTask' # k /\ timer' \in BOOLEAN /\ TimerHasTask'
      BY <2>2, <2>5 DEF TypeOK, ConnOwnedOnce, TimerHasTask
    <3>2. SetOf(inQueue') \subseteq SetOf(inQueue) \ {k}
      BY <2>1
    <3>3. QED BY <1>0, <2>1, <2>2, <2>3, <2>4, <2>5, <3>1, <3>2, ReturnConnInv
  <2>6. CASE /\ cmdOf[k] = "calibrate"
             /\ frames' = Append(frames, k)
             /\ UNCHANGED <<answer, outQueue, main, longTask, timer>>
    <3> USE DEF clientVars, connVars
    <3>1. /\ frames' \in Seq(Conn)
          /\ SetOf(frames') = SetOf(frames) \cup {k}
          /\ Injective(frames')
      BY <2>1, <2>2, <2>6, PushLemma DEF TypeOK, ConnOwnedOnce
    <3>2. TypeOK'
      BY <1>0, <2>1, <2>6, <3>1 DEF TypeOK
    <3>3. ConnOwnedOnce'
      BY <1>0, <2>1, <2>2, <2>6, <3>1 DEF ConnOwnedOnce
    <3>4. InUse' = InUse
      BY <1>0, <2>1, <2>6, <3>1 DEF InUse
    <3>5. PeerExclusive' /\ TimerHasTask' /\ RightAnswer'
      BY <1>0, <2>6, <3>4 DEF PeerExclusive, TimerHasTask, RightAnswer
    <3>6. CarriedInv'
      BY <1>0, <2>1, <2>3, <2>6, <3>1 DEF CarriedInv, Carried, Decided
    <3>7. QED BY <2>4, <3>2, <3>3, <3>5, <3>6
  <2>7. CASE /\ cmdOf[k] = "dither" /\ longTask = NoConn
             /\ longTask' = k
             /\ timer' = TRUE
             /\ UNCHANGED <<answer, outQueue, main, frames>>
    <3> USE DEF clientVars, connVars
    <3>1. TypeOK'
      BY <1>0, <2>1, <2>7 DEF TypeOK
    <3>2. ConnOwnedOnce'
      BY <1>0, <2>1, <2>2, <2>7 DEF ConnOwnedOnce
    <3>3. InUse' = InUse
      BY <1>0, <2>1, <2>7 DEF InUse
    <3>4. PeerExclusive' /\ TimerHasTask' /\ RightAnswer'
      BY <1>0, <2>1, <2>7, <3>3 DEF PeerExclusive, TimerHasTask, RightAnswer
    <3>5. CarriedInv'
      BY <1>0, <2>1, <2>3, <2>7 DEF CarriedInv, Carried, Decided
    <3>6. QED BY <2>4, <3>1, <3>2, <3>4, <3>5
  <2>8. CASE cmdOf[k] = "quick" /\ ReturnConn(k, "ok") /\ UNCHANGED <<frames, longTask, timer>>
    BY <2>5, <2>8 DEF Answer
  <2>9. CASE /\ cmdOf[k] = "dither"
             /\ ReturnConn(k, "error") \/ ReturnConn(k, "busy")
             /\ UNCHANGED <<frames, longTask, timer>>
    BY <2>5, <2>9 DEF Answer
  <2>10. QED BY <1>2, <2>6, <2>7, <2>8, <2>9 DEF OnRemoteCmd, k
<1>3. QED BY <1>1, <1>2 DEF OnRemoteCmd, TakeConn

(* The innermost calibration ends.                                         *)
LEMMA FinishCalibrationInv ==
  ASSUME IInv, FinishCalibration
  PROVE  IInv'
<1> USE GuideServerAssumption DEF IInv
<1> DEFINE k == frames[Len(frames)]
           rest == SubSeq(frames, 1, Len(frames) - 1)
<1>1. /\ k \in Conn /\ rest \in Seq(Conn)
      /\ SetOf(frames) = SetOf(rest) \cup {k}
      /\ Injective(rest) /\ k \notin SetOf(rest)
  BY PopBackLemma DEF FinishCalibration, TypeOK, ConnOwnedOnce
<1>2. /\ ReturnConn(k, "ok") /\ main = "loop"
      /\ frames' = rest
      /\ UNCHANGED <<clientVars, unread, link, connVars, inQueue, efd, pending, srv,
                     quit, longTask, timer, restarts>>
  BY DEF FinishCalibration
<1> HIDE DEF k, rest
<1>3. /\ Carried(k) /\ cmdOf[k] = "calibrate"
      /\ k \notin conns /\ k \notin freeConns /\ k \notin SetOf(outQueue)
      /\ k \notin SetOf(inQueue) /\ k # longTask
  BY <1>1 DEF CarriedInv, ConnOwnedOnce
<1>4. /\ inQueue' \in Seq(Conn) /\ Injective(inQueue') /\ SetOf(inQueue') \subseteq SetOf(inQueue) \ {k}
      /\ pending' \in Nat /\ NoLostCommand'
  BY <1>2, <1>3 DEF TypeOK, ConnOwnedOnce, NoLostCommand
<1>5. longTask' \in {longTask, NoConn} /\ longTask' # k /\ timer' \in BOOLEAN /\ TimerHasTask'
  BY <1>2, <1>3 DEF TypeOK, TimerHasTask
<1>6. /\ frames' \in Seq(Conn) /\ Injective(frames') /\ SetOf(frames') \subseteq SetOf(frames) \ {k}
  BY <1>1, <1>2
<1>7. "ok" \in Answer
  BY DEF Answer
<1>8. QED BY <1>1, <1>2, <1>3, <1>4, <1>5, <1>6, <1>7, ReturnConnInv

(* The timer of the long task fires.                                       *)
LEMMA OnCmdTimerInv ==
  ASSUME IInv, OnCmdTimer
  PROVE  IInv'
<1> USE GuideServerAssumption DEF IInv
<1>1. /\ ReturnConn(longTask, "finished") /\ main = "loop"
      /\ longTask' = NoConn /\ timer' = FALSE /\ timer
      /\ UNCHANGED <<clientVars, unread, link, connVars, inQueue, efd, pending, srv,
                     quit, frames, restarts>>
  BY DEF OnCmdTimer
<1>2. /\ longTask \in Conn /\ longTask # NoConn
      /\ Carried(longTask) /\ cmdOf[longTask] = "dither"
      /\ longTask \notin conns /\ longTask \notin freeConns /\ longTask \notin SetOf(outQueue)
      /\ longTask \notin SetOf(inQueue) /\ longTask \notin SetOf(frames)
  BY <1>1 DEF TypeOK, ConnOwnedOnce, TimerHasTask, CarriedInv
<1>3. /\ inQueue' \in Seq(Conn) /\ Injective(inQueue')
      /\ SetOf(inQueue') \subseteq SetOf(inQueue) \ {longTask}
      /\ frames' \in Seq(Conn) /\ Injective(frames')
      /\ SetOf(frames') \subseteq SetOf(frames) \ {longTask}
      /\ pending' \in Nat /\ NoLostCommand'
  BY <1>1, <1>2 DEF TypeOK, ConnOwnedOnce, NoLostCommand
<1>4. longTask' \in {longTask, NoConn} /\ longTask' # longTask /\ timer' \in BOOLEAN /\ TimerHasTask'
  BY <1>1, <1>2 DEF TimerHasTask
<1>5. "finished" \in Answer
  BY DEF Answer
<1>6. QED BY <1>1, <1>2, <1>3, <1>4, <1>5, ReturnConnInv

-----------------------------------------------------------------------------
(* Every step preserves the invariant.                                     *)
LEMMA NextInv == IInv /\ [Next]_vars => IInv'
<1> SUFFICES ASSUME IInv, [Next]_vars PROVE IInv'
  OBVIOUS
<1>1. ASSUME NEW c \in Client, ClientStep(c) PROVE IInv'
  BY <1>1, ConnectInv, SendInv, ReceiveInv, InterruptInv DEF ClientStep
<1>2. CASE ServerStep
  BY <1>2, ServerUpInv, EmitDoCommandInv, DrainInv, CleanupInv, AcceptInv, DoReadInv, DoWriteInv
  DEF ServerStep
<1>3. CASE MainStep
  BY <1>3, OnRemoteCmdInv, FinishCalibrationInv, OnCmdTimerInv, NotifyInv, RestartBeginInv, RestartEndInv
  DEF MainStep
<1>4. CASE UNCHANGED vars
  BY <1>4 DEF vars, clientVars, connVars, queueVars, mainVars, IInv, TypeOK, ConnOwnedOnce,
              PeerExclusive, InUse, NoLostCommand, TimerHasTask, RightAnswer, CarriedInv, Carried, Decided
<1>5. QED BY <1>1, <1>2, <1>3, <1>4 DEF Next

(* Every reachable state of the command server satisfies the invariant,    *)
(* for any set of clients and any number of restarts.                      *)
THEOREM ServerInvariant == Spec => []IInv
<1>1. Init => IInv
  BY InitInv
<1>2. IInv /\ [Next]_vars => IInv'
  BY NextInv
<1>3. QED BY <1>1, <1>2, PTL DEF Spec

(* The state of the server is always well typed.                           *)
THEOREM TypeCorrect == Spec => []TypeOK
<1>1. IInv => TypeOK
  BY DEF IInv
<1>2. QED BY <1>1, ServerInvariant, PTL

(* A connection object is in one container at a time: the two threads      *)
(* never work on the same one, though it has no lock.                      *)
THEOREM OwnedOnce == Spec => []ConnOwnedOnce
<1>1. IInv => ConnOwnedOnce
  BY DEF IInv
<1>2. QED BY <1>1, ServerInvariant, PTL

(* Each client is served through one connection object, which keeps its    *)
(* socket open.                                                            *)
THEOREM OnePeer == Spec => []PeerExclusive
<1>1. IInv => PeerExclusive
  BY DEF IInv
<1>2. QED BY <1>1, ServerInvariant, PTL

(* No command waits in the in queue without a signal that will take it.    *)
THEOREM NoneLost == Spec => []NoLostCommand
<1>1. IInv => NoLostCommand
  BY DEF IInv
<1>2. QED BY <1>1, ServerInvariant, PTL

(* The assertion of onCmdTimer never fails.                                *)
THEOREM TimerSafe == Spec => []TimerHasTask
<1>1. IInv => TimerHasTask
  BY DEF IInv
<1>2. QED BY <1>1, ServerInvariant, PTL

(* Every client that is answered is answered for its own command.          *)
THEOREM Answered == Spec => []RightAnswer
<1>1. IInv => RightAnswer
  BY DEF IInv
<1>2. QED BY <1>1, ServerInvariant, PTL
-----------------------------------------------------------------------------
(* The ways of a connection object on which its client has not been        *)
(* answered: with the main thread, and back to the socket.                 *)
Unanswered(k) == ~unread[peer[k]] /\ reply[peer[k]] = NoReply
Held(k)  == k \in SetOf(inQueue) \/ k \in SetOf(frames) \/ k = longTask
Going(k) == k \in SetOf(outQueue) \/ interest[k] = "out"

(* Answers are decided once: no object carries an answer before the main   *)
(* thread has put it there, nor is the client of an object on its way      *)
(* answered already; an object that nobody uses has no client, and a       *)
(* client that has not asked yet has its object as soon as it is accepted. *)
ServiceInv ==
  /\ \A c \in Client : unread[c] \/ link[c] = "backlog" => reply[c] = NoReply
  /\ \A k \in Conn : Held(k) => answer[k] = None /\ Unanswered(k)
  /\ \A k \in Conn : Going(k) => Unanswered(k)
  /\ \A k \in conns : interest[k] = "in" /\ reply[peer[k]] = NoReply => answer[k] = None
  /\ \A k \in Conn \ InUse : peer[k] = NoClient
  /\ \A c \in Client : request[c] = None /\ link[c] = "open" => \E k \in Conn : peer[k] = c

RInv == IInv /\ ServiceInv

SStep == [Service!Next]_(Service!serviceVars)
-----------------------------------------------------------------------------
(* The mapping of a client with an object: what stands in the object,      *)
(* until it has been received.                                             *)
LEMMA DecidedOwn ==
  ASSUME PeerExclusive, NEW k \in Conn, peer[k] # NoClient
  PROVE  DecidedFor(peer[k]) = IF reply[peer[k]] # NoReply THEN reply[peer[k]].text ELSE answer[k]
<1>1. \A l \in Conn : peer[l] = peer[k] => l = k
  BY DEF PeerExclusive
<1>2. (CHOOSE l \in Conn : peer[l] = peer[k]) = k
  BY <1>1
<1>3. QED BY <1>2 DEF DecidedFor

(* The same of the next state.                                             *)
LEMMA DecidedOwnNext ==
  ASSUME PeerExclusive', NEW k \in Conn, NEW c \in Client, peer'[k] = c
  PROVE  DecidedFor(c)' = IF reply'[c] # NoReply THEN reply'[c].text ELSE answer'[k]
<1>1. \A l \in Conn : peer'[l] = c => l = k
  BY GuideServerAssumption DEF PeerExclusive
<1>2. (CHOOSE l \in Conn : peer'[l] = c) = k
  BY <1>1
<1>3. QED BY <1>2 DEF DecidedFor

(* A client without an object.                                             *)
LEMMA DecidedNone ==
  ASSUME NEW c \in Client, \A k \in Conn : peer[k] # c
  PROVE  DecidedFor(c) = IF reply[c] # NoReply THEN reply[c].text
                         ELSE IF request[c] # None /\ link[c] # "backlog" THEN "lost" ELSE None
BY DEF DecidedFor

(* The same of the next state.                                             *)
LEMMA DecidedNoneNext ==
  ASSUME NEW c \in Client, \A k \in Conn : peer'[k] # c
  PROVE  DecidedFor(c)' = IF reply'[c] # NoReply THEN reply'[c].text
                          ELSE IF request'[c] # None /\ link'[c] # "backlog" THEN "lost" ELSE None
BY DEF DecidedFor

(* What a step leaves alone, in the mapping too.                           *)
LEMMA DecidedSame ==
  ASSUME UNCHANGED <<reply, peer, answer, request, link>>
  PROVE  decidedBar' = decidedBar
BY DEF decidedBar, DecidedFor

(* A client that has not written has neither asked nor been answered.      *)
LEMMA Unasked ==
  ASSUME RInv, NEW c \in Client, client[c] \in {"new", "connected"}
  PROVE  request[c] = None /\ reply[c] = NoReply /\ ~unread[c]
BY DEF RInv, IInv, CarriedInv, RightAnswer, TypeOK, Reply, NoReply, None, Command
-----------------------------------------------------------------------------
(* The clients.                                                            *)

(* A connection in the backlog is nothing to the service yet.              *)
LEMMA ConnectRef ==
  ASSUME NEW c \in Client, RInv, IInv', Connect(c)
  PROVE  ServiceInv' /\ SStep
<1> USE GuideServerAssumption DEF clientVars, connVars, queueVars, mainVars
<1>1. /\ request[c] = None /\ reply[c] = NoReply /\ ~unread[c]
      /\ link[c] = "none"
  BY Unasked DEF Connect, RInv, IInv, CarriedInv
<1>2. /\ UNCHANGED <<request, reply, unread, conns, freeConns, peer, cmdOf, interest, inQueue,
                     outQueue, answer, frames, longTask>>
      /\ link' = link \/ link' = [link EXCEPT ![c] = "backlog"]
  BY DEF Connect
<1>3. ServiceInv'
  <2>1. \A d \in Client : link'[d] = link[d] \/ (d = c /\ link'[d] = "backlog")
    BY <1>2 DEF RInv, IInv, TypeOK
  <2>2. QED BY <1>1, <1>2, <2>1 DEF ServiceInv, RInv, Held, Going, Unanswered, InUse
<1>4. decidedBar' = decidedBar
  <2>1. \A k \in Conn : peer[k] # c
    BY <1>1 DEF RInv, IInv, PeerExclusive
  <2>2. DecidedFor(c)' = DecidedFor(c)
    BY <1>1, <1>2, <2>1, DecidedNone, DecidedNoneNext
  <2>3. \A d \in Client : d # c => link'[d] = link[d]
    BY <1>2 DEF RInv, IInv, TypeOK
  <2>4. \A d \in Client : d # c => DecidedFor(d)' = DecidedFor(d)
    BY <1>2, <2>3 DEF DecidedFor
  <2>5. QED BY <2>2, <2>4 DEF decidedBar
<1>5. SStep
  BY <1>2, <1>4 DEF SStep, Service!serviceVars, holderBar
<1>6. QED BY <1>3, <1>5

(* The client's command is what it asks of the service.                    *)
LEMMA SendRef ==
  ASSUME NEW c \in Client, NEW cmd \in Command, RInv, IInv', Send(c, cmd)
  PROVE  ServiceInv' /\ SStep
<1> USE GuideServerAssumption DEF clientVars, connVars, queueVars, mainVars
<1>1. request[c] = None /\ reply[c] = NoReply /\ ~unread[c] /\ client[c] = "connected"
  BY Unasked DEF Send
<1>2. UNCHANGED <<reply, link, conns, freeConns, peer, cmdOf, interest, inQueue, outQueue, answer,
                  frames, longTask>>
  BY DEF Send
<1>3. CASE UNCHANGED <<request, unread>>
  <2>1. ServiceInv'
    BY <1>2, <1>3 DEF ServiceInv, RInv, Held, Going, Unanswered, InUse
  <2>2. SStep
    BY <1>2, <1>3, DecidedSame DEF SStep, Service!serviceVars, holderBar
  <2>3. QED BY <2>1, <2>2
<1>4. CASE /\ link[c] # "closed"
           /\ request' = [request EXCEPT ![c] = cmd]
           /\ unread' = [unread EXCEPT ![c] = TRUE]
  <2>1. \A k \in Conn : Held(k) \/ Going(k) => peer[k] # c
    <3>1. \A k \in Conn : Held(k) \/ Going(k) => request[peer[k]] \in Command
      BY DEF RInv, IInv, CarriedInv, Carried, Held, Going
    <3>2. QED BY <1>1, <3>1 DEF Command, None
  <2>2. ServiceInv'
    <3>1. \A k \in Conn : Held(k)' = Held(k) /\ Going(k)' = Going(k)
      BY <1>2 DEF Held, Going
    <3>2. \A d \in Client : d # c => unread'[d] = unread[d] /\ request'[d] = request[d]
      BY <1>4 DEF RInv, IInv, TypeOK
    <3>3. request'[c] # None
      BY <1>4 DEF RInv, IInv, TypeOK, Command, None
    <3>4. \A k \in Conn : Held(k) \/ Going(k) => Unanswered(k)'
      <4> SUFFICES ASSUME NEW k \in Conn, Held(k) \/ Going(k) PROVE Unanswered(k)'
        OBVIOUS
      <4>1. peer[k] \in Client /\ Unanswered(k)
        BY DEF RInv, ServiceInv, IInv, CarriedInv, Carried, Held, Going
      <4>2. QED BY <1>2, <2>1, <3>2, <4>1 DEF Unanswered
    <3>5. QED BY <1>1, <1>2, <3>1, <3>2, <3>3, <3>4 DEF ServiceInv, RInv, InUse
  <2>3. decidedBar' = decidedBar
    <3>1. DecidedFor(c)' = DecidedFor(c)
      <4>1. CASE link[c] = "open"
        <5>1. PICK k \in Conn : peer[k] = c
          BY <1>1, <4>1 DEF RInv, ServiceInv
        <5>2. QED BY <1>2, <5>1, DecidedOwn, DecidedOwnNext DEF RInv, IInv
      <4>2. CASE link[c] = "backlog"
        <5>1. \A k \in Conn : peer[k] # c
          BY <4>2 DEF RInv, IInv, PeerExclusive
        <5>2. QED BY <1>1, <1>2, <4>2, <5>1, DecidedNone, DecidedNoneNext
      <4>3. link[c] # "none"
        BY <1>1 DEF RInv, IInv, CarriedInv
      <4>4. QED BY <1>4, <4>1, <4>2, <4>3 DEF RInv, IInv, TypeOK
    <3>2. \A d \in Client : d # c => request'[d] = request[d]
      BY <1>4 DEF RInv, IInv, TypeOK
    <3>3. \A d \in Client : d # c => DecidedFor(d)' = DecidedFor(d)
      BY <1>2, <3>2 DEF DecidedFor
    <3>4. QED BY <3>1, <3>3 DEF decidedBar
  <2>4. Service!Ask(c, cmd)
    BY <1>1, <1>2, <1>4, <2>3 DEF Service!Ask, Service!None, None, holderBar
  <2>5. QED BY <2>2, <2>4 DEF SStep, Service!Next, Service!Command, Command
<1>5. QED BY <1>3, <1>4 DEF Send

(* Steps that touch nothing the mapping looks at.                          *)
LEMMA QuietRef ==
  ASSUME RInv, UNCHANGED <<request, reply, unread, link, conns, freeConns, peer, cmdOf, interest,
                           inQueue, outQueue, answer, frames, longTask>>
  PROVE  ServiceInv' /\ SStep
<1>1. ServiceInv'
  BY DEF ServiceInv, RInv, Held, Going, Unanswered, InUse
<1>2. SStep
  BY DecidedSame DEF SStep, Service!serviceVars, holderBar
<1>3. QED BY <1>1, <1>2
-----------------------------------------------------------------------------
(* The server thread.                                                      *)

(* What a dither holds: an object of a client whose socket is open.        *)
LEMMA HolderOpen ==
  ASSUME RInv, longTask # NoConn
  PROVE  /\ longTask \in Conn /\ peer[longTask] \in Client /\ holderBar = peer[longTask]
         /\ link[peer[longTask]] = "open" /\ request[peer[longTask]] = "dither"
<1>1. longTask \in Conn /\ peer[longTask] \in Client /\ request[peer[longTask]] = "dither"
  BY DEF RInv, IInv, CarriedInv, Carried, TypeOK
<1>2. peer[longTask] # NoClient
  BY <1>1, GuideServerAssumption
<1>3. QED BY <1>1, <1>2 DEF RInv, IInv, PeerExclusive, holderBar

(* Answers that get lost.                                                  *)
LEMMA LoseStep ==
  ASSUME NEW S \in SUBSET Client, Service!Lose(S)
  PROVE  SStep
<1>1. Service!Next
  BY DEF Service!Next
<1>2. QED BY <1>1 DEF SStep

(* accept() gives the client an object, or with m_conns full no answer ever.*)
LEMMA AcceptRef ==
  ASSUME NEW c \in Client, RInv, IInv', Accept(c)
  PROVE  ServiceInv' /\ SStep
<1> USE GuideServerAssumption DEF clientVars, connVars, queueVars, mainVars
<1>1. /\ link[c] = "backlog" /\ reply[c] = NoReply
      /\ \A k \in Conn : peer[k] # c
      /\ UNCHANGED <<request, reply, unread, inQueue, outQueue, frames, longTask>>
  BY DEF Accept, RInv, ServiceInv, IInv, PeerExclusive
<1>2. \A d \in Client : d # c => link'[d] = link[d]
  BY DEF Accept, RInv, IInv, TypeOK
<1>3. CASE link' = [link EXCEPT ![c] = "closed"] /\ UNCHANGED <<connVars, answer>>
  <2>1. link'[c] = "closed"
    BY <1>3 DEF RInv, IInv, TypeOK
  <2>2. ServiceInv'
    BY <1>1, <1>2, <1>3, <2>1 DEF ServiceInv, RInv, Held, Going, Unanswered, InUse
  <2>3. \A d \in Client : d # c => DecidedFor(d)' = DecidedFor(d)
    BY <1>1, <1>2, <1>3 DEF DecidedFor
  <2>4. DecidedFor(c) = None /\ DecidedFor(c)' = IF request[c] # None THEN "lost" ELSE None
    BY <1>1, <1>3, <2>1, DecidedNone, DecidedNoneNext
  <2>5. UNCHANGED <<request, reply, holderBar>>
    BY <1>1, <1>3 DEF holderBar
  <2>6. CASE request[c] = None
    <3>1. decidedBar' = decidedBar
      BY <2>3, <2>4, <2>6 DEF decidedBar
    <3>2. QED BY <2>2, <2>5, <3>1 DEF SStep, Service!serviceVars
  <2>7. CASE request[c] # None
    <3>1. c # holderBar
      <4>1. CASE longTask = NoConn
        BY <4>1 DEF holderBar
      <4>2. CASE longTask # NoConn
        BY <4>2, <1>1, HolderOpen
      <4>3. QED BY <4>1, <4>2
    <3>2. decidedBar' = [d \in Client |-> IF d \in {c} THEN "lost" ELSE decidedBar[d]]
      BY <2>3, <2>4, <2>7 DEF decidedBar
    <3>3. Service!Lose({c})
      BY <3>1, <3>2, <2>5, <2>7, <1>1 DEF Service!Lose, Service!None, Service!NoReply, Service!Lost, None, NoReply
    <3>4. {c} \in SUBSET Client
      OBVIOUS
    <3>5. QED BY <2>2, <3>3, <3>4, LoseStep
  <2>8. QED BY <2>2, <2>6, <2>7
<1>4. CASE link' = [link EXCEPT ![c] = "open"] 
           /\ \E k \in Recyclable :
             /\ conns' = conns \cup {k}
             /\ freeConns' = freeConns \ {k}
             /\ peer' = [peer EXCEPT ![k] = c]
             /\ interest' = [interest EXCEPT ![k] = "in"]
             /\ cmdOf' = [cmdOf EXCEPT ![k] = None]
             /\ answer' = [answer EXCEPT ![k] = None]
  <2>1. PICK k \in Recyclable :
             /\ conns' = conns \cup {k}
             /\ freeConns' = freeConns \ {k}
             /\ peer' = [peer EXCEPT ![k] = c]
             /\ interest' = [interest EXCEPT ![k] = "in"]
             /\ cmdOf' = [cmdOf EXCEPT ![k] = None]
             /\ answer' = [answer EXCEPT ![k] = None]
    BY <1>4
  <2>2. k \in Conn /\ peer[k] = NoClient /\ ~Held(k) /\ ~Going(k) /\ k \notin conns
    <3>1. CASE k \in freeConns
      BY <3>1 DEF RInv, IInv, TypeOK, PeerExclusive, ConnOwnedOnce, InUse, Held, Going
    <3>2. CASE k \in Conn \ InUse
      BY <3>2 DEF RInv, IInv, TypeOK, ServiceInv, ConnOwnedOnce, InUse, Held, Going
    <3>3. QED BY <2>1, <3>1, <3>2 DEF Recyclable
  <2>3. /\ peer'[k] = c /\ answer'[k] = None /\ interest'[k] = "in"
        /\ \A l \in Conn : l # k => /\ peer'[l] = peer[l] /\ answer'[l] = answer[l]
                                    /\ interest'[l] = interest[l]
    BY <2>1, <2>2 DEF RInv, IInv, TypeOK
  <2>4. link'[c] = "open"
    BY <1>4 DEF RInv, IInv, TypeOK
  <2>5. ServiceInv'
    <3>1. \A l \in Conn : (Held(l)' <=> Held(l)) /\ (l # k => (Going(l)' <=> Going(l))) /\ ~Going(k)'
      BY <1>1, <2>1, <2>2, <2>3 DEF Held, Going
    <3>2. \A d \in Client : unread'[d] \/ link'[d] = "backlog" => reply'[d] = NoReply
      BY <1>1, <1>2, <2>4 DEF RInv, ServiceInv
    <3>3. \A l \in Conn : Held(l)' \/ Going(l)' => l # k /\ (Unanswered(l)' <=> Unanswered(l))
      BY <1>1, <2>2, <2>3, <3>1 DEF Unanswered
    <3>4. /\ \A l \in Conn : Held(l)' => answer'[l] = None /\ Unanswered(l)'
          /\ \A l \in Conn : Going(l)' => Unanswered(l)'
      BY <2>3, <3>1, <3>3 DEF RInv, ServiceInv
    <3>5. \A l \in conns' : interest'[l] = "in" /\ reply'[peer'[l]] = NoReply => answer'[l] = None
      BY <1>1, <2>1, <2>3 DEF RInv, ServiceInv, IInv, TypeOK
    <3>6. \A l \in Conn \ InUse' : peer'[l] = NoClient
      BY <1>1, <2>1, <2>3 DEF RInv, ServiceInv, InUse
    <3>7. \A d \in Client : request'[d] = None /\ link'[d] = "open" => \E l \in Conn : peer'[l] = d
      BY <1>1, <1>2, <2>2, <2>3 DEF RInv, ServiceInv
    <3>8. QED BY <3>2, <3>4, <3>5, <3>6, <3>7 DEF ServiceInv
  <2>6. \A d \in Client : DecidedFor(d)' = DecidedFor(d)
    <3>1. DecidedFor(c)' = None
      BY <1>1, <2>2, <2>3, DecidedOwnNext DEF IInv
    <3>2. DecidedFor(c) = None
      BY <1>1, DecidedNone
    <3>3. ASSUME NEW d \in Client, d # c PROVE DecidedFor(d)' = DecidedFor(d)
      <4>1. CASE \E l \in Conn : peer[l] = d
        <5>1. PICK l \in Conn : peer[l] = d
          BY <4>1
        <5>2. l # k /\ peer'[l] = d /\ answer'[l] = answer[l]
          BY <2>2, <2>3, <5>1
        <5>3. QED BY <1>1, <5>1, <5>2, DecidedOwn, DecidedOwnNext DEF RInv, IInv
      <4>2. CASE \A l \in Conn : peer[l] # d
        <5>1. \A l \in Conn : peer'[l] # d
          BY <2>3, <3>3, <4>2
        <5>2. QED BY <1>1, <1>2, <3>3, <4>2, <5>1, DecidedNone, DecidedNoneNext
      <4>3. QED BY <4>1, <4>2
    <3>4. QED BY <3>1, <3>2, <3>3
  <2>7. UNCHANGED holderBar
    <3>1. longTask \in Conn => longTask # k
      BY <2>2 DEF Held
    <3>2. QED BY <1>1, <2>3, <3>1 DEF holderBar, RInv, IInv, TypeOK
  <2>8. SStep
    <3>1. decidedBar' = decidedBar
      BY <2>6 DEF decidedBar
    <3>2. QED BY <1>1, <2>7, <3>1 DEF SStep, Service!serviceVars
  <2>9. QED BY <2>5, <2>8
<1>5. QED BY <1>3, <1>4 DEF Accept

(* close_conn of an object whose client has hung up: an answer that stands *)
(* in it is lost, and none is if there was nothing to answer.              *)
LEMMA CloseConnRef ==
  ASSUME NEW k \in conns, RInv, IInv', CloseConn(k), ~unread[peer[k]],
         UNCHANGED <<request, reply, unread, inQueue, outQueue, frames, longTask>>
  PROVE  ServiceInv' /\ SStep
<1> USE GuideServerAssumption
<1>0. PICK c \in Client : peer[k] = c
  BY DEF RInv, IInv, TypeOK, PeerExclusive, ConnOwnedOnce, InUse
<1>1. /\ k \in Conn /\ link[c] = "open"
      /\ ~Held(k) /\ k \notin SetOf(outQueue) /\ k \notin freeConns
  BY <1>0 DEF RInv, IInv, TypeOK, PeerExclusive, ConnOwnedOnce, InUse, Held
<1>2. /\ conns' = conns \ {k} /\ freeConns' = freeConns \cup {k}
      /\ link'[c] = "closed" /\ peer'[k] = NoClient /\ answer'[k] = None /\ interest'[k] = "none"
      /\ \A d \in Client : d # c => link'[d] = link[d]
      /\ \A l \in Conn : l # k => /\ peer'[l] = peer[l] /\ answer'[l] = answer[l]
                                  /\ interest'[l] = interest[l]
  BY <1>0, <1>1 DEF CloseConn, RInv, IInv, TypeOK
<1>3. \A l \in Conn : peer'[l] # c
  BY <1>1, <1>2, <1>0 DEF RInv, IInv, PeerExclusive
<1>4. ServiceInv'
  <2>1. \A l \in Conn : (Held(l)' <=> Held(l)) /\ (Going(l)' => Going(l) /\ l # k)
    BY <1>1, <1>2 DEF Held, Going
  <2>2. \A l \in Conn : l # k => (Unanswered(l)' <=> Unanswered(l))
    BY <1>2 DEF Unanswered
  <2>3. \A d \in Client : unread'[d] \/ link'[d] = "backlog" => reply'[d] = NoReply
    BY <1>2 DEF RInv, ServiceInv
  <2>4. /\ \A l \in Conn : Held(l)' => answer'[l] = None /\ Unanswered(l)'
        /\ \A l \in Conn : Going(l)' => Unanswered(l)'
    BY <1>1, <1>2, <2>1, <2>2 DEF RInv, ServiceInv
  <2>5. \A l \in conns' : interest'[l] = "in" /\ reply'[peer'[l]] = NoReply => answer'[l] = None
    BY <1>2 DEF RInv, ServiceInv, IInv, TypeOK
  <2>6. \A l \in Conn \ InUse' : peer'[l] = NoClient
    BY <1>2 DEF RInv, ServiceInv, InUse
  <2>7. \A d \in Client : request'[d] = None /\ link'[d] = "open" => \E l \in Conn : peer'[l] = d
    <3> SUFFICES ASSUME NEW d \in Client, request[d] = None, link'[d] = "open"
                 PROVE \E l \in Conn : peer'[l] = d
      OBVIOUS
    <3>1. d # c /\ link[d] = "open"
      BY <1>2
    <3>2. PICK l \in Conn : peer[l] = d
      BY <3>1 DEF RInv, ServiceInv
    <3>3. l # k
      BY <3>1, <3>2, <1>0
    <3>4. QED BY <1>2, <3>2, <3>3
  <2>8. QED BY <2>3, <2>4, <2>5, <2>6, <2>7 DEF ServiceInv
<1>5. \A d \in Client : d # c => DecidedFor(d)' = DecidedFor(d)
  <2> SUFFICES ASSUME NEW d \in Client, d # c PROVE DecidedFor(d)' = DecidedFor(d)
    OBVIOUS
  <2>1. CASE \E l \in Conn : peer[l] = d
    <3>1. PICK l \in Conn : peer[l] = d
      BY <2>1
    <3>2. l # k /\ peer'[l] = d /\ answer'[l] = answer[l]
      BY <1>2, <3>1, <1>0
    <3>3. QED BY <3>1, <3>2, DecidedOwn, DecidedOwnNext DEF RInv, IInv
  <2>2. CASE \A l \in Conn : peer[l] # d
    <3>1. \A l \in Conn : peer'[l] # d
      BY <1>2, <2>2
    <3>2. QED BY <1>2, <2>2, <3>1, DecidedNone, DecidedNoneNext
  <2>3. QED BY <2>1, <2>2
<1>6. /\ DecidedFor(c) = IF reply[c] # NoReply THEN reply[c].text ELSE answer[k]
      /\ DecidedFor(c)' = IF reply[c] # NoReply THEN reply[c].text
                          ELSE IF request[c] # None THEN "lost" ELSE None
  BY <1>1, <1>2, <1>3, DecidedOwn, DecidedNoneNext, <1>0 DEF RInv, IInv
<1>7. UNCHANGED <<request, reply, holderBar>>
  BY <1>1, <1>2 DEF holderBar, Held, RInv, IInv, TypeOK
<1>8. CASE reply[c] # NoReply \/ request[c] = None
  <2>1. reply[c] = NoReply => answer[k] = None
    <3>1. request[c] = None => interest[k] # "out"
      BY <1>1, <1>0 DEF RInv, IInv, CarriedInv, Carried, Command, None
    <3>2. interest[k] = "in" \/ interest[k] = "out"
      BY <1>1 DEF RInv, IInv, TypeOK, ConnOwnedOnce
    <3>3. QED BY <1>8, <3>1, <3>2, <1>0 DEF RInv, ServiceInv
  <2>2. DecidedFor(c)' = DecidedFor(c)
    BY <1>6, <1>8, <2>1
  <2>3. decidedBar' = decidedBar
    BY <1>5, <2>2 DEF decidedBar
  <2>4. QED BY <1>4, <1>7, <2>3 DEF SStep, Service!serviceVars
<1>9. CASE reply[c] = NoReply /\ request[c] # None
  <2>1. c # holderBar
    <3>1. CASE longTask = NoConn
      BY <1>1, <3>1 DEF holderBar
    <3>2. CASE longTask # NoConn
      <4>1. longTask \in Conn /\ peer[longTask] \in Client /\ holderBar = peer[longTask] /\ longTask # k
        BY <3>2, <1>1, HolderOpen DEF Held
      <4>2. QED BY <4>1, <1>1, <1>0 DEF RInv, IInv, PeerExclusive
    <3>3. QED BY <3>1, <3>2
  <2>2. decidedBar' = [d \in Client |-> IF d \in {c} THEN "lost" ELSE decidedBar[d]]
    BY <1>5, <1>6, <1>9 DEF decidedBar
  <2>3. Service!Lose({c})
    BY <1>7, <1>9, <2>1, <2>2
    DEF Service!Lose, Service!None, Service!NoReply, Service!Lost, None, NoReply
  <2>4. {c} \in SUBSET Client
    BY <1>1
  <2>5. QED BY <1>4, <2>3, <2>4, LoseStep
<1>10. QED BY <1>8, <1>9

(* A command read is not yet answered; a client that hung up loses.        *)
LEMMA DoReadRef ==
  ASSUME NEW k \in Conn, RInv, IInv', DoRead(k)
  PROVE  ServiceInv' /\ SStep
<1> USE GuideServerAssumption DEF clientVars, connVars, queueVars, mainVars
<1>1. /\ k \in conns /\ interest[k] = "in"
      /\ UNCHANGED <<request, reply, outQueue, frames, longTask>>
  BY DEF DoRead
<1>2. CASE /\ ~unread[peer[k]]
           /\ CloseConn(k)
           /\ UNCHANGED <<unread, inQueue, srv>>
  BY <1>1, <1>2, CloseConnRef
<1>3. CASE /\ unread[peer[k]]
           /\ unread' = [unread EXCEPT ![peer[k]] = FALSE]
           /\ answer' = [answer EXCEPT ![k] = None]
           /\ Detach(k)
           /\ inQueue' = Append(inQueue, k)
           /\ UNCHANGED <<peer, freeConns, link>>
  <2> DEFINE c == peer[k]
  <2>1. c \in Client /\ reply[c] = NoReply /\ answer[k] = None
    BY <1>1, <1>3 DEF RInv, IInv, ServiceInv, PeerExclusive, TypeOK, InUse, ConnOwnedOnce
  <2>2. /\ UNCHANGED answer
        /\ ~unread'[c] /\ \A d \in Client : d # c => unread'[d] = unread[d]
        /\ interest'[k] = "none" /\ \A l \in Conn : l # k => interest'[l] = interest[l]
        /\ conns' = conns \ {k}
        /\ SetOf(inQueue') = SetOf(inQueue) \cup {k}
    BY <1>3, <2>1, PushLemma DEF Detach, RInv, IInv, TypeOK
  <2> HIDE DEF c
  <2>3. ServiceInv'
    <3>1. \A l \in Conn : (Held(l)' <=> Held(l) \/ l = k) /\ (Going(l)' => Going(l))
      BY <1>1, <2>2 DEF Held, Going
    <3>2. \A l \in Conn : peer[l] \in Client /\ Unanswered(l) => Unanswered(l)'
      BY <1>1, <1>3, <2>2 DEF Unanswered
    <3>3. \A l \in Conn : Held(l) \/ Going(l) => peer[l] \in Client
      BY DEF RInv, IInv, CarriedInv, Carried, Held, Going
    <3>4. Unanswered(k)'
      BY <1>1, <1>3, <2>1, <2>2 DEF Unanswered, c
    <3>5. /\ \A l \in Conn : Held(l)' => answer'[l] = None /\ Unanswered(l)'
          /\ \A l \in Conn : Going(l)' => Unanswered(l)'
      BY <2>1, <2>2, <3>1, <3>2, <3>3, <3>4 DEF RInv, ServiceInv
    <3>6. \A d \in Client : unread'[d] \/ link'[d] = "backlog" => reply'[d] = NoReply
      BY <1>1, <1>3, <2>1, <2>2 DEF RInv, ServiceInv
    <3>7. \A l \in conns' : interest'[l] = "in" /\ reply'[peer'[l]] = NoReply => answer'[l] = None
      BY <1>1, <1>3, <2>2 DEF RInv, ServiceInv, IInv, TypeOK
    <3>8. \A l \in Conn \ InUse' : peer'[l] = NoClient
      BY <1>1, <1>3, <2>2 DEF RInv, ServiceInv, InUse
    <3>9. \A d \in Client : request'[d] = None /\ link'[d] = "open" => \E l \in Conn : peer'[l] = d
      BY <1>1, <1>3 DEF RInv, ServiceInv
    <3>10. QED BY <3>5, <3>6, <3>7, <3>8, <3>9 DEF ServiceInv
  <2>4. SStep
    BY <1>1, <1>3, <2>2, DecidedSame DEF SStep, Service!serviceVars, holderBar
  <2>5. QED BY <2>3, <2>4
<1>4. QED BY <1>2, <1>3 DEF DoRead

(* The answer that stands in the object is delivered, once.                *)
LEMMA DoWriteRef ==
  ASSUME NEW k \in Conn, RInv, IInv', DoWrite(k)
  PROVE  ServiceInv' /\ SStep
<1> USE GuideServerAssumption DEF clientVars, connVars, queueVars, mainVars
<1>1. /\ k \in conns /\ interest[k] = "out"
      /\ UNCHANGED <<request, unread, inQueue, outQueue, frames, longTask>>
  BY DEF DoWrite
<1>2. /\ Carried(k) /\ Decided(k) /\ Unanswered(k)
      /\ ~Held(k) /\ k \notin SetOf(outQueue)
  BY <1>1 DEF RInv, IInv, ServiceInv, CarriedInv, Going, Held, ConnOwnedOnce
<1>3. CASE CloseConn(k) /\ UNCHANGED reply
  BY <1>1, <1>2, <1>3, CloseConnRef DEF Unanswered
<1>4. CASE /\ reply' = [reply EXCEPT ![peer[k]] = [cmd |-> cmdOf[k], text |-> answer[k]]]
           /\ interest' = [interest EXCEPT ![k] = "in"]
           /\ UNCHANGED <<conns, freeConns, link, peer, cmdOf, answer>>
  <2>0. PICK c \in Client : peer[k] = c
    BY <1>2 DEF Carried
  <2>1. /\ cmdOf[k] = request[c] /\ answer[k] \in Answer /\ cmdOf[k] \in Command
        /\ ~unread[c] /\ reply[c] = NoReply /\ link[c] = "open"
    BY <1>2, <2>0 DEF Carried, Decided, Unanswered, RInv, IInv, PeerExclusive
  <2>2. /\ reply'[c] = [cmd |-> request[c], text |-> answer[k]]
        /\ \A d \in Client : d # c => reply'[d] = reply[d]
        /\ interest'[k] = "in" /\ \A l \in Conn : l # k => interest'[l] = interest[l]
    BY <1>4, <2>0, <2>1 DEF RInv, IInv, TypeOK
  <2>3. reply'[c] # NoReply
    BY <2>1, <2>2 DEF NoReply, None, Command
  <2>4. \A l \in Conn : l # k => peer[l] # c
    BY <2>0, <2>1, <1>1 DEF RInv, IInv, PeerExclusive
  <2>5. ServiceInv'
    <3>1. \A l \in Conn : (Held(l)' <=> Held(l)) /\ (Going(l)' => Going(l) /\ l # k)
      BY <1>1, <1>2, <2>2 DEF Held, Going
    <3>2. \A l \in Conn : Held(l) \/ Going(l) => peer[l] \in Client
      BY DEF RInv, IInv, CarriedInv, Carried, Held, Going
    <3>3. \A l \in Conn : l # k /\ (Held(l) \/ Going(l)) => (Unanswered(l)' <=> Unanswered(l))
      BY <1>1, <1>4, <2>2, <2>4, <3>2 DEF Unanswered
    <3>4. /\ \A l \in Conn : Held(l)' => answer'[l] = None /\ Unanswered(l)'
          /\ \A l \in Conn : Going(l)' => Unanswered(l)'
      BY <1>2, <1>4, <3>1, <3>3 DEF RInv, ServiceInv
    <3>5. \A d \in Client : unread'[d] \/ link'[d] = "backlog" => reply'[d] = NoReply
      BY <1>1, <1>4, <2>1, <2>2 DEF RInv, ServiceInv
    <3>6. \A l \in conns' : interest'[l] = "in" /\ reply'[peer'[l]] = NoReply => answer'[l] = None
      <4> SUFFICES ASSUME NEW l \in conns, interest'[l] = "in", reply'[peer[l]] = NoReply
                   PROVE answer[l] = None
        BY <1>4
      <4>1. l # k /\ l \in Conn
        BY <2>3, <2>0 DEF RInv, IInv, TypeOK
      <4>2. peer[l] \in Client /\ peer[l] # c
        BY <4>1, <2>4 DEF RInv, IInv, TypeOK, PeerExclusive, InUse, ConnOwnedOnce
      <4>3. QED BY <4>1, <4>2, <2>2 DEF RInv, ServiceInv
    <3>7. \A l \in Conn \ InUse' : peer'[l] = NoClient
      BY <1>1, <1>4 DEF RInv, ServiceInv, InUse
    <3>8. \A d \in Client : request'[d] = None /\ link'[d] = "open" => \E l \in Conn : peer'[l] = d
      BY <1>1, <1>4 DEF RInv, ServiceInv
    <3>9. QED BY <3>4, <3>5, <3>6, <3>7, <3>8 DEF ServiceInv
  <2>6. decidedBar' = decidedBar
    <3>1. DecidedFor(c)' = DecidedFor(c)
      <4>1. DecidedFor(c) = answer[k]
        BY <2>1, DecidedOwn, <2>0 DEF RInv, IInv
      <4>2. DecidedFor(c)' = reply'[c].text
        BY <1>4, <2>1, <2>3, DecidedOwnNext, <2>0 DEF IInv
      <4>3. QED BY <2>2, <4>1, <4>2
    <3>2. \A d \in Client : d # c => DecidedFor(d)' = DecidedFor(d)
      BY <1>1, <1>4, <2>2 DEF DecidedFor
    <3>3. QED BY <3>1, <3>2 DEF decidedBar
  <2>7. decidedBar[c] = answer[k]
    BY <2>1, DecidedOwn, <2>0 DEF decidedBar, RInv, IInv
  <2>8. reply' = [reply EXCEPT ![c] = [cmd |-> request[c], text |-> decidedBar[c]]]
    BY <1>4, <2>1, <2>7, <2>0
  <2>9. holderBar' = holderBar
    BY <1>1, <1>4 DEF holderBar
  <2>10. Service!Deliver(c)
    BY <1>1, <2>1, <2>6, <2>7, <2>8, <2>9
    DEF Service!Deliver, Service!None, Service!Lost, Service!NoReply, None, NoReply, Answer
  <2>11. SStep
    BY <2>1, <2>10 DEF SStep, Service!Next
  <2>12. QED BY <2>5, <2>11
<1>5. QED BY <1>3, <1>4 DEF DoWrite

(* The drain loop only moves objects whose clients wait.                   *)
LEMMA DrainRef ==
  ASSUME RInv, IInv', Drain
  PROVE  ServiceInv' /\ SStep
<1> USE GuideServerAssumption DEF clientVars, mainVars
<1> DEFINE n == DrainCount(Len(outQueue))
           batch == SetOf(SubSeq(outQueue, 1, n))
           rest == SubSeq(outQueue, n + 1, Len(outQueue))
<1>1. Len(outQueue) \in Nat /\ n \in 0..Len(outQueue)
  BY LenProperties DEF RInv, IInv, TypeOK, DrainCount
<1>2. batch \subseteq Conn /\ SetOf(outQueue) = batch \cup SetOf(rest)
  BY <1>1, SplitLemma, SetOfType DEF RInv, IInv, TypeOK
<1>3. /\ outQueue' = rest
      /\ conns' = conns \cup batch
      /\ interest' = [k \in Conn |-> IF k \in batch THEN "out" ELSE interest[k]]
      /\ UNCHANGED <<request, reply, unread, link, freeConns, peer, inQueue, answer, frames, longTask>>
  BY DEF Drain
<1> HIDE DEF n, batch, rest
<1>4. ServiceInv'
  <2>1. \A k \in Conn : (Held(k)' <=> Held(k)) /\ (Going(k)' => Going(k)) /\ (Unanswered(k)' <=> Unanswered(k))
    BY <1>2, <1>3 DEF Held, Going, Unanswered
  <2>2. InUse' = InUse
    BY <1>2, <1>3 DEF InUse
  <2>3. \A k \in conns' : interest'[k] = "in" => k \in conns /\ interest[k] = "in"
    BY <1>2, <1>3 DEF RInv, IInv, TypeOK
  <2>4. QED BY <1>3, <2>1, <2>2, <2>3 DEF RInv, ServiceInv
<1>5. SStep
  BY <1>3, DecidedSame DEF SStep, Service!serviceVars, holderBar
<1>6. QED BY <1>4, <1>5

(* The end of the thread: whoever had asked and was served through one of  *)
(* the deleted objects has lost its answer.                                *)
LEMMA CleanupRef ==
  ASSUME RInv, IInv', Cleanup
  PROVE  ServiceInv' /\ SStep
<1> USE GuideServerAssumption DEF clientVars, mainVars
<1> DEFINE closed == {peer[k] : k \in conns}
           deleted == conns \cup freeConns \cup SetOf(inQueue) \cup SetOf(outQueue)
<1>1. /\ link' = [c \in Client |->
                    IF c \in closed \/ link[c] = "backlog" THEN "closed" ELSE link[c]]
      /\ peer' = [k \in Conn |-> IF k \in deleted THEN NoClient ELSE peer[k]]
      /\ answer' = [k \in Conn |-> IF k \in deleted THEN None ELSE answer[k]]
      /\ interest' = [k \in Conn |-> IF k \in deleted THEN "none" ELSE interest[k]]
      /\ conns' = {} /\ freeConns' = {} /\ inQueue' = <<>> /\ outQueue' = <<>>
      /\ UNCHANGED <<request, reply, unread, frames, longTask>>
  BY DEF Cleanup
<1>2. SetOf(<<>>) = {}
  BY EmptySeq DEF SetOf
<1>3. \A k \in Conn : (k \in SetOf(frames) \/ k = longTask) => k \notin deleted
  BY DEF RInv, IInv, ConnOwnedOnce
<1>4. \A k \in conns : k \in deleted /\ peer[k] \in closed
  OBVIOUS
<1>5. \A k \in deleted : k \in conns \/ k \in freeConns \/ k \in SetOf(inQueue) \/ Going(k)
  BY DEF Going
<1>6. \A k \in Conn \ deleted : k \notin conns
  OBVIOUS
<1> HIDE DEF closed, deleted
<1>7. ServiceInv'
  <2>1. \A k \in Conn : ~Going(k)' /\ (Held(k)' => k \notin deleted /\ Held(k))
    <3>1. \A k \in Conn : k \notin deleted => interest[k] = "none"
      BY <1>6 DEF RInv, IInv, ConnOwnedOnce
    <3>2. QED BY <1>1, <1>2, <1>3, <3>1 DEF Held, Going
  <2>2. \A k \in Conn : k \notin deleted => (Unanswered(k)' <=> Unanswered(k)) /\ answer'[k] = answer[k]
    BY <1>1 DEF Unanswered
  <2>3. \A c \in Client : unread'[c] \/ link'[c] = "backlog" => reply'[c] = NoReply
    BY <1>1 DEF RInv, ServiceInv
  <2>4. \A k \in Conn \ InUse' : peer'[k] = NoClient
    <3>1. \A k \in InUse : k \in deleted \/ k \in SetOf(frames) \/ k = longTask
      BY DEF InUse, deleted
    <3>2. \A k \in Conn : k \in SetOf(frames) \/ k = longTask => k \in InUse'
      BY <1>1 DEF InUse
    <3>3. QED BY <1>1, <3>1, <3>2 DEF RInv, ServiceInv
  <2>5. \A c \in Client : request'[c] = None /\ link'[c] = "open" => \E k \in Conn : peer'[k] = c
    <3> SUFFICES ASSUME NEW c \in Client, request[c] = None, link'[c] = "open"
                 PROVE \E k \in Conn : peer'[k] = c
      BY <1>1
    <3>1. c \notin closed /\ link[c] = "open"
      BY <1>1
    <3>2. PICK k \in Conn : peer[k] = c
      BY <3>1 DEF RInv, ServiceInv
    <3>3. k \notin conns
      BY <1>4, <3>1, <3>2
    <3>4. k \notin freeConns
      BY <3>2 DEF RInv, IInv, PeerExclusive, InUse
    <3>5. ~Going(k) /\ k \notin SetOf(inQueue)
      BY <3>2 DEF RInv, IInv, CarriedInv, Carried, Going, Command, None
    <3>6. k \notin deleted
      BY <1>5, <3>3, <3>4, <3>5
    <3>7. QED BY <1>1, <3>2, <3>6
  <2>6. QED BY <1>1, <2>1, <2>2, <2>3, <2>4, <2>5 DEF RInv, ServiceInv
<1> DEFINE S == {c \in Client : request[c] # None /\ reply[c] = NoReply
                                  /\ \A k \in Conn : peer'[k] # c}
<1>8. \A c \in Client : DecidedFor(c)' = IF c \in S THEN "lost" ELSE DecidedFor(c)
  <2> SUFFICES ASSUME NEW c \in Client
               PROVE DecidedFor(c)' = IF c \in S THEN "lost" ELSE DecidedFor(c)
    OBVIOUS
  <2>1. CASE reply[c] # NoReply
    BY <1>1, <2>1 DEF DecidedFor
  <2>2. CASE reply[c] = NoReply /\ \E k \in Conn : peer'[k] = c
    <3>1. PICK k \in Conn : peer'[k] = c
      BY <2>2
    <3>2. k \notin deleted /\ peer[k] = c /\ answer'[k] = answer[k]
      BY <1>1, <3>1
    <3>3. DecidedFor(c)' = DecidedFor(c)
      BY <1>1, <3>1, <3>2, DecidedOwn, DecidedOwnNext DEF RInv, IInv
    <3>4. QED BY <3>1, <3>3
  <2>3. CASE reply[c] = NoReply /\ \A k \in Conn : peer'[k] # c
    <3>1. link'[c] # "backlog"
      BY <1>1
    <3>2. DecidedFor(c)' = IF request[c] # None THEN "lost" ELSE None
      BY <1>1, <2>3, <3>1, DecidedNoneNext
    <3>3. CASE request[c] # None
      BY <2>3, <3>2, <3>3
    <3>4. CASE request[c] = None
      <4>1. CASE \A k \in Conn : peer[k] # c
        BY <2>3, <3>2, <3>4, <4>1, DecidedNone
      <4>2. CASE \E k \in Conn : peer[k] = c
        <5>1. PICK k \in Conn : peer[k] = c
          BY <4>2
        <5>2. k \in deleted
          BY <1>1, <2>3, <5>1
        <5>3. k \notin freeConns
          BY <5>1 DEF RInv, IInv, PeerExclusive, InUse
        <5>4. ~Going(k) /\ k \notin SetOf(inQueue)
          BY <3>4, <5>1 DEF RInv, IInv, CarriedInv, Carried, Going, Command, None
        <5>5. k \in conns
          BY <1>5, <5>2, <5>3, <5>4
        <5>6. interest[k] = "in"
          BY <5>4, <5>5 DEF RInv, IInv, TypeOK, ConnOwnedOnce, Going
        <5>7. answer[k] = None
          BY <2>3, <5>1, <5>5, <5>6 DEF RInv, ServiceInv
        <5>8. QED BY <2>3, <3>2, <3>4, <5>1, <5>7, DecidedOwn DEF RInv, IInv
      <4>3. QED BY <4>1, <4>2
    <3>5. QED BY <3>3, <3>4
  <2>4. QED BY <2>1, <2>2, <2>3
<1>9. UNCHANGED <<request, reply, holderBar>>
  <2>1. longTask \in Conn => peer'[longTask] = peer[longTask]
    BY <1>1, <1>3
  <2>2. QED BY <1>1, <2>1 DEF holderBar, RInv, IInv, TypeOK
<1>10. holderBar \notin S
  <2>1. CASE longTask = NoConn
    BY <2>1 DEF holderBar
  <2>2. CASE longTask # NoConn
    BY <2>2, HolderOpen, <1>1, <1>3
  <2>3. QED BY <2>1, <2>2
<1>11. PICK T \in SUBSET Client : T = S
  OBVIOUS
<1>12. Service!Lose(T)
  <2>1. decidedBar' = [c \in Client |-> IF c \in T THEN "lost" ELSE decidedBar[c]]
    BY <1>8, <1>11 DEF decidedBar
  <2>2. \A c \in T : request[c] # None /\ reply[c] = NoReply /\ c # holderBar
    BY <1>10, <1>11
  <2>3. QED BY <1>9, <2>1, <2>2
    DEF Service!Lose, Service!None, Service!NoReply, Service!Lost, None, NoReply
<1>13. QED BY <1>7, <1>12, LoseStep
-----------------------------------------------------------------------------
(* The main thread.                                                        *)

(* return_conn decides the answer of the client at the other end.          *)
LEMMA ReturnRef ==
  ASSUME RInv, IInv', NEW k \in Conn, NEW text, Held(k), ReturnConn(k, text),
         \A l \in Conn : Held(l)' <=> Held(l) /\ l # k,
         UNCHANGED <<request, reply, unread, link, conns, freeConns, peer, cmdOf, interest>>
  PROVE  /\ ServiceInv'
         /\ decidedBar[peer[k]] = None
         /\ decidedBar' = [decidedBar EXCEPT ![peer[k]] = text]
<1> USE GuideServerAssumption
<1>1. PICK c \in Client : peer[k] = c
  BY DEF RInv, IInv, CarriedInv, Carried, Held
<1>2. /\ Unanswered(k) /\ answer[k] = None
      /\ \A l \in Conn : l # k => peer[l] # c
  BY <1>1 DEF RInv, ServiceInv, IInv, PeerExclusive
<1>3. /\ answer'[k] = text /\ \A l \in Conn : l # k => answer'[l] = answer[l]
      /\ SetOf(outQueue') = SetOf(outQueue) \cup {k}
  BY PushLemma DEF ReturnConn, RInv, IInv, TypeOK
<1>4. k \notin conns /\ interest[k] = "none"
  BY DEF RInv, IInv, ConnOwnedOnce, Held
<1>5. ServiceInv'
  <2>1. \A l \in Conn : (Going(l)' => Going(l) \/ l = k) /\ (Unanswered(l)' <=> Unanswered(l))
    BY <1>3 DEF Going, Unanswered
  <2>2. \A l \in Conn \ InUse' : l \notin InUse
    <3>1. \A l \in Conn : /\ l \in InUse => l \in conns \cup freeConns \cup SetOf(outQueue) \/ Held(l)
                          /\ l \in conns' \cup freeConns' \cup SetOf(outQueue') \/ Held(l)' => l \in InUse'
      BY DEF InUse, Held
    <3>2. QED BY <1>3, <3>1
  <2>3. \A l \in Conn : Held(l)' => answer'[l] = None /\ Unanswered(l)'
    BY <1>3, <2>1 DEF RInv, ServiceInv
  <2>4. \A l \in Conn : Going(l)' => Unanswered(l)'
    BY <1>2, <2>1 DEF RInv, ServiceInv
  <2>5. \A l \in conns' : interest'[l] = "in" /\ reply'[peer'[l]] = NoReply => answer'[l] = None
    BY <1>3, <1>4 DEF RInv, ServiceInv, IInv, TypeOK
  <2>6. QED BY <2>2, <2>3, <2>4, <2>5 DEF RInv, ServiceInv
<1>6. DecidedFor(c) = None /\ DecidedFor(c)' = text
  <2>1. reply[c] = NoReply
    BY <1>1, <1>2 DEF Unanswered
  <2>2. QED BY <1>1, <1>2, <1>3, <2>1, DecidedOwn, DecidedOwnNext DEF RInv, IInv
<1>7. \A d \in Client : d # c => DecidedFor(d)' = DecidedFor(d)
  <2> SUFFICES ASSUME NEW d \in Client, d # c PROVE DecidedFor(d)' = DecidedFor(d)
    OBVIOUS
  <2>1. CASE \E l \in Conn : peer[l] = d
    <3>1. PICK l \in Conn : peer[l] = d
      BY <2>1
    <3>2. l # k /\ peer'[l] = d /\ answer'[l] = answer[l]
      BY <1>1, <1>3, <3>1
    <3>3. QED BY <3>1, <3>2, DecidedOwn, DecidedOwnNext DEF RInv, IInv
  <2>2. CASE \A l \in Conn : peer[l] # d
    BY <2>2, DecidedNone, DecidedNoneNext
  <2>3. QED BY <2>1, <2>2
<1>8. /\ decidedBar[c] = None
      /\ decidedBar' = [decidedBar EXCEPT ![c] = text]
  BY <1>6, <1>7 DEF decidedBar
<1>9. QED BY <1>1, <1>5, <1>8

(* An answer that ends nothing: the client is not the one that holds the   *)
(* dither.                                                                 *)
LEMMA DecideRef ==
  ASSUME RInv, IInv', NEW k \in Conn, NEW text \in {"ok", "error", "busy"},
         Held(k), k # longTask, ReturnConn(k, text),
         \/ cmdOf[k] # "dither" /\ text = "ok"
         \/ cmdOf[k] = "dither" /\ longTask = NoConn /\ text = "error"
         \/ cmdOf[k] = "dither" /\ longTask # NoConn /\ text = "busy",
         \A l \in Conn : Held(l)' <=> Held(l) /\ l # k,
         UNCHANGED <<request, reply, unread, link, conns, freeConns, peer, cmdOf, interest, longTask>>
  PROVE  ServiceInv' /\ SStep
<1> USE GuideServerAssumption
<1>1. PICK c \in Client : peer[k] = c /\ request[c] = cmdOf[k] /\ request[c] \in Command
  BY DEF RInv, IInv, CarriedInv, Carried, Held
<1>2. ServiceInv' /\ decidedBar[c] = None /\ decidedBar' = [decidedBar EXCEPT ![c] = text]
  BY <1>1, ReturnRef
<1>3. /\ holderBar # c /\ (holderBar = NoClient <=> longTask = NoConn)
      /\ UNCHANGED <<request, reply, holderBar>>
  <2>1. CASE longTask = NoConn
    BY <2>1 DEF holderBar
  <2>2. CASE longTask # NoConn
    <3>1. longTask \in Conn /\ peer[longTask] \in Client /\ holderBar = peer[longTask]
      BY <2>2, HolderOpen
    <3>2. peer[longTask] # c
      BY <3>1, <1>1 DEF RInv, IInv, PeerExclusive
    <3>3. QED BY <2>2, <3>1, <3>2 DEF holderBar
  <2>3. QED BY <2>1, <2>2
<1>4. Service!Decide(c, text)
  BY <1>1, <1>2, <1>3 DEF Service!Decide, Service!Open, Service!None, None, Command
<1>5. QED BY <1>2, <1>4 DEF SStep, Service!Next

(* The handler decides, begins a dither or leaves the answer to later.     *)
LEMMA OnRemoteCmdRef ==
  ASSUME RInv, IInv', OnRemoteCmd
  PROVE  ServiceInv' /\ SStep
<1> USE GuideServerAssumption DEF clientVars, connVars, queueVars, mainVars
<1>1. UNCHANGED <<request, reply, unread, link, conns, freeConns, peer, cmdOf, interest>>
  BY DEF OnRemoteCmd
<1>2. CASE UNCHANGED <<answer, queueVars, mainVars>>
  BY <1>1, <1>2, QuietRef
<1>3. CASE inQueue # <<>> /\ inQueue' = Tail(inQueue) /\ ~UNCHANGED <<answer, queueVars, mainVars>>
  <2>1. PICK k \in Conn : k = Head(inQueue)
    BY <1>3, PopFrontLemma DEF RInv, IInv, TypeOK
  <2>2. /\ SetOf(inQueue) = {k} \cup SetOf(inQueue') /\ k \notin SetOf(inQueue')
        /\ k \notin SetOf(frames) /\ k # longTask /\ Held(k)
    BY <1>3, <2>1, PopFrontLemma DEF RInv, IInv, TypeOK, ConnOwnedOnce, Held
  <2>3. /\ peer[k] \in Client /\ cmdOf[k] = request[peer[k]]
        /\ answer[k] = None /\ Unanswered(k)
    BY <2>2 DEF RInv, IInv, ServiceInv, CarriedInv, Carried
  <2>4. ASSUME NEW text \in {"ok", "error", "busy"}, ReturnConn(k, text), UNCHANGED <<frames, longTask>>,
               \/ cmdOf[k] # "dither" /\ text = "ok"
               \/ cmdOf[k] = "dither" /\ longTask = NoConn /\ text = "error"
               \/ cmdOf[k] = "dither" /\ longTask # NoConn /\ text = "busy"
        PROVE  ServiceInv' /\ SStep
    <3>1. \A l \in Conn : Held(l)' <=> Held(l) /\ l # k
      BY <2>2, <2>4 DEF Held
    <3>2. QED BY <1>1, <2>2, <2>4, <3>1, DecideRef
  <2>5. CASE cmdOf[k] = "quick" /\ ReturnConn(k, "ok") /\ UNCHANGED <<frames, longTask, timer>>
    BY <2>4, <2>5
  <2>6. CASE cmdOf[k] = "dither" /\ longTask = NoConn /\ ReturnConn(k, "error") /\ UNCHANGED <<frames, longTask, timer>>
    BY <2>4, <2>6
  <2>7. CASE cmdOf[k] = "dither" /\ longTask # NoConn /\ ReturnConn(k, "busy") /\ UNCHANGED <<frames, longTask, timer>>
    BY <2>4, <2>7
  <2>8. ASSUME UNCHANGED <<answer, outQueue>>,
               \A l \in Conn : Held(l)' <=> Held(l),
               \A l \in Conn : l \in InUse => l \in InUse'
        PROVE  ServiceInv' /\ decidedBar' = decidedBar
    <3>1. \A l \in Conn : (Going(l)' <=> Going(l)) /\ (Unanswered(l)' <=> Unanswered(l))
      BY <1>1, <2>8 DEF Going, Unanswered
    <3>2. QED BY <1>1, <2>8, <3>1, DecidedSame DEF RInv, ServiceInv
  <2>9. CASE /\ cmdOf[k] = "calibrate"
             /\ frames' = Append(frames, k)
             /\ UNCHANGED <<answer, outQueue, main, longTask, timer>>
    <3>1. SetOf(frames') = SetOf(frames) \cup {k}
      BY <2>9, PushLemma DEF RInv, IInv, TypeOK
    <3>2. ServiceInv' /\ decidedBar' = decidedBar
      BY <1>1, <2>2, <2>8, <2>9, <3>1 DEF Held, InUse
    <3>3. QED BY <1>1, <2>9, <3>2 DEF SStep, Service!serviceVars, holderBar
  <2>10. CASE /\ cmdOf[k] = "dither" /\ longTask = NoConn
              /\ longTask' = k
              /\ UNCHANGED <<answer, outQueue, main, frames>>
    <3>1. ServiceInv' /\ decidedBar' = decidedBar
      BY <1>1, <2>2, <2>8, <2>10 DEF Held, InUse
    <3>2. PICK c \in Client : peer[k] = c
      BY <2>3
    <3>3. holderBar = NoClient /\ holderBar' = c /\ request[c] = "dither" /\ reply[c] = NoReply
      BY <1>1, <2>3, <2>10, <3>2 DEF holderBar, Unanswered
    <3>4. decidedBar[c] = None
      BY <2>3, <3>2, <3>3, DecidedOwn DEF decidedBar, RInv, IInv
    <3>5. Service!BeginDither(c)
      BY <1>1, <3>1, <3>3, <3>4 DEF Service!BeginDither, Service!Open, Service!None, None
    <3>6. QED BY <3>1, <3>5 DEF SStep, Service!Next
  <2>11. QED BY <1>3, <2>1, <2>5, <2>6, <2>7, <2>9, <2>10 DEF OnRemoteCmd
<1>4. QED BY <1>2, <1>3 DEF OnRemoteCmd, TakeConn

(* The answer of a calibration is decided when its loop ends.              *)
LEMMA FinishCalibrationRef ==
  ASSUME RInv, IInv', FinishCalibration
  PROVE  ServiceInv' /\ SStep
<1> USE GuideServerAssumption DEF clientVars, connVars, queueVars
<1>1. PICK k \in Conn : k = frames[Len(frames)]
  BY PopBackLemma DEF FinishCalibration, RInv, IInv, TypeOK
<1>2. /\ SetOf(frames) = SetOf(frames') \cup {k} /\ k \notin SetOf(frames')
      /\ ReturnConn(k, "ok")
      /\ UNCHANGED <<request, reply, unread, link, conns, freeConns, peer, cmdOf, interest,
                     inQueue, longTask>>
  BY <1>1, PopBackLemma DEF FinishCalibration, RInv, IInv, TypeOK, ConnOwnedOnce
<1>3. k # longTask /\ k \notin SetOf(inQueue) /\ Held(k) /\ cmdOf[k] = "calibrate"
  BY <1>2 DEF RInv, IInv, ConnOwnedOnce, CarriedInv, Held
<1>4. \A l \in Conn : Held(l)' <=> Held(l) /\ l # k
  BY <1>2, <1>3 DEF Held
<1>5. QED BY <1>2, <1>3, <1>4, DecideRef

(* The timer ends the dither of the client that asked for it.              *)
LEMMA OnCmdTimerRef ==
  ASSUME RInv, IInv', OnCmdTimer
  PROVE  ServiceInv' /\ SStep
<1> USE GuideServerAssumption DEF clientVars, connVars, queueVars
<1>1. PICK k \in Conn : k = longTask
  BY DEF OnCmdTimer, RInv, IInv, TypeOK, TimerHasTask
<1>2. /\ ReturnConn(k, "finished") /\ longTask' = NoConn
      /\ UNCHANGED <<request, reply, unread, link, conns, freeConns, peer, cmdOf, interest,
                     inQueue, frames>>
  BY <1>1 DEF OnCmdTimer
<1>3. Held(k) /\ \A l \in Conn : Held(l)' <=> Held(l) /\ l # k
  BY <1>1, <1>2 DEF Held, RInv, IInv, ConnOwnedOnce
<1>4. PICK c \in Client : peer[k] = c /\ holderBar = c
  BY <1>1, HolderOpen
<1>5. ServiceInv' /\ decidedBar' = [decidedBar EXCEPT ![c] = "finished"]
  BY <1>2, <1>3, <1>4, ReturnRef
<1>6. holderBar' = NoClient
  BY <1>2 DEF holderBar
<1>7. Service!EndDither
  BY <1>2, <1>4, <1>5, <1>6 DEF Service!EndDither
<1>8. QED BY <1>5, <1>7 DEF SStep, Service!Next
-----------------------------------------------------------------------------
(* At the start nobody has asked.                                          *)
LEMMA InitRef == Init => ServiceInv /\ Service!Init
<1> SUFFICES ASSUME Init PROVE ServiceInv /\ Service!Init
  OBVIOUS
<1> USE GuideServerAssumption DEF Init
<1>1. SetOf(<<>>) = {}
  BY EmptySeq DEF SetOf
<1>2. \A k \in Conn : ~Held(k) /\ ~Going(k)
  BY <1>1 DEF Held, Going
<1>3. ServiceInv
  BY <1>2 DEF ServiceInv, NoReply
<1>4. \A c \in Client : DecidedFor(c) = None
  <2> SUFFICES ASSUME NEW c \in Client PROVE DecidedFor(c) = None
    OBVIOUS
  <2>1. \A k \in Conn : peer[k] # c
    OBVIOUS
  <2>2. QED BY <2>1, DecidedNone
<1>5. decidedBar = [c \in Client |-> None] /\ holderBar = NoClient
  BY <1>4 DEF decidedBar, holderBar
<1>6. Service!Init
  BY <1>5 DEF Service!Init, Service!None, Service!NoReply, None, NoReply
<1>7. QED BY <1>3, <1>6

(* Every step keeps the invariant and is, to the clients, a step of the    *)
(* service or none.                                                        *)
LEMMA NextRef == RInv /\ [Next]_vars => RInv' /\ SStep
<1> SUFFICES ASSUME RInv, [Next]_vars PROVE RInv' /\ SStep
  OBVIOUS
<1> DEFINE Quiet == UNCHANGED <<request, reply, unread, link, conns, freeConns, peer, cmdOf, interest,
                                inQueue, outQueue, answer, frames, longTask>>
<1>0. Quiet => ServiceInv' /\ SStep
  BY QuietRef
<1> HIDE DEF Quiet
<1>1. IInv'
  BY NextInv DEF RInv
<1>2. ASSUME NEW c \in Client, ClientStep(c) PROVE ServiceInv' /\ SStep
  <2>1. Receive(c) \/ Interrupt(c) => Quiet
    BY DEF Receive, Interrupt, Quiet, clientVars, connVars, queueVars, mainVars
  <2>2. QED BY <1>0, <1>1, <1>2, <2>1, ConnectRef, SendRef DEF ClientStep
<1>3. CASE ServerStep
  <2>1. ServerUp \/ EmitDoCommand => Quiet
    BY DEF ServerUp, EmitDoCommand, Quiet, clientVars, connVars, queueVars, mainVars
  <2>2. Drain \/ Cleanup => ServiceInv' /\ SStep
    BY <1>1, DrainRef, CleanupRef
  <2>3. \A c \in Client : Accept(c) => ServiceInv' /\ SStep
    BY <1>1, AcceptRef
  <2>4. \A k \in Conn : DoRead(k) \/ DoWrite(k) => ServiceInv' /\ SStep
    BY <1>1, DoReadRef, DoWriteRef
  <2>5. QED BY <1>0, <1>1, <1>3, <2>1, <2>2, <2>3, <2>4 DEF ServerStep, RInv
<1>4. CASE MainStep
  <2>1. Notify \/ RestartBegin \/ RestartEnd => Quiet
    BY DEF Notify, RestartBegin, RestartEnd, Quiet, clientVars, connVars, queueVars, mainVars
  <2>2. OnRemoteCmd \/ FinishCalibration \/ OnCmdTimer => ServiceInv' /\ SStep
    BY <1>1, OnRemoteCmdRef, FinishCalibrationRef, OnCmdTimerRef
  <2>3. QED BY <1>0, <1>1, <1>4, <2>1, <2>2 DEF MainStep, RInv
<1>5. UNCHANGED vars => Quiet
  BY DEF vars, Quiet, clientVars, connVars, queueVars, mainVars
<1>6. QED BY <1>0, <1>1, <1>2, <1>3, <1>4, <1>5 DEF Next, RInv

(* The command server is a GuideService: whatever its threads, queues and  *)
(* recycled objects do and however often it is restarted, each client gets *)
(* at most one answer, decided once for the command it sent, one dither    *)
(* runs at a time and its end is told to the client that asked for it.     *)
THEOREM ServerImplementsService == Spec => ImplementsService
<1>1. Init => RInv /\ Service!Init
  BY InitInv, InitRef DEF RInv
<1>2. RInv /\ [Next]_vars => RInv' /\ [Service!Next]_(Service!serviceVars)
  BY NextRef DEF SStep
<1>3. QED BY <1>1, <1>2, PTL DEF Spec, ImplementsService, Service!Spec
=============================================================================
