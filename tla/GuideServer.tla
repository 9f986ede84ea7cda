---------------------------- MODULE GuideServer ----------------------------
(***************************************************************************)
(* The command server of the modified Lin_guider: modified_codes/LG330/    *)
(* server.cpp (a thread of its own, driven by epoll), the handlers of      *)
(* lin_guider.cpp that run in the main (GUI) thread, and the clients, each *)
(* one run of www/remote_client.c.                                         *)
(*                                                                         *)
(* A request travels  socket -> m_conns -> m_in_queue -> main thread       *)
(* -> m_out_queue -> m_conns -> socket.  The two threads share only the    *)
(* queues (under a mutex each), an eventfd and the queued do_command()     *)
(* signals; the conn_t that travels has no lock of its own.                *)
(***************************************************************************)
EXTENDS Naturals, Sequences, FiniteSets

CONSTANTS
  Client,      \* the remote_client processes that will ever run
  Conn,        \* the conn_t objects the heap can hold
  NoClient,    \* "no peer": fd = -1
  NoConn,      \* the NULL of a conn_t pointer
  QueueLen,    \* EPOLL_QUEUE_LEN
  MaxRestarts  \* bound: how often the user restarts the server

ASSUME GuideServerAssumption ==
  /\ NoClient \notin Client
  /\ NoConn \notin Conn
  /\ QueueLen \in Nat \ {0}
  /\ MaxRestarts \in Nat

(* Commands, by how onRemoteCmd answers: at once, after the timer of the   *)
(* long task, or when the nested event loop of the calibration ends.       *)
Command == {"quick", "dither", "calibrate"}
Answer  == {"ok", "error", "busy", "finished"}
None    == "none"
Reply   == [cmd : Command, text : Answer]
NoReply == [cmd |-> None, text |-> None]

VARIABLES
  client,    \* remote_client: where each process is
  request,   \* the command a client has written
  unread,    \* its bytes are still in the server's socket buffer
  reply,     \* the bytes in the client's socket buffer
  link,      \* the server's end of the client's socket
  conns,     \* m_conns
  freeConns, \* m_free_conns
  inQueue,   \* m_in_queue
  outQueue,  \* m_out_queue
  peer,      \* conn_t.fd: the client at the other end
  cmdOf,     \* conn_t.read_buf: the parsed command
  answer,    \* conn_t.m_answer and answer_sz
  interest,  \* the epoll registration of conn_t.fd
  efd,       \* m_res_fd: the eventfd counter is not zero
  pending,   \* do_command() signals posted to the main thread
  srv,       \* the server thread
  quit,      \* m_quit_thread_flag
  main,      \* the main thread
  frames,    \* handlers suspended in the calibration's nested event loop
  longTask,  \* m_long_task_conn
  timer,     \* m_timer is running
  restarts   \* how many restarts there have been (bounded)

clientVars == <<client, request, reply>>
queueVars  == <<inQueue, outQueue>>
connVars   == <<conns, freeConns, peer, cmdOf, interest>>
mainVars   == <<main, frames, longTask, timer>>
vars == <<clientVars, unread, link, connVars, queueVars, answer, efd, pending,
          srv, quit, mainVars, restarts>>

SetOf(q) == {q[i] : i \in 1..Len(q)}
InUse == conns \cup freeConns \cup SetOf(inQueue) \cup SetOf(outQueue)
           \cup SetOf(frames) \cup ({longTask} \ {NoConn})
ClientOpen(c) == client[c] \in {"connected", "waiting", "eof"}

TypeOK ==
  /\ client \in [Client -> {"new", "connected", "waiting", "answered", "eof", "gone"}]
  /\ request \in [Client -> Command \cup {None}]
  /\ unread \in [Client -> BOOLEAN]
  /\ reply \in [Client -> Reply \cup {NoReply}]
  /\ link \in [Client -> {"none", "backlog", "open", "closed"}]
  /\ conns \in SUBSET Conn
  /\ freeConns \in SUBSET Conn
  /\ inQueue \in Seq(Conn)
  /\ outQueue \in Seq(Conn)
  /\ peer \in [Conn -> Client \cup {NoClient}]
  /\ cmdOf \in [Conn -> Command \cup {None}]
  /\ answer \in [Conn -> Answer \cup {None}]
  /\ interest \in [Conn -> {"none", "in", "out"}]
  /\ efd \in BOOLEAN
  /\ pending \in Nat
  /\ srv \in {"starting", "run", "emit", "down"}
  /\ quit \in BOOLEAN
  /\ main \in {"loop", "notify", "join"}
  /\ frames \in Seq(Conn)
  /\ longTask \in Conn \cup {NoConn}
  /\ timer \in BOOLEAN
  /\ restarts \in 0..MaxRestarts

Init ==
  /\ client = [c \in Client |-> "new"]
  /\ request = [c \in Client |-> None]
  /\ unread = [c \in Client |-> FALSE]
  /\ reply = [c \in Client |-> NoReply]
  /\ link = [c \in Client |-> "none"]
  /\ conns = {} /\ freeConns = {}
  /\ inQueue = <<>> /\ outQueue = <<>>
  /\ peer = [k \in Conn |-> NoClient]
  /\ cmdOf = [k \in Conn |-> None]
  /\ answer = [k \in Conn |-> None]
  /\ interest = [k \in Conn |-> "none"]
  /\ efd = FALSE /\ pending = 0
  /\ srv = "starting" /\ quit = FALSE
  /\ main = "loop" /\ frames = <<>> /\ longTask = NoConn /\ timer = FALSE
  /\ restarts = 0

-----------------------------------------------------------------------------
(* Clients: connect(), one write of header and data, read until the answer *)
(* is complete.  A failed call exits the process; read() = 0 does not: the *)
(* loop goes round for ever.                                               *)

Connect(c) ==
  /\ client[c] = "new"
  /\ \/ /\ srv \in {"run", "emit"}
        /\ client' = [client EXCEPT ![c] = "connected"]
        /\ link' = [link EXCEPT ![c] = "backlog"]
     \/ /\ srv \in {"starting", "down"}
        /\ client' = [client EXCEPT ![c] = "gone"]
        /\ UNCHANGED link
  /\ UNCHANGED <<request, reply, unread, connVars, queueVars, answer, efd,
                 pending, srv, quit, mainVars, restarts>>

Send(c, cmd) ==
  /\ client[c] = "connected"
  /\ \/ /\ link[c] # "closed"
        /\ client' = [client EXCEPT ![c] = "waiting"]
        /\ request' = [request EXCEPT ![c] = cmd]
        /\ unread' = [unread EXCEPT ![c] = TRUE]
     \/ /\ link[c] = "closed"
        /\ client' = [client EXCEPT ![c] = "gone"]
        /\ UNCHANGED <<request, unread>>
  /\ UNCHANGED <<reply, link, connVars, queueVars, answer, efd, pending, srv,
                 quit, mainVars, restarts>>

Receive(c) ==
  /\ client[c] = "waiting"
  /\ \/ /\ reply[c] # NoReply
        /\ client' = [client EXCEPT ![c] = "answered"]
     \/ /\ reply[c] = NoReply
        /\ link[c] = "closed"
        /\ client' = [client EXCEPT ![c] = "eof"]
  /\ UNCHANGED <<request, reply, unread, link, connVars, queueVars, answer, efd,
                 pending, srv, quit, mainVars, restarts>>

Interrupt(c) ==
  /\ ClientOpen(c)
  /\ client' = [client EXCEPT ![c] = "gone"]
  /\ UNCHANGED <<request, reply, unread, link, connVars, queueVars, answer, efd,
                 pending, srv, quit, mainVars, restarts>>

-----------------------------------------------------------------------------
(* Server thread                                                           *)

(* The thread has created the listener, epoll and the eventfd.             *)
ServerUp ==
  /\ srv = "starting"
  /\ srv' = "run"
  /\ efd' = FALSE
  /\ UNCHANGED <<clientVars, unread, link, connVars, queueVars, answer,
                 pending, quit, mainVars, restarts>>

(* get_conn: a recycled object if there is one, else a new one; init()     *)
(* makes the two alike.                                                    *)
Recyclable == IF freeConns # {} THEN freeConns ELSE Conn \ InUse

Accept(c) ==
  /\ srv = "run"
  /\ link[c] = "backlog"
  /\ \/ /\ Cardinality(conns) = QueueLen - 1
        /\ link' = [link EXCEPT ![c] = "closed"]
        /\ UNCHANGED <<connVars, answer>>
     \/ /\ Cardinality(conns) # QueueLen - 1
        /\ link' = [link EXCEPT ![c] = "open"]
        /\ \E k \in Recyclable :
             /\ conns' = conns \cup {k}
             /\ freeConns' = freeConns \ {k}
             /\ peer' = [peer EXCEPT ![k] = c]
             /\ interest' = [interest EXCEPT ![k] = "in"]
             /\ cmdOf' = [cmdOf EXCEPT ![k] = None]
             /\ answer' = [answer EXCEPT ![k] = None]
  /\ UNCHANGED <<clientVars, unread, queueVars, efd, pending, srv, quit,
                 mainVars, restarts>>

CloseConn(k) ==
  /\ conns' = conns \ {k}
  /\ freeConns' = freeConns \cup {k}
  /\ link' = [link EXCEPT ![peer[k]] = "closed"]
  /\ peer' = [peer EXCEPT ![k] = NoClient]
  /\ interest' = [interest EXCEPT ![k] = "none"]
  /\ cmdOf' = [cmdOf EXCEPT ![k] = None]
  /\ answer' = [answer EXCEPT ![k] = None]

(* del_epoll_event and m_conns.erase: the server thread lets go of k.      *)
Detach(k) ==
  /\ interest' = [interest EXCEPT ![k] = "none"]
  /\ conns' = conns \ {k}

(* EPOLLIN: a whole packet detaches the connection from the thread and     *)
(* queues it; the signal is emitted after the mutex is released.           *)
DoRead(k) ==
  /\ srv = "run"
  /\ k \in conns
  /\ interest[k] = "in"
  /\ \/ /\ unread[peer[k]]
        /\ unread' = [unread EXCEPT ![peer[k]] = FALSE]
        /\ cmdOf' = [cmdOf EXCEPT ![k] = request[peer[k]]]
        /\ answer' = [answer EXCEPT ![k] = None]
        /\ Detach(k)
        /\ inQueue' = Append(inQueue, k)
        /\ srv' = "emit"
        /\ UNCHANGED <<peer, freeConns, link>>
     \/ /\ ~unread[peer[k]]
        /\ ~ClientOpen(peer[k])
        /\ CloseConn(k)
        /\ UNCHANGED <<unread, inQueue, srv>>
  /\ UNCHANGED <<clientVars, outQueue, efd, pending, quit, mainVars, restarts>>

\* mutant: signals are coalesced into one
EmitCoalesced ==
  /\ srv = "emit"
  /\ pending' = IF main = "join" THEN pending ELSE 1
  /\ srv' = "run"
  /\ UNCHANGED <<clientVars, unread, link, connVars, queueVars, answer, efd,
                 quit, mainVars, restarts>>

(* The signal reaches the main thread's event queue only while it is       *)
(* connected: restart_server disconnects it before it joins the thread.    *)
EmitDoCommand ==
  /\ srv = "emit"
  /\ pending' = IF main = "join" THEN pending ELSE pending + 1
  /\ srv' = "run"
  /\ UNCHANGED <<clientVars, unread, link, connVars, queueVars, answer, efd,
                 quit, mainVars, restarts>>

(* EPOLLOUT: an answer fits the socket buffer; a partial write would only  *)
(* repeat this step.                                                       *)
DoWrite(k) ==
  /\ srv = "run"
  /\ k \in conns
  /\ interest[k] = "out"
  /\ \/ /\ ClientOpen(peer[k])
        /\ reply' = [reply EXCEPT ![peer[k]] = [cmd |-> cmdOf[k], text |-> answer[k]]]
        /\ interest' = [interest EXCEPT ![k] = "in"]
        /\ UNCHANGED <<conns, freeConns, link, peer, cmdOf, answer>>
     \/ /\ ~ClientOpen(peer[k])
        /\ CloseConn(k)
        /\ UNCHANGED reply
  /\ UNCHANGED <<client, request, unread, queueVars, efd, pending, srv, quit,
                 mainVars, restarts>>

\* mutant: the last reply of an odd batch is left as well
DrainCountLow(n) == n \div 2

(* The loop  for( i = 0; i < m_out_queue.size(); i++ ) pop_front();  ends  *)
(* when i has caught up with the shrinking size.                           *)
DrainCount(n) == (n + 1) \div 2

Drain ==
  /\ srv = "run"
  /\ efd
  /\ efd' = FALSE
  /\ LET n == DrainCount(Len(outQueue))
         batch == SetOf(SubSeq(outQueue, 1, n))
     IN /\ outQueue' = SubSeq(outQueue, n + 1, Len(outQueue))
        /\ conns' = conns \cup batch
        /\ interest' = [k \in Conn |-> IF k \in batch THEN "out" ELSE interest[k]]
  /\ UNCHANGED <<clientVars, unread, link, freeConns, peer, cmdOf, inQueue,
                 answer, pending, srv, quit, mainVars, restarts>>

(* After the quit flag: m_conns is closed and deleted, the free list and   *)
(* both queues are deleted (their descriptors are not closed).             *)
Cleanup ==
  /\ srv = "run"
  /\ quit
  /\ srv' = "down"
  /\ efd' = FALSE
  /\ LET closed  == {peer[k] : k \in conns}
         deleted == conns \cup freeConns \cup SetOf(inQueue) \cup SetOf(outQueue)
     IN /\ link' = [c \in Client |->
                      IF c \in closed \/ link[c] = "backlog" THEN "closed" ELSE link[c]]
        /\ peer' = [k \in Conn |-> IF k \in deleted THEN NoClient ELSE peer[k]]
        /\ cmdOf' = [k \in Conn |-> IF k \in deleted THEN None ELSE cmdOf[k]]
        /\ answer' = [k \in Conn |-> IF k \in deleted THEN None ELSE answer[k]]
        /\ interest' = [k \in Conn |-> IF k \in deleted THEN "none" ELSE interest[k]]
  /\ conns' = {} /\ freeConns' = {}
  /\ inQueue' = <<>> /\ outQueue' = <<>>
  /\ UNCHANGED <<clientVars, unread, pending, quit, mainVars, restarts>>

-----------------------------------------------------------------------------
(* Main thread                                                             *)

\* mutant: one answer buffer for all connection objects
ReturnConnStatic(k, text) ==
  /\ answer' = [l \in Conn |-> text]
  /\ outQueue' = Append(outQueue, k)
  /\ main' = "notify"

(* return_conn: push under the mutex; the write to the eventfd is Notify.  *)
ReturnConn(k, text) ==
  /\ answer' = [answer EXCEPT ![k] = text]
  /\ outQueue' = Append(outQueue, k)
  /\ main' = "notify"

\* mutant: front() without pop_front()
TakeConnPeek == UNCHANGED inQueue

TakeConn == inQueue' = Tail(inQueue)

(* One queued do_command(): take_conn, then the command's case.            *)
OnRemoteCmd ==
  /\ main = "loop"
  /\ pending > 0
  /\ pending' = pending - 1
  /\ \/ /\ inQueue = <<>>
        /\ UNCHANGED <<answer, queueVars, mainVars>>
     \/ /\ inQueue # <<>>
        /\ TakeConn
        /\ LET k == Head(inQueue) IN
           \/ /\ cmdOf[k] = "quick"
              /\ ReturnConn(k, "ok")
              /\ UNCHANGED <<frames, longTask, timer>>
           \/ /\ cmdOf[k] = "calibrate"
              /\ frames' = Append(frames, k)
              /\ UNCHANGED <<answer, outQueue, main, longTask, timer>>
           \/ /\ cmdOf[k] = "dither" /\ longTask = NoConn
              /\ longTask' = k
              /\ timer' = TRUE
              /\ UNCHANGED <<answer, outQueue, main, frames>>
           \/ /\ cmdOf[k] = "dither" /\ longTask = NoConn
              /\ ReturnConn(k, "error")
              /\ UNCHANGED <<frames, longTask, timer>>
           \/ /\ cmdOf[k] = "dither" /\ longTask # NoConn
              /\ ReturnConn(k, "busy")
              /\ UNCHANGED <<frames, longTask, timer>>
  /\ UNCHANGED <<clientVars, unread, link, connVars, efd, srv, quit, restarts>>

(* The innermost nested event loop ends and its handler runs to its end.   *)
FinishCalibration ==
  /\ main = "loop"
  /\ frames # <<>>
  /\ ReturnConn(frames[Len(frames)], "ok")
  /\ frames' = SubSeq(frames, 1, Len(frames) - 1)
  /\ UNCHANGED <<clientVars, unread, link, connVars, inQueue, efd, pending, srv,
                 quit, longTask, timer, restarts>>

\* mutant: the pointer of the long task is not cleared
OnCmdTimerKeepsTask ==
  /\ main = "loop"
  /\ timer
  /\ ReturnConn(longTask, "finished")
  /\ timer' = FALSE
  /\ UNCHANGED <<clientVars, unread, link, connVars, inQueue, efd, pending, srv,
                 quit, frames, longTask, restarts>>

OnCmdTimer ==
  /\ main = "loop"
  /\ timer
  /\ ReturnConn(longTask, "finished")
  /\ longTask' = NoConn
  /\ timer' = FALSE
  /\ UNCHANGED <<clientVars, unread, link, connVars, inQueue, efd, pending, srv,
                 quit, frames, restarts>>

(* The write() of return_conn.  Until the new thread has made its eventfd, *)
(* m_res_fd is -1, the write fails and is only logged.                     *)
Notify ==
  /\ main = "notify"
  /\ main' = "loop"
  /\ efd' = (efd \/ srv # "starting")
  /\ UNCHANGED <<clientVars, unread, link, connVars, queueVars, answer, pending,
                 srv, quit, frames, longTask, timer, restarts>>

(* restart_server, the user having said Yes: disconnect() takes the        *)
(* receiver of do_command() away (what was posted before stays posted),    *)
(* delete(m_server) sets the flag and joins the thread ...                 *)
RestartBegin ==
  /\ main = "loop"
  /\ restarts < MaxRestarts
  /\ restarts' = restarts + 1
  /\ main' = "join"
  /\ quit' = TRUE
  /\ UNCHANGED <<clientVars, unread, link, connVars, queueVars, answer, efd,
                 pending, srv, frames, longTask, timer>>

(* ... and a new server is made, connected and started.                    *)
RestartEnd ==
  /\ main = "join"
  /\ srv = "down"
  /\ main' = "loop"
  /\ quit' = FALSE
  /\ srv' = "starting"
  /\ UNCHANGED <<clientVars, unread, link, connVars, queueVars, answer, efd,
                 pending, frames, longTask, timer, restarts>>

-----------------------------------------------------------------------------
ClientStep(c) ==
  Connect(c) \/ (\E cmd \in Command : Send(c, cmd)) \/ Receive(c) \/ Interrupt(c)

ServerStep ==
  \/ ServerUp \/ EmitDoCommand \/ Drain \/ Cleanup
  \/ \E c \in Client : Accept(c)
  \/ \E k \in Conn : DoRead(k) \/ DoWrite(k)

MainStep ==
  OnRemoteCmd \/ FinishCalibration \/ OnCmdTimer \/ Notify \/ RestartBegin \/ RestartEnd

Next == (\E c \in Client : ClientStep(c)) \/ ServerStep \/ MainStep

(* Both threads run for ever: epoll is level-triggered, so a descriptor    *)
(* that stays ready is served, and Qt delivers every posted event and the  *)
(* single-shot timer.  Clients and the end of a calibration promise        *)
(* nothing.                                                                *)
Fairness ==
  /\ WF_vars(ServerUp) /\ WF_vars(EmitDoCommand) /\ WF_vars(Drain) /\ WF_vars(Cleanup)
  /\ \A c \in Client : WF_vars(Accept(c))
  /\ \A k \in Conn : WF_vars(DoRead(k)) /\ WF_vars(DoWrite(k))
  /\ WF_vars(Notify) /\ WF_vars(RestartEnd)
  /\ SF_vars(OnRemoteCmd) /\ SF_vars(OnCmdTimer)

Spec == Init /\ [][Next]_vars
FairSpec == Spec /\ Fairness
-----------------------------------------------------------------------------
(* Properties                                                              *)

Injective(q) == \A i, j \in 1..Len(q) : q[i] = q[j] => i = j

(* conn_t has no lock: what keeps the two threads from touching the same   *)
(* object at once is that take_conn, return_conn, do_read and the drain    *)
(* loop move it between containers.  An object is in one container, once,  *)
(* and is known to epoll exactly while it is in m_conns.                   *)
ConnOwnedOnce ==
  /\ Injective(inQueue) /\ Injective(outQueue) /\ Injective(frames)
  /\ conns \cap freeConns = {}
  /\ (conns \cup freeConns) \cap (SetOf(inQueue) \cup SetOf(outQueue) \cup SetOf(frames)) = {}
  /\ SetOf(inQueue) \cap (SetOf(outQueue) \cup SetOf(frames)) = {}
  /\ SetOf(outQueue) \cap SetOf(frames) = {}
  /\ longTask \notin conns \cup freeConns \cup SetOf(inQueue) \cup SetOf(outQueue) \cup SetOf(frames)
  /\ \A k \in Conn : interest[k] # "none" <=> k \in conns

(* Objects are recycled through m_free_conns and across a restart: a       *)
(* client is never at the other end of two of them, and an object that is  *)
(* being served always has its client.                                     *)
PeerExclusive ==
  /\ \A k, l \in Conn : peer[k] = peer[l] /\ peer[k] # NoClient => k = l
  /\ \A k \in InUse : peer[k] = NoClient <=> k \in freeConns
  /\ \A k \in Conn : peer[k] # NoClient => link[peer[k]] = "open"

(* onRemoteCmd takes one connection for each do_command() signal: there    *)
(* are never more queued connections than signals still to come, so none   *)
(* is left in m_in_queue without a handler run that will take it.  The     *)
(* signals dropped between disconnect() and the end of the join break      *)
(* this, until the old server's queue has gone with the old server: no     *)
(* connection of a server that is being replaced outlives it.              *)
NoLostCommand ==
  \/ main = "join" /\ srv # "down"
  \/ Len(inQueue) <= pending + (IF srv = "emit" THEN 1 ELSE 0)

(* lin_guider.cpp:987 asserts m_long_task_conn when the timer fires.       *)
TimerHasTask == timer <=> longTask # NoConn

(* A client gets the answer to the command it sent: the reply header is    *)
(* built from the object's read buffer long after the command was parsed.  *)
(* Only a dither can be told "BUSY", an error or "Long time cmd finished". *)
RightAnswer ==
  \A c \in Client : reply[c] # NoReply =>
    /\ reply[c].cmd = request[c]
    /\ reply[c].text = "ok" <=> request[c] # "dither"

(* The drain loop serves about half of the queue, yet always its head: a   *)
(* reply at the head of m_out_queue with the eventfd raised gets out.      *)
HeadServed ==
  \A k \in Conn :
    (efd /\ outQueue # <<>> /\ outQueue[1] = k) ~> (k \notin SetOf(outQueue))

(* The refinement mapping: an answer is decided when it stands in the      *)
(* object of its client, and lost when no object belongs to that client    *)
(* any more; a dither is held by the client at the other end of            *)
(* m_long_task_conn.                                                       *)
DecidedFor(c) ==
  IF reply[c] # NoReply THEN reply[c].text
  ELSE IF \E k \in Conn : peer[k] = c THEN answer[CHOOSE k \in Conn : peer[k] = c]
  ELSE IF request[c] # None /\ link[c] # "backlog" THEN "lost"
  ELSE None

decidedBar == [c \in Client |-> DecidedFor(c)]
holderBar  == IF longTask = NoConn THEN NoClient ELSE peer[longTask]

Service == INSTANCE GuideService WITH decided <- decidedBar, holder <- holderBar

(* The two threads with their queues, recycled objects, shared m_answer    *)
(* buffers and restarts implement the service: each step of theirs is one  *)
(* of its steps or invisible to it.                                        *)
ImplementsService == Service!Spec

(* lin_guider.cpp:979 "return connection to server": once the eventfd has  *)
(* been drained nothing that was returned is left behind in m_out_queue.   *)
NoStrandedReply == outQueue # <<>> => efd \/ main = "notify"
=============================================================================
