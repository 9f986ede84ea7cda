---------------------------- MODULE GuideService ----------------------------
(***************************************************************************)
(* What the users of the guiding commands may rely on, without threads,    *)
(* queues or connection objects: every remote_client has at most one       *)
(* answer, decided once, for the command it sent; one dither runs at a     *)
(* time, its "finished" goes to the client that asked for it, and "BUSY"   *)
(* is said only while another one runs.  An answer can get lost (a restart *)
(* of the server, a client that hung up), never be altered or repeated.    *)
(***************************************************************************)
CONSTANTS
  Client,   \* the remote_client processes
  NoClient  \* nobody

VARIABLES
  request,  \* the command of each client
  decided,  \* what the main thread has answered, or that it is lost
  reply,    \* what the client has received
  holder    \* the client whose dither is running

serviceVars == <<request, decided, reply, holder>>

Command == {"quick", "dither", "calibrate"}
None    == "none"
Lost    == "lost"
NoReply == [cmd |-> None, text |-> None]

Init ==
  /\ request = [c \in Client |-> None]
  /\ decided = [c \in Client |-> None]
  /\ reply = [c \in Client |-> NoReply]
  /\ holder = NoClient

Open(c) == request[c] # None /\ decided[c] = None /\ c # holder

Ask(c, cmd) ==
  /\ request[c] = None
  /\ request' = [request EXCEPT ![c] = cmd]
  /\ UNCHANGED <<decided, reply, holder>>

BeginDither(c) ==
  /\ Open(c)
  /\ request[c] = "dither"
  /\ holder = NoClient
  /\ holder' = c
  /\ UNCHANGED <<request, decided, reply>>

EndDither ==
  /\ holder # NoClient
  /\ decided' = [decided EXCEPT ![holder] = "finished"]
  /\ holder' = NoClient
  /\ UNCHANGED <<request, reply>>

Decide(c, text) ==
  /\ Open(c)
  /\ \/ request[c] # "dither" /\ text = "ok"
     \/ request[c] = "dither" /\ holder = NoClient /\ text = "error"
     \/ request[c] = "dither" /\ holder # NoClient /\ text = "busy"
  /\ decided' = [decided EXCEPT ![c] = text]
  /\ UNCHANGED <<request, reply, holder>>

Deliver(c) ==
  /\ decided[c] \notin {None, Lost}
  /\ reply[c] = NoReply
  /\ reply' = [reply EXCEPT ![c] = [cmd |-> request[c], text |-> decided[c]]]
  /\ UNCHANGED <<request, decided, holder>>

Lose(S) ==
  /\ \A c \in S : request[c] # None /\ reply[c] = NoReply /\ c # holder
  /\ decided' = [c \in Client |-> IF c \in S THEN Lost ELSE decided[c]]
  /\ UNCHANGED <<request, reply, holder>>

Next ==
  \/ \E c \in Client, cmd \in Command : Ask(c, cmd)
  \/ \E c \in Client : BeginDither(c) \/ Deliver(c)
  \/ \E c \in Client, text \in {"ok", "error", "busy"} : Decide(c, text)
  \/ EndDither
  \/ \E S \in SUBSET Client : Lose(S)

Spec == Init /\ [][Next]_serviceVars
=============================================================================
