-------------------------- MODULE VncSessionProofs --------------------------
(***************************************************************************)
(* What noVNC shows, for every number of sessions, whatever servers send   *)
(* and however it is cut into WebSocket messages, if users click on        *)
(* Disconnect once (Patient).  The page shows the state of the session it  *)
(* has now: timers and socket events of an earlier session find nothing    *)
(* left to report (PageTellsTruth).  What is read as a header is one       *)
(* (HeadersAreHeaders), and the canvas is what was sent, in its order      *)
(* (DrawnAsSent): the stream is followed through the states of the         *)
(* session, with the handlers of VncStreamProofs.                          *)
(***************************************************************************)
EXTENDS VncStreamProofs

(* The values of _rfb_state.                                               *)
RfbState == Over \cup {"loaded", "connect", "ProtocolVersion", "Security", "Authentication",
                        "SecurityResult", "ServerInitialisation", "normal", "disconnect"}

(* The part of the state that tells sessions apart.                        *)
SessionType ==
  /\ cur \in 0..MaxSessions
  /\ rfbState \in [Session -> RfbState] /\ uiState \in RfbState
  /\ onClose \in [Session -> BOOLEAN] /\ disconnTimer \in [Session -> BOOLEAN]
  /\ lostTimers \in [Session -> Nat] /\ failTimer \in [Session -> BOOLEAN]

(* Sessions before this one are over, and those after it have not begun.   *)
Past == \A s \in Session : /\ s < cur => rfbState[s] \in Over
                           /\ s > cur => rfbState[s] = "loaded"

(* A timer runs for this session only, and in the state it belongs to.     *)
OwnTimers ==
  \A s \in Session : /\ disconnTimer[s] => s = cur /\ rfbState[s] = "disconnect"
                     /\ failTimer[s] => s = cur /\ rfbState[s] = "failed"
                     /\ lostTimers[s] = 0

(* What the page says, also before the first session.                      *)
Told ==
  IF cur = 0 THEN uiState = "loaded"
  ELSE /\ rfbState[cur] # "loaded"
       /\ uiState = rfbState[cur] \/ (uiState = "disconnected" /\ rfbState[cur] = "failed")

(* The inductive invariant, but for the sockets (Unopened).                *)
UInv == SessionType /\ Past /\ OwnTimers /\ Told
-----------------------------------------------------------------------------
(* A session that is reported on is this one.                              *)
LEMMA LeaveKeeps ==
  ASSUME UInv, NEW s \in Session, NEW state \in Over \cup {"disconnect"},
         s = cur, rfbState[s] \notin {"loaded"}, Leave(s, state),
         lostTimers' = lostTimers
  PROVE  UInv'
<1>0. rfbState \in [Session -> RfbState] /\ disconnTimer \in [Session -> BOOLEAN]
      /\ failTimer \in [Session -> BOOLEAN] /\ onClose \in [Session -> BOOLEAN]
  BY DEF UInv, SessionType
<1>1. state \in RfbState
  BY DEF RfbState
<1>2. /\ uiState' = state /\ cur' = cur
      /\ rfbState' \in [Session -> RfbState]
      /\ rfbState'[s] =
           (IF rfbState[s] = "failed" /\ state = "disconnected" THEN "failed" ELSE state)
      /\ \A t \in Session : t # s => rfbState'[t] = rfbState[t]
  BY <1>0, <1>1 DEF Leave, Reported
<1>3. /\ disconnTimer' \in [Session -> BOOLEAN] /\ disconnTimer'[s] = (state = "disconnect")
      /\ \A t \in Session : t # s => disconnTimer'[t] = disconnTimer[t]
  BY <1>0 DEF Leave
<1>4. /\ failTimer' \in [Session -> BOOLEAN] /\ failTimer'[s] = (state = "failed")
      /\ \A t \in Session : t # s => failTimer'[t] = failTimer[t]
  BY <1>0 DEF Leave, Reported
<1>5. onClose' \in [Session -> BOOLEAN]
  BY <1>0 DEF Leave
<1>6. SessionType'
  BY <1>0, <1>1, <1>2, <1>3, <1>4, <1>5 DEF UInv, SessionType
<1>7. Past'
  BY <1>2 DEF UInv, Past
<1>8. OwnTimers'
  BY <1>2, <1>3, <1>4 DEF UInv, OwnTimers, SessionType, Over
<1>9. Told'
  BY <1>2 DEF UInv, SessionType, Told, Over, Session
<1> QED BY <1>6, <1>7, <1>8, <1>9 DEF UInv

(* A session goes on to its next state.                                    *)
LEMMA EnterKeeps ==
  ASSUME SessionAssumption, UInv, NEW old \in RfbState, In(old),
         old \notin Over \cup {"loaded", "disconnect"},
         NEW state \in RfbState \ {"loaded"}, Enter(state)
  PROVE  UInv'
<1>1. cur \in Session /\ rfbState[cur] = old
  BY SessionAssumption DEF In, Session, UInv, SessionType, SessionAssumption
<1>2. rfbState \in [Session -> RfbState]
  BY DEF UInv, SessionType
<1>3. /\ rfbState' \in [Session -> RfbState] /\ rfbState'[cur] = state /\ uiState' = state
      /\ \A t \in Session : t # cur => rfbState'[t] = rfbState[t]
      /\ UNCHANGED <<cur, onClose, disconnTimer, lostTimers, failTimer>>
  BY <1>1, <1>2 DEF Enter
<1>4. SessionType'
  BY <1>3 DEF UInv, SessionType
<1>5. Past'
  <2> SUFFICES ASSUME NEW t \in Session
               PROVE  /\ t < cur => rfbState'[t] \in Over
                      /\ t > cur => rfbState'[t] = "loaded"
    BY <1>3 DEF Past
  <2> QED BY <1>1, <1>3 DEF UInv, Past, SessionType, Session
<1>6. OwnTimers'
  BY <1>1, <1>3 DEF UInv, OwnTimers, Over
<1>7. Told'
  BY <1>1, <1>3 DEF Told, Session
<1> QED BY <1>4, <1>5, <1>6, <1>7 DEF UInv

(* Nothing is reported.                                                    *)
LEMMA Quiet ==
  ASSUME UInv,
         UNCHANGED <<cur, rfbState, uiState, onClose, disconnTimer, lostTimers, failTimer>>
  PROVE  UInv'
BY DEF UInv, SessionType, Past, OwnTimers, Told

(* UI.connect().                                                           *)
LEMMA ConnectKeeps ==
  ASSUME SessionAssumption, UInv, Connect
  PROVE  UInv'
<1>1. /\ cur' = cur + 1 /\ cur' \in Session /\ cur' \in 0..MaxSessions
      /\ rfbState \in [Session -> RfbState]
  BY DEF Connect, UInv, SessionType, Session, SessionAssumption
<1>2. /\ rfbState' \in [Session -> RfbState] /\ rfbState'[cur'] = "connect" /\ uiState' = "connect"
      /\ \A t \in Session : t # cur' => rfbState'[t] = rfbState[t]
      /\ UNCHANGED <<onClose, disconnTimer, lostTimers, failTimer>>
  BY <1>1 DEF Connect, RfbState
<1>a. uiState \in Over \cup {"loaded"} /\ \A s \in Session : ~failTimer[s]
  BY DEF Connect
<1>3. cur \in Session => rfbState[cur] \in Over
  BY <1>a DEF UInv, Told, Over, Session
<1>4. SessionType'
  BY <1>1, <1>2 DEF UInv, SessionType
<1>5. Past'
  BY <1>1, <1>2, <1>3 DEF UInv, Past, Session, SessionType
<1>6. OwnTimers'
  <2>1. \A s \in Session : ~disconnTimer[s] /\ ~failTimer[s] /\ lostTimers[s] = 0
    BY <1>3, <1>a DEF UInv, OwnTimers, Over
  <2> QED BY <1>2, <2>1 DEF OwnTimers
<1>7. Told'
  BY <1>1, <1>2 DEF Told, UInv, SessionType
<1> QED BY <1>4, <1>5, <1>6, <1>7 DEF UInv

(* UI.disconnect() by a user who has not clicked on it before.             *)
LEMMA DisconnectKeeps ==
  ASSUME SessionAssumption, Patient, UInv, Disconnect
  PROVE  UInv'
<1>1. /\ cur \in Session /\ rfbState[cur] # "disconnect" /\ rfbState[cur] # "loaded"
      /\ Leave(cur, "disconnect")
  BY DEF Disconnect, In, UInv, Told, SessionType, Session, Over, SessionAssumption
<1>2. ~disconnTimer[cur]
  BY <1>1 DEF UInv, OwnTimers
<1>3. lostTimers' = [lostTimers EXCEPT ![cur] = lostTimers[cur]]
  BY <1>2 DEF Disconnect
<1>4. lostTimers' = lostTimers
  BY <1>3 DEF UInv, SessionType
<1> QED BY <1>1, <1>4, LeaveKeeps

(* A timer ends.                                                           *)
LEMMA TimeoutKeeps ==
  ASSUME SessionAssumption, UInv, NEW s \in Session, DisconnTimeout(s) \/ FailTimer(s)
  PROVE  UInv'
<1>1. CASE DisconnTimeout(s)
  <2>1. disconnTimer[s] /\ lostTimers[s] = 0
    BY <1>1 DEF DisconnTimeout, UInv, OwnTimers
  <2>2. s = cur /\ rfbState[s] = "disconnect" /\ Leave(s, "failed")
    BY <1>1, <2>1 DEF DisconnTimeout, UInv, OwnTimers
  <2>3. lostTimers' = [lostTimers EXCEPT ![s] = lostTimers[s]]
    BY <1>1, <2>1 DEF DisconnTimeout
  <2>4. lostTimers' = lostTimers
    BY <2>3 DEF UInv, SessionType
  <2> QED BY <2>2, <2>4, LeaveKeeps DEF Over
<1>2. CASE FailTimer(s)
  <2>1. s = cur /\ rfbState[s] = "failed" /\ Leave(s, "disconnected") /\ lostTimers' = lostTimers
    BY <1>2 DEF FailTimer, UInv, OwnTimers
  <2> QED BY <2>1, LeaveKeeps DEF Over
<1> QED BY <1>1, <1>2

(* A socket is closed: that of a session that is over tells nothing.       *)
LEMMA OnCloseKeeps ==
  ASSUME SessionAssumption, UInv, NEW s \in Session, OnClose(s), socket[s] # "none",
         \A t \in Session : t > cur => socket[t] = "none"
  PROVE  UInv'
<1>1. CASE onClose[s] /\ rfbState[s] \notin Over
  <2>1. /\ s = cur /\ rfbState[s] # "loaded" /\ lostTimers' = lostTimers
        /\ Leave(s, IF rfbState[s] = "disconnect" THEN "disconnected" ELSE "failed")
    BY <1>1 DEF OnClose, UInv, Past, Told, Session, SessionType
  <2> QED BY <2>1, LeaveKeeps DEF Over
<1>2. CASE ~(onClose[s] /\ rfbState[s] \notin Over)
  BY <1>2, Quiet DEF OnClose
<1> QED BY <1>1, <1>2

(* A session that has not begun has no socket.                             *)
Unopened ==
  /\ socket \in [Session -> {"none", "connecting", "open", "closing", "ended", "closed"}]
  /\ \A s \in Session : s > cur => socket[s] = "none"

(* CloseSocket() opens none, and cur stays.                                *)
LEMMA SocketStays ==
  ASSUME Unopened, cur' = cur, NEW s \in Session,
         \/ CloseSocket(s)
         \/ socket' = [socket EXCEPT ![s] = "open"] /\ socket[s] # "none"
         \/ socket' = [socket EXCEPT ![s] = "ended"] /\ socket[s] # "none"
         \/ socket' = [socket EXCEPT ![s] = "closed"] /\ socket[s] # "none"
         \/ socket' = socket
  PROVE  Unopened'
BY DEF Unopened, CloseSocket

(* A handler of rfb.js keeps both.                                         *)
LEMMA HandlerKeeps ==
  ASSUME SessionAssumption, UInv, Unopened, InitMsg \/ Unsupported
  PROVE  UInv' /\ Unopened'
<1>1. CASE Fail
  <2>1. /\ cur \in Session /\ rfbState[cur] # "loaded" /\ Leave(cur, "failed")
        /\ lostTimers' = lostTimers /\ CloseSocket(cur)
    BY <1>1 DEF InitMsg, Unsupported, Fail, NegotiateVersion, NegotiateSecurity,
                NegotiateAuthentication, HandleSecurityResult, NegotiateServerInit, In, UInv,
                SessionType, Session, SessionAssumption
  <2>2. cur' = cur
    BY <2>1 DEF Leave, Reported
  <2> QED BY <2>1, <2>2, LeaveKeeps, SocketStays DEF Over
<1>2. CASE Waits
  <2>1. UNCHANGED <<cur, rfbState, uiState, onClose, disconnTimer, lostTimers, failTimer, socket>>
    BY <1>2 DEF Waits, sessionVars
  <2> QED BY <2>1, Quiet DEF Unopened
<1>3. ASSUME NEW old \in {"ProtocolVersion", "Security", "Authentication", "SecurityResult",
                          "ServerInitialisation"},
             NEW state \in {"Security", "Authentication", "SecurityResult",
                            "ServerInitialisation", "normal"},
             In(old), Enter(state), socket' = socket
      PROVE  UInv' /\ Unopened'
  <2>1. cur' = cur
    BY <1>3 DEF Enter
  <2>2. old \in RfbState /\ old \notin Over \cup {"loaded", "disconnect"}
        /\ state \in RfbState \ {"loaded"}
    BY <1>3 DEF RfbState, Over
  <2>3. UInv'
    BY <1>3, <2>2, EnterKeeps
  <2> QED BY <1>3, <2>1, <2>3 DEF Unopened
<1>4. CASE NegotiateVersion
  <2>1. CASE UNCHANGED <<cur, rfbState, uiState, onClose, disconnTimer, lostTimers, failTimer, socket>>
    BY <2>1, Quiet DEF Unopened
  <2> QED BY <1>1, <1>3, <1>4, <2>1 DEF NegotiateVersion, Returns
<1>5. CASE NegotiateSecurity
  BY <1>1, <1>2, <1>3, <1>5 DEF NegotiateSecurity, ChooseType, Initialise
<1>6. CASE NegotiateAuthentication
  BY <1>1, <1>3, <1>6 DEF NegotiateAuthentication, Returns
<1>7. CASE HandleSecurityResult
  BY <1>1, <1>2, <1>3, <1>7 DEF HandleSecurityResult, Initialise, Returns
<1>8. CASE NegotiateServerInit
  BY <1>2, <1>3, <1>8 DEF NegotiateServerInit, Returns
<1>9. CASE Unsupported
  BY <1>1, <1>9 DEF Unsupported
<1> QED BY <1>4, <1>5, <1>6, <1>7, <1>8, <1>9 DEF InitMsg

(* Every step keeps both.                                                  *)
LEMMA SessionStep ==
  ASSUME SessionAssumption, Patient, UInv, Unopened, [Next]_vars
  PROVE  UInv' /\ Unopened'
<1>0. cur > 0 /\ cur \in 0..MaxSessions => cur \in Session
  BY SessionAssumption DEF Session, SessionAssumption
<1>1. ASSUME UNCHANGED sessionVars PROVE UInv' /\ Unopened'
  <2>1. UNCHANGED <<cur, rfbState, uiState, onClose, disconnTimer, lostTimers, failTimer, socket>>
    BY <1>1 DEF sessionVars
  <2> QED BY <2>1, Quiet DEF Unopened
<1>2. CASE Handler
  BY <1>1, <1>2, HandlerKeeps DEF Handler
<1>3. CASE Updated \/ Received \/ Shows \/ CutSent
  BY <1>1, <1>3 DEF Updated, Received, Shows, CutSent
<1>4. CASE ServerAnswers
  <2>1. UNCHANGED <<cur, rfbState, uiState, onClose, disconnTimer, lostTimers, failTimer, socket>>
    BY <1>4 DEF ServerAnswers
  <2> QED BY <2>1, Quiet DEF Unopened
<1>5. CASE Open
  <2>1. /\ In("connect") /\ Enter("ProtocolVersion") /\ cur' = cur /\ socket[cur] = "connecting"
        /\ socket' = [socket EXCEPT ![cur] = "open"] /\ cur \in Session
    BY <1>0, <1>5 DEF Open, Enter, In, UInv, SessionType
  <2>2. UInv'
    BY <2>1, EnterKeeps DEF RfbState, Over
  <2> QED BY <2>1, <2>2, SocketStays
<1>6. ASSUME NEW s \in Session, DisconnTimeout(s) \/ FailTimer(s) PROVE UInv' /\ Unopened'
  <2>1. CloseSocket(s) /\ cur' = cur
    BY <1>6 DEF DisconnTimeout, FailTimer, Leave, Reported
  <2> QED BY <1>6, <2>1, TimeoutKeeps, SocketStays
<1>7. ASSUME NEW s \in Session, Closed(s) \/ CloseAnswered(s) PROVE UInv' /\ Unopened'
  <2>1. socket[s] # "none" /\ OnClose(s)
    BY <1>7 DEF Closed, CloseAnswered
  <2>2. socket' = [socket EXCEPT ![s] = "closed"] /\ cur' = cur
    BY <2>1 DEF OnClose, Leave, Reported
  <2>3. UInv'
    BY <2>1, OnCloseKeeps DEF Unopened
  <2> QED BY <2>1, <2>2, <2>3, SocketStays
<1>8. ASSUME NEW s \in Session, PeerCloses(s) PROVE UInv' /\ Unopened'
  <2>1. /\ socket[s] # "none" /\ socket' = [socket EXCEPT ![s] = "ended"]
        /\ UNCHANGED <<cur, rfbState, uiState, onClose, disconnTimer, lostTimers, failTimer>>
    BY <1>8 DEF PeerCloses
  <2> QED BY <2>1, Quiet, SocketStays
<1>9. CASE Connect
  <2>1. socket' = [socket EXCEPT ![cur + 1] = "connecting"] /\ cur' = cur + 1
    BY <1>9 DEF Connect
  <2>2. cur \in Nat
    BY SessionAssumption DEF UInv, SessionType, SessionAssumption
  <2>3. Unopened'
    <3>1. socket' \in [Session -> {"none", "connecting", "open", "closing", "ended", "closed"}]
      BY <2>1 DEF Unopened
    <3>2. ASSUME NEW s \in Session, s > cur' PROVE socket'[s] = "none"
      <4>1. s > cur /\ s # cur + 1
        BY <2>1, <2>2, <3>2 DEF Session
      <4> QED BY <2>1, <4>1 DEF Unopened
    <3> QED BY <3>1, <3>2 DEF Unopened
  <2> QED BY <1>9, <2>3, ConnectKeeps
<1>10. CASE Disconnect
  <2>1. CloseSocket(cur) /\ cur' = cur /\ cur \in Session
    BY <1>0, <1>10 DEF Disconnect, Leave, Reported, UInv, Told, SessionType, Over
  <2> QED BY <1>10, <2>1, DisconnectKeeps, SocketStays
<1>11. CASE UNCHANGED vars
  BY <1>1, <1>11 DEF vars
<1> QED
  BY <1>2, <1>3, <1>4, <1>5, <1>6, <1>7, <1>8, <1>9, <1>10, <1>11 DEF Next, Progress

(* Before the first session.                                               *)
LEMMA SessionBegins == ASSUME SessionAssumption, Init PROVE UInv /\ Unopened
<1>1. SessionType
  BY DEF Init, SessionType, SessionAssumption, RfbState
<1>2. Past /\ OwnTimers /\ Told /\ Unopened
  BY DEF Init, Past, OwnTimers, Told, Unopened, Session
<1> QED BY <1>1, <1>2 DEF UInv
-----------------------------------------------------------------------------
(* The page shows the state of the session it has now, for every number of *)
(* sessions and of connections that break or hang, if users click on       *)
(* Disconnect once (ui.js, _updateState() and its timers in rfb.js).       *)
THEOREM PageTellsTruth == Patient /\ Spec => []UiTruth
<1>1. Init => UInv /\ Unopened
  BY SessionAssumption, SessionBegins
<1>2. (UInv /\ Unopened) /\ Patient /\ [Next]_vars => (UInv /\ Unopened)'
  BY SessionAssumption, SessionStep
<1>3. UInv => UiTruth
  BY DEF UInv, Told, UiTruth, SessionType
<1>4. CASE Patient
  BY <1>1, <1>2, <1>3, <1>4, PTL DEF Spec
<1> QED BY <1>4
-----------------------------------------------------------------------------
(* What has come is a part of what was sent.                               *)
LEMMA LeadsPrefix ==
  ASSUME NEW E, NEW p, NEW q, NEW U, NEW s \in Seq(U), NEW t \in Seq(U), Leads(E, p, s \o t, q)
  PROVE  \E m : Leads(E, p, s, m)
<1>1. Len(s) \in Nat /\ Len(t) \in Nat
  BY LenProperties
<1>2. /\ Len(s \o t) = Len(s) + Len(t)
      /\ \A i \in 1..(Len(s) + Len(t)) : (s \o t)[i] = IF i <= Len(s) THEN s[i] ELSE t[i - Len(s)]
  BY ConcatProperties
<1>3. PICK a : /\ a[1] = p
               /\ \A i \in 1..Len(s \o t) : Fits(E, a[i], (s \o t)[i]) /\ a[i + 1] = After(a[i], (s \o t)[i])
  BY DEF Leads
<1>4. ASSUME NEW i \in 1..Len(s) PROVE Fits(E, a[i], s[i]) /\ a[i + 1] = After(a[i], s[i])
  <2>1. i \in 1..Len(s \o t) /\ (s \o t)[i] = s[i]
    BY <1>1, <1>2
  <2> QED BY <1>3, <2>1
<1>5. Leads(E, p, s, a[Len(s) + 1])
  BY <1>3, <1>4 DEF Leads
<1> QED BY <1>5

(* With more rectangles allowed.                                           *)
LEMMA LeadsMore ==
  ASSUME NEW p, NEW q, NEW s, NEW E, Leads({}, p, s, q)
  PROVE  Leads(E, p, s, q)
<1>1. \A r, u : Fits({}, r, u) => Fits(E, r, u)
  <2> SUFFICES ASSUME NEW r, NEW u, Fits({}, r, u) PROVE Fits(E, r, u)
    OBVIOUS
  <2>1. r.at # "rect"
    BY DEF Fits, Names
  <2> QED BY <2>1 DEF Fits, Names
<1> QED BY <1>1 DEF Leads

(* States of a session: nothing is on its way; the handshake; the stream.  *)
Still   == Over \cup {"connect", "disconnect"}
Talking == {"ProtocolVersion", "Security", "Authentication", "SecurityResult"}
Going   == In("ServerInitialisation") \/ In("normal")

(* Nothing of an update has been taken or drawn in this session.           *)
Fresh ==
  /\ FBU = NoFBU /\ pc \in {"idle", "start"} /\ msgTimer = FALSE
  /\ drawn = <<>> /\ renderQ = <<>> /\ sent = 0 /\ owed = 0 /\ family = "tight"

(* ... and nothing is on its way, nor owed.                                *)
Silent == Fresh /\ rQ = <<>> /\ net = <<>> /\ pc = "idle" /\ due = "nothing"

(* What a server may still owe in a state of the handshake.                *)
Awaited(state) ==
  CASE state = "ProtocolVersion" -> {"version", "server"}
    [] state = "Security"        -> {"types"}
    [] state = "Authentication"  -> IF scheme = 0 THEN {} ELSE {"challenge"}
    [] state = "SecurityResult"  -> {"result"}
    [] state = "ServerInitialisation" -> {"init"}

(* A message of the handshake, or as much of it as came.  A server of      *)
(* version 3.3 says its choice and what follows from it at once.           *)
Message(state, s) ==
  /\ s[1].k \in Expected(state)
  /\ Len(s) <= 2
  /\ state = "Security" =>
       /\ version = 33 => s[1].n = 0
       /\ version # 33 => s[1].id = 0 \/ s[1].n = 1
  /\ Len(s) = 2 =>
       /\ state # "Authentication"
       /\ state = "SecurityResult" => s[1].n # 0
       /\ state = "Security" /\ version = 33 =>
            s[1].id # 1 /\ s[2].k = IF s[1].id = 0 THEN "reason" ELSE "challenge"

(* A server says one thing at a time.                                      *)
Said(state, s) ==
  /\ due \in {"nothing"} \cup Awaited(state)
  /\ s # <<>> => due = "nothing" /\ Message(state, s)

(* What has come and what is on its way lead from where the client is to   *)
(* where the server is, as long as the server has not closed.              *)
Placed == \E q : /\ Leads(Allowed, Here, rQ \o net, q)
                 /\ socket[cur] = "open" /\ due = "nothing" => q = There

(* Only in the state normal is an update taken apart.                      *)
Control == (pc \in {"rects", "decode"} => In("normal")) /\ (pc = "start" => cur > 0)

(* What is on its way in each state of the session.                        *)
Phase ==
  /\ cur = 0 \/ rfbState[cur] \in Still => Silent
  /\ cur > 0 /\ rfbState[cur] \in Talking => Fresh /\ Said(rfbState[cur], rQ \o net)
  /\ In("ServerInitialisation") => Fresh /\ due \in {"nothing", "init"} /\ (rQ \o net # <<>> => due = "nothing")
  /\ In("normal") => due = "nothing"
  /\ Going => Placed

(* The socket of a session that is left is closed.                         *)
Sockets == \A s \in Session : socket[s] \in {"connecting", "open"} =>
             s = cur /\ rfbState[s] \notin Over \cup {"disconnect", "loaded"}

(* The inductive invariant of the stream.                                  *)
VInv == StreamType /\ Middle /\ Control /\ Phase /\ Sockets

-----------------------------------------------------------------------------
(* In the state normal.                                                    *)
LEMMA NormalStep ==
  ASSUME VInv, In("normal"), UNCHANGED sessionVars, StreamType', Middle',
         NEW q, Leads(Encodings', Here', rQ' \o net', q), socket[cur] = "open" => q = There'
  PROVE  VInv'
<1>1. In("normal")' /\ ~In("ServerInitialisation")' /\ cur' > 0 /\ rfbState'[cur'] = "normal"
      /\ socket' = socket /\ cur' = cur /\ due' = due /\ rfbState' = rfbState
  BY DEF sessionVars, In
<1>2. Placed'
  BY <1>1 DEF Placed, Allowed
<1>3. Phase'
  BY <1>1, <1>2 DEF Phase, VInv, Still, Over, Talking, Going
<1>4. Control'
  BY <1>1 DEF Control
<1>5. Sockets'
  BY <1>1 DEF Sockets, VInv
<1> QED BY <1>3, <1>4, <1>5 DEF VInv

(* What VInv says in the state normal.                                     *)
LEMMA InNormal ==
  ASSUME VInv, In("normal")
  PROVE  /\ StreamType /\ Middle /\ due = "nothing" /\ rQ \in Seq(Units) /\ net \in Seq(Units)
         /\ \E q : Leads(Encodings, Here, rQ \o net, q) /\ (socket[cur] = "open" => q = There)
<1>1. Placed /\ due = "nothing" /\ StreamType /\ Middle
  BY DEF VInv, Phase, Going
<1>2. Allowed = Encodings
  BY DEF Allowed
<1> QED BY <1>1, <1>2 DEF Placed, StreamType

(* _framebufferUpdate(): a handler.                                        *)
LEMMA DecodeKeeps ==
  ASSUME StreamAssumption, "refused" \notin Pseudo, VInv, In("normal"), Decode, UNCHANGED sessionVars
  PROVE  VInv'
<1>1. PICK q : Leads(Encodings, Here, rQ \o net, q) /\ (socket[cur] = "open" => q = There)
  BY InNormal
<1>2. StreamType /\ Middle
  BY DEF VInv
<1>3. PICK ops : Taken(ops, q)
  BY <1>1, <1>2, TakeRectangle
<1>4. UNCHANGED <<sent, owed, family>>
  BY DEF Decode
<1>5. There' = There /\ Encodings' = Encodings
  BY <1>4 DEF There, Encodings
<1> QED BY <1>1, <1>3, <1>5, NormalStep DEF Taken

(* Nothing is drawn.                                                       *)
LEMMA Undrawn ==
  ASSUME VInv, In("normal"), UNCHANGED sessionVars, UNCHANGED <<net, sent, owed, family, displayVars>>
  PROVE  /\ Coming' = Coming /\ Encodings' = Encodings /\ There' = There /\ net' = net
         /\ ~In("ServerInitialisation") /\ ~In("ServerInitialisation")'
         /\ Coming \in Nat /\ drawn' = drawn /\ renderQ' = renderQ
<1>1. Coming \in Nat
  BY LenProperties DEF Coming, VInv, StreamType
<1> QED BY <1>1 DEF Coming, displayVars, Encodings, There, sessionVars, In

(* _framebufferUpdate(): the header of the next rectangle.                 *)
LEMMA NextRectKeeps ==
  ASSUME StreamAssumption, VInv, In("normal"), NextRect, UNCHANGED sessionVars
  PROVE  VInv'
<1>1. PICK q : Leads(Encodings, Here, rQ \o net, q) /\ (socket[cur] = "open" => q = There)
  BY InNormal
<1>2. StreamType /\ Middle /\ rQ \in Seq(Units) /\ net \in Seq(Units) /\ FBU \in FBUs
  BY InNormal DEF StreamType
<1>3. pc = "rects" /\ FBU.rects > 0 /\ FBU.rects \in Nat /\ FBU.rects # 0 /\ FBU.bytes \in Nat
  BY <1>2 DEF NextRect, FBUs
<1>4. UNCHANGED <<net, sent, owed, family, displayVars>>
  BY DEF NextRect
<1>5. /\ Coming' = Coming /\ Encodings' = Encodings /\ There' = There /\ net' = net
      /\ ~In("ServerInitialisation") /\ ~In("ServerInitialisation")'
      /\ Coming \in Nat /\ drawn' = drawn /\ renderQ' = renderQ
  BY <1>4, Undrawn
<1>6. CASE ReturnFalse /\ UNCHANGED <<rQ, FBU>>
  <2>1. pc' = "idle" /\ rQ' = rQ /\ FBU' = FBU
    BY <1>6 DEF ReturnFalse
  <2>2. Here' = Here
    BY <1>3, <1>5, <2>1 DEF Here, Inner
  <2>3. StreamType' /\ Middle'
    BY <1>2, <1>3, <1>4, <1>5, <2>1 DEF StreamType, Middle
  <2> QED BY <1>1, <1>5, <2>1, <2>2, <2>3, NormalStep
<1>7. CASE FBU.bytes = 0 /\ ~Wait(1) /\ rQ[1].k # "unknown" /\ FBU' = [FBU EXCEPT !.enc = rQ[1].k] /\ rQ' = Shift(1) /\ pc' = "decode"
  <2> DEFINE u == rQ[1]
  <2>1. Len(rQ) >= 1
    BY <1>2, <1>7, WaitsFor
  <2>2. Here = Between(FBU.rects, Coming)
    BY <1>3, <1>5, <1>7 DEF Here
  <2>3. /\ Fits(Encodings, Here, u)
        /\ Leads(Encodings, After(Here, u), SubSeq(rQ, 2, Len(rQ)) \o net, q)
        /\ SubSeq(rQ, 2, Len(rQ)) \in Seq(Units) /\ Len(SubSeq(rQ, 2, Len(rQ))) = Len(rQ) - 1
    BY <1>1, <1>2, <2>1, TakeOne
  <2> HIDE DEF u
  <2>4. /\ Fits(Encodings, Between(FBU.rects, Coming), u) <=> u.k \in Encodings
        /\ After(Between(FBU.rects, Coming), u) = Within(u.k, 1, FBU.rects, Coming)
    BY <1>3, Header
  <2>5. u.k \in Encodings /\ u.k \in Names /\ Leads(Encodings, Within(u.k, 1, FBU.rects, Coming), rQ' \o net', q)
    <3>1. rQ' = SubSeq(rQ, 2, Len(rQ))
      BY <1>7 DEF Shift
    <3> QED BY <1>5, <2>2, <2>3, <2>4, <3>1, EncodingNames
  <2>6. rQ' \in Seq(Units)
    BY <1>7, <2>3 DEF Shift
  <2>7. FBU' = [FBU EXCEPT !.enc = u.k] /\ FBU.left = 0
    BY <1>3, <1>2, <1>7 DEF u, Middle
  <2>8. /\ FBU' \in FBUs /\ FBU'.enc = u.k /\ FBU'.rects = FBU.rects /\ FBU'.bytes = 0 /\ FBU'.left = 0
    BY <1>2, <1>7, <2>5, <2>7 DEF FBUs
  <2>9. StreamType' /\ Middle'
    BY <1>2, <1>3, <1>4, <1>5, <1>7, <2>5, <2>6, <2>8 DEF StreamType, Middle, u
  <2>10. Here' = Inner(FBU', Coming')
    BY <1>3, <1>5, <1>7, <2>8 DEF Here
  <2>11. Here' = Within(u.k, 1, FBU.rects, Coming)
    <3>1. Coming - 0 = Coming
      BY <1>5
    <3> QED BY <1>5, <2>8, <2>10, <3>1 DEF Inner, Pos, Begun
  <2> QED BY <1>1, <1>5, <2>5, <2>9, <2>11, NormalStep
<1>8. CASE FBU.bytes > 0 /\ ~Wait(FBU.bytes) /\ pc' = "decode" /\ UNCHANGED <<rQ, FBU, msgTimer>>
  <2>1. FBU.bytes # 0 /\ rQ' = rQ /\ FBU' = FBU
    BY <1>3, <1>8
  <2>2. Here' = Here
    BY <1>3, <1>5, <1>8, <2>1 DEF Here, Inner
  <2>3. StreamType' /\ Middle'
    BY <1>2, <1>3, <1>4, <1>5, <1>8, <2>1 DEF StreamType, Middle
  <2> QED BY <1>1, <1>5, <2>1, <2>2, <2>3, NormalStep
<1> QED BY <1>6, <1>7, <1>8 DEF NextRect

(* _framebufferUpdate(): after the last rectangle.                         *)
LEMMA UpdateCompleteKeeps ==
  ASSUME StreamAssumption, VInv, In("normal"), UpdateComplete, UNCHANGED sessionVars
  PROVE  VInv'
<1>1. PICK q : Leads(Encodings, Here, rQ \o net, q) /\ (socket[cur] = "open" => q = There)
  BY InNormal
<1>2. StreamType /\ Middle
  BY InNormal
<1>3. /\ pc = "rects" /\ FBU.rects = 0 /\ pc' = "idle" /\ rQ' = rQ /\ FBU' = FBU
      /\ UNCHANGED <<net, sent, owed, family, displayVars>>
  BY DEF UpdateComplete, ReturnTrue
<1>5. /\ Coming' = Coming /\ Encodings' = Encodings /\ There' = There /\ net' = net
      /\ ~In("ServerInitialisation") /\ ~In("ServerInitialisation")'
      /\ Coming \in Nat /\ drawn' = drawn /\ renderQ' = renderQ
  BY <1>3, Undrawn
<1>6. Here' = Here
  BY <1>3, <1>5 DEF Here
<1>7. StreamType' /\ Middle'
  BY <1>2, <1>3, <1>5 DEF StreamType, Middle
<1> QED BY <1>1, <1>3, <1>5, <1>6, <1>7, NormalStep

(* Between two messages.                                                   *)
LEMMA NormalMsgKeeps ==
  ASSUME StreamAssumption, VInv, In("normal"), NormalMsg, UNCHANGED sessionVars
  PROVE  VInv'
<1>1. PICK q : Leads(Encodings, Here, rQ \o net, q) /\ (socket[cur] = "open" => q = There)
  BY InNormal
<1>2. StreamType /\ Middle /\ rQ \in Seq(Units) /\ net \in Seq(Units) /\ FBU \in FBUs
  BY InNormal DEF StreamType
<1>3. pc = "start" /\ UNCHANGED <<net, sent, owed, family, displayVars>>
  BY DEF NormalMsg, CutText, UpdateHeader
<1>4. FBU.bytes \in Nat /\ FBU.rects \in Nat /\ Len(rQ) \in Nat
  BY <1>2, LenProperties DEF FBUs
<1>5. /\ Coming' = Coming /\ Encodings' = Encodings /\ There' = There /\ net' = net
      /\ ~In("ServerInitialisation") /\ ~In("ServerInitialisation")'
      /\ Coming \in Nat /\ drawn' = drawn /\ renderQ' = renderQ
  BY <1>3, Undrawn
<1>6. CASE pc' \in {"idle", "rects"} /\ rQ' = rQ /\ FBU' = FBU
  <2>1. Here' = Here
    BY <1>3, <1>5, <1>6 DEF Here, Inner
  <2>2. StreamType'
    BY <1>2, <1>3, <1>5, <1>6 DEF StreamType
  <2>3. Middle'
    BY <1>2, <1>3, <1>5, <1>6 DEF Middle
  <2> QED BY <1>1, <1>5, <1>6, <2>1, <2>2, <2>3, NormalStep
<1>7. ASSUME FBU.rects = 0 PROVE Here = At("msg", Coming) /\ FBU.left = 0 /\ FBU.bytes = 0
  BY <1>2, <1>5, <1>7 DEF Here, Between, Middle
<1>8. CASE /\ FBU.rects = 0 /\ rQ # <<>> /\ rQ[1].k = "cut" /\ CutComplete
           /\ rQ' = Shift(2 + rQ[2].n) /\ pc' = "idle" /\ FBU' = FBU
  <2> DEFINE p == At("msg", Coming)
  <2>1. Len(rQ) >= 2 /\ Leads(Encodings, p, rQ \o net, q)
    BY <1>1, <1>7, <1>8 DEF CutComplete
  <2>2. Fits(Encodings, p, rQ[1]) /\ Fits(Encodings, After(p, rQ[1]), rQ[2])
        /\ Leads(Encodings, After(After(p, rQ[1]), rQ[2]), SubSeq(rQ, 3, Len(rQ)) \o net, q)
        /\ SubSeq(rQ, 3, Len(rQ)) \in Seq(Units) /\ Len(SubSeq(rQ, 3, Len(rQ))) = Len(rQ) - 2
    BY <1>2, <2>1, TakeTwo
  <2>3. After(p, rQ[1]) = At("length", Coming)
    BY <1>8, Elsewhere
  <2>4. rQ[2].n = 1
    BY <2>2, <2>3, Elsewhere
  <2>5. Len(rQ) >= 3
    <3>1. ~Wait(3)
      BY <1>8, <2>4 DEF CutComplete
    <3> QED BY <1>2, <3>1, WaitsFor
  <2>6. /\ Fits(Encodings, p, rQ[1]) /\ Fits(Encodings, After(p, rQ[1]), rQ[2])
        /\ Fits(Encodings, After(After(p, rQ[1]), rQ[2]), rQ[3])
        /\ Leads(Encodings, After(After(After(p, rQ[1]), rQ[2]), rQ[3]), SubSeq(rQ, 4, Len(rQ)) \o net, q)
        /\ SubSeq(rQ, 4, Len(rQ)) \in Seq(Units) /\ Len(SubSeq(rQ, 4, Len(rQ))) = Len(rQ) - 3
    BY <1>2, <2>1, <2>5, TakeThree
  <2>7. After(At("length", Coming), rQ[2]) = At("text", Coming)
    BY Elsewhere
  <2>8. After(At("text", Coming), rQ[3]) = At("msg", Coming)
    BY Elsewhere
  <2>9. rQ' = SubSeq(rQ, 4, Len(rQ))
    BY <1>8, <2>4 DEF Shift
  <2>10. Here' = p
    BY <1>5, <1>8 DEF Here, Between
  <2>11. Leads(Encodings', Here', rQ' \o net', q)
    BY <1>5, <2>3, <2>6, <2>7, <2>8, <2>9, <2>10
  <2>12. StreamType' /\ Middle'
    BY <1>2, <1>3, <1>5, <1>7, <1>8, <2>6, <2>9 DEF StreamType, Middle
  <2> QED BY <1>1, <1>5, <2>11, <2>12, NormalStep
<1>9. CASE /\ FBU.rects = 0 /\ rQ # <<>> /\ rQ[1].k = "update" /\ ~Wait(2)
           /\ FBU' = [FBU EXCEPT !.rects = rQ[2].n, !.bytes = 0] /\ rQ' = Shift(2) /\ pc' = "rects"
  <2> DEFINE p == At("msg", Coming)
  <2>1. Len(rQ) >= 2 /\ Leads(Encodings, p, rQ \o net, q)
    BY <1>1, <1>2, <1>7, <1>9, WaitsFor
  <2>2. Fits(Encodings, p, rQ[1]) /\ Fits(Encodings, After(p, rQ[1]), rQ[2])
        /\ Leads(Encodings, After(After(p, rQ[1]), rQ[2]), SubSeq(rQ, 3, Len(rQ)) \o net, q)
        /\ SubSeq(rQ, 3, Len(rQ)) \in Seq(Units) /\ Len(SubSeq(rQ, 3, Len(rQ))) = Len(rQ) - 2
    BY <1>2, <2>1, TakeTwo
  <2>3. After(p, rQ[1]) = At("count", Coming)
    BY <1>9, Elsewhere
  <2>4. rQ[2].n > 0 /\ After(At("count", Coming), rQ[2]) = Between(rQ[2].n, Coming)
    BY <2>2, <2>3, Elsewhere
  <2>5. rQ[2] \in Units /\ rQ[2].n \in Nat
    <3>1. 2 \in 1..Len(rQ)
      BY <1>4, <2>1
    <3>2. rQ[2] \in Units
      BY <1>2, <3>1, ElementOfSeq
    <3> QED BY <3>2 DEF Units
  <2>6. rQ' = SubSeq(rQ, 3, Len(rQ))
    BY <1>9 DEF Shift
  <2>7. FBU' \in FBUs /\ FBU'.rects = rQ[2].n /\ FBU'.bytes = 0 /\ FBU'.left = 0
    BY <1>2, <1>7, <1>9, <2>5 DEF FBUs
  <2>8. Here' = Between(rQ[2].n, Coming)
    BY <1>5, <1>9, <2>7 DEF Here
  <2>9. Leads(Encodings', Here', rQ' \o net', q)
    BY <1>5, <2>2, <2>3, <2>4, <2>6, <2>8
  <2>10. StreamType' /\ Middle'
    <3>1. rQ[2].n # 0 /\ ~(0 > 0)
      BY <2>4, <2>5
    <3>2. StreamType'
      BY <1>2, <1>3, <1>5, <1>9, <2>2, <2>6, <2>7 DEF StreamType
    <3>3. Middle'
      BY <1>9, <2>7, <3>1 DEF Middle
    <3> QED BY <3>2, <3>3
  <2> QED BY <1>1, <1>5, <2>9, <2>10, NormalStep
<1>10. CASE CutText /\ FBU.rects = 0 /\ rQ # <<>>
  BY <1>6, <1>8, <1>10 DEF CutText, ReturnFalse, ReturnTrue
<1>11. CASE UpdateHeader /\ FBU.rects = 0 /\ rQ # <<>>
  BY <1>6, <1>9, <1>11 DEF UpdateHeader, ReturnFalse
<1>12. CASE (rQ = <<>> \/ FBU.rects > 0) /\ ~(rQ # <<>> /\ FBU.rects = 0)
  BY <1>6, <1>12 DEF NormalMsg, ReturnFalse
<1> QED BY <1>4, <1>10, <1>11, <1>12 DEF NormalMsg

(* No units.                                                               *)
LEMMA EmptyUnits ==
  ASSUME NEW U, NEW s \in Seq(U), NEW t \in Seq(U), s \o t = <<>>
  PROVE  s = <<>> /\ t = <<>>
<1>1. Len(s \o t) = Len(s) + Len(t) /\ Len(s) \in Nat /\ Len(t) \in Nat /\ Len(<<>>) = 0
  BY ConcatProperties, LenProperties
<1>2. Len(s) = 0 /\ Len(t) = 0
  BY <1>1
<1> QED BY <1>2, EmptySeq

(* What is on its way and what has come stay together.                     *)
LEMMA ReceiveKeepsStream ==
  ASSUME NEW U, NEW s \in Seq(U), NEW t \in Seq(U), NEW n \in 1..Len(t)
  PROVE  /\ s \o SubSeq(t, 1, n) \in Seq(U) /\ SubSeq(t, n + 1, Len(t)) \in Seq(U)
         /\ (s \o SubSeq(t, 1, n)) \o SubSeq(t, n + 1, Len(t)) = s \o t
<1> DEFINE a == SubSeq(t, 1, n)
           b == SubSeq(t, n + 1, Len(t))
<1>1. /\ Len(t) \in Nat /\ n \in 0..Len(t) /\ n \in Nat /\ 1 \in 1..(Len(t) + 1) /\ n \in (1 - 1)..Len(t)
      /\ Len(t) \in n..Len(t)
  BY LenProperties
<1>2. a \in Seq(U) /\ b \in Seq(U)
  BY <1>1, Beginning, Rest
<1>3. a \o b = SubSeq(t, 1, Len(t))
  BY <1>1, ConcatAdjacentSubSeq
<1>4. SubSeq(t, 1, Len(t)) = t
  BY SubSeqFull
<1> HIDE DEF a, b
<1>5. \A x, y \in Seq(U) : s \o x \in Seq(U) /\ (s \o x) \o y = s \o (x \o y)
  <2> TAKE x \in Seq(U), y \in Seq(U)
  <2>1. s \o x \in Seq(U)
    BY ConcatProperties
  <2>2. (s \o x) \o y = s \o (x \o y)
    BY ConcatAssociative, SMTT(30)
  <2> QED BY <2>1, <2>2
<1>6. s \o a \in Seq(U) /\ (s \o a) \o b = s \o (a \o b)
  BY <1>2, <1>5
<1> QED BY <1>2, <1>3, <1>4, <1>5, <1>6 DEF a, b

(* What is sent is put behind.                                             *)
LEMMA SendKeepsStream ==
  ASSUME NEW E, NEW p, NEW q, NEW r, NEW U, NEW s \in Seq(U), NEW t \in Seq(U), NEW new \in Seq(U),
         Leads(E, p, s \o t, q), Leads(E, q, new, r)
  PROVE  Leads(E, p, s \o (t \o new), r) /\ t \o new \in Seq(U)
<1>1. s \o t \in Seq(U) /\ t \o new \in Seq(U)
  BY ConcatProperties
<1>2. Leads(E, p, (s \o t) \o new, r)
  BY <1>1, LeadsBehind
<1>3. (s \o t) \o new = s \o (t \o new)
  BY ConcatAssociative, SMTT(30)
<1> QED BY <1>1, <1>2, <1>3

(* The server sends in a session that goes on.                             *)
LEMMA SendsKeep ==
  ASSUME VInv, Going, pc = "idle", socket[cur] = "open", due = "nothing",
         UNCHANGED <<cur, rfbState, socket, due, family, rQ, FBU, pc, msgTimer, displayVars>>,
         NEW new \in Seq(Units), net' = net \o new, sent' \in Nat, owed' \in Nat,
         In("ServerInitialisation") => sent' = sent /\ owed' = owed,
         Leads(Allowed, There, new, There')
  PROVE  VInv'
<1>1. Placed /\ StreamType /\ Middle /\ Control /\ Phase /\ Sockets
  BY DEF VInv, Phase
<1>2. Leads(Allowed, Here, rQ \o net, There)
  BY <1>1 DEF Placed
<1>3. rQ \in Seq(Units) /\ net \in Seq(Units)
  BY <1>1 DEF StreamType
<1>4. Leads(Allowed, Here, rQ \o net', There') /\ net' \in Seq(Units)
  BY <1>2, <1>3, SendKeepsStream
<1>5. /\ rQ' = rQ /\ Here' = Here /\ Allowed' = Allowed /\ Coming' = Coming
      /\ \A state : In(state)' = In(state)
  BY DEF Here, Allowed, In, Coming, displayVars, Encodings, Inner
<1>6. Placed'
  BY <1>4, <1>5 DEF Placed
<1>7. StreamType'
  BY <1>1, <1>4 DEF StreamType, displayVars
<1>8. Middle'
  BY <1>1 DEF Middle, Encodings
<1>9. Control' /\ Sockets'
  BY <1>1, <1>5 DEF Control, Sockets
<1>10. In("ServerInitialisation") => Fresh'
  BY <1>1 DEF Phase, Fresh, displayVars
<1>11. Phase'
  <2>1. cur > 0 /\ cur' = cur /\ rfbState'[cur] \in {"ServerInitialisation", "normal"}
    BY DEF Going, In
  <2>2. ~(cur' = 0 \/ rfbState'[cur'] \in Still) /\ rfbState'[cur'] \notin Talking
    BY <2>1 DEF Still, Over, Talking
  <2> QED BY <1>1, <1>5, <1>6, <1>10, <2>2 DEF Phase
<1> QED BY <1>7, <1>8, <1>9, <1>11 DEF VInv

(* Two units of a message.                                                 *)
LEMMA LeadsTwo ==
  ASSUME NEW E, NEW p, NEW u \in Units, NEW v \in Units, Fits(E, p, u), Fits(E, After(p, u), v)
  PROVE  Leads(E, p, <<u, v>>, After(After(p, u), v)) /\ <<u, v>> \in Seq(Units)
<1> DEFINE m == After(p, u)
           q == After(m, v)
           place == [i \in 1..3 |-> IF i = 1 THEN p ELSE IF i = 2 THEN m ELSE q]
<1>1. /\ place[1] = p /\ place[2] = m /\ place[3] = q /\ Len(<<u, v>>) = 2
      /\ <<u, v>>[1] = u /\ <<u, v>>[2] = v /\ 1..2 = {1, 2} /\ 1 + 1 = 2 /\ 2 + 1 = 3
  OBVIOUS
<1> HIDE DEF place
<1>2. Leads(E, p, <<u, v>>, q)
  BY <1>1 DEF Leads
<1>3. <<u, v>> \in Seq(Units)
  OBVIOUS
<1> QED BY ONLY <1>2, <1>3 DEF m, q

(* Three.                                                                  *)
LEMMA LeadsThree ==
  ASSUME NEW E, NEW p, NEW u \in Units, NEW v \in Units, NEW w \in Units,
         Fits(E, p, u), Fits(E, After(p, u), v), Fits(E, After(After(p, u), v), w)
  PROVE  Leads(E, p, <<u, v, w>>, After(After(After(p, u), v), w)) /\ <<u, v, w>> \in Seq(Units)
<1> DEFINE m == After(p, u)
           o == After(m, v)
           q == After(o, w)
           place == [i \in 1..4 |-> IF i = 1 THEN p ELSE IF i = 2 THEN m ELSE IF i = 3 THEN o ELSE q]
<1>1. /\ place[1] = p /\ place[2] = m /\ place[3] = o /\ place[4] = q /\ Len(<<u, v, w>>) = 3
      /\ <<u, v, w>>[1] = u /\ <<u, v, w>>[2] = v /\ <<u, v, w>>[3] = w
      /\ 1..3 = {1, 2, 3} /\ 1 + 1 = 2 /\ 2 + 1 = 3 /\ 3 + 1 = 4
  OBVIOUS
<1> HIDE DEF place
<1>2. Leads(E, p, <<u, v, w>>, q)
  BY <1>1 DEF Leads
<1>3. <<u, v, w>> \in Seq(Units)
  OBVIOUS
<1> QED BY ONLY <1>2, <1>3 DEF m, o, q

(* Units that are sent.                                                    *)
LEMMA UnitType ==
  ASSUME NEW k \in Kinds, NEW n \in Nat, NEW id \in Nat
  PROVE  Unit(k, n, id) \in Units /\ Unit(k, n, id).k = k /\ Unit(k, n, id).n = n
BY DEF Unit, Units

(* The server sends an update, header and rectangles one by one.           *)
LEMMA UpdatedKeeps ==
  ASSUME StreamAssumption, VInv, Updated
  PROVE  VInv'
<1>1. /\ pc = "idle" /\ In("normal") /\ socket[cur] = "open" /\ due = "nothing" /\ Going
      /\ ~In("ServerInitialisation") /\ UNCHANGED sessionVars /\ sent \in Nat /\ owed \in Nat
      /\ Allowed = Encodings
  BY InNormal DEF Updated, Idle, Going, StreamType, Allowed, In
<1>2. CASE \E rects \in 1..MaxRects : SendUpdate(rects)
  <2>1. PICK rects \in 1..MaxRects : SendUpdate(rects)
    BY <1>2
  <2> DEFINE u == Unit("update", 0, 0)
             v == Unit("count", rects, 0)
             p == At("msg", sent + 1)
  <2>2. rects \in Nat /\ rects > 0
    BY DEF StreamAssumption
  <2>k. {"update", "count"} \subseteq Kinds /\ 0 \in Nat
    BY DEF Kinds
  <2>u. u \in Units /\ u.k = "update" /\ u.n = 0
    BY <2>k, UnitType
  <2>v. v \in Units /\ v.k = "count" /\ v.n = rects
    BY <2>k, <2>2, UnitType
  <2>3. u \in Units /\ u.k = "update" /\ v \in Units /\ v.n = rects
    BY <2>u, <2>v
  <2>4. net' = net \o <<u, v>> /\ owed' = rects /\ sent' = sent /\ owed = 0
        /\ UNCHANGED <<family, rQ, FBU, pc, msgTimer, displayVars>>
    BY <2>1 DEF SendUpdate
  <2> HIDE DEF u, v
  <2>5. There = p /\ There' = Between(rects, sent + 1)
    BY <2>4 DEF There, Between
  <2>6. /\ Fits(Allowed, p, u) /\ After(p, u) = At("count", sent + 1)
    BY <2>3, Elsewhere
  <2>7. /\ Fits(Allowed, At("count", sent + 1), v)
        /\ After(At("count", sent + 1), v) = Between(rects, sent + 1)
    BY <2>2, <2>3, Elsewhere
  <2>8. Leads(Allowed, There, <<u, v>>, There') /\ <<u, v>> \in Seq(Units)
    BY <2>3, <2>5, <2>6, <2>7, LeadsTwo
  <2>9. sent' \in Nat /\ owed' \in Nat
    BY <1>1, <2>2, <2>4
  <2>10. UNCHANGED <<cur, rfbState, socket, due, family, rQ, FBU, pc, msgTimer, displayVars>>
    BY <1>1, <2>4 DEF sessionVars
  <2> HIDE DEF p
  <2> QED BY <1>1, <2>4, <2>8, <2>9, <2>10, SendsKeep
<1>3. CASE \E enc \in Encodings : SendRect(enc)
  <2>1. PICK enc \in Encodings : SendRect(enc)
    BY <1>3
  <2>2. enc \in Names /\ enc \in Allowed
    BY <1>1, EncodingNames
  <2>3. sent + 1 \in Nat /\ owed > 0 /\ owed # 0
    BY <1>1, <2>1 DEF SendRect
  <2>4. /\ Rectangle(enc, sent + 1) \in Seq(Units) /\ Drawing(enc) \in Nat
    BY <2>2, <2>3, RectangleType
  <2>5. net' = net \o Rectangle(enc, sent + 1) /\ owed' = Further(enc, owed) /\ sent' = sent + Drawing(enc)
        /\ UNCHANGED <<family, rQ, FBU, pc, msgTimer, displayVars>>
    BY <2>1 DEF SendRect, Further
  <2>6. sent' \in Nat /\ owed' \in Nat /\ sent + 1 + Drawing(enc) = sent' + 1
    BY <1>1, <2>3, <2>4, <2>5 DEF Further
  <2>7. There = Between(owed, sent + 1) /\ There' = Between(Further(enc, owed), sent + 1 + Drawing(enc))
    BY <2>5, <2>6 DEF There
  <2>8. Leads(Allowed, There, Rectangle(enc, sent + 1), There')
    BY <1>1, <2>2, <2>3, <2>7, LeadsRectangle
  <2>9. UNCHANGED <<cur, rfbState, socket, due, family, rQ, FBU, pc, msgTimer, displayVars>>
    BY <1>1, <2>5 DEF sessionVars
  <2> QED BY <1>1, <2>4, <2>5, <2>6, <2>8, <2>9, SendsKeep
<1> QED BY <1>2, <1>3 DEF Updated

(* The server sends its clipboard.                                         *)
LEMMA CutSentKeeps ==
  ASSUME StreamAssumption, VInv, CutSent
  PROVE  VInv'
<1> DEFINE u == Unit("cut", 0, 0)
           v == Unit("length", 1, 0)
           w == Unit("data", 0, 0)
           p == At("msg", sent + 1)
<1>1. /\ pc = "idle" /\ Going /\ socket[cur] = "open" /\ due = "nothing" /\ UNCHANGED sessionVars
      /\ owed = 0 /\ net' = net \o <<u, v, w>> /\ sent' = sent /\ owed' = owed
      /\ UNCHANGED <<family, rQ, FBU, pc, msgTimer, displayVars>>
  BY InNormal DEF CutSent, Idle, Going, SendCut
<1>2. sent \in Nat /\ owed \in Nat
  BY DEF VInv, StreamType
<1>k. {"cut", "length", "data"} \subseteq Kinds /\ 0 \in Nat /\ 1 \in Nat
  BY DEF Kinds
<1>u. u \in Units /\ u.k = "cut" /\ u.n = 0
  BY <1>k, UnitType
<1>v. v \in Units /\ v.k = "length" /\ v.n = 1
  BY <1>k, UnitType
<1>w. w \in Units /\ w.k = "data" /\ w.n = 0
  BY <1>k, UnitType
<1>3. u \in Units /\ u.k = "cut" /\ v \in Units /\ v.n = 1 /\ w \in Units
  BY <1>u, <1>v, <1>w
<1> HIDE DEF u, v, w
<1>4. There = p /\ There' = p
  BY <1>1 DEF There, Between
<1>5. Fits(Allowed, p, u) /\ After(p, u) = At("length", sent + 1)
  BY <1>3, Elsewhere
<1>6. Fits(Allowed, At("length", sent + 1), v) /\ After(At("length", sent + 1), v) = At("text", sent + 1)
  BY <1>3, Elsewhere
<1>7. Fits(Allowed, At("text", sent + 1), w) /\ After(At("text", sent + 1), w) = p
  BY Elsewhere
<1> HIDE DEF p
<1>8. After(After(After(p, u), v), w) = p
  BY <1>5, <1>6, <1>7
<1>9. Leads(Allowed, p, <<u, v, w>>, p) /\ <<u, v, w>> \in Seq(Units)
  BY <1>3, <1>5, <1>6, <1>7, <1>8, LeadsThree
<1>12. <<u, v, w>> \in Seq(Units) /\ Leads(Allowed, There, <<u, v, w>>, There')
  BY ONLY <1>4, <1>9
<1>13. UNCHANGED <<cur, rfbState, socket, due, family, rQ, FBU, pc, msgTimer, displayVars>>
  BY <1>1 DEF sessionVars
<1> QED BY <1>1, <1>2, <1>12, <1>13, SendsKeep

(* Nothing is taken, sent or drawn anew.                                   *)
LEMMA SameStream ==
  ASSUME VInv, UNCHANGED <<cur, rfbState, socket, version, scheme, due, sent, owed, family, FBU>>,
         pc \in {"idle", "start"}, pc' \in {"idle", "start"}, pc' = "start" => cur > 0,
         rQ' \in Seq(Units), net' \in Seq(Units), rQ' \o net' = rQ \o net,
         drawn' \in Seq(Ops), renderQ' \in Seq(Ops),
         Len(drawn') + Len(renderQ') = Len(drawn) + Len(renderQ),
         Silent => pc' = "idle" /\ rQ' = rQ /\ net' = net,
         msgTimer' \in {msgTimer, FALSE}
  PROVE  VInv'
<1>2. StreamType /\ Middle /\ Control /\ Phase /\ Sockets
  BY DEF VInv
<1>3. Coming' = Coming
  BY DEF Coming
<1>4. Here' = Here /\ There' = There /\ Allowed' = Allowed /\ \A state : In(state)' = In(state)
  <2>1. \A state : In(state)' = In(state)
    BY DEF In
  <2>2. Encodings' = Encodings
    BY DEF Encodings
  <2>3. Here' = Here
    BY <1>3, <2>1 DEF Here, In
  <2> QED BY <2>1, <2>2, <2>3 DEF There, Allowed, In
<1>5. StreamType' /\ Control' /\ Sockets'
  BY <1>2 DEF StreamType, Control, Sockets
<1>6. Middle'
  BY <1>2 DEF Middle, Encodings
<1>7. Going => Placed'
  BY <1>2, <1>4 DEF Phase, Placed
<1>8. Fresh => Fresh'
  <2> SUFFICES ASSUME Fresh PROVE Fresh'
    OBVIOUS
  <2>1. Len(drawn) = 0 /\ Len(renderQ) = 0
    BY DEF Fresh
  <2>2. Len(drawn') \in Nat /\ Len(renderQ') \in Nat
    BY LenProperties
  <2>3. Len(drawn') = 0 /\ Len(renderQ') = 0
    BY <2>1, <2>2
  <2>4. drawn' = <<>> /\ renderQ' = <<>>
    BY <2>3, EmptySeq
  <2> QED BY <2>4 DEF Fresh
<1>9. Silent => Silent'
  BY <1>8 DEF Silent
<1>10. Phase'
  <2>1. Going' = Going
    BY <1>4 DEF Going
  <2>2. \A state : Said(state, rQ \o net)' <=> Said(state, rQ \o net)
    BY DEF Said, Awaited, Message, Expected
  <2> QED BY <1>2, <1>4, <1>7, <1>8, <1>9, <2>1, <2>2 DEF Phase, Said
<1> QED BY <1>5, <1>6, <1>10 DEF VInv

(* A session that is silent after a step.                                  *)
LEMMA SilentKeeps ==
  ASSUME Silent', Sockets', cur' = 0 \/ rfbState'[cur'] \in Still
  PROVE  VInv'
<1>1. /\ FBU' = NoFBU /\ pc' = "idle" /\ drawn' = <<>> /\ renderQ' = <<>> /\ sent' = 0 /\ owed' = 0
      /\ family' = "tight" /\ rQ' = <<>> /\ net' = <<>>
  BY DEF Silent, Fresh
<1>2. <<>> \in Seq(Units) /\ <<>> \in Seq(Ops)
  OBVIOUS
<1>3. NoFBU \in FBUs
  BY DEF NoFBU, FBUs
<1>4. StreamType'
  BY <1>1, <1>2, <1>3 DEF StreamType
<1>5. Middle'
  BY <1>1 DEF Middle, NoFBU
<1>6. Control'
  BY <1>1 DEF Control
<1>7. Phase'
  BY DEF Phase, Still, Over, Talking, Going, In
<1> QED BY <1>4, <1>5, <1>6, <1>7 DEF VInv

(* The session is left.                                                    *)
LEMMA LeaveSilent ==
  ASSUME VInv, UInv, Unopened, cur \in Session, NEW state \in Over \cup {"disconnect"}, Leave(cur, state),
         CloseSocket(cur) \/ socket' = [socket EXCEPT ![cur] = "closed"]
  PROVE  VInv'
<1>1. Silent'
  BY DEF Leave, Cleanup, Clear, Silent, Fresh
<1>2. /\ rfbState \in [Session -> RfbState]
      /\ socket \in [Session -> {"none", "connecting", "open", "closing", "ended", "closed"}]
  BY DEF UInv, SessionType, Unopened
<1>3. cur' = cur /\ rfbState'[cur'] \in Still
  BY <1>2 DEF Leave, Reported, Still, Over
<1>4. /\ socket'[cur] \notin {"connecting", "open"}
      /\ \A s \in Session : s # cur => socket'[s] = socket[s]
  BY <1>2 DEF CloseSocket
<1>5. Sockets'
  BY <1>4 DEF Sockets, VInv
<1> QED BY <1>1, <1>3, <1>5, SilentKeeps

(* One message of the handshake at a time.                                 *)
LEMMA TalkingKeeps ==
  ASSUME Fresh', cur' > 0, rfbState'[cur'] \in Talking, Said(rfbState[cur], rQ \o net)',
         rQ' \in Seq(Units), net' \in Seq(Units), Sockets'
  PROVE  VInv'
<1>1. /\ FBU' = NoFBU /\ pc' \in {"idle", "start"} /\ drawn' = <<>> /\ renderQ' = <<>> /\ sent' = 0
      /\ owed' = 0 /\ family' = "tight"
  BY DEF Fresh
<1>2. <<>> \in Seq(Ops)
  OBVIOUS
<1>3. NoFBU \in FBUs
  BY DEF NoFBU, FBUs
<1>4. StreamType'
  BY <1>1, <1>2, <1>3 DEF StreamType
<1>5. Middle'
  BY <1>1 DEF Middle, NoFBU
<1>6. Control'
  BY <1>1 DEF Control
<1>7. Phase'
  BY DEF Phase, Still, Over, Talking, Going, In
<1> QED BY <1>4, <1>5, <1>6, <1>7 DEF VInv

(* The second of at most two units.                                        *)
LEMMA Remainder ==
  ASSUME NEW U, NEW s \in Seq(U), NEW t \in Seq(U), Len(s) >= 1, Len(s \o t) <= 2,
         NEW r, r = SubSeq(s, 2, Len(s))
  PROVE  /\ r \in Seq(U)
         /\ Len(s \o t) = 2 \/ r \o t = <<>>
         /\ Len(s \o t) = 2 => Len(r \o t) = 1 /\ (r \o t)[1] = (s \o t)[2]
<1>1. Len(s) \in Nat /\ Len(t) \in Nat /\ 1 \in 0..Len(s) /\ 1 + 1 = 2
  BY LenProperties
<1>2. r \in Seq(U) /\ Len(r) = Len(s) - 1 /\ \A i \in 1..(Len(s) - 1) : r[i] = s[1 + i]
  BY <1>1, Rest
<1>3. /\ Len(s \o t) = Len(s) + Len(t) /\ Len(r \o t) = Len(r) + Len(t)
      /\ \A i \in 1..(Len(s) + Len(t)) : (s \o t)[i] = IF i <= Len(s) THEN s[i] ELSE t[i - Len(s)]
      /\ \A i \in 1..(Len(r) + Len(t)) : (r \o t)[i] = IF i <= Len(r) THEN r[i] ELSE t[i - Len(r)]
      /\ r \o t \in Seq(U)
  BY <1>2, ConcatProperties
<1>4. CASE Len(s \o t) = 2
  <2>1. Len(r \o t) = 1 /\ 2 \in 1..(Len(s) + Len(t)) /\ 1 \in 1..(Len(r) + Len(t))
    BY <1>1, <1>2, <1>3, <1>4
  <2>2. CASE Len(s) = 1
    BY <1>2, <1>3, <2>1, <2>2
  <2>3. CASE Len(s) = 2
    BY <1>1, <1>2, <1>3, <2>1, <2>3
  <2> QED BY <1>1, <1>2, <1>3, <1>4, <2>1, <2>2, <2>3
<1>5. CASE Len(s \o t) # 2
  <2>1. Len(r \o t) = 0
    BY <1>1, <1>2, <1>3, <1>5
  <2> QED BY <1>2, <1>3, <1>5, <2>1, EmptySeq
<1> QED BY <1>4, <1>5

(* A message that is taken as a whole, and the session goes on.            *)
LEMMA AllTaken ==
  ASSUME NEW U, NEW s \in Seq(U), NEW t \in Seq(U), NEW n \in Nat, Len(s \o t) <= n, Len(s) >= n
  PROVE  SubSeq(s, n + 1, Len(s)) = <<>> /\ t = <<>>
<1>1. Len(s \o t) = Len(s) + Len(t) /\ Len(s) \in Nat /\ Len(t) \in Nat
  BY ConcatProperties, LenProperties
<1>2. Len(s) = n /\ Len(t) = 0 /\ n \in 0..Len(s) /\ Len(s) - n = 0
  BY <1>1
<1>3. SubSeq(s, n + 1, Len(s)) \in Seq(U) /\ Len(SubSeq(s, n + 1, Len(s))) = Len(s) - n
  BY <1>2, Rest
<1> QED BY <1>2, <1>3, EmptySeq

(* The first unit of what has come.                                        *)
LEMMA FirstUnit ==
  ASSUME NEW U, NEW s \in Seq(U), NEW t \in Seq(U), s # <<>>
  PROVE  (s \o t)[1] = s[1] /\ s \o t # <<>> /\ Len(s) >= 1 /\ s[1] \in U
<1>1. /\ Len(s \o t) = Len(s) + Len(t) /\ Len(s) \in Nat /\ Len(t) \in Nat
      /\ \A i \in 1..(Len(s) + Len(t)) : (s \o t)[i] = IF i <= Len(s) THEN s[i] ELSE t[i - Len(s)]
  BY ConcatProperties, LenProperties
<1>2. Len(s) # 0
  BY EmptySeq
<1>3. 1 \in 1..(Len(s) + Len(t)) /\ 1 <= Len(s) /\ 1 \in 1..Len(s)
  BY <1>1, <1>2
<1>4. (s \o t)[1] = s[1] /\ s[1] \in U
  BY <1>1, <1>3, ElementOfSeq
<1>5. Len(s \o t) # 0
  BY <1>1, <1>3
<1> QED BY <1>3, <1>4, <1>5

(* WebSocket messages come, animation frames, images and timers.           *)
LEMMA ReceivedKeeps ==
  ASSUME VInv, Received
  PROVE  VInv'
<1>1. PICK n \in 1..Len(net) : Receive(n)
  BY DEF Received
<1>2. /\ pc = "idle" /\ cur > 0 /\ UNCHANGED sessionVars /\ pc' = "start"
      /\ rQ' = rQ \o SubSeq(net, 1, n) /\ net' = SubSeq(net, n + 1, Len(net)) /\ drawn' = drawn
      /\ UNCHANGED <<sent, owed, family, FBU, msgTimer>>
      /\ renderQ' = IF rQ = <<>> THEN [i \in DOMAIN renderQ |-> Overwritten(renderQ[i])] ELSE renderQ
  BY <1>1 DEF Received, Receive, Idle
<1>3. /\ rQ \in Seq(Units) /\ net \in Seq(Units) /\ drawn \in Seq(Ops) /\ renderQ \in Seq(Ops)
  BY DEF VInv, StreamType
<1>4. rQ' \in Seq(Units) /\ net' \in Seq(Units) /\ rQ' \o net' = rQ \o net
  <2>1. /\ rQ \o SubSeq(net, 1, n) \in Seq(Units) /\ SubSeq(net, n + 1, Len(net)) \in Seq(Units)
        /\ (rQ \o SubSeq(net, 1, n)) \o SubSeq(net, n + 1, Len(net)) = rQ \o net
    <3>1. n \in 1..Len(net)
      OBVIOUS
    <3>2. rQ \in Seq(Units) /\ net \in Seq(Units)
      BY <1>3
    <3> HIDE DEF Units
    <3> QED BY ONLY <3>1, <3>2, ReceiveKeepsStream
  <2> QED BY ONLY <1>2, <2>1
<1>5. renderQ' \in Seq(Ops) /\ Len(renderQ') = Len(renderQ)
  <2> DEFINE over == [i \in DOMAIN renderQ |-> Overwritten(renderQ[i])]
  <2>1. Len(renderQ) \in Nat /\ DOMAIN renderQ = 1..Len(renderQ)
    BY <1>3, LenProperties
  <2>2. \A o \in Ops : Overwritten(o) \in Ops
    BY DEF Overwritten, Ops
  <2>3. \A i \in 1..Len(renderQ) : renderQ[i] \in Ops
    BY <1>3, ElementOfSeq
  <2>4. over \in [1..Len(renderQ) -> Ops]
    BY <2>1, <2>2, <2>3
  <2>5. over \in Seq(Ops) /\ Len(over) = Len(renderQ)
    BY <2>1, <2>4
  <2>6. renderQ' = over \/ renderQ' = renderQ
    BY <1>2
  <2> HIDE DEF over
  <2> QED BY <1>3, <2>5, <2>6
<1>6. ~Silent
  <2>1. Len(<<>>) = 0 /\ 1..0 = {}
    OBVIOUS
  <2> QED BY <2>1 DEF Silent
<1>7. Len(drawn') + Len(renderQ') = Len(drawn) + Len(renderQ) /\ drawn' \in Seq(Ops)
  BY <1>2, <1>3, <1>5
<1>8. UNCHANGED <<cur, rfbState, socket, version, scheme, due, sent, owed, family, FBU>>
  BY <1>2 DEF sessionVars
<1> QED BY <1>2, <1>4, <1>5, <1>6, <1>7, <1>8, SameStream

(* Frames, images and the timer between messages.                          *)
LEMMA ShowsKeeps ==
  ASSUME VInv, cur \in Nat, Shows
  PROVE  VInv'
<1>1. pc = "idle" /\ UNCHANGED sessionVars
  BY DEF Shows, Idle
<1>2. /\ rQ \in Seq(Units) /\ net \in Seq(Units) /\ drawn \in Seq(Ops) /\ renderQ \in Seq(Ops)
  BY DEF VInv, StreamType
<1>3. /\ UNCHANGED <<net, sent, owed, family, rQ, FBU>>
      /\ UNCHANGED <<cur, rfbState, socket, version, scheme, due, sent, owed, family, FBU>>
  BY <1>1 DEF Shows, MsgTimer, streamVars, sessionVars
<1>4. CASE MsgTimer
  <2>1. ~Silent /\ cur # 0
    BY <1>4 DEF MsgTimer, Silent, Fresh, VInv, Phase
  <2>2. cur > 0
    BY <2>1
  <2>3. pc' = "start" /\ msgTimer' = FALSE /\ drawn' = drawn /\ renderQ' = renderQ
    BY <1>4 DEF MsgTimer, displayVars
  <2> QED BY <1>1, <1>2, <1>3, <2>1, <2>2, <2>3, SameStream
<1>5. CASE ImageLoads /\ UNCHANGED streamVars
  <2>1. pc' = pc /\ msgTimer' = msgTimer /\ drawn' = drawn /\ renderQ' = renderQ
    BY <1>5 DEF ImageLoads, streamVars
  <2> QED BY <1>1, <1>2, <1>3, <2>1, SameStream
<1>6. CASE AnimationFrame /\ UNCHANGED streamVars
  <2>1. pc' = pc /\ msgTimer' = msgTimer
    BY <1>6 DEF streamVars
  <2>2. PICK n \in 0..Len(renderQ) :
          drawn' = drawn \o SubSeq(renderQ, 1, n) /\ renderQ' = SubSeq(renderQ, n + 1, Len(renderQ))
    BY <1>2, <1>6, Scanned DEF AnimationFrame
  <2>3. SubSeq(renderQ, 1, n) \in Seq(Ops) /\ Len(SubSeq(renderQ, 1, n)) = n
    BY <1>2, Beginning
  <2>4. renderQ' \in Seq(Ops) /\ Len(renderQ') = Len(renderQ) - n
    BY <1>2, <2>2, Rest
  <2>5. drawn' \in Seq(Ops) /\ Len(drawn') = Len(drawn) + n
    BY <1>2, <2>2, <2>3, ConcatProperties
  <2>6. Len(drawn) \in Nat /\ Len(renderQ) \in Nat
    BY <1>2, LenProperties
  <2>7. Len(drawn') + Len(renderQ') = Len(drawn) + Len(renderQ)
    BY <2>4, <2>5, <2>6
  <2> QED BY <1>1, <1>2, <1>3, <2>1, <2>4, <2>5, <2>7, SameStream
<1> QED BY <1>4, <1>5, <1>6 DEF Shows

(* What the server answers is what the session expects.                    *)
LEMMA AnswerType ==
  ASSUME SessionAssumption, NEW state \in Talking \cup {"ServerInitialisation"},
         NEW what \in Awaited(state), NEW units \in Answer(what)
  PROVE  /\ units \in Seq(Units)
         /\ state \in Talking => Message(state, units)
         /\ state = "ServerInitialisation" => units = <<Unit("init", 1, 0), Unit("data", 0, 0)>>
<1>0. /\ {"version", "data", "types", "challenge", "reason", "result", "init"} \subseteq Kinds
      /\ {0, 1, 2} \cup Versions \cup Schemes \subseteq Nat
  BY DEF Kinds, SessionAssumption, Repeater, Invalid
<1>1. /\ \A k \in Kinds, n, id \in Nat : Unit(k, n, id) \in Units
      /\ \A k, n, id : Unit(k, n, id).k = k /\ Unit(k, n, id).n = n /\ Unit(k, n, id).id = id
  BY DEF Unit, Units
<1>p. ASSUME NEW u \in Units, NEW v \in Units
      PROVE  /\ <<u, v>> \in Seq(Units) /\ Len(<<u, v>>) = 2 /\ <<u, v>>[1] = u /\ <<u, v>>[2] = v
             /\ <<u>> \in Seq(Units) /\ Len(<<u>>) = 1 /\ <<u>>[1] = u
  OBVIOUS
<1>d. Unit("data", 0, 0) \in Units /\ Unit("reason", 0, 0) \in Units /\ Unit("challenge", 0, 0) \in Units
  BY <1>0, <1>1
<1>2. CASE state = "ProtocolVersion"
  <2>1. PICK v \in Versions : units = <<Unit("version", v, 0), Unit("data", 0, 0)>>
    BY <1>2 DEF Awaited, Answer, Sent
  <2>2. Unit("version", v, 0) \in Units /\ Unit("version", v, 0).k = "version"
    BY <1>0, <1>1
  <2>3. units \in Seq(Units) /\ Len(units) = 2 /\ units[1] = Unit("version", v, 0)
    BY <1>d, <1>p, <2>1, <2>2
  <2> QED BY <1>2, <2>2, <2>3 DEF Message, Expected
<1>3. CASE state = "Security" /\ version = 33
  <2>1. PICK t \in Schemes :
          units = CASE t = 0 -> <<Unit("types", 0, t), Unit("reason", 0, 0)>>
                    [] t = 1 -> <<Unit("types", 0, t)>>
                    [] t = 2 -> <<Unit("types", 0, t), Unit("challenge", 0, 0)>>
    BY <1>3 DEF Awaited, Answer, TypeMessages, Sent
  <2>2. t \in 0..2 /\ t \in Nat
    BY <1>0 DEF SessionAssumption
  <2>3. \/ t = 0 /\ units = <<Unit("types", 0, 0), Unit("reason", 0, 0)>>
        \/ t = 1 /\ units = <<Unit("types", 0, 1)>>
        \/ t = 2 /\ units = <<Unit("types", 0, 2), Unit("challenge", 0, 0)>>
    BY <2>1, <2>2
  <2>a. /\ Unit("types", 0, t) \in Units /\ Unit("types", 0, t).k = "types"
        /\ Unit("types", 0, t).n = 0 /\ Unit("types", 0, t).id = t
        /\ Unit("reason", 0, 0).k = "reason" /\ Unit("challenge", 0, 0).k = "challenge"
    BY <1>0, <1>1, <2>2
  <2>4. /\ units \in Seq(Units) /\ units[1] = Unit("types", 0, t) /\ (t = 1 => Len(units) = 1)
        /\ t # 1 => Len(units) = 2 /\ units[2] = IF t = 0 THEN Unit("reason", 0, 0) ELSE Unit("challenge", 0, 0)
    <3>1. CASE t = 0
      <4>1. units = <<Unit("types", 0, t), Unit("reason", 0, 0)>>
        BY <2>3, <3>1
      <4> QED BY <1>d, <1>p, <2>a, <3>1, <4>1
    <3>2. CASE t = 1
      <4>1. units = <<Unit("types", 0, t)>>
        BY <2>3, <3>2
      <4> QED BY <1>p, <2>a, <3>2, <4>1
    <3>3. CASE t = 2
      <4>1. units = <<Unit("types", 0, t), Unit("challenge", 0, 0)>>
        BY <2>3, <3>3
      <4> QED BY <1>d, <1>p, <2>a, <3>3, <4>1
    <3> QED BY <2>2, <3>1, <3>2, <3>3
  <2>5. /\ units[1].k = "types" /\ units[1].n = 0 /\ units[1].id = t
        /\ t # 1 => units[2].k = IF t = 0 THEN "reason" ELSE "challenge"
    BY <2>4, <2>a
  <2>6. "types" \in Expected(state) /\ state # "Authentication" /\ state # "SecurityResult"
    BY <1>3 DEF Expected
  <2>7. Message(state, units)
    <3>1. CASE t = 1
      <4>0. Len(units) = 1 /\ 1 <= 2 /\ 1 # 2
        BY ONLY <2>4, <3>1
      <4>1. Len(units) <= 2 /\ Len(units) # 2
        BY ONLY <4>0
      <4> QED BY <1>3, <2>5, <2>6, <4>1 DEF Message
    <3>2. CASE t # 1
      <4>0. Len(units) = 2 /\ units[1].id = t /\ 2 <= 2
        BY ONLY <2>4, <2>5, <3>2
      <4>1. Len(units) <= 2 /\ units[1].id # 1
        BY ONLY <3>2, <4>0
      <4> QED BY <1>3, <2>5, <2>6, <3>2, <4>1 DEF Message
    <3> QED BY <3>1, <3>2
  <2> QED BY <1>3, <2>4, <2>7
<1>4. CASE state = "Security" /\ version # 33
  <2>1. PICK n \in {0, 1}, t \in Schemes :
          units = <<Unit("types", n, t), Unit("data", 0, 0)>> /\ (n = 0 => t \in Schemes \ {1, 2})
    BY <1>4 DEF Awaited, Answer, TypeMessages, Sent
  <2>2. t \in Nat /\ (n = 1 \/ t = 0)
    BY <2>1 DEF SessionAssumption
  <2>3. /\ Unit("types", n, t) \in Units /\ Unit("types", n, t).k = "types"
        /\ Unit("types", n, t).n = n /\ Unit("types", n, t).id = t
    BY <1>0, <1>1, <2>2
  <2>4. units \in Seq(Units) /\ Len(units) = 2 /\ units[1] = Unit("types", n, t)
    BY <1>d, <1>p, <2>1, <2>3
  <2> QED BY <1>4, <2>2, <2>3, <2>4 DEF Message, Expected
<1>5. CASE state = "Authentication"
  <2>1. units = <<Unit("challenge", 0, 0)>> /\ scheme # 0
    BY <1>5 DEF Awaited, Answer, Sent
  <2>2. units \in Seq(Units) /\ Len(units) = 1 /\ units[1].k = "challenge"
    BY <1>1, <1>d, <1>p, <2>1
  <2> QED BY <1>5, <2>1, <2>2 DEF Message, Expected
<1>6. CASE state = "SecurityResult"
  <2>1. \/ \E r \in {0, 1, 2} : units = <<Unit("result", r, 0)>>
        \/ units = <<Unit("result", 1, 0), Unit("data", 0, 0)>>
    BY <1>6 DEF Awaited, Answer, Sent
  <2>2. \A r \in {0, 1, 2} : /\ Unit("result", r, 0) \in Units /\ Unit("result", r, 0).k = "result"
                             /\ Unit("result", r, 0).n = r
    BY <1>0, <1>1
  <2>3. CASE \E r \in {0, 1, 2} : units = <<Unit("result", r, 0)>>
    <3>1. units \in Seq(Units) /\ Len(units) = 1 /\ units[1].k = "result"
      BY <1>p, <2>2, <2>3
    <3> QED BY <1>6, <3>1 DEF Message, Expected
  <2>4. CASE units = <<Unit("result", 1, 0), Unit("data", 0, 0)>>
    <3>1. Unit("result", 1, 0) \in Units /\ Unit("result", 1, 0).k = "result" /\ Unit("result", 1, 0).n = 1
      BY <2>2
    <3>2. units \in Seq(Units) /\ Len(units) = 2 /\ units[1] = Unit("result", 1, 0)
      BY <1>d, <1>p, <2>4, <3>1
    <3> QED BY <1>6, <3>1, <3>2 DEF Message, Expected
  <2> QED BY <2>1, <2>3, <2>4
<1>7. CASE state = "ServerInitialisation"
  <2>1. units = <<Unit("init", 1, 0), Unit("data", 0, 0)>>
    BY <1>7 DEF Awaited, Answer, Sent
  <2>2. Unit("init", 1, 0) \in Units
    BY <1>0, <1>1
  <2> QED BY <1>7, <1>d, <1>p, <2>1, <2>2 DEF Talking
<1> QED BY <1>2, <1>3, <1>4, <1>5, <1>6, <1>7 DEF Talking

(* The current session, and the state it is in.                            *)
LEMMA Current ==
  ASSUME SessionAssumption, UInv
  PROVE  cur \in Nat /\ (cur > 0 => cur \in Session /\ rfbState[cur] \in RfbState)
BY DEF UInv, SessionType, Session, SessionAssumption

(* The server says what it owes in the handshake.                          *)
LEMMA ServerAnswersKeeps ==
  ASSUME SessionAssumption, UInv, VInv, ServerAnswers
  PROVE  VInv'
<1>0. cur \in Nat /\ (cur > 0 => cur \in Session /\ rfbState[cur] \in RfbState)
  BY Current
<1>1. /\ pc = "idle" /\ due # "nothing" /\ socket[cur] = "open" /\ due' = "nothing" /\ rQ' = rQ
      /\ UNCHANGED <<cur, rfbState, socket, version, scheme, displayVars, sent, owed, family, FBU, pc,
                     msgTimer>>
  BY DEF ServerAnswers, Idle
<1>2. PICK units \in Answer(due) : net' = net \o units
  BY DEF ServerAnswers
<1>3. /\ rQ \in Seq(Units) /\ net \in Seq(Units)
  BY DEF VInv, StreamType
<1>4. cur > 0 /\ rfbState[cur] \in Talking \cup {"ServerInitialisation"}
  <2>1. cur # 0 /\ rfbState[cur] \notin Still
    BY <1>1 DEF VInv, Phase, Silent
  <2>2. rfbState[cur] # "normal" /\ rfbState[cur] # "loaded"
    BY <1>0, <1>1, <2>1 DEF VInv, Phase, In, Sockets
  <2> QED BY <1>0, <2>1, <2>2 DEF RfbState, Talking, Still, Over
<1> DEFINE state == rfbState[cur]
<1>5. due \in Awaited(state) /\ rQ \o net = <<>> /\ Fresh
  BY <1>1, <1>4 DEF VInv, Phase, Said, In, Awaited
<1>6. rQ = <<>> /\ net = <<>>
  BY <1>3, <1>5, EmptyUnits
<1>7. /\ units \in Seq(Units)
      /\ state \in Talking => Message(state, units)
      /\ state = "ServerInitialisation" => units = <<Unit("init", 1, 0), Unit("data", 0, 0)>>
  BY <1>2, <1>4, <1>5, AnswerType
<1>8. rQ' = <<>> /\ net' = units /\ rQ' \o net' = units
  BY <1>1, <1>2, <1>6, <1>7
<1>9. Fresh' /\ Sockets' /\ Middle' /\ Control'
  BY <1>1, <1>5 DEF Fresh, Sockets, Middle, Control, VInv, displayVars, Encodings, In
<1>10. rQ' \in Seq(Units) /\ net' \in Seq(Units)
  BY <1>3, <1>7, <1>8, <1>1
<1>11. CASE state \in Talking
  <2>1. Said(rfbState[cur], rQ \o net)'
    BY <1>1, <1>7, <1>8, <1>11 DEF Said, Message, Expected
  <2>2. cur' > 0 /\ rfbState'[cur'] \in Talking
    BY <1>1, <1>4, <1>11
  <2> QED BY <1>9, <1>10, <2>1, <2>2, TalkingKeeps
<1>12. CASE state = "ServerInitialisation"
  <2> DEFINE u == Unit("init", 1, 0)
             v == Unit("data", 0, 0)
             p == At("init", 1)
  <2>1. u \in Units /\ v \in Units /\ u.k = "init" /\ u.n = 1
    BY DEF Unit, Units, Kinds
  <2>2. units = <<u, v>>
    BY <1>7, <1>12
  <2> HIDE DEF u, v
  <2>3. Fits(Allowed', p, u) /\ After(p, u) = At("more", 1)
    BY <2>1, Elsewhere
  <2>4. Fits(Allowed', At("more", 1), v) /\ After(At("more", 1), v) = At("msg", 1)
    BY Elsewhere
  <2>5. Leads(Allowed', p, <<u, v>>, At("msg", 1))
    <3>1. Leads(Allowed', p, <<u, v>>, After(After(p, u), v))
      BY <2>1, <2>3, <2>4, LeadsTwo
    <3> QED BY <2>3, <2>4, <3>1
  <2>6. There' = At("msg", 1) /\ Here' = p
    BY <1>1, <1>5, <1>12, <1>4 DEF There, Here, Between, Fresh, In
  <2>7. Placed'
    BY <1>8, <2>2, <2>5, <2>6 DEF Placed
  <2>8. StreamType'
    BY <1>1, <1>10 DEF StreamType, VInv, displayVars
  <2>9. Phase'
    BY <1>1, <1>4, <1>9, <1>12, <2>7 DEF Phase, Still, Over, Talking, In
  <2> QED BY <1>9, <2>8, <2>9 DEF VInv
<1> QED BY <1>4, <1>11, <1>12

(* The methods of the handshake.                                           *)
LEMMA InitMsgKeeps ==
  ASSUME SessionAssumption, UInv, Unopened, VInv, InitMsg
  PROVE  VInv'
<1>0. cur \in Nat /\ (cur > 0 => cur \in Session /\ rfbState[cur] \in RfbState)
  BY Current
<1>1. pc = "start" /\ rQ # <<>> /\ cur > 0 /\ cur \in Session
  BY <1>0 DEF InitMsg, VInv, Control
<1>2. rfbState \in [Session -> RfbState]
  BY DEF UInv, SessionType
<1>3. rQ \in Seq(Units) /\ net \in Seq(Units)
  BY DEF VInv, StreamType
<1>4. (rQ \o net)[1] = rQ[1] /\ rQ \o net # <<>> /\ Len(rQ) >= 1 /\ rQ[1] \in Units
  <2> HIDE DEF Units
  <2> QED BY <1>1, <1>3, FirstUnit
<1>5. Len(rQ) \in Nat
  BY <1>3, LenProperties
<1>6. CASE Fail
  <2>1. "failed" \in Over \cup {"disconnect"}
    BY DEF Over
  <2> QED BY <1>1, <1>6, <2>1, LeaveSilent DEF Fail
<1>7. CASE Waits
  <2>1. /\ UNCHANGED <<cur, rfbState, socket, version, scheme, due, sent, owed, family, FBU>>
        /\ pc' = "idle" /\ rQ' = rQ /\ net' = net /\ drawn' = drawn /\ renderQ' = renderQ
        /\ msgTimer' = msgTimer
    BY <1>7 DEF Waits, sessionVars, displayVars
  <2>2. drawn \in Seq(Ops) /\ renderQ \in Seq(Ops)
    BY DEF VInv, StreamType
  <2> QED BY <1>1, <1>3, <2>1, <2>2, SameStream
<1>a. ASSUME NEW old \in Talking, In(old) PROVE Fresh /\ Said(old, rQ \o net) /\ Message(old, rQ \o net)
  BY <1>1, <1>4, <1>a DEF VInv, Phase, In, Said
<1>8. ASSUME NEW old \in Talking, In(old), NEW n \in Nat, Len(rQ \o net) <= n, Len(rQ) >= n,
             rQ' = Shift(n), pc' \in {"idle", "start"},
             UNCHANGED <<cur, socket, displayVars, net, sent, owed, FBU, msgTimer, family>>,
             NEW state \in Talking \cup {"ServerInitialisation"},
             rfbState' = [rfbState EXCEPT ![cur] = state],
             due' \in {"nothing"} \cup Awaited(state)', state = "ServerInitialisation" => due' = "init"
      PROVE  VInv'
  <2>1. Fresh
    BY <1>8, <1>a
  <2>3. rQ' = <<>> /\ net' = <<>> /\ rQ' \o net' = <<>>
    <3>1. SubSeq(rQ, n + 1, Len(rQ)) = <<>> /\ net = <<>>
      <4> HIDE DEF Units
      <4> QED BY <1>3, <1>8, AllTaken
    <3> QED BY <1>8, <3>1 DEF Shift
  <2>4. /\ rfbState'[cur] = state
        /\ \A s \in Session : s # cur => rfbState'[s] = rfbState[s]
    BY <1>1, <1>2, <1>8
  <2>5. Fresh'
    BY <1>8, <2>1 DEF Fresh, displayVars
  <2>6. Sockets'
    BY <1>8, <2>4 DEF Sockets, VInv, Over, Talking
  <2>7. rQ' \in Seq(Units) /\ net' \in Seq(Units) /\ Len(<<>>) = 0
    BY <2>3
  <2>8. CASE state # "ServerInitialisation"
    <3>1. Said(rfbState[cur], rQ \o net)'
      BY <1>8, <2>3, <2>4 DEF Said
    <3>2. cur' > 0 /\ rfbState'[cur'] \in Talking
      BY <1>1, <1>8, <2>4, <2>8
    <3> QED BY <2>5, <2>6, <2>7, <3>1, <3>2, TalkingKeeps
  <2>9. CASE state = "ServerInitialisation"
    <3>1. due' = "init" /\ In("ServerInitialisation")' /\ ~In("normal")'
      BY <1>1, <1>8, <2>4, <2>9 DEF In
    <3>2. Here' = At("init", 1)
      BY <3>1 DEF Here
    <3>3. Placed'
      <4>1. Leads(Allowed', Here', rQ' \o net', Here')
        BY <2>3, LeadsNowhere
      <4> QED BY <3>1, <4>1 DEF Placed
    <3>4. Phase'
      BY <2>3, <2>5, <3>1, <3>3 DEF Phase, In, Still, Over, Talking
    <3>5. StreamType'
      BY <1>8, <2>7 DEF StreamType, VInv, displayVars
    <3>6. Middle' /\ Control'
      BY <1>1, <1>8, <2>5 DEF Middle, Control, VInv, Fresh, NoFBU
    <3> QED BY <2>6, <3>4, <3>5, <3>6 DEF VInv
  <2> QED BY <2>8, <2>9
<1>b. Talking = {"ProtocolVersion", "Security", "Authentication", "SecurityResult"} /\ {1, 2} \subseteq Nat
  BY DEF Talking
<1>c. Len(rQ \o net) \in Nat /\ Len(rQ) <= Len(rQ \o net)
  BY <1>3, ConcatProperties, LenProperties
<1>d. rfbState = [rfbState EXCEPT ![cur] = rfbState[cur]]
  BY <1>1, <1>2
<1>9. CASE NegotiateVersion /\ ~Fail
  <2>1. /\ In("ProtocolVersion") /\ ~Wait(2) /\ Returns(2) /\ family' = family
        /\ \/ due' = "server" /\ UNCHANGED <<cur, rfbState>>
           \/ due' = "types" /\ Enter("Security")
    BY <1>9 DEF NegotiateVersion
  <2>2. Len(rQ) >= 2 /\ Len(rQ \o net) <= 2
    BY <1>5, <1>a, <1>b, <2>1 DEF Message, Wait
  <2>3. /\ due' = "server" => due' \in Awaited("ProtocolVersion")'
        /\ due' = "types" => due' \in Awaited("Security")'
    BY DEF Awaited
  <2>4. rfbState[cur] = "ProtocolVersion"
    BY <2>1 DEF In
  <2> QED BY <1>8, <1>b, <1>d, <2>1, <2>2, <2>3, <2>4 DEF Returns, Enter
<1>10. CASE NegotiateSecurity /\ ~Waits /\ ~Fail
  <2> DEFINE type == rQ[1].id
             n    == 1 + rQ[1].n
  <2>1. /\ In("Security") /\ ~Wait(n) /\ (version = 33 \/ type # 0)
        /\ ChooseType(type) /\ rQ' = Shift(n) /\ pc' \in {"idle", "start"}
        /\ UNCHANGED <<cur, socket, displayVars, net, sent, owed, FBU, msgTimer, family>>
    BY <1>10 DEF NegotiateSecurity, ChooseType, Enter, Initialise
  <2>2. Message("Security", rQ \o net) /\ Said("Security", rQ \o net) /\ Fresh /\ due = "nothing"
    BY <1>4, <1>a, <1>b, <2>1 DEF Said
  <2>3. CASE type = 1 /\ version # 38
    <3>1. Enter("ServerInitialisation") /\ due' = "init"
      BY <2>1, <2>3 DEF ChooseType, Initialise
    <3>2. n \in Nat /\ Len(rQ) >= n /\ Len(rQ \o net) <= n
      BY <1>4, <1>5, <1>c, <2>1, <2>2, <2>3 DEF Message, Wait
    <3>3. due' \in Awaited("ServerInitialisation")'
      BY <3>1 DEF Awaited
    <3> HIDE DEF n, type
    <3> QED BY <1>8, <1>b, <2>1, <3>1, <3>2, <3>3 DEF Enter
  <2>4. CASE ~(type = 1 /\ version # 38) /\ version # 33
    <3>1. /\ scheme' = type /\ type # 0
          /\ type = 1 => Enter("SecurityResult") /\ due' = "result"
          /\ type # 1 => Enter("Authentication") /\ due' = "challenge"
      BY <2>1, <2>4 DEF ChooseType
    <3>2. n \in Nat /\ Len(rQ) >= n /\ Len(rQ \o net) <= n
      BY <1>4, <1>5, <1>c, <2>1, <2>2, <2>4 DEF Message, Wait
    <3> HIDE DEF n, type
    <3>3. CASE type = 1
      <4>1. due' \in Awaited("SecurityResult")'
        BY <3>1, <3>3 DEF Awaited
      <4> QED BY <1>8, <1>b, <2>1, <3>1, <3>2, <3>3, <4>1 DEF Enter
    <3>4. CASE type # 1
      <4>1. due' \in Awaited("Authentication")'
        BY <3>1, <3>4 DEF Awaited
      <4> QED BY <1>8, <1>b, <2>1, <3>1, <3>2, <3>4, <4>1 DEF Enter
    <3> QED BY <3>3, <3>4
  <2>5. CASE ~(type = 1 /\ version # 38) /\ version = 33
    <3>1. /\ Enter("Authentication") /\ scheme' = type /\ due' = "nothing" /\ type # 1
      BY <2>1, <2>2, <2>5 DEF ChooseType
    <3>2. n = 1 /\ Len(rQ) >= 1 /\ rQ' = SubSeq(rQ, 2, Len(rQ))
      BY <1>4, <2>1, <2>2, <2>5 DEF Message, Shift
    <3>3. /\ rQ' \in Seq(Units) /\ net' = net /\ net' \in Seq(Units)
          /\ Len(rQ \o net) = 2 \/ rQ' \o net' = <<>>
          /\ Len(rQ \o net) = 2 => Len(rQ' \o net') = 1 /\ (rQ' \o net')[1] = (rQ \o net)[2]
      <4>1. Len(rQ \o net) <= 2
        BY <2>2 DEF Message
      <4> HIDE DEF Units
      <4> QED BY <1>3, <2>1, <3>2, <4>1, Remainder
    <3>4. rQ' \o net' # <<>> => Len(rQ' \o net') = 1 /\ (rQ' \o net')[1].k = IF type = 0 THEN "reason" ELSE "challenge"
      BY <1>4, <2>2, <2>5, <3>1, <3>3 DEF Message
    <3>5. /\ rfbState'[cur] = "Authentication" /\ cur' = cur
          /\ \A s \in Session : s # cur => rfbState'[s] = rfbState[s]
      BY <1>1, <1>2, <3>1 DEF Enter
    <3>6. Said(rfbState[cur], rQ \o net)'
      <4> HIDE DEF type
      <4> QED BY <3>1, <3>4, <3>5 DEF Said, Message, Expected
    <3>7. Fresh'
      BY <2>1, <2>2 DEF Fresh, displayVars
    <3>8. Sockets'
      BY <2>1, <3>5 DEF Sockets, VInv, Over
    <3>9. cur' > 0 /\ rfbState'[cur'] \in Talking
      BY <1>1, <1>b, <3>5
    <3> QED BY <3>3, <3>6, <3>7, <3>8, <3>9, TalkingKeeps
  <2> QED BY <2>3, <2>4, <2>5
<1>11. CASE NegotiateAuthentication /\ ~Fail
  <2>1. /\ In("Authentication") /\ Enter("SecurityResult") /\ due' = "result" /\ Returns(1)
        /\ family' = family
    BY <1>11 DEF NegotiateAuthentication
  <2>2. Len(rQ \o net) <= 1
    BY <1>4, <1>a, <1>b, <1>c, <2>1 DEF Message
  <2>3. due' \in Awaited("SecurityResult")'
    BY <2>1 DEF Awaited
  <2> QED BY <1>4, <1>8, <1>b, <2>1, <2>2, <2>3 DEF Returns, Enter
<1>12. CASE HandleSecurityResult /\ ~Fail /\ ~Waits
  <2>1. /\ In("SecurityResult") /\ rQ[1].n = 0 /\ Enter("ServerInitialisation") /\ due' = "init"
        /\ Returns(1) /\ family' = family
    BY <1>12 DEF HandleSecurityResult, Initialise
  <2>2. Len(rQ \o net) <= 1
    BY <1>4, <1>a, <1>b, <1>c, <2>1 DEF Message
  <2>3. due' \in Awaited("ServerInitialisation")'
    BY <2>1 DEF Awaited
  <2> QED BY <1>4, <1>8, <1>b, <2>1, <2>2, <2>3 DEF Returns, Enter
<1>13. CASE NegotiateServerInit /\ ~Waits
  <2>1. /\ In("ServerInitialisation") /\ ~Wait(1 + rQ[1].n) /\ Enter("normal") /\ Returns(1 + rQ[1].n)
        /\ family' \in {"tight", "plain"} /\ due' = due
    BY <1>13 DEF NegotiateServerInit
  <2>2. Fresh /\ due = "nothing" /\ Placed /\ Here = At("init", 1) /\ Allowed = {}
    BY <1>4, <2>1 DEF VInv, Phase, Going, Here, Allowed, In
  <2>3. PICK q : /\ Leads({}, At("init", 1), rQ \o net, q) /\ (socket[cur] = "open" => q = There)
    BY <2>2 DEF Placed
  <2>4. rQ[1].n = 1 /\ After(At("init", 1), rQ[1]) = At("more", 1)
    <3>1. Fits({}, At("init", 1), rQ[1])
      <4> HIDE DEF Units
      <4> QED BY <1>3, <1>4, <2>3, TakeOne
    <3> QED BY <3>1, Elsewhere
  <2>5. Len(rQ) >= 2 /\ Returns(2)
    BY <1>5, <2>1, <2>4 DEF Wait
  <2>6. /\ Leads({}, After(After(At("init", 1), rQ[1]), rQ[2]), SubSeq(rQ, 3, Len(rQ)) \o net, q)
        /\ SubSeq(rQ, 3, Len(rQ)) \in Seq(Units)
    <3> HIDE DEF Units
    <3> QED BY <1>3, <2>3, <2>5, TakeTwo
  <2>7. rQ' = SubSeq(rQ, 3, Len(rQ)) /\ net' = net /\ rQ' \in Seq(Units)
    <3>1. 2 + 1 = 3
      OBVIOUS
    <3> QED BY <2>5, <2>6, <3>1 DEF Returns, Shift
  <2>8. After(After(At("init", 1), rQ[1]), rQ[2]) = At("msg", 1)
    BY <2>4, Elsewhere
  <2>9. Leads({}, At("msg", 1), rQ' \o net', q)
    BY <2>6, <2>7, <2>8
  <2>10. Leads(Encodings', At("msg", 1), rQ' \o net', q)
    BY <2>9, LeadsMore
  <2>11. /\ cur' = cur /\ rfbState'[cur] = "normal" /\ socket' = socket /\ pc' = "idle"
         /\ \A s \in Session : s # cur => rfbState'[s] = rfbState[s]
         /\ UNCHANGED <<displayVars, sent, owed, FBU, msgTimer>>
    BY <1>1, <1>2, <2>1 DEF Enter, Returns
  <2>12. In("normal")' /\ ~In("ServerInitialisation")' /\ Allowed' = Encodings'
    BY <1>1, <2>11 DEF In, Allowed
  <2>13. /\ FBU' = NoFBU /\ drawn' = <<>> /\ renderQ' = <<>> /\ sent' = 0 /\ owed' = 0
    BY <2>2, <2>11 DEF Fresh, displayVars
  <2>14. Here' = At("msg", 1)
    <3>1. Coming' = 1
      <4>1. Len(<<>>) = 0
        OBVIOUS
      <4> QED BY <2>13, <4>1 DEF Coming
    <3> QED BY <2>12, <2>13, <3>1 DEF Here, NoFBU, Between
  <2>15. There' = There
    BY <2>11 DEF There
  <2>16. Placed'
    BY <2>3, <2>10, <2>11, <2>12, <2>14, <2>15 DEF Placed
  <2>17. StreamType'
    BY <2>1, <2>7, <2>11, <1>3 DEF StreamType, VInv, displayVars
  <2>18. Middle' /\ Control'
    BY <2>11, <2>13 DEF Middle, Control, NoFBU
  <2>19. Sockets'
    BY <2>11 DEF Sockets, VInv, Over
  <2>20. Phase'
    BY <1>1, <2>1, <2>2, <2>11, <2>12, <2>16 DEF Phase, Still, Over, Talking, In
  <2> QED BY <2>17, <2>18, <2>19, <2>20 DEF VInv
<1> QED BY <1>6, <1>7, <1>9, <1>10, <1>11, <1>12, <1>13
    DEF InitMsg

(* A WebSocket opens, and the server says its version.                     *)
LEMMA OpenKeeps ==
  ASSUME SessionAssumption, UInv, Unopened, VInv, Open
  PROVE  VInv'
<1>0. cur > 0 /\ cur \in Session /\ rfbState[cur] = "connect" /\ rfbState \in [Session -> RfbState]
      /\ socket \in [Session -> {"none", "connecting", "open", "closing", "ended", "closed"}]
  BY Current DEF Open, In, UInv, SessionType, Unopened
<1>1. Silent
  BY <1>0 DEF VInv, Phase, Still
<1>2. /\ cur' = cur /\ rfbState'[cur] = "ProtocolVersion" /\ due' = "version"
      /\ UNCHANGED <<displayVars, sent, owed, family, rQ, net, FBU, pc, msgTimer>>
      /\ \A s \in Session : s # cur => socket'[s] = socket[s] /\ rfbState'[s] = rfbState[s]
  BY <1>0 DEF Open, Enter, streamVars
<1>3. Fresh' /\ rQ' = <<>> /\ net' = <<>>
  BY <1>1, <1>2 DEF Silent, Fresh, displayVars
<1>4. rQ' \in Seq(Units) /\ net' \in Seq(Units) /\ rQ' \o net' = <<>> /\ Len(<<>>) = 0
  BY <1>3
<1>5. Said(rfbState[cur], rQ \o net)'
  BY <1>2, <1>4 DEF Said, Awaited
<1>6. Sockets'
  BY <1>2 DEF Sockets, VInv, Over
<1>7. cur' > 0 /\ rfbState'[cur'] \in Talking
  BY <1>0, <1>2 DEF Talking
<1> QED BY <1>3, <1>4, <1>5, <1>6, <1>7, TalkingKeeps

(* A new session.                                                          *)
LEMMA NewSession ==
  ASSUME SessionAssumption, UInv, Unopened, VInv, Connect
  PROVE  VInv'
<1>1. cur \in Nat /\ cur + 1 \in Session /\ rfbState \in [Session -> RfbState]
      /\ socket \in [Session -> {"none", "connecting", "open", "closing", "ended", "closed"}]
  BY DEF Connect, UInv, SessionType, Session, Unopened, SessionAssumption
<1>2. cur = 0 \/ rfbState[cur] \in Over
  BY DEF Connect, UInv, Told, Over
<1>3. Silent
  BY <1>2 DEF VInv, Phase, Still
<1>4. /\ cur' = cur + 1 /\ rfbState'[cur'] = "connect"
      /\ \A s \in Session : s # cur + 1 => socket'[s] = socket[s] /\ rfbState'[s] = rfbState[s]
  BY <1>1 DEF Connect
<1>5. Silent'
  BY <1>3 DEF Connect, Silent, Fresh
<1>6. Sockets'
  <2>1. \A s \in Session : s # cur + 1 => socket'[s] \notin {"connecting", "open"}
    <3> SUFFICES ASSUME NEW s \in Session, s # cur + 1, socket[s] \in {"connecting", "open"}
                 PROVE  FALSE
      BY <1>4
    <3>1. s = cur /\ rfbState[s] \notin Over
      BY DEF VInv, Sockets
    <3> QED BY <1>2, <3>1 DEF Session
  <2> QED BY <1>4, <2>1 DEF Sockets, Over
<1> QED BY <1>4, <1>5, <1>6, SilentKeeps DEF Still

(* The peer closes: what has come is a part of what was sent.              *)
LEMMA PeerClosesKeeps ==
  ASSUME SessionAssumption, UInv, Unopened, VInv, NEW s \in Session, PeerCloses(s)
  PROVE  VInv'
<1>1. /\ pc = "idle" /\ net' = <<>> /\ owed' = 0 /\ due' = "nothing"
      /\ UNCHANGED <<cur, rfbState, version, scheme, displayVars, sent, family, rQ, FBU, pc, msgTimer>>
      /\ socket' = [socket EXCEPT ![s] = "ended"]
  BY DEF PeerCloses, Idle
<1>2. s = cur /\ cur \in Nat /\ cur > 0
  BY Current DEF PeerCloses, VInv, Sockets, Session
<1>3. socket \in [Session -> {"none", "connecting", "open", "closing", "ended", "closed"}]
  BY DEF Unopened
<1>4. socket'[cur] = "ended" /\ \A t \in Session : t # cur => socket'[t] = socket[t]
  BY <1>1, <1>2, <1>3
<1>5. Sockets'
  BY <1>1, <1>4 DEF Sockets, VInv
<1>6. StreamType /\ Middle /\ Control /\ Phase
  BY DEF VInv
<1>7. /\ Here' = Here /\ Allowed' = Allowed /\ \A state : In(state)' = In(state)
  BY <1>1 DEF Here, Allowed, In, Coming, displayVars, Encodings, Inner
<1>8. <<>> \in Seq(Units) /\ Len(<<>>) = 0 /\ 0 \in Nat
  OBVIOUS
<1>9. StreamType' /\ Middle' /\ Control'
  <2>1. StreamType'
    BY <1>1, <1>6, <1>8 DEF StreamType, displayVars
  <2>2. Middle'
    BY <1>1, <1>6 DEF Middle, Encodings
  <2>3. Control'
    BY <1>1, <1>6, <1>7 DEF Control
  <2> QED BY <2>1, <2>2, <2>3
<1>10. rQ \in Seq(Units) /\ net \in Seq(Units)
  BY <1>6 DEF StreamType
<1>11. rQ' \o net' = rQ
  <2>1. rQ \o <<>> = rQ
    <3> HIDE DEF Units
    <3> QED BY <1>10, ConcatEmptySeq
  <2> QED BY <1>1, <2>1
<1>12. Fresh => Fresh'
  BY <1>1 DEF Fresh, displayVars
<1>13. Silent => Silent'
  BY <1>1, <1>12 DEF Silent
<1>14. Going => Placed'
  <2> SUFFICES ASSUME Going PROVE Placed'
    OBVIOUS
  <2>1. PICK q : Leads(Allowed, Here, rQ \o net, q)
    BY <1>6 DEF Phase, Placed
  <2>2. \E m : Leads(Allowed, Here, rQ, m)
    <3> HIDE DEF Units
    <3> QED BY <1>10, <2>1, LeadsPrefix
  <2> QED BY <1>1, <1>2, <1>4, <1>7, <1>11, <2>2 DEF Placed
<1>15. ASSUME NEW state, Said(state, rQ \o net) PROVE Said(state, rQ \o net)'
  <2>1. /\ Len(rQ) <= Len(rQ \o net) /\ Len(rQ) \in Nat /\ Len(rQ \o net) \in Nat
        /\ Len(rQ) = 2 => (rQ \o net)[2] = rQ[2]
    BY <1>10, ConcatProperties, LenProperties
  <2>2. Len(rQ) = 2 /\ Len(rQ \o net) <= 2 => Len(rQ \o net) = 2
    BY <2>1
  <2>3. rQ # <<>> => (rQ \o net)[1] = rQ[1] /\ rQ \o net # <<>>
    <3> HIDE DEF Units
    <3> QED BY <1>10, FirstUnit
  <2> QED BY <1>1, <1>11, <1>15, <2>1, <2>2, <2>3 DEF Said, Message, Expected
<1>16. Phase'
  <2>1. Going' = Going
    BY <1>7 DEF Going
  <2>2. rQ # <<>> => rQ \o net # <<>>
    <3> HIDE DEF Units
    <3> QED BY <1>10, FirstUnit
  <2>3. /\ cur' = 0 \/ rfbState'[cur'] \in Still => Silent'
        /\ cur' > 0 /\ rfbState'[cur'] \in Talking => Fresh' /\ Said(rfbState[cur], rQ \o net)'
    BY <1>1, <1>6, <1>12, <1>13, <1>15 DEF Phase
  <2>4. In("ServerInitialisation")' => Fresh'
    BY <1>6, <1>7, <1>12 DEF Phase
  <2> QED BY <1>1, <1>14, <2>1, <2>3, <2>4 DEF Phase
<1> QED BY <1>5, <1>9, <1>16 DEF VInv

(* Timers and close events.                                                *)
LEMMA EndsKeep ==
  ASSUME SessionAssumption, UInv, Unopened, VInv, NEW s \in Session,
         DisconnTimeout(s) \/ FailTimer(s) \/ Closed(s) \/ CloseAnswered(s)
  PROVE  VInv'
<1>1. ASSUME NEW state \in Over \cup {"disconnect"}, s = cur, Leave(s, state),
             CloseSocket(s) \/ socket' = [socket EXCEPT ![s] = "closed"]
      PROVE  VInv'
  BY <1>1, LeaveSilent
<1>2. CASE DisconnTimeout(s)
  <2>1. s = cur /\ Leave(s, "failed") /\ CloseSocket(s)
    BY <1>2 DEF DisconnTimeout, UInv, OwnTimers
  <2> QED BY <1>1, <2>1 DEF Over
<1>3. CASE FailTimer(s)
  <2>1. s = cur /\ Leave(s, "disconnected") /\ CloseSocket(s)
    BY <1>3 DEF FailTimer, UInv, OwnTimers
  <2> QED BY <1>1, <2>1 DEF Over
<1>4. CASE Closed(s) \/ CloseAnswered(s)
  <2>1. OnClose(s) /\ socket[s] \in {"ended", "closing"} /\ socket' = [socket EXCEPT ![s] = "closed"]
    BY <1>4 DEF Closed, CloseAnswered, OnClose
  <2>2. CASE onClose[s] /\ rfbState[s] \notin Over
    <3>1. /\ s = cur
          /\ Leave(s, IF rfbState[s] = "disconnect" THEN "disconnected" ELSE "failed")
      BY <2>1, <2>2, Current DEF OnClose, UInv, Past, Unopened, Session
    <3> QED BY <1>1, <2>1, <3>1 DEF Over
  <2>3. CASE ~(onClose[s] /\ rfbState[s] \notin Over)
    <3>1. UNCHANGED <<cur, rfbState, version, scheme, due, displayVars, net, sent, owed, family, rQ, FBU, pc, msgTimer>>
      BY <2>1, <2>3 DEF OnClose
    <3>2. /\ Here' = Here /\ There' = There /\ Allowed' = Allowed /\ \A state : In(state)' = In(state)
      BY <3>1 DEF Here, There, Allowed, In, Coming, displayVars, Encodings, Inner
    <3>3. \A t \in Session : socket'[t] \in {"connecting", "open"} => socket[t] = socket'[t] /\ t # s
      BY <2>1 DEF Unopened
    <3>4. Sockets'
      BY <3>1, <3>3 DEF VInv, Sockets
    <3>5. StreamType'
      BY <3>1 DEF VInv, StreamType, displayVars
    <3>6. Middle' /\ Control'
      BY <3>1, <3>2 DEF VInv, Middle, Control, Encodings
    <3>7. Placed /\ cur \in Session => Placed'
      BY <3>1, <3>2, <3>3, <2>1 DEF Placed, Unopened
    <3>8. Phase'
      <4>1. Fresh' = Fresh /\ Silent' = Silent /\ Going' = Going
        BY <3>1, <3>2 DEF Fresh, Silent, Going, displayVars
      <4>2. \A state : Said(state, rQ \o net)' = Said(state, rQ \o net)
        BY <3>1 DEF Said, Awaited, Message, Expected
      <4>3. Going => cur \in Session
        BY Current DEF Going, In
      <4> QED BY <3>1, <3>2, <3>7, <4>1, <4>2, <4>3 DEF VInv, Phase
    <3> QED BY <3>4, <3>5, <3>6, <3>8 DEF VInv
  <2> QED BY <2>2, <2>3
<1> QED BY <1>2, <1>3, <1>4

(* Every step keeps the place in the stream.                               *)
LEMMA StreamStep ==
  ASSUME StreamAssumption, SessionAssumption, "refused" \notin Pseudo,
         UInv, Unopened, VInv, [Next]_vars
  PROVE  VInv'
<1>0. cur \in Nat /\ (cur > 0 => cur \in Session /\ rfbState[cur] \in RfbState)
  BY Current
<1>1. CASE InitMsg \/ Unsupported
  <2>1. CASE Unsupported
    <3>1. Leave(cur, "failed") /\ CloseSocket(cur) /\ cur \in Session /\ "failed" \in Over
      BY <1>0, <2>1 DEF Unsupported, Fail, In, Over
    <3> QED BY <3>1, LeaveSilent
  <2> QED BY <1>1, <2>1, InitMsgKeeps
<1>2. ASSUME (In("normal") /\ NormalMsg) \/ NextRect \/ UpdateComplete \/ Decode, UNCHANGED sessionVars
      PROVE  VInv'
  <2>1. In("normal")
    BY <1>2 DEF NextRect, UpdateComplete, Decode, VInv, Control
  <2> QED BY <1>2, <2>1, NormalMsgKeeps, NextRectKeeps, UpdateCompleteKeeps, DecodeKeeps
<1>3. CASE Updated
  BY <1>3, UpdatedKeeps
<1>4. CASE Received
  BY <1>4, ReceivedKeeps
<1>5. CASE Shows
  BY <1>0, <1>5, ShowsKeeps
<1>6. CASE ServerAnswers
  BY <1>6, ServerAnswersKeeps
<1>7. CASE Open
  BY <1>7, OpenKeeps
<1>8. CASE \E s \in Session : DisconnTimeout(s) \/ FailTimer(s) \/ Closed(s) \/ CloseAnswered(s)
  BY <1>8, EndsKeep
<1>9. CASE Connect
  BY <1>9, NewSession
<1>10. CASE Disconnect
  <2>1. Leave(cur, "disconnect") /\ CloseSocket(cur) /\ cur > 0
    BY <1>0, <1>10 DEF Disconnect, UInv, Told
  <2> QED BY <1>0, <2>1, LeaveSilent
<1>11. CASE CutSent
  BY <1>11, CutSentKeeps
<1>12. CASE \E s \in Session : PeerCloses(s)
  BY <1>12, PeerClosesKeeps
<1>13. CASE UNCHANGED vars
  <2>1. UNCHANGED <<cur, rfbState, socket, version, scheme, due, net, sent, owed, family, rQ, FBU, pc,
                    msgTimer, displayVars>>
    BY <1>13 DEF vars, streamVars, sessionVars
  <2>2. /\ Here' = Here /\ There' = There /\ Allowed' = Allowed /\ \A state : In(state)' = In(state)
    BY <2>1 DEF Here, There, Allowed, In, Coming, displayVars, Encodings, Inner
  <2>3. /\ Sockets' = Sockets /\ Fresh' = Fresh /\ Silent' = Silent /\ Going' = Going
        /\ \A state : Said(state, rQ \o net)' = Said(state, rQ \o net)
    BY <2>1, <2>2 DEF Sockets, Fresh, Silent, Going, Said, Awaited, Message, Expected, displayVars
  <2>4. StreamType' = StreamType /\ Middle' = Middle /\ Control' = Control /\ Placed' = Placed
    BY <2>1, <2>2 DEF StreamType, Middle, Control, Placed, displayVars, Encodings
  <2> QED BY <2>1, <2>2, <2>3, <2>4 DEF VInv, Phase
<1> QED BY <1>1, <1>2, <1>3, <1>4, <1>5, <1>6, <1>7, <1>8, <1>9, <1>10, <1>11, <1>12, <1>13
    DEF Next, Progress, Handler

(* Before the first session nothing is on its way.                         *)
LEMMA StreamBegins == ASSUME SessionAssumption, Init PROVE VInv
<1>1. /\ FBU = NoFBU /\ pc = "idle" /\ drawn = <<>> /\ renderQ = <<>> /\ sent = 0 /\ owed = 0
      /\ family = "tight" /\ rQ = <<>> /\ net = <<>> /\ msgTimer = FALSE /\ cur = 0 /\ due = "nothing"
  BY DEF Init, DisplayInit
<1>2. <<>> \in Seq(Units) /\ <<>> \in Seq(Ops)
  OBVIOUS
<1>3. NoFBU \in FBUs
  BY DEF NoFBU, FBUs
<1>4. StreamType
  BY <1>1, <1>2, <1>3 DEF StreamType
<1>5. Middle /\ Control
  BY <1>1 DEF Middle, NoFBU, Control
<1>6. Phase
  BY <1>1 DEF Phase, Silent, Fresh, Going, In
<1>7. Sockets
  BY DEF Init, Sockets
<1> QED BY <1>4, <1>5, <1>6, <1>7 DEF VInv

(* From the place in the stream to what is read as a header.               *)
LEMMA HeadersRead ==
  ASSUME SessionAssumption, UInv, VInv
  PROVE  InStep
<1>0. cur \in Nat /\ (cur > 0 => cur \in Session /\ rfbState[cur] \in RfbState)
  BY Current
<1>1. rQ \in Seq(Units) /\ net \in Seq(Units)
  BY DEF VInv, StreamType
<1>2. rQ # <<>> => (rQ \o net)[1] = rQ[1] /\ rQ \o net # <<>> /\ Len(rQ) >= 1 /\ rQ[1] \in Units
  <2> HIDE DEF Units
  <2> QED BY <1>1, FirstUnit
<1>3. ASSUME NEW E, NEW q, Leads(E, Here, rQ \o net, q), rQ # <<>> PROVE Fits(E, Here, rQ[1])
  <2> HIDE DEF Units
  <2> QED BY <1>1, <1>2, <1>3, TakeOne
<1>4. ASSUME pc = "start", rQ # <<>>, FBU.rects = 0 PROVE rQ[1].k \in Expected(rfbState[cur])
  <2>1. cur > 0 /\ rfbState[cur] \notin Still
    BY <1>4 DEF VInv, Control, Phase, Silent
  <2>2. rfbState[cur] \in Talking \cup {"ServerInitialisation", "normal"}
    BY <1>0, <2>1 DEF UInv, Told, RfbState, Still, Talking, Over
  <2>3. CASE rfbState[cur] \in Talking
    <3>1. Said(rfbState[cur], rQ \o net)
      BY <2>1, <2>3 DEF VInv, Phase
    <3> QED BY <1>2, <1>4, <3>1 DEF Said, Message
  <2>4. CASE In("ServerInitialisation")
    <3>1. Here = At("init", 1) /\ \E q : Leads(Allowed, Here, rQ \o net, q)
      BY <2>4 DEF Here, VInv, Phase, Going, Placed
    <3>2. Fits(Allowed, At("init", 1), rQ[1])
      BY <1>3, <1>4, <3>1
    <3>3. rQ[1].k = "init"
      BY <3>2, Elsewhere
    <3> QED BY <2>4, <3>3 DEF In, Expected
  <2>5. CASE In("normal")
    <3>1. Here = At("msg", Coming) /\ \E q : Leads(Allowed, Here, rQ \o net, q)
      BY <1>4, <2>5 DEF Here, VInv, Phase, Going, Placed, In, Between
    <3>2. Fits(Allowed, At("msg", Coming), rQ[1])
      BY <1>3, <1>4, <3>1
    <3>3. rQ[1].k \in {"cut", "update"}
      BY <3>2, Elsewhere
    <3> QED BY <2>5, <3>3 DEF In, Expected
  <2> QED BY <2>1, <2>2, <2>3, <2>4, <2>5 DEF In
<1>5. ASSUME pc = "rects", rQ # <<>>, FBU.rects > 0, FBU.bytes = 0 PROVE rQ[1].k \in Encodings
  <2>1. In("normal") /\ FBU.rects # 0
    BY <1>5 DEF VInv, Control
  <2>2. Here = Between(FBU.rects, Coming) /\ \E q : Leads(Encodings, Here, rQ \o net, q)
    BY <1>5, <2>1 DEF Here, VInv, Phase, Going, Placed, In, Allowed
  <2>3. Fits(Encodings, Here, rQ[1])
    BY <1>3, <1>5, <2>2
  <2>4. Here.at = "rect"
    BY <2>1, <2>2 DEF Between
  <2> QED BY <2>3, <2>4 DEF Fits, Names
<1>6. ASSUME pc = "decode", rQ # <<>>, FBU.enc \notin {"resize", "last", "qemu"} PROVE rQ[1].k \in {"ctl", "data"}
  <2>1. In("normal") /\ StreamType /\ Middle
    BY <1>6 DEF VInv, Control
  <2>2. /\ FBU.left \in 0..2 /\ Coming \in Nat /\ Coming >= 1 /\ FBU.enc \in Encodings
        /\ FBU.left # 1 => Here = Within(FBU.enc, 1, FBU.rects, Coming)
        /\ FBU.left = 1 => Here = Within(FBU.enc, IF FBU.enc = "hextile" THEN 3 ELSE 2, FBU.rects, Coming - 1)
    BY <1>6, <2>1, FromHere
  <2>3. FBU.enc \in Names \ {"resize", "last", "qemu", "unknown"} /\ (FBU.left = 1 => FBU.enc \in {"raw", "rre", "hextile"})
    BY <1>6, <2>1, <2>2, StreamAssumption, EncodingNames DEF Middle
  <2>4. ASSUME NEW pos \in Nat \ {0}, NEW n \in Nat, Here = Within(FBU.enc, pos, FBU.rects, n),
               pos < Len(Rectangle(FBU.enc, n))
        PROVE  rQ[1].k \in {"ctl", "data"}
    <3>1. \E q : Leads(Encodings, Here, rQ \o net, q)
      BY <2>1 DEF VInv, Phase, Going, Placed, Allowed
    <3>2. Fits(Encodings, Within(FBU.enc, pos, FBU.rects, n), rQ[1])
      BY <1>3, <1>6, <2>4, <3>1
    <3>3. rQ[1] = Rectangle(FBU.enc, n)[pos + 1]
      BY <2>3, <2>4, <3>2, Inside
    <3>4. pos + 1 \in 2..Len(Rectangle(FBU.enc, n))
      BY <2>3, <2>4, BodyLength
    <3> QED BY <2>3, <3>3, <3>4, Body
  <2>0. \A n \in Nat : /\ 1 < Len(Rectangle(FBU.enc, n))
                       /\ FBU.enc \in {"raw", "rre"} => 2 < Len(Rectangle(FBU.enc, n))
                       /\ FBU.enc = "hextile" => 3 < Len(Rectangle(FBU.enc, n))
    <3> TAKE n \in Nat
    <3>1. /\ Len(Rectangle(FBU.enc, n)) \in 2..5
          /\ FBU.enc \in {"raw", "rre"} => Len(Rectangle(FBU.enc, n)) = 3
          /\ FBU.enc = "hextile" => Len(Rectangle(FBU.enc, n)) = 5
      BY <2>3, BodyLength
    <3>2. \A l \in 2..5 : 1 < l
      OBVIOUS
    <3>3. 2 < 3 /\ 3 < 5
      OBVIOUS
    <3> QED BY <3>1, <3>2, <3>3
  <2>5. CASE FBU.left # 1
    <3>1. 1 < Len(Rectangle(FBU.enc, Coming))
      BY <2>0, <2>2
    <3> QED BY <2>2, <2>4, <2>5, <3>1
  <2>6. CASE FBU.left = 1 /\ FBU.enc = "hextile"
    <3>1. Coming - 1 \in Nat /\ 3 \in Nat \ {0}
      BY <2>2
    <3>2. 3 < Len(Rectangle(FBU.enc, Coming - 1))
      BY <2>0, <2>6, <3>1
    <3>3. Here = Within(FBU.enc, 3, FBU.rects, Coming - 1)
      BY <2>2, <2>6
    <3> QED BY <2>4, <3>1, <3>2, <3>3
  <2>7. CASE FBU.left = 1 /\ FBU.enc # "hextile"
    <3>1. Coming - 1 \in Nat /\ 2 \in Nat \ {0}
      BY <2>2
    <3>2. 2 < Len(Rectangle(FBU.enc, Coming - 1))
      BY <2>0, <2>3, <2>7, <3>1
    <3>3. Here = Within(FBU.enc, 2, FBU.rects, Coming - 1)
      BY <2>2, <2>7
    <3> QED BY <2>4, <3>1, <3>2, <3>3
  <2> QED BY <2>5, <2>6, <2>7
<1> QED BY <1>4, <1>5, <1>6 DEF InStep

(* Wherever WebSocket messages are cut, what the client reads as the       *)
(* header of a message or of a rectangle is one, and what a handler takes  *)
(* belongs to a rectangle: for every number of sessions and rectangles,    *)
(* every set of encodings without the refusal of ExtendedDesktopSize, if   *)
(* users click on Disconnect once.                                         *)
THEOREM HeadersAreHeaders ==
  Patient /\ "refused" \notin Pseudo /\ Spec => []InStep
<1>1. Init => UInv /\ Unopened /\ VInv
  BY SessionAssumption, SessionBegins, StreamBegins
<1>2. Patient /\ "refused" \notin Pseudo /\ UInv /\ Unopened /\ VInv /\ [Next]_vars => (UInv /\ Unopened /\ VInv)'
  BY SessionAssumption, StreamAssumption, SessionStep, StreamStep
<1>3. UInv /\ VInv => InStep
  BY SessionAssumption, HeadersRead
<1>4. CASE Patient /\ "refused" \notin Pseudo
  BY <1>1, <1>2, <1>3, <1>4, PTL DEF Spec
<1> QED BY <1>4
-----------------------------------------------------------------------------
(* Nothing that is drawn at once or kept by reference comes with images.   *)
Orderly == "img" \in Tight => "tiny" \notin Tight /\ (Mixed => Plain \subseteq {"copy"})

(* Operations wait behind images only.                                     *)
OInv == InOrder /\ (renderQ # <<>> => "img" \in Encodings)

(* Images come with rectangles only that copy or have bytes of their own.  *)
LEMMA WithImages ==
  ASSUME StreamAssumption, Orderly, "img" \in Encodings
  PROVE  Encodings \cap {"raw", "rre", "hextile", "tiny"} = {}
<1>1. "img" \notin Plain \cup Pseudo
  BY DEF StreamAssumption
<1>2. "img" \in Tight
  BY <1>1 DEF Encodings
<1>3. "tiny" \notin Encodings
  BY <1>2 DEF Orderly, StreamAssumption, Encodings
<1>4. Encodings \cap {"raw", "rre", "hextile"} = {}
  <2>1. Tight \cap {"raw", "rre", "hextile"} = {} /\ Pseudo \cap {"raw", "rre", "hextile"} = {}
    BY DEF StreamAssumption
  <2>2. CASE Mixed
    BY <1>2, <2>1, <2>2 DEF Orderly, Encodings
  <2>3. CASE ~Mixed
    BY <1>1, <2>1, <2>3 DEF Encodings
  <2> QED BY <2>2, <2>3
<1> QED BY <1>3, <1>4

(* A handler draws what comes next, or puts it behind what waits.          *)
LEMMA DecodeInOrder ==
  ASSUME StreamAssumption, "refused" \notin Pseudo, Orderly, VInv, In("normal"), OInv,
         Decode, UNCHANGED sessionVars
  PROVE  OInv'
<1>1. PICK q : Leads(Encodings, Here, rQ \o net, q) /\ (socket[cur] = "open" => q = There)
  BY InNormal
<1>2. StreamType /\ Middle
  BY DEF VInv
<1>3. PICK ops : Taken(ops, q)
  BY <1>1, <1>2, TakeRectangle
<1>4. Encodings' = Encodings
  BY DEF Decode, Encodings
<1>5. FBU.enc \in Encodings
  BY <1>2, FromHere DEF Decode
<1>6. drawn \in Seq(Ops) /\ renderQ \in Seq(Ops) /\ ops \in Seq(Ops) /\ Draws(ops) /\ Suits(ops)
  BY <1>2, <1>3 DEF StreamType, Taken, Numbered
<1>7. \A i \in 1..Len(ops) : ops[i].id = Len(drawn) + Len(renderQ) + i
  <2>1. \A i \in 1..Len(ops) : ops[i].id = Coming - 1 + i
    BY <1>3 DEF Taken, Numbered
  <2>2. Coming - 1 = Len(drawn) + Len(renderQ)
    BY <1>6, LenProperties DEF Coming
  <2> QED BY <2>1, <2>2
<1>8. \/ renderQ = <<>> /\ \A i \in 1..Len(ops) : ~ops[i].img /\ ops[i].data # "wrong"
      \/ (Push(ops) \/ ops = <<>>) /\ \A i \in 1..Len(ops) : ops[i].data = "own"
  <2>1. CASE renderQ = <<>> /\ FBU.enc # "img"
    BY <1>6, <2>1 DEF Suits
  <2>2. CASE FBU.enc = "img"
    BY <1>6, <2>2 DEF Suits
  <2>3. CASE renderQ # <<>>
    <3>1. FBU.enc \notin {"raw", "rre", "hextile", "tiny"}
      BY <1>5, <2>3, WithImages DEF OInv
    <3> QED BY <1>6, <3>1 DEF Suits
  <2> QED BY <2>1, <2>2, <2>3
<1>9. InOrder' /\ (renderQ = <<>> /\ (\A i \in 1..Len(ops) : ~ops[i].img) => renderQ' = <<>>)
  BY <1>6, <1>7, <1>8, DrawsInOrder DEF OInv
<1>10. renderQ' # <<>> => "img" \in Encodings
  <2>1. CASE FBU.enc = "img"
    BY <1>5, <2>1
  <2>2. CASE FBU.enc # "img"
    BY <1>6, <1>9, <2>2 DEF Suits, OInv
  <2> QED BY <2>1, <2>2
<1> QED BY <1>4, <1>9, <1>10 DEF OInv

(* The canvas and what waits for it are not touched.                       *)
LEMMA OrderStays ==
  ASSUME OInv, UNCHANGED <<drawn, renderQ>>, family' = family \/ renderQ = <<>>
  PROVE  OInv'
BY DEF OInv, InOrder, Encodings

(* There is a new canvas, and nothing waits.                               *)
LEMMA CanvasCleared ==
  ASSUME drawn' = <<>>, renderQ' = <<>>
  PROVE  OInv'
<1>1. 1..Len(<<>>) = {}
  OBVIOUS
<1> QED BY <1>1 DEF OInv, InOrder

(* Bytes that come overwrite nothing that waits: it has bytes of its own.  *)
LEMMA ReceivedInOrder ==
  ASSUME VInv, OInv, Received
  PROVE  OInv'
<1>1. /\ drawn' = drawn /\ family' = family
      /\ renderQ' = IF rQ = <<>> THEN [i \in DOMAIN renderQ |-> Overwritten(renderQ[i])] ELSE renderQ
  BY DEF Received, Receive
<1>2. renderQ \in Seq(Ops)
  BY DEF VInv, StreamType
<1>3. [i \in DOMAIN renderQ |-> Overwritten(renderQ[i])] = renderQ
  <2> DEFINE over == [i \in DOMAIN renderQ |-> Overwritten(renderQ[i])]
  <2>1. Len(renderQ) \in Nat /\ DOMAIN renderQ = 1..Len(renderQ)
    BY <1>2, LenProperties
  <2>2. \A i \in 1..Len(renderQ) : over[i] = renderQ[i] /\ renderQ[i] \in Ops
    BY <1>2, <2>1, ElementOfSeq DEF OInv, InOrder, Overwritten
  <2>3. over \in [1..Len(renderQ) -> Ops]
    BY <2>1, <2>2
  <2>4. over \in Seq(Ops) /\ Len(over) = Len(renderQ)
    BY <2>1, <2>3
  <2> HIDE DEF over
  <2>5. over = renderQ
    BY <1>2, <2>2, <2>4, SeqEqual
  <2> QED BY <2>5 DEF over
<1>4. renderQ' = renderQ
  BY <1>1, <1>3
<1> QED BY <1>1, <1>4, OrderStays

(* An animation frame draws from the front of the queue.                   *)
LEMMA FrameInOrder ==
  ASSUME VInv, OInv, AnimationFrame, UNCHANGED streamVars
  PROVE  OInv'
<1>1. drawn \in Seq(Ops) /\ renderQ \in Seq(Ops) /\ ScanQ(renderQ) /\ family' = family
  BY DEF VInv, StreamType, AnimationFrame, streamVars
<1>2. /\ \A i \in 1..Len(drawn) : drawn[i].id = i /\ drawn[i].data # "wrong"
      /\ \A i \in 1..Len(renderQ) : renderQ[i].id = Len(drawn) + i /\ renderQ[i].data # "wrong"
      /\ \A i \in 1..Len(renderQ) : renderQ[i].data = "own"
  BY DEF OInv, InOrder
<1>3. InOrder' /\ ((\A i \in 1..Len(renderQ) : ~renderQ[i].img) => renderQ' = <<>>)
  BY <1>1, <1>2, ScanInOrder
<1>4. renderQ = <<>> => renderQ' = <<>>
  <2>1. 1..Len(<<>>) = {}
    OBVIOUS
  <2> QED BY <1>3, <2>1
<1> QED BY <1>1, <1>3, <1>4 DEF OInv, Encodings

(* Every step keeps the order.                                             *)
LEMMA OrderStep ==
  ASSUME StreamAssumption, SessionAssumption, "refused" \notin Pseudo, Orderly,
         UInv, Unopened, VInv, OInv, [Next]_vars
  PROVE  OInv'
<1>1. ASSUME NEW s \in Session, NEW state, s = cur, Leave(s, state) PROVE OInv'
  BY <1>1, CanvasCleared DEF Leave, Cleanup, Clear
<1>2. CASE InitMsg \/ Unsupported
  <2>1. CASE Fail
    <3>1. cur \in Session
      BY <1>2, Current DEF InitMsg, Unsupported, In, VInv, Control
    <3> QED BY <1>1, <2>1, <3>1 DEF Fail
  <2>2. CASE Waits
    BY <2>2, OrderStays DEF Waits, displayVars
  <2>3. ASSUME NEW n, Returns(n), family' = family PROVE OInv'
    BY <2>3, OrderStays DEF Returns, displayVars
  <2>4. ASSUME NEW n, Returns(n), In("ServerInitialisation") PROVE OInv'
    <3>1. renderQ = <<>>
      BY <2>4 DEF VInv, Phase, Fresh
    <3> QED BY <2>4, <3>1, OrderStays DEF Returns, displayVars
  <2>5. CASE NegotiateVersion
    BY <2>1, <2>3, <2>5 DEF NegotiateVersion
  <2>6. CASE NegotiateSecurity
    BY <2>1, <2>2, <2>6, OrderStays DEF NegotiateSecurity, ChooseType, Initialise, displayVars
  <2>7. CASE NegotiateAuthentication
    BY <2>1, <2>3, <2>7 DEF NegotiateAuthentication
  <2>8. CASE HandleSecurityResult
    BY <2>1, <2>2, <2>3, <2>8 DEF HandleSecurityResult, Initialise
  <2>9. CASE NegotiateServerInit
    BY <2>2, <2>4, <2>9 DEF NegotiateServerInit
  <2>10. CASE Unsupported
    BY <2>1, <2>10 DEF Unsupported
  <2> QED BY <1>2, <2>5, <2>6, <2>7, <2>8, <2>9, <2>10 DEF InitMsg
<1>3. CASE NormalMsg \/ NextRect \/ UpdateComplete
  BY <1>3, OrderStays DEF NormalMsg, CutText, UpdateHeader, NextRect, UpdateComplete, displayVars
<1>4. CASE Decode /\ UNCHANGED sessionVars
  <2>1. In("normal")
    BY <1>4 DEF Decode, VInv, Control
  <2> QED BY <1>4, <2>1, DecodeInOrder
<1>5. CASE Updated \/ CutSent
  BY <1>5, OrderStays DEF Updated, CutSent, SendUpdate, SendRect, SendCut, displayVars
<1>6. CASE Received
  BY <1>6, ReceivedInOrder
<1>7. CASE Shows
  <2>1. CASE MsgTimer
    BY <2>1, OrderStays DEF MsgTimer, displayVars
  <2>2. CASE ImageLoads /\ UNCHANGED streamVars
    BY <2>2, OrderStays DEF ImageLoads, streamVars
  <2> QED BY <1>7, <2>1, <2>2, FrameInOrder DEF Shows
<1>8. CASE ServerAnswers \/ Open \/ \E s \in Session : PeerCloses(s)
  BY <1>8, OrderStays DEF ServerAnswers, Open, PeerCloses, displayVars, streamVars
<1>9. ASSUME NEW s \in Session, DisconnTimeout(s) \/ FailTimer(s) \/ Closed(s) \/ CloseAnswered(s)
      PROVE  OInv'
  <2>1. CASE DisconnTimeout(s)
    BY <1>1, <2>1 DEF DisconnTimeout, UInv, OwnTimers
  <2>2. CASE FailTimer(s)
    BY <1>1, <2>2 DEF FailTimer, UInv, OwnTimers
  <2>3. CASE OnClose(s) /\ socket[s] # "none"
    <3>1. CASE onClose[s] /\ rfbState[s] \notin Over
      <4>1. s = cur
        BY <2>3, <3>1, Current DEF UInv, Past, Unopened, Session
      <4> QED BY <1>1, <2>3, <3>1, <4>1 DEF OnClose
    <3>2. CASE ~(onClose[s] /\ rfbState[s] \notin Over)
      BY <2>3, <3>2, OrderStays DEF OnClose, displayVars
    <3> QED BY <3>1, <3>2
  <2> QED BY <1>9, <2>1, <2>2, <2>3 DEF Closed, CloseAnswered
<1>10. CASE Connect
  BY <1>10, CanvasCleared DEF Connect
<1>11. CASE Disconnect
  <2>1. Leave(cur, "disconnect") /\ cur \in Session
    BY <1>11, Current DEF Disconnect, UInv, Told
  <2> QED BY <1>1, <2>1
<1>12. CASE UNCHANGED vars
  BY <1>12, OrderStays DEF vars, displayVars, streamVars
<1> QED BY <1>2, <1>3, <1>4, <1>5, <1>6, <1>7, <1>8, <1>9, <1>10, <1>11, <1>12
    DEF Next, Progress, Handler

(* The canvas shows the operations of the stream in the order they were    *)
(* sent and with the bytes they came with, if nothing comes with images    *)
(* that is drawn at once or keeps a reference to the receive buffer.       *)
THEOREM DrawnAsSent ==
  Patient /\ "refused" \notin Pseudo /\ Orderly /\ Spec => []CanvasAsSent
<1>1. Init => UInv /\ Unopened /\ VInv /\ OInv
  <2>1. Init => UInv /\ Unopened /\ VInv
    BY SessionAssumption, SessionBegins, StreamBegins
  <2>2. Init => OInv
    <3>1. 1..Len(<<>>) = {}
      OBVIOUS
    <3> QED BY <3>1 DEF Init, DisplayInit, OInv, InOrder
  <2> QED BY <2>1, <2>2
<1>2. Patient /\ "refused" \notin Pseudo /\ Orderly /\ UInv /\ Unopened /\ VInv /\ OInv /\ [Next]_vars
        => (UInv /\ Unopened /\ VInv /\ OInv)'
  BY SessionAssumption, StreamAssumption, SessionStep, StreamStep, OrderStep
<1>3. VInv /\ OInv => CanvasAsSent
  <2> SUFFICES ASSUME VInv, OInv PROVE CanvasAsSent
    OBVIOUS
  <2>1. DOMAIN drawn = 1..Len(drawn)
    BY LenProperties DEF VInv, StreamType
  <2> QED BY <2>1 DEF OInv, InOrder, CanvasAsSent
<1>4. CASE Patient /\ "refused" \notin Pseudo /\ Orderly
  BY <1>1, <1>2, <1>3, <1>4, PTL DEF Spec
<1> QED BY <1>4
=============================================================================
