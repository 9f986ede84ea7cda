---------------------------- MODULE VncSession ----------------------------
(***************************************************************************)
(* Sessions of the page vnc.html with a VNC server: app/ui.js makes an RFB *)
(* object per connection, whose states rfb.js goes through by events of    *)
(* the WebSocket, by messages and by timers that nobody but their owner    *)
(* knows of; all of them report to the same UI.  In the state "normal"     *)
(* VncStream takes over.  Server, proxy and browser are external.          *)
(***************************************************************************)
EXTENDS VncStream

CONSTANTS
  Versions, \* what servers say of their version: 33, 37, 38, Repeater, Invalid
  Schemes,  \* security types: 1 is none, 2 VNC authentication, 0 that nothing will do
  Patient, \* users click on Disconnect once
  MaxSessions, MaxDisconnects, MaxCloses \* bounds

Repeater == 0 \* of UltraVNC, in front of the server
Invalid  == 1

ASSUME SessionAssumption ==
  /\ Versions \subseteq {33, 37, 38, Repeater, Invalid}
  /\ Schemes \subseteq 0..2
  /\ Patient \in BOOLEAN
  /\ {MaxSessions, MaxDisconnects, MaxCloses} \subseteq Nat

VARIABLES
  cur,       \* the number of the session UI.rfb stands for
  rfbState,  \* _rfb_state of each session
  uiState,   \* UI.rfb_state
  socket,    \* the WebSocket of each
  onClose,   \* its close handler is installed
  disconnTimer, \* the disconnect timer that can still be cleared
  lostTimers,   \* those that cannot
  failTimer, \* the 50 ms after which a failed session is disconnected
  version,   \* of the protocol, until it does not matter any more
  scheme,    \* the security type, likewise
  due        \* what the server has to answer

sessionVars == <<cur, rfbState, uiState, socket, onClose, disconnTimer, lostTimers, failTimer,
                 version, scheme, due>>
vars == <<displayVars, streamVars, sessionVars>>

Session == 1..MaxSessions
Over    == {"disconnected", "failed"}
Idle    == pc = "idle"
In(state) == cur > 0 /\ rfbState[cur] = state

TypeOK ==
  /\ DisplayTypeOK
  /\ FBU.rects \in Nat /\ FBU.bytes \in Nat /\ FBU.left \in Nat /\ owed \in Nat
  /\ pc \in {"idle", "start", "rects", "decode"}
  /\ {asked, msgTimer} \subseteq BOOLEAN
  /\ cur \in 0..MaxSessions
  /\ rfbState \in [Session -> Over \cup {"loaded", "connect", "ProtocolVersion", "Security",
       "Authentication", "SecurityResult", "ServerInitialisation", "normal", "disconnect"}]
  /\ socket \in [Session -> {"none", "connecting", "open", "closing", "ended", "closed"}]
  /\ onClose \in [Session -> BOOLEAN] /\ disconnTimer \in [Session -> BOOLEAN]
  /\ lostTimers \in [Session -> Nat] /\ failTimer \in [Session -> BOOLEAN]
  /\ version \in {0, 33, 37, 38} /\ scheme \in 0..2
  /\ due \in {"nothing", "version", "server", "types", "challenge", "result", "init"}

Init ==
  /\ DisplayInit
  /\ net = <<>> /\ sent = 0 /\ owed = 0 /\ asked = FALSE /\ family = "tight"
  /\ rQ = <<>> /\ FBU = NoFBU /\ pc = "idle" /\ msgTimer = FALSE
  /\ count = [e \in {"rect", "cut", "disconnect", "close"} |-> 0]
  /\ cur = 0 /\ uiState = "loaded"
  /\ rfbState = [s \in Session |-> "loaded"]
  /\ socket = [s \in Session |-> "none"]
  /\ onClose = [s \in Session |-> TRUE]
  /\ disconnTimer = [s \in Session |-> FALSE]
  /\ lostTimers = [s \in Session |-> 0]
  /\ failTimer = [s \in Session |-> FALSE]
  /\ version = 0 /\ scheme = 0 /\ due = "nothing"

-----------------------------------------------------------------------------
(* _updateState()                                                          *)

(* The states of a session that goes on.                                   *)
Enter(state) ==
  /\ rfbState' = [rfbState EXCEPT ![cur] = state]
  /\ uiState' = state
  /\ UNCHANGED <<cur, onClose, disconnTimer, lostTimers, failTimer>>

(* _sock.close().                                                          *)
CloseSocket(s) ==
  socket' = [socket EXCEPT ![s] = IF @ \in {"connecting", "open"} THEN "closing" ELSE @]

(* What else _cleanupSocket() does: no timer, and an empty canvas, which   *)
(* is the same for all sessions.  Nothing more is read from the socket.    *)
Cleanup(s) ==
  IF s = cur
    THEN /\ msgTimer' = FALSE
         /\ pc' = "idle" /\ rQ' = <<>> /\ net' = <<>> /\ FBU' = NoFBU
         /\ asked' = FALSE /\ sent' = 0 /\ owed' = 0 /\ due' = "nothing"
         /\ version' = 0 /\ scheme' = 0 /\ family' = "tight"
         /\ Clear
    ELSE /\ drawn' = <<>>
         /\ UNCHANGED <<renderQ, loaded, frame, net, sent, owed, asked, family, rQ, FBU, pc, msgTimer,
                        version, scheme, due>>

Reported(s, state) ==
  /\ rfbState' = [rfbState EXCEPT ![s] =
       IF @ = "failed" /\ state = "disconnected" THEN "failed" ELSE state]
  /\ uiState' = state
  /\ failTimer' = [failTimer EXCEPT ![s] = state = "failed"]
  /\ UNCHANGED cur

\* mutant: the disconnect timer goes on
LeaveNoClear(s, state) ==
  /\ Cleanup(s)
  /\ Reported(s, state)
  /\ disconnTimer' = [disconnTimer EXCEPT ![s] = @ \/ state = "disconnect"]
  /\ onClose' = [onClose EXCEPT ![s] = @ /\ (~disconnTimer[s] \/ state = "disconnect")]

\* mutant: no timer is started
LeaveNoTimer(s, state) ==
  /\ Cleanup(s)
  /\ Reported(s, state)
  /\ UNCHANGED <<disconnTimer, onClose>>

(* disconnect, disconnected and failed.  Unless it is another disconnect,  *)
(* a timer that runs is cleared, and the close handler with it.            *)
Leave(s, state) ==
  /\ Cleanup(s)
  /\ Reported(s, state)
  /\ disconnTimer' = [disconnTimer EXCEPT ![s] = state = "disconnect"]
  /\ onClose' = [onClose EXCEPT ![s] = @ /\ (~disconnTimer[s] \/ state = "disconnect")]

Fail == Leave(cur, "failed") /\ CloseSocket(cur) /\ UNCHANGED <<lostTimers, count>>

-----------------------------------------------------------------------------
(* UI.connect() and UI.disconnect()                                        *)

(* The connect panel is there when no session is on; nobody clicks on it   *)
(* in the 50 ms after a failure.  There is a new RFB and a new Display.    *)
Connect ==
  /\ Idle
  /\ cur < MaxSessions
  /\ uiState \in Over \cup {"loaded"}
  /\ \A s \in Session : ~failTimer[s]
  /\ cur' = cur + 1
  /\ rfbState' = [rfbState EXCEPT ![cur'] = "connect"]
  /\ uiState' = "connect"
  /\ socket' = [socket EXCEPT ![cur'] = "connecting"]
  /\ renderQ' = <<>> /\ loaded' = {} /\ frame' = FALSE /\ drawn' = <<>>
  /\ UNCHANGED <<onClose, disconnTimer, lostTimers, failTimer, version, scheme, due, net, sent, owed,
                 asked, family, rQ, FBU, pc, msgTimer, count>>

(* The button is there in every other state, so also while disconnecting;  *)
(* the second timer takes the place of the first.                          *)
Disconnect ==
  /\ Idle
  /\ uiState \notin Over \cup {"loaded"}
  /\ Patient => ~In("disconnect")
  /\ Happens("disconnect", 1, MaxDisconnects)
  /\ Leave(cur, "disconnect")
  /\ CloseSocket(cur)
  /\ lostTimers' = [lostTimers EXCEPT ![cur] = IF disconnTimer[cur] THEN @ + 1 ELSE @]

(* The oldest timer ends first.                                            *)
DisconnTimeout(s) ==
  /\ Idle
  /\ disconnTimer[s] \/ lostTimers[s] > 0
  /\ lostTimers' = [lostTimers EXCEPT ![s] = IF @ > 0 THEN @ - 1 ELSE @]
  /\ Leave(s, "failed")
  /\ CloseSocket(s)
  /\ UNCHANGED count

FailTimer(s) ==
  /\ Idle
  /\ failTimer[s]
  /\ Leave(s, "disconnected")
  /\ CloseSocket(s)
  /\ UNCHANGED <<lostTimers, count>>

-----------------------------------------------------------------------------
(* The WebSocket                                                           *)

Open ==
  /\ Idle
  /\ In("connect") /\ socket[cur] = "connecting"
  /\ socket' = [socket EXCEPT ![cur] = "open"]
  /\ Enter("ProtocolVersion")
  /\ due' = "version"
  /\ UNCHANGED <<version, scheme, displayVars, streamVars>>

(* The server, the proxy or the network ends the connection, and what has  *)
(* not come yet is lost.                                                   *)
PeerCloses(s) ==
  /\ Idle
  /\ socket[s] \in {"connecting", "open"}
  /\ Happens("close", 1, MaxCloses)
  /\ socket' = [socket EXCEPT ![s] = "ended"]
  /\ net' = <<>> /\ owed' = 0 /\ due' = "nothing"
  /\ UNCHANGED <<cur, rfbState, uiState, onClose, disconnTimer, lostTimers, failTimer, version,
                 scheme, displayVars, sent, asked, family, rQ, FBU, pc, msgTimer>>

(* onclose.                                                                *)
OnClose(s) ==
  /\ socket' = [socket EXCEPT ![s] = "closed"]
  /\ IF onClose[s] /\ rfbState[s] \notin Over
       THEN Leave(s, IF rfbState[s] = "disconnect" THEN "disconnected" ELSE "failed")
       ELSE UNCHANGED <<cur, rfbState, uiState, onClose, disconnTimer, failTimer, version, scheme,
                        due, displayVars, net, sent, owed, asked, family, rQ, FBU, pc, msgTimer>>
  /\ UNCHANGED <<lostTimers, count>>

Closed(s) == Idle /\ socket[s] = "ended" /\ OnClose(s)

(* The closing of the socket by the page is answered.                      *)
CloseAnswered(s) == Idle /\ socket[s] = "closing" /\ OnClose(s)

-----------------------------------------------------------------------------
(* The handshake                                                           *)

Sent(k, n) == Unit(k, n, 0)

(* A server of version 3.3 decides alone, and goes on.                     *)
TypeMessages ==
  IF version = 33
    THEN {CASE t = 0 -> <<Unit("types", 0, t), Sent("reason", 0)>>
            [] t = 1 -> <<Unit("types", 0, t)>>
            [] t = 2 -> <<Unit("types", 0, t), Sent("challenge", 0)>> : t \in Schemes}
    ELSE {<<Unit("types", 1, t), Sent("data", 0)>> : t \in Schemes} \cup
         {<<Unit("types", 0, t), Sent("data", 0)>> : t \in Schemes \ {1, 2}}

Answer(what) ==
  CASE what = "version"   -> {<<Sent("version", v), Sent("data", 0)>> : v \in Versions}
    [] what = "server"    -> {<<Sent("version", v), Sent("data", 0)>> : v \in Versions \ {Repeater}}
    [] what = "types"     -> TypeMessages
    [] what = "challenge" -> {<<Sent("challenge", 0)>>}
    [] what = "result"    -> {<<Sent("result", 0)>>, <<Sent("result", 2)>>,
                              IF version = 38 THEN <<Sent("result", 1), Sent("data", 0)>>
                              ELSE <<Sent("result", 1)>>}
    [] what = "init"      -> {<<Sent("init", 1), Sent("data", 0)>>}

ServerAnswers ==
  /\ Idle
  /\ due # "nothing" /\ socket[cur] = "open"
  /\ \E units \in Answer(due) : net' = net \o units
  /\ due' = "nothing"
  /\ UNCHANGED <<cur, rfbState, uiState, socket, onClose, disconnTimer, lostTimers, failTimer,
                 version, scheme, displayVars, sent, owed, asked, family, rQ, FBU, pc, msgTimer, count>>

(* A method returns, whatever is left of the queue.                        *)
Returns(num) ==
  /\ rQ' = Shift(num)
  /\ pc' = "idle"
  /\ UNCHANGED <<socket, displayVars, net, sent, owed, FBU, msgTimer, count>>

Waits ==
  /\ pc' = "idle"
  /\ UNCHANGED <<sessionVars, displayVars, net, sent, owed, asked, family, rQ, FBU, msgTimer, count>>

(* _negotiate_protocol_version() does not wait for the rest of it.  Behind *)
(* a repeater the server says its own.                                     *)
NegotiateVersion ==
  /\ In("ProtocolVersion")
  /\ \/ (Wait(2) \/ rQ[1].n = Invalid) /\ Fail
     \/ /\ ~Wait(2) /\ rQ[1].n = Repeater
        /\ due' = "server"
        /\ Returns(2)
        /\ UNCHANGED <<cur, rfbState, uiState, onClose, disconnTimer, lostTimers, failTimer, version,
                       scheme, asked, family>>
     \/ /\ ~Wait(2) /\ rQ[1].n \in {33, 37, 38}
        /\ version' = rQ[1].n
        /\ Enter("Security")
        /\ due' = "types"
        /\ Returns(2)
        /\ UNCHANGED <<scheme, asked, family>>

(* ClientInitialisation.                                                   *)
Initialise ==
  /\ Enter("ServerInitialisation")
  /\ due' = "init"
  /\ version' = 0 /\ scheme' = 0
  /\ UNCHANGED <<asked, family>>

(* What follows the choice of a security type.                             *)
ChooseType(type) ==
  \/ type = 1 /\ version # 38 /\ Initialise
  \/ /\ type # 1 \/ version = 38
     /\ scheme' = type
     /\ Enter(IF type = 1 THEN "SecurityResult" ELSE "Authentication")
     /\ due' = IF version = 33 THEN due ELSE IF type = 1 THEN "result" ELSE "challenge"
     /\ UNCHANGED <<version, asked, family>>

(* _negotiate_security(), and the jump to _negotiate_authentication().     *)
NegotiateSecurity ==
  /\ In("Security")
  /\ \/ Wait(1 + rQ[1].n) /\ Waits
     \/ ~Wait(1 + rQ[1].n) /\ version # 33 /\ rQ[1].id = 0 /\ Fail
     \/ /\ ~Wait(1 + rQ[1].n) /\ (version = 33 \/ rQ[1].id # 0)
        /\ ChooseType(rQ[1].id)
        /\ rQ' = Shift(1 + rQ[1].n)
        /\ pc' = IF rQ' = <<>> THEN "idle" ELSE "start"
        /\ UNCHANGED <<socket, displayVars, net, sent, owed, FBU, msgTimer, count>>

(* _negotiate_authentication(): the server refuses, or                     *)
(* _negotiate_std_vnc_auth(), with a password.                             *)
NegotiateAuthentication ==
  /\ In("Authentication")
  /\ \/ scheme = 0 /\ Fail
     \/ /\ scheme = 2
        /\ Enter("SecurityResult")
        /\ due' = "result"
        /\ Returns(1)
        /\ UNCHANGED <<version, scheme, asked, family>>

(* _handle_security_result().                                              *)
HandleSecurityResult ==
  /\ In("SecurityResult")
  /\ LET reasoned == rQ[1].n = 1 /\ version = 38
     IN  \/ reasoned /\ Wait(2) /\ Waits
         \/ rQ[1].n # 0 /\ ~(reasoned /\ Wait(2)) /\ Fail
         \/ rQ[1].n = 0 /\ Initialise /\ Returns(1)

(* _negotiate_server_init(), with the first framebufferUpdateRequest; the  *)
(* server takes its pick of the encodings it is told.                      *)
NegotiateServerInit ==
  /\ In("ServerInitialisation")
  /\ \/ Wait(1 + rQ[1].n) /\ Waits
     \/ /\ ~Wait(1 + rQ[1].n)
        /\ Enter("normal")
        /\ asked' = TRUE
        /\ family' \in {"tight", "plain"}
        /\ Returns(1 + rQ[1].n)
        /\ UNCHANGED <<version, scheme, due>>

InitMsg ==
  /\ pc = "start" /\ rQ # <<>>
  /\ \/ NegotiateVersion \/ NegotiateSecurity \/ NegotiateAuthentication
     \/ HandleSecurityResult \/ NegotiateServerInit

-----------------------------------------------------------------------------
(* The specification                                                       *)

(* _framebufferUpdate(): a rectangle in an encoding nobody knows.          *)
Unsupported ==
  /\ In("normal") /\ pc = "rects" /\ FBU.rects > 0 /\ FBU.bytes = 0
  /\ ~Wait(1) /\ rQ[1].k = "unknown"
  /\ Fail

(* rfb.js runs.                                                            *)
Handler ==
  \/ InitMsg
  \/ Unsupported
  \/ /\ \/ In("normal") /\ NormalMsg
        \/ NextRect \/ UpdateComplete \/ Decode
     /\ UNCHANGED sessionVars

(* The server in the state normal.                                         *)
Updated ==
  /\ Idle /\ In("normal") /\ socket[cur] = "open"
  /\ \/ \E rects \in 1..MaxRects : SendUpdate(rects)
     \/ \E enc \in Encodings : SendRect(enc)
  /\ UNCHANGED sessionVars

CutSent ==
  /\ Idle
  /\ In("normal") \/ (In("ServerInitialisation") /\ due = "nothing")
  /\ socket[cur] = "open"
  /\ SendCut
  /\ UNCHANGED sessionVars

(* The browser.                                                            *)
Received ==
  /\ Idle /\ cur > 0 /\ socket[cur] = "open"
  /\ \E n \in 1..Len(net) : Receive(n)
  /\ UNCHANGED sessionVars

Shows ==
  /\ Idle
  /\ \/ MsgTimer
     \/ (ImageLoads \/ AnimationFrame) /\ UNCHANGED streamVars
  /\ UNCHANGED sessionVars

Progress ==
  \/ Handler \/ Updated \/ Received \/ Shows \/ ServerAnswers \/ Open
  \/ \E s \in Session : DisconnTimeout(s) \/ FailTimer(s) \/ Closed(s)

Next ==
  \/ Progress \/ Connect \/ Disconnect \/ CutSent
  \/ \E s \in Session : PeerCloses(s) \/ CloseAnswered(s)

Spec == Init /\ [][Next]_vars

(* The browser runs what is due, the server answers what it is asked; the  *)
(* closing of a socket may never be answered, and users need do nothing.   *)
(* All of it is bounded, so that the fairness of the whole is that of each *)
(* part.                                                                   *)
FairSpec == Spec /\ WF_vars(Progress)

-----------------------------------------------------------------------------
(* Properties                                                              *)

Expected(state) ==
  CASE state = "ProtocolVersion" -> {"version"}
    [] state = "Security"        -> {"types"}
    [] state = "Authentication"  -> IF scheme = 0 THEN {"reason"} ELSE {"challenge"}
    [] state = "SecurityResult"  -> {"result"}
    [] state = "ServerInitialisation" -> {"init"}
    [] state = "normal" -> {"update", "cut"}
    [] OTHER -> {}

(* Wherever the WebSocket messages are cut and wherever the methods wait   *)
(* and come back, what is taken for a header in the receive queue is one,  *)
(* of a message of the state the session is in or of a rectangle, and what *)
(* a handler takes behind the header of a rectangle belongs to one.        *)
InStep ==
  /\ pc = "start" /\ rQ # <<>> /\ FBU.rects = 0 => rQ[1].k \in Expected(rfbState[cur])
  /\ pc = "rects" /\ rQ # <<>> /\ FBU.rects > 0 /\ FBU.bytes = 0 => rQ[1].k \in Encodings
  /\ pc = "decode" /\ rQ # <<>> /\ FBU.enc \notin {"resize", "last", "qemu"} => rQ[1].k \in {"ctl", "data"}

(* What is on the canvas is what the server sent, in its order, nothing    *)
(* twice and nothing left out, and with its own pixels: an operation that  *)
(* has to wait for an image holds up the later ones ("We need to wait for  *)
(* this image to 'load' to keep things in-order", display.js).             *)
CanvasAsSent == \A i \in DOMAIN drawn : drawn[i].id = i /\ drawn[i].data # "wrong"

(* The page shows the state of the session it has now: no timer and no     *)
(* event of an earlier one is taken for its own (_updateState: "make sure  *)
(* we don't get a double event").                                          *)
UiTruth ==
  cur > 0 => \/ uiState = rfbState[cur]
             \/ uiState = "disconnected" /\ rfbState[cur] = "failed"

(* All that the server has sent comes to the canvas while the session      *)
(* lasts, and the next update is then asked for: no rest of a message is   *)
(* forgotten in the receive queue and no operation in the render queue.    *)
Shown == In("normal") ~> (asked /\ Len(drawn) = sent) \/ ~In("normal")

(* A session that is being disconnected ends, whether the closing of its   *)
(* socket is answered or not.                                              *)
DisconnectEnds == In("disconnect") ~> cur > 0 /\ rfbState[cur] \in Over
=============================================================================
