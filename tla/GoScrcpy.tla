----------------------------- MODULE GoScrcpy -----------------------------
(***************************************************************************)
(* go-scrcpy: a page, the Go server and the control connection of scrcpy.  *)
(* The page keeps its WebSocket and its peer connection in two globals,    *)
(* ws and pc, which every handler of every socket reads when it runs, so   *)
(* that a second press of Connect mixes two connections up.  A peer        *)
(* connection has the number of the socket whose open event created it.    *)
(*                                                                         *)
(* At the server a goroutine per socket reads its messages; another, of    *)
(* pion, writes the candidates it finds.  gorilla/websocket does not allow *)
(* two writers at a time and may stop the process when it meets them.      *)
(* External: the user, the browser's peer connections, pion, scrcpy.       *)
(* The video, positions, the keys' codes and the bytes of a control        *)
(* message are left out.                                                   *)
(* Bounds: Connect is pressed MaxSockets times, MaxInputs clicks or keys,  *)
(* none after one has strayed; one candidate per peer connection and end,  *)
(* or none (Trickles).                                                     *)
(***************************************************************************)
EXTENDS Naturals, Sequences, FiniteSets

CONSTANTS MaxSockets, MaxInputs, Trickles

VARIABLES
  ws, pc,        \* the globals of the page; 0 is null
  connected,     \* the page shows a stream: Connect is disabled
  readyState,    \* of each socket
  setup,         \* what setupWebRTC of each socket awaits
  peers,         \* the peer connections of the page
  overwritten,   \* history: connect has replaced a socket that was not closed
  clicks,        \* timers of a click, with the socket its DOWN was sent on
  typing,        \* the socket on which the DOWN of the held key was sent
  inputs,        \* clicks and keys so far
  toServer, toPage,   \* messages of each socket
  clients,       \* of the server
  panicked,      \* the server has stopped
  server,        \* the peer connection and the goroutines of each client
  controlConn,   \* scrcpy has connected
  down,          \* what the device holds down
  strayed        \* history: an UP was lost, or sent on another socket than its DOWN

pageVars == <<ws, pc, connected, readyState, setup, peers, overwritten>>
userVars == <<clicks, typing, inputs>>
serverVars == <<clients, server, panicked>>
deviceVars == <<controlConn, down>>
vars == <<pageVars, userVars, toServer, toPage, serverVars, deviceVars, strayed>>

Socket == 1..MaxSockets
NoPeer == [state |-> "none", answer |-> 0, ice |-> {}, gathering |-> FALSE]
NoClient == [accepted |-> FALSE, remote |-> 0, answering |-> 0, ice |-> {}, gathering |-> FALSE]

offer(p) == [type |-> "offer", peer |-> p]
answer(p) == [type |-> "answer", peer |-> p]
candidate(p) == [type |-> "ice-candidate", peer |-> p]
input(what, action) == [type |-> what, action |-> action]

Init ==
  /\ ws = 0 /\ pc = 0 /\ connected = FALSE
  /\ readyState = [s \in Socket |-> "none"]
  /\ setup = [s \in Socket |-> "none"]
  /\ peers = [s \in Socket |-> NoPeer] /\ overwritten = FALSE
  /\ clicks = <<>> /\ typing = 0 /\ inputs = 0
  /\ toServer = [s \in Socket |-> <<>>] /\ toPage = [s \in Socket |-> <<>>]
  /\ clients = {} /\ panicked = FALSE /\ server = [s \in Socket |-> NoClient]
  /\ controlConn = FALSE /\ down = {} /\ strayed = FALSE

-----------------------------------------------------------------------------
(* The page.                                                               *)

IsOpen == ws # 0 /\ readyState[ws] = "OPEN"

(* ws.send: throws without an open socket, or is not delivered.            *)
Sent(m) == IF IsOpen /\ ws \in clients THEN [toServer EXCEPT ![ws] = Append(@, m)] ELSE toServer

(* cleanup, called when rs is readyState *)
keptPeer(p) == p                                              \* mutant
closedPeer(p) == [p EXCEPT !.state = "closed"]
cleanup(rs) ==
  /\ pc' = 0 /\ ws' = 0 /\ connected' = FALSE
  /\ peers' = IF pc = 0 THEN peers ELSE [peers EXCEPT ![pc] = closedPeer(@)]
  /\ readyState' = IF ws # 0 /\ rs[ws] \in {"CONNECTING", "OPEN"}
                   THEN [rs EXCEPT ![ws] = "CLOSING"] ELSE rs
  /\ UNCHANGED <<setup, overwritten>>

(* The button is enabled until a stream is shown, also while a connection  *)
(* is being made.                                                          *)
connect ==
  /\ ~connected
  /\ \E s \in Socket :
       /\ {t \in Socket : readyState[t] = "none"} = s..MaxSockets
       /\ ws' = s /\ readyState' = [readyState EXCEPT ![s] = "CONNECTING"]
  /\ overwritten' = (overwritten \/ ws # 0)
  /\ UNCHANGED <<pc, connected, setup, peers, userVars, toServer, toPage,
                 serverVars, deviceVars, strayed>>

(* The button is enabled while the page is connected. *)
disconnect ==
  /\ connected /\ cleanup(readyState)
  /\ UNCHANGED <<userVars, toServer, toPage, serverVars, deviceVars, strayed>>

(* setupWebRTC up to its first await *)
onopen(s) ==
  /\ readyState[s] = "CONNECTING" /\ s \in clients
  /\ readyState' = [readyState EXCEPT ![s] = "OPEN"]
  /\ connected' = FALSE
  /\ pc' = s /\ peers' = [peers EXCEPT ![s].state = "open"]
  /\ setup' = [setup EXCEPT ![s] = "createOffer"]
  /\ UNCHANGED <<ws, overwritten, userVars, toServer, toPage, serverVars, deviceVars, strayed>>

(* What awaits a peer connection that is closed never goes on.             *)
OfferCreated(s) ==
  /\ setup[s] = "createOffer" /\ peers[s].state = "open"
  /\ setup' = [setup EXCEPT ![s] = IF pc = s THEN "setLocalDescription" ELSE "rejected"]
  /\ UNCHANGED <<ws, pc, connected, readyState, peers, overwritten, userVars, toServer, toPage,
                 serverVars, deviceVars, strayed>>

OfferSent(s) ==
  /\ setup[s] = "setLocalDescription" /\ peers[s].state = "open"
  /\ setup' = [setup EXCEPT ![s] = "done"]
  /\ peers' = [peers EXCEPT ![s].state = "offered", ![s].gathering = Trickles]
  /\ toServer' = Sent(offer(s))
  /\ UNCHANGED <<ws, pc, connected, readyState, overwritten, userVars, toPage,
                 serverVars, deviceVars, strayed>>

onicecandidate(s) ==
  /\ peers[s].gathering /\ peers[s].state # "closed"
  /\ peers' = [peers EXCEPT ![s].gathering = FALSE]
  /\ toServer' = Sent(candidate(s))
  /\ UNCHANGED <<ws, pc, connected, readyState, setup, overwritten, userVars, toPage,
                 serverVars, deviceVars, strayed>>

(* handleMessage: an answer is taken by a peer connection that has made an *)
(* offer, a candidate by one that has an answer; else it is rejected.      *)
Takes(m) == pc # 0 /\ peers[pc].state = IF m.type = "answer" THEN "offered" ELSE "stable"

setRemoteDescription(m) ==
  /\ peers' = [peers EXCEPT ![pc].answer = m.peer, ![pc].state = "stable"]
  /\ connected' = TRUE                                        \* ontrack
addIceCandidate(m) ==
  /\ peers' = [peers EXCEPT ![pc].ice = @ \cup {m.peer}]
  /\ UNCHANGED connected

onmessage(s) ==
  /\ readyState[s] = "OPEN" /\ toPage[s] # <<>>
  /\ toPage' = [toPage EXCEPT ![s] = Tail(@)]
  /\ LET m == Head(toPage[s]) IN
       \/ Takes(m) /\ m.type = "answer" /\ setRemoteDescription(m)
       \/ Takes(m) /\ m.type = "ice-candidate" /\ addIceCandidate(m)
       \/ ~Takes(m) /\ UNCHANGED <<peers, connected>>
  /\ UNCHANGED <<ws, pc, readyState, setup, overwritten, userVars, toServer, serverVars,
                 deviceVars, strayed>>

(* The peer connection has failed: Connect is enabled, the socket is kept. *)
onconnectionstatechange ==
  /\ pc # 0 /\ peers[pc].state = "stable" /\ connected
  /\ connected' = FALSE
  /\ UNCHANGED <<ws, pc, readyState, setup, peers, overwritten, userVars, toServer, toPage,
                 serverVars, deviceVars, strayed>>

(* onerror and onclose clean up whatever the page holds by then.           *)
onclose(s) ==
  /\ readyState[s] \in {"CONNECTING", "OPEN", "CLOSING"} /\ s \notin clients
  /\ cleanup([readyState EXCEPT ![s] = "CLOSED"])
  /\ UNCHANGED <<userVars, toServer, toPage, serverVars, deviceVars, strayed>>

(* The DOWN of a click, and 50 ms later its UP.  Whatever socket is in ws  *)
(* by then is used.                                                        *)
click ==
  /\ IsOpen /\ ~strayed /\ inputs < MaxInputs /\ inputs' = inputs + 1
  /\ toServer' = Sent(input("touch", "down"))
  /\ clicks' = Append(clicks, ws)
  /\ UNCHANGED <<pageVars, typing, toPage, serverVars, deviceVars, strayed>>

Astray(s) == ws # s \/ ~IsOpen \/ s \notin clients

clickTimer ==
  /\ clicks # <<>> /\ clicks' = Tail(clicks)
  /\ toServer' = Sent(input("touch", "up"))
  /\ strayed' = (strayed \/ Astray(Head(clicks)))
  /\ UNCHANGED <<pageVars, typing, inputs, toPage, serverVars, deviceVars>>

keydown ==
  /\ IsOpen /\ ~strayed /\ typing = 0 /\ inputs < MaxInputs /\ inputs' = inputs + 1
  /\ toServer' = Sent(input("key", "down"))
  /\ typing' = ws
  /\ UNCHANGED <<pageVars, clicks, toPage, serverVars, deviceVars, strayed>>

keyup ==
  /\ typing # 0 /\ typing' = 0
  /\ toServer' = Sent(input("key", "up"))
  /\ strayed' = (strayed \/ Astray(typing))
  /\ UNCHANGED <<pageVars, clicks, inputs, toPage, serverVars, deviceVars>>

-----------------------------------------------------------------------------
(* The server.                                                             *)

(* handleWebSocket up to its loop *)
handleWebSocket(s) ==
  /\ readyState[s] = "CONNECTING" /\ ~server[s].accepted /\ ~panicked
  /\ clients' = clients \cup {s}
  /\ server' = [server EXCEPT ![s].accepted = TRUE]
  /\ UNCHANGED <<panicked, pageVars, userVars, toServer, toPage, deviceVars, strayed>>

(* handleTouchEvent, handleKeyEvent: one message is written at a time, and *)
(* dropped before scrcpy has connected or when the write fails.            *)
Inject(m) ==
  \/ /\ controlConn
     /\ down' = IF m.action = "down" THEN down \cup {m.type} ELSE down \ {m.type}
     /\ UNCHANGED strayed
  \/ ~controlConn /\ UNCHANGED <<down, strayed>>
  \/ controlConn /\ strayed' = TRUE /\ UNCHANGED down

(* An offer: the answer is set and then written, while pion may already    *)
(* write candidates.                                                       *)
handleMessage(s) ==
  /\ s \in clients /\ server[s].answering = 0 /\ toServer[s] # <<>>
  /\ toServer' = [toServer EXCEPT ![s] = Tail(@)]
  /\ LET m == Head(toServer[s]) IN
       \/ /\ m.type = "offer"
          /\ server' = [server EXCEPT ![s].remote = m.peer, ![s].answering = m.peer,
                                      ![s].gathering = Trickles]
          /\ UNCHANGED <<down, strayed>>
       \/ /\ m.type = "ice-candidate" /\ server[s].remote # 0
          /\ server' = [server EXCEPT ![s].ice = @ \cup {m.peer}]
          /\ UNCHANGED <<down, strayed>>
       \/ /\ m.type = "ice-candidate" /\ server[s].remote = 0
          /\ UNCHANGED <<server, down, strayed>>
       \/ m.type \in {"touch", "key"} /\ Inject(m) /\ UNCHANGED server
  /\ UNCHANGED <<pageVars, userVars, toPage, clients, panicked, controlConn>>

WriteAnswer(s) ==
  /\ s \in clients /\ server[s].answering # 0
  /\ toPage' = [toPage EXCEPT ![s] = Append(@, answer(server[s].answering))]
  /\ server' = [server EXCEPT ![s].answering = 0]
  /\ UNCHANGED <<pageVars, userVars, toServer, clients, panicked, deviceVars, strayed>>

OnICECandidate(s) ==
  /\ s \in clients /\ server[s].gathering
  /\ toPage' = [toPage EXCEPT ![s] = Append(@, candidate(server[s].remote))]
  /\ server' = [server EXCEPT ![s].gathering = FALSE]
  /\ UNCHANGED <<pageVars, userVars, toServer, clients, panicked, deviceVars, strayed>>

(* Both write at once, and gorilla/websocket panics.                       *)
Panic ==
  /\ \E s \in clients : server[s].answering # 0 /\ server[s].gathering
  /\ panicked' = TRUE /\ clients' = {} /\ server' = [s \in Socket |-> NoClient]
  /\ toServer' = [s \in Socket |-> <<>>] /\ toPage' = [s \in Socket |-> <<>>]
  /\ controlConn' = FALSE /\ strayed' = TRUE
  /\ UNCHANGED <<pageVars, userVars, down>>

(* The deferred end of handleWebSocket: the page has closed the socket, or *)
(* the connection is lost with what was on its way.                        *)
Leave(s) ==
  /\ s \in clients /\ server[s].answering = 0
  /\ readyState[s] = "CLOSING" /\ toServer[s] = <<>>
  /\ clients' = clients \ {s}
  /\ toPage' = [toPage EXCEPT ![s] = <<>>]
  /\ UNCHANGED <<pageVars, userVars, toServer, server, panicked, deviceVars, strayed>>

Cut(s) ==
  /\ s \in clients
  /\ clients' = clients \ {s} /\ server' = [server EXCEPT ![s].answering = 0]
  /\ toServer' = [toServer EXCEPT ![s] = <<>>] /\ toPage' = [toPage EXCEPT ![s] = <<>>]
  /\ strayed' = (strayed \/ toServer[s] # <<>>)
  /\ UNCHANGED <<panicked, pageVars, userVars, deviceVars>>

(* startControlListener takes one connection.                              *)
startControlListener ==
  /\ ~controlConn /\ controlConn' = TRUE
  /\ UNCHANGED <<pageVars, userVars, toServer, toPage, serverVars, down, strayed>>

Next ==
  \/ connect \/ disconnect \/ onconnectionstatechange
  \/ click \/ clickTimer \/ keydown \/ keyup
  \/ \E s \in Socket :
       \/ onopen(s) \/ OfferCreated(s) \/ OfferSent(s) \/ onicecandidate(s)
       \/ onmessage(s) \/ onclose(s)
       \/ handleWebSocket(s) \/ handleMessage(s) \/ WriteAnswer(s) \/ OnICECandidate(s)
       \/ Leave(s) \/ Cut(s)
  \/ Panic \/ startControlListener

Spec == Init /\ [][Next]_vars

-----------------------------------------------------------------------------
(* Answers and candidates reach the peer connection they are for, at both  *)
(* ends, although every handler reads the globals and sockets close late:  *)
(* only a socket that connect has replaced before it was closed, which     *)
(* nobody will close, lets them go astray.                                 *)
SignalsFit ==
  ~overwritten => \A s \in Socket :
    /\ peers[s].answer \in {0, s} /\ peers[s].ice \subseteq {s}
    /\ s \in clients => server[s].remote \in {0, s} /\ server[s].ice \subseteq {s}

(* When all is sent and handled the device holds nothing down, whichever   *)
(* sockets carried the events, unless an UP was lost or sent on another    *)
(* socket than its DOWN, which it may overtake.                            *)
Quiet == clicks = <<>> /\ typing = 0 /\ \A s \in clients : toServer[s] = <<>>
AllLifted == Quiet /\ ~strayed => down = {}
=============================================================================
