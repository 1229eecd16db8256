----------------------------- MODULE Multiplexer -----------------------------
(***************************************************************************)
(* js-scrcpy/src/packages/multiplexer: many channels over one WebSocket.   *)
(*                                                                         *)
(* Two peers, the browser ("client") and the Node server, each wrap their  *)
(* end of one WebSocket in a root Multiplexer (_id = 0) and keep one       *)
(* Multiplexer object per channel in a Map.  Only the client creates       *)
(* channels (ManagerClient.openNewConnection); both ends send and close.   *)
(* JavaScript runs to completion: a socket event is handled only when no   *)
(* microtask is pending, whereas API calls may be made by the code that    *)
(* runs in between, so they are enabled at any time.                       *)
(*                                                                         *)
(* External: the WebSocket itself - ordered, and cut at any moment.        *)
(* Bounds: MaxChannels channels are ever created, MaxSends[p][id] messages *)
(* are sent by the end at p of channel id.                                 *)
(***************************************************************************)
EXTENDS Integers, Sequences

CONSTANTS MaxChannels, MaxSends

ASSUME BoundsAssumption ==
  MaxChannels \in Nat /\ MaxSends \in [{"client", "server"} -> [1..MaxChannels -> Nat]]

VARIABLES ws,           \* readyState of the WebSocket at each peer
          readyState,   \* readyState of each Multiplexer object at each peer
          channels,     \* keys of the root's channels Map at each peer
          nextId,       \* the root's nextId at each peer
          storage,      \* the client's storage arrays, one per object
          emptyTimerScheduled, \* the root's flag at each peer
          microtasks,   \* queue of promise callbacks at each peer
          opening,      \* the client's channels whose 'open' listener is still to run
          wire,         \* messages sent by each peer, not yet received
          sent, got     \* history: data messages sent and delivered per channel end

vars == <<ws, readyState, channels, nextId, storage, emptyTimerScheduled,
          microtasks, opening, wire, sent, got>>

Peer == {"client", "server"}
Other(p) == IF p = "client" THEN "server" ELSE "client"

Root == 0                     \* _id of the Multiplexer that wraps the WebSocket
Id == 1..MaxChannels
State == {"CONNECTING", "OPEN", "CLOSED"}
SocketState == State \cup {"CLOSING"}

Message == [type : {"CreateChannel", "Data", "CloseChannel"}, id : Id, n : Nat]
CreateChannelMsg(id) == [type |-> "CreateChannel", id |-> id, n |-> 0]
CloseChannelMsg(id) == [type |-> "CloseChannel", id |-> id, n |-> 0]
DataMsg(id, n) == [type |-> "Data", id |-> id, n |-> n]

EmptyCheck == 0               \* the microtask of scheduleEmptyEvent; id \in Id opens a channel

Init ==
  /\ ws = [p \in Peer |-> IF p = "client" THEN "CONNECTING" ELSE "OPEN"]
  /\ readyState = [p \in Peer |-> [o \in {Root} \cup Id |->
                     IF o # Root THEN "none" ELSE ws[p]]]
  /\ channels = [p \in Peer |-> {}]
  /\ nextId = [p \in Peer |-> 0]
  /\ storage = [o \in {Root} \cup Id |-> <<>>]
  /\ emptyTimerScheduled = [p \in Peer |-> TRUE]
  /\ microtasks = [p \in Peer |-> <<EmptyCheck>>]
  /\ opening = {}
  /\ wire = [p \in Peer |-> <<>>]
  /\ sent = [p \in Peer |-> [id \in Id |-> 0]]
  /\ got = [p \in Peer |-> [id \in Id |-> <<>>]]

(* Channels that existed at p and whose 'close' event was emitted there.   *)
Gone(p) == (1..nextId[p]) \ channels[p]

(* The peer has no JavaScript left to run before the next socket event.    *)
Idle(p) == microtasks[p] = <<>> /\ (p = "client" => opening = {})

(***************************************************************************)
(* WebSocket.send: silently discarded once the socket is closing.          *)
(***************************************************************************)
SocketSend(p, msgs) ==
  wire' = IF ws[p] = "OPEN" THEN [wire EXCEPT ![p] = @ \o msgs] ELSE wire

(***************************************************************************)
(* sendData of the root.  Its _send throws once the root is CLOSED: the    *)
(* callers below test for that first.                                      *)
(***************************************************************************)
RootSend(p, m) ==
  IF readyState[p][Root] = "OPEN"
  THEN SocketSend(p, <<m>>) /\ UNCHANGED storage
  ELSE storage' = [storage EXCEPT ![Root] = Append(@, m)] /\ UNCHANGED wire

(* The first id above nextId that is not a key of the Map.                 *)
getNextId(p) ==
  CHOOSE i \in Id : /\ i > nextId[p]
                    /\ i \notin channels[p]
                    /\ \A j \in (nextId[p] + 1)..(i - 1) : j \in channels[p]

scheduleEmptyEventNever(p) ==                             \* mutant
  UNCHANGED <<emptyTimerScheduled, microtasks>>
scheduleEmptyEvent(p) ==
  IF emptyTimerScheduled[p]
  THEN UNCHANGED <<emptyTimerScheduled, microtasks>>
  ELSE /\ emptyTimerScheduled' = [emptyTimerScheduled EXCEPT ![p] = TRUE]
       /\ microtasks' = [microtasks EXCEPT ![p] = Append(@, EmptyCheck)]

clearEmptyEventNot(p) == UNCHANGED emptyTimerScheduled     \* mutant
clearEmptyEvent(p) == emptyTimerScheduled' = [emptyTimerScheduled EXCEPT ![p] = FALSE]

(* emit('close') on channel id: the root forgets it, and asks for an       *)
(* 'empty' event if it was the last one.                                   *)
ForgetChannel(p, id) ==
  /\ channels' = [channels EXCEPT ![p] = @ \ {id}]
  /\ IF channels[p] \subseteq {id}
     THEN scheduleEmptyEvent(p)
     ELSE UNCHANGED <<emptyTimerScheduled, microtasks>>

(***************************************************************************)
(* API calls.                                                              *)
(***************************************************************************)
OpenLaterNever(id) == UNCHANGED microtasks                \* mutant
OpenLater(id) ==
  microtasks' = IF readyState["client"][Root] = "OPEN"
                THEN [microtasks EXCEPT !["client"] = Append(@, id)]
                ELSE microtasks

createChannel ==
  /\ readyState["client"][Root] # "CLOSED"
  /\ nextId["client"] < MaxChannels
  /\ LET id == getNextId("client") IN
       /\ nextId' = [nextId EXCEPT !["client"] = id]
       /\ readyState' = [readyState EXCEPT !["client"][id] = "CONNECTING"]
       /\ channels' = [channels EXCEPT !["client"] = @ \cup {id}]
       /\ OpenLater(id)
       /\ clearEmptyEvent("client")
       /\ RootSend("client", CreateChannelMsg(id))
  /\ UNCHANGED <<ws, opening, sent, got>>

(* send: kept in storage while CONNECTING, thrown away with an exception   *)
(* (no step) when the channel or its root is CLOSED.                       *)
SendsNow(p, id) == readyState[p][id] = "OPEN" /\ readyState[p][Root] = "OPEN"

send(p, id) ==
  /\ sent[p][id] < MaxSends[p][id]
  /\ sent' = [sent EXCEPT ![p][id] = @ + 1]
  /\ LET m == DataMsg(id, sent[p][id] + 1) IN
       \/ /\ SendsNow(p, id)
          /\ SocketSend(p, <<m>>)
          /\ UNCHANGED storage
       \/ /\ readyState[p][id] = "CONNECTING"
          /\ storage' = [storage EXCEPT ![id] = Append(@, m)]
          /\ UNCHANGED wire
  /\ UNCHANGED <<ws, readyState, channels, nextId, emptyTimerScheduled,
                 microtasks, opening, got>>

(* close: when the root is CLOSED already sendData throws, and only the    *)
(* finally block runs.                                                     *)
SendCloseIfOpen(p, id) ==                                 \* mutant
  IF readyState[p][id] = "OPEN"
  THEN RootSend(p, CloseChannelMsg(id)) ELSE UNCHANGED <<wire, storage>>
SendClose(p, id) == RootSend(p, CloseChannelMsg(id))

close(p, id) ==
  /\ readyState[p][id] \in {"CONNECTING", "OPEN"}
  /\ readyState' = [readyState EXCEPT ![p][id] = "CLOSED"]
  /\ IF readyState[p][Root] = "CLOSED"
     THEN UNCHANGED <<channels, emptyTimerScheduled, microtasks, wire, storage>>
     ELSE SendClose(p, id) /\ ForgetChannel(p, id)
  /\ UNCHANGED <<ws, nextId, opening, sent, got>>

(***************************************************************************)
(* The 'open' event of a channel: readyState, then onThisOpenHandler,      *)
(* which is attached until the channel's 'close' event, empties storage.   *)
(***************************************************************************)
OpenChannelNoFlush(id) ==                                 \* mutant
  /\ readyState' = [readyState EXCEPT !["client"][id] = "OPEN"]
  /\ UNCHANGED <<wire, storage>>
OpenChannel(id) ==
  /\ readyState' = [readyState EXCEPT !["client"][id] = "OPEN"]
  /\ IF id \in channels["client"]
     THEN /\ SocketSend("client", storage[id])
          /\ storage' = [storage EXCEPT ![id] = <<>>]
     ELSE UNCHANGED <<wire, storage>>

(* One promise callback: a new channel's 'open', or the 'empty' check,     *)
(* upon which ManagerClient closes the WebSocket; the server listens to    *)
(* no 'empty' event.  ManagerClient creates the first channel in the task  *)
(* that wraps the socket, before the check the constructor asked for.      *)
RunMicrotask(p) ==
  /\ microtasks[p] # <<>>
  /\ p = "client" => opening = {} /\ nextId[p] > 0
  /\ microtasks' = [microtasks EXCEPT ![p] = Tail(@)]
  /\ LET task == Head(microtasks[p]) IN
       \/ /\ task # EmptyCheck
          /\ OpenChannel(task)
          /\ UNCHANGED <<ws, emptyTimerScheduled>>
       \/ /\ task = EmptyCheck
          /\ emptyTimerScheduled' = [emptyTimerScheduled EXCEPT ![p] = FALSE]
          /\ ws' = IF /\ p = "client" /\ emptyTimerScheduled[p]
                      /\ readyState[p][Root] # "CLOSED"
                   THEN [ws EXCEPT ![p] = "CLOSING"] ELSE ws
          /\ UNCHANGED <<readyState, wire, storage>>
  /\ UNCHANGED <<channels, nextId, opening, sent, got>>

(***************************************************************************)
(* Socket events.                                                          *)
(***************************************************************************)

(* 'open' of the WebSocket: the root flushes its storage, then each        *)
(* channel runs its own listener, oldest first.  Only from the first of    *)
(* these on can the program act, in the listeners it set; the list of      *)
(* listeners was copied when the event was emitted.                        *)
SocketOpen ==
  /\ ws["client"] = "CONNECTING"
  /\ Idle("client")
  /\ ws' = [ws EXCEPT !["client"] = "OPEN"]
  /\ LET first == {id \in channels["client"] : \A o \in channels["client"] : id <= o}
         opened == {Root} \cup first IN
       /\ readyState' = [readyState EXCEPT !["client"] =
            [o \in {Root} \cup Id |-> IF o \in opened THEN "OPEN" ELSE @[o]]]
       /\ wire' = [wire EXCEPT !["client"] = @ \o storage[Root] \o
            (IF first = {} THEN <<>> ELSE storage[CHOOSE id \in first : TRUE])]
       /\ storage' = [o \in {Root} \cup Id |-> IF o \in opened THEN <<>> ELSE storage[o]]
       /\ opening' = channels["client"] \ first
  /\ UNCHANGED <<channels, nextId, emptyTimerScheduled, microtasks, sent, got>>

RootOpened ==
  /\ \E id \in opening :
       /\ \A other \in opening : id <= other
       /\ OpenChannel(id)
       /\ opening' = opening \ {id}
  /\ UNCHANGED <<ws, channels, nextId, emptyTimerScheduled, microtasks, sent, got>>

ReceiveCreate(p, m) ==
  /\ m.type = "CreateChannel"
  /\ nextId' = [nextId EXCEPT ![p] = IF @ < m.id THEN m.id ELSE @]
  /\ readyState' = [readyState EXCEPT ![p][m.id] = readyState[p][Root]]
  /\ channels' = [channels EXCEPT ![p] = @ \cup {m.id}]
  /\ clearEmptyEvent(p)
  /\ UNCHANGED <<microtasks, got>>

ReceiverAnyKnown(p, id) == id <= nextId[p]                \* mutant
Receiver(p, id) == id \in channels[p]

ReceiveData(p, m) ==
  /\ m.type = "Data"
  /\ got' = IF Receiver(p, m.id)
            THEN [got EXCEPT ![p][m.id] = Append(@, m.n)] ELSE got
  /\ UNCHANGED <<readyState, channels, nextId, emptyTimerScheduled, microtasks>>

(* The finally block that ends the handling of a close.                    *)
closedState == "CLOSED"

ReceiveClose(p, m) ==
  /\ m.type = "CloseChannel"
  /\ IF Receiver(p, m.id)
     THEN /\ readyState' = [readyState EXCEPT ![p][m.id] = closedState]
          /\ ForgetChannel(p, m.id)
     ELSE UNCHANGED <<readyState, channels, emptyTimerScheduled, microtasks>>
  /\ UNCHANGED <<nextId, got>>

(* onMessageHandler of the root.                                           *)
Receive(p) ==
  /\ Idle(p)
  /\ ws[p] = "OPEN"
  /\ wire[Other(p)] # <<>>
  /\ LET m == Head(wire[Other(p)]) IN
       ReceiveCreate(p, m) \/ ReceiveData(p, m) \/ ReceiveClose(p, m)
  /\ wire' = [wire EXCEPT ![Other(p)] = Tail(@)]
  /\ UNCHANGED <<ws, storage, opening, sent>>

(* 'close' of the WebSocket (closed here, by the other peer, or cut by     *)
(* the network): the root's onCloseHandler closes every channel.           *)
SocketClosed(p) ==
  /\ Idle(p)
  /\ ws[p] # "CLOSED"
  /\ ws' = [ws EXCEPT ![p] = "CLOSED"]
  /\ readyState' = [readyState EXCEPT ![p] = [o \in {Root} \cup Id |->
                      IF o \in {Root} \cup channels[p] THEN "CLOSED" ELSE @[o]]]
  /\ channels' = [channels EXCEPT ![p] = {}]
  /\ IF channels[p] # {}
     THEN scheduleEmptyEvent(p)
     ELSE UNCHANGED <<emptyTimerScheduled, microtasks>>
  /\ wire' = [wire EXCEPT ![Other(p)] = <<>>]
  /\ UNCHANGED <<nextId, storage, opening, sent, got>>

Next ==
  \/ createChannel
  \/ \E p \in Peer, id \in Id : send(p, id) \/ close(p, id)
  \/ SocketOpen \/ RootOpened
  \/ \E p \in Peer : RunMicrotask(p) \/ Receive(p) \/ SocketClosed(p)

(***************************************************************************)
(* The event loops run what is queued; the network delivers what is in     *)
(* flight and reports to both ends that a socket is closed.  A socket that *)
(* is up need never close.                                                 *)
(***************************************************************************)
Fairness ==
  /\ WF_vars(RootOpened)
  /\ \A p \in Peer : WF_vars(RunMicrotask(p)) /\ WF_vars(Receive(p))
  /\ WF_vars(SocketOpen \/ (ws["client"] = "CONNECTING" /\ SocketClosed("client")))
  /\ \A p \in Peer : WF_vars(/\ ws[p] = "CLOSING" \/ ws[Other(p)] \in {"CLOSING", "CLOSED"}
                             /\ SocketClosed(p))

Spec == Init /\ [][Next]_vars
FairSpec == Spec /\ Fairness
-----------------------------------------------------------------------------
(* Types of all variables. *)
TypeOK ==
  /\ ws \in [Peer -> SocketState]
  /\ readyState \in [Peer -> [{Root} \cup Id -> State \cup {"none"}]]
  /\ channels \in [Peer -> SUBSET Id]
  /\ nextId \in [Peer -> 0..MaxChannels]
  /\ storage \in [{Root} \cup Id -> Seq(Message)]
  /\ emptyTimerScheduled \in [Peer -> BOOLEAN]
  /\ microtasks \in [Peer -> Seq({EmptyCheck} \cup Id)]
  /\ opening \in SUBSET Id
  /\ wire \in [Peer -> Seq(Message)]
  /\ sent \in [Peer -> [Id -> Nat]]
  /\ got \in [Peer -> [Id -> Seq(Nat)]]

(* scheduleEmptyEvent / clearEmptyEvent: an 'empty' event is pending only  *)
(* while there is no channel, so ManagerClient never closes the socket     *)
(* under a channel, whatever is created and closed before the microtask.   *)
EmptyOnlyWithoutChannels ==
  \A p \in Peer : emptyTimerScheduled[p] => channels[p] = {}

(* close(): an end that was given up at one peer and is still in the Map   *)
(* of the other has its CloseChannel message on the way.                   *)
CloseReachesPeer ==
  \A p \in Peer, id \in Id :
    /\ \A q \in Peer : ws[q] = "OPEN"
    /\ id \in channels[p]
    /\ id \in Gone(Other(p))
    => \E i \in DOMAIN wire[Other(p)] : wire[Other(p)][i] = CloseChannelMsg(id)

(* Every channel keeps the promise of module Channel. *)
Phase(p, id) ==
  IF id \in channels[p] THEN "live" ELSE IF id \in Gone(p) THEN "gone" ELSE "none"
Promise(id) == INSTANCE Channel WITH
  phase <- [p \in Peer |-> Phase(p, id)],
  sent <- [p \in Peer |-> sent[p][id]],
  got <- [p \in Peer |-> got[p][id]]
ChannelsKeepPromise ==
  (\A id \in Id : Promise(id)!Init) /\ [][\A id \in Id : Promise(id)!Step]_vars

(* setImmediate / onOpenHandler: no channel is left CONNECTING for ever,   *)
(* whether it was created before or after the socket opened.               *)
ChannelSettles ==
  \A id \in Id :
    readyState["client"][id] = "CONNECTING" ~> readyState["client"][id] # "CONNECTING"

(* A channel given up at one end is in the end given up at the other.      *)
CloseIsSeen ==
  \A p \in Peer, id \in Id :
    (id \in channels[p] /\ id \in Gone(Other(p))) ~> (id \notin channels[p])

(* 'empty': a socket without channels is closed, unless it is used again.  *)
UnusedSocketCloses ==
  (nextId["client"] > 0 /\ channels["client"] = {})
    ~> (channels["client"] # {} \/ ws["client"] = "CLOSED")

(* What is sent arrives, unless an end of the channel is given up.         *)
SentIsDelivered ==
  \A p \in Peer, id \in Id, n \in 1..2 :
    sent[p][id] >= n ~> \/ Len(got[Other(p)][id]) >= n
                        \/ id \in Gone("client") \cup Gone("server")
                        \/ \E q \in Peer : ws[q] # "OPEN"

(* Multiplexer.ts:283, "Socket is already in CLOSING or CLOSED state.":    *)
(* nothing more can be sent on a channel that has been closed.             *)
NoSendAfterClose ==
  [][\A p \in Peer, id \in Id : id \in Gone(p) => sent'[p][id] = sent[p][id]]_vars

(* Multiplexer.ts:313, "Incorrect socket state": no channel is created on  *)
(* a socket that is closing or closed.                                     *)
NoChannelOnClosingSocket ==
  [][nextId'["client"] # nextId["client"] =>
       ws["client"] \notin {"CLOSING", "CLOSED"}]_vars
=============================================================================
