------------------------- MODULE Multiplexer_proofs -------------------------
(***************************************************************************)
(* Theorems about module Multiplexer, for any number of channels and of    *)
(* messages.                                                               *)
(***************************************************************************)
EXTENDS Multiplexer, SequenceTheorems, TLAPS

(* Every key of the channels Map is an id that was handed out already. *)
KeysAllocated == \A p \in Peer : channels[p] \subseteq 1..nextId[p]

(* The inductive invariant of the two theorems on types and on 'empty'. *)
Inv == TypeOK /\ KeysAllocated /\ EmptyOnlyWithoutChannels

(* With one creator, the loop of getNextId stops at once. *)
LEMMA NextIdIsNext ==
  ASSUME TypeOK, KeysAllocated, NEW p \in Peer, nextId[p] < MaxChannels
  PROVE  getNextId(p) = nextId[p] + 1 /\ nextId[p] + 1 \in Id
<1> DEFINE n == nextId[p]
           P(i) == i > n /\ i \notin channels[p] /\ \A j \in (n + 1)..(i - 1) : j \in channels[p]
<1>1. n \in Nat /\ MaxChannels \in Nat /\ n + 1 \in Id
  BY BoundsAssumption DEF TypeOK, Id
<1>2. P(n + 1)
  BY <1>1 DEF KeysAllocated
<1>3. \A i \in Id : P(i) => i = n + 1
  <2> SUFFICES ASSUME NEW i \in Id, P(i), i # n + 1 PROVE FALSE
    OBVIOUS
  <2>1. n + 1 \in (n + 1)..(i - 1)
    BY <1>1 DEF Id
  <2> QED BY <2>1, <1>1 DEF KeysAllocated
<1>4. getNextId(p) = CHOOSE i \in Id : P(i)
  BY DEF getNextId
<1> HIDE DEF P
<1> QED BY <1>1, <1>2, <1>3, <1>4

(* The constructor establishes the invariant. *)
LEMMA InitInv == Init => Inv
<1> SUFFICES ASSUME Init PROVE Inv
  OBVIOUS
<1>1. TypeOK
  BY BoundsAssumption, EmptySeq DEF Init, TypeOK, Peer, SocketState, State, Root, Id, Message, EmptyCheck
<1>2. KeysAllocated /\ EmptyOnlyWithoutChannels
  BY DEF Init, KeysAllocated, EmptyOnlyWithoutChannels
<1> QED BY <1>1, <1>2 DEF Inv

(* The operators the actions share keep their variables well typed. *)
LEMMA MessageTypes ==
  ASSUME NEW id \in Id
  PROVE  /\ CreateChannelMsg(id) \in Message
         /\ CloseChannelMsg(id) \in Message
         /\ \A n \in Nat : DataMsg(id, n) \in Message
BY DEF CreateChannelMsg, CloseChannelMsg, DataMsg, Message

(* WebSocket.send keeps the type of the wire. *)
LEMMA SocketSendType ==
  ASSUME TypeOK, NEW p \in Peer, NEW ms \in Seq(Message), SocketSend(p, ms)
  PROVE  wire' \in [Peer -> Seq(Message)]
<1>1. wire[p] \o ms \in Seq(Message)
  BY ConcatProperties DEF TypeOK
<1> QED BY <1>1 DEF SocketSend, TypeOK

(* sendData of the root keeps the types of what it changes. *)
LEMMA RootSendType ==
  ASSUME TypeOK, NEW p \in Peer, NEW m \in Message, RootSend(p, m)
  PROVE  wire' \in [Peer -> Seq(Message)] /\ storage' \in [{Root} \cup Id -> Seq(Message)]
<1>1. CASE readyState[p][Root] = "OPEN"
  <2>1. <<m>> \in Seq(Message)
    OBVIOUS
  <2> QED BY <1>1, <2>1, SocketSendType DEF RootSend, TypeOK
<1>2. CASE readyState[p][Root] # "OPEN"
  <2>1. Append(storage[Root], m) \in Seq(Message)
    BY AppendProperties DEF TypeOK, Root
  <2> QED BY <1>2, <2>1 DEF RootSend, TypeOK, Root
<1> QED BY <1>1, <1>2

(* scheduleEmptyEvent keeps the types of what it changes. *)
LEMMA ScheduleType ==
  ASSUME TypeOK, NEW p \in Peer, scheduleEmptyEvent(p)
  PROVE  /\ emptyTimerScheduled' \in [Peer -> BOOLEAN]
         /\ emptyTimerScheduled' = [emptyTimerScheduled EXCEPT ![p] = TRUE]
         /\ microtasks' \in [Peer -> Seq({EmptyCheck} \cup Id)]
<1>1. Append(microtasks[p], EmptyCheck) \in Seq({EmptyCheck} \cup Id)
  BY AppendProperties DEF TypeOK
<1> QED BY <1>1 DEF scheduleEmptyEvent, TypeOK

(* The 'close' event of a channel keeps Inv for what it changes. *)
LEMMA ForgetType ==
  ASSUME Inv, NEW p \in Peer, NEW id \in Id, ForgetChannel(p, id), UNCHANGED nextId
  PROVE  /\ emptyTimerScheduled' \in [Peer -> BOOLEAN]
         /\ microtasks' \in [Peer -> Seq({EmptyCheck} \cup Id)]
         /\ channels' \in [Peer -> SUBSET Id]
         /\ KeysAllocated'
         /\ EmptyOnlyWithoutChannels'
<1>1. /\ channels' = [channels EXCEPT ![p] = @ \ {id}]
      /\ channels \in [Peer -> SUBSET Id]
  BY DEF ForgetChannel, Inv, TypeOK
<1>2. CASE channels[p] \subseteq {id}
  BY <1>1, <1>2, ScheduleType DEF ForgetChannel, Inv, KeysAllocated, EmptyOnlyWithoutChannels
<1>3. CASE ~(channels[p] \subseteq {id})
  BY <1>1, <1>3 DEF ForgetChannel, Inv, TypeOK, KeysAllocated, EmptyOnlyWithoutChannels
<1> QED BY <1>2, <1>3

(* The 'open' event of a channel keeps the types of what it changes. *)
LEMMA OpenChannelType ==
  ASSUME TypeOK, NEW id \in Id, OpenChannel(id)
  PROVE  /\ readyState' \in [Peer -> [{Root} \cup Id -> State \cup {"none"}]]
         /\ wire' \in [Peer -> Seq(Message)]
         /\ storage' \in [{Root} \cup Id -> Seq(Message)]
<1>1. readyState' \in [Peer -> [{Root} \cup Id -> State \cup {"none"}]]
  BY DEF OpenChannel, TypeOK, State, Peer
<1>2. wire' \in [Peer -> Seq(Message)] /\ storage' \in [{Root} \cup Id -> Seq(Message)]
  <2>1. CASE id \in channels["client"]
    <3>1. SocketSend("client", storage[id]) /\ storage' = [storage EXCEPT ![id] = <<>>]
      BY <2>1 DEF OpenChannel
    <3>2. storage[id] \in Seq(Message) /\ "client" \in Peer
      BY DEF TypeOK, Peer
    <3>3. wire' \in [Peer -> Seq(Message)]
      BY <3>1, <3>2, SocketSendType
    <3>4. storage' \in [{Root} \cup Id -> Seq(Message)]
      BY <3>1, EmptySeq DEF TypeOK
    <3> QED BY <3>3, <3>4
  <2>2. CASE id \notin channels["client"]
    BY <2>2 DEF OpenChannel, TypeOK
  <2> QED BY <2>1, <2>2
<1> QED BY <1>1, <1>2
(* Each action preserves the invariant. *)
LEMMA CreateChannelInv ==
  ASSUME Inv, createChannel PROVE Inv'
<1> DEFINE id == getNextId("client")
<1>1. "client" \in Peer
  BY DEF Peer
<1>2. id = nextId["client"] + 1 /\ id \in Id
  BY <1>1, NextIdIsNext DEF createChannel, Inv
<1> HIDE DEF id
<1>3. /\ nextId' = [nextId EXCEPT !["client"] = id]
      /\ readyState' = [readyState EXCEPT !["client"][id] = "CONNECTING"]
      /\ channels' = [channels EXCEPT !["client"] = @ \cup {id}]
      /\ emptyTimerScheduled' = [emptyTimerScheduled EXCEPT !["client"] = FALSE]
      /\ OpenLater(id)
      /\ RootSend("client", CreateChannelMsg(id))
      /\ UNCHANGED <<ws, opening, sent, got>>
  BY DEF createChannel, id, clearEmptyEvent
<1>4. wire' \in [Peer -> Seq(Message)] /\ storage' \in [{Root} \cup Id -> Seq(Message)]
  BY <1>1, <1>2, <1>3, MessageTypes, RootSendType DEF Inv
<1>5. microtasks' \in [Peer -> Seq({EmptyCheck} \cup Id)]
  <2>1. Append(microtasks["client"], id) \in Seq({EmptyCheck} \cup Id)
    BY <1>1, <1>2, AppendProperties DEF Inv, TypeOK
  <2> QED BY <1>3, <2>1 DEF OpenLater, Inv, TypeOK
<1>6. readyState' \in [Peer -> [{Root} \cup Id -> State \cup {"none"}]]
  BY <1>1, <1>2, <1>3 DEF Inv, TypeOK, State
<1>7. /\ nextId' \in [Peer -> 0..MaxChannels]
      /\ channels' \in [Peer -> SUBSET Id]
      /\ emptyTimerScheduled' \in [Peer -> BOOLEAN]
  <2>1. id \in 0..MaxChannels
    BY <1>2, BoundsAssumption DEF Id
  <2>2. nextId' \in [Peer -> 0..MaxChannels]
    BY <1>3, <2>1 DEF Inv, TypeOK
  <2>3. channels["client"] \cup {id} \in SUBSET Id
    BY <1>1, <1>2 DEF Inv, TypeOK
  <2>4. channels' \in [Peer -> SUBSET Id]
    BY <1>3, <2>3 DEF Inv, TypeOK
  <2>5. emptyTimerScheduled' \in [Peer -> BOOLEAN]
    BY <1>3 DEF Inv, TypeOK
  <2> QED BY <2>2, <2>4, <2>5
<1>8. KeysAllocated'
  <2> SUFFICES ASSUME NEW p \in Peer PROVE channels'[p] \subseteq 1..nextId'[p]
    BY DEF KeysAllocated
  <2>1. CASE p = "client"
    <3>1. nextId["client"] \in Nat /\ channels["client"] \subseteq 1..nextId["client"]
      BY <1>1, BoundsAssumption DEF Inv, TypeOK, KeysAllocated
    <3>2. channels'[p] = channels["client"] \cup {id} /\ nextId'[p] = id
      BY <1>1, <1>3, <2>1 DEF Inv, TypeOK
    <3> QED BY <1>2, <3>1, <3>2
  <2>2. CASE p # "client"
    BY <1>3, <2>2 DEF Inv, TypeOK, KeysAllocated
  <2> QED BY <2>1, <2>2
<1>9. EmptyOnlyWithoutChannels'
  BY <1>1, <1>3 DEF Inv, TypeOK, EmptyOnlyWithoutChannels
<1> QED BY <1>3, <1>4, <1>5, <1>6, <1>7, <1>8, <1>9 DEF Inv, TypeOK

(* send keeps Inv. *)
LEMMA SendInv ==
  ASSUME Inv, NEW p \in Peer, NEW id \in Id, send(p, id) PROVE Inv'
<1> DEFINE m == DataMsg(id, sent[p][id] + 1)
<1>1. sent[p][id] + 1 \in Nat /\ m \in Message
  BY MessageTypes DEF Inv, TypeOK
<1> HIDE DEF m
<1>2. /\ sent' = [sent EXCEPT ![p][id] = @ + 1]
      /\ \/ SocketSend(p, <<m>>) /\ UNCHANGED storage
         \/ storage' = [storage EXCEPT ![id] = Append(@, m)] /\ UNCHANGED wire
      /\ UNCHANGED <<ws, readyState, channels, nextId, emptyTimerScheduled,
                     microtasks, opening, got>>
  BY DEF send, m
<1>3. wire' \in [Peer -> Seq(Message)] /\ storage' \in [{Root} \cup Id -> Seq(Message)]
  <2>1. <<m>> \in Seq(Message) /\ Append(storage[id], m) \in Seq(Message)
    BY <1>1, AppendProperties DEF Inv, TypeOK
  <2>2. CASE SocketSend(p, <<m>>) /\ UNCHANGED storage
    BY <2>1, <2>2, SocketSendType DEF Inv, TypeOK
  <2>3. CASE storage' = [storage EXCEPT ![id] = Append(@, m)] /\ UNCHANGED wire
    BY <2>1, <2>3 DEF Inv, TypeOK
  <2> QED BY <1>2, <2>2, <2>3
<1>4. sent' \in [Peer -> [Id -> Nat]]
  BY <1>1, <1>2 DEF Inv, TypeOK
<1>5. TypeOK'
  BY <1>2, <1>3, <1>4 DEF Inv, TypeOK
<1> QED BY <1>2, <1>5 DEF Inv, KeysAllocated, EmptyOnlyWithoutChannels

(* close keeps Inv. *)
LEMMA CloseInv ==
  ASSUME Inv, NEW p \in Peer, NEW id \in Id, close(p, id) PROVE Inv'
<1>1. readyState' \in [Peer -> [{Root} \cup Id -> State \cup {"none"}]]
  BY DEF close, Inv, TypeOK, State
<1>2. UNCHANGED <<ws, nextId, opening, sent, got>>
  BY DEF close
<1>3. CASE readyState[p][Root] = "CLOSED"
  <2>1. UNCHANGED <<channels, emptyTimerScheduled, microtasks, wire, storage>>
    BY <1>3 DEF close
  <2> QED BY <1>1, <1>2, <2>1 DEF Inv, TypeOK, KeysAllocated, EmptyOnlyWithoutChannels
<1>4. CASE readyState[p][Root] # "CLOSED"
  <2>1. RootSend(p, CloseChannelMsg(id)) /\ ForgetChannel(p, id)
    BY <1>4 DEF close, SendClose
  <2>2. wire' \in [Peer -> Seq(Message)] /\ storage' \in [{Root} \cup Id -> Seq(Message)]
    BY <2>1, MessageTypes, RootSendType DEF Inv
  <2> QED BY <1>1, <1>2, <2>1, <2>2, ForgetType DEF Inv, TypeOK
<1> QED BY <1>3, <1>4

(* A promise callback keeps Inv. *)
LEMMA RunMicrotaskInv ==
  ASSUME Inv, NEW p \in Peer, RunMicrotask(p) PROVE Inv'
<1> DEFINE task == Head(microtasks[p])
<1>1. task \in {EmptyCheck} \cup Id /\ Tail(microtasks[p]) \in Seq({EmptyCheck} \cup Id)
  BY HeadTailProperties DEF RunMicrotask, Inv, TypeOK
<1>2. /\ microtasks' \in [Peer -> Seq({EmptyCheck} \cup Id)]
      /\ UNCHANGED <<channels, nextId, opening, sent, got>>
  BY <1>1 DEF RunMicrotask, Inv, TypeOK
<1>3. CASE /\ task # EmptyCheck
           /\ OpenChannel(task)
           /\ UNCHANGED <<ws, emptyTimerScheduled>>
  <2>1. task \in Id
    BY <1>1, <1>3
  <2> HIDE DEF task
  <2> QED BY <1>2, <1>3, <2>1, OpenChannelType
          DEF Inv, TypeOK, KeysAllocated, EmptyOnlyWithoutChannels
<1>4. CASE task = EmptyCheck
  <2>1. /\ emptyTimerScheduled' = [emptyTimerScheduled EXCEPT ![p] = FALSE]
        /\ ws' = IF /\ p = "client" /\ emptyTimerScheduled[p]
                    /\ readyState[p][Root] # "CLOSED"
                 THEN [ws EXCEPT ![p] = "CLOSING"] ELSE ws
        /\ UNCHANGED <<readyState, wire, storage>>
    BY <1>4 DEF RunMicrotask
  <2>2. ws' \in [Peer -> SocketState] /\ emptyTimerScheduled' \in [Peer -> BOOLEAN]
    BY <2>1 DEF Inv, TypeOK, SocketState
  <2>3. EmptyOnlyWithoutChannels' /\ KeysAllocated'
    BY <1>2, <2>1 DEF Inv, TypeOK, EmptyOnlyWithoutChannels, KeysAllocated
  <2> QED BY <1>2, <2>1, <2>2, <2>3 DEF Inv, TypeOK
<1> QED BY <1>3, <1>4 DEF RunMicrotask

(* 'open' of the WebSocket keeps Inv. *)
LEMMA SocketOpenInv ==
  ASSUME Inv, SocketOpen PROVE Inv'
<1> DEFINE first == {id \in channels["client"] : \A o \in channels["client"] : id <= o}
           opened == {Root} \cup first
           flushed == IF first = {} THEN <<>> ELSE storage[CHOOSE id \in first : TRUE]
<1>0. "client" \in Peer
  BY DEF Peer
<1>1. first \subseteq Id /\ opened \subseteq {Root} \cup Id
  BY <1>0 DEF Inv, TypeOK
<1>2. flushed \in Seq(Message)
  BY <1>1, EmptySeq DEF Inv, TypeOK
<1> HIDE DEF first, opened, flushed
<1>3. /\ ws' = [ws EXCEPT !["client"] = "OPEN"]
      /\ readyState' = [readyState EXCEPT !["client"] =
           [o \in {Root} \cup Id |-> IF o \in opened THEN "OPEN" ELSE @[o]]]
      /\ wire' = [wire EXCEPT !["client"] = @ \o storage[Root] \o flushed]
      /\ storage' = [o \in {Root} \cup Id |-> IF o \in opened THEN <<>> ELSE storage[o]]
      /\ opening' = channels["client"] \ first
      /\ UNCHANGED <<channels, nextId, emptyTimerScheduled, microtasks, sent, got>>
  BY Zenon DEF SocketOpen, first, opened, flushed
<1>4. ws' \in [Peer -> SocketState]
  BY <1>3 DEF Inv, TypeOK, SocketState, State
<1>5. readyState' \in [Peer -> [{Root} \cup Id -> State \cup {"none"}]]
  <2>1. readyState["client"] \in [{Root} \cup Id -> State \cup {"none"}]
    BY <1>0 DEF Inv, TypeOK
  <2>2. [o \in {Root} \cup Id |-> IF o \in opened THEN "OPEN" ELSE readyState["client"][o]]
          \in [{Root} \cup Id -> State \cup {"none"}]
    BY <2>1 DEF State
  <2> QED BY <1>3, <2>2 DEF Inv, TypeOK
<1>6. wire' \in [Peer -> Seq(Message)]
  <2>1. wire["client"] \o storage[Root] \o flushed \in Seq(Message)
    BY <1>0, <1>2, ConcatProperties DEF Inv, TypeOK
  <2> QED BY <1>3, <2>1 DEF Inv, TypeOK
<1>7. storage' \in [{Root} \cup Id -> Seq(Message)]
  BY <1>3, EmptySeq DEF Inv, TypeOK
<1>8. opening' \in SUBSET Id
  BY <1>0, <1>3 DEF Inv, TypeOK
<1> QED BY <1>3, <1>4, <1>5, <1>6, <1>7, <1>8
        DEF Inv, TypeOK, KeysAllocated, EmptyOnlyWithoutChannels

(* The other 'open' listeners keep Inv. *)
LEMMA RootOpenedInv ==
  ASSUME Inv, RootOpened PROVE Inv'
<1>1. PICK id \in opening : OpenChannel(id) /\ opening' = opening \ {id}
  BY DEF RootOpened
<1>2. id \in Id
  BY DEF Inv, TypeOK
<1>3. UNCHANGED <<ws, channels, nextId, emptyTimerScheduled, microtasks, sent, got>>
  BY DEF RootOpened
<1> QED BY <1>1, <1>2, <1>3, OpenChannelType
        DEF Inv, TypeOK, KeysAllocated, EmptyOnlyWithoutChannels

(* onMessageHandler keeps Inv. *)
LEMMA ReceiveInv ==
  ASSUME Inv, NEW p \in Peer, Receive(p) PROVE Inv'
<1> DEFINE m == Head(wire[Other(p)])
<1>0. Other(p) \in Peer
  BY DEF Other, Peer
<1>1. m \in Message /\ Tail(wire[Other(p)]) \in Seq(Message)
  BY <1>0, HeadTailProperties DEF Receive, Inv, TypeOK
<1>2. m.id \in Id /\ m.n \in Nat
  BY <1>1 DEF Message
<1>3. /\ wire' \in [Peer -> Seq(Message)]
      /\ UNCHANGED <<ws, storage, opening, sent>>
  BY <1>0, <1>1 DEF Receive, Inv, TypeOK
<1>4. ReceiveCreate(p, m) \/ ReceiveData(p, m) \/ ReceiveClose(p, m)
  BY DEF Receive
<1> HIDE DEF m
<1>5. CASE ReceiveCreate(p, m)
  <2>1. readyState[p][Root] \in State \cup {"none"} /\ nextId[p] \in 0..MaxChannels
    BY DEF Inv, TypeOK
  <2>2. /\ readyState' \in [Peer -> [{Root} \cup Id -> State \cup {"none"}]]
        /\ channels' \in [Peer -> SUBSET Id]
        /\ emptyTimerScheduled' \in [Peer -> BOOLEAN]
        /\ UNCHANGED <<microtasks, got>>
    BY <1>2, <1>5, <2>1 DEF ReceiveCreate, clearEmptyEvent, Inv, TypeOK
  <2>3. nextId' \in [Peer -> 0..MaxChannels]
    BY <1>2, <1>5, <2>1, BoundsAssumption DEF ReceiveCreate, Inv, TypeOK, Id
  <2>4. KeysAllocated'
    <3> SUFFICES ASSUME NEW q \in Peer PROVE channels'[q] \subseteq 1..nextId'[q]
      BY DEF KeysAllocated
    <3>1. CASE q = p
      <4>1. /\ channels'[q] = channels[p] \cup {m.id}
            /\ nextId'[q] = IF nextId[p] < m.id THEN m.id ELSE nextId[p]
            /\ channels[p] \subseteq 1..nextId[p]
        BY <1>5, <3>1 DEF ReceiveCreate, Inv, TypeOK, KeysAllocated
      <4> QED BY <1>2, <2>1, <4>1, BoundsAssumption DEF Id
    <3>2. CASE q # p
      BY <1>5, <3>2 DEF ReceiveCreate, Inv, TypeOK, KeysAllocated
    <3> QED BY <3>1, <3>2
  <2>5. EmptyOnlyWithoutChannels'
    BY <1>5 DEF ReceiveCreate, clearEmptyEvent, Inv, TypeOK, EmptyOnlyWithoutChannels
  <2> QED BY <1>3, <2>2, <2>3, <2>4, <2>5 DEF Inv, TypeOK
<1>6. CASE ReceiveData(p, m)
  <2>1. Append(got[p][m.id], m.n) \in Seq(Nat)
    BY <1>2, AppendProperties DEF Inv, TypeOK
  <2>2. got' \in [Peer -> [Id -> Seq(Nat)]]
    BY <1>2, <1>6, <2>1 DEF ReceiveData, Inv, TypeOK
  <2> QED BY <1>3, <1>6, <2>2
          DEF ReceiveData, Inv, TypeOK, KeysAllocated, EmptyOnlyWithoutChannels
<1>7. CASE ReceiveClose(p, m)
  <2>1. UNCHANGED <<nextId, got>>
    BY <1>7 DEF ReceiveClose
  <2>2. CASE Receiver(p, m.id)
    <3>1. ForgetChannel(p, m.id) /\ readyState' = [readyState EXCEPT ![p][m.id] = "CLOSED"]
      BY <1>7, <2>2 DEF ReceiveClose, closedState
    <3>2. readyState' \in [Peer -> [{Root} \cup Id -> State \cup {"none"}]]
      BY <3>1, <1>2 DEF Inv, TypeOK, State
    <3> QED BY <1>2, <1>3, <2>1, <3>1, <3>2, ForgetType DEF Inv, TypeOK
  <2>3. CASE ~Receiver(p, m.id)
    BY <1>3, <1>7, <2>1, <2>3
       DEF ReceiveClose, Inv, TypeOK, KeysAllocated, EmptyOnlyWithoutChannels
  <2> QED BY <2>2, <2>3
<1> QED BY <1>4, <1>5, <1>6, <1>7

(* 'close' of the WebSocket keeps Inv. *)
LEMMA SocketClosedInv ==
  ASSUME Inv, NEW p \in Peer, SocketClosed(p) PROVE Inv'
<1>0. Other(p) \in Peer
  BY DEF Other, Peer
<1>1. /\ ws' = [ws EXCEPT ![p] = "CLOSED"]
      /\ channels' = [channels EXCEPT ![p] = {}]
      /\ UNCHANGED <<nextId, storage, opening, sent, got>>
  BY DEF SocketClosed
<1>2. ws' \in [Peer -> SocketState] /\ channels' \in [Peer -> SUBSET Id]
  BY <1>1 DEF Inv, TypeOK, SocketState, State
<1>3. readyState' \in [Peer -> [{Root} \cup Id -> State \cup {"none"}]]
  <2>1. readyState[p] \in [{Root} \cup Id -> State \cup {"none"}]
    BY DEF Inv, TypeOK
  <2>2. [o \in {Root} \cup Id |-> IF o \in {Root} \cup channels[p] THEN "CLOSED"
                                 ELSE readyState[p][o]]
          \in [{Root} \cup Id -> State \cup {"none"}]
    BY <2>1 DEF State
  <2> QED BY <2>2 DEF SocketClosed, Inv, TypeOK
<1>4. wire' \in [Peer -> Seq(Message)]
  BY <1>0, EmptySeq DEF SocketClosed, Inv, TypeOK
<1>5. KeysAllocated'
  BY <1>1 DEF Inv, TypeOK, KeysAllocated
<1>6. /\ emptyTimerScheduled' \in [Peer -> BOOLEAN]
      /\ microtasks' \in [Peer -> Seq({EmptyCheck} \cup Id)]
      /\ EmptyOnlyWithoutChannels'
  <2>1. CASE channels[p] # {}
    <3>1. scheduleEmptyEvent(p)
      BY <2>1 DEF SocketClosed
    <3>2. /\ emptyTimerScheduled' \in [Peer -> BOOLEAN]
          /\ emptyTimerScheduled' = [emptyTimerScheduled EXCEPT ![p] = TRUE]
          /\ microtasks' \in [Peer -> Seq({EmptyCheck} \cup Id)]
      BY <3>1, ScheduleType DEF Inv
    <3>3. EmptyOnlyWithoutChannels'
      BY <1>1, <3>2 DEF Inv, TypeOK, EmptyOnlyWithoutChannels
    <3> QED BY <3>2, <3>3
  <2>2. CASE channels[p] = {}
    <3>1. UNCHANGED <<emptyTimerScheduled, microtasks>>
      BY <2>2 DEF SocketClosed
    <3>2. EmptyOnlyWithoutChannels'
      BY <1>1, <3>1 DEF Inv, TypeOK, EmptyOnlyWithoutChannels
    <3> QED BY <3>1, <3>2 DEF Inv, TypeOK
  <2> QED BY <2>1, <2>2
<1> QED BY <1>1, <1>2, <1>3, <1>4, <1>5, <1>6 DEF Inv, TypeOK

(* Every step preserves the invariant. *)
LEMMA StepInv == Inv /\ [Next]_vars => Inv'
<1> SUFFICES ASSUME Inv, [Next]_vars PROVE Inv'
  OBVIOUS
<1>1. CASE createChannel
  BY <1>1, CreateChannelInv
<1>2. ASSUME NEW p \in Peer, NEW id \in Id, send(p, id) PROVE Inv'
  BY <1>2, SendInv
<1>3. ASSUME NEW p \in Peer, NEW id \in Id, close(p, id) PROVE Inv'
  BY <1>3, CloseInv
<1>4. CASE SocketOpen
  BY <1>4, SocketOpenInv
<1>5. CASE RootOpened
  BY <1>5, RootOpenedInv
<1>6. ASSUME NEW p \in Peer, RunMicrotask(p) PROVE Inv'
  BY <1>6, RunMicrotaskInv
<1>7. ASSUME NEW p \in Peer, Receive(p) PROVE Inv'
  BY <1>7, ReceiveInv
<1>8. ASSUME NEW p \in Peer, SocketClosed(p) PROVE Inv'
  BY <1>8, SocketClosedInv
<1>9. CASE UNCHANGED vars
  BY <1>9 DEF vars, Inv, TypeOK, KeysAllocated, EmptyOnlyWithoutChannels
<1> QED BY <1>1, <1>2, <1>3, <1>4, <1>5, <1>6, <1>7, <1>8, <1>9 DEF Next

(* The variables of the multiplexer keep their types, and every id in the  *)
(* Map has been handed out by getNextId.                                   *)
THEOREM TypeCorrect == Spec => [](TypeOK /\ KeysAllocated)
<1>1. Inv => TypeOK /\ KeysAllocated
  BY DEF Inv
<1> QED BY InitInv, StepInv, <1>1, PTL DEF Spec

(* scheduleEmptyEvent and clearEmptyEvent: no 'empty' event is pending     *)
(* while a channel exists, for any number of channels.                     *)
THEOREM EmptyIsSafe == Spec => []EmptyOnlyWithoutChannels
<1>1. Inv => EmptyOnlyWithoutChannels
  BY DEF Inv
<1> QED BY InitInv, StepInv, <1>1, PTL DEF Spec

-----------------------------------------------------------------------------
(*****************************************************************************)
(* Rows of numbers.  What is on its way to a receiver is looked at as a row  *)
(* of numbers, one place per message, 0 where the message is not of interest.*)
(*****************************************************************************)

(* What a receiver that has got g may still read in a row v of numbers, in *)
(* which 0 is no message: the numbers from g + 1 on, none twice, no gap.   *)
CountsUp(v, g) ==
  \A i \in DOMAIN v : v[i] # 0 =>
    /\ g < v[i]
    /\ \A j \in 1..(i - 1) : v[j] < v[i]
    /\ v[i] = g + 1 \/ \E j \in 1..(i - 1) : v[j] = v[i] - 1

(* No number above w is in the row. *)
AtMost(v, w) == \A i \in DOMAIN v : v[i] <= w

(* The row ends at w: w is in it, unless the receiver has got it already. *)
UpTo(v, g, w) ==
  /\ g <= w
  /\ \A i \in DOMAIN v : v[i] <= w
  /\ w = g \/ \E i \in DOMAIN v : v[i] = w

(* A row that counts from g up to w, followed by w + 1, ..., w + k, counts *)
(* from g up to w + k.                                                     *)
LEMMA CountsOn ==
  ASSUME NEW n \in Nat, NEW k \in Nat, NEW v \in [1..n -> Nat], NEW u \in [1..(n + k) -> Nat],
         NEW g \in Nat, NEW w \in Nat, CountsUp(v, g), UpTo(v, g, w),
         \A i \in 1..n : u[i] = v[i], \A i \in 1..k : u[n + i] = w + i
  PROVE  CountsUp(u, g) /\ UpTo(u, g, w + k)
<1>0. DOMAIN u = 1..(n + k) /\ DOMAIN v = 1..n
  OBVIOUS
<1>a. \A i \in 1..n : v[i] \in Nat /\ u[i] = v[i] /\ v[i] <= w
  BY <1>0 DEF UpTo
<1>b. \A i \in 1..k : u[n + i] = w + i
  OBVIOUS
<1>c. \A i \in 1..(n + k) : i \in 1..n \/ (i - n \in 1..k /\ u[i] = w + (i - n))
  <2> SUFFICES ASSUME NEW i \in 1..(n + k), i \notin 1..n PROVE i - n \in 1..k /\ u[i] = w + (i - n)
    OBVIOUS
  <2>1. i - n \in 1..k /\ n + (i - n) = i
    BY <1>0
  <2> QED BY <2>1, <1>b
<1>d. g <= w /\ (w = g \/ \E i \in 1..n : v[i] = w)
  BY <1>0 DEF UpTo
<1>1. CountsUp(u, g)
  <2> SUFFICES ASSUME NEW i \in 1..(n + k), u[i] # 0
               PROVE  /\ g < u[i]
                      /\ \A j \in 1..(i - 1) : u[j] < u[i]
                      /\ u[i] = g + 1 \/ \E j \in 1..(i - 1) : u[j] = u[i] - 1
    BY <1>0 DEF CountsUp
  <2>1. CASE i \in 1..n
    <3>1. \A j \in 1..(i - 1) : j \in 1..n
      BY <2>1, <1>0
    <3> QED BY <2>1, <3>1, <1>a, <1>0 DEF CountsUp
  <2>2. CASE i \notin 1..n
    <3>1. i - n \in 1..k /\ u[i] = w + (i - n)
      BY <2>2, <1>c
    <3>2. g < u[i]
      BY <3>1, <1>d, <1>0
    <3>3. \A j \in 1..(i - 1) : u[j] < u[i]
      BY <3>1, <1>a, <1>c, <1>0
    <3>4. u[i] = g + 1 \/ \E j \in 1..(i - 1) : u[j] = u[i] - 1
      <4>1. CASE i = n + 1
        BY <4>1, <3>1, <1>d, <1>a, <1>0
      <4>2. CASE i # n + 1
        <5>1. i - 1 \in 1..(n + k) /\ i - 1 \notin 1..n
          BY <4>2, <3>1, <1>0
        <5>2. u[i - 1] = w + (i - 1 - n)
          BY <5>1, <1>c
        <5> QED BY <5>1, <5>2, <3>1, <1>0
      <4> QED BY <4>1, <4>2
    <3> QED BY <3>2, <3>3, <3>4
  <2> QED BY <2>1, <2>2
<1>2. UpTo(u, g, w + k)
  <2>1. \A i \in 1..(n + k) : u[i] <= w + k
    BY <1>a, <1>c, <1>0
  <2>2. w + k = g \/ \E i \in 1..(n + k) : u[i] = w + k
    <3>1. CASE k = 0
      BY <3>1, <1>a, <1>d, <1>0
    <3>2. CASE k # 0
      <4>1. n + k \in 1..(n + k) /\ n + k \notin 1..n
        BY <3>2, <1>0
      <4> QED BY <4>1, <1>c, <1>0
    <3> QED BY <3>1, <3>2
  <2> QED BY <2>1, <2>2, <1>d, <1>0 DEF UpTo
<1> QED BY <1>1, <1>2

(* A row followed by places that hold no message is the same row. *)
LEMMA CountsPadded ==
  ASSUME NEW n \in Nat, NEW k \in Nat, NEW v \in [1..n -> Nat], NEW u \in [1..(n + k) -> Nat],
         NEW g \in Nat, \A i \in 1..n : u[i] = v[i], \A i \in 1..k : u[n + i] = 0
  PROVE  /\ CountsUp(v, g) => CountsUp(u, g)
         /\ \A w \in Nat : UpTo(v, g, w) => UpTo(u, g, w)
         /\ \A s \in Nat : AtMost(v, s) => AtMost(u, s)
<1>0. \A i \in 1..(n + k) : u[i] # 0 => i \in 1..n
  <2> SUFFICES ASSUME NEW i \in 1..(n + k), i \notin 1..n PROVE u[i] = 0
    OBVIOUS
  <2>1. i - n \in 1..k /\ n + (i - n) = i
    OBVIOUS
  <2> QED BY <2>1
<1>1. CountsUp(v, g) => CountsUp(u, g)
  <2> SUFFICES ASSUME CountsUp(v, g), NEW i \in 1..(n + k), u[i] # 0
               PROVE  /\ g < u[i]
                      /\ \A j \in 1..(i - 1) : u[j] < u[i]
                      /\ u[i] = g + 1 \/ \E j \in 1..(i - 1) : u[j] = u[i] - 1
    BY DEF CountsUp
  <2>1. i \in 1..n /\ \A j \in 1..(i - 1) : j \in 1..n
    BY <1>0
  <2> QED BY <2>1 DEF CountsUp
<1>2. \A w \in Nat : UpTo(v, g, w) => UpTo(u, g, w)
  BY <1>0 DEF UpTo
<1>3. \A s \in Nat : AtMost(v, s) => AtMost(u, s)
  BY <1>0 DEF AtMost
<1> QED BY <1>1, <1>2, <1>3

(* The first number of a row that counts from g is g + 1, and what follows *)
(* it counts from there.                                                   *)
LEMMA CountsTail ==
  ASSUME NEW n \in Nat, NEW v \in [1..(n + 1) -> Nat], NEW u \in [1..n -> Nat],
         NEW g \in Nat, CountsUp(v, g), \A i \in 1..n : u[i] = v[i + 1]
  PROVE  /\ v[1] # 0 => v[1] = g + 1
         /\ CountsUp(u, IF v[1] = 0 THEN g ELSE g + 1)
         /\ \A w \in Nat : UpTo(v, g, w) => UpTo(u, IF v[1] = 0 THEN g ELSE g + 1, w)
         /\ \A s \in Nat : AtMost(v, s) => AtMost(u, s)
<1>0. 1 \in 1..(n + 1) /\ \A i \in 1..n : i + 1 \in 1..(n + 1)
  OBVIOUS
<1>1. v[1] # 0 => v[1] = g + 1
  BY <1>0 DEF CountsUp
<1>4. \A a \in Nat : a - 1 = g + 1 => a = g + 2
  OBVIOUS
<1>2. CountsUp(u, IF v[1] = 0 THEN g ELSE g + 1)
  <2> SUFFICES ASSUME NEW i \in 1..n, u[i] # 0
               PROVE  LET h == IF v[1] = 0 THEN g ELSE g + 1 IN
                      /\ h < u[i]
                      /\ \A j \in 1..(i - 1) : u[j] < u[i]
                      /\ u[i] = h + 1 \/ \E j \in 1..(i - 1) : u[j] = u[i] - 1
    BY DEF CountsUp
  <2>2. u[i] = v[i + 1] /\ v[i + 1] \in Nat /\ i + 1 \in 1..(n + 1)
    BY <1>0
  <2>1. /\ g < v[i + 1]
        /\ \A j \in 1..i : v[j] < v[i + 1]
        /\ v[i + 1] = g + 1 \/ \E j \in 1..i : v[j] = v[i + 1] - 1
    <3>1. (i + 1) - 1 = i
      OBVIOUS
    <3> QED BY <2>2, <3>1 DEF CountsUp
  <2>3. \A j \in 1..(i - 1) : u[j] = v[j + 1] /\ j + 1 \in 1..i /\ v[j + 1] \in Nat
    BY <1>0
  <2>4. \A j \in 1..i : j = 1 \/ (j - 1 \in 1..(i - 1) /\ u[j - 1] = v[j])
    <3> SUFFICES ASSUME NEW j \in 1..i, j # 1 PROVE j - 1 \in 1..(i - 1) /\ u[j - 1] = v[j]
      OBVIOUS
    <3>1. j - 1 \in 1..(i - 1) /\ (j - 1) + 1 = j
      OBVIOUS
    <3> QED BY <2>3, <3>1
  <2>5. 1 \in 1..i /\ v[1] \in Nat
    BY <1>0
  <2>6. \A j \in 1..(i - 1) : u[j] < u[i]
    BY <2>1, <2>2, <2>3
  <2>7. CASE v[1] = 0
    <3>1. v[i + 1] = g + 1 \/ \E j \in 1..(i - 1) : u[j] = u[i] - 1
      <4>1. CASE \E j \in 1..i : v[j] = v[i + 1] - 1
        <5>1. PICK j \in 1..i : v[j] = v[i + 1] - 1
          BY <4>1
        <5>2. CASE j = 1
          BY <2>1, <2>2, <2>7, <5>1, <5>2
        <5>3. CASE j # 1
          BY <2>2, <2>4, <5>1, <5>3
        <5> QED BY <5>2, <5>3
      <4> QED BY <4>1, <2>1
    <3> QED BY <2>1, <2>2, <2>6, <2>7, <3>1
  <2>8. CASE v[1] # 0
    <3>0. v[1] = g + 1 /\ v[1] < v[i + 1]
      BY <1>1, <2>1, <2>5, <2>8
    <3>1. v[i + 1] = g + 2 \/ \E j \in 1..(i - 1) : u[j] = u[i] - 1
      <4>1. PICK j \in 1..i : v[j] = v[i + 1] - 1
        BY <2>1, <2>2, <3>0
      <4>2. CASE j = 1
        BY <1>4, <2>2, <3>0, <4>1, <4>2
      <4>3. CASE j # 1
        BY <2>2, <2>4, <4>1, <4>3
      <4> QED BY <4>2, <4>3
    <3> QED BY <2>2, <2>6, <2>8, <3>0, <3>1
  <2> QED BY <2>7, <2>8
<1>3. ASSUME NEW w \in Nat, UpTo(v, g, w)
      PROVE  UpTo(u, IF v[1] = 0 THEN g ELSE g + 1, w)
  <2>1. g <= w /\ (\A i \in 1..(n + 1) : v[i] <= w)
    BY <1>3 DEF UpTo
  <2>2. (IF v[1] = 0 THEN g ELSE g + 1) <= w
    BY <1>0, <1>1, <2>1
  <2>3. \A i \in 1..n : u[i] <= w
    BY <1>0, <2>1
  <2>4. w = (IF v[1] = 0 THEN g ELSE g + 1) \/ \E i \in 1..n : u[i] = w
    <3>1. CASE w = g
      BY <1>0, <1>1, <2>1, <3>1
    <3>2. CASE w # g
      <4>1. PICK i \in 1..(n + 1) : v[i] = w
        BY <1>3, <3>2 DEF UpTo
      <4>2. CASE i = 1
        BY <1>1, <2>1, <3>2, <4>1, <4>2
      <4>3. CASE i # 1
        <5>1. i - 1 \in 1..n /\ (i - 1) + 1 = i
          BY <4>3
        <5> QED BY <4>1, <5>1
      <4> QED BY <4>2, <4>3
    <3> QED BY <3>1, <3>2
  <2> QED BY <2>2, <2>3, <2>4 DEF UpTo
<1>5. \A s \in Nat : AtMost(v, s) => AtMost(u, s)
  BY <1>0 DEF AtMost
<1> QED BY <1>1, <1>2, <1>3, <1>5

(* The messages of channel id in W that its receiver will still look at: those *)
(* before a CloseChannel of it.                                                *)
Numbers(W, id) == [i \in 1..Len(W) |->
  IF W[i].type = "Data" /\ W[i].id = id /\ \A j \in 1..i : W[j] # CloseChannelMsg(id)
  THEN W[i].n ELSE 0]

(* The ids of the CreateChannel messages in W. *)
Created(W) == [i \in 1..Len(W) |-> IF W[i].type = "CreateChannel" THEN W[i].id ELSE 0]

(* Numbers is a row as long as W. *)
LEMMA NumbersTypes ==
  ASSUME NEW W \in Seq(Message), NEW id \in Id
  PROVE  /\ Len(W) \in Nat
         /\ Numbers(W, id) \in [1..Len(W) -> Nat]
<1>1. Len(W) \in Nat /\ \A i \in 1..Len(W) : W[i] \in Message
  BY LenProperties, ElementOfSeq
<1>2. \A i \in 1..Len(W) : W[i].n \in Nat /\ W[i].id \in Nat
  BY <1>1 DEF Message, Id
<1> QED BY <1>1, <1>2 DEF Numbers

(* Created is a row as long as W. *)
LEMMA CreatedTypes ==
  ASSUME NEW W \in Seq(Message)
  PROVE  Created(W) \in [1..Len(W) -> Nat]
<1>1. Len(W) \in Nat /\ \A i \in 1..Len(W) : W[i] \in Message
  BY LenProperties, ElementOfSeq
<1>2. \A i \in 1..Len(W) : W[i].id \in Nat
  BY <1>1 DEF Message, Id
<1> QED BY <1>1, <1>2 DEF Created

(* Messages that are not data of channel id, or that follow its CloseChannel, *)
(* change nothing for its receiver.                                           *)
LEMMA DataPadded ==
  ASSUME NEW W \in Seq(Message), NEW s \in Seq(Message), NEW id \in Id, NEW g \in Nat,
         \/ \E i \in 1..Len(W) : W[i] = CloseChannelMsg(id)
         \/ \A i \in 1..Len(s) : ~(s[i].type = "Data" /\ s[i].id = id)
  PROVE  /\ CountsUp(Numbers(W, id), g) => CountsUp(Numbers(W \o s, id), g)
         /\ \A w \in Nat : UpTo(Numbers(W, id), g, w) => UpTo(Numbers(W \o s, id), g, w)
         /\ \A w \in Nat : AtMost(Numbers(W, id), w) => AtMost(Numbers(W \o s, id), w)
<1> DEFINE n == Len(W)  k == Len(s)  v == Numbers(W, id)  u == Numbers(W \o s, id)
<1>1. /\ W \o s \in Seq(Message) /\ Len(W \o s) = n + k /\ n \in Nat /\ k \in Nat
      /\ \A i \in 1..n : (W \o s)[i] = W[i]
      /\ \A i \in 1..k : (W \o s)[n + i] = s[i]
  BY ConcatProperties, LenProperties
<1>2. v \in [1..n -> Nat] /\ u \in [1..(n + k) -> Nat]
  BY <1>1, NumbersTypes
<1>3. \A i \in 1..n : u[i] = v[i]
  BY <1>1 DEF Numbers
<1>4. \A i \in 1..k : u[n + i] = 0
  <2> SUFFICES ASSUME NEW i \in 1..k PROVE u[n + i] = 0
    OBVIOUS
  <2>1. n + i \in 1..(n + k) /\ \A j \in 1..n : j \in 1..(n + i)
    BY <1>1
  <2> QED BY <1>1, <2>1 DEF Numbers
<1> HIDE DEF n, k, u, v
<1>5. /\ CountsUp(v, g) => CountsUp(u, g)
      /\ \A w \in Nat : UpTo(v, g, w) => UpTo(u, g, w)
      /\ \A w \in Nat : AtMost(v, w) => AtMost(u, w)
  BY <1>1, <1>2, <1>3, <1>4, CountsPadded, ZenonT(60)
<1> QED BY <1>5 DEF u, v

(* The next data messages of a channel that is not closed continue its row. *)
LEMMA DataExtended ==
  ASSUME NEW W \in Seq(Message), NEW s \in Seq(Message), NEW id \in Id, NEW g \in Nat, NEW w \in Nat,
         \A i \in 1..Len(W) : W[i] # CloseChannelMsg(id),
         \A i \in 1..Len(s) : s[i] = DataMsg(id, w + i),
         CountsUp(Numbers(W, id), g), UpTo(Numbers(W, id), g, w)
  PROVE  CountsUp(Numbers(W \o s, id), g) /\ UpTo(Numbers(W \o s, id), g, w + Len(s))
<1> DEFINE n == Len(W)  k == Len(s)  v == Numbers(W, id)  u == Numbers(W \o s, id)
<1>1. /\ W \o s \in Seq(Message) /\ Len(W \o s) = n + k /\ n \in Nat /\ k \in Nat
      /\ \A i \in 1..n : (W \o s)[i] = W[i]
      /\ \A i \in 1..k : (W \o s)[n + i] = s[i]
  BY ConcatProperties, LenProperties
<1>2. v \in [1..n -> Nat] /\ u \in [1..(n + k) -> Nat]
  BY <1>1, NumbersTypes
<1>3. \A i \in 1..n : u[i] = v[i]
  BY <1>1 DEF Numbers
<1>4. \A i \in 1..k : u[n + i] = w + i
  <2> SUFFICES ASSUME NEW i \in 1..k PROVE u[n + i] = w + i
    OBVIOUS
  <2>1. n + i \in 1..(n + k)
    BY <1>1
  <2>2. \A j \in 1..(n + i) : (W \o s)[j] # CloseChannelMsg(id)
    <3> SUFFICES ASSUME NEW j \in 1..(n + i), j \notin 1..n PROVE (W \o s)[j] # CloseChannelMsg(id)
      BY <1>1
    <3>1. j - n \in 1..k /\ n + (j - n) = j
      BY <1>1
    <3>2. (W \o s)[j] = DataMsg(id, w + (j - n))
      BY <1>1, <3>1
    <3> QED BY <3>2 DEF DataMsg, CloseChannelMsg
  <2>4. (W \o s)[n + i] = DataMsg(id, w + i)
    BY <1>1
  <2>3. (W \o s)[n + i].type = "Data" /\ (W \o s)[n + i].id = id /\ (W \o s)[n + i].n = w + i
    BY <2>4 DEF DataMsg
  <2> QED BY <1>1, <2>1, <2>2, <2>3 DEF Numbers
<1> HIDE DEF n, k, u, v
<1>5. CountsUp(v, g) /\ UpTo(v, g, w)
  BY DEF v
<1>6. CountsUp(u, g) /\ UpTo(u, g, w + k)
  BY <1>1, <1>2, <1>3, <1>4, <1>5, CountsOn
<1> QED BY <1>6 DEF u, k

(* The receiver takes the first message off the row. *)
LEMMA DataTail ==
  ASSUME NEW W \in Seq(Message), W # <<>>, NEW id \in Id, NEW g \in Nat,
         W[1] # CloseChannelMsg(id), CountsUp(Numbers(W, id), g)
  PROVE  LET head == W[1].type = "Data" /\ W[1].id = id
             h == IF Numbers(W, id)[1] = 0 THEN g ELSE g + 1 IN
         /\ Numbers(W, id)[1] = IF head THEN W[1].n ELSE 0
         /\ Numbers(W, id)[1] # 0 => Numbers(W, id)[1] = g + 1
         /\ CountsUp(Numbers(Tail(W), id), h)
         /\ \A w \in Nat : UpTo(Numbers(W, id), g, w) => UpTo(Numbers(Tail(W), id), h, w)
         /\ \A w \in Nat : AtMost(Numbers(W, id), w) => AtMost(Numbers(Tail(W), id), w)
<1> DEFINE n == Len(Tail(W))  v == Numbers(W, id)  u == Numbers(Tail(W), id)
<1>1. /\ Tail(W) \in Seq(Message) /\ n \in Nat /\ Len(W) = n + 1
      /\ \A i \in 1..n : Tail(W)[i] = W[i + 1]
  BY HeadTailProperties, LenProperties, EmptySeq
<1>2. v \in [1..(n + 1) -> Nat] /\ u \in [1..n -> Nat]
  BY <1>1, NumbersTypes
<1>3. \A i \in 1..n : u[i] = v[i + 1]
  <2> SUFFICES ASSUME NEW i \in 1..n PROVE u[i] = v[i + 1]
    OBVIOUS
  <2>1. i + 1 \in 1..(n + 1) /\ Tail(W)[i] = W[i + 1]
    BY <1>1
  <2>2. (\A j \in 1..i : Tail(W)[j] # CloseChannelMsg(id))
          <=> (\A j \in 1..(i + 1) : W[j] # CloseChannelMsg(id))
    <3>1. \A j \in 1..i : j \in 1..n /\ j + 1 \in 1..(i + 1)
      BY <1>1
    <3>2. \A j \in 1..(i + 1) : j = 1 \/ (j - 1 \in 1..i /\ (j - 1) + 1 = j)
      BY <1>1
    <3> QED BY <1>1, <3>1, <3>2
  <2> QED BY <1>1, <2>1, <2>2 DEF Numbers
<1>4. v[1] = IF W[1].type = "Data" /\ W[1].id = id THEN W[1].n ELSE 0
  <2>1. 1 \in 1..Len(W) /\ \A j \in 1..1 : j = 1
    BY <1>1
  <2> QED BY <2>1 DEF Numbers
<1> HIDE DEF n, u, v
<1>5. CountsUp(v, g)
  BY DEF v
<1>6. /\ v[1] # 0 => v[1] = g + 1
      /\ CountsUp(u, IF v[1] = 0 THEN g ELSE g + 1)
      /\ \A w \in Nat : UpTo(v, g, w) => UpTo(u, IF v[1] = 0 THEN g ELSE g + 1, w)
      /\ \A w \in Nat : AtMost(v, w) => AtMost(u, w)
  BY <1>1, <1>2, <1>3, <1>5, CountsTail
<1> QED BY <1>4, <1>6 DEF u, v

(* Other messages change nothing for the creation of channels. *)
LEMMA CreatedPadded ==
  ASSUME NEW W \in Seq(Message), NEW s \in Seq(Message), NEW g \in Nat,
         \A i \in 1..Len(s) : s[i].type # "CreateChannel"
  PROVE  /\ CountsUp(Created(W), g) => CountsUp(Created(W \o s), g)
         /\ \A w \in Nat : UpTo(Created(W), g, w) => UpTo(Created(W \o s), g, w)
<1> DEFINE n == Len(W)  k == Len(s)  v == Created(W)  u == Created(W \o s)
<1>1. /\ W \o s \in Seq(Message) /\ Len(W \o s) = n + k /\ n \in Nat /\ k \in Nat
      /\ \A i \in 1..n : (W \o s)[i] = W[i]
      /\ \A i \in 1..k : (W \o s)[n + i] = s[i]
  BY ConcatProperties, LenProperties
<1>2. v \in [1..n -> Nat] /\ u \in [1..(n + k) -> Nat]
  BY <1>1, CreatedTypes
<1>3. \A i \in 1..n : u[i] = v[i]
  BY <1>1 DEF Created
<1>4. \A i \in 1..k : u[n + i] = 0
  <2> SUFFICES ASSUME NEW i \in 1..k PROVE u[n + i] = 0
    OBVIOUS
  <2>1. n + i \in 1..(n + k)
    BY <1>1
  <2> QED BY <1>1, <2>1 DEF Created
<1> HIDE DEF n, k, u, v
<1>5. /\ CountsUp(v, g) => CountsUp(u, g)
      /\ \A w \in Nat : UpTo(v, g, w) => UpTo(u, g, w)
  BY <1>1, <1>2, <1>3, <1>4, CountsPadded, ZenonT(30)
<1> QED BY <1>5 DEF u, v

(* CreateChannel of the next id continues the row of ids. *)
LEMMA CreatedExtended ==
  ASSUME NEW W \in Seq(Message), NEW g \in Nat, NEW w \in Nat, w + 1 \in Id,
         CountsUp(Created(W), g), UpTo(Created(W), g, w)
  PROVE  LET s == <<CreateChannelMsg(w + 1)>> IN
         CountsUp(Created(W \o s), g) /\ UpTo(Created(W \o s), g, w + 1)
<1> DEFINE s == <<CreateChannelMsg(w + 1)>>  n == Len(W)  v == Created(W)  u == Created(W \o s)
<1>0. s \in Seq(Message) /\ Len(s) = 1 /\ s[1].type = "CreateChannel" /\ s[1].id = w + 1
  BY MessageTypes DEF CreateChannelMsg
<1>1. /\ W \o s \in Seq(Message) /\ Len(W \o s) = n + 1 /\ n \in Nat
      /\ \A i \in 1..n : (W \o s)[i] = W[i]
      /\ (W \o s)[n + 1] = s[1]
  BY <1>0, ConcatProperties, LenProperties
<1>2. v \in [1..n -> Nat] /\ u \in [1..(n + 1) -> Nat]
  BY <1>1, CreatedTypes
<1>3. \A i \in 1..n : u[i] = v[i]
  BY <1>1 DEF Created
<1>4. \A i \in 1..1 : u[n + i] = w + i
  <2>1. n + 1 \in 1..(n + 1)
    BY <1>1
  <2>2. u[n + 1] = w + 1
    BY <1>0, <1>1, <2>1 DEF Created
  <2> QED BY <2>2
<1> HIDE DEF n, u, v
<1>5. CountsUp(v, g) /\ UpTo(v, g, w)
  BY DEF v
<1>6. CountsUp(u, g) /\ UpTo(u, g, w + 1)
  BY <1>1, <1>2, <1>3, <1>4, <1>5, CountsOn
<1> QED BY <1>6 DEF u

(* The server takes the first message off the row of ids. *)
LEMMA CreatedTail ==
  ASSUME NEW W \in Seq(Message), W # <<>>, NEW g \in Nat, CountsUp(Created(W), g)
  PROVE  LET h == IF W[1].type = "CreateChannel" THEN g + 1 ELSE g IN
         /\ W[1].type = "CreateChannel" => W[1].id = g + 1
         /\ CountsUp(Created(Tail(W)), h)
         /\ \A w \in Nat : UpTo(Created(W), g, w) => UpTo(Created(Tail(W)), h, w)
<1> DEFINE n == Len(Tail(W))  v == Created(W)  u == Created(Tail(W))
<1>1. /\ Tail(W) \in Seq(Message) /\ n \in Nat /\ Len(W) = n + 1
      /\ \A i \in 1..n : Tail(W)[i] = W[i + 1]
  BY HeadTailProperties, LenProperties, EmptySeq
<1>2. v \in [1..(n + 1) -> Nat] /\ u \in [1..n -> Nat]
  BY <1>1, CreatedTypes
<1>3. \A i \in 1..n : u[i] = v[i + 1]
  <2> SUFFICES ASSUME NEW i \in 1..n PROVE u[i] = v[i + 1]
    OBVIOUS
  <2>1. i + 1 \in 1..(n + 1) /\ Tail(W)[i] = W[i + 1]
    BY <1>1
  <2> QED BY <1>1, <2>1 DEF Created
<1>4. v[1] = IF W[1].type = "CreateChannel" THEN W[1].id ELSE 0
  <2>1. 1 \in 1..Len(W)
    BY <1>1
  <2> QED BY <2>1 DEF Created
<1>7. W[1].id # 0
  <2>1. W[1] \in Message
    BY <1>1, ElementOfSeq
  <2> QED BY <2>1 DEF Message, Id
<1> HIDE DEF n, u, v
<1>5. CountsUp(v, g)
  BY DEF v
<1>6. /\ v[1] # 0 => v[1] = g + 1
      /\ CountsUp(u, IF v[1] = 0 THEN g ELSE g + 1)
      /\ \A w \in Nat : UpTo(v, g, w) => UpTo(u, IF v[1] = 0 THEN g ELSE g + 1, w)
      /\ \A w \in Nat : AtMost(v, w) => AtMost(u, w)
  BY <1>1, <1>2, <1>3, <1>5, CountsTail
<1> QED BY <1>4, <1>6, <1>7 DEF u, v

-----------------------------------------------------------------------------
(*****************************************************************************)
(* What is on its way, and the invariant.                                   *)
(*****************************************************************************)

(* Everything peer p has sent and the other has not received: before the   *)
(* WebSocket is open it waits in the storage of the root.                  *)
Outbox(p) == IF p = "client" /\ ws[p] = "CONNECTING" THEN storage[Root] ELSE wire[p]

(* What p sends will be received as long as the connection holds. *)
Sending(p) == ws[p] \in {"CONNECTING", "OPEN"}

(* p still handles the messages that reach it. *)
Listening(p) == ws[p] # "CLOSED"

(* The messages of a channel that wait for its 'open' event. *)
Stored(p, id) == IF p = "client" THEN Len(storage[id]) ELSE 0

(* The messages of a channel that its end at p has passed to the root. *)
Written(p, id) == sent[p][id] - Stored(p, id)

(* The root of each peer follows its WebSocket, and only the client has    *)
(* channels that wait to be opened.                                        *)
SocketStates ==
  /\ readyState["server"][Root] = ws["server"] /\ ws["server"] \in {"OPEN", "CLOSED"}
  /\ ws["client"] = "CONNECTING" =>
       /\ readyState["client"][Root] = "CONNECTING" /\ wire["client"] = <<>> /\ opening = {}
       /\ \A i \in 1..Len(microtasks["client"]) : microtasks["client"][i] = EmptyCheck
  /\ ws["client"] = "OPEN" => readyState["client"][Root] = "OPEN"
  /\ ws["client"] = "CLOSED" => readyState["client"][Root] = "CLOSED"
  /\ \A i \in 1..Len(microtasks["server"]) : microtasks["server"][i] = EmptyCheck
  /\ \A id \in Id : readyState["server"][id] # "CONNECTING"

(* The server never runs ahead of the client, no end receives more than was *)
(* sent, and an id that was not handed out has left no trace.               *)
Unborn ==
  /\ nextId["server"] <= nextId["client"]
  /\ \A p \in Peer, id \in Id :
       /\ Len(got[Other(p)][id]) <= sent[p][id]
       /\ id > nextId[p] =>
            readyState[p][id] = "none" /\ sent[p][id] = 0 /\ got[p][id] = <<>>
                 /\ Stored(p, id) = 0

(* Only channels that were created wait for their 'open' event. *)
QueuedAreCreated ==
  /\ \A id \in opening : id <= nextId["client"]
  /\ \A i \in 1..Len(microtasks["client"]) : microtasks["client"][i] <= nextId["client"]

(* The storage of a channel holds the last messages sent on it, in order, and *)
(* is empty once the channel is open.                                         *)
StoredInOrder ==
  \A id \in channels["client"] :
    /\ Len(storage[id]) <= sent["client"][id]
    /\ \A i \in 1..Len(storage[id]) :
         storage[id][i] = DataMsg(id, Written("client", id) + i)
    /\ readyState["client"][id] = "OPEN" => storage[id] = <<>>

(* What p may have sent: messages of channels it knows, CloseChannel only of *)
(* channels it has given up, CreateChannel only from the client.             *)
Sendable(p, m, id, live) ==
  /\ m.id <= id
  /\ m.type = "CloseChannel" => m.id \notin live
  /\ m.type = "CreateChannel" => p = "client"
  /\ m.type = "Data" => m.n # 0

(* The part of Outgoing for peer p. *)
OutgoingLink(p) ==
  \A i \in 1..Len(Outbox(p)) : Sendable(p, Outbox(p)[i], nextId[p], channels[p])

(* Everything on its way is something its sender may send. *)
Outgoing == \A p \in Peer : OutgoingLink(p)

(* To a server that has seen the channels up to g: the CreateChannel messages *)
(* in W come in order, and before any other message of their channel.         *)
CreatesAhead(W, g) ==
  /\ CountsUp(Created(W), g)
  /\ \A i \in 1..Len(W) : W[i].id > g => \E j \in 1..i : Created(W)[j] = W[i].id

(* The CreateChannel messages in W cover all channels from g to w. *)
CreatesAll(W, g, w) ==
  /\ UpTo(Created(W), g, w)
  /\ \A id \in Id : g < id /\ id <= w => \E j \in 1..Len(W) : Created(W)[j] = id

(* The server learns of every channel, in order, before it gets a message of *)
(* it, as long as the connection holds.                                      *)
CreatesInOrder ==
  Listening("server") =>
    /\ CreatesAhead(Outbox("client"), nextId["server"])
    /\ Sending("client") => CreatesAll(Outbox("client"), nextId["server"], nextId["client"])

(* The part of CloseOnItsWay for the end at p of channel id. *)
CloseLink(p, id) ==
  /\ Sending(p) /\ Listening(Other(p))
  /\ id \in Gone(p) /\ id \notin Gone(Other(p))
  => \E i \in 1..Len(Outbox(p)) : Outbox(p)[i] = CloseChannelMsg(id)

(* An end given up at one peer only has its CloseChannel on the way. *)
CloseOnItsWay == \A p \in Peer, id \in Id : CloseLink(p, id)

(* The part of DataInOrder for the messages from p on channel id. *)
DataLink(p, id) ==
  LET q == Other(p)
      v == Numbers(Outbox(p), id)
      g == Len(got[q][id])
  IN Listening(q) /\ id \notin Gone(q) =>
       /\ CountsUp(v, g)
       /\ AtMost(v, sent[p][id])
       /\ Sending(p) /\ id \in channels[p] => UpTo(v, g, Written(p, id))

(* What an end has got, followed by what is on its way to it, is what the  *)
(* other end has written, in order and without gaps.                       *)
DataInOrder == \A p \in Peer, id \in Id : DataLink(p, id)

(* The inductive invariant of the two theorems on what channels promise. *)
OrderInv == /\ Inv /\ SocketStates /\ Unborn /\ QueuedAreCreated /\ StoredInOrder /\ Outgoing
        /\ CreatesInOrder /\ CloseOnItsWay /\ DataInOrder

(* The types that most of the proofs below need. *)
LEMMA OutboxTypes ==
  ASSUME TypeOK
  PROVE  /\ \A p \in Peer : Outbox(p) \in Seq(Message) /\ Len(Outbox(p)) \in Nat
         /\ \A p \in Peer : \A i \in 1..Len(Outbox(p)) : Outbox(p)[i] \in Message
         /\ \A p \in Peer, id \in Id : Len(got[p][id]) \in Nat /\ sent[p][id] \in Nat
         /\ \A p \in Peer, id \in Id : Stored(p, id) \in Nat
         /\ \A id \in Id : storage[id] \in Seq(Message) /\ Len(storage[id]) \in Nat
         /\ \A p \in Peer : Other(p) \in Peer /\ Other(p) # p /\ Other(Other(p)) = p
         /\ "client" \in Peer /\ "server" \in Peer /\ Root \notin Id
         /\ Other("client") = "server" /\ Other("server") = "client"
         /\ \A p \in Peer : nextId[p] \in Nat /\ nextId[p] <= MaxChannels
<1>1. \A p \in Peer : Outbox(p) \in Seq(Message)
  BY DEF TypeOK, Outbox
<1>2. \A p \in Peer : Len(Outbox(p)) \in Nat
  BY <1>1, LenProperties
<1>3. \A p \in Peer : \A i \in 1..Len(Outbox(p)) : Outbox(p)[i] \in Message
  BY <1>1, ElementOfSeq
<1>4. \A p \in Peer, id \in Id : Len(got[p][id]) \in Nat /\ sent[p][id] \in Nat
  <2>1. \A p \in Peer, id \in Id : got[p][id] \in Seq(Nat) /\ sent[p][id] \in Nat
    BY DEF TypeOK
  <2> QED BY <2>1, LenProperties
<1>5. \A id \in Id : storage[id] \in Seq(Message) /\ Len(storage[id]) \in Nat
  BY LenProperties DEF TypeOK
<1>6. \A p \in Peer, id \in Id : Stored(p, id) \in Nat
  BY <1>5 DEF Stored
<1>7. /\ \A p \in Peer : Other(p) \in Peer /\ Other(p) # p /\ Other(Other(p)) = p
      /\ "client" \in Peer /\ "server" \in Peer
      /\ Other("client") = "server" /\ Other("server") = "client"
  BY DEF Peer, Other
<1>8. Root \notin Id
  BY DEF Root, Id
<1>9. \A p \in Peer : nextId[p] \in Nat /\ nextId[p] <= MaxChannels
  BY BoundsAssumption DEF TypeOK
<1> QED BY <1>1, <1>2, <1>3, <1>4, <1>5, <1>6, <1>7, <1>8, <1>9

-----------------------------------------------------------------------------
(*****************************************************************************)
(* Sending.                                                                  *)
(*****************************************************************************)

(* sendData of the root puts its message at the end of the outbox, or loses it *)
(* with the connection.                                                        *)
LEMMA RootSendOutbox ==
  ASSUME TypeOK, SocketStates, NEW p \in Peer, NEW m \in Message, RootSend(p, m),
         UNCHANGED ws, readyState[p][Root] # "CLOSED"
  PROVE  /\ Outbox(p)' = Outbox(p) \o (IF Sending(p) THEN <<m>> ELSE <<>>)
         /\ Outbox(Other(p))' = Outbox(Other(p))
         /\ \A id \in Id : storage'[id] = storage[id]
         /\ ws["client"] = "CONNECTING" => wire'["client"] = wire["client"]
<1>0. /\ Other(p) \in Peer /\ Other(p) # p /\ Root \notin Id
      /\ storage[Root] \in Seq(Message) /\ wire[p] \in Seq(Message)
      /\ Outbox(p) \in Seq(Message)
  BY OutboxTypes DEF TypeOK
<1>1. Outbox(p) \o <<>> = Outbox(p)
  BY <1>0, ConcatEmptySeq
<1>2. storage[Root] \o <<m>> = Append(storage[Root], m)
  BY <1>0, AppendIsConcat
<1>3. CASE readyState[p][Root] = "OPEN"
  <2>1. ~(p = "client" /\ ws[p] = "CONNECTING")
    BY <1>3 DEF SocketStates
  <2>2. SocketSend(p, <<m>>) /\ UNCHANGED storage
    BY <1>3 DEF RootSend
  <2>3. Outbox(p) = wire[p] /\ Outbox(p)' = wire'[p]
    BY <2>1 DEF Outbox
  <2>4. Sending(p) <=> ws[p] = "OPEN"
    BY <2>1 DEF Sending, SocketStates, Peer
  <2>5. Outbox(p)' = Outbox(p) \o (IF Sending(p) THEN <<m>> ELSE <<>>)
    BY <1>1, <2>2, <2>3, <2>4 DEF SocketSend, TypeOK
  <2>6. wire'[Other(p)] = wire[Other(p)]
    BY <1>0, <2>2 DEF SocketSend, TypeOK
  <2>7. ws["client"] = "CONNECTING" => wire'["client"] = wire["client"]
    BY <2>1, <2>2 DEF SocketSend, TypeOK, Peer
  <2> QED BY <1>0, <2>2, <2>5, <2>6, <2>7 DEF Outbox
<1>4. CASE readyState[p][Root] # "OPEN"
  <2>1. p = "client"
    BY <1>4 DEF SocketStates, Peer
  <2>2. storage' = [storage EXCEPT ![Root] = Append(@, m)] /\ UNCHANGED wire
    BY <1>4 DEF RootSend
  <2>3. ws[p] # "OPEN" /\ ws[p] # "CLOSED"
    BY <1>4, <2>1 DEF SocketStates
  <2>4. CASE ws[p] = "CONNECTING"
    BY <1>0, <1>2, <2>1, <2>2, <2>4 DEF Outbox, Sending, TypeOK, Other
  <2>5. CASE ws[p] = "CLOSING"
    BY <1>0, <1>1, <2>1, <2>2, <2>5 DEF Outbox, Sending, TypeOK, Other
  <2> QED BY <2>3, <2>4, <2>5 DEF TypeOK, SocketState, State
<1> QED BY <1>3, <1>4

(* WebSocket.send puts its messages at the end of the outbox, or loses them *)
(* with the connection.                                                     *)
LEMMA SocketSendOutbox ==
  ASSUME TypeOK, SocketStates, NEW p \in Peer, NEW ms \in Seq(Message), SocketSend(p, ms),
         UNCHANGED ws, ws[p] # "CONNECTING"
  PROVE  /\ Outbox(p)' = Outbox(p) \o (IF Sending(p) THEN ms ELSE <<>>)
         /\ (\A o \in {Root} \cup Id : storage'[o] = storage[o]) \/ p = "client"
              => Outbox(Other(p))' = Outbox(Other(p))
<1>0. /\ Other(p) \in Peer /\ Other(p) # p /\ Root \notin Id
      /\ wire[p] \in Seq(Message) /\ Outbox(p) \in Seq(Message)
  BY OutboxTypes DEF TypeOK
<1>1. Outbox(p) \o <<>> = Outbox(p)
  BY <1>0, ConcatEmptySeq
<1>2. Outbox(p) = wire[p] /\ Outbox(p)' = wire'[p]
  BY DEF Outbox
<1>3. Sending(p) <=> ws[p] = "OPEN"
  BY DEF Sending
<1>4. wire'[Other(p)] = wire[Other(p)]
  BY <1>0 DEF SocketSend, TypeOK
<1>5. Outbox(p)' = Outbox(p) \o (IF Sending(p) THEN ms ELSE <<>>)
  BY <1>1, <1>2, <1>3 DEF SocketSend, TypeOK
<1>6. ASSUME (\A o \in {Root} \cup Id : storage'[o] = storage[o]) \/ p = "client"
      PROVE  Outbox(Other(p))' = Outbox(Other(p))
  BY <1>4, <1>6 DEF Outbox, Other
<1> QED BY <1>5, <1>6

(* A link that is only lengthened, by messages that do not count in it. *)
LEMMA DataKept ==
  ASSUME TypeOK, TypeOK', NEW p \in Peer, NEW id \in Id, NEW s \in Seq(Message),
         DataLink(p, id), Outbox(p)' = Outbox(p) \o s,
         \/ \E i \in 1..Len(Outbox(p)) : Outbox(p)[i] = CloseChannelMsg(id)
         \/ id \in Gone(Other(p))'
         \/ ~Listening(Other(p))'
         \/ \A i \in 1..Len(s) : ~(s[i].type = "Data" /\ s[i].id = id),
         got'[Other(p)][id] = got[Other(p)][id], sent[p][id] <= sent'[p][id],
         Listening(Other(p))' => Listening(Other(p)),
         id \in Gone(Other(p)) => id \in Gone(Other(p))',
         Sending(p)' /\ id \in channels'[p] =>
           Sending(p) /\ id \in channels[p] /\ Written(p, id)' = Written(p, id)
  PROVE  DataLink(p, id)'
<1> DEFINE q == Other(p)  W == Outbox(p)  g == Len(got[q][id])  v == Numbers(W, id)  u == Numbers(W \o s, id)
<1>1. W \in Seq(Message) /\ g \in Nat /\ sent[p][id] \in Nat /\ sent'[p][id] \in Nat
  <2>1. \A r \in Peer, c \in Id : Len(got[r][c]) \in Nat /\ sent[r][c] \in Nat
    BY OutboxTypes
  <2>2. sent'[p][id] \in Nat
    BY DEF TypeOK
  <2>3. W \in Seq(Message) /\ q \in Peer
    BY OutboxTypes
  <2> QED BY <2>1, <2>2, <2>3
<1>2. SUFFICES ASSUME Listening(q)', id \notin Gone(q)'
      PROVE  /\ CountsUp(u, g)
             /\ AtMost(u, sent'[p][id])
             /\ Sending(p)' /\ id \in channels'[p] => UpTo(u, g, Written(p, id)')
  BY DEF DataLink
<1>3. /\ CountsUp(v, g)
      /\ AtMost(v, sent[p][id])
      /\ Sending(p) /\ id \in channels[p] => UpTo(v, g, Written(p, id))
  BY <1>2 DEF DataLink
<1>4. /\ CountsUp(u, g)
      /\ \A w \in Nat : UpTo(v, g, w) => UpTo(u, g, w)
      /\ \A w \in Nat : AtMost(v, w) => AtMost(u, w)
  BY <1>1, <1>2, <1>3, DataPadded
<1>5. AtMost(u, sent'[p][id])
  <2>1. AtMost(u, sent[p][id])
    BY <1>1, <1>3, <1>4
  <2>2. W \o s \in Seq(Message)
    BY <1>1, ConcatProperties
  <2>3. \A i \in DOMAIN u : u[i] \in Nat
    BY <2>2, NumbersTypes
  <2> HIDE DEF u
  <2> QED BY <1>1, <2>1, <2>3 DEF AtMost
<1>6. ASSUME Sending(p)', id \in channels'[p] PROVE UpTo(u, g, Written(p, id)')
  <2>1. UpTo(v, g, Written(p, id)) /\ Written(p, id)' = Written(p, id)
    BY <1>3, <1>6
  <2>2. Written(p, id) \in Nat
    <3>1. Written(p, id) \in Int
      BY OutboxTypes, <1>1 DEF Written
    <3> HIDE DEF v
    <3> QED BY <1>1, <2>1, <3>1 DEF UpTo
  <2> QED BY <1>4, <2>1, <2>2
<1> QED BY <1>4, <1>5, <1>6

(* An outbox that was cut is no longer added to. *)
LEMMA DataCut ==
  ASSUME TypeOK', NEW p \in Peer, NEW id \in Id, Outbox(p)' = <<>>, ~Sending(p)'
  PROVE  DataLink(p, id)'
<1>1. Numbers(<<>>, id) = <<>>
  BY DEF Numbers
<1>2. \A g : CountsUp(<<>>, g) /\ AtMost(<<>>, g)
  BY DEF CountsUp, AtMost
<1> QED BY <1>1, <1>2 DEF DataLink

(* The elements of two sequences in a row. *)
LEMMA InConcat ==
  ASSUME NEW W \in Seq(Message), NEW s \in Seq(Message)
  PROVE  /\ W \o s \in Seq(Message)
         /\ Len(W \o s) \in Nat /\ Len(W) \in Nat
         /\ \A i \in 1..Len(W \o s) :
              \/ i \in 1..Len(W) /\ (W \o s)[i] = W[i]
              \/ i \notin 1..Len(W) /\ i - Len(W) \in 1..Len(s) /\ (W \o s)[i] = s[i - Len(W)]
         /\ \A i \in 1..Len(W) : i \in 1..Len(W \o s) /\ (W \o s)[i] = W[i]
         /\ \A i \in 1..Len(s) : Len(W) + i \in 1..Len(W \o s) /\ (W \o s)[Len(W) + i] = s[i]
<1>1. /\ W \o s \in Seq(Message) /\ Len(W \o s) = Len(W) + Len(s) /\ Len(W) \in Nat /\ Len(s) \in Nat
      /\ \A i \in 1..Len(W) : (W \o s)[i] = W[i]
      /\ \A i \in 1..Len(s) : (W \o s)[Len(W) + i] = s[i]
  BY ConcatProperties, LenProperties
<1>2. ASSUME NEW i \in 1..Len(W \o s), i \notin 1..Len(W)
      PROVE  i - Len(W) \in 1..Len(s) /\ (W \o s)[i] = s[i - Len(W)]
  <2>1. i - Len(W) \in 1..Len(s) /\ Len(W) + (i - Len(W)) = i
    BY <1>1, <1>2
  <2> QED BY <1>1, <2>1
<1> QED BY <1>1, <1>2

(* Outgoing holds of a longer outbox if it holds of what was added. *)
LEMMA OutgoingKept ==
  ASSUME TypeOK, NEW p \in Peer, NEW s \in Seq(Message), Outbox(p)' = Outbox(p) \o s,
         OutgoingLink(p),
         \A i \in 1..Len(s) : Sendable(p, s[i], nextId'[p], channels'[p]),
         nextId[p] <= nextId'[p], nextId'[p] \in Nat,
         \A id \in 1..nextId[p] : id \notin channels[p] => id \notin channels'[p]
  PROVE  OutgoingLink(p)'
<1> DEFINE W == Outbox(p)
<1>1. W \in Seq(Message) /\ nextId[p] \in Nat /\ \A i \in 1..Len(W) : W[i] \in Message
  BY OutboxTypes
<1>2. \A i \in 1..Len(W) : Sendable(p, W[i], nextId'[p], channels'[p])
  <2> SUFFICES ASSUME NEW i \in 1..Len(W) PROVE Sendable(p, W[i], nextId'[p], channels'[p])
    OBVIOUS
  <2>1. Sendable(p, W[i], nextId[p], channels[p]) /\ W[i].id \in Nat /\ W[i].id >= 1
    BY <1>1 DEF Message, Id, OutgoingLink
  <2>2. W[i].id \in 1..nextId[p]
    BY <1>1, <2>1 DEF Sendable
  <2> QED BY <1>1, <2>1, <2>2 DEF Sendable
<1> HIDE DEF W
<1>3. \A i \in 1..Len(W \o s) : Sendable(p, (W \o s)[i], nextId'[p], channels'[p])
  BY <1>1, <1>2, InConcat
<1> QED BY <1>3 DEF W, OutgoingLink

(* A longer outbox keeps CloseLink, provided an end that is given up adds its *)
(* CloseChannel.                                                              *)
LEMMA CloseKept ==
  ASSUME TypeOK, NEW p \in Peer, NEW id \in Id, NEW s \in Seq(Message), Outbox(p)' = Outbox(p) \o s,
         CloseLink(p, id),
         Sending(p)' => Sending(p), Listening(Other(p))' => Listening(Other(p)),
         id \in Gone(Other(p)) => id \in Gone(Other(p))',
         \/ id \in Gone(p)' => id \in Gone(p)
         \/ ~Sending(p)'
         \/ \E i \in 1..Len(s) : s[i] = CloseChannelMsg(id)
  PROVE  CloseLink(p, id)'
<1>1. Outbox(p) \in Seq(Message)
  BY OutboxTypes
<1>2. SUFFICES ASSUME Sending(p)', Listening(Other(p))', id \in Gone(p)', id \notin Gone(Other(p))'
      PROVE  \E i \in 1..Len(Outbox(p) \o s) : (Outbox(p) \o s)[i] = CloseChannelMsg(id)
  BY DEF CloseLink
<1>3. CASE \E i \in 1..Len(s) : s[i] = CloseChannelMsg(id)
  <2>1. PICK i \in 1..Len(s) : s[i] = CloseChannelMsg(id)
    BY <1>3
  <2>2. /\ Len(Outbox(p)) + i \in 1..Len(Outbox(p) \o s)
        /\ (Outbox(p) \o s)[Len(Outbox(p)) + i] = CloseChannelMsg(id)
    BY <1>1, <2>1, InConcat, SMTT(20)
  <2> QED BY <2>2
<1>4. CASE id \in Gone(p)
  <2>1. PICK i \in 1..Len(Outbox(p)) : Outbox(p)[i] = CloseChannelMsg(id)
    BY <1>2, <1>4 DEF CloseLink
  <2> QED BY <1>1, <2>1, InConcat
<1> QED BY <1>2, <1>3, <1>4

(* A longer outbox without new CreateChannel messages keeps CreatesInOrder. *)
LEMMA CreatesKept ==
  ASSUME TypeOK, TypeOK', NEW s \in Seq(Message), Outbox("client")' = Outbox("client") \o s,
         CreatesInOrder, UNCHANGED nextId,
         Sending("client")' => Sending("client"), Listening("server")' => Listening("server"),
         s = <<>> \/ Sending("client"),
         \A i \in 1..Len(s) : s[i].type # "CreateChannel" /\ s[i].id <= nextId["client"]
  PROVE  CreatesInOrder'
<1> DEFINE W == Outbox("client")  g == nextId["server"]  w == nextId["client"]
<1>1. /\ W \in Seq(Message) /\ g \in Nat /\ w \in Nat /\ "client" \in Peer
      /\ \A i \in 1..Len(s) : s[i] \in Message
  BY OutboxTypes, ElementOfSeq
<1>2. SUFFICES ASSUME Listening("server")'
      PROVE  CreatesAhead(W \o s, g) /\ (Sending("client")' => CreatesAll(W \o s, g, w))
  BY DEF CreatesInOrder
<1>3. /\ CountsUp(Created(W), g)
      /\ Sending("client") =>
           /\ UpTo(Created(W), g, w)
           /\ \A id \in Id : g < id /\ id <= w => \E j \in 1..Len(W) : Created(W)[j] = id
      /\ \A i \in 1..Len(W) : W[i].id > g => \E j \in 1..i : Created(W)[j] = W[i].id
  BY <1>2 DEF CreatesInOrder, CreatesAhead, CreatesAll
<1>a. \A i \in 1..Len(s) : s[i].type # "CreateChannel" /\ s[i].id <= w
  OBVIOUS
<1> HIDE DEF W, g, w
<1>4. /\ CountsUp(Created(W), g) => CountsUp(Created(W \o s), g)
      /\ UpTo(Created(W), g, w) => UpTo(Created(W \o s), g, w)
  BY <1>1, <1>a, CreatedPadded
<1>5. \A j \in 1..Len(W) : Created(W \o s)[j] = Created(W)[j] /\ j \in 1..Len(W \o s)
  BY <1>1, InConcat DEF Created
<1>6. ASSUME Sending("client")', NEW id \in Id, g < id, id <= w
      PROVE  \E j \in 1..Len(W \o s) : Created(W \o s)[j] = id
  BY <1>3, <1>5, <1>6
<1>7. ASSUME NEW i \in 1..Len(W \o s), (W \o s)[i].id > g
      PROVE  \E j \in 1..i : Created(W \o s)[j] = (W \o s)[i].id
  <2>1. CASE i \in 1..Len(W) /\ (W \o s)[i] = W[i]
    <3>1. PICK j \in 1..i : Created(W)[j] = W[i].id
      BY <1>3, <1>7, <2>1
    <3>2. j \in 1..Len(W)
      BY <1>1, <2>1, InConcat
    <3> QED BY <1>5, <2>1, <3>1, <3>2
  <2>2. CASE i \notin 1..Len(W) /\ i - Len(W) \in 1..Len(s) /\ (W \o s)[i] = s[i - Len(W)]
    <3>1. s[i - Len(W)].id <= w /\ s[i - Len(W)].id \in Id
      BY <1>1, <1>a, <2>2 DEF Message
    <3>2. s # <<>>
      BY <2>2
    <3>3. PICK j \in 1..Len(W) : Created(W)[j] = s[i - Len(W)].id
      BY <1>3, <1>7, <2>2, <3>1, <3>2
    <3>4. j \in 1..i
      BY <1>1, <2>2, InConcat
    <3> QED BY <1>5, <2>2, <3>3, <3>4
  <2> QED BY <1>1, <2>1, <2>2, InConcat
<1> QED BY <1>3, <1>4, <1>6, <1>7 DEF CreatesAhead, CreatesAll

-----------------------------------------------------------------------------
(*****************************************************************************)
(* The API calls.                                                            *)
(*****************************************************************************)

(* createChannel keeps the invariant: the id is new, and its CreateChannel is *)
(* the last message in the outbox.                                            *)
LEMMA CreateChannelOrder ==
  ASSUME OrderInv, createChannel PROVE OrderInv'
<1> DEFINE new == nextId["client"] + 1
           m == CreateChannelMsg(new)
           s == IF Sending("client") THEN <<m>> ELSE <<>>
<1>0. Inv' /\ TypeOK /\ TypeOK' /\ KeysAllocated
  BY CreateChannelInv DEF OrderInv, Inv
<1>1. /\ "client" \in Peer /\ "server" \in Peer /\ Root \notin Id
      /\ \A p \in Peer : Other(p) \in Peer /\ Other(p) # p
      /\ Other("client") = "server" /\ Other("server") = "client"
      /\ \A p \in Peer : nextId[p] \in Nat
      /\ \A p \in Peer : Outbox(p) \in Seq(Message)
  BY <1>0, OutboxTypes
<1>2. new \in Id /\ getNextId("client") = new
  BY <1>0, <1>1, NextIdIsNext DEF createChannel
<1>3. /\ readyState["client"][Root] # "CLOSED"
      /\ nextId' = [nextId EXCEPT !["client"] = new]
      /\ readyState' = [readyState EXCEPT !["client"][new] = "CONNECTING"]
      /\ channels' = [channels EXCEPT !["client"] = @ \cup {new}]
      /\ OpenLater(new)
      /\ RootSend("client", m)
      /\ UNCHANGED <<ws, opening, sent, got>>
  BY <1>2 DEF createChannel
<1>4. m \in Message /\ s \in Seq(Message) /\ \A i \in 1..Len(s) : s[i] = m
  BY <1>2, MessageTypes, EmptySeq
<1>5. /\ Outbox("client")' = Outbox("client") \o s
      /\ Outbox("server")' = Outbox("server")
      /\ \A id \in Id : storage'[id] = storage[id]
      /\ ws["client"] = "CONNECTING" => wire'["client"] = wire["client"]
  BY <1>0, <1>1, <1>3, <1>4, RootSendOutbox DEF OrderInv
<1>m. m.type = "CreateChannel" /\ m.id = new
  BY DEF CreateChannelMsg
<1>6. /\ nextId'["client"] = new /\ nextId'["server"] = nextId["server"]
      /\ channels'["client"] = channels["client"] \cup {new} /\ channels'["server"] = channels["server"]
      /\ \A p \in Peer, o \in {Root} \cup Id :
           readyState'[p][o] = IF p = "client" /\ o = new THEN "CONNECTING" ELSE readyState[p][o]
  BY <1>0, <1>1, <1>2, <1>3, ZenonT(30) DEF TypeOK
<1>7. SocketStates'
  <2>1. readyState'["server"][Root] = readyState["server"][Root]
        /\ readyState'["client"][Root] = readyState["client"][Root]
        /\ \A id \in Id : readyState'["server"][id] = readyState["server"][id]
    BY <1>1, <1>2, <1>6
  <2>2. /\ microtasks'["server"] = microtasks["server"]
        /\ ws["client"] = "CONNECTING" => microtasks'["client"] = microtasks["client"]
    BY <1>0, <1>1, <1>3 DEF OpenLater, TypeOK, OrderInv, SocketStates
  <2> QED BY <1>3, <1>5, <2>1, <2>2 DEF OrderInv, SocketStates
<1>8. Unborn'
  <2>1. \A p \in Peer, id \in Id : Stored(p, id)' = Stored(p, id)
    BY <1>5 DEF Stored
  <2> QED BY <1>1, <1>2, <1>3, <1>6, <2>1, SMTT(20) DEF OrderInv, Unborn, Id
<1>9. StoredInOrder'
  <2> SUFFICES ASSUME NEW id \in channels'["client"]
               PROVE  /\ Len(storage'[id]) <= sent'["client"][id]
                      /\ \A i \in 1..Len(storage'[id]) :
                           storage'[id][i] = DataMsg(id, Written("client", id)' + i)
                      /\ readyState'["client"][id] = "OPEN" => storage'[id] = <<>>
    BY DEF StoredInOrder
  <2>1. id \in Id /\ storage'[id] = storage[id] /\ sent'["client"][id] = sent["client"][id]
    BY <1>0, <1>1, <1>3, <1>5 DEF TypeOK
  <2>2. Written("client", id)' = Written("client", id)
    BY <2>1 DEF Written, Stored
  <2>3. CASE id = new
    <3>1. new > nextId["client"]
      BY <1>1
    <3>2. sent["client"][id] = 0 /\ Len(storage[id]) = 0
      BY <1>1, <1>2, <2>3, <3>1 DEF OrderInv, Unborn, Stored
    <3>3. readyState'["client"][id] # "OPEN"
      BY <1>1, <1>6, <2>1, <2>3
    <3> QED BY <2>1, <3>2, <3>3
  <2>4. CASE id # new
    <3>1. id \in channels["client"]
      BY <1>6, <2>4
    <3>2. readyState'["client"][id] = readyState["client"][id]
      BY <1>1, <1>6, <2>1, <2>4
    <3> QED BY <2>1, <2>2, <3>1, <3>2 DEF OrderInv, StoredInOrder
  <2> QED BY <2>3, <2>4
<1>10. Outgoing'
  <2>1. OutgoingLink("client")'
    <3>1. \A i \in 1..Len(s) : Sendable("client", s[i], nextId'["client"], channels'["client"])
      BY <1>4, <1>m, <1>6, <1>1 DEF Sendable
    <3>2. \A id \in 1..nextId["client"] : id \notin channels["client"] => id \notin channels'["client"]
      BY <1>1, <1>6
    <3>3. OutgoingLink("client") /\ nextId["client"] <= nextId'["client"] /\ nextId'["client"] \in Nat
      BY <1>1, <1>6 DEF OrderInv, Outgoing
    <3> HIDE DEF s
    <3> QED BY <1>0, <1>1, <1>4, <1>5, <3>1, <3>2, <3>3, OutgoingKept
  <2>2. OutgoingLink("server")'
    BY <1>1, <1>5, <1>6 DEF OrderInv, Outgoing, OutgoingLink
  <2> QED BY <2>1, <2>2 DEF Outgoing, Peer
<1>11. CreatesInOrder'
  <2> DEFINE W == Outbox("client")  g == nextId["server"]  w == nextId["client"]
  <2> SUFFICES ASSUME Listening("server")'
      PROVE  CreatesAhead(W \o s, g) /\ (Sending("client")' => CreatesAll(W \o s, g, w + 1))
    BY <1>5, <1>6 DEF CreatesInOrder
  <2>1. Listening("server") /\ (Sending("client")' <=> Sending("client"))
    BY <1>3 DEF Listening, Sending
  <2>2. /\ CountsUp(Created(W), g)
        /\ Sending("client") =>
             /\ UpTo(Created(W), g, w)
             /\ \A id \in Id : g < id /\ id <= w => \E j \in 1..Len(W) : Created(W)[j] = id
        /\ \A i \in 1..Len(W) : W[i].id > g => \E j \in 1..i : Created(W)[j] = W[i].id
    BY <2>1 DEF OrderInv, CreatesInOrder, CreatesAhead, CreatesAll
  <2>3. W \in Seq(Message) /\ g \in Nat /\ w \in Nat /\ w + 1 \in Id
    BY <1>1, <1>2
  <2> HIDE DEF W, g, w
  <2>4. CASE ~Sending("client")
    <3>1. W \o s = W
      BY <2>3, <2>4, ConcatEmptySeq
    <3> QED BY <2>1, <2>2, <2>4, <3>1 DEF CreatesAhead
  <2>5. CASE Sending("client")
    <3>1. s = <<CreateChannelMsg(w + 1)>>
      BY <2>5 DEF w
    <3>2. CountsUp(Created(W \o s), g) /\ UpTo(Created(W \o s), g, w + 1)
      BY <2>2, <2>3, <2>5, <3>1, CreatedExtended
    <3>3. \A j \in 1..Len(W) : Created(W \o s)[j] = Created(W)[j] /\ j \in 1..Len(W \o s)
      BY <1>4, <2>3, InConcat DEF Created
    <3>4. Len(W) + 1 \in 1..Len(W \o s) /\ Created(W \o s)[Len(W) + 1] = w + 1
      <4>1. 1 \in 1..Len(s) /\ s[1].type = "CreateChannel" /\ s[1].id = w + 1
        BY <3>1 DEF CreateChannelMsg
      <4>2. Len(W) + 1 \in 1..Len(W \o s) /\ (W \o s)[Len(W) + 1] = s[1]
        BY <1>4, <2>3, <4>1, InConcat
      <4> HIDE DEF s
      <4> QED BY <4>1, <4>2 DEF Created
    <3>5. \A id \in Id : g < id /\ id <= w + 1 => \E j \in 1..Len(W \o s) : Created(W \o s)[j] = id
      <4> SUFFICES ASSUME NEW id \in Id, g < id, id <= w + 1
                   PROVE  \E j \in 1..Len(W \o s) : Created(W \o s)[j] = id
        OBVIOUS
      <4>1. id = w + 1 \/ id <= w
        BY <2>3 DEF Id
      <4>2. CASE id <= w
        <5>1. PICK j \in 1..Len(W) : Created(W)[j] = id
          BY <2>2, <2>5, <4>2
        <5> QED BY <3>3, <5>1
      <4> QED BY <3>4, <4>1, <4>2
    <3>6. ASSUME NEW i \in 1..Len(W \o s), (W \o s)[i].id > g
          PROVE  \E j \in 1..i : Created(W \o s)[j] = (W \o s)[i].id
      <4>1. CASE i \in 1..Len(W) /\ (W \o s)[i] = W[i]
        <5>1. PICK j \in 1..i : Created(W)[j] = W[i].id
          BY <2>2, <3>6, <4>1
        <5>2. j \in 1..Len(W)
          BY <1>4, <2>3, <4>1, InConcat
        <5> QED BY <3>3, <4>1, <5>1, <5>2
      <4>2. CASE i \notin 1..Len(W) /\ i - Len(W) \in 1..Len(s) /\ (W \o s)[i] = s[i - Len(W)]
        <5>1. (W \o s)[i] = m /\ m.type = "CreateChannel"
          BY <1>4, <1>m, <4>2
        <5>2. Created(W \o s)[i] = (W \o s)[i].id
          BY <5>1, <3>6 DEF Created
        <5>3. i \in 1..i
          BY <1>4, <2>3, InConcat
        <5> QED BY <5>2, <5>3
      <4> QED BY <1>4, <2>3, <4>1, <4>2, InConcat
    <3> QED BY <3>2, <3>5, <3>6 DEF CreatesAhead, CreatesAll
  <2> QED BY <2>4, <2>5
<1>a. \A p \in Peer, id \in Id : id \in Gone(p)' <=> id \in Gone(p)
  <2>1. \A id \in Id : id \in Gone("client")' <=> id \in Gone("client")
    BY <1>0, <1>1, <1>6 DEF Gone, KeysAllocated, Id
  <2>2. \A id \in Id : id \in Gone("server")' <=> id \in Gone("server")
    BY <1>6 DEF Gone
  <2> QED BY <2>1, <2>2 DEF Peer
<1>b. \A p \in Peer : \E t \in Seq(Message) :
        /\ Outbox(p)' = Outbox(p) \o t
        /\ \A i \in 1..Len(t) : t[i].type = "CreateChannel"
  <2>1. Outbox("server") \o <<>> = Outbox("server") /\ <<>> \in Seq(Message)
    BY <1>1, ConcatEmptySeq, EmptySeq
  <2>2. \A i \in 1..Len(s) : s[i].type = "CreateChannel"
    BY <1>4, <1>m
  <2> HIDE DEF s
  <2> SUFFICES ASSUME NEW p \in Peer PROVE \E t \in Seq(Message) :
        /\ Outbox(p)' = Outbox(p) \o t
        /\ \A i \in 1..Len(t) : t[i].type = "CreateChannel"
    OBVIOUS
  <2>3. CASE p = "client"
    BY <1>4, <1>5, <2>2, <2>3
  <2>4. CASE p = "server"
    <3>1. \A i \in 1..Len(<<>>) : <<>>[i].type = "CreateChannel"
      OBVIOUS
    <3> QED BY <1>5, <2>1, <2>4, <3>1
  <2> QED BY <2>3, <2>4 DEF Peer
<1>12. CloseOnItsWay'
  <2> SUFFICES ASSUME NEW p \in Peer, NEW id \in Id PROVE CloseLink(p, id)'
    BY DEF CloseOnItsWay
  <2>1. PICK t \in Seq(Message) : Outbox(p)' = Outbox(p) \o t
    BY <1>b
  <2>2. CloseLink(p, id)
    BY DEF OrderInv, CloseOnItsWay
  <2> QED BY <1>0, <1>1, <1>3, <1>a, <2>1, <2>2, CloseKept DEF Sending, Listening
<1>13. DataInOrder'
  <2> SUFFICES ASSUME NEW p \in Peer, NEW id \in Id PROVE DataLink(p, id)'
    BY DEF DataInOrder
  <2>1. PICK t \in Seq(Message) : /\ Outbox(p)' = Outbox(p) \o t
                                  /\ \A i \in 1..Len(t) : t[i].type = "CreateChannel"
    BY <1>b
  <2>2. DataLink(p, id)
    BY DEF OrderInv, DataInOrder
  <2>3. Written(p, id)' = Written(p, id)
    BY <1>3, <1>5 DEF Written, Stored
  <2>4. sent[p][id] <= sent'[p][id] /\ got'[Other(p)][id] = got[Other(p)][id]
    BY <1>0, <1>3 DEF TypeOK
  <2>5. CASE p = "client" /\ id = new
    <3> DEFINE g == Len(got["server"][id])  v == Numbers(Outbox(p) \o t, id)
    <3>1. /\ sent["client"][id] = 0 /\ Stored("client", id) = 0
          /\ Len(got["server"][id]) <= 0 /\ g \in Nat
      <4>1. new > nextId["client"]
        BY <1>1
      <4> QED BY <1>0, <1>1, <2>5, <4>1, OutboxTypes DEF OrderInv, Unborn
    <3>2. g = 0 /\ sent'["client"][id] = 0 /\ Written(p, id)' = 0 /\ got'["server"][id] = got["server"][id]
      BY <1>3, <2>3, <2>5, <3>1 DEF Written
    <3>3. \A i \in 1..Len(Outbox(p) \o t) : v[i] = 0
      <4> SUFFICES ASSUME NEW i \in 1..Len(Outbox(p) \o t), (Outbox(p) \o t)[i].type = "Data", (Outbox(p) \o t)[i].id = id
                   PROVE FALSE
        BY DEF Numbers
      <4>1. i \in 1..Len(Outbox(p)) /\ (Outbox(p) \o t)[i] = Outbox(p)[i]
        <5>1. CASE i - Len(Outbox(p)) \in 1..Len(t) /\ (Outbox(p) \o t)[i] = t[i - Len(Outbox(p))]
          BY <2>1, <5>1
        <5> QED BY <1>1, <5>1, InConcat
      <4>2. Outbox(p)[i].id <= nextId[p]
        BY <4>1 DEF OrderInv, Outgoing, OutgoingLink, Sendable
      <4> QED BY <1>1, <2>5, <4>1, <4>2
    <3>4. v \in [1..Len(Outbox(p) \o t) -> Nat]
      BY <1>1, InConcat, NumbersTypes
    <3> HIDE DEF v, g
    <3>5. CountsUp(v, 0) /\ AtMost(v, 0) /\ UpTo(v, 0, 0)
      BY <3>3, <3>4 DEF CountsUp, AtMost, UpTo
    <3> QED BY <1>1, <2>1, <2>5, <3>2, <3>5 DEF DataLink, v, g
  <2>6. CASE ~(p = "client" /\ id = new)
    <3>1. id \in channels'[p] <=> id \in channels[p]
      BY <1>6, <2>6 DEF Peer
    <3> QED BY <1>0, <1>1, <1>3, <1>a, <2>1, <2>2, <2>3, <2>4, <3>1, DataKept DEF Sending, Listening
  <2> QED BY <2>5, <2>6
<1>14. QueuedAreCreated'
  <2>1. microtasks["client"] \in Seq({EmptyCheck} \cup Id) /\ opening \subseteq Id
    BY <1>0, <1>1 DEF TypeOK
  <2>2. nextId["client"] <= new
    BY <1>1
  <2>3. \A id \in opening : id <= new
    BY <1>1, <2>1, <2>2 DEF OrderInv, QueuedAreCreated, Id
  <2>4. \A i \in 1..Len(microtasks["client"]) : microtasks["client"][i] \in Nat /\ microtasks["client"][i] <= new
    <3>1. \A i \in 1..Len(microtasks["client"]) : microtasks["client"][i] \in Nat
      BY <2>1, ElementOfSeq DEF EmptyCheck, Id
    <3> QED BY <1>1, <2>2, <3>1 DEF OrderInv, QueuedAreCreated
  <2>5. CASE microtasks' = microtasks
    BY <1>3, <1>6, <2>3, <2>4, <2>5 DEF QueuedAreCreated
  <2>6. CASE microtasks'["client"] = Append(microtasks["client"], new)
    <3> DEFINE M == microtasks["client"]
    <3>1. /\ Len(Append(M, new)) = Len(M) + 1 /\ Len(M) \in Nat
          /\ \A i \in 1..Len(M) : Append(M, new)[i] = M[i]
          /\ Append(M, new)[Len(M) + 1] = new
      BY <1>2, <2>1, AppendProperties, LenProperties
    <3>2. \A i \in 1..Len(Append(M, new)) : i \in 1..Len(M) \/ i = Len(M) + 1
      BY <3>1
    <3>3. \A i \in 1..Len(Append(M, new)) : Append(M, new)[i] <= new
      BY <1>1, <2>4, <3>1, <3>2
    <3> QED BY <1>3, <1>6, <2>3, <2>6, <3>3 DEF QueuedAreCreated
  <2> QED BY <1>0, <1>1, <1>3, <2>5, <2>6 DEF OpenLater, TypeOK
<1> QED BY <1>0, <1>7, <1>8, <1>9, <1>10, <1>11, <1>12, <1>13, <1>14 DEF OrderInv

(* send keeps the invariant: the message continues the row of its channel, in *)
(* the outbox or in the storage of the channel.                               *)
LEMMA SendOrder ==
  ASSUME OrderInv, NEW o \in Peer, NEW c \in Id, send(o, c) PROVE OrderInv'
<1> DEFINE m == DataMsg(c, sent[o][c] + 1)
<1>0. Inv' /\ TypeOK /\ TypeOK' /\ SocketStates
  BY SendInv DEF OrderInv, Inv
<1>1. /\ "client" \in Peer /\ "server" \in Peer /\ Root \notin Id
      /\ \A p \in Peer : Other(p) \in Peer /\ Other(p) # p
      /\ Other("client") = "server" /\ Other("server") = "client"
      /\ \A p \in Peer : nextId[p] \in Nat
      /\ \A p \in Peer : Outbox(p) \in Seq(Message)
      /\ \A p \in Peer, id \in Id : sent[p][id] \in Nat
      /\ \A id \in Id : storage[id] \in Seq(Message) /\ Len(storage[id]) \in Nat
  BY <1>0, OutboxTypes
<1>2. m \in Message /\ m.type = "Data" /\ m.id = c /\ m.n = sent[o][c] + 1
  BY <1>1, MessageTypes DEF DataMsg
<1>3. /\ sent' = [sent EXCEPT ![o][c] = @ + 1]
      /\ UNCHANGED <<ws, readyState, channels, nextId, emptyTimerScheduled, microtasks, opening, got>>
      /\ \/ SendsNow(o, c) /\ SocketSend(o, <<m>>) /\ UNCHANGED storage
         \/ /\ readyState[o][c] = "CONNECTING"
            /\ storage' = [storage EXCEPT ![c] = Append(@, m)]
            /\ UNCHANGED wire
  BY DEF send
<1> HIDE DEF m
<1>4. c <= nextId[o]
  <2>1. readyState[o][c] # "none"
    BY <1>3 DEF SendsNow
  <2>2. ~(c > nextId[o])
    BY <2>1 DEF OrderInv, Unborn
  <2>3. c \in Nat /\ nextId[o] \in Nat
    BY <1>1 DEF Id
  <2> QED BY <2>2, <2>3
<1>5. \A p \in Peer, id \in Id :
        sent'[p][id] = IF p = o /\ id = c THEN sent[p][id] + 1 ELSE sent[p][id]
  <2>1. sent \in [Peer -> [Id -> Nat]]
    BY <1>0 DEF TypeOK
  <2>2. sent' = [sent EXCEPT ![o][c] = sent[o][c] + 1]
    BY <1>3
  <2> QED BY <2>1, <2>2
<1>6. CASE SendsNow(o, c) /\ SocketSend(o, <<m>>) /\ UNCHANGED storage
  <2> DEFINE s == IF Sending(o) THEN <<m>> ELSE <<>>
  <2>1. ws[o] # "CONNECTING"
    BY <1>0, <1>6 DEF SendsNow, SocketStates, Peer
  <2>2. <<m>> \in Seq(Message) /\ s \in Seq(Message) /\ \A i \in 1..Len(s) : s[i] = m
    BY <1>2, EmptySeq
  <2>3. Outbox(o)' = Outbox(o) \o s /\ Outbox(Other(o))' = Outbox(Other(o))
    BY <1>0, <1>3, <1>6, <2>1, <2>2, SocketSendOutbox
  <2>4. \A p \in Peer, id \in Id : Stored(p, id)' = Stored(p, id)
    BY <1>6 DEF Stored
  <2>5. o = "client" /\ c \in channels[o] => storage[c] = <<>>
    BY <1>6 DEF SendsNow, OrderInv, StoredInOrder
  <2>6. s = <<>> \/ Sending(o)
    OBVIOUS
  <2> HIDE DEF s
  <2>7. SocketStates'
    BY <1>0, <1>1, <1>3, <1>6, <2>1 DEF SocketStates, SocketSend, TypeOK, Peer
  <2>8. Unborn'
    <3> SUFFICES ASSUME NEW p \in Peer, NEW id \in Id
                 PROVE  /\ Len(got[Other(p)][id]) <= sent'[p][id]
                        /\ id > nextId[p] => readyState[p][id] = "none" /\ sent'[p][id] = 0
                                              /\ got[p][id] = <<>> /\ Stored(p, id)' = 0
      BY <1>3 DEF OrderInv, Unborn
    <3>1. Len(got[Other(p)][id]) \in Nat /\ c \in Nat /\ id \in Nat
      BY <1>0, <1>1, OutboxTypes, SMTT(20) DEF Id
    <3>2. Len(got[Other(p)][id]) <= sent[p][id] /\ sent[p][id] <= sent'[p][id] /\ sent'[p][id] \in Nat
      BY <1>1, <1>5, SMTT(20) DEF OrderInv, Unborn
    <3>3. ASSUME id > nextId[p] PROVE sent'[p][id] = sent[p][id]
      BY <1>1, <1>4, <1>5, <3>1, <3>3
    <3>4. Len(got[Other(p)][id]) <= sent'[p][id]
      BY <1>1, <3>1, <3>2
    <3> QED BY <2>4, <3>3, <3>4 DEF OrderInv, Unborn
  <2>9. StoredInOrder'
    <3> SUFFICES ASSUME NEW id \in channels["client"]
                 PROVE  /\ Len(storage[id]) <= sent'["client"][id]
                        /\ \A i \in 1..Len(storage[id]) :
                             storage[id][i] = DataMsg(id, Written("client", id)' + i)
                        /\ readyState["client"][id] = "OPEN" => storage[id] = <<>>
      BY <1>3, <1>6 DEF StoredInOrder
    <3>1. id \in Id
      BY <1>0, <1>1 DEF TypeOK
    <3>2. CASE o = "client" /\ id = c
      BY <1>1, <1>5, <2>5, <3>2
    <3>3. CASE ~(o = "client" /\ id = c)
      <4>1. sent'["client"][id] = sent["client"][id] /\ Written("client", id)' = Written("client", id)
        BY <1>1, <1>5, <2>4, <3>1, <3>3 DEF Written
      <4> QED BY <4>1 DEF OrderInv, StoredInOrder
    <3> QED BY <3>2, <3>3
  <2>10. Outgoing'
    <3>1. OutgoingLink(o)'
      <4>1. \A i \in 1..Len(s) : Sendable(o, s[i], nextId'[o], channels'[o])
        <5>1. m.n # 0
          BY <1>1, <1>2
        <5> QED BY <1>2, <1>3, <1>4, <2>2, <5>1 DEF Sendable
      <4>2. OutgoingLink(o) /\ nextId[o] <= nextId'[o] /\ nextId'[o] \in Nat /\ channels' = channels
        BY <1>1, <1>3 DEF OrderInv, Outgoing
      <4> QED BY <1>0, <2>2, <2>3, <4>1, <4>2, OutgoingKept
    <3>2. OutgoingLink(Other(o))'
      BY <1>1, <1>3, <2>3 DEF OrderInv, Outgoing, OutgoingLink
    <3> QED BY <3>1, <3>2 DEF Outgoing, Peer, Other
  <2>11. \A p \in Peer : \E t \in Seq(Message) :
           /\ Outbox(p)' = Outbox(p) \o t
           /\ \A i \in 1..Len(t) : t[i] = m /\ p = o
           /\ t = <<>> \/ Sending(p)
    <3> SUFFICES ASSUME NEW p \in Peer PROVE \E t \in Seq(Message) :
           /\ Outbox(p)' = Outbox(p) \o t
           /\ \A i \in 1..Len(t) : t[i] = m /\ p = o
           /\ t = <<>> \/ Sending(p)
      OBVIOUS
    <3>1. CASE p = o
      BY <2>2, <2>3, <2>6, <3>1
    <3>2. CASE p = Other(o)
      <4>1. /\ <<>> \in Seq(Message) /\ Outbox(p)' = Outbox(p) \o <<>>
            /\ \A i \in 1..Len(<<>>) : <<>>[i] = m /\ p = o
        BY <1>1, <2>3, <3>2, ConcatEmptySeq, EmptySeq
      <4> QED BY <4>1
    <3> QED BY <3>1, <3>2 DEF Peer, Other
  <2>12. CreatesInOrder'
    <3>1. PICK t \in Seq(Message) :
           /\ Outbox("client")' = Outbox("client") \o t
           /\ \A i \in 1..Len(t) : t[i] = m /\ "client" = o
           /\ t = <<>> \/ Sending("client")
      BY <1>1, <2>11
    <3>2. \A i \in 1..Len(t) : t[i].type # "CreateChannel" /\ t[i].id <= nextId["client"]
      BY <1>2, <1>4, <3>1
    <3> QED BY <1>0, <1>3, <3>1, <3>2, CreatesKept DEF OrderInv, Sending, Listening
  <2>13. CloseOnItsWay'
    <3> SUFFICES ASSUME NEW p \in Peer, NEW id \in Id PROVE CloseLink(p, id)'
      BY DEF CloseOnItsWay
    <3>1. PICK t \in Seq(Message) : Outbox(p)' = Outbox(p) \o t
      BY <2>11
    <3>2. CloseLink(p, id)
      BY DEF OrderInv, CloseOnItsWay
    <3> QED BY <1>0, <1>1, <1>3, <3>1, <3>2, CloseKept DEF Sending, Listening, Gone
  <2>14. DataInOrder'
    <3> SUFFICES ASSUME NEW p \in Peer, NEW id \in Id PROVE DataLink(p, id)'
      BY DEF DataInOrder
    <3>2. DataLink(p, id) /\ CloseLink(p, id)
      BY DEF OrderInv, DataInOrder, CloseOnItsWay
    <3>3. CASE p = o /\ id = c /\ Sending(o) /\ c \in channels[o]
      <4> DEFINE q == Other(p)  W == Outbox(p)  g == Len(got[q][id])  w == sent[o][c]
      <4>1. SUFFICES ASSUME Listening(q)', id \notin Gone(q)'
            PROVE  /\ CountsUp(Numbers(W \o s, id), g)
                   /\ AtMost(Numbers(W \o s, id), w + 1)
                   /\ UpTo(Numbers(W \o s, id), g, Written(p, id)')
        BY <1>3, <1>5, <2>3, <3>3 DEF DataLink
      <4>2. Written(p, id) = w /\ Written(p, id)' = w + 1
        <5>1. Stored(p, id) = 0
          BY <2>5, <3>3 DEF Stored
        <5> QED BY <1>1, <1>5, <2>4, <3>3, <5>1 DEF Written
      <4>3. CountsUp(Numbers(W, id), g) /\ UpTo(Numbers(W, id), g, w)
        BY <1>3, <3>2, <3>3, <4>1, <4>2 DEF DataLink, Listening, Gone
      <4>4. \A i \in 1..Len(W) : W[i] # CloseChannelMsg(id)
        BY <3>3 DEF OrderInv, Outgoing, OutgoingLink, Sendable, CloseChannelMsg
      <4>5. /\ \A i \in 1..Len(s) : s[i] = DataMsg(id, w + i)
            /\ Len(s) = 1
        BY <3>3 DEF s, m
      <4>6. W \in Seq(Message) /\ w \in Nat /\ g \in Nat
        BY <1>0, <1>1, OutboxTypes
      <4> HIDE DEF W, w, g
      <4>7. CountsUp(Numbers(W \o s, id), g) /\ UpTo(Numbers(W \o s, id), g, w + 1)
        BY <2>2, <4>3, <4>4, <4>5, <4>6, DataExtended
      <4>8. AtMost(Numbers(W \o s, id), w + 1)
        BY <4>7 DEF UpTo, AtMost
      <4> QED BY <4>2, <4>7, <4>8
    <3>4. CASE ~(p = o /\ id = c /\ Sending(o) /\ c \in channels[o])
      <4>1. PICK t \in Seq(Message) : /\ Outbox(p)' = Outbox(p) \o t
                                      /\ \A i \in 1..Len(t) : t[i] = m /\ p = o
                                      /\ t = <<>> \/ Sending(p)
        BY <2>11
      <4>2. \/ \E i \in 1..Len(Outbox(p)) : Outbox(p)[i] = CloseChannelMsg(id)
            \/ id \in Gone(Other(p))'
            \/ ~Listening(Other(p))'
            \/ \A i \in 1..Len(t) : ~(t[i].type = "Data" /\ t[i].id = id)
        <5>1. CASE p = o /\ id = c /\ Sending(o)
          <6>1. id \in Gone(p)
            BY <1>1, <1>4, <3>4, <5>1 DEF Gone, Id
          <6>2. (id \in Gone(Other(p)) <=> id \in Gone(Other(p))') /\ (Listening(Other(p)) <=> Listening(Other(p))')
            BY <1>3 DEF Gone, Listening
          <6> QED BY <3>2, <5>1, <6>1, <6>2 DEF CloseLink
        <5>2. CASE ~(p = o /\ id = c /\ Sending(o))
          BY <1>2, <4>1, <5>2
        <5> QED BY <5>1, <5>2
      <4>3. Sending(p)' /\ id \in channels'[p] =>
              Sending(p) /\ id \in channels[p] /\ Written(p, id)' = Written(p, id)
        <5> SUFFICES ASSUME Sending(p)', id \in channels'[p]
                     PROVE Sending(p) /\ id \in channels[p] /\ Written(p, id)' = Written(p, id)
          OBVIOUS
        <5>1. Sending(p) /\ id \in channels[p]
          BY <1>3 DEF Sending
        <5>2. sent'[p][id] = sent[p][id]
          BY <1>5, <3>4, <5>1
        <5> QED BY <2>4, <5>1, <5>2 DEF Written
      <4>4. /\ got'[Other(p)][id] = got[Other(p)][id] /\ sent[p][id] <= sent'[p][id]
            /\ (Listening(Other(p))' => Listening(Other(p)))
            /\ (id \in Gone(Other(p)) => id \in Gone(Other(p))')
        BY <1>1, <1>3, <1>5 DEF Listening, Gone
      <4> QED BY <1>0, <3>2, <4>1, <4>2, <4>3, <4>4, DataKept
    <3> QED BY <3>3, <3>4
  <2>15. QueuedAreCreated'
    BY <1>3 DEF OrderInv, QueuedAreCreated
  <2> QED BY <1>0, <2>7, <2>8, <2>9, <2>10, <2>12, <2>13, <2>14, <2>15 DEF OrderInv
<1>7. CASE /\ readyState[o][c] = "CONNECTING"
           /\ storage' = [storage EXCEPT ![c] = Append(@, m)]
           /\ UNCHANGED wire
  <2>1. o = "client"
    BY <1>7 DEF OrderInv, SocketStates, Peer
  <2>2. \A p \in Peer : Outbox(p)' = Outbox(p) \o <<>>
    <3>1. storage'[Root] = storage[Root]
      BY <1>0, <1>1, <1>7 DEF TypeOK
    <3>2. \A p \in Peer : Outbox(p)' = Outbox(p)
      BY <1>3, <1>7, <3>1 DEF Outbox
    <3> QED BY <1>1, <3>2, ConcatEmptySeq
  <2>3. <<>> \in Seq(Message) /\ Len(<<>>) = 0 /\ 1..0 = {}
    BY EmptySeq
  <2>4. /\ \A id \in Id : storage'[id] = IF id = c THEN Append(storage[c], m) ELSE storage[id]
        /\ Len(storage'[c]) = Len(storage[c]) + 1
        /\ \A i \in 1..Len(storage[c]) : storage'[c][i] = storage[c][i]
        /\ storage'[c][Len(storage[c]) + 1] = m
    BY <1>0, <1>1, <1>2, <1>7, AppendProperties DEF TypeOK
  <2>5. \A p \in Peer, id \in Id : Written(p, id)' = Written(p, id)
    <3> SUFFICES ASSUME NEW p \in Peer, NEW id \in Id PROVE Written(p, id)' = Written(p, id)
      OBVIOUS
    <3>1. CASE p = o /\ id = c
      <4>1. sent'[p][id] = sent[p][id] + 1 /\ Stored(p, id)' = Stored(p, id) + 1 /\ Stored(p, id) \in Nat
        BY <1>1, <1>5, <2>1, <2>4, <3>1 DEF Stored
      <4>2. \A a, b \in Nat : (a + 1) - (b + 1) = a - b
        OBVIOUS
      <4> QED BY <1>1, <4>1, <4>2, ZenonT(30) DEF Written
    <3>2. CASE ~(p = o /\ id = c)
      BY <1>1, <1>5, <2>1, <2>4, <3>2 DEF Written, Stored
    <3> QED BY <3>1, <3>2
  <2>6. SocketStates'
    BY <1>0, <1>3, <1>7 DEF SocketStates
  <2>7. Unborn'
    BY <1>1, <1>3, <1>4, <1>5, <2>1, <2>4, SMTT(20) DEF OrderInv, Unborn, Stored
  <2>8. StoredInOrder'
    <3> SUFFICES ASSUME NEW id \in channels["client"]
                 PROVE  /\ Len(storage'[id]) <= sent'["client"][id]
                        /\ \A i \in 1..Len(storage'[id]) :
                             storage'[id][i] = DataMsg(id, Written("client", id)' + i)
                        /\ readyState["client"][id] = "OPEN" => storage'[id] = <<>>
      BY <1>3, <1>7 DEF StoredInOrder
    <3>1. id \in Id
      BY <1>0, <1>1 DEF TypeOK
    <3>2. /\ Len(storage[id]) <= sent["client"][id]
          /\ \A i \in 1..Len(storage[id]) : storage[id][i] = DataMsg(id, Written("client", id) + i)
          /\ readyState["client"][id] = "OPEN" => storage[id] = <<>>
      BY DEF OrderInv, StoredInOrder
    <3>3. CASE id = c
      <4>1. \A i \in 1..Len(storage'[id]) : i \in 1..Len(storage[id]) \/ i = Len(storage[id]) + 1
        BY <1>1, <2>4, <3>3
      <4>2. m = DataMsg(id, Written("client", id) + (Len(storage[id]) + 1))
        <5>1. Written("client", id) + (Len(storage[id]) + 1) = sent[o][c] + 1
          BY <1>1, <2>1, <3>3 DEF Written, Stored
        <5> QED BY <3>3, <5>1 DEF m
      <4>3. \A i \in 1..Len(storage'[id]) : storage'[id][i] = DataMsg(id, Written("client", id)' + i)
        BY <1>1, <2>4, <2>5, <3>1, <3>2, <3>3, <4>1, <4>2
      <4> QED BY <1>1, <1>5, <1>7, <2>1, <2>4, <3>2, <3>3, <4>3
    <3>4. CASE id # c
      BY <1>1, <1>5, <2>4, <2>5, <3>1, <3>2, <3>4
    <3> QED BY <3>3, <3>4
  <2>9. Outgoing'
    <3>1. \A p \in Peer : Outbox(p)' = Outbox(p)
      BY <1>1, <2>2, ConcatEmptySeq
    <3> QED BY <1>3, <3>1 DEF OrderInv, Outgoing, OutgoingLink
  <2>10. CreatesInOrder'
    BY <1>0, <1>1, <1>3, <2>2, <2>3, CreatesKept DEF OrderInv, Sending, Listening
  <2>11. CloseOnItsWay'
    <3> SUFFICES ASSUME NEW p \in Peer, NEW id \in Id PROVE CloseLink(p, id)'
      BY DEF CloseOnItsWay
    <3>2. CloseLink(p, id)
      BY DEF OrderInv, CloseOnItsWay
    <3> QED BY <1>0, <1>1, <1>3, <2>2, <2>3, <3>2, CloseKept DEF Sending, Listening, Gone
  <2>12. DataInOrder'
    <3> SUFFICES ASSUME NEW p \in Peer, NEW id \in Id PROVE DataLink(p, id)'
      BY DEF DataInOrder
    <3>1. DataLink(p, id)
      BY DEF OrderInv, DataInOrder
    <3>2. \A i \in 1..Len(<<>>) : ~(<<>>[i].type = "Data" /\ <<>>[i].id = id)
      OBVIOUS
    <3>3. /\ got'[Other(p)][id] = got[Other(p)][id] /\ sent[p][id] <= sent'[p][id]
          /\ (Listening(Other(p))' => Listening(Other(p)))
          /\ (id \in Gone(Other(p)) => id \in Gone(Other(p))')
          /\ Sending(p)' /\ id \in channels'[p] =>
               Sending(p) /\ id \in channels[p] /\ Written(p, id)' = Written(p, id)
      BY <1>1, <1>3, <1>5, <2>5 DEF Listening, Gone, Sending
    <3> QED BY <1>0, <2>2, <2>3, <3>1, <3>2, <3>3, DataKept
  <2>13. QueuedAreCreated'
    BY <1>3 DEF OrderInv, QueuedAreCreated
  <2> QED BY <1>0, <2>6, <2>7, <2>8, <2>9, <2>10, <2>11, <2>12, <2>13 DEF OrderInv
<1> QED BY <1>3, <1>6, <1>7

(* A sequence of at most one message. *)
LEMMA AppendMessages ==
  ASSUME NEW m \in Message, NEW b \in BOOLEAN
  PROVE  LET s == IF b THEN <<m>> ELSE <<>> IN
         s \in Seq(Message) /\ (\A i \in 1..Len(s) : s[i] = m) /\ (s = <<>> \/ b)
           /\ (b => 1 \in 1..Len(s))
<1>1. <<m>> \in Seq(Message) /\ <<>> \in Seq(Message) /\ Len(<<m>>) = 1 /\ Len(<<>>) = 0 /\ <<m>>[1] = m
  BY EmptySeq
<1>2. \A i \in 1..1 : i = 1
  OBVIOUS
<1> QED BY <1>1, <1>2

(* scheduleEmptyEvent queues nothing but a check for 'empty'. *)
LEMMA ScheduleQuiet ==
  ASSUME TypeOK, NEW p \in Peer, scheduleEmptyEvent(p) \/ UNCHANGED microtasks, NEW r \in Peer
  PROVE  /\ (\A i \in 1..Len(microtasks[r]) : microtasks[r][i] = EmptyCheck) =>
              (\A i \in 1..Len(microtasks'[r]) : microtasks'[r][i] = EmptyCheck)
         /\ \A n \in Nat : (\A i \in 1..Len(microtasks[r]) : microtasks[r][i] <= n) =>
              (\A i \in 1..Len(microtasks'[r]) : microtasks'[r][i] <= n)
<1>1. microtasks'[r] = microtasks[r] \/ microtasks'[r] = Append(microtasks[r], EmptyCheck)
  BY DEF scheduleEmptyEvent, TypeOK
<1>2. CASE microtasks'[r] = Append(microtasks[r], EmptyCheck)
  <2> DEFINE M == microtasks[r]
  <2>0. M \in Seq({EmptyCheck} \cup Id) /\ EmptyCheck \in {EmptyCheck} \cup Id
    BY DEF TypeOK
  <2>1. /\ Len(Append(M, EmptyCheck)) = Len(M) + 1 /\ Len(M) \in Nat
        /\ \A i \in 1..Len(M) : Append(M, EmptyCheck)[i] = M[i]
        /\ Append(M, EmptyCheck)[Len(M) + 1] = EmptyCheck
    BY <2>0, AppendProperties, LenProperties
  <2>2. \A i \in 1..Len(Append(M, EmptyCheck)) : i \in 1..Len(M) \/ i = Len(M) + 1
    BY <2>1
  <2>3. \A n \in Nat : EmptyCheck <= n
    BY DEF EmptyCheck
  <2> QED BY <1>2, <2>1, <2>2, <2>3
<1> QED BY <1>1, <1>2

(* close keeps the invariant: its CloseChannel goes out after all data of the *)
(* channel that was written.                                                  *)
LEMMA CloseOrder ==
  ASSUME OrderInv, NEW o \in Peer, NEW c \in Id, close(o, c) PROVE OrderInv'
<1> DEFINE m == CloseChannelMsg(c)
           s == IF Sending(o) THEN <<m>> ELSE <<>>
<1>0. Inv' /\ TypeOK /\ TypeOK' /\ SocketStates
  BY CloseInv DEF OrderInv, Inv
<1>1. /\ "client" \in Peer /\ "server" \in Peer /\ Root \notin Id
      /\ \A p \in Peer : Other(p) \in Peer /\ Other(p) # p
      /\ Other("client") = "server" /\ Other("server") = "client"
      /\ \A p \in Peer : nextId[p] \in Nat
      /\ \A p \in Peer : Outbox(p) \in Seq(Message)
      /\ \A p \in Peer, id \in Id : sent[p][id] \in Nat
  BY <1>0, OutboxTypes
<1>2. m \in Message /\ m.type = "CloseChannel" /\ m.id = c
  BY MessageTypes DEF CloseChannelMsg
<1>3. /\ readyState[o][c] \in {"CONNECTING", "OPEN"}
      /\ readyState' = [readyState EXCEPT ![o][c] = "CLOSED"]
      /\ UNCHANGED <<ws, nextId, opening, sent, got>>
  BY DEF close
<1>4. c <= nextId[o] /\ c \in Nat
  BY <1>1, <1>3 DEF OrderInv, Unborn, Id
<1>5. \A p \in Peer, x \in {Root} \cup Id :
        readyState'[p][x] = IF p = o /\ x = c THEN "CLOSED" ELSE readyState[p][x]
  <2>1. readyState \in [Peer -> [{Root} \cup Id -> State \cup {"none"}]]
    BY <1>0 DEF TypeOK
  <2> QED
    BY <1>3, <2>1
<1>6. /\ readyState'["server"][Root] = readyState["server"][Root]
      /\ readyState'["client"][Root] = readyState["client"][Root]
      /\ \A id \in Id : readyState'["server"][id] \in {"CLOSED", readyState["server"][id]}
  BY <1>1, <1>5
<1>7. CASE readyState[o][Root] = "CLOSED"
  <2>1. UNCHANGED <<channels, emptyTimerScheduled, microtasks, wire, storage>>
    BY <1>7 DEF close
  <2>2. SocketStates'
    BY <1>0, <1>3, <1>6, <2>1 DEF SocketStates
  <2>3. Unborn'
    <3>1. \A p \in Peer, id \in Id : id > nextId[p] => readyState'[p][id] = readyState[p][id]
      BY <1>1, <1>4, <1>5, SMTT(20) DEF Id
    <3> QED BY <1>3, <2>1, <3>1 DEF OrderInv, Unborn, Stored
  <2>4. StoredInOrder'
    <3>1. \A id \in channels["client"] : readyState'["client"][id] = "OPEN" => readyState["client"][id] = "OPEN"
      BY <1>0, <1>1, <1>5 DEF TypeOK
    <3> QED BY <1>3, <2>1, <3>1 DEF OrderInv, StoredInOrder, Written, Stored
  <2>5. Outgoing' /\ CreatesInOrder' /\ CloseOnItsWay' /\ DataInOrder' /\ QueuedAreCreated'
    BY <1>3, <2>1 DEF OrderInv, Outgoing, OutgoingLink, CreatesInOrder, CloseOnItsWay, CloseLink,
         DataInOrder, DataLink, QueuedAreCreated, Outbox, Sending, Listening, Gone, Written, Stored
  <2> QED BY <1>0, <2>2, <2>3, <2>4, <2>5 DEF OrderInv
<1>8. CASE readyState[o][Root] # "CLOSED"
  <2>1. RootSend(o, m) /\ ForgetChannel(o, c)
    BY <1>8 DEF close, SendClose
  <2>2. /\ Outbox(o)' = Outbox(o) \o s
        /\ Outbox(Other(o))' = Outbox(Other(o))
        /\ \A id \in Id : storage'[id] = storage[id]
        /\ ws["client"] = "CONNECTING" => wire'["client"] = wire["client"]
    BY <1>0, <1>2, <1>3, <1>8, <2>1, RootSendOutbox
  <2>3. \A p \in Peer : channels'[p] = IF p = o THEN channels[p] \ {c} ELSE channels[p]
    BY <1>0, <2>1 DEF ForgetChannel, TypeOK
  <2>4. scheduleEmptyEvent(o) \/ UNCHANGED microtasks
    BY <2>1 DEF ForgetChannel
  <2>5. /\ s \in Seq(Message) /\ (\A i \in 1..Len(s) : s[i] = m) /\ (s = <<>> \/ Sending(o))
        /\ (Sending(o) => 1 \in 1..Len(s))
    BY <1>2, AppendMessages DEF Sending
  <2> HIDE DEF s, m
  <2>6. \A p \in Peer, id \in Id : Stored(p, id)' = Stored(p, id) /\ Written(p, id)' = Written(p, id)
    BY <1>3, <2>2 DEF Stored, Written
  <2>7. \A p \in Peer, id \in Id :
          /\ id \in Gone(p) => id \in Gone(p)'
          /\ id \in Gone(p)' => id \in Gone(p) \/ (p = o /\ id = c)
    BY <1>3, <2>3 DEF Gone
  <2>8. SocketStates'
    BY <1>0, <1>1, <1>3, <1>6, <2>2, <2>4, ScheduleQuiet DEF SocketStates
  <2>9. Unborn'
    <3>1. \A p \in Peer, id \in Id : id > nextId[p] => readyState'[p][id] = readyState[p][id]
      BY <1>1, <1>4, <1>5, SMTT(20) DEF Id
    <3> QED BY <1>3, <2>6, <3>1 DEF OrderInv, Unborn
  <2>10. StoredInOrder'
    <3> SUFFICES ASSUME NEW id \in channels'["client"]
                 PROVE  /\ Len(storage'[id]) <= sent'["client"][id]
                        /\ \A i \in 1..Len(storage'[id]) :
                             storage'[id][i] = DataMsg(id, Written("client", id)' + i)
                        /\ readyState'["client"][id] = "OPEN" => storage'[id] = <<>>
      BY DEF StoredInOrder
    <3>1. id \in channels["client"] /\ id \in Id
      BY <1>0, <1>1, <2>3 DEF TypeOK
    <3>2. readyState'["client"][id] = "OPEN" => readyState["client"][id] = "OPEN"
      BY <1>1, <1>5, <3>1
    <3> QED BY <1>1, <1>3, <2>2, <2>6, <3>1, <3>2 DEF OrderInv, StoredInOrder
  <2>11. \A p \in Peer : \E t \in Seq(Message) :
           /\ Outbox(p)' = Outbox(p) \o t
           /\ \A i \in 1..Len(t) : t[i] = m /\ p = o
           /\ t = <<>> \/ Sending(p)
           /\ p = o /\ Sending(p) => 1 \in 1..Len(t)
    <3> SUFFICES ASSUME NEW p \in Peer PROVE \E t \in Seq(Message) :
           /\ Outbox(p)' = Outbox(p) \o t
           /\ \A i \in 1..Len(t) : t[i] = m /\ p = o
           /\ t = <<>> \/ Sending(p)
           /\ p = o /\ Sending(p) => 1 \in 1..Len(t)
      OBVIOUS
    <3>1. CASE p = o
      BY <2>2, <2>5, <3>1
    <3>2. CASE p = Other(o)
      <4>1. /\ <<>> \in Seq(Message) /\ Outbox(p)' = Outbox(p) \o <<>>
            /\ \A i \in 1..Len(<<>>) : <<>>[i] = m /\ p = o
            /\ p # o
        BY <1>1, <2>2, <3>2, ConcatEmptySeq, EmptySeq
      <4> QED BY <4>1
    <3> QED BY <3>1, <3>2 DEF Peer, Other
  <2>12. Outgoing'
    <3> SUFFICES ASSUME NEW p \in Peer PROVE OutgoingLink(p)'
      BY DEF Outgoing
    <3>1. PICK t \in Seq(Message) : Outbox(p)' = Outbox(p) \o t /\ \A i \in 1..Len(t) : t[i] = m /\ p = o
      BY <2>11
    <3>2. \A i \in 1..Len(t) : Sendable(p, t[i], nextId'[p], channels'[p])
      BY <1>2, <1>3, <1>4, <2>3, <3>1 DEF Sendable
    <3>3. OutgoingLink(p) /\ nextId[p] <= nextId'[p] /\ nextId'[p] \in Nat
      BY <1>1, <1>3 DEF OrderInv, Outgoing
    <3>4. \A id \in 1..nextId[p] : id \notin channels[p] => id \notin channels'[p]
      BY <2>3
    <3> QED BY <1>0, <3>1, <3>2, <3>3, <3>4, OutgoingKept
  <2>13. CreatesInOrder'
    <3>1. PICK t \in Seq(Message) :
           /\ Outbox("client")' = Outbox("client") \o t
           /\ \A i \in 1..Len(t) : t[i] = m /\ "client" = o
           /\ t = <<>> \/ Sending("client")
      BY <1>1, <2>11
    <3>2. \A i \in 1..Len(t) : t[i].type # "CreateChannel" /\ t[i].id <= nextId["client"]
      BY <1>2, <1>4, <3>1
    <3> QED BY <1>0, <1>3, <3>1, <3>2, CreatesKept DEF OrderInv, Sending, Listening
  <2>14. CloseOnItsWay'
    <3> SUFFICES ASSUME NEW p \in Peer, NEW id \in Id PROVE CloseLink(p, id)'
      BY DEF CloseOnItsWay
    <3>1. PICK t \in Seq(Message) : /\ Outbox(p)' = Outbox(p) \o t
                                    /\ \A i \in 1..Len(t) : t[i] = m /\ p = o
                                    /\ p = o /\ Sending(p) => 1 \in 1..Len(t)
      BY <2>11
    <3>2. CloseLink(p, id)
      BY DEF OrderInv, CloseOnItsWay
    <3>3. /\ Sending(p)' => Sending(p)
          /\ Listening(Other(p))' => Listening(Other(p))
          /\ id \in Gone(Other(p)) => id \in Gone(Other(p))'
      BY <1>1, <1>3, <2>7 DEF Sending, Listening
    <3>4. \/ id \in Gone(p)' => id \in Gone(p)
          \/ ~Sending(p)'
          \/ \E i \in 1..Len(t) : t[i] = CloseChannelMsg(id)
      BY <2>7, <3>1, <3>3 DEF m
    <3> QED BY <1>0, <3>1, <3>2, <3>3, <3>4, CloseKept
  <2>15. DataInOrder'
    <3> SUFFICES ASSUME NEW p \in Peer, NEW id \in Id PROVE DataLink(p, id)'
      BY DEF DataInOrder
    <3>1. PICK t \in Seq(Message) : /\ Outbox(p)' = Outbox(p) \o t
                                    /\ \A i \in 1..Len(t) : t[i] = m /\ p = o
      BY <2>11
    <3>2. DataLink(p, id)
      BY DEF OrderInv, DataInOrder
    <3>3. \A i \in 1..Len(t) : ~(t[i].type = "Data" /\ t[i].id = id)
      BY <1>2, <3>1
    <3>4. /\ got'[Other(p)][id] = got[Other(p)][id] /\ sent[p][id] <= sent'[p][id]
          /\ (Listening(Other(p))' => Listening(Other(p)))
          /\ (id \in Gone(Other(p)) => id \in Gone(Other(p))')
          /\ Sending(p)' /\ id \in channels'[p] =>
               Sending(p) /\ id \in channels[p] /\ Written(p, id)' = Written(p, id)
      <4>1. got'[Other(p)][id] = got[Other(p)][id] /\ sent[p][id] <= sent'[p][id]
        BY <1>1, <1>3
      <4>2. (id \in Gone(Other(p)) => id \in Gone(Other(p))') /\ Written(p, id)' = Written(p, id)
        BY <1>1, <2>6, <2>7
      <4>3. id \in channels'[p] => id \in channels[p]
        BY <2>3
      <4>4. (Listening(Other(p))' => Listening(Other(p))) /\ (Sending(p)' => Sending(p))
        BY <1>3 DEF Listening, Sending
      <4> QED BY <4>1, <4>2, <4>3, <4>4
    <3> QED BY <1>0, <3>1, <3>2, <3>3, <3>4, DataKept
  <2>16. QueuedAreCreated'
    BY <1>0, <1>1, <1>3, <2>4, ScheduleQuiet DEF OrderInv, QueuedAreCreated
  <2> QED BY <1>0, <2>8, <2>9, <2>10, <2>12, <2>13, <2>14, <2>15, <2>16 DEF OrderInv
<1> QED BY <1>7, <1>8

-----------------------------------------------------------------------------
(*****************************************************************************)
(* The 'open' and 'close' events, and the promise callbacks.                 *)
(*****************************************************************************)

(* The 'open' event of channel c, which appends s to the outbox of the client. *)
Flush(c, s) ==
  /\ s \in Seq(Message)
  /\ s = IF c \in channels["client"] /\ Sending("client") THEN storage[c] ELSE <<>>
  /\ Outbox("client")' = Outbox("client") \o s
  /\ Outbox("server")' = Outbox("server")
  /\ \A x \in Id : storage'[x] = IF c \in channels["client"] /\ x = c THEN <<>> ELSE storage[x]
  /\ \A p \in Peer, x \in Id : \/ readyState'[p][x] = readyState[p][x]
                               \/ p = "client" /\ x = c /\ x <= nextId["client"]
  /\ \A p \in Peer : (Sending(p)' <=> Sending(p)) /\ (Listening(p)' <=> Listening(p))
  /\ UNCHANGED <<channels, nextId, sent, got>>

(* Emptying the storage of a channel into the outbox keeps the invariant. *)
LEMMA FlushOrder ==
  ASSUME OrderInv, Inv', SocketStates', QueuedAreCreated', NEW c, NEW s, Flush(c, s)
  PROVE  OrderInv'
<1> USE DEF Flush
<1> DEFINE live == c \in channels["client"]
<1>0. TypeOK /\ TypeOK' /\ SocketStates
  BY DEF OrderInv, Inv
<1>1. /\ "client" \in Peer /\ "server" \in Peer /\ Root \notin Id
      /\ \A p \in Peer : Other(p) \in Peer /\ Other(p) # p
      /\ Other("client") = "server" /\ Other("server") = "client"
      /\ \A p \in Peer : nextId[p] \in Nat
      /\ \A p \in Peer : Outbox(p) \in Seq(Message)
      /\ \A p \in Peer, id \in Id : sent[p][id] \in Nat
      /\ \A id \in Id : storage[id] \in Seq(Message) /\ Len(storage[id]) \in Nat
  BY <1>0, OutboxTypes
<1>2. live => c \in Id /\ c <= nextId["client"] /\ c \in Nat
  BY <1>0, <1>1 DEF OrderInv, Inv, TypeOK, KeysAllocated, Id
<1>3. \A p \in Peer, x \in Id : readyState'[p][x] = readyState[p][x] \/ (p = "client" /\ x = c)
  OBVIOUS
<1>4. \A x \in Id : storage'[x] = IF live /\ x = c THEN <<>> ELSE storage[x]
  OBVIOUS
<1>5. live => /\ Len(storage[c]) <= sent["client"][c]
              /\ \A i \in 1..Len(storage[c]) : storage[c][i] = DataMsg(c, Written("client", c) + i)
  BY DEF OrderInv, StoredInOrder
<1>6. \A i \in 1..Len(s) : /\ s[i] = DataMsg(c, Written("client", c) + i)
                           /\ s[i].type = "Data" /\ s[i].id = c /\ s[i].n # 0
  <2> SUFFICES ASSUME NEW i \in 1..Len(s)
               PROVE  /\ s[i] = DataMsg(c, Written("client", c) + i)
                      /\ s[i].type = "Data" /\ s[i].id = c /\ s[i].n # 0
    OBVIOUS
  <2>1. live /\ s = storage[c]
    BY EmptySeq
  <2>2. s[i] = DataMsg(c, Written("client", c) + i)
    BY <1>5, <2>1
  <2>3. Written("client", c) \in Nat
    BY <1>1, <1>2, <1>5, <2>1 DEF Written, Stored
  <2> QED BY <2>2, <2>3 DEF DataMsg
<1>7. s = <<>> \/ (live /\ Sending("client") /\ s = storage[c])
  OBVIOUS
<1>8. \A p \in Peer, id \in Id : p # "client" \/ id # c \/ ~live =>
        Stored(p, id)' = Stored(p, id) /\ Written(p, id)' = Written(p, id)
  <2> SUFFICES ASSUME NEW p \in Peer, NEW id \in Id, p # "client" \/ id # c \/ ~live
               PROVE  Stored(p, id)' = Stored(p, id) /\ Written(p, id)' = Written(p, id)
    OBVIOUS
  <2>1. Stored(p, id)' = Stored(p, id)
    BY <1>4 DEF Stored
  <2> QED BY <2>1 DEF Written
<1>9. live => Stored("client", c)' = 0 /\ Written("client", c)' = sent["client"][c]
  <2> SUFFICES ASSUME live PROVE Stored("client", c)' = 0 /\ Written("client", c)' = sent["client"][c]
    OBVIOUS
  <2>1. Stored("client", c)' = 0
    BY <1>2, <1>4 DEF Stored
  <2>2. \A a \in Nat : a - 0 = a
    OBVIOUS
  <2> QED BY <1>1, <1>2, <2>1, <2>2 DEF Written
<1>11. Unborn'
  <2> SUFFICES ASSUME NEW p \in Peer, NEW id \in Id, id > nextId[p]
               PROVE  readyState'[p][id] = readyState[p][id] /\ Stored(p, id)' = Stored(p, id)
    BY DEF OrderInv, Unborn
  <2>1. ~(id <= nextId[p])
    BY <1>1 DEF Id
  <2>2. live => p # "client" \/ id # c
    BY <1>2, <2>1
  <2> QED BY <1>3, <1>8, <2>1, <2>2
<1>12. StoredInOrder'
  <2> SUFFICES ASSUME NEW id \in channels["client"]
               PROVE  /\ Len(storage'[id]) <= sent["client"][id]
                      /\ \A i \in 1..Len(storage'[id]) :
                           storage'[id][i] = DataMsg(id, Written("client", id)' + i)
                      /\ readyState'["client"][id] = "OPEN" => storage'[id] = <<>>
    BY DEF StoredInOrder
  <2>1. id \in Id
    BY <1>0, <1>1 DEF TypeOK
  <2>2. CASE id = c
    <3>1. live => storage'[id] = <<>> /\ Len(<<>>) = 0
      BY <1>4, <2>1, <2>2
    <3> QED BY <1>1, <1>4, <2>1, <2>2, <3>1
  <2>3. CASE id # c
    <3>1. storage'[id] = storage[id] /\ readyState'["client"][id] = readyState["client"][id]
          /\ Written("client", id)' = Written("client", id)
      BY <1>1, <1>3, <1>4, <1>8, <2>1, <2>3
    <3> QED BY <3>1 DEF OrderInv, StoredInOrder
  <2> QED BY <2>2, <2>3
<1>13. \A p \in Peer : \E t \in Seq(Message) :
         /\ Outbox(p)' = Outbox(p) \o t
         /\ \A i \in 1..Len(t) : p = "client" /\ live /\ t[i].type = "Data" /\ t[i].id = c /\ t[i].n # 0
         /\ t = <<>> \/ (p = "client" /\ live /\ Sending(p))
  <2> SUFFICES ASSUME NEW p \in Peer PROVE \E t \in Seq(Message) :
         /\ Outbox(p)' = Outbox(p) \o t
         /\ \A i \in 1..Len(t) : p = "client" /\ live /\ t[i].type = "Data" /\ t[i].id = c /\ t[i].n # 0
         /\ t = <<>> \/ (p = "client" /\ live /\ Sending(p))
    OBVIOUS
  <2>1. CASE p = "client"
    <3>1. \A i \in 1..Len(s) : p = "client" /\ live /\ s[i].type = "Data" /\ s[i].id = c /\ s[i].n # 0
      <4>1. s = <<>> => 1..Len(s) = {}
        OBVIOUS
      <4> QED BY <1>6, <1>7, <2>1, <4>1
    <3> QED BY <1>7, <2>1, <3>1
  <2>2. CASE p = "server"
    <3>1. /\ <<>> \in Seq(Message) /\ Outbox(p)' = Outbox(p) \o <<>>
          /\ \A i \in 1..Len(<<>>) : p = "client" /\ live /\ <<>>[i].type = "Data" /\ <<>>[i].id = c /\ <<>>[i].n # 0
      BY <1>1, <2>2, ConcatEmptySeq, EmptySeq
    <3> QED BY <3>1
  <2> QED BY <2>1, <2>2 DEF Peer
<1>14. Outgoing'
  <2> SUFFICES ASSUME NEW p \in Peer PROVE OutgoingLink(p)'
    BY DEF Outgoing
  <2>1. PICK t \in Seq(Message) : /\ Outbox(p)' = Outbox(p) \o t
                                  /\ \A i \in 1..Len(t) : /\ p = "client" /\ live
                                                          /\ t[i].type = "Data" /\ t[i].id = c /\ t[i].n # 0
    BY <1>13
  <2>2. \A i \in 1..Len(t) : Sendable(p, t[i], nextId'[p], channels'[p])
    BY <1>2, <2>1 DEF Sendable
  <2>3. OutgoingLink(p) /\ nextId[p] <= nextId'[p] /\ nextId'[p] \in Nat /\ channels' = channels
    BY <1>1 DEF OrderInv, Outgoing
  <2> QED BY <1>0, <2>1, <2>2, <2>3, OutgoingKept
<1>15. CreatesInOrder'
  <2>1. PICK t \in Seq(Message) :
         /\ Outbox("client")' = Outbox("client") \o t
         /\ \A i \in 1..Len(t) : t[i].type = "Data" /\ t[i].id = c
         /\ t = <<>> \/ Sending("client")
    BY <1>1, <1>13
  <2>3. nextId["client"] \in Nat /\ UNCHANGED nextId
    BY <1>1
  <2>2. \A i \in 1..Len(t) : t[i].type # "CreateChannel" /\ t[i].id <= nextId["client"]
    BY <1>2, <2>1
  <2>4. CreatesInOrder /\ (Sending("client")' => Sending("client")) /\ (Listening("server")' => Listening("server"))
    BY <1>1 DEF OrderInv
  <2> QED BY <1>0, <2>1, <2>2, <2>3, <2>4, CreatesKept
<1>16. CloseOnItsWay'
  <2> SUFFICES ASSUME NEW p \in Peer, NEW id \in Id PROVE CloseLink(p, id)'
    BY DEF CloseOnItsWay
  <2>1. PICK t \in Seq(Message) : Outbox(p)' = Outbox(p) \o t
    BY <1>13
  <2>2. CloseLink(p, id)
    BY DEF OrderInv, CloseOnItsWay
  <2> QED BY <1>0, <1>1, <2>1, <2>2, CloseKept DEF Gone
<1>17. DataInOrder'
  <2> SUFFICES ASSUME NEW p \in Peer, NEW id \in Id PROVE DataLink(p, id)'
    BY DEF DataInOrder
  <2>1. DataLink(p, id)
    BY DEF OrderInv, DataInOrder
  <2>2. CASE p = "client" /\ id = c /\ live /\ Sending("client")
    <3> DEFINE q == Other(p)  W == Outbox(p)  g == Len(got[q][id])  w == Written("client", c)
    <3>1. SUFFICES ASSUME Listening(q)', id \notin Gone(q)'
          PROVE  /\ CountsUp(Numbers(W \o s, id), g)
                 /\ AtMost(Numbers(W \o s, id), sent["client"][c])
                 /\ UpTo(Numbers(W \o s, id), g, sent["client"][c])
      BY <1>4, <1>9, <2>2 DEF DataLink
    <3>2. CountsUp(Numbers(W, id), g) /\ UpTo(Numbers(W, id), g, w)
      BY <1>1, <2>1, <2>2, <3>1 DEF DataLink, Gone
    <3>3. s = storage[c] /\ w \in Nat /\ w + Len(storage[c]) = sent["client"][c]
      <4>1. s = storage[c]
        BY <2>2
      <4>2. Len(storage[c]) <= sent["client"][c] /\ Len(storage[c]) \in Nat /\ sent["client"][c] \in Nat
        BY <1>1, <1>5, <2>2
      <4>3. w = sent["client"][c] - Len(storage[c])
        BY DEF Written, Stored
      <4> HIDE DEF w
      <4> QED BY <4>1, <4>2, <4>3
    <3>4. \A i \in 1..Len(W) : W[i] # CloseChannelMsg(id)
      BY <2>2 DEF OrderInv, Outgoing, OutgoingLink, Sendable, CloseChannelMsg
    <3>5. \A i \in 1..Len(s) : s[i] = DataMsg(id, w + i)
      BY <1>6, <2>2
    <3>6. W \in Seq(Message) /\ g \in Nat
      BY <1>0, <1>1, OutboxTypes
    <3> HIDE DEF W, w, g
    <3>7. CountsUp(Numbers(W \o s, id), g) /\ UpTo(Numbers(W \o s, id), g, w + Len(s))
      BY <1>4, <3>2, <3>3, <3>4, <3>5, <3>6, DataExtended
    <3> QED BY <3>3, <3>7 DEF UpTo, AtMost
  <2>3. CASE ~(p = "client" /\ id = c /\ live /\ Sending("client"))
    <3>1. PICK t \in Seq(Message) :
         /\ Outbox(p)' = Outbox(p) \o t
         /\ \A i \in 1..Len(t) : p = "client" /\ live /\ t[i].type = "Data" /\ t[i].id = c /\ t[i].n # 0
         /\ t = <<>> \/ (p = "client" /\ live /\ Sending(p))
      BY <1>13
    <3>2. \A i \in 1..Len(t) : ~(t[i].type = "Data" /\ t[i].id = id)
      BY <2>3, <3>1
    <3>3. Sending(p)' /\ id \in channels'[p] =>
            Sending(p) /\ id \in channels[p] /\ Written(p, id)' = Written(p, id)
      BY <1>1, <1>8, <2>3
    <3>4. /\ got'[Other(p)][id] = got[Other(p)][id] /\ sent[p][id] <= sent'[p][id]
          /\ (Listening(Other(p))' => Listening(Other(p)))
          /\ (id \in Gone(Other(p)) => id \in Gone(Other(p))')
      BY <1>1 DEF Gone
    <3> QED BY <1>0, <2>1, <3>1, <3>2, <3>3, <3>4, DataKept
  <2> QED BY <2>2, <2>3
<1> QED BY <1>11, <1>12, <1>14, <1>15, <1>16, <1>17 DEF OrderInv

(* The 'open' event of a channel is such a flush. *)
LEMMA OpenChannelOrder ==
  ASSUME OrderInv, Inv', NEW c \in Id, OpenChannel(c), ws["client"] # "CONNECTING", c <= nextId["client"],
         UNCHANGED <<ws, channels, nextId, sent, got>>, QueuedAreCreated',
         \A i \in 1..Len(microtasks'["server"]) : microtasks'["server"][i] = EmptyCheck
  PROVE  OrderInv'
<1> DEFINE live == c \in channels["client"]
           s == IF live /\ Sending("client") THEN storage[c] ELSE <<>>
<1>0. TypeOK /\ SocketStates
  BY DEF OrderInv, Inv
<1>1. /\ "client" \in Peer /\ "server" \in Peer /\ Root \notin Id
      /\ Other("client") = "server" /\ Other("server") = "client"
      /\ \A p \in Peer : Outbox(p) \in Seq(Message)
      /\ \A id \in Id : storage[id] \in Seq(Message)
  BY <1>0, OutboxTypes
<1>2. \A p \in Peer, x \in {Root} \cup Id :
        readyState'[p][x] = IF p = "client" /\ x = c THEN "OPEN" ELSE readyState[p][x]
  <2>1. readyState \in [Peer -> [{Root} \cup Id -> State \cup {"none"}]]
    BY <1>0 DEF TypeOK
  <2>2. readyState' = [readyState EXCEPT !["client"][c] = "OPEN"]
    BY DEF OpenChannel
  <2> QED BY <1>1, <2>1, <2>2
<1>3. \A x \in {Root} \cup Id : storage'[x] = IF live /\ x = c THEN <<>> ELSE storage[x]
  BY <1>0 DEF OpenChannel, TypeOK
<1>4. /\ Outbox("client")' = Outbox("client") \o s /\ Outbox("server")' = Outbox("server")
      /\ s \in Seq(Message)
  <2>1. CASE live
    <3>1. SocketSend("client", storage[c])
      BY <2>1 DEF OpenChannel
    <3>2. Outbox("client")' = Outbox("client") \o (IF Sending("client") THEN storage[c] ELSE <<>>)
      BY <1>0, <1>1, <3>1, SocketSendOutbox
    <3>3. Outbox("server")' = Outbox("server")
      BY <1>0, <1>1, <3>1, SocketSendOutbox
    <3> QED BY <1>1, <2>1, <3>2, <3>3, EmptySeq
  <2>2. CASE ~live
    <3>1. \A p \in Peer : Outbox(p)' = Outbox(p)
      BY <2>2 DEF OpenChannel, Outbox
    <3> QED BY <1>1, <2>2, <3>1, ConcatEmptySeq, EmptySeq
  <2> QED BY <2>1, <2>2
<1>5. SocketStates'
  BY <1>0, <1>1, <1>2 DEF SocketStates
<1>6. \A p \in Peer : (Sending(p)' <=> Sending(p)) /\ (Listening(p)' <=> Listening(p))
  BY DEF Sending, Listening
<1>7. \A p \in Peer, x \in Id : \/ readyState'[p][x] = readyState[p][x]
                                \/ p = "client" /\ x = c /\ x <= nextId["client"]
  BY <1>2
<1>8. /\ s = IF c \in channels["client"] /\ Sending("client") THEN storage[c] ELSE <<>>
      /\ \A x \in Id : storage'[x] = IF c \in channels["client"] /\ x = c THEN <<>> ELSE storage[x]
  BY <1>3
<1>9. UNCHANGED <<channels, nextId, sent, got>>
  OBVIOUS
<1> HIDE DEF s, live
<1>10. Flush(c, s)
  BY <1>4, <1>6, <1>7, <1>8, <1>9, Zenon DEF Flush
<1> QED BY <1>5, <1>10, FlushOrder

(* 'open' of the WebSocket keeps the invariant: what the root stored goes out *)
(* before what the first channel stored.                                      *)
LEMMA SocketOpenOrder ==
  ASSUME OrderInv, SocketOpen PROVE OrderInv'
<1> DEFINE first == {id \in channels["client"] : \A o \in channels["client"] : id <= o}
           opened == {Root} \cup first
           c == IF first = {} THEN Root ELSE CHOOSE id \in first : TRUE
           s == IF first = {} THEN <<>> ELSE storage[c]
<1>0. Inv' /\ TypeOK /\ TypeOK' /\ SocketStates
  BY SocketOpenInv DEF OrderInv, Inv
<1>1. /\ "client" \in Peer /\ "server" \in Peer /\ Root \notin Id
      /\ \A p \in Peer : Outbox(p) \in Seq(Message) /\ nextId[p] \in Nat
      /\ \A id \in Id : storage[id] \in Seq(Message)
      /\ channels["client"] \subseteq Id /\ channels["client"] \subseteq 1..nextId["client"]
      /\ storage[Root] \in Seq(Message)
      /\ \A id \in Id : id \in Nat
  <2>1. /\ "client" \in Peer /\ "server" \in Peer /\ Root \notin Id
        /\ \A p \in Peer : Outbox(p) \in Seq(Message) /\ nextId[p] \in Nat
        /\ \A id \in Id : storage[id] \in Seq(Message)
    BY <1>0, OutboxTypes
  <2>2. channels["client"] \subseteq Id /\ channels["client"] \subseteq 1..nextId["client"]
    BY <1>0, <2>1 DEF OrderInv, Inv, KeysAllocated, TypeOK
  <2>3. storage[Root] \in Seq(Message) /\ \A id \in Id : id \in Nat
    BY <1>0 DEF TypeOK, Id
  <2> QED BY <2>1, <2>2, <2>3
<1>2. \A id \in first, o \in first : id = o
  BY <1>1
<1>3. /\ first = {} => c = Root
      /\ first # {} => c \in first /\ first = {c} /\ c \in channels["client"] /\ c \in Id
  BY <1>1, <1>2
<1>4. first = {} <=> c \notin channels["client"]
  BY <1>1, <1>3
<1>5. s \in Seq(Message)
  BY <1>1, <1>3, EmptySeq
<1>6. /\ ws["client"] = "CONNECTING"
      /\ ws' = [ws EXCEPT !["client"] = "OPEN"]
      /\ readyState' = [readyState EXCEPT !["client"] =
           [o \in {Root} \cup Id |-> IF o \in opened THEN "OPEN" ELSE @[o]]]
      /\ wire' = [wire EXCEPT !["client"] = @ \o storage[Root] \o s]
      /\ storage' = [o \in {Root} \cup Id |-> IF o \in opened THEN <<>> ELSE storage[o]]
      /\ opening' = channels["client"] \ first
      /\ UNCHANGED <<channels, nextId, emptyTimerScheduled, microtasks, sent, got>>
  BY Zenon DEF SocketOpen, first, opened, s, c
<1>7. opened = IF first = {} THEN {Root} ELSE {Root, c}
  BY <1>3
<1> HIDE DEF first, opened, s, c
<1>8. \A p \in Peer, x \in {Root} \cup Id :
        readyState'[p][x] = IF p = "client" /\ x \in opened THEN "OPEN" ELSE readyState[p][x]
  <2>1. readyState \in [Peer -> [{Root} \cup Id -> State \cup {"none"}]]
    BY <1>0 DEF TypeOK
  <2> QED BY <1>1, <1>6, <2>1
<1>9. \A x \in Id : storage'[x] = IF c \in channels["client"] /\ x = c THEN <<>> ELSE storage[x]
  BY <1>1, <1>4, <1>6, <1>7
<1>10. ws'["client"] = "OPEN" /\ ws'["server"] = ws["server"]
  BY <1>0, <1>1, <1>6 DEF TypeOK
<1>11. Sending("client")
  BY <1>6 DEF Sending
<1>12. s = IF c \in channels["client"] /\ Sending("client") THEN storage[c] ELSE <<>>
  BY <1>4, <1>11 DEF s
<1>13. Outbox("client")' = Outbox("client") \o s /\ Outbox("server")' = Outbox("server")
  <2>1. wire["client"] = <<>>
    BY <1>0, <1>6 DEF SocketStates
  <2>2. <<>> \o storage[Root] = storage[Root]
    BY <1>1, ConcatEmptySeq
  <2>3. wire'["client"] = storage[Root] \o s /\ wire'["server"] = wire["server"]
    BY <1>0, <1>1, <1>6, <2>1, <2>2 DEF TypeOK
  <2> QED BY <1>1, <1>6, <1>10, <2>3 DEF Outbox
<1>14. \A p \in Peer : (Sending(p)' <=> Sending(p)) /\ (Listening(p)' <=> Listening(p))
  BY <1>6, <1>10 DEF Sending, Listening, Peer
<1>15. \A p \in Peer, x \in Id : \/ readyState'[p][x] = readyState[p][x]
                                 \/ p = "client" /\ x = c /\ x <= nextId["client"]
  <2> SUFFICES ASSUME NEW p \in Peer, NEW x \in Id, readyState'[p][x] # readyState[p][x]
               PROVE  p = "client" /\ x = c /\ x <= nextId["client"]
    OBVIOUS
  <2>1. p = "client" /\ x \in opened
    BY <1>8
  <2>2. x = c /\ c \in channels["client"]
    BY <1>1, <1>4, <1>7, <2>1
  <2> QED BY <1>1, <2>1, <2>2
<1>16. SocketStates'
  <2>1. /\ readyState'["server"][Root] = readyState["server"][Root]
        /\ readyState'["client"][Root] = "OPEN"
        /\ \A id \in Id : readyState'["server"][id] = readyState["server"][id]
    BY <1>1, <1>7, <1>8
  <2> QED BY <1>0, <1>6, <1>10, <2>1 DEF SocketStates
<1>17. QueuedAreCreated'
  <2>1. \A id \in channels["client"] : id <= nextId["client"]
    BY <1>1
  <2> QED BY <1>6, <2>1 DEF OrderInv, QueuedAreCreated
<1>18. UNCHANGED <<channels, nextId, sent, got>>
  BY <1>6
<1>19. Inv'
  BY <1>0
<1>20. Flush(c, s)
  BY <1>5, <1>9, <1>12, <1>13, <1>14, <1>15, <1>18, Zenon DEF Flush
<1> QED BY <1>16, <1>17, <1>19, <1>20, FlushOrder

(* Taking a callback off the queue leaves the others. *)
LEMMA TailQuiet ==
  ASSUME TypeOK, NEW p \in Peer, microtasks[p] # <<>>, microtasks' = [microtasks EXCEPT ![p] = Tail(@)],
         NEW r \in Peer
  PROVE  /\ (\A i \in 1..Len(microtasks[r]) : microtasks[r][i] = EmptyCheck) =>
              (\A i \in 1..Len(microtasks'[r]) : microtasks'[r][i] = EmptyCheck)
         /\ \A n \in Nat : (\A i \in 1..Len(microtasks[r]) : microtasks[r][i] <= n) =>
              (\A i \in 1..Len(microtasks'[r]) : microtasks'[r][i] <= n)
         /\ 1 \in 1..Len(microtasks[p]) /\ Head(microtasks[p]) = microtasks[p][1]
<1> DEFINE M == microtasks[p]
<1>1. M \in Seq({EmptyCheck} \cup Id)
  BY DEF TypeOK
<1>2. /\ Len(M) \in Nat /\ Len(M) # 0 /\ Head(M) = M[1] /\ Len(Tail(M)) = Len(M) - 1
      /\ \A i \in 1..Len(Tail(M)) : Tail(M)[i] = M[i + 1]
  BY <1>1, HeadTailProperties, LenProperties, EmptySeq
<1>3. \A i \in 1..Len(Tail(M)) : i + 1 \in 1..Len(M) /\ Tail(M)[i] = M[i + 1]
  BY <1>2
<1>4. microtasks'[r] = IF r = p THEN Tail(M) ELSE microtasks[r]
  BY DEF TypeOK
<1> HIDE DEF M
<1>5. 1 \in 1..Len(M)
  BY <1>2
<1> QED BY <1>2, <1>3, <1>4, <1>5 DEF M

(* A WebSocket that is closed by ManagerClient keeps the invariant: nothing *)
(* more goes out.                                                           *)
LEMMA CloseSocketOrder ==
  ASSUME OrderInv, Inv', ws' = [ws EXCEPT !["client"] = "CLOSING"], ws["client"] # "CLOSED",
         UNCHANGED <<readyState, channels, nextId, storage, opening, wire, sent, got>>, QueuedAreCreated',
         \A i \in 1..Len(microtasks'["server"]) : microtasks'["server"][i] = EmptyCheck
  PROVE  OrderInv'
<1>0. TypeOK /\ TypeOK' /\ SocketStates
  BY DEF OrderInv, Inv
<1>1. /\ "client" \in Peer /\ "server" \in Peer
      /\ Other("client") = "server" /\ Other("server") = "client"
      /\ \A p \in Peer : Outbox(p) \in Seq(Message) /\ nextId[p] \in Nat
      /\ \A p \in Peer, id \in Id : Len(got[p][id]) \in Nat /\ sent[p][id] \in Nat
  BY <1>0, OutboxTypes
<1>2. ws'["client"] = "CLOSING" /\ ws'["server"] = ws["server"]
  BY <1>0, <1>1 DEF TypeOK
<1>3. /\ Outbox("server")' = Outbox("server")
      /\ Outbox("client")' = <<>> \/ Outbox("client")' = Outbox("client")
  BY <1>0, <1>2 DEF Outbox, SocketStates
<1>4. /\ ~Sending("client")' /\ (Sending("server")' <=> Sending("server"))
      /\ Listening("client")' /\ Listening("client") /\ (Listening("server")' <=> Listening("server"))
      /\ \A p \in Peer, id \in Id : Written(p, id)' = Written(p, id) /\ Stored(p, id)' = Stored(p, id)
      /\ \A p \in Peer : Gone(p)' = Gone(p)
  BY <1>2 DEF Sending, Listening, Written, Stored, Gone
<1>5. SocketStates' /\ Unborn' /\ StoredInOrder'
  <2>1. SocketStates'
    BY <1>0, <1>2 DEF SocketStates
  <2>2. Unborn'
    BY <1>4 DEF OrderInv, Unborn
  <2>3. StoredInOrder'
    <3>1. \A id \in channels["client"] : id \in Id
      BY <1>0, <1>1 DEF TypeOK
    <3> QED BY <1>1, <1>4, <3>1 DEF OrderInv, StoredInOrder
  <2> QED BY <2>1, <2>2, <2>3
<1>6. Outgoing'
  BY <1>1, <1>3 DEF OrderInv, Outgoing, OutgoingLink, Peer
<1>7. CreatesInOrder'
  <2>1. CreatesAhead(<<>>, nextId["server"])
    <3>1. Created(<<>>) = <<>>
      BY DEF Created
    <3> QED BY <3>1 DEF CreatesAhead, CountsUp
  <2> QED BY <1>3, <1>4, <2>1 DEF OrderInv, CreatesInOrder
<1>8. CloseOnItsWay'
  BY <1>1, <1>3, <1>4 DEF OrderInv, CloseOnItsWay, CloseLink, Peer
<1>9. DataInOrder'
  <2> SUFFICES ASSUME NEW p \in Peer, NEW id \in Id PROVE DataLink(p, id)'
    BY DEF DataInOrder
  <2>1. DataLink(p, id)
    BY DEF OrderInv, DataInOrder
  <2>2. CASE p = "client" /\ Outbox("client")' = <<>>
    BY <1>0, <1>4, <2>2, DataCut
  <2>3. CASE Outbox(p)' = Outbox(p)
    BY <1>1, <1>4, <2>1, <2>3 DEF DataLink, Peer
  <2> QED BY <1>3, <2>2, <2>3 DEF Peer
<1> QED BY <1>5, <1>6, <1>7, <1>8, <1>9 DEF OrderInv

(* A promise callback keeps the invariant. *)
LEMMA RunMicrotaskOrder ==
  ASSUME OrderInv, NEW p \in Peer, RunMicrotask(p) PROVE OrderInv'
<1> DEFINE task == Head(microtasks[p])
<1>0. Inv' /\ TypeOK /\ SocketStates /\ TypeOK'
  BY RunMicrotaskInv DEF OrderInv, Inv
<1>1. /\ "client" \in Peer /\ "server" \in Peer
      /\ \A r \in Peer : nextId[r] \in Nat
  BY <1>0, OutboxTypes
<1>2. /\ microtasks[p] # <<>> /\ microtasks' = [microtasks EXCEPT ![p] = Tail(@)]
      /\ UNCHANGED <<channels, nextId, opening, sent, got>>
  BY DEF RunMicrotask
<1>3. QueuedAreCreated'
  BY <1>0, <1>1, <1>2, TailQuiet DEF OrderInv, QueuedAreCreated
<1>4. \A i \in 1..Len(microtasks'["server"]) : microtasks'["server"][i] = EmptyCheck
  BY <1>0, <1>1, <1>2, TailQuiet DEF SocketStates
<1>5. 1 \in 1..Len(microtasks[p]) /\ task = microtasks[p][1]
  BY <1>0, <1>1, <1>2, TailQuiet
<1>6. CASE task # EmptyCheck /\ OpenChannel(task) /\ UNCHANGED <<ws, emptyTimerScheduled>>
  <2>1. p = "client" /\ ws["client"] # "CONNECTING"
    BY <1>0, <1>5, <1>6 DEF SocketStates, Peer
  <2>2. task \in Id /\ task <= nextId["client"]
    <3>1. task \in {EmptyCheck} \cup Id
      BY <1>0, <1>5, ElementOfSeq DEF TypeOK
    <3> QED BY <1>5, <1>6, <2>1, <3>1 DEF OrderInv, QueuedAreCreated
  <2> HIDE DEF task
  <2> QED BY <1>0, <1>2, <1>3, <1>4, <1>6, <2>1, <2>2, OpenChannelOrder
<1>7. CASE /\ task = EmptyCheck
           /\ ws' = IF /\ p = "client" /\ emptyTimerScheduled[p] /\ readyState[p][Root] # "CLOSED"
                    THEN [ws EXCEPT ![p] = "CLOSING"] ELSE ws
           /\ UNCHANGED <<readyState, wire, storage>>
  <2>1. CASE p = "client" /\ emptyTimerScheduled[p] /\ readyState[p][Root] # "CLOSED"
    <3>1. ws["client"] # "CLOSED" /\ ws' = [ws EXCEPT !["client"] = "CLOSING"]
      BY <1>0, <1>7, <2>1 DEF SocketStates
    <3> QED BY <1>0, <1>2, <1>3, <1>4, <1>7, <3>1, CloseSocketOrder
  <2>2. CASE ~(p = "client" /\ emptyTimerScheduled[p] /\ readyState[p][Root] # "CLOSED")
    <3>1. ws' = ws
      BY <1>7, <2>2
    <3>2. SocketStates'
      <4>1. ws["client"] = "CONNECTING" =>
              \A i \in 1..Len(microtasks'["client"]) : microtasks'["client"][i] = EmptyCheck
        BY <1>0, <1>1, <1>2, TailQuiet DEF SocketStates
      <4> QED BY <1>0, <1>2, <1>4, <1>7, <3>1, <4>1 DEF SocketStates
    <3>3. Unborn' /\ StoredInOrder' /\ Outgoing' /\ CreatesInOrder' /\ CloseOnItsWay' /\ DataInOrder'
      BY <1>2, <1>7, <3>1 DEF OrderInv, Unborn, StoredInOrder, Outgoing, OutgoingLink, CreatesInOrder,
           CloseOnItsWay, CloseLink, DataInOrder, DataLink, Outbox, Sending, Listening, Gone, Written, Stored
    <3> QED BY <1>0, <1>3, <3>2, <3>3 DEF OrderInv
  <2> QED BY <2>1, <2>2
<1>8. \/ task # EmptyCheck /\ OpenChannel(task) /\ UNCHANGED <<ws, emptyTimerScheduled>>
      \/ /\ task = EmptyCheck
         /\ ws' = IF /\ p = "client" /\ emptyTimerScheduled[p] /\ readyState[p][Root] # "CLOSED"
                  THEN [ws EXCEPT ![p] = "CLOSING"] ELSE ws
         /\ UNCHANGED <<readyState, wire, storage>>
  BY DEF RunMicrotask
<1> QED BY <1>6, <1>7, <1>8

(* The 'open' listeners of the other channels keep the invariant. *)
LEMMA RootOpenedOrder ==
  ASSUME OrderInv, RootOpened PROVE OrderInv'
<1>0. Inv' /\ TypeOK /\ SocketStates
  BY RootOpenedInv DEF OrderInv, Inv
<1>1. PICK id \in opening : OpenChannel(id) /\ opening' = opening \ {id}
  BY DEF RootOpened
<1>2. id \in Id /\ id <= nextId["client"] /\ ws["client"] # "CONNECTING"
  BY <1>0 DEF TypeOK, SocketStates, OrderInv, QueuedAreCreated
<1>3. UNCHANGED <<ws, channels, nextId, emptyTimerScheduled, microtasks, sent, got>>
  BY DEF RootOpened
<1>4. QueuedAreCreated'
  BY <1>1, <1>3 DEF OrderInv, QueuedAreCreated
<1>5. \A i \in 1..Len(microtasks'["server"]) : microtasks'["server"][i] = EmptyCheck
  BY <1>0, <1>3 DEF SocketStates
<1> QED BY <1>0, <1>1, <1>2, <1>3, <1>4, <1>5, OpenChannelOrder

(* 'close' of the WebSocket keeps the invariant: all channels of the peer are *)
(* gone, and what was on its way to it is lost.                               *)
LEMMA SocketClosedOrder ==
  ASSUME OrderInv, NEW p \in Peer, SocketClosed(p) PROVE OrderInv'
<1> DEFINE q == Other(p)
<1>0. Inv' /\ TypeOK /\ TypeOK' /\ SocketStates
  BY SocketClosedInv DEF OrderInv, Inv
<1>1. /\ "client" \in Peer /\ "server" \in Peer /\ Root \notin Id
      /\ q \in Peer /\ q # p /\ \A r \in Peer : r = p \/ r = q
      /\ Other(p) = q /\ Other(q) = p
      /\ \A r \in Peer : nextId[r] \in Nat /\ Outbox(r) \in Seq(Message)
  <2>1. /\ "client" \in Peer /\ "server" \in Peer /\ Root \notin Id
        /\ q \in Peer /\ q # p /\ Other(q) = p
        /\ \A r \in Peer : nextId[r] \in Nat /\ Outbox(r) \in Seq(Message)
    BY <1>0, OutboxTypes
  <2>2. \A r \in Peer : r = p \/ r = q
    BY DEF Peer, Other
  <2> QED BY <2>1, <2>2
<1>2. /\ ws' = [ws EXCEPT ![p] = "CLOSED"]
      /\ readyState' = [readyState EXCEPT ![p] = [o \in {Root} \cup Id |->
                          IF o \in {Root} \cup channels[p] THEN "CLOSED" ELSE @[o]]]
      /\ channels' = [channels EXCEPT ![p] = {}]
      /\ wire' = [wire EXCEPT ![q] = <<>>]
      /\ UNCHANGED <<nextId, storage, opening, sent, got>>
      /\ scheduleEmptyEvent(p) \/ UNCHANGED microtasks
  BY DEF SocketClosed
<1>3. /\ ws'[p] = "CLOSED" /\ ws'[q] = ws[q] /\ channels'[p] = {} /\ channels'[q] = channels[q]
      /\ wire'[q] = <<>> /\ wire'[p] = wire[p]
  BY <1>0, <1>1, <1>2 DEF TypeOK
<1> HIDE DEF q
<1>4. \A r \in Peer, x \in {Root} \cup Id :
        readyState'[r][x] = IF r = p /\ x \in {Root} \cup channels[p] THEN "CLOSED" ELSE readyState[r][x]
  <2>1. readyState \in [Peer -> [{Root} \cup Id -> State \cup {"none"}]]
    BY <1>0 DEF TypeOK
  <2> QED BY <1>2, <2>1
<1>5. /\ ~Sending(p)' /\ (Sending(q)' <=> Sending(q))
      /\ ~Listening(p)' /\ (Listening(q)' <=> Listening(q))
  BY <1>3 DEF Sending, Listening
<1>6. \A r \in Peer, id \in Id : Stored(r, id)' = Stored(r, id) /\ Written(r, id)' = Written(r, id)
  BY <1>2 DEF Stored, Written
<1>7. \A r \in Peer : Outbox(r)' = Outbox(r) \/ Outbox(r)' = <<>>
  <2>1. Outbox(p)' = Outbox(p) \/ Outbox(p)' = <<>>
    BY <1>0, <1>3 DEF Outbox, SocketStates
  <2>2. Outbox(q)' = Outbox(q) \/ Outbox(q)' = <<>>
    BY <1>2, <1>3 DEF Outbox
  <2> QED BY <1>1, <2>1, <2>2
<1>8. SocketStates'
  <2>1. \A id \in Id : readyState'["server"][id] \in {"CLOSED", readyState["server"][id]}
    BY <1>1, <1>4
  <2>2. \A i \in 1..Len(microtasks'["server"]) : microtasks'["server"][i] = EmptyCheck
    BY <1>0, <1>1, <1>2, ScheduleQuiet DEF SocketStates
  <2>3. CASE p = "client"
    <3>1. ws'["client"] = "CLOSED" /\ ws'["server"] = ws["server"]
      BY <1>0, <1>2, <2>3 DEF TypeOK
    <3>2. readyState'["client"][Root] = "CLOSED" /\ readyState'["server"][Root] = readyState["server"][Root]
      BY <1>1, <1>4, <2>3
    <3> QED BY <1>0, <2>1, <2>2, <3>1, <3>2 DEF SocketStates
  <2>4. CASE p = "server"
    <3>1. ws'["server"] = "CLOSED" /\ ws'["client"] = ws["client"] /\ wire'["client"] = <<>>
      BY <1>1, <1>3, <2>4
    <3>2. readyState'["server"][Root] = "CLOSED" /\ readyState'["client"][Root] = readyState["client"][Root]
      BY <1>1, <1>4, <2>4
    <3>3. ws["client"] = "CONNECTING" =>
            \A i \in 1..Len(microtasks'["client"]) : microtasks'["client"][i] = EmptyCheck
      BY <1>0, <1>1, <1>2, ScheduleQuiet DEF SocketStates
    <3> QED BY <1>0, <1>2, <2>1, <2>2, <3>1, <3>2, <3>3 DEF SocketStates
  <2> QED BY <2>3, <2>4 DEF Peer
<1>9. Unborn'
  <2> SUFFICES ASSUME NEW r \in Peer, NEW id \in Id, id > nextId[r]
               PROVE  readyState'[r][id] = readyState[r][id]
    BY <1>2, <1>6 DEF OrderInv, Unborn
  <2>1. id \notin channels[r]
    BY <1>0, <1>1 DEF OrderInv, Inv, KeysAllocated, Id
  <2> QED BY <1>1, <1>4, <2>1
<1>10. StoredInOrder'
  <2>1. CASE p = "client"
    BY <1>3, <2>1 DEF StoredInOrder
  <2>2. CASE p # "client"
    <3>1. \A id \in channels["client"] : id \in Id /\ readyState'["client"][id] = readyState["client"][id]
      BY <1>0, <1>1, <1>4, <2>2 DEF TypeOK
    <3>2. channels'["client"] = channels["client"]
      BY <1>1, <1>3, <2>2
    <3>3. storage' = storage /\ sent' = sent
          /\ \A id \in channels["client"] : Written("client", id)' = Written("client", id)
      BY <1>1, <1>2, <1>6, <3>1
    <3>4. StoredInOrder
      BY DEF OrderInv
    <3> QED BY <3>1, <3>2, <3>3, <3>4 DEF StoredInOrder
  <2> QED BY <2>1, <2>2
<1>11. Outgoing'
  <2> SUFFICES ASSUME NEW r \in Peer PROVE OutgoingLink(r)'
    BY DEF Outgoing
  <2>1. CASE Outbox(r)' = <<>>
    BY <2>1 DEF OutgoingLink
  <2>2. CASE Outbox(r)' = Outbox(r)
    <3>1. \A id : id \notin channels[r] => id \notin channels'[r]
      BY <1>1, <1>3
    <3> QED BY <1>2, <2>2, <3>1 DEF OrderInv, Outgoing, OutgoingLink, Sendable
  <2> QED BY <1>7, <2>1, <2>2
<1>12. CreatesInOrder'
  <2>1. CASE p = "server"
    BY <1>5, <2>1 DEF CreatesInOrder
  <2>2. CASE p = "client"
    <3>1. q = "server"
      BY <2>2 DEF q, Other
    <3>2. CreatesAhead(<<>>, nextId["server"])
      <4>1. Created(<<>>) = <<>>
        BY DEF Created
      <4> QED BY <4>1 DEF CreatesAhead, CountsUp
    <3> QED BY <1>1, <1>2, <1>5, <1>7, <2>2, <3>1, <3>2 DEF OrderInv, CreatesInOrder
  <2> QED BY <2>1, <2>2 DEF Peer
<1>13. CloseOnItsWay'
  BY <1>1, <1>5 DEF CloseOnItsWay, CloseLink
<1>14. DataInOrder'
  <2> SUFFICES ASSUME NEW id \in Id PROVE DataLink(p, id)' /\ DataLink(q, id)'
    BY <1>1 DEF DataInOrder
  <2>1. DataLink(q, id)'
    BY <1>1, <1>5 DEF DataLink
  <2>2. CASE Outbox(p)' = <<>>
    BY <1>0, <1>5, <2>1, <2>2, DataCut
  <2>3. CASE Outbox(p)' = Outbox(p)
    <3>1. DataLink(p, id) /\ Gone(q)' = Gone(q)
      BY <1>2, <1>3 DEF OrderInv, DataInOrder, Gone
    <3>2. DataLink(p, id)'
      BY <1>1, <1>2, <1>5, <2>3, <3>1 DEF DataLink
    <3> QED BY <2>1, <3>2
  <2> QED BY <1>7, <2>2, <2>3
<1>15. QueuedAreCreated'
  BY <1>0, <1>1, <1>2, ScheduleQuiet DEF OrderInv, QueuedAreCreated
<1> QED BY <1>0, <1>8, <1>9, <1>10, <1>11, <1>12, <1>13, <1>14, <1>15 DEF OrderInv

-----------------------------------------------------------------------------
(*****************************************************************************)
(* Receiving.                                                                *)
(*****************************************************************************)

(* The elements of the tail of a sequence of messages. *)
LEMMA InTail ==
  ASSUME NEW W \in Seq(Message), W # <<>>
  PROVE  /\ Tail(W) \in Seq(Message) /\ Len(Tail(W)) \in Nat /\ Len(W) \in Nat
         /\ 1 \in 1..Len(W) /\ Head(W) = W[1] /\ W[1] \in Message
         /\ \A i \in 1..Len(Tail(W)) : i + 1 \in 1..Len(W) /\ Tail(W)[i] = W[i + 1]
         /\ \A i \in 1..Len(W) : i = 1 \/ (i - 1 \in 1..Len(Tail(W)) /\ Tail(W)[i - 1] = W[i])
<1>1. /\ Tail(W) \in Seq(Message) /\ Len(Tail(W)) \in Nat /\ Len(W) \in Nat /\ Len(W) # 0
      /\ Len(Tail(W)) = Len(W) - 1 /\ Head(W) = W[1]
      /\ \A i \in 1..Len(Tail(W)) : Tail(W)[i] = W[i + 1]
  BY HeadTailProperties, LenProperties, EmptySeq
<1>2. 1 \in 1..Len(W) /\ W[1] \in Message
  BY <1>1, ElementOfSeq
<1>3. \A i \in 1..Len(Tail(W)) : i + 1 \in 1..Len(W)
  BY <1>1
<1>4. ASSUME NEW i \in 1..Len(W), i # 1 PROVE i - 1 \in 1..Len(Tail(W)) /\ Tail(W)[i - 1] = W[i]
  <2>1. i - 1 \in 1..Len(Tail(W)) /\ (i - 1) + 1 = i
    BY <1>1, <1>4
  <2> QED BY <1>1, <2>1
<1> QED BY <1>1, <1>2, <1>3, <1>4

(* Receiving a message keeps Outgoing. *)
LEMMA OutgoingTail ==
  ASSUME TypeOK, NEW q \in Peer, Outbox(q) # <<>>, Outbox(q)' = Tail(Outbox(q)), OutgoingLink(q),
         nextId'[q] = nextId[q], channels'[q] = channels[q]
  PROVE  OutgoingLink(q)'
<1>1. Outbox(q) \in Seq(Message)
  BY OutboxTypes
<1> QED BY <1>1, InTail DEF OutgoingLink

(* Receiving a message keeps the order of the CreateChannel messages. *)
LEMMA CreatesTail ==
  ASSUME NEW W \in Seq(Message), W # <<>>, NEW g \in Nat, CreatesAhead(W, g)
  PROVE  LET h == IF W[1].type = "CreateChannel" THEN g + 1 ELSE g IN
         /\ W[1].type = "CreateChannel" => W[1].id = g + 1
         /\ W[1].type # "CreateChannel" => W[1].id <= g
         /\ CreatesAhead(Tail(W), h)
         /\ \A w \in Nat : CreatesAll(W, g, w) => CreatesAll(Tail(W), h, w)
<1> DEFINE T == Tail(W)  h == IF W[1].type = "CreateChannel" THEN g + 1 ELSE g
<1>1. /\ T \in Seq(Message) /\ Len(T) \in Nat /\ Len(W) \in Nat
      /\ 1 \in 1..Len(W) /\ W[1] \in Message
      /\ \A i \in 1..Len(T) : i + 1 \in 1..Len(W) /\ T[i] = W[i + 1]
      /\ \A i \in 1..Len(W) : i = 1 \/ (i - 1 \in 1..Len(T) /\ T[i - 1] = W[i])
  BY InTail
<1>2. /\ W[1].type = "CreateChannel" => W[1].id = g + 1
      /\ CountsUp(Created(T), h)
      /\ \A w \in Nat : UpTo(Created(W), g, w) => UpTo(Created(T), h, w)
  BY CreatedTail DEF CreatesAhead
<1>3. W[1].id \in Nat /\ W[1].id # 0 /\ h \in Nat /\ g <= h
  BY <1>1 DEF Message, Id
<1>4. Created(W)[1] = IF W[1].type = "CreateChannel" THEN h ELSE 0
  BY <1>1, <1>2 DEF Created
<1>5. \A i \in 1..Len(T) : Created(T)[i] = Created(W)[i + 1]
  BY <1>1 DEF Created
<1>6. \A i \in 1..Len(W) : i = 1 \/ (i - 1 \in 1..Len(T) /\ Created(T)[i - 1] = Created(W)[i])
  BY <1>1 DEF Created
<1>7. ASSUME W[1].type # "CreateChannel" PROVE W[1].id <= g
  <2> SUFFICES ASSUME W[1].id > g PROVE FALSE
    BY <1>3
  <2>1. PICK j \in 1..1 : Created(W)[j] = W[1].id
    BY <1>1 DEF CreatesAhead
  <2> QED BY <1>3, <1>4, <1>7, <2>1
<1> HIDE DEF T, h
<1>8. ASSUME NEW i \in 1..Len(T), T[i].id > h
      PROVE  \E j \in 1..i : Created(T)[j] = T[i].id
  <2>1. i + 1 \in 1..Len(W) /\ T[i] = W[i + 1] /\ T[i] \in Message /\ T[i].id \in Nat
    <3>1. T[i] \in Message
      BY <1>1, ElementOfSeq
    <3>2. T[i].id \in Nat
      BY <3>1 DEF Message, Id
    <3> QED BY <1>1, <3>1, <3>2
  <2>2. W[i + 1].id > g
    BY <1>3, <1>8, <2>1
  <2>3. PICK j \in 1..(i + 1) : Created(W)[j] = W[i + 1].id
    BY <2>1, <2>2 DEF CreatesAhead
  <2>4. j # 1
    BY <1>3, <1>4, <1>8, <2>1, <2>3
  <2>5. j \in 1..Len(W) /\ j - 1 \in 1..i
    BY <1>1, <2>1, <2>4
  <2>6. Created(T)[j - 1] = T[i].id
    BY <1>6, <2>1, <2>3, <2>4, <2>5
  <2> QED BY <2>5, <2>6
<1>9. ASSUME NEW w \in Nat, CreatesAll(W, g, w) PROVE CreatesAll(T, h, w)
  <2>1. ASSUME NEW id \in Id, h < id, id <= w PROVE \E j \in 1..Len(T) : Created(T)[j] = id
    <3>1. g < id
      BY <1>3, <2>1 DEF Id
    <3>2. PICK j \in 1..Len(W) : Created(W)[j] = id
      BY <1>9, <2>1, <3>1 DEF CreatesAll
    <3>3. j # 1
      BY <1>3, <1>4, <2>1, <3>2 DEF Id
    <3> QED BY <1>6, <3>2, <3>3
  <2> QED BY <1>2, <1>9, <2>1 DEF CreatesAll
<1>10. CreatesAhead(T, h)
  BY <1>2, <1>8 DEF CreatesAhead
<1> QED BY <1>2, <1>7, <1>9, <1>10 DEF T, h

(* Receiving a message keeps CloseLink, unless it is the CloseChannel that *)
(* the other end was waiting for.                                          *)
LEMMA CloseTail ==
  ASSUME TypeOK, NEW q \in Peer, NEW id \in Id, Outbox(q) # <<>>, Outbox(q)' = Tail(Outbox(q)),
         CloseLink(q, id), UNCHANGED ws,
         Outbox(q)[1] # CloseChannelMsg(id) \/ id \in Gone(Other(q))',
         id \in Gone(q)' => id \in Gone(q), id \in Gone(Other(q)) => id \in Gone(Other(q))'
  PROVE  CloseLink(q, id)'
<1>1. Outbox(q) \in Seq(Message)
  BY OutboxTypes
<1>2. SUFFICES ASSUME Sending(q)', Listening(Other(q))', id \in Gone(q)', id \notin Gone(Other(q))'
      PROVE  \E i \in 1..Len(Tail(Outbox(q))) : Tail(Outbox(q))[i] = CloseChannelMsg(id)
  BY DEF CloseLink
<1>3. PICK i \in 1..Len(Outbox(q)) : Outbox(q)[i] = CloseChannelMsg(id)
  BY <1>2 DEF CloseLink, Sending, Listening
<1>4. i # 1
  BY <1>2, <1>3
<1>5. i - 1 \in 1..Len(Tail(Outbox(q))) /\ Tail(Outbox(q))[i - 1] = Outbox(q)[i]
  BY <1>1, <1>4, InTail
<1> QED BY <1>3, <1>5

(* Receiving a message keeps DataLink if a data message is delivered. *)
LEMMA DataShifted ==
  ASSUME TypeOK, TypeOK', NEW q \in Peer, NEW id \in Id, Outbox(q) # <<>>, Outbox(q)' = Tail(Outbox(q)),
         DataLink(q, id), UNCHANGED <<ws, storage, sent>>,
         channels'[q] = channels[q], id \in Gone(Other(q)) => id \in Gone(Other(q))',
         \/ id \in Gone(Other(q))'
         \/ /\ Outbox(q)[1] # CloseChannelMsg(id)
            /\ Len(got'[Other(q)][id]) = IF Outbox(q)[1].type = "Data" /\ Outbox(q)[1].id = id
                                         THEN Len(got[Other(q)][id]) + 1 ELSE Len(got[Other(q)][id]),
         Outbox(q)[1].type = "Data" => Outbox(q)[1].n # 0
  PROVE  DataLink(q, id)'
<1> DEFINE p == Other(q)  W == Outbox(q)  g == Len(got[p][id])  h == Len(got'[p][id])
<1>1. W \in Seq(Message) /\ g \in Nat /\ sent[q][id] \in Nat /\ p \in Peer
  BY OutboxTypes
<1>2. SUFFICES ASSUME Listening(p)', id \notin Gone(p)'
      PROVE  /\ CountsUp(Numbers(Tail(W), id), h)
             /\ AtMost(Numbers(Tail(W), id), sent[q][id])
             /\ Sending(q)' /\ id \in channels'[q] => UpTo(Numbers(Tail(W), id), h, Written(q, id)')
  BY DEF DataLink
<1>3. /\ CountsUp(Numbers(W, id), g)
      /\ AtMost(Numbers(W, id), sent[q][id])
      /\ Sending(q) /\ id \in channels[q] => UpTo(Numbers(W, id), g, Written(q, id))
  BY <1>2 DEF DataLink, Listening
<1>4. W[1] # CloseChannelMsg(id)
  BY <1>2
<1>5. h = IF W[1].type = "Data" /\ W[1].id = id THEN g + 1 ELSE g
  BY <1>2
<1>6. W[1].type = "Data" => W[1].n # 0
  OBVIOUS
<1>7. Written(q, id)' = Written(q, id) /\ (Sending(q)' => Sending(q))
  BY DEF Written, Stored, Sending
<1>8. Sending(q) /\ id \in channels[q] => Written(q, id) \in Nat
  <2>1. Written(q, id) \in Int
    BY <1>1, OutboxTypes, SMTT(20) DEF Written
  <2> HIDE DEF W
  <2> QED BY <1>1, <1>3, <2>1 DEF UpTo
<1>w. W # <<>>
  OBVIOUS
<1> HIDE DEF p, W, g, h
<1>9. /\ CountsUp(Numbers(Tail(W), id), h)
      /\ \A w \in Nat : UpTo(Numbers(W, id), g, w) => UpTo(Numbers(Tail(W), id), h, w)
      /\ \A w \in Nat : AtMost(Numbers(W, id), w) => AtMost(Numbers(Tail(W), id), w)
  <2>1. h = IF Numbers(W, id)[1] = 0 THEN g ELSE g + 1
    <3>1. Numbers(W, id)[1] = IF W[1].type = "Data" /\ W[1].id = id THEN W[1].n ELSE 0
      BY <1>1, <1>3, <1>4, <1>w, DataTail
    <3> QED BY <1>5, <1>6, <3>1
  <2> QED BY <1>1, <1>3, <1>4, <1>w, <2>1, DataTail
<1> QED BY <1>1, <1>3, <1>7, <1>8, <1>9

(* What every received message has in common. *)
LEMMA ReceiveFacts ==
  ASSUME OrderInv, NEW p \in Peer, Receive(p)
  PROVE  LET q == Other(p)  m == Outbox(q)[1] IN
         /\ Inv' /\ TypeOK /\ TypeOK' /\ SocketStates
         /\ q \in Peer /\ q # p /\ Other(q) = p /\ \A r \in Peer : r = p \/ r = q
         /\ ReceiveCreate(p, m) \/ ReceiveData(p, m) \/ ReceiveClose(p, m)
         /\ UNCHANGED <<ws, storage, opening, sent>>
         /\ Outbox(q) # <<>> /\ Outbox(q)' = Tail(Outbox(q)) /\ Outbox(p)' = Outbox(p)
         /\ m \in Message /\ m.id \in Id /\ m.id \in Nat /\ m.n \in Nat
         /\ m.id <= nextId[q]
         /\ m.type = "CreateChannel" => p = "server" /\ m.id = nextId[p] + 1
         /\ m.type # "CreateChannel" => m.id <= nextId[p]
         /\ m.type = "Data" => m.n # 0
         /\ m.type = "CloseChannel" => m.id \notin channels[q]
         /\ ws[p] = "OPEN"
         /\ ws["client"] = "CONNECTING" => wire'["client"] = wire["client"]
<1> DEFINE q == Other(p)  m == Outbox(q)[1]
<1>0. Inv' /\ TypeOK /\ TypeOK' /\ SocketStates
  BY ReceiveInv DEF OrderInv, Inv
<1>1. /\ "client" \in Peer /\ "server" \in Peer /\ Other("server") = "client" /\ Other("client") = "server"
      /\ q \in Peer /\ q # p /\ Other(q) = p
      /\ \A r \in Peer : nextId[r] \in Nat /\ Outbox(r) \in Seq(Message)
  BY <1>0, OutboxTypes
<1>2. \A r \in Peer : r = p \/ r = q
  BY DEF Peer, Other
<1>3. /\ ws[p] = "OPEN" /\ wire[q] # <<>>
      /\ wire' = [wire EXCEPT ![q] = Tail(@)]
      /\ UNCHANGED <<ws, storage, opening, sent>>
      /\ LET mm == Head(wire[q]) IN ReceiveCreate(p, mm) \/ ReceiveData(p, mm) \/ ReceiveClose(p, mm)
  BY DEF Receive
<1>4. ~(q = "client" /\ ws[q] = "CONNECTING")
  BY <1>0, <1>3 DEF SocketStates
<1>5. Outbox(q) = wire[q] /\ Outbox(q)' = wire'[q]
  BY <1>3, <1>4 DEF Outbox
<1>6. wire'[q] = Tail(wire[q]) /\ wire'[p] = wire[p]
  BY <1>0, <1>1, <1>3 DEF TypeOK
<1>7. Outbox(p)' = Outbox(p)
  BY <1>3, <1>6 DEF Outbox
<1>8. Outbox(q) # <<>> /\ Outbox(q)' = Tail(Outbox(q)) /\ Head(wire[q]) = m /\ m \in Message
      /\ 1 \in 1..Len(Outbox(q))
  BY <1>1, <1>3, <1>5, <1>6, InTail
<1>9. ReceiveCreate(p, m) \/ ReceiveData(p, m) \/ ReceiveClose(p, m)
  BY <1>3, <1>8
<1>10. m.id \in Id /\ m.id \in Nat /\ m.n \in Nat /\ 1 <= m.id
  BY <1>8 DEF Message, Id
<1>11. Sendable(q, m, nextId[q], channels[q])
  BY <1>1, <1>8 DEF OrderInv, Outgoing, OutgoingLink
<1>12. ASSUME m.type = "CreateChannel" PROVE p = "server" /\ m.id = nextId[p] + 1
  <2>1. q = "client" /\ p = "server"
    BY <1>1, <1>2, <1>11, <1>12 DEF Sendable
  <2>2. CreatesAhead(Outbox(q), nextId[p])
    BY <1>1, <1>3, <2>1 DEF OrderInv, CreatesInOrder, Listening
  <2> QED BY <1>1, <1>8, <1>12, <2>1, <2>2, CreatesTail
<1>13. ASSUME m.type # "CreateChannel" PROVE m.id <= nextId[p]
  <2>1. CASE p = "server"
    <3>1. CreatesAhead(Outbox(q), nextId[p])
      BY <1>1, <1>3, <2>1 DEF OrderInv, CreatesInOrder, Listening
    <3> QED BY <1>1, <1>8, <1>13, <3>1, CreatesTail
  <2>2. CASE p = "client"
    <3>1. nextId["server"] <= nextId["client"] /\ q = "server"
      BY <1>1, <2>2 DEF OrderInv, Unborn
    <3>2. m.id <= nextId[q]
      BY <1>11 DEF Sendable
    <3> QED BY <1>1, <1>10, <2>2, <3>1, <3>2
  <2> QED BY <2>1, <2>2 DEF Peer
<1>14. m.id <= nextId[q] /\ (m.type = "Data" => m.n # 0) /\ (m.type = "CloseChannel" => m.id \notin channels[q])
  BY <1>11 DEF Sendable
<1>15. ws["client"] = "CONNECTING" => wire'["client"] = wire["client"]
  BY <1>1, <1>2, <1>4, <1>6
<1> HIDE DEF m, q
<1>16. /\ Inv' /\ TypeOK /\ TypeOK' /\ SocketStates
       /\ q \in Peer /\ q # p /\ Other(q) = p /\ \A r \in Peer : r = p \/ r = q
       /\ ReceiveCreate(p, m) \/ ReceiveData(p, m) \/ ReceiveClose(p, m)
       /\ UNCHANGED <<ws, storage, opening, sent>>
       /\ Outbox(q) # <<>> /\ Outbox(q)' = Tail(Outbox(q)) /\ Outbox(p)' = Outbox(p)
       /\ m \in Message /\ m.id \in Id /\ m.id \in Nat /\ m.n \in Nat
       /\ m.id <= nextId[q]
       /\ m.type = "CreateChannel" => p = "server" /\ m.id = nextId[p] + 1
       /\ m.type # "CreateChannel" => m.id <= nextId[p]
       /\ m.type = "Data" => m.n # 0
       /\ m.type = "CloseChannel" => m.id \notin channels[q]
       /\ ws[p] = "OPEN"
       /\ ws["client"] = "CONNECTING" => wire'["client"] = wire["client"]
  BY <1>0, <1>1, <1>2, <1>3, <1>7, <1>8, <1>9, <1>10, <1>12, <1>13, <1>14, <1>15, Zenon
<1> QED BY <1>16 DEF m, q

(* The handling of CreateChannel keeps the invariant: the server knows the *)
(* channel before any other message of it.                                 *)
LEMMA ReceiveCreateOrder ==
  ASSUME OrderInv, NEW p \in Peer, Receive(p), ReceiveCreate(p, Outbox(Other(p))[1]) PROVE OrderInv'
<1> DEFINE q == Other(p)  m == Outbox(q)[1]  W == Outbox(q)
<1>0. /\ Inv' /\ TypeOK /\ TypeOK' /\ SocketStates
      /\ UNCHANGED <<ws, storage, opening, sent>>
      /\ W # <<>> /\ Outbox(q)' = Tail(W) /\ Outbox(p)' = Outbox(p)
      /\ m \in Message /\ m.id \in Id /\ m.id \in Nat
      /\ ws[p] = "OPEN"
      /\ ws["client"] = "CONNECTING" => wire'["client"] = wire["client"]
  BY ReceiveFacts
<1>1. m.type = "CreateChannel" /\ p = "server" /\ q = "client" /\ m.id = nextId["server"] + 1
      /\ m.id <= nextId["client"]
  <2>1. m.type = "CreateChannel"
    BY DEF ReceiveCreate
  <2>2. p = "server" /\ m.id = nextId[p] + 1 /\ m.id <= nextId[q]
    BY <2>1, ReceiveFacts
  <2> QED BY <2>1, <2>2 DEF Other
<1>2. /\ "client" \in Peer /\ "server" \in Peer /\ Root \notin Id
      /\ Other("server") = "client" /\ Other("client") = "server"
      /\ \A r \in Peer : nextId[r] \in Nat /\ Outbox(r) \in Seq(Message)
      /\ \A r \in Peer : r = "client" \/ r = "server"
      /\ \A id \in Id : id \in Nat
      /\ \A r \in Peer, id \in Id : Len(got[r][id]) \in Nat /\ sent[r][id] \in Nat
  BY <1>0, OutboxTypes DEF Peer, Id
<1> HIDE DEF m
<1>3. /\ nextId' = [nextId EXCEPT !["server"] = m.id]
      /\ readyState' = [readyState EXCEPT !["server"][m.id] = readyState["server"][Root]]
      /\ channels' = [channels EXCEPT !["server"] = @ \cup {m.id}]
      /\ UNCHANGED <<microtasks, got>>
  <2>1. nextId["server"] < m.id
    BY <1>1, <1>2
  <2>2. ReceiveCreate("server", m)
    BY <1>1 DEF m
  <2>3. nextId \in [Peer -> 0..MaxChannels]
    BY <1>0 DEF TypeOK
  <2> QED BY <1>2, <2>1, <2>2, <2>3 DEF ReceiveCreate
<1>4. /\ nextId'["server"] = m.id /\ nextId'["client"] = nextId["client"]
      /\ channels'["server"] = channels["server"] \cup {m.id} /\ channels'["client"] = channels["client"]
  BY <1>0, <1>2, <1>3 DEF TypeOK
<1>5. \A r \in Peer, x \in {Root} \cup Id :
        readyState'[r][x] = IF r = "server" /\ x = m.id THEN readyState["server"][Root] ELSE readyState[r][x]
  <2>1. readyState \in [Peer -> [{Root} \cup Id -> State \cup {"none"}]]
    BY <1>0 DEF TypeOK
  <2> QED BY <1>3, <2>1
<1>6. readyState["server"][Root] = "OPEN"
  BY <1>0, <1>1 DEF SocketStates
<1>7. \A r \in Peer, id \in Id : id \in Gone(r)' <=> id \in Gone(r)
  <2>1. \A id \in Id : id \in Gone("server")' <=> id \in Gone("server")
    <3>1. m.id \notin 1..nextId["server"] /\ 1..m.id = 1..nextId["server"] \cup {m.id}
      BY <1>1, <1>2
    <3> QED BY <1>4, <3>1 DEF Gone
  <2>2. \A id \in Id : id \in Gone("client")' <=> id \in Gone("client")
    BY <1>4 DEF Gone
  <2> QED BY <1>2, <2>1, <2>2
<1>8. \A r \in Peer, id \in Id : Stored(r, id)' = Stored(r, id) /\ Written(r, id)' = Written(r, id)
  BY <1>0 DEF Stored, Written
<1>9. SocketStates'
  <2>1. readyState'["server"][Root] = readyState["server"][Root]
        /\ readyState'["client"][Root] = readyState["client"][Root]
        /\ \A id \in Id : readyState'["server"][id] \in {"OPEN", readyState["server"][id]}
    BY <1>0, <1>2, <1>5, <1>6
  <2> QED BY <1>0, <1>3, <2>1 DEF SocketStates
<1>10. Unborn'
  <2> SUFFICES ASSUME NEW r \in Peer, NEW id \in Id, id > nextId'[r]
               PROVE  id > nextId[r] /\ readyState'[r][id] = readyState[r][id]
    BY <1>0, <1>1, <1>3, <1>4, <1>8 DEF OrderInv, Unborn
  <2> QED BY <1>1, <1>2, <1>4, <1>5
<1>11. StoredInOrder'
  <2>1. \A id \in channels["client"] : id \in Id /\ readyState'["client"][id] = readyState["client"][id]
    BY <1>0, <1>2, <1>5, ZenonT(30) DEF TypeOK
  <2>2. StoredInOrder /\ storage' = storage /\ sent' = sent
    BY <1>0 DEF OrderInv
  <2>3. \A id \in channels["client"] : Written("client", id)' = Written("client", id)
    BY <1>2, <1>8, <2>1
  <2> QED BY <1>4, <2>1, <2>2, <2>3 DEF StoredInOrder
<1>12. Outgoing'
  <2>1. OutgoingLink("client")'
    BY <1>0, <1>1, <1>2, <1>4, OutgoingTail DEF OrderInv, Outgoing
  <2>2. OutgoingLink("server")'
    <3> SUFFICES ASSUME NEW i \in 1..Len(Outbox("server"))
                 PROVE  Sendable("server", Outbox("server")[i], m.id, channels'["server"])
      BY <1>0, <1>1, <1>4 DEF OutgoingLink
    <3>1. Outbox("server")[i] \in Message /\ Outbox("server")[i].id \in Nat
      <4>1. Outbox("server")[i] \in Message
        BY <1>2, ElementOfSeq
      <4> QED BY <1>2, <4>1 DEF Message
    <3>2. Sendable("server", Outbox("server")[i], nextId["server"], channels["server"])
      BY <1>2 DEF OrderInv, Outgoing, OutgoingLink
    <3> QED BY <1>1, <1>2, <1>4, <3>1, <3>2 DEF Sendable
  <2> QED BY <1>2, <2>1, <2>2 DEF Outgoing
<1>13. CreatesInOrder'
  <2> SUFFICES ASSUME Listening("server")'
               PROVE  /\ CreatesAhead(Tail(Outbox("client")), m.id)
                      /\ Sending("client")' => CreatesAll(Tail(Outbox("client")), m.id, nextId["client"])
    BY <1>0, <1>1, <1>4 DEF CreatesInOrder
  <2>1. /\ CreatesAhead(Outbox("client"), nextId["server"])
        /\ Sending("client") => CreatesAll(Outbox("client"), nextId["server"], nextId["client"])
        /\ Sending("client")' => Sending("client")
    BY <1>0 DEF OrderInv, CreatesInOrder, Listening, Sending
  <2>2. Outbox("client") # <<>> /\ Outbox("client")[1].type = "CreateChannel"
    BY <1>0, <1>1 DEF m
  <2> QED BY <1>1, <1>2, <2>1, <2>2, CreatesTail
<1>14. CloseOnItsWay'
  <2> SUFFICES ASSUME NEW id \in Id PROVE CloseLink("client", id)' /\ CloseLink("server", id)'
    BY <1>2 DEF CloseOnItsWay
  <2>1. CloseLink("client", id) /\ CloseLink("server", id)
    BY <1>2 DEF OrderInv, CloseOnItsWay
  <2>2. CloseLink("client", id)'
    <3>1. Outbox("client")[1] # CloseChannelMsg(id)
      BY <1>1 DEF m, CloseChannelMsg
    <3> QED BY <1>0, <1>1, <1>2, <1>7, <2>1, <3>1, CloseTail
  <2>3. CloseLink("server", id)'
    BY <1>0, <1>1, <1>2, <1>7, <2>1 DEF CloseLink, Sending, Listening
  <2> QED BY <2>2, <2>3
<1>15. DataInOrder'
  <2> SUFFICES ASSUME NEW id \in Id PROVE DataLink("client", id)' /\ DataLink("server", id)'
    BY <1>2 DEF DataInOrder
  <2>1. DataLink("client", id) /\ DataLink("server", id)
    BY <1>2 DEF OrderInv, DataInOrder
  <2>2. DataLink("client", id)'
    <3>1. /\ Outbox("client")[1] # CloseChannelMsg(id)
          /\ Outbox("client")[1].type # "Data"
          /\ Outbox("client") # <<>> /\ Outbox("client")' = Tail(Outbox("client"))
      BY <1>0, <1>1 DEF m, CloseChannelMsg
    <3>2. UNCHANGED <<ws, storage, sent>> /\ got' = got
      BY <1>0, <1>3
    <3> QED BY <1>0, <1>2, <1>4, <1>7, <2>1, <3>1, <3>2, DataShifted
  <2>3. DataLink("server", id)'
    <3> DEFINE v == Numbers(Outbox("server"), id)  g == Len(got["client"][id])
    <3> SUFFICES ASSUME Listening("client"), id \notin Gone("client")
                 PROVE  /\ CountsUp(v, g)
                        /\ AtMost(v, sent["server"][id])
                        /\ Sending("server") /\ id \in channels'["server"] => UpTo(v, g, Written("server", id))
      BY <1>0, <1>1, <1>2, <1>3, <1>7, <1>8 DEF DataLink, Listening, Sending
    <3>1. /\ CountsUp(v, g)
          /\ AtMost(v, sent["server"][id])
          /\ Sending("server") /\ id \in channels["server"] => UpTo(v, g, Written("server", id))
      BY <1>2, <2>1 DEF DataLink
    <3>2. CASE id = m.id
      <4>1. sent["server"][id] = 0 /\ Stored("server", id) = 0 /\ g <= sent["server"][id]
        <5>1. id > nextId["server"]
          BY <1>1, <1>2, <3>2
        <5> QED BY <1>2, <5>1 DEF OrderInv, Unborn
      <4>2. Written("server", id) = 0 /\ g = 0
        BY <1>2, <4>1 DEF Written
      <4>3. UpTo(v, 0, 0)
        <5> HIDE DEF v
        <5> QED BY <3>1, <4>1 DEF UpTo, AtMost
      <4> QED BY <3>1, <4>2, <4>3
    <3>3. CASE id # m.id
      BY <1>4, <3>1, <3>3
    <3> QED BY <3>2, <3>3
  <2> QED BY <2>2, <2>3
<1>16. QueuedAreCreated'
  BY <1>0, <1>3, <1>4 DEF OrderInv, QueuedAreCreated
<1> QED BY <1>0, <1>9, <1>10, <1>11, <1>12, <1>13, <1>14, <1>15, <1>16 DEF OrderInv

(* A message other than CreateChannel keeps CreatesInOrder. *)
LEMMA CreatesPassed ==
  ASSUME OrderInv, NEW p \in Peer, Receive(p), Outbox(Other(p))[1].type # "CreateChannel", UNCHANGED nextId
  PROVE  CreatesInOrder'
<1> DEFINE q == Other(p)
<1>1. /\ TypeOK /\ UNCHANGED ws /\ Outbox(q) # <<>> /\ Outbox(q)' = Tail(Outbox(q))
      /\ Outbox(p)' = Outbox(p)
  BY ReceiveFacts
<1>2. /\ "client" \in Peer /\ "server" \in Peer
      /\ \A r \in Peer : nextId[r] \in Nat /\ Outbox(r) \in Seq(Message)
  BY <1>1, OutboxTypes
<1>3. SUFFICES ASSUME Listening("server")'
      PROVE  /\ CreatesAhead(Outbox("client")', nextId["server"])
             /\ Sending("client")' => CreatesAll(Outbox("client")', nextId["server"], nextId["client"])
  BY DEF CreatesInOrder
<1>4. /\ CreatesAhead(Outbox("client"), nextId["server"])
      /\ Sending("client") => CreatesAll(Outbox("client"), nextId["server"], nextId["client"])
      /\ Sending("client")' => Sending("client")
  BY <1>1, <1>3 DEF OrderInv, CreatesInOrder, Listening, Sending
<1>5. CASE p = "client"
  BY <1>1, <1>4, <1>5
<1>6. CASE p = "server"
  <2>1. q = "client"
    BY <1>6 DEF Other
  <2>2. /\ Outbox("client") \in Seq(Message) /\ Outbox("client") # <<>>
        /\ Outbox("client")[1].type # "CreateChannel"
        /\ Outbox("client")' = Tail(Outbox("client"))
        /\ nextId["server"] \in Nat /\ nextId["client"] \in Nat
    BY <1>1, <1>2, <2>1
  <2>3. /\ CreatesAhead(Tail(Outbox("client")), nextId["server"])
        /\ \A w \in Nat : CreatesAll(Outbox("client"), nextId["server"], w) =>
             CreatesAll(Tail(Outbox("client")), nextId["server"], w)
    BY <1>4, <2>2, CreatesTail
  <2> QED BY <1>4, <2>2, <2>3
<1> QED BY <1>5, <1>6 DEF Peer

(* A data message that is delivered is the next one of its channel. *)
LEMMA DataHead ==
  ASSUME OrderInv, NEW p \in Peer, Receive(p), ReceiveData(p, Outbox(Other(p))[1]),
         Outbox(Other(p))[1].id \in channels[p]
  PROVE  LET q == Other(p)  m == Outbox(q)[1] IN
         /\ m.n = Len(got[p][m.id]) + 1
         /\ m.n <= sent[q][m.id]
<1> DEFINE q == Other(p)  m == Outbox(q)[1]  v == Numbers(Outbox(q), m.id)
<1>0. /\ TypeOK /\ q \in Peer /\ Other(q) = p /\ Outbox(q) # <<>>
      /\ m \in Message /\ m.id \in Id /\ m.n \in Nat /\ ws[p] = "OPEN"
  BY ReceiveFacts
<1>1. m.type = "Data" /\ m.n # 0
  <2>1. m.type = "Data"
    BY DEF ReceiveData
  <2> QED BY <2>1, ReceiveFacts
<1>2. Outbox(q) \in Seq(Message) /\ Len(got[p][m.id]) \in Nat
  BY <1>0, OutboxTypes
<1>3. CountsUp(v, Len(got[p][m.id])) /\ AtMost(v, sent[q][m.id])
  BY <1>0 DEF OrderInv, DataInOrder, DataLink, Listening, Gone
<1>4. Outbox(q)[1] # CloseChannelMsg(m.id)
  BY <1>1 DEF CloseChannelMsg
<1>5. 1 \in DOMAIN v
  <2>1. 1 \in 1..Len(Outbox(q))
    BY <1>0, <1>2, InTail
  <2> QED BY <2>1 DEF Numbers
<1>m. Outbox(q)[1] = m
  OBVIOUS
<1> HIDE DEF m, q
<1>6. v[1] = m.n /\ v[1] = Len(got[p][m.id]) + 1
  BY <1>0, <1>1, <1>2, <1>3, <1>4, <1>m, DataTail
<1> HIDE DEF v
<1>7. m.n = Len(got[p][m.id]) + 1 /\ m.n <= sent[q][m.id]
  BY <1>3, <1>5, <1>6 DEF AtMost
<1> QED BY <1>7 DEF m, q

(* The handling of a data message keeps the invariant. *)
LEMMA ReceiveDataOrder ==
  ASSUME OrderInv, NEW p \in Peer, Receive(p), ReceiveData(p, Outbox(Other(p))[1]) PROVE OrderInv'
<1> DEFINE q == Other(p)  m == Outbox(q)[1]
<1>0. /\ Inv' /\ TypeOK /\ TypeOK' /\ SocketStates
      /\ q \in Peer /\ q # p /\ Other(q) = p /\ \A r \in Peer : r = p \/ r = q
      /\ UNCHANGED <<ws, storage, opening, sent>>
      /\ Outbox(q) # <<>> /\ Outbox(q)' = Tail(Outbox(q)) /\ Outbox(p)' = Outbox(p)
      /\ m \in Message /\ m.id \in Id /\ m.id \in Nat /\ m.n \in Nat
      /\ ws[p] = "OPEN"
      /\ ws["client"] = "CONNECTING" => wire'["client"] = wire["client"]
  BY ReceiveFacts
<1>1. m.type = "Data" /\ m.id <= nextId[p] /\ m.n # 0
  <2>1. m.type = "Data"
    BY DEF ReceiveData
  <2> QED BY <2>1, ReceiveFacts
<1>2. /\ \A r \in Peer : nextId[r] \in Nat /\ Outbox(r) \in Seq(Message)
      /\ \A r \in Peer, id \in Id : Len(got[r][id]) \in Nat /\ sent[r][id] \in Nat
      /\ \A r \in Peer, id \in Id : got[r][id] \in Seq(Nat)
  <2>1. \A r \in Peer, id \in Id : got[r][id] \in Seq(Nat)
    BY <1>0 DEF TypeOK
  <2> QED BY <1>0, <2>1, OutboxTypes
<1>3. /\ got' = IF m.id \in channels[p] THEN [got EXCEPT ![p][m.id] = Append(@, m.n)] ELSE got
      /\ UNCHANGED <<readyState, channels, nextId, emptyTimerScheduled, microtasks>>
  BY DEF ReceiveData, Receiver
<1>m. Outbox(q)[1] = m
  OBVIOUS
<1> HIDE DEF m, q
<1>4. \A r \in Peer : Gone(r)' = Gone(r)
  BY <1>3 DEF Gone
<1>5. m.id \in channels[p] \/ m.id \in Gone(p)
  <2>1. m.id \in 1..nextId[p]
    BY <1>0, <1>1, <1>2 DEF Id
  <2> QED BY <2>1 DEF Gone
<1>6. \A r \in Peer, id \in Id : got'[r][id] = IF r = p /\ id = m.id /\ id \in channels[p]
                                             THEN Append(got[r][id], m.n) ELSE got[r][id]
  <2>1. got \in [Peer -> [Id -> Seq(Nat)]]
    BY <1>0 DEF TypeOK
  <2>2. CASE m.id \in channels[p]
    <3>1. got' = [got EXCEPT ![p][m.id] = Append(got[p][m.id], m.n)]
      BY <1>3, <2>2
    <3> QED BY <2>1, <2>2, <3>1
  <2>3. CASE m.id \notin channels[p]
    BY <1>3, <2>3
  <2> QED BY <2>2, <2>3
<1>7. \A r \in Peer, id \in Id : Len(got'[r][id]) = IF r = p /\ id = m.id /\ id \in channels[p]
                                                  THEN Len(got[r][id]) + 1 ELSE Len(got[r][id])
  <2>1. ASSUME NEW r \in Peer, NEW id \in Id PROVE Len(Append(got[r][id], m.n)) = Len(got[r][id]) + 1
    BY <1>0, <1>2, AppendProperties
  <2>2. ASSUME NEW r \in Peer, NEW id \in Id
        PROVE  Len(got'[r][id]) = IF r = p /\ id = m.id /\ id \in channels[p]
                                  THEN Len(got[r][id]) + 1 ELSE Len(got[r][id])
    <3>1. CASE r = p /\ id = m.id /\ id \in channels[p]
      <4>1. got'[r][id] = Append(got[r][id], m.n)
        BY <1>6, <3>1, Zenon
      <4> QED BY <2>1, <3>1, <4>1, Zenon
    <3>2. CASE ~(r = p /\ id = m.id /\ id \in channels[p])
      <4>1. got'[r][id] = got[r][id]
        BY <1>6, <3>2, Zenon
      <4> QED BY <3>2, <4>1, Zenon
    <3> QED BY <3>1, <3>2
  <2> QED BY <2>2
<1>8. \A r \in Peer, id \in Id : Stored(r, id)' = Stored(r, id) /\ Written(r, id)' = Written(r, id)
  BY <1>0 DEF Stored, Written
<1>9. SocketStates'
  BY <1>0, <1>3 DEF SocketStates
<1>10. m.id \in channels[p] => Len(got[p][m.id]) + 1 <= sent[q][m.id]
  BY DataHead DEF m, q
<1>11. Unborn'
  <2> SUFFICES ASSUME NEW r \in Peer, NEW id \in Id
               PROVE  /\ Len(got'[Other(r)][id]) <= sent[r][id]
                      /\ id > nextId[r] => got'[r][id] = <<>>
    BY <1>0, <1>3, <1>8 DEF OrderInv, Unborn
  <2>1. Len(got[Other(r)][id]) <= sent[r][id] /\ (id > nextId[r] => got[r][id] = <<>>)
    BY DEF OrderInv, Unborn
  <2>2. Other(r) = p => r = q
    BY <1>0 DEF q, Other, Peer
  <2>3. Other(r) \in Peer
    BY DEF Other, Peer
  <2>4. Len(got'[Other(r)][id]) <= sent[r][id]
    BY <1>7, <1>10, <2>1, <2>2, <2>3
  <2>5. id = m.id /\ r = p => ~(id > nextId[r])
    BY <1>1, <1>2, <1>0
  <2> QED BY <1>6, <2>1, <2>4, <2>5
<1>12. StoredInOrder'
  BY <1>0, <1>3 DEF OrderInv, StoredInOrder, Written, Stored
<1>13. Outgoing'
  <2>1. OutgoingLink(q)' /\ OutgoingLink(p)'
    <3>1. OutgoingLink(q)'
      BY <1>0, <1>3, OutgoingTail DEF OrderInv, Outgoing
    <3> QED BY <1>0, <1>3, <3>1 DEF OrderInv, Outgoing, OutgoingLink
  <2> QED BY <1>0, <2>1 DEF Outgoing
<1>14. CreatesInOrder'
  BY <1>1, <1>3, <1>m, CreatesPassed DEF q
<1>15. CloseOnItsWay'
  <2> SUFFICES ASSUME NEW id \in Id PROVE CloseLink(p, id)' /\ CloseLink(q, id)'
    BY <1>0 DEF CloseOnItsWay
  <2>1. CloseLink(p, id) /\ CloseLink(q, id)
    BY <1>0 DEF OrderInv, CloseOnItsWay
  <2>2. CloseLink(q, id)'
    <3>1. Outbox(q)[1] # CloseChannelMsg(id)
      BY <1>1, <1>m DEF CloseChannelMsg
    <3> QED BY <1>0, <1>4, <2>1, <3>1, CloseTail
  <2>3. CloseLink(p, id)'
    BY <1>0, <1>4, <2>1 DEF CloseLink, Sending, Listening, q
  <2> QED BY <2>2, <2>3
<1>16. DataInOrder'
  <2> SUFFICES ASSUME NEW id \in Id PROVE DataLink(p, id)' /\ DataLink(q, id)'
    BY <1>0 DEF DataInOrder
  <2>1. DataLink(p, id) /\ DataLink(q, id)
    BY <1>0 DEF OrderInv, DataInOrder
  <2>2. DataLink(q, id)'
    <3>1. Outbox(q)[1] # CloseChannelMsg(id)
      BY <1>1, <1>m DEF CloseChannelMsg
    <3>2. \/ id \in Gone(p)'
          \/ /\ Outbox(q)[1] # CloseChannelMsg(id)
             /\ Len(got'[p][id]) = IF Outbox(q)[1].type = "Data" /\ Outbox(q)[1].id = id
                                   THEN Len(got[p][id]) + 1 ELSE Len(got[p][id])
      BY <1>1, <1>4, <1>5, <1>7, <1>m, <3>1
    <3>3. (Outbox(q)[1].type = "Data" => Outbox(q)[1].n # 0) /\ channels' = channels
      BY <1>1, <1>3, <1>m
    <3> QED BY <1>0, <1>4, <2>1, <3>2, <3>3, DataShifted
  <2>3. DataLink(p, id)'
    <3>1. Len(got'[q][id]) = Len(got[q][id])
      BY <1>0, <1>7
    <3>2. Other(p) = q
      BY DEF q
    <3> QED BY <1>0, <1>3, <1>4, <1>8, <2>1, <3>1, <3>2 DEF DataLink, Sending, Listening
  <2> QED BY <2>2, <2>3
<1>17. QueuedAreCreated'
  BY <1>0, <1>3 DEF OrderInv, QueuedAreCreated
<1> QED BY <1>0, <1>9, <1>11, <1>12, <1>13, <1>14, <1>15, <1>16, <1>17 DEF OrderInv

(* The handling of CloseChannel keeps the invariant: both ends are gone then. *)
LEMMA ReceiveCloseOrder ==
  ASSUME OrderInv, NEW p \in Peer, Receive(p), ReceiveClose(p, Outbox(Other(p))[1]) PROVE OrderInv'
<1> DEFINE q == Other(p)  m == Outbox(q)[1]
<1>0. /\ Inv' /\ TypeOK /\ TypeOK' /\ SocketStates
      /\ q \in Peer /\ q # p /\ Other(q) = p /\ \A r \in Peer : r = p \/ r = q
      /\ UNCHANGED <<ws, storage, opening, sent>>
      /\ Outbox(q) # <<>> /\ Outbox(q)' = Tail(Outbox(q)) /\ Outbox(p)' = Outbox(p)
      /\ m \in Message /\ m.id \in Id /\ m.id \in Nat /\ m.n \in Nat
      /\ ws[p] = "OPEN"
      /\ ws["client"] = "CONNECTING" => wire'["client"] = wire["client"]
  BY ReceiveFacts
<1>1. m.type = "CloseChannel" /\ m.id <= nextId[p] /\ m.id <= nextId[q] /\ m.id \notin channels[q]
  <2>1. m.type = "CloseChannel"
    BY DEF ReceiveClose
  <2> QED BY <2>1, ReceiveFacts
<1>2. /\ \A r \in Peer : nextId[r] \in Nat /\ Outbox(r) \in Seq(Message)
      /\ \A id \in Id : id \in Nat
      /\ Root \notin Id
  BY <1>0, OutboxTypes DEF Id
<1>m. Outbox(q)[1] = m
  OBVIOUS
<1>3. /\ \/ /\ m.id \in channels[p]
            /\ readyState' = [readyState EXCEPT ![p][m.id] = "CLOSED"]
            /\ channels' = [channels EXCEPT ![p] = @ \ {m.id}]
         \/ m.id \notin channels[p] /\ UNCHANGED <<readyState, channels>>
      /\ scheduleEmptyEvent(p) \/ UNCHANGED microtasks
      /\ UNCHANGED <<nextId, got>>
  BY DEF ReceiveClose, Receiver, ForgetChannel, closedState
<1> HIDE DEF m, q
<1>4. /\ \A r \in Peer : channels'[r] = IF r = p THEN channels[r] \ {m.id} ELSE channels[r]
      /\ \A r \in Peer : channels'[r] \subseteq channels[r]
  <2>1. channels \in [Peer -> SUBSET Id]
    BY <1>0 DEF TypeOK
  <2>2. CASE channels' = [channels EXCEPT ![p] = @ \ {m.id}]
    BY <2>1, <2>2
  <2>3. CASE m.id \notin channels[p] /\ UNCHANGED channels
    BY <2>1, <2>3
  <2> QED BY <1>3, <2>2, <2>3
<1>5. \A r \in Peer, x \in {Root} \cup Id :
        readyState'[r][x] = IF r = p /\ x = m.id /\ x \in channels[p] THEN "CLOSED" ELSE readyState[r][x]
  <2>1. readyState \in [Peer -> [{Root} \cup Id -> State \cup {"none"}]]
    BY <1>0 DEF TypeOK
  <2> QED BY <1>3, <2>1
<1>6. /\ m.id \in Gone(q) /\ m.id \in Gone(p)'
      /\ \A r \in Peer, id \in Id : id \in Gone(r) => id \in Gone(r)'
      /\ \A r \in Peer, id \in Id : id \in Gone(r)' => id \in Gone(r) \/ (r = p /\ id = m.id)
  <2>1. m.id \in 1..nextId[p] /\ m.id \in 1..nextId[q]
    BY <1>0, <1>1, <1>2 DEF Id
  <2> QED BY <1>0, <1>1, <1>3, <1>4, <2>1 DEF Gone
<1>7. \A r \in Peer, id \in Id : Stored(r, id)' = Stored(r, id) /\ Written(r, id)' = Written(r, id)
  BY <1>0 DEF Stored, Written
<1>8. SocketStates'
  <2>1. /\ \A r \in Peer : readyState'[r][Root] = readyState[r][Root]
        /\ \A id \in Id : readyState'["server"][id] \in {"CLOSED", readyState["server"][id]}
    BY <1>0, <1>2, <1>5 DEF Peer
  <2>2. "client" \in Peer /\ "server" \in Peer
    BY DEF Peer
  <2> QED BY <1>0, <1>3, <2>1, <2>2, ScheduleQuiet DEF SocketStates
<1>9. Unborn'
  <2>1. \A r \in Peer, id \in Id : id > nextId[r] => readyState'[r][id] = readyState[r][id]
    BY <1>0, <1>1, <1>2, <1>5
  <2> QED BY <1>0, <1>3, <1>7, <2>1 DEF OrderInv, Unborn
<1>10. StoredInOrder'
  <2> SUFFICES ASSUME NEW id \in channels'["client"]
               PROVE  /\ Len(storage'[id]) <= sent'["client"][id]
                      /\ \A i \in 1..Len(storage'[id]) :
                           storage'[id][i] = DataMsg(id, Written("client", id)' + i)
                      /\ readyState'["client"][id] = "OPEN" => storage'[id] = <<>>
    BY DEF StoredInOrder
  <2>1. "client" \in Peer /\ id \in channels["client"] /\ id \in Id
    BY <1>0, <1>4 DEF TypeOK, Peer
  <2>2. readyState'["client"][id] = "OPEN" => readyState["client"][id] = "OPEN"
    BY <1>5, <2>1
  <2> QED BY <1>0, <1>7, <2>1, <2>2 DEF OrderInv, StoredInOrder
<1>11. Outgoing'
  <2>1. OutgoingLink(q)'
    <3>1. channels'[q] = channels[q] /\ nextId'[q] = nextId[q]
      BY <1>0, <1>3, <1>4
    <3> QED BY <1>0, <3>1, OutgoingTail DEF OrderInv, Outgoing
  <2>2. OutgoingLink(p)'
    <3>1. OutgoingLink(p)
      BY DEF OrderInv, Outgoing
    <3> QED BY <1>0, <1>3, <1>4, <3>1 DEF OutgoingLink, Sendable
  <2> QED BY <1>0, <2>1, <2>2 DEF Outgoing
<1>12. CreatesInOrder'
  BY <1>1, <1>3, <1>m, CreatesPassed DEF q
<1>13. CloseOnItsWay'
  <2> SUFFICES ASSUME NEW id \in Id PROVE CloseLink(p, id)' /\ CloseLink(q, id)'
    BY <1>0 DEF CloseOnItsWay
  <2>1. CloseLink(p, id) /\ CloseLink(q, id)
    BY <1>0 DEF OrderInv, CloseOnItsWay
  <2>2. CloseLink(q, id)'
    <3>1. Outbox(q)[1] # CloseChannelMsg(id) \/ id \in Gone(p)'
      BY <1>6, <1>m DEF CloseChannelMsg
    <3>2. (id \in Gone(q)' => id \in Gone(q)) /\ (id \in Gone(p) => id \in Gone(p)')
      BY <1>0, <1>6
    <3> QED BY <1>0, <2>1, <3>1, <3>2, CloseTail
  <2>3. CloseLink(p, id)'
    <3>1. id \in Gone(p)' /\ id \notin Gone(q)' => id \in Gone(p) /\ id \notin Gone(q)
      BY <1>0, <1>6
    <3>2. Other(p) = q
      BY DEF q
    <3> QED BY <1>0, <2>1, <3>1, <3>2 DEF CloseLink, Sending, Listening
  <2> QED BY <2>2, <2>3
<1>14. DataInOrder'
  <2> SUFFICES ASSUME NEW id \in Id PROVE DataLink(p, id)' /\ DataLink(q, id)'
    BY <1>0 DEF DataInOrder
  <2>1. DataLink(p, id) /\ DataLink(q, id)
    BY <1>0 DEF OrderInv, DataInOrder
  <2>2. DataLink(q, id)'
    <3>1. Outbox(q)[1].type # "Data" /\ got' = got /\ channels'[q] = channels[q]
      BY <1>0, <1>1, <1>3, <1>4, <1>m
    <3>2. \/ id \in Gone(p)'
          \/ /\ Outbox(q)[1] # CloseChannelMsg(id)
             /\ Len(got'[p][id]) = IF Outbox(q)[1].type = "Data" /\ Outbox(q)[1].id = id
                                   THEN Len(got[p][id]) + 1 ELSE Len(got[p][id])
      BY <1>6, <1>m, <3>1 DEF CloseChannelMsg
    <3>3. id \in Gone(p) => id \in Gone(p)'
      BY <1>6
    <3> QED BY <1>0, <2>1, <3>1, <3>2, <3>3, DataShifted
  <2>3. DataLink(p, id)'
    <3>1. (id \in channels'[p] => id \in channels[p]) /\ (id \in Gone(q) => id \in Gone(q)')
      BY <1>0, <1>4, <1>6
    <3>2. Other(p) = q
      BY DEF q
    <3> QED BY <1>0, <1>3, <1>7, <2>1, <3>1, <3>2 DEF DataLink, Sending, Listening
  <2> QED BY <2>2, <2>3
<1>15. QueuedAreCreated'
  <2>1. "client" \in Peer
    BY DEF Peer
  <2> QED BY <1>0, <1>2, <1>3, <2>1, ScheduleQuiet DEF OrderInv, QueuedAreCreated
<1> QED BY <1>0, <1>8, <1>9, <1>10, <1>11, <1>12, <1>13, <1>14, <1>15 DEF OrderInv

(* onMessageHandler keeps the invariant. *)
LEMMA ReceiveOrder ==
  ASSUME OrderInv, NEW p \in Peer, Receive(p) PROVE OrderInv'
<1> DEFINE m == Outbox(Other(p))[1]
<1>1. ReceiveCreate(p, m) \/ ReceiveData(p, m) \/ ReceiveClose(p, m)
  BY ReceiveFacts
<1> QED BY <1>1, ReceiveCreateOrder, ReceiveDataOrder, ReceiveCloseOrder

-----------------------------------------------------------------------------
(*****************************************************************************)
(* The theorems on what channels promise.                                    *)
(*****************************************************************************)

(* The invariant holds at the start. *)
LEMMA InitOrder == Init => OrderInv
<1> SUFFICES ASSUME Init PROVE OrderInv
  OBVIOUS
<1>0. Inv /\ TypeOK
  BY InitInv DEF Inv
<1>1. /\ \A p \in Peer : Outbox(p) = <<>> /\ Len(Outbox(p)) = 0
      /\ \A p \in Peer : channels[p] = {} /\ nextId[p] = 0
      /\ \A p \in Peer, id \in Id : sent[p][id] = 0 /\ got[p][id] = <<>> /\ Len(got[p][id]) = 0
      /\ \A p \in Peer, id \in Id : readyState[p][id] = "none"
      /\ \A p \in Peer : Other(p) \in Peer
      /\ \A id \in Id : storage[id] = <<>> /\ id \in Nat
      /\ "client" \in Peer /\ "server" \in Peer
      /\ MaxChannels \in Nat
  <2>1. /\ \A p \in Peer : Outbox(p) = <<>>
        /\ \A p \in Peer : channels[p] = {} /\ nextId[p] = 0
        /\ \A p \in Peer : Other(p) \in Peer
        /\ "client" \in Peer /\ "server" \in Peer
    BY DEF Init, Outbox, Peer, Other
  <2>2. \A p \in Peer, id \in Id : sent[p][id] = 0 /\ got[p][id] = <<>>
    BY DEF Init
  <2>3. \A id \in Id : storage[id] = <<>> /\ id \in Nat /\ id # Root
    BY DEF Init, Id, Root
  <2>4. \A p \in Peer, id \in Id : readyState[p][id] = "none"
    BY <2>3 DEF Init
  <2> QED BY <2>1, <2>2, <2>3, <2>4, BoundsAssumption
<1>2. \A p \in Peer, id \in Id : id \notin Gone(p) /\ id \notin channels[p]
  BY <1>1 DEF Gone
<1>3. 1..0 = {} /\ 1..1 = {1}
  OBVIOUS
<1>4. SocketStates
  <2>1. \A p \in Peer : Len(microtasks[p]) = 1 /\ microtasks[p][1] = EmptyCheck
    BY DEF Init
  <2> QED BY <1>1, <1>3, <2>1 DEF SocketStates, Init, Peer
<1>5. Unborn
  BY <1>1 DEF Unborn, Stored
<1>6. QueuedAreCreated
  <2>1. Len(microtasks["client"]) = 1 /\ microtasks["client"][1] = EmptyCheck
    BY DEF Init, Peer
  <2> QED BY <1>1, <1>3, <2>1 DEF QueuedAreCreated, Init, EmptyCheck
<1>7. StoredInOrder
  BY <1>1 DEF StoredInOrder
<1>8. Outgoing
  BY <1>1, <1>3 DEF Outgoing, OutgoingLink
<1>9. CreatesInOrder
  <2>1. Created(<<>>) = [i \in 1..0 |-> 0]
    BY <1>3 DEF Created
  <2>2. DOMAIN Created(<<>>) = {}
    BY <1>3, <2>1
  <2> QED BY <1>1, <1>3, <2>2 DEF CreatesInOrder, CreatesAhead, CreatesAll, CountsUp, UpTo
<1>10. CloseOnItsWay
  BY <1>2 DEF CloseOnItsWay, CloseLink
<1>11. DataInOrder
  <2>1. \A id \in Id : DOMAIN Numbers(<<>>, id) = {}
    BY <1>3 DEF Numbers
  <2> QED BY <1>1, <1>2, <2>1 DEF DataInOrder, DataLink, CountsUp, AtMost
<1> QED BY <1>0, <1>4, <1>5, <1>6, <1>7, <1>8, <1>9, <1>10, <1>11 DEF OrderInv

(* Every step keeps the invariant. *)
LEMMA StepOrder == OrderInv /\ [Next]_vars => OrderInv'
<1> SUFFICES ASSUME OrderInv, [Next]_vars PROVE OrderInv'
  OBVIOUS
<1>1. CASE createChannel
  BY <1>1, CreateChannelOrder
<1>2. ASSUME NEW p \in Peer, NEW id \in Id, send(p, id) PROVE OrderInv'
  BY <1>2, SendOrder
<1>3. ASSUME NEW p \in Peer, NEW id \in Id, close(p, id) PROVE OrderInv'
  BY <1>3, CloseOrder
<1>4. CASE SocketOpen
  BY <1>4, SocketOpenOrder
<1>5. CASE RootOpened
  BY <1>5, RootOpenedOrder
<1>6. ASSUME NEW p \in Peer, RunMicrotask(p) PROVE OrderInv'
  BY <1>6, RunMicrotaskOrder
<1>7. ASSUME NEW p \in Peer, Receive(p) PROVE OrderInv'
  BY <1>7, ReceiveOrder
<1>8. ASSUME NEW p \in Peer, SocketClosed(p) PROVE OrderInv'
  BY <1>8, SocketClosedOrder
<1>9. CASE UNCHANGED vars
  <2>1. Inv'
    BY <1>9, StepInv DEF OrderInv
  <2>2. SocketStates' /\ Unborn' /\ QueuedAreCreated' /\ StoredInOrder'
    BY <1>9 DEF OrderInv, vars, SocketStates, Unborn, QueuedAreCreated, StoredInOrder, Stored, Written
  <2>3. Outgoing' /\ CreatesInOrder'
    BY <1>9 DEF OrderInv, vars, Outgoing, OutgoingLink, CreatesInOrder, Outbox, Sending, Listening
  <2>4. CloseOnItsWay'
    BY <1>9 DEF OrderInv, vars, CloseOnItsWay, CloseLink, Outbox, Sending, Listening, Gone
  <2>5. DataInOrder'
    BY <1>9 DEF OrderInv, vars, DataInOrder, DataLink, Outbox, Sending, Listening, Gone, Stored, Written
  <2> QED BY <2>1, <2>2, <2>3, <2>4, <2>5 DEF OrderInv
<1> QED BY <1>1, <1>2, <1>3, <1>4, <1>5, <1>6, <1>7, <1>8, <1>9 DEF Next

(* close(): at any number of channels and messages, an end that was given up *)
(* at one peer and lives at the other has its CloseChannel on the wire.      *)
THEOREM CloseArrives == Spec => []CloseReachesPeer
<1>1. OrderInv => CloseReachesPeer
  <2> SUFFICES ASSUME OrderInv, NEW p \in Peer, NEW id \in Id, \A q \in Peer : ws[q] = "OPEN",
                      id \in channels[p], id \in Gone(Other(p))
               PROVE  \E i \in DOMAIN wire[Other(p)] : wire[Other(p)][i] = CloseChannelMsg(id)
    BY DEF CloseReachesPeer
  <2>1. TypeOK /\ Other(p) \in Peer /\ Other(Other(p)) = p
    BY OutboxTypes DEF OrderInv, Inv
  <2>2. CloseLink(Other(p), id)
    BY <2>1 DEF OrderInv, CloseOnItsWay
  <2>3. Sending(Other(p)) /\ Listening(p) /\ id \notin Gone(p) /\ Outbox(Other(p)) = wire[Other(p)]
    BY <2>1 DEF Sending, Listening, Gone, Outbox
  <2>4. \E i \in 1..Len(wire[Other(p)]) : wire[Other(p)][i] = CloseChannelMsg(id)
    BY <2>1, <2>2, <2>3 DEF CloseLink
  <2>5. DOMAIN wire[Other(p)] = 1..Len(wire[Other(p)])
    BY <2>1 DEF TypeOK
  <2> QED BY <2>4, <2>5
<1> QED BY InitOrder, StepOrder, <1>1, PTL DEF Spec

(* At the start no channel has begun. *)
LEMMA PromiseInit == Init => \A id \in Id : Promise(id)!Init
BY DEF Init, Promise!Init, Phase, Promise!Ends, Peer, Gone

(* What channel id shows of a step. *)
Shown(id) ==
  /\ \A p \in Peer : Phase(p, id)' = Phase(p, id)
  /\ \A p \in Peer : sent'[p][id] = sent[p][id]
  /\ \A p \in Peer : got'[p][id] = got[p][id]

(* A step that a channel does not show is a stutter of its promise. *)
LEMMA Stutters ==
  ASSUME NEW id \in Id, Shown(id) PROVE Promise(id)!Step
BY DEF Shown, Promise!Step, Promise!Next

(* The four steps of the promise of a channel. *)
LEMMA Changes ==
  ASSUME NEW id \in Id, NEW p \in Peer
  PROVE  /\ (/\ Phase(p, id) = "none" /\ Phase(p, id)' = "live"
             /\ p = "server" => Phase("client", id) # "none"
             /\ \A r \in Peer : r # p => Phase(r, id)' = Phase(r, id)
             /\ \A r \in Peer : sent'[r][id] = sent[r][id] /\ got'[r][id] = got[r][id])
            => Promise(id)!Step
         /\ (/\ Phase(p, id) = "live" /\ Phase(p, id)' = "gone"
             /\ \A r \in Peer : r # p => Phase(r, id)' = Phase(r, id)
             /\ \A r \in Peer : sent'[r][id] = sent[r][id] /\ got'[r][id] = got[r][id])
            => Promise(id)!Step
         /\ (/\ Phase(p, id) # "none" /\ sent'[p][id] = sent[p][id] + 1
             /\ \A r \in Peer : r # p => sent'[r][id] = sent[r][id]
             /\ \A r \in Peer : Phase(r, id)' = Phase(r, id) /\ got'[r][id] = got[r][id])
            => Promise(id)!Step
         /\ (/\ Phase(p, id) = "live" /\ Len(got[p][id]) < sent[Other(p)][id]
             /\ got'[p][id] = Append(got[p][id], Len(got[p][id]) + 1)
             /\ \A r \in Peer : r # p => got'[r][id] = got[r][id]
             /\ \A r \in Peer : Phase(r, id)' = Phase(r, id) /\ sent'[r][id] = sent[r][id])
            => Promise(id)!Step
BY DEF Promise!Step, Promise!Next, Promise!Begin, Promise!Send, Promise!Deliver, Promise!End,
     Promise!Ends, Promise!Opposite, Peer, Other

(* The phase of an end, in terms of the Map and of the ids handed out. *)
LEMMA PhaseOf ==
  ASSUME Inv, NEW p \in Peer, NEW id \in Id
  PROVE  /\ Phase(p, id) = IF id \in channels[p] THEN "live" ELSE IF id <= nextId[p] THEN "gone" ELSE "none"
         /\ id \in channels[p] => id <= nextId[p]
<1>1. nextId[p] \in Nat /\ id \in Nat /\ 1 <= id
  BY OutboxTypes DEF Inv, Id
<1>2. id \in 1..nextId[p] <=> id <= nextId[p]
  BY <1>1
<1>3. id \in channels[p] => id <= nextId[p]
  BY <1>2 DEF Inv, KeysAllocated
<1> QED BY <1>2, <1>3 DEF Phase, Gone

(* Every step of the multiplexer is, for every channel, a step of module   *)
(* Channel or a stutter.                                                   *)
LEMMA PromiseStep ==
  ASSUME OrderInv, OrderInv', [Next]_vars, NEW id \in Id PROVE Promise(id)!Step
<1> USE DEF Shown
<1>0. /\ Inv /\ Inv' /\ TypeOK
      /\ "client" \in Peer /\ "server" \in Peer /\ \A r \in Peer : r = "client" \/ r = "server"
      /\ \A r \in Peer : nextId[r] \in Nat /\ channels[r] \in SUBSET Id
      /\ \A x \in Id : x \in Nat
  <2>1. Inv /\ Inv' /\ TypeOK /\ TypeOK'
    BY DEF OrderInv, Inv
  <2>2. /\ \A r \in Peer : nextId[r] \in Nat
        /\ "client" \in Peer /\ "server" \in Peer
    BY <2>1, OutboxTypes
  <2>3. \A r \in Peer : channels[r] \in SUBSET Id
    BY <2>1 DEF TypeOK
  <2> QED BY <2>1, <2>2, <2>3 DEF Peer, Id
<1>1. \A p \in Peer : /\ Phase(p, id) = IF id \in channels[p] THEN "live"
                                         ELSE IF id <= nextId[p] THEN "gone" ELSE "none"
                      /\ id \in channels[p] => id <= nextId[p]
  BY <1>0, PhaseOf
<1>2. \A p \in Peer : Phase(p, id)' = IF id \in channels'[p] THEN "live"
                                      ELSE IF id <= nextId'[p] THEN "gone" ELSE "none"
  <2> SUFFICES ASSUME NEW p \in Peer
               PROVE  id \in channels'[p] \/ (id \in 1..nextId'[p] <=> id <= nextId'[p])
    BY DEF Phase, Gone
  <2>1. nextId'[p] \in 0..MaxChannels /\ MaxChannels \in Nat
    BY <1>0, BoundsAssumption DEF OrderInv, Inv, TypeOK
  <2>2. id \in Nat /\ 1 <= id
    BY DEF Id
  <2> QED BY <2>1, <2>2
<1>3. CASE createChannel
  <2> DEFINE c == nextId["client"] + 1
  <2>1. c = getNextId("client") /\ c \in Id
    BY <1>0, <1>3, NextIdIsNext DEF createChannel, Inv
  <2>2. /\ nextId' = [nextId EXCEPT !["client"] = c]
        /\ channels' = [channels EXCEPT !["client"] = @ \cup {c}]
        /\ UNCHANGED <<sent, got>>
    BY <1>3, <2>1 DEF createChannel
  <2>3. /\ nextId'["client"] = c /\ channels'["client"] = channels["client"] \cup {c}
        /\ nextId'["server"] = nextId["server"] /\ channels'["server"] = channels["server"]
    BY <1>0, <2>2 DEF TypeOK
  <2>4. Phase("server", id)' = Phase("server", id)
    BY <1>0, <1>1, <1>2, <2>3
  <2>5. CASE id = c
    <3>1. Phase("client", id) = "none" /\ Phase("client", id)' = "live"
      BY <1>0, <1>1, <1>2, <2>3, <2>5
    <3> QED BY <1>0, <2>2, <2>4, <3>1, Changes
  <2>6. CASE id # c
    <3>1. id <= c <=> id <= nextId["client"]
      BY <1>0, <2>6
    <3>2. Phase("client", id)' = Phase("client", id)
      BY <1>0, <1>1, <1>2, <2>3, <2>6, <3>1
    <3> QED BY <1>0, <2>2, <2>4, <3>2, Stutters
  <2> QED BY <2>5, <2>6
<1>4. ASSUME NEW p \in Peer, NEW c \in Id, send(p, c) PROVE Promise(id)!Step
  <2>1. /\ sent' = [sent EXCEPT ![p][c] = @ + 1]
        /\ readyState[p][c] # "none"
        /\ UNCHANGED <<channels, nextId, got>>
    BY <1>4 DEF send, SendsNow
  <2>2. \A r \in Peer, x \in Id : sent'[r][x] = IF r = p /\ x = c THEN sent[r][x] + 1 ELSE sent[r][x]
    BY <1>0, <2>1 DEF TypeOK
  <2>3. \A r \in Peer : Phase(r, id)' = Phase(r, id)
    BY <1>1, <1>2, <2>1
  <2>4. CASE id = c
    <3>1. c <= nextId[p]
      BY <1>0, <2>1 DEF OrderInv, Unborn
    <3>2. Phase(p, id) # "none"
      BY <1>1, <2>4, <3>1
    <3> QED BY <2>1, <2>2, <2>3, <2>4, <3>2, Changes
  <2>5. CASE id # c
    BY <2>1, <2>2, <2>3, <2>5, Stutters
  <2> QED BY <2>4, <2>5
<1>5. ASSUME NEW p \in Peer, NEW S, channels' = [channels EXCEPT ![p] = @ \ S],
             UNCHANGED <<nextId, sent, got>>
      PROVE  Promise(id)!Step
  <2>1. \A r \in Peer : channels'[r] = IF r = p THEN channels[r] \ S ELSE channels[r]
    BY <1>0, <1>5 DEF TypeOK
  <2>2. \A r \in Peer : r # p => Phase(r, id)' = Phase(r, id)
    BY <1>1, <1>2, <1>5, <2>1
  <2>3. CASE id \in channels[p] /\ id \in S
    <3>1. Phase(p, id) = "live" /\ Phase(p, id)' = "gone"
      BY <1>1, <1>2, <1>5, <2>1, <2>3
    <3> QED BY <1>5, <2>2, <3>1, Changes
  <2>4. CASE ~(id \in channels[p] /\ id \in S)
    <3>1. Phase(p, id)' = Phase(p, id)
      BY <1>1, <1>2, <1>5, <2>1, <2>4
    <3> QED BY <1>5, <2>2, <3>1, Stutters
  <2> QED BY <2>3, <2>4
<1>6. ASSUME UNCHANGED <<channels, nextId, sent, got>> PROVE Promise(id)!Step
  <2>1. \A r \in Peer : Phase(r, id)' = Phase(r, id)
    BY <1>1, <1>2, <1>6
  <2> QED BY <1>6, <2>1, Stutters
<1>7. ASSUME NEW p \in Peer, NEW c \in Id, close(p, c) PROVE Promise(id)!Step
  <2>1. /\ \/ UNCHANGED channels
           \/ channels' = [channels EXCEPT ![p] = @ \ {c}]
        /\ UNCHANGED <<nextId, sent, got>>
    BY <1>7 DEF close, ForgetChannel
  <2> QED BY <1>5, <1>6, <2>1
<1>8. CASE SocketOpen
  BY <1>6, <1>8 DEF SocketOpen
<1>9. CASE RootOpened
  BY <1>6, <1>9 DEF RootOpened
<1>10. ASSUME NEW p \in Peer, RunMicrotask(p) PROVE Promise(id)!Step
  BY <1>6, <1>10 DEF RunMicrotask
<1>11. ASSUME NEW p \in Peer, SocketClosed(p) PROVE Promise(id)!Step
  <2>1. channels' = [channels EXCEPT ![p] = @ \ channels[p]] /\ UNCHANGED <<nextId, sent, got>>
    BY <1>0, <1>11 DEF SocketClosed, TypeOK
  <2> QED BY <1>5, <2>1
<1>12. ASSUME NEW p \in Peer, Receive(p) PROVE Promise(id)!Step
  <2> DEFINE q == Other(p)  m == Outbox(q)[1]
  <2>1. /\ q \in Peer /\ q # p /\ m.id \in Id /\ m.n \in Nat /\ m.id <= nextId[q]
        /\ ReceiveCreate(p, m) \/ ReceiveData(p, m) \/ ReceiveClose(p, m)
        /\ UNCHANGED sent
    BY <1>12, ReceiveFacts
  <2>2. CASE ReceiveCreate(p, m)
    <3>1. p = "server" /\ q = "client" /\ m.id = nextId[p] + 1
      <4>1. m.type = "CreateChannel"
        BY <2>2 DEF ReceiveCreate
      <4>2. p = "server" /\ m.id = nextId[p] + 1
        BY <1>12, <4>1, ReceiveFacts
      <4> QED BY <4>2 DEF Other
    <3>2. /\ nextId' = [nextId EXCEPT ![p] = m.id] /\ channels' = [channels EXCEPT ![p] = @ \cup {m.id}]
          /\ UNCHANGED got
      <4> HIDE DEF m, q
      <4>1. nextId[p] < m.id
        BY <1>0, <3>1
      <4>2. nextId \in [Peer -> 0..MaxChannels]
        BY <1>0 DEF TypeOK
      <4> QED BY <2>2, <4>1, <4>2 DEF ReceiveCreate
    <3> HIDE DEF m, q
    <3>3. /\ nextId'["server"] = m.id /\ channels'["server"] = channels["server"] \cup {m.id}
          /\ nextId'["client"] = nextId["client"] /\ channels'["client"] = channels["client"]
      BY <1>0, <3>1, <3>2 DEF TypeOK
    <3>4. Phase("client", id)' = Phase("client", id)
      BY <1>0, <1>1, <1>2, <3>3
    <3>5. CASE id = m.id
      <4>1. Phase("server", id) = "none" /\ Phase("server", id)' = "live" /\ Phase("client", id) # "none"
        BY <1>0, <1>1, <1>2, <2>1, <3>1, <3>3, <3>5
      <4> QED BY <1>0, <2>1, <3>2, <3>4, <4>1, Changes
    <3>6. CASE id # m.id
      <4>1. id <= m.id <=> id <= nextId["server"]
        BY <1>0, <3>1, <3>6
      <4>2. Phase("server", id)' = Phase("server", id)
        BY <1>0, <1>1, <1>2, <3>3, <3>6, <4>1
      <4> QED BY <1>0, <2>1, <3>2, <3>4, <4>2, Stutters
    <3> QED BY <3>5, <3>6
  <2>3. CASE ReceiveData(p, m)
    <3>1. /\ got' = IF m.id \in channels[p] THEN [got EXCEPT ![p][m.id] = Append(@, m.n)] ELSE got
          /\ UNCHANGED <<channels, nextId>>
      BY <2>3 DEF ReceiveData, Receiver
    <3>2. \A r \in Peer : Phase(r, id)' = Phase(r, id)
      BY <1>1, <1>2, <3>1
    <3>3. CASE m.id \notin channels[p]
      BY <1>6, <2>1, <3>1, <3>3
    <3>4. CASE m.id \in channels[p]
      <4>1. m.n = Len(got[p][m.id]) + 1 /\ m.n <= sent[q][m.id]
        BY <1>12, <2>3, <3>4, DataHead
      <4> HIDE DEF m
      <4>2. got' = [got EXCEPT ![p][m.id] = Append(@, m.n)]
        BY <3>1, <3>4
      <4>3. \A r \in Peer, x \in Id : got'[r][x] = IF r = p /\ x = m.id THEN Append(got[r][x], m.n) ELSE got[r][x]
        BY <1>0, <4>2 DEF TypeOK
      <4>4. CASE id = m.id
        <5>1. Phase(p, id) = "live"
          BY <1>1, <3>4, <4>4
        <5>2. Len(got[p][id]) < sent[Other(p)][id]
          <6>1. Len(got[p][id]) \in Nat /\ sent[q][id] \in Nat
            BY <1>0, <2>1, OutboxTypes
          <6> QED BY <4>1, <4>4, <6>1
        <5>3. got'[p][id] = Append(got[p][id], Len(got[p][id]) + 1)
          BY <4>1, <4>3, <4>4
        <5> QED BY <2>1, <3>2, <4>3, <5>1, <5>2, <5>3, Changes
      <4>5. CASE id # m.id
        BY <2>1, <3>2, <4>3, <4>5, Stutters
      <4> QED BY <4>4, <4>5
    <3> QED BY <3>3, <3>4
  <2>4. CASE ReceiveClose(p, m)
    <3>1. /\ \/ channels' = [channels EXCEPT ![p] = @ \ {m.id}]
             \/ UNCHANGED channels
          /\ UNCHANGED <<nextId, got>>
      BY <2>4 DEF ReceiveClose, ForgetChannel
    <3> QED BY <1>5, <1>6, <2>1, <3>1
  <2> QED BY <2>1, <2>2, <2>3, <2>4
<1>13. CASE UNCHANGED vars
  BY <1>6, <1>13 DEF vars
<1> QED BY <1>3, <1>4, <1>7, <1>8, <1>9, <1>10, <1>11, <1>12, <1>13 DEF Next

(* Module Multiplexer implements module Channel for every channel: each end  *)
(* begins and ends at most once, and gets what the other end sent, in order. *)
THEOREM ImplementsChannel == Spec => ChannelsKeepPromise
<1>1. OrderInv /\ OrderInv' /\ [Next]_vars => [\A id \in Id : Promise(id)!Step]_vars
  BY PromiseStep
<1>2. Init => \A id \in Id : Promise(id)!Init
  BY PromiseInit
<1> QED BY InitOrder, StepOrder, <1>1, <1>2, PTL DEF Spec, ChannelsKeepPromise
=============================================================================
