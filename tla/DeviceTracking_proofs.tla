------------------------ MODULE DeviceTracking_proofs ------------------------
(***************************************************************************)
(* Proofs about DeviceTracking, for any devices, connections and failures: *)
(* the types and NoUpdateLost.                                             *)
(***************************************************************************)
EXTENDS DeviceTracking, SequenceTheorems, TLAPS

ListState == {"absent", "device", "offline"}
List == [Device -> ListState]
Descriptor == [state : {"unknown", "device", "offline", "disconnected"}, info : Nat]

(* Types of all variables, by who keeps them. *)
AdbTypes == actual \in List /\ changes \in Nat /\ failures \in Nat

CenterTypes ==
  /\ pc \in [Caller -> {"no", "tracking", "listing", "done", "failed"}]
  /\ initialized \in BOOLEAN
  /\ tracker \in {0} \cup TrackerId
  /\ status \in [TrackerId -> {"none", "alive", "dead", "stopped"}]
  /\ lists \in [TrackerId -> Seq(List)]
  /\ view \in [TrackerId -> List]
  /\ restart \in {"no", "pending", "used"}

DeviceTypes ==
  /\ descriptors \in SUBSET Device
  /\ desc \in [Device -> Descriptor]
  /\ recent \in [Device -> BOOLEAN]
  /\ timer \in [Device -> BOOLEAN]
  /\ table \in [Device -> Descriptor]

ConnTypes ==
  /\ conn \in {0} \cup Connection /\ used \in 0..MaxConnections
  /\ listening \in SUBSET Connection

TypeOK == AdbTypes /\ CenterTypes /\ DeviceTypes /\ ConnTypes

(* A Device that was told of, or will be by its timer, is in deviceMap. *)
Known ==
  \A d \in Device : d \in descriptors \/ recent[d] \/ timer[d] => desc[d].state # "unknown"

(* Connections are numbered as they are made, so that one that is yet to   *)
(* be made neither listens nor awaits init.                                *)
Numbered ==
  /\ \A k \in listening : k <= used
  /\ \A k \in Connection : k > used => pc[k] = "no"

(* The inductive invariant. *)
Inv == TypeOK /\ Known /\ Numbered /\ NoUpdateLost

(* What a step says of the part that the property is about: devices D are  *)
(* told to the client, L that it gets the list.  A device whose descriptor *)
(* changes is told, or waits for its timer, or is not in the list.         *)
Tells(D, L) ==
  /\ desc' \in [Device -> Descriptor] /\ table' \in [Device -> Descriptor]
  /\ descriptors' = descriptors \cup D /\ D \subseteq Device
  /\ recent' \in [Device -> BOOLEAN] /\ timer' \in [Device -> BOOLEAN]
  /\ Known'
  /\ \A d \in Device : d \in D \/ (desc'[d] = desc[d] /\ (timer[d] => timer'[d])) \/ timer'[d]
                       \/ d \notin descriptors'
  /\ table' = IF L THEN ReceivesList ELSE ReceivesDevices(D)

-----------------------------------------------------------------------------

(* Init establishes the invariant. *)
LEMMA InitInv == Init => Inv
<1> SUFFICES ASSUME Init PROVE Inv
  OBVIOUS
<1>1. Absent \in List /\ Unknown \in Descriptor
  BY DEF Absent, List, ListState, Unknown, Descriptor
<1>2. actual \in List
  BY DEF Init, List, ListState
<1>3. AdbTypes
  BY <1>2 DEF Init, AdbTypes
<1>4. CenterTypes
  <2>1. pc \in [Caller -> {"no", "tracking", "listing", "done", "failed"}]
    BY DEF Init
  <2>2. lists \in [TrackerId -> Seq(List)]
    BY EmptySeq DEF Init
  <2>3. status \in [TrackerId -> {"none", "alive", "dead", "stopped"}] /\ view \in [TrackerId -> List]
    BY <1>1 DEF Init
  <2> QED BY <2>1, <2>2, <2>3 DEF Init, CenterTypes
<1>5. DeviceTypes
  BY <1>1 DEF Init, DeviceTypes
<1>6. ConnTypes
  BY BoundsAssumption DEF Init, ConnTypes
<1>7. Known /\ Numbered /\ NoUpdateLost
  BY BoundsAssumption DEF Init, Known, Numbered, NoUpdateLost, Unknown,
     Connection, Boot, Caller
<1> QED BY <1>3, <1>4, <1>5, <1>6, <1>7 DEF Inv, TypeOK

(* What is told keeps the table up to date.                                *)
LEMMA ToldIsShown ==
  ASSUME Inv, NEW D, NEW L \in BOOLEAN, Tells(D, L), L \/ (conn' \in listening' => conn \in listening)
  PROVE  NoUpdateLost'
<1>0. descriptors \subseteq Device /\ D \subseteq Device /\ descriptors' = descriptors \cup D
  BY DEF Inv, TypeOK, DeviceTypes, Tells
<1> SUFFICES ASSUME conn' \in listening', NEW d \in descriptors' PROVE table'[d] = desc'[d] \/ timer'[d]
  BY DEF NoUpdateLost
<1>1. d \in Device
  BY <1>0
<1>2. CASE L
  BY <1>1, <1>2 DEF Tells, ReceivesList
<1>3. CASE ~L
  <2>1. table'[d] = IF d \in D THEN desc'[d] ELSE table[d]
    BY <1>1, <1>3 DEF Tells, ReceivesDevices
  <2>2. CASE d \in D
    BY <2>1, <2>2
  <2>3. CASE d \notin D
    <3>1. table[d] = desc[d] \/ timer[d]
      BY <1>0, <1>3, <2>3 DEF Inv, NoUpdateLost
    <3> QED BY <1>1, <2>1, <2>3, <3>1 DEF Tells
  <2> QED BY <2>2, <2>3
<1> QED BY <1>2, <1>3

(* handleConnected tells of the devices in D that are known and were not   *)
(* told of just now; the others wait for their timers or are new.          *)
LEMMA ConnectedTells ==
  ASSUME Inv, NEW D \in SUBSET Device, NEW s,
         \A d \in D : s[d] \in {"device", "offline", "disconnected"}, handleConnected(D, s),
         NEW L \in BOOLEAN, table' = IF L THEN ReceivesList ELSE ReceivesDevices(Heard(D))
  PROVE  Tells(Heard(D), L)
<1>0. /\ desc \in [Device -> Descriptor] /\ table \in [Device -> Descriptor]
      /\ recent \in [Device -> BOOLEAN] /\ timer \in [Device -> BOOLEAN]
      /\ descriptors \subseteq Device
  BY DEF Inv, TypeOK, DeviceTypes
<1>1. \A d \in Device : desc'[d] = IF d \in D THEN [desc[d] EXCEPT !.state = s[d]] ELSE desc[d]
  BY DEF handleConnected, Reported
<1>2. \A d \in Device : desc[d] \in Descriptor
  BY <1>0
<1>3. \A d \in D : desc'[d] \in Descriptor /\ desc'[d].state = s[d]
  <2> SUFFICES ASSUME NEW d \in D
               PROVE  desc'[d] \in Descriptor /\ desc'[d].state = s[d]
    OBVIOUS
  <2>1. desc'[d] = [desc[d] EXCEPT !.state = s[d]] /\ desc[d] \in Descriptor
    BY <1>1, <1>2
  <2> QED BY <2>1 DEF Descriptor
<1>4. desc' \in [Device -> Descriptor]
  <2>1. desc' = [d \in Device |-> desc'[d]]
    BY DEF handleConnected, Reported
  <2>2. \A d \in Device : desc'[d] \in Descriptor
    BY <1>1, <1>2, <1>3
  <2> QED BY <2>1, <2>2
<1>5. /\ recent' = [d \in Device |-> recent[d] \/ d \in D]
      /\ timer' = [d \in Device |-> timer[d] \/ (d \in D /\ (recent[d] \/ s[d] # "device"))]
      /\ descriptors' = descriptors \cup Heard(D)
  BY DEF handleConnected, onDeviceUpdate
<1>6. recent' \in [Device -> BOOLEAN] /\ timer' \in [Device -> BOOLEAN]
  BY <1>0, <1>5
<1>7. Heard(D) \subseteq Device
  BY DEF Heard
<1>8. Known'
  <2> SUFFICES ASSUME NEW d \in Device, d \in descriptors' \/ recent'[d] \/ timer'[d]
               PROVE  desc'[d].state # "unknown"
    BY DEF Known
  <2>1. CASE d \in D
    BY <1>3, <2>1
  <2>2. CASE d \notin D
    <3>1. d \in descriptors \/ recent[d] \/ timer[d]
      BY <1>5, <2>2 DEF Heard
    <3> QED BY <1>1, <2>2, <3>1 DEF Inv, Known
  <2> QED BY <2>1, <2>2
<1>9. \A d \in Device : \/ d \in Heard(D)
                        \/ desc'[d] = desc[d] /\ (timer[d] => timer'[d])
                        \/ timer'[d]
                        \/ d \notin descriptors'
  <2> SUFFICES ASSUME NEW d \in Device, d \notin Heard(D), d \in D
               PROVE  timer'[d] \/ d \notin descriptors'
    BY <1>1, <1>5
  <2>1. CASE recent[d]
    BY <1>5, <2>1
  <2>2. CASE ~recent[d]
    <3>1. desc[d].state = "unknown"
      BY <2>2 DEF Heard
    <3> QED BY <1>5, <3>1 DEF Inv, Known
  <2> QED BY <2>1, <2>2
<1>10. table' \in [Device -> Descriptor]
  <2>1. Unknown \in Descriptor
    BY DEF Unknown, Descriptor
  <2> QED BY <1>0, <1>4, <2>1 DEF ReceivesList, ReceivesDevices
<1> QED BY <1>4, <1>5, <1>6, <1>7, <1>8, <1>9, <1>10 DEF Tells

-----------------------------------------------------------------------------

(* A step that tells of devices, with the types of the rest.               *)
LEMMA ToldIsKept ==
  ASSUME Inv, NEW D, NEW L \in BOOLEAN, Tells(D, L), L \/ (conn' \in listening' => conn \in listening),
         AdbTypes', CenterTypes', ConnTypes', Numbered'
  PROVE  Inv'
<1>1. NoUpdateLost'
  BY ToldIsShown
<1>2. DeviceTypes' /\ Known'
  BY DEF Tells, Inv, TypeOK, DeviceTypes
<1> QED BY <1>1, <1>2 DEF Inv, TypeOK

(* A step that leaves descriptors and table alone.                         *)
LEMMA UntoldIsKept ==
  ASSUME Inv, UNCHANGED <<deviceVars, table>>, conn' \in listening' => conn \in listening,
         AdbTypes', CenterTypes', ConnTypes', Numbered'
  PROVE  Inv'
<1>1. Known' /\ NoUpdateLost' /\ DeviceTypes'
  BY DEF Inv, deviceVars, Known, NoUpdateLost, TypeOK, DeviceTypes
<1> QED BY <1>1 DEF Inv, TypeOK

(* What the variables of a group keep when the step leaves them alone.     *)
LEMMA CenterIsKept ==
  ASSUME Inv, UNCHANGED centerVars
  PROVE  CenterTypes'
BY DEF Inv, TypeOK, CenterTypes, centerVars

LEMMA ConnIsKept ==
  ASSUME Inv, UNCHANGED connVars
  PROVE  ConnTypes' /\ (conn' \in listening' => conn \in listening) /\ (pc' = pc => Numbered')
BY DEF Inv, TypeOK, ConnTypes, connVars, Numbered

LEMMA AdbIsKept ==
  ASSUME Inv, UNCHANGED adbVars, failures' \in Nat
  PROVE  AdbTypes'
BY DEF Inv, TypeOK, AdbTypes, adbVars

(* adb's list changes.                                                     *)
LEMMA AdbChangesKept ==
  ASSUME Inv, NEW d \in Device, NEW s \in ListState, AdbChanges(d, s)
  PROVE  Inv'
<1>1. actual' \in List /\ changes' \in Nat /\ failures' \in Nat
  BY DEF AdbChanges, Inv, TypeOK, AdbTypes, List
<1>2. lists' \in [TrackerId -> Seq(List)]
  <2>1. \A t \in TrackerId : lists[t] \in Seq(List)
    BY DEF Inv, TypeOK, CenterTypes
  <2>2. \A t \in TrackerId : Append(lists[t], actual') \in Seq(List)
    BY <1>1, <2>1, AppendProperties
  <2>3. lists' = [t \in TrackerId |-> IF t \in Alive THEN Append(lists[t], actual') ELSE lists[t]]
    BY DEF AdbChanges
  <2> HIDE DEF List
  <2> QED BY <2>1, <2>2, <2>3
<1>3. CenterTypes'
  BY <1>2 DEF AdbChanges, Inv, TypeOK, CenterTypes
<1> QED BY <1>1, <1>3, ConnIsKept, UntoldIsKept DEF AdbChanges, AdbTypes

(* emitUpdate and the throttle.                                            *)
LEMMA InfoChangedKept ==
  ASSUME Inv, NEW d \in Device, InfoChanged(d)
  PROVE  Inv'
<1> DEFINE D == IF recent[d] THEN {} ELSE {d}
<1>0. /\ desc \in [Device -> Descriptor] /\ table \in [Device -> Descriptor]
      /\ recent \in [Device -> BOOLEAN] /\ timer \in [Device -> BOOLEAN]
      /\ descriptors \subseteq Device
  BY DEF Inv, TypeOK, DeviceTypes
<1>1. /\ desc' = [desc EXCEPT ![d].info = @ + 1] /\ desc[d].state = "device"
      /\ recent' = [recent EXCEPT ![d] = TRUE]
      /\ timer' = [timer EXCEPT ![d] = @ \/ recent[d]]
      /\ descriptors' = descriptors \cup D
      /\ table' = ReceivesDevices(D)
  BY DEF InfoChanged, emitUpdate, Waits, onDeviceUpdate
<1>2. \A e \in Device : /\ desc'[e] \in Descriptor
                        /\ desc'[e].state = desc[e].state
                        /\ e # d => desc'[e] = desc[e]
  <2>1. \A e \in Device : e # d => desc'[e] = desc[e]
    BY <1>0, <1>1
  <2>2. desc'[d] = [desc[d] EXCEPT !.info = @ + 1] /\ desc[d] \in Descriptor
    BY <1>0, <1>1
  <2>3. \A e \in Device : desc[e] \in Descriptor
    BY <1>0
  <2> QED BY <2>1, <2>2, <2>3 DEF Descriptor
<1>3. desc' \in [Device -> Descriptor] /\ table' \in [Device -> Descriptor]
  <2>1. desc' = [e \in Device |-> desc'[e]]
    BY <1>0, <1>1
  <2>2. desc' \in [Device -> Descriptor]
    BY <1>2, <2>1
  <2> QED BY <1>0, <1>1, <2>2 DEF ReceivesDevices
<1>4. recent' \in [Device -> BOOLEAN] /\ timer' \in [Device -> BOOLEAN]
  BY <1>0, <1>1
<1>5. Known'
  BY <1>0, <1>1, <1>2 DEF Known, Inv
<1>6. Tells(D, FALSE)
  <2>1. \A e \in Device : e \in D \/ (desc'[e] = desc[e] /\ (timer[e] => timer'[e])) \/ timer'[e]
    BY <1>0, <1>1, <1>2
  <2> QED BY <1>1, <1>2, <1>3, <1>4, <1>5, <2>1, ZenonT(30) DEF Tells
<1>7. AdbTypes' /\ CenterTypes' /\ ConnTypes' /\ Numbered' /\ (conn' \in listening' => conn \in listening)
  BY AdbIsKept, CenterIsKept, ConnIsKept DEF InfoChanged, Inv, TypeOK, AdbTypes, centerVars
<1> HIDE DEF D
<1> QED BY <1>6, <1>7, ToldIsKept

LEMMA ThrottleOverKept ==
  ASSUME Inv, NEW d \in Device, ThrottleOver(d)
  PROVE  Inv'
<1> DEFINE D == IF timer[d] THEN {d} ELSE {}
<1>0. /\ desc \in [Device -> Descriptor] /\ table \in [Device -> Descriptor]
      /\ recent \in [Device -> BOOLEAN] /\ timer \in [Device -> BOOLEAN]
      /\ descriptors \subseteq Device
  BY DEF Inv, TypeOK, DeviceTypes
<1>1. /\ desc' = desc /\ recent[d]
      /\ recent' = [recent EXCEPT ![d] = timer[d]]
      /\ timer' = [timer EXCEPT ![d] = FALSE]
      /\ descriptors' = descriptors \cup D
      /\ table' = ReceivesDevices(D)
  BY DEF ThrottleOver, onDeviceUpdate
<1>2. desc' \in [Device -> Descriptor] /\ table' \in [Device -> Descriptor]
  BY <1>0, <1>1 DEF ReceivesDevices
<1>3. recent' \in [Device -> BOOLEAN] /\ timer' \in [Device -> BOOLEAN]
  BY <1>0, <1>1
<1>4. Known'
  BY <1>0, <1>1 DEF Known, Inv
<1>5. Tells(D, FALSE)
  <2>1. \A e \in Device : e \in D \/ (desc'[e] = desc[e] /\ (timer[e] => timer'[e]))
    BY <1>0, <1>1
  <2> QED BY <1>1, <1>2, <1>3, <1>4, <2>1 DEF Tells
<1>6. AdbTypes' /\ CenterTypes' /\ ConnTypes' /\ Numbered' /\ (conn' \in listening' => conn \in listening)
  BY AdbIsKept, CenterIsKept, ConnIsKept DEF ThrottleOver, Inv, TypeOK, AdbTypes, centerVars
<1> HIDE DEF D
<1> QED BY <1>5, <1>6, ToldIsKept

-----------------------------------------------------------------------------

(* The calls of init.                                                      *)
LEMMA TrackedKept ==
  ASSUME Inv, NEW k \in Caller, Tracked(k)
  PROVE  Inv'
<1>1. PICK t \in TrackerId : /\ status' = [status EXCEPT ![t] = "alive"]
                             /\ lists' = [lists EXCEPT ![t] = <<actual>>]
                             /\ tracker' = t
  BY DEF Tracked
<1>2. lists' \in [TrackerId -> Seq(List)]
  <2>1. <<actual>> \in Seq(List) /\ lists \in [TrackerId -> Seq(List)]
    BY DEF Inv, TypeOK, AdbTypes, CenterTypes
  <2> HIDE DEF List
  <2> QED BY <1>1, <2>1
<1>3. CenterTypes'
  BY <1>1, <1>2 DEF Tracked, Inv, TypeOK, CenterTypes
<1>4. Numbered'
  BY DEF Tracked, Inv, Numbered, TypeOK, CenterTypes, connVars
<1> QED BY <1>3, <1>4, AdbIsKept, ConnIsKept, UntoldIsKept DEF Tracked, Inv, TypeOK, AdbTypes

LEMMA ListedKept ==
  ASSUME Inv, NEW k \in Caller, Listed(k)
  PROVE  Inv'
<1> DEFINE D == {d \in Device : actual[d] # "absent"}
           L == k = conn
<1>1. /\ handleConnected(D, actual)
      /\ table' = IF L THEN ReceivesList ELSE ReceivesDevices(Heard(D))
      /\ pc[k] = "listing" /\ pc' = [pc EXCEPT ![k] = "done"]
      /\ listening' = IF k \in Connection THEN listening \cup {k} ELSE listening
      /\ initialized' = TRUE /\ conn' = conn /\ used' = used
  BY DEF Listed, Resolved
<1>2. \A d \in D : actual[d] \in {"device", "offline", "disconnected"}
  BY DEF Inv, TypeOK, AdbTypes, List, ListState
<1>3. Tells(Heard(D), L)
  <2>1. D \in SUBSET Device /\ L \in BOOLEAN
    OBVIOUS
  <2> HIDE DEF D, L
  <2> QED BY <1>1, <1>2, <2>1, ConnectedTells
<1>4. Numbered'
  <2>1. used \in Nat /\ \A j \in listening : j <= used
    BY BoundsAssumption DEF Inv, Numbered, TypeOK, ConnTypes
  <2>2. \A j \in Connection : j > used => pc[j] = "no" /\ pc'[j] = "no"
    BY <1>1 DEF Inv, Numbered, TypeOK, CenterTypes
  <2>3. k \in Connection => k <= used
    BY <1>1, <2>1, <2>2, BoundsAssumption DEF Connection
  <2> QED BY <1>1, <2>1, <2>2, <2>3 DEF Numbered
<1>5. CenterTypes' /\ ConnTypes' /\ AdbTypes'
  BY <1>1 DEF Listed, Inv, TypeOK, AdbTypes, adbVars, CenterTypes, ConnTypes
<1>6. L \/ (conn' \in listening' => conn \in listening)
  BY <1>1
<1>7. L \in BOOLEAN
  OBVIOUS
<1> HIDE DEF D, L
<1> QED BY <1>3, <1>4, <1>5, <1>6, <1>7, ToldIsKept

LEMMA InitFailsKept ==
  ASSUME Inv, NEW k \in Caller, InitFails(k)
  PROVE  Inv'
<1>1. CenterTypes' /\ failures' \in Nat
  BY DEF InitFails, Inv, TypeOK, AdbTypes, CenterTypes
<1>2. Numbered'
  BY DEF InitFails, Inv, Numbered, TypeOK, CenterTypes, connVars
<1> QED BY <1>1, <1>2, AdbIsKept, ConnIsKept, UntoldIsKept DEF InitFails

(* A list of a tracker, and its end.                                       *)
LEMMA ChangeSetKept ==
  ASSUME Inv, NEW t \in TrackerId, ChangeSet(t)
  PROVE  Inv'
<1> DEFINE new == Head(lists[t])
           D == {d \in Device : new[d] # view[t][d]}
<1>1. /\ lists[t] \in Seq(List) /\ lists[t] # <<>>
      /\ handleConnected(D, DISCONNECTED(new))
      /\ table' = ReceivesDevices(Heard(D))
      /\ view' = [view EXCEPT ![t] = new]
      /\ lists' = [lists EXCEPT ![t] = Tail(@)]
  BY DEF ChangeSet, Inv, TypeOK, CenterTypes
<1>2. new \in List /\ Tail(lists[t]) \in Seq(List)
  BY <1>1, HeadTailProperties
<1>3. \A d \in D : DISCONNECTED(new)[d] \in {"device", "offline", "disconnected"}
  BY <1>2 DEF List, ListState, DISCONNECTED
<1>4. Tells(Heard(D), FALSE)
  <2>1. D \in SUBSET Device
    OBVIOUS
  <2> DEFINE s == DISCONNECTED(new)
  <2>2. handleConnected(D, s) /\ \A d \in D : s[d] \in {"device", "offline", "disconnected"}
    BY <1>1, <1>3
  <2>3. table' = IF FALSE THEN ReceivesList ELSE ReceivesDevices(Heard(D))
    BY <1>1
  <2> HIDE DEF D, s
  <2> QED BY <2>1, <2>2, <2>3, ConnectedTells
<1>5. CenterTypes'
  <2>1. lists \in [TrackerId -> Seq(List)] /\ view \in [TrackerId -> List]
    BY DEF Inv, TypeOK, CenterTypes
  <2>2. lists' \in [TrackerId -> Seq(List)] /\ view' \in [TrackerId -> List]
    <3> HIDE DEF List, new
    <3> QED BY <1>1, <1>2, <2>1
  <2> QED BY <2>2 DEF ChangeSet, Inv, TypeOK, CenterTypes
<1>6. AdbTypes' /\ ConnTypes' /\ Numbered' /\ (conn' \in listening' => conn \in listening)
  BY AdbIsKept, ConnIsKept DEF ChangeSet, Inv, TypeOK, AdbTypes
<1> HIDE DEF D, new
<1> QED BY <1>4, <1>5, <1>6, ToldIsKept

LEMMA TrackerDiesKept ==
  ASSUME Inv, NEW t \in TrackerId, TrackerDies(t)
  PROVE  Inv'
<1>1. Absent \in List /\ <<>> \in Seq(List)
  BY EmptySeq DEF Absent, List, ListState
<1>2. lists' \in [TrackerId -> Seq(List)] /\ view' \in [TrackerId -> List]
  <2>1. lists \in [TrackerId -> Seq(List)] /\ view \in [TrackerId -> List]
    BY DEF Inv, TypeOK, CenterTypes
  <2>2. lists' = [lists EXCEPT ![t] = <<>>] /\ view' = [view EXCEPT ![t] = Absent]
    BY DEF TrackerDies
  <2> HIDE DEF List
  <2> QED BY <1>1, <2>1, <2>2
<1>3. CenterTypes' /\ failures' \in Nat
  BY <1>2 DEF TrackerDies, Inv, TypeOK, AdbTypes, CenterTypes
<1> QED BY <1>3, AdbIsKept, ConnIsKept, UntoldIsKept DEF TrackerDies

LEMMA RestartKept ==
  ASSUME Inv, Restart
  PROVE  Inv'
<1>1. Absent \in List /\ <<>> \in Seq(List)
  BY EmptySeq DEF Absent, List, ListState
<1>2. lists' \in [TrackerId -> Seq(List)] /\ view' \in [TrackerId -> List]
  <2>1. lists \in [TrackerId -> Seq(List)] /\ view \in [TrackerId -> List]
    BY DEF Inv, TypeOK, CenterTypes
  <2>2. /\ lists' = [t \in TrackerId |-> IF t = tracker THEN <<>> ELSE lists[t]]
        /\ view' = [t \in TrackerId |-> IF t = tracker THEN Absent ELSE view[t]]
    BY DEF Restart
  <2> HIDE DEF List
  <2> QED BY <1>1, <2>1, <2>2
<1>3. pc' = [pc EXCEPT ![Restarted] = IF tracker' = 0 THEN "tracking" ELSE "listing"]
  BY DEF Restart, AwaitsFirst, uninitialized
<1>4. CenterTypes'
  BY <1>2, <1>3 DEF Restart, uninitialized, Inv, TypeOK, CenterTypes
<1>5. Restarted \notin Connection
  BY BoundsAssumption DEF Restarted, Connection
<1>6. Numbered'
  BY <1>3, <1>5 DEF Restart, Inv, Numbered, TypeOK, CenterTypes, connVars
<1> QED BY <1>4, <1>6, AdbIsKept, ConnIsKept, UntoldIsKept DEF Restart, Inv, TypeOK, AdbTypes

(* The client comes and goes.                                              *)
LEMMA ConnectKept ==
  ASSUME Inv, Connect
  PROVE  Inv'
<1>1. /\ used' = used + 1 /\ used < MaxConnections /\ conn' = used'
      /\ UNCHANGED <<tracker, deviceVars>>
      /\ \/ initialized /\ Resolved(used') /\ table' = ReceivesList
         \/ AwaitsFirst(used') /\ UNCHANGED <<listening, table>>
  BY DEF Connect
<1>2. used \in Nat /\ conn' \in Connection /\ used' \in Nat /\ used' \in 0..MaxConnections
  BY <1>1, BoundsAssumption DEF Inv, TypeOK, ConnTypes, Connection
<1>3. conn' \notin listening
  BY <1>1, <1>2 DEF Inv, Numbered
<1>4. AdbTypes'
  BY AdbIsKept DEF Connect, Inv, TypeOK, AdbTypes
<1>5. /\ pc' \in [Caller -> {"no", "tracking", "listing", "done", "failed"}]
      /\ \A k \in Connection : k > used' => pc'[k] = "no"
  <2>1. \E v \in {"tracking", "listing", "done"} : pc' = [pc EXCEPT ![used'] = v]
    BY <1>1 DEF Resolved, AwaitsFirst
  <2>2. pc \in [Caller -> {"no", "tracking", "listing", "done", "failed"}]
    BY DEF Inv, TypeOK, CenterTypes
  <2>3. \A k \in Connection : k > used => pc[k] = "no"
    BY DEF Inv, Numbered
  <2>4. \A k \in Connection : k > used' => k > used /\ k # used'
    BY <1>1, <1>2 DEF Connection
  <2> QED BY <2>1, <2>2, <2>3, <2>4 DEF Caller
<1>6. CenterTypes'
  BY <1>5 DEF Connect, Inv, TypeOK, CenterTypes
<1>7. /\ listening' \in SUBSET Connection
      /\ listening' \subseteq listening \cup {used'}
  BY <1>1 DEF Resolved, Inv, TypeOK, ConnTypes
<1>8. ConnTypes' /\ Numbered'
  BY <1>1, <1>2, <1>5, <1>7 DEF Inv, TypeOK, ConnTypes, Numbered, Connection
<1>9. CASE initialized /\ Resolved(used') /\ table' = ReceivesList
  <2>1. desc' = desc /\ descriptors' = descriptors /\ recent' = recent /\ timer' = timer
    BY <1>1 DEF deviceVars
  <2>2. DeviceTypes
    BY DEF Inv, TypeOK
  <2>3. desc' \in [Device -> Descriptor] /\ table' \in [Device -> Descriptor]
    BY <1>9, <2>1, <2>2 DEF ReceivesList, DeviceTypes, Unknown, Descriptor
  <2>4. Known'
    BY <2>1 DEF Known, Inv
  <2>5. Tells({}, TRUE)
    BY <1>9, <2>1, <2>2, <2>3, <2>4 DEF Tells, DeviceTypes
  <2> QED BY <1>4, <1>6, <1>8, <2>5, ToldIsKept
<1>10. CASE AwaitsFirst(used') /\ UNCHANGED <<listening, table>>
  BY <1>1, <1>3, <1>4, <1>6, <1>8, <1>10, UntoldIsKept
<1> QED BY <1>1, <1>9, <1>10

LEMMA DisconnectKept ==
  ASSUME Inv, Disconnect
  PROVE  Inv'
<1>1. 0 \notin listening
  BY DEF Inv, TypeOK, ConnTypes, Connection
<1>2. ConnTypes' /\ Numbered'
  BY DEF Disconnect, centerVars, Inv, TypeOK, ConnTypes, Numbered
<1>3. conn' \notin listening'
  BY <1>1 DEF Disconnect
<1> QED BY <1>2, <1>3, AdbIsKept, CenterIsKept, UntoldIsKept DEF Disconnect, Inv, TypeOK, AdbTypes

-----------------------------------------------------------------------------

(* Every step keeps the invariant.                                         *)
LEMMA StepKept ==
  ASSUME Inv, [Next]_vars
  PROVE  Inv'
<1>1. CASE UNCHANGED vars
  BY <1>1, AdbIsKept, CenterIsKept, ConnIsKept, UntoldIsKept
     DEF vars, connVars, centerVars, Inv, TypeOK, AdbTypes
<1>2. ASSUME NEW d \in Device, ThrottleOver(d) \/ InfoChanged(d)
      PROVE  Inv'
  BY <1>2, ThrottleOverKept, InfoChangedKept
<1>3. ASSUME NEW k \in Caller, Tracked(k) \/ Listed(k) \/ InitFails(k)
      PROVE  Inv'
  BY <1>3, TrackedKept, ListedKept, InitFailsKept
<1>4. ASSUME NEW t \in TrackerId, ChangeSet(t) \/ TrackerDies(t)
      PROVE  Inv'
  BY <1>4, ChangeSetKept, TrackerDiesKept
<1>5. ASSUME NEW d \in Device, NEW s \in {"absent", "device", "offline"}, AdbChanges(d, s)
      PROVE  Inv'
  BY <1>5, AdbChangesKept DEF ListState
<1>6. CASE Restart \/ Connect \/ Disconnect
  BY <1>6, RestartKept, ConnectKept, DisconnectKept
<1> QED BY <1>1, <1>2, <1>3, <1>4, <1>5, <1>6 DEF Next, Due

(* The invariant holds in every reachable state.                           *)
LEMMA Always == Spec => []Inv
<1>1. Inv /\ [Next]_vars => Inv'
  BY StepKept
<1> QED BY <1>1, InitInv, PTL DEF Spec

(* The variables keep their types: the server's, the trackers' and the     *)
(* client's.                                                               *)
THEOREM TypeCorrect == Spec => []TypeOK
<1>1. Inv => TypeOK
  BY DEF Inv
<1> QED BY <1>1, Always, PTL

(* A client that has got its list misses no update, however adb's changes, *)
(* the throttle of emitUpdate, failing trackers and calls of init(), and   *)
(* lost connections interleave.                                            *)
THEOREM NothingMissed == Spec => []NoUpdateLost
<1>1. Inv => NoUpdateLost
  BY DEF Inv
<1> QED BY <1>1, Always, PTL
=============================================================================
