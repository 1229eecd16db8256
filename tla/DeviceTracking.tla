--------------------------- MODULE DeviceTracking ---------------------------
(***************************************************************************)
(* From adb to the device list in the browser: adb's device tracker, the   *)
(* ControlCenter and its Devices on the server, one DeviceTracker per      *)
(* connection, and the table of BaseDeviceTracker in the client.           *)
(*                                                                         *)
(* A Device tells of a change at most every 300 ms (emitUpdate); what      *)
(* changes meanwhile waits for a timer.  Clients get one list when they    *)
(* connect and every device that changes after it.  The tracker's          *)
(* connection may fail, and so may init().                                 *)
(*                                                                         *)
(* External: adb.  It sends each tracker every change as a full list, and  *)
(* an answer of listDevices is taken to be no older than what a tracker    *)
(* has reported.  The version `info' of a descriptor stands for what       *)
(* fetchDeviceInfo, updateInterfaces and getServerPid find out: 0 is a     *)
(* Device that has not been asked yet.                                     *)
(* A connection is one channel of the Multiplexer, which keeps the order   *)
(* as Channel states, and the client only writes its table: a message is   *)
(* received when it is sent.                                               *)
(* Bounds: MaxChanges changes of adb's list, of which a tracker has at     *)
(* most MaxLag to process; MaxInfo versions; MaxFailures failures of a     *)
(* tracker or of init; MaxConnections of the client.                       *)
(***************************************************************************)
EXTENDS Naturals, Sequences

CONSTANTS Device, MaxChanges, MaxLag, MaxInfo, MaxFailures, MaxConnections

ASSUME BoundsAssumption ==
  {MaxChanges, MaxLag, MaxInfo, MaxFailures, MaxConnections} \subseteq Nat

Connection == 1..MaxConnections
Boot == MaxConnections + 2        \* the calls of ControlCenter.init: start(),
Restarted == MaxConnections + 1   \* the restart's and each connection's
Caller == Connection \cup {Boot, Restarted}
MaxTrackers == MaxConnections + 2
TrackerId == 1..MaxTrackers

VARIABLES
  actual,      \* adb's list: "absent", "device", "offline"
  changes, failures,
  \* ControlCenter
  pc,          \* where each call of init awaits
  initialized,
  tracker,     \* this.tracker, 0 if undefined
  status,      \* of each Tracker: "none", "alive", "dead", "stopped"
  lists,       \* lists adb has sent to it
  view,        \* the last of them it has processed
  restart,     \* restartTimeoutId: "no", "pending", "used"
  descriptors, \* devices in descriptors
  \* Device
  desc,        \* descriptor; state "unknown": not in deviceMap
  recent,      \* less than THROTTLE ms since lastEmit
  timer,       \* throttleTimeoutId
  \* DeviceTracker
  conn,        \* the open connection of the client, 0 if there is none
  used,        \* connections made
  listening,   \* connections with a 'device' listener
  \* BaseDeviceTracker
  table

adbVars == <<actual, changes>>
centerVars == <<pc, initialized, tracker, status, lists, view, restart>>
deviceVars == <<descriptors, desc, recent, timer>>
connVars == <<conn, used, listening>>
vars == <<adbVars, failures, centerVars, deviceVars, connVars, table>>

Absent == [d \in Device |-> "absent"]
Unknown == [state |-> "unknown", info |-> 0]

Init ==
  /\ actual \in [Device -> {"absent", "device"}]
  /\ changes = 0 /\ failures = 0
  /\ pc = [k \in Caller |-> IF k = Boot THEN "tracking" ELSE "no"]
  /\ initialized = FALSE
  /\ tracker = 0
  /\ status = [t \in TrackerId |-> "none"]
  /\ lists = [t \in TrackerId |-> <<>>]
  /\ view = [t \in TrackerId |-> Absent]
  /\ restart = "no"
  /\ descriptors = {}
  /\ desc = [d \in Device |-> Unknown]
  /\ recent = [d \in Device |-> FALSE]
  /\ timer = [d \in Device |-> FALSE]
  /\ conn = 0 /\ used = 0 /\ listening = {}
  /\ table = [d \in Device |-> Unknown]

Alive == {t \in TrackerId : status[t] = "alive"}

-----------------------------------------------------------------------------
(* adb *)

AdbChanges(d, s) ==
  /\ changes < MaxChanges
  /\ actual[d] # s
  /\ \A t \in Alive : Len(lists[t]) < MaxLag
  /\ changes' = changes + 1
  /\ actual' = [actual EXCEPT ![d] = s]
  /\ lists' = [t \in TrackerId |->
                 IF t \in Alive THEN Append(lists[t], actual') ELSE lists[t]]
  /\ UNCHANGED <<failures, pc, initialized, tracker, status, view, restart, deviceVars,
                 connVars, table>>

-----------------------------------------------------------------------------
(* Device.                                                                 *)

(* The client's table when its listener is told of devices D, and when it  *)
(* gets the list (BaseDeviceTracker.onSocketMessage).                      *)
ReceivesDevices(D) ==
  IF conn \in listening
  THEN [d \in Device |-> IF d \in D THEN desc'[d] ELSE table[d]]
  ELSE table
ReceivesList ==
  [d \in Device |-> IF d \in descriptors' THEN desc'[d] ELSE Unknown]

(* 'update' events of the devices D: onDeviceUpdate.                       *)
onDeviceUpdate(D) == descriptors' = descriptors \cup D

(* emitUpdate of device d.                                                 *)
WaitsNever(d) == FALSE                                    \* mutant
Waits(d) == recent[d]

emitUpdate(d) ==
  /\ recent' = [recent EXCEPT ![d] = TRUE]
  /\ timer' = [timer EXCEPT ![d] = @ \/ Waits(d)]
  /\ onDeviceUpdate(IF recent[d] THEN {} ELSE {d})
  /\ table' = ReceivesDevices(IF recent[d] THEN {} ELSE {d})

(* handleConnected for the devices D, now in the given states.  A new      *)
(* Device emits once before ControlCenter listens; one that is not         *)
(* connected emits again from fetchDeviceInfo, which the throttle delays.  *)
Reported(D, s) == [d \in Device |-> IF d \in D THEN [desc[d] EXCEPT !.state = s[d]] ELSE desc[d]]
Heard(D) == {d \in D : desc[d].state # "unknown" /\ ~recent[d]}

handleConnected(D, s) ==
  /\ desc' = Reported(D, s)
  /\ recent' = [d \in Device |-> recent[d] \/ d \in D]
  /\ timer' = [d \in Device |-> timer[d] \/ (d \in D /\ (recent[d] \/ s[d] # "device"))]
  /\ onDeviceUpdate(Heard(D))

(* Something about the device has been found out and differs.              *)
InfoChanged(d) ==
  /\ desc[d].state = "device"
  /\ desc[d].info < MaxInfo
  /\ desc' = [desc EXCEPT ![d].info = @ + 1]
  /\ emitUpdate(d)
  /\ UNCHANGED <<adbVars, failures, centerVars, connVars>>

(* THROTTLE ms after lastEmit, which is when the timer fires if it is set: *)
(* emitUpdate again.                                                       *)
ThrottleOver(d) ==
  /\ recent[d]
  /\ recent' = [recent EXCEPT ![d] = timer[d]]
  /\ timer' = [timer EXCEPT ![d] = FALSE]
  /\ onDeviceUpdate(IF timer[d] THEN {d} ELSE {})
  /\ UNCHANGED desc
  /\ table' = ReceivesDevices(IF timer[d] THEN {d} ELSE {})
  /\ UNCHANGED <<adbVars, failures, centerVars, connVars>>

-----------------------------------------------------------------------------
(* ControlCenter.                                                          *)

(* init() of a DeviceTracker is resolved: it listens, then sends the list. *)
Resolved(k) ==
  /\ pc' = [pc EXCEPT ![k] = "done"]
  /\ listening' = IF k \in Connection THEN listening \cup {k} ELSE listening

(* init, up to its first await.                                            *)
AwaitsFirst(k) ==
  pc' = [pc EXCEPT ![k] = IF tracker' = 0 THEN "tracking" ELSE "listing"]

(* client.trackDevices() of startTracker has resolved.                     *)
Tracked(k) ==
  /\ pc[k] = "tracking"
  /\ \E t \in TrackerId :
       /\ status[t] = "none" /\ \A u \in 1..(t - 1) : status[u] # "none"
       /\ status' = [status EXCEPT ![t] = "alive"]
       /\ lists' = [lists EXCEPT ![t] = <<actual>>]
       /\ tracker' = t
  /\ pc' = [pc EXCEPT ![k] = "listing"]
  /\ UNCHANGED <<adbVars, failures, initialized, view, restart, deviceVars, connVars,
                 table>>

(* client.listDevices() has resolved: init ends.                           *)
Listed(k) ==
  /\ pc[k] = "listing"
  /\ LET D == {d \in Device : actual[d] # "absent"} IN
       /\ handleConnected(D, actual)
       /\ table' = IF k = conn THEN ReceivesList ELSE ReceivesDevices(Heard(D))
  /\ initialized' = TRUE
  /\ Resolved(k)
  /\ UNCHANGED <<adbVars, failures, tracker, status, lists, view, restart, conn, used>>

(* Either of the two calls is rejected, and init with it.                  *)
InitFails(k) ==
  /\ pc[k] \in {"tracking", "listing"}
  /\ failures < MaxFailures
  /\ failures' = failures + 1
  /\ pc' = [pc EXCEPT ![k] = "failed"]
  /\ UNCHANGED <<adbVars, initialized, tracker, status, lists, view, restart, deviceVars,
                 connVars, table>>

(* onChangeSet: added, removed and changed devices.                        *)
RemovedIgnored(s) ==                                      \* mutant
  [d \in Device |-> IF s[d] = "absent" THEN desc[d].state ELSE s[d]]
DISCONNECTED(s) == [d \in Device |-> IF s[d] = "absent" THEN "disconnected" ELSE s[d]]

ChangeSet(t) ==
  /\ t \in Alive
  /\ lists[t] # <<>>
  /\ LET new == Head(lists[t])
         D == {d \in Device : new[d] # view[t][d]} IN
       /\ handleConnected(D, DISCONNECTED(new))
       /\ table' = ReceivesDevices(Heard(D))
       /\ view' = [view EXCEPT ![t] = new]
  /\ lists' = [lists EXCEPT ![t] = Tail(@)]
  /\ UNCHANGED <<adbVars, failures, pc, initialized, tracker, status, restart, connVars>>

(* 'end' or 'error' of a Tracker: restartTracker.                          *)
TrackerDies(t) ==
  /\ t \in Alive
  /\ failures < MaxFailures
  /\ failures' = failures + 1
  /\ status' = [status EXCEPT ![t] = "dead"]
  /\ lists' = [lists EXCEPT ![t] = <<>>]
  /\ view' = [view EXCEPT ![t] = Absent]
  /\ restart' = IF restart = "no" THEN "pending" ELSE restart
  /\ UNCHANGED <<adbVars, pc, initialized, tracker, deviceVars, connVars, table>>

(* The restart's timer: stopTracker, then init.                            *)
uninitialized == FALSE

Restart ==
  /\ restart = "pending"
  /\ restart' = "used"
  /\ tracker' = 0
  /\ status' = [t \in TrackerId |-> IF t = tracker THEN "stopped" ELSE status[t]]
  /\ lists' = [t \in TrackerId |-> IF t = tracker THEN <<>> ELSE lists[t]]
  /\ view' = [t \in TrackerId |-> IF t = tracker THEN Absent ELSE view[t]]
  /\ initialized' = uninitialized
  /\ IF initialized' THEN pc' = [pc EXCEPT ![Restarted] = "done"] ELSE AwaitsFirst(Restarted)
  /\ UNCHANGED <<adbVars, failures, deviceVars, connVars, table>>

-----------------------------------------------------------------------------
(* DeviceTracker and the client.                                           *)

(* The client connects, at first or 2 s after it lost a connection.        *)
Connect ==
  /\ conn = 0
  /\ used < MaxConnections
  /\ used' = used + 1
  /\ conn' = used'
  /\ UNCHANGED <<tracker, deviceVars>>
  /\ IF initialized
     THEN Resolved(used') /\ table' = ReceivesList
     ELSE AwaitsFirst(used') /\ UNCHANGED <<listening, table>>
  /\ UNCHANGED <<adbVars, failures, initialized, status, lists, view, restart>>

(* The connection is lost: release stops listening, also when init() will  *)
(* make it listen later.                                                   *)
Disconnect ==
  /\ conn # 0
  /\ used < MaxConnections
  /\ conn' = 0
  /\ listening' = listening \ {conn}
  /\ UNCHANGED <<adbVars, failures, centerVars, deviceVars, used, table>>

(* What happens by itself: timers expire, adb answers, a new Device is     *)
(* asked for its info, the client connects again.                          *)
Due ==
  \/ \E d \in Device : ThrottleOver(d) \/ (desc[d].info = 0 /\ InfoChanged(d))
  \/ \E k \in Caller : Tracked(k) \/ Listed(k)
  \/ \E t \in TrackerId : ChangeSet(t)
  \/ Restart \/ Connect

Next ==
  \/ Due
  \/ \E d \in Device :
       \/ \E s \in {"absent", "device", "offline"} : AdbChanges(d, s)
       \/ InfoChanged(d)
  \/ \E k \in Caller : InitFails(k)
  \/ \E t \in TrackerId : TrackerDies(t)
  \/ Disconnect

(* The event loop does not idle while something is due.  Every action is   *)
(* bounded, so that no weaker fairness of one of them is hidden in this.   *)
Fairness == WF_vars(Due)

Spec == Init /\ [][Next]_vars /\ Fairness

-----------------------------------------------------------------------------
(* Properties.                                                             *)

(* A client that has got its list misses nothing: what it shows of a       *)
(* device is the current descriptor, unless the throttle's timer will send *)
(* it or ControlCenter has not heard of the device yet.  Neither the list, *)
(* the updates around it nor the throttle lose a change.                   *)
NoUpdateLost ==
  conn \in listening =>
    \A d \in descriptors : table[d] = desc[d] \/ timer[d]

(* A device that left while no tracker ran is not in the list that init()  *)
(* gets after the restart, and nobody reports it as removed.               *)
Forgotten(d) ==
  /\ \E t \in TrackerId : status[t] \in {"dead", "stopped"}
  /\ actual[d] = "absent"
  /\ \A t \in Alive : /\ view[t][d] = "absent"
                      /\ \A i \in DOMAIN lists[t] : lists[t][i][d] = "absent"

Agrees(d) ==
  \/ table[d].state = actual[d]
  \/ actual[d] = "absent" /\ table[d].state \in {"unknown", "disconnected"}

(* Once adb's list is stable the client's table agrees with it: across     *)
(* throttling, a lost connection and a tracker that dies.  Not covered:    *)
(* no tracker is left (the second death is not followed by a restart), the *)
(* connection's own init() was rejected, or the device was forgotten.      *)
Converges ==
  <>[](Alive # {} /\ conn # 0 /\ pc[conn] = "done" =>
         \A d \in Device : Agrees(d) \/ Forgotten(d))
=============================================================================
