------------------------------ MODULE WdaRunner ------------------------------
(***************************************************************************)
(* WebDriverAgent of one iOS device: WdaRunner, shared by the channels of  *)
(* WebDriverAgentProxy and by the HTTP requests of MjpegProxyFactory (the  *)
(* build with USE_WDA_MJPEG_SERVER).                                       *)
(*                                                                         *)
(* start() is an async function that awaits an Appium server ("server"),   *)
(* a session with xcodebuild ("session") and the forwarding of a port      *)
(* ("connect").  The listener of 'exit' it adds before the last await may  *)
(* start another call while the first one is still there.                  *)
(*                                                                         *)
(* External: Appium, which may fail at every await, xcodebuild, which may  *)
(* exit at any time and exits when its session is deleted, and the pages.  *)
(* A local server is there within SHUTDOWN_TIMEOUT; a client of an MJPEG   *)
(* stream leaves only once the stream has begun.                           *)
(* Bounds: the slots of Runner are used again when nothing refers to the   *)
(* old runner; MaxCalls calls of start() of a runner overlap at most.      *)
(***************************************************************************)
EXTENDS Integers

CONSTANTS Conns,      \* channels of WebDriverAgentProxy
          Requests,   \* requests of MjpegProxyFactory
          MaxRunners, MaxCalls

ASSUME HoldersAssumption == Conns \cap Requests = {}
ASSUME BoundsAssumption == {MaxRunners, MaxCalls} \subseteq Nat \ {0}

VARIABLES
  instance,  \* WdaRunner.instances.get(udid), 0 if there is none
  servers,   \* WdaRunner.servers.get(udid): the runner whose server it is
  runners,
  holds,     \* the runner each channel or MJPEG proxy has locked, 0 if none
  watching,  \* what a request does: it waits, hangs or streams from a proxy
  mjpeg      \* MjpegProxyFactory.instances.get(udid): the request that made it

vars == <<instance, servers, runners, holds, watching, mjpeg>>

Runner == 1..MaxRunners
Holder == Conns \cup Requests
Slot == 1..MaxCalls
None == "none"

NoCall == [at |-> "no", xcodebuild |-> "none", of |-> None]

(* timer is releaseTimeoutId while it is pending, server says that         *)
(* this.server is set, deleting and closing that a deleteSession() of the  *)
(* listener of 'exit' or of the timer is under way.                        *)
NewRunner ==
  [started |-> FALSE, starting |-> FALSE, status |-> "none", holders |-> 0,
   timer |-> FALSE, server |-> FALSE, deleting |-> FALSE, closing |-> FALSE,
   calls |-> [i \in Slot |-> NoCall]]

Idle == [does |-> "nothing", proxy |-> None]

Init ==
  /\ instance = 0 /\ servers = 0
  /\ runners = [r \in Runner |-> NewRunner]
  /\ holds = [h \in Holder |-> 0]
  /\ watching = [q \in Requests |-> Idle]
  /\ mjpeg = None

Held(r) == \E h \in Holder : holds[h] = r
Active(q, i) == q.calls[i].at # "no" \/ q.calls[i].xcodebuild # "none"

(* Nothing refers to the runner of slot r any more.                        *)
Free(r) ==
  /\ instance # r /\ ~Held(r)
  /\ ~runners[r].timer /\ ~runners[r].deleting /\ ~runners[r].closing
  /\ \A i \in Slot : ~Active(runners[r], i)

-----------------------------------------------------------------------------
(* Operations on a runner q.                                               *)

lockOnly(q) == [q EXCEPT !.holders = @ + 1]                   \* mutant
lock(q) == [q EXCEPT !.holders = @ + 1, !.timer = FALSE]

unlock(q) == [q EXCEPT !.holders = @ - 1, !.timer = @ \/ q.holders <= 1]

(* start() of q, on behalf of who; a second call returns at once.          *)
Starts(q) == ~q.started /\ ~q.starting
CanStart(q) == Starts(q) => \E i \in Slot : ~Active(q, i)
start(q, who) ==
  LET i == CHOOSE n \in Slot : ~Active(q, n) /\ \A m \in 1..(n - 1) : Active(q, m)
  IN IF Starts(q)
     THEN [q EXCEPT !.starting = TRUE, !.status = "STARTING",
             !.calls[i] = [at |-> IF servers = 0 THEN "server" ELSE "session",
                           xcodebuild |-> "none", of |-> who]]
     ELSE q

(* getInstance: the runner of the map, or a new one.                       *)
Instance(r) == IF instance # 0 THEN r = instance ELSE Free(r) /\ \A m \in 1..(r - 1) : ~Free(m)
Found(r) == IF instance # 0 THEN runners[r] ELSE NewRunner

-----------------------------------------------------------------------------
(* WebDriverAgentProxy.                                                    *)

(* runWda; on a channel that has its runner it only answers.               *)
RunWda(c, r) ==
  LET q == lock(Found(r)) IN
  /\ holds[c] = 0 /\ Instance(r) /\ CanStart(q)
  /\ instance' = r
  /\ holds' = [holds EXCEPT ![c] = r]
  /\ runners' = [runners EXCEPT ![r] = start(q, None)]
  /\ UNCHANGED <<servers, watching, mjpeg>>

CloseConn(c) ==
  /\ holds[c] # 0
  /\ runners' = [runners EXCEPT ![holds[c]] = unlock(@)]
  /\ holds' = [holds EXCEPT ![c] = 0]
  /\ UNCHANGED <<instance, servers, watching, mjpeg>>

-----------------------------------------------------------------------------
(* MjpegProxyFactory.                                                      *)

(* proxyRequest: with the proxy of the map, or with a runner that has to   *)
(* be started first, by this request or by somebody else.                  *)
JoinProxy(q) ==
  /\ watching[q] = Idle /\ holds[q] = 0 /\ mjpeg # None
  /\ watching' = [watching EXCEPT ![q] = [does |-> "streams", proxy |-> mjpeg]]
  /\ UNCHANGED <<instance, servers, runners, holds, mjpeg>>

LockRunner(q, r) ==
  LET found == lock(Found(r)) IN
  /\ watching[q] = Idle /\ holds[q] = 0 /\ mjpeg = None
  /\ Instance(r) /\ CanStart(found)
  /\ instance' = r
  /\ holds' = [holds EXCEPT ![q] = r]
  /\ runners' = [runners EXCEPT ![r] = start(found, q)]
  /\ IF found.started
     THEN /\ watching' = [watching EXCEPT ![q] = [does |-> "streams", proxy |-> q]]
          /\ mjpeg' = q
     ELSE /\ watching' = [watching EXCEPT ![q] = [does |-> "waits", proxy |-> None]]
          /\ UNCHANGED mjpeg
  /\ UNCHANGED servers

(* The last client of a proxy leaves: 'streamstop', which removes whatever *)
(* proxy is in the map.                                                    *)
LeaveProxy(q) ==
  LET p == watching[q].proxy IN
  /\ watching[q].does = "streams"
  /\ watching' = [watching EXCEPT ![q] = Idle]
  /\ IF \E other \in Requests \ {q} : watching[other].proxy = p
     THEN UNCHANGED <<runners, holds, mjpeg>>
     ELSE /\ runners' = [runners EXCEPT ![holds[p]] = unlock(@)]
          /\ holds' = [holds EXCEPT ![p] = 0]
          /\ mjpeg' = None
  /\ UNCHANGED <<instance, servers>>

-----------------------------------------------------------------------------
(* The calls of start().                                                   *)

(* Call i of r fails: inside the try the flags are reset, and emit('error')*)
(* throws for want of a listener; getServer is outside it.  The request    *)
(* that made the call hangs.                                               *)
failedIn(q, i) ==
  [q EXCEPT !.started = IF q.calls[i].at = "server" THEN @ ELSE FALSE,
            !.starting = IF q.calls[i].at = "server" THEN @ ELSE FALSE,
            !.status = "failed", !.calls[i].at = "no", !.calls[i].of = None]

StartFails(r, i) ==
  LET call == runners[r].calls[i] IN
  /\ call.at # "no"
  /\ runners' = [runners EXCEPT ![r] = failedIn(@, i)]
  /\ watching' = IF call.of = None THEN watching
                 ELSE [watching EXCEPT ![call.of].does = "hangs"]
  /\ UNCHANGED <<instance, servers, holds, mjpeg>>

(* A failure between the session and the check of xcodebuild.              *)
XcodebuildMissing(r, i) ==
  LET call == runners[r].calls[i] IN
  /\ call.at = "session"
  /\ runners' = [runners EXCEPT ![r] = [failedIn(@, i) EXCEPT !.server = FALSE]]
  /\ watching' = IF call.of = None THEN watching
                 ELSE [watching EXCEPT ![call.of].does = "hangs"]
  /\ UNCHANGED <<instance, servers, holds, mjpeg>>

ServerReady(r, i) ==
  /\ runners[r].calls[i].at = "server"
  /\ runners' = [runners EXCEPT ![r].calls[i].at = "session"]
  /\ servers' = r
  /\ UNCHANGED <<instance, holds, watching, mjpeg>>

SessionReady(r, i) ==
  /\ runners[r].calls[i].at = "session"
  /\ runners' = [runners EXCEPT ![r].calls[i] =
                   [@ EXCEPT !.at = "connect", !.xcodebuild = "up"]]
  /\ UNCHANGED <<instance, servers, holds, watching, mjpeg>>

(* The end of call i: 'STARTED'.  A request that made another call waits   *)
(* for that one too; all others get a proxy each, and one of these stays   *)
(* in the map.                                                             *)
Connected(r, i) ==
  LET others == {runners[r].calls[j].of : j \in Slot \ {i}}
      ready == {q \in Requests : /\ holds[q] = r /\ watching[q].does = "waits"
                                 /\ q \notin others}
  IN /\ runners[r].calls[i].at = "connect"
     /\ runners' = [runners EXCEPT ![r] =
          [@ EXCEPT !.started = TRUE, !.status = "STARTED", !.server = TRUE,
                    !.calls[i].at = "no", !.calls[i].of = None]]
     /\ watching' = [q \in Requests |->
          IF q \in ready THEN [does |-> "streams", proxy |-> q] ELSE watching[q]]
     /\ IF ready = {} THEN UNCHANGED mjpeg ELSE mjpeg' \in ready
     /\ UNCHANGED <<instance, servers, holds>>

-----------------------------------------------------------------------------
(* xcodebuild and the shutdown.                                            *)

(* A call that waits for its port leaves room for the one of the listener. *)
RoomToRestart(q, i) == q.calls[i].at = "no" \/ \E j \in Slot : ~Active(q, j)

XcodebuildExits(r, i) ==
  /\ runners[r].calls[i].xcodebuild = "up"
  /\ RoomToRestart(runners[r], i)
  /\ runners' = [runners EXCEPT ![r].calls[i].xcodebuild = "exited"]
  /\ UNCHANGED <<instance, servers, holds, watching, mjpeg>>

(* The listener of 'exit'.                                                 *)
stoppedStarting(q, i) ==                                      \* mutant
  [q EXCEPT !.started = FALSE, !.deleting = TRUE, !.server = FALSE,
            !.status = "STOPPED", !.calls[i].xcodebuild = "none"]
stopped(q, i) ==
  [q EXCEPT !.started = FALSE, !.starting = FALSE, !.deleting = TRUE, !.server = FALSE,
            !.status = "STOPPED", !.calls[i].xcodebuild = "none"]

OnExit(r, i) ==
  LET q == stopped(runners[r], i) IN
  /\ runners[r].calls[i].xcodebuild = "exited"
  /\ q.holders > 0 => CanStart(q)
  /\ runners' = [runners EXCEPT ![r] = IF q.holders > 0 THEN start(q, None) ELSE q]
  /\ UNCHANGED <<instance, servers, holds, watching, mjpeg>>

(* The session that a deleteSession() finds loses its xcodebuild.          *)
sessionDeleted(q) ==
  [q EXCEPT !.calls = [i \in Slot |->
     IF q.calls[i].xcodebuild = "up" /\ RoomToRestart(q, i)
     THEN [q.calls[i] EXCEPT !.xcodebuild = "exited"] ELSE q.calls[i]]]

Deleted(r) ==
  /\ runners[r].deleting
  /\ runners' = [runners EXCEPT ![r] = [sessionDeleted(@) EXCEPT !.deleting = FALSE]]
  /\ UNCHANGED <<instance, servers, holds, watching, mjpeg>>

(* The timer of unlock.                                                    *)
TimerFires(r) ==
  /\ runners[r].timer
  /\ \A i \in Slot : runners[r].calls[i].at # "server"
  /\ runners' = [runners EXCEPT ![r].timer = FALSE, ![r].closing = runners[r].server]
  /\ servers' = 0
  /\ instance' = 0
  /\ UNCHANGED <<holds, watching, mjpeg>>

(* Its deleteSession() is done, and the server is closed unless 'exit',    *)
(* which the deletion causes, has removed it: then close() throws.         *)
SessionClosed(r) ==
  /\ runners[r].closing
  /\ runners' = [runners EXCEPT ![r] =
       [sessionDeleted(@) EXCEPT !.closing = FALSE, !.server = FALSE]]
  /\ UNCHANGED <<instance, servers, holds, watching, mjpeg>>

-----------------------------------------------------------------------------
CallStep(r, i) ==
  \/ StartFails(r, i) \/ XcodebuildMissing(r, i)
  \/ ServerReady(r, i) \/ SessionReady(r, i) \/ Connected(r, i)

Next ==
  \/ \E r \in Runner, i \in Slot : CallStep(r, i) \/ XcodebuildExits(r, i) \/ OnExit(r, i)
  \/ \E r \in Runner : Deleted(r) \/ TimerFires(r) \/ SessionClosed(r)
  \/ \E c \in Conns : (\E r \in Runner : RunWda(c, r)) \/ CloseConn(c)
  \/ \E q \in Requests : (\E r \in Runner : LockRunner(q, r)) \/ JoinProxy(q) \/ LeaveProxy(q)

(* Every await ends, listeners and timers run.                             *)
Fairness ==
  /\ \A r \in Runner, i \in Slot : WF_vars(CallStep(r, i)) /\ WF_vars(OnExit(r, i))
  /\ \A r \in Runner : WF_vars(Deleted(r)) /\ WF_vars(TimerFires(r)) /\ WF_vars(SessionClosed(r))

Spec == Init /\ [][Next]_vars /\ Fairness

-----------------------------------------------------------------------------
TypeOK ==
  /\ instance \in 0..MaxRunners /\ servers \in 0..MaxRunners
  /\ runners \in [Runner ->
       [started : BOOLEAN, starting : BOOLEAN,
        status : {"none", "STARTING", "STARTED", "STOPPED", "failed"}, holders : Nat,
        timer : BOOLEAN, server : BOOLEAN, deleting : BOOLEAN, closing : BOOLEAN,
        calls : [Slot -> [at : {"no", "server", "session", "connect"},
                          xcodebuild : {"none", "up", "exited"}, of : Requests \cup {None}]]]]
  /\ holds \in [Holder -> 0..MaxRunners]
  /\ watching \in [Requests -> [does : {"nothing", "waits", "hangs", "streams"},
                                proxy : Requests \cup {None}]]
  /\ mjpeg \in Requests \cup {None}

(* A channel or an MJPEG proxy holds the runner of the map, and neither    *)
(* its shutdown timer is pending nor its session is being closed: the      *)
(* timer of unlock never takes WebDriverAgent from somebody who uses it.   *)
HeldIsKept ==
  \A h \in Holder : holds[h] # 0 =>
    /\ instance = holds[h]
    /\ ~runners[holds[h]].timer /\ ~runners[holds[h]].closing

(* Who holds a runner that starts or has stopped sees it start, or a call  *)
(* of start() fail, or leaves: 'exit' restarts a runner that is held, also *)
(* when it comes during the end of the last start.                         *)
HeldRecovers ==
  \A r \in Runner : Held(r) /\ runners[r].status \in {"STARTING", "STOPPED"} ~>
                      runners[r].status \in {"STARTED", "failed"} \/ ~Held(r)

(* A runner nobody holds is forgotten, unless somebody comes.              *)
IdleForgotten == \A r \in Runner : instance = r /\ ~Held(r) ~> instance # r \/ Held(r)
=============================================================================
