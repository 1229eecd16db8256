-------------------------- MODULE Runners_proofs ---------------------------
(***************************************************************************)
(* Proofs about the runners of an iOS device: WdaRunner, for every finite  *)
(* number of channels, requests, runners and calls, and QvhackRunner, for  *)
(* every number of channels.                                               *)
(***************************************************************************)
EXTENDS MCRunners, FiniteSetTheorems, TLAPS

CallType == [at : {"no", "server", "session", "connect"},
             xcodebuild : {"none", "up", "exited"}, of : Requests \cup {None}]

CallsType == [Slot -> CallType]

RunnerType ==
  [started : BOOLEAN, starting : BOOLEAN,
   status : {"none", "STARTING", "STARTED", "STOPPED", "failed"}, holders : Nat,
   timer : BOOLEAN, server : BOOLEAN, deleting : BOOLEAN, closing : BOOLEAN,
   calls : CallsType]

Holders(r) == {h \in Holder : holds[h] = r}

(* A runner counts who holds it. *)
Counted == \A r \in Runner : runners[r].holders = Cardinality(Holders(r))

(* A shutdown timer is that of the runner of the map, and a runner whose   *)
(* session is being closed is not in the map.                              *)
TimerIsCurrent ==
  \A r \in Runner : /\ runners[r].timer => instance = r
                    /\ runners[r].closing => instance # r

(* A stream comes from a proxy that holds its runner, and so does the      *)
(* proxy of the map.                                                       *)
ProxyHolds ==
  /\ \A q \in Requests : watching[q].does = "streams" =>
       watching[q].proxy \in Requests /\ holds[watching[q].proxy] # 0
  /\ mjpeg # None => holds[mjpeg] # 0

(* TypeOK with a name for the type of a runner. *)
Types ==
  /\ instance \in 0..MaxRunners /\ servers \in 0..MaxRunners
  /\ runners \in [Runner -> RunnerType]
  /\ holds \in [Holder -> 0..MaxRunners]
  /\ watching \in [Requests -> [does : {"nothing", "waits", "hangs", "streams"},
                                proxy : Requests \cup {None}]]
  /\ mjpeg \in Requests \cup {None}

Inv == Types /\ Counted /\ TimerIsCurrent /\ ProxyHolds /\ HeldIsKept

-----------------------------------------------------------------------------
(* What the operations do to a runner.                                     *)

(* What they leave alone unless they are lock or unlock. *)
Same(p, q) == p.holders = q.holders /\ p.timer = q.timer /\ p.closing = q.closing

(* A new runner has no holder and no timer. *)
LEMMA NewRunnerFacts ==
  NewRunner \in RunnerType /\ NewRunner.holders = 0 /\ ~NewRunner.timer /\ ~NewRunner.closing
BY DEF NewRunner, RunnerType, CallsType, CallType, NoCall, None

(* lock counts a holder and clears the timer. *)
LEMMA LockFacts ==
  ASSUME NEW q \in RunnerType
  PROVE  /\ lock(q) \in RunnerType
         /\ lock(q).holders = q.holders + 1 /\ ~lock(q).timer /\ lock(q).closing = q.closing
<1> DEFINE n == q.holders + 1
<1>1. n \in Nat
  BY DEF RunnerType
<1>2. lock(q) = [q EXCEPT !.holders = n, !.timer = FALSE]
  BY DEF lock
<1> HIDE DEF n
<1>3. /\ lock(q) \in RunnerType
      /\ lock(q).holders = n /\ ~lock(q).timer /\ lock(q).closing = q.closing
  BY <1>1, <1>2 DEF RunnerType
<1> QED BY <1>3 DEF n

(* unlock takes a holder away and sets the timer for the last one. *)
LEMMA UnlockFacts ==
  ASSUME NEW q \in RunnerType, q.holders > 0
  PROVE  /\ unlock(q) \in RunnerType
         /\ unlock(q).holders = q.holders - 1
         /\ unlock(q).timer = (q.timer \/ q.holders <= 1) /\ unlock(q).closing = q.closing
<1> DEFINE n == q.holders - 1
           t == q.timer \/ q.holders <= 1
<1>1. n \in Nat /\ t \in BOOLEAN
  BY DEF RunnerType
<1>2. unlock(q) = [q EXCEPT !.holders = n, !.timer = t]
  BY DEF unlock
<1> HIDE DEF n, t
<1>3. /\ unlock(q) \in RunnerType
      /\ unlock(q).holders = n /\ unlock(q).timer = t /\ unlock(q).closing = q.closing
  BY <1>1, <1>2 DEF RunnerType
<1> QED BY <1>3 DEF n, t

(* start() touches neither, whichever slot its call gets. *)
LEMMA StartFacts ==
  ASSUME NEW q \in RunnerType, NEW who \in Requests \cup {None}
  PROVE  start(q, who) \in RunnerType /\ Same(start(q, who), q)
<1> DEFINE i == CHOOSE n \in Slot : ~Active(q, n) /\ \A m \in 1..(n - 1) : Active(q, m)
           call == [at |-> IF servers = 0 THEN "server" ELSE "session",
                    xcodebuild |-> "none", of |-> who]
           calls == [q.calls EXCEPT ![i] = call]
<1>1. CASE ~Starts(q)
  BY <1>1 DEF start, Same
<1>2. CASE Starts(q)
  <2>1. start(q, who) = [q EXCEPT !.starting = TRUE, !.status = "STARTING", !.calls = calls]
    BY <1>2 DEF start
  <2>2. call \in CallType
    BY DEF CallType
  <2> HIDE DEF i, call
  <2>3. calls \in CallsType
    BY <2>2 DEF RunnerType, CallsType
  <2> HIDE DEF calls
  <2> QED BY <2>1, <2>3 DEF RunnerType, Same
<1> QED BY <1>1, <1>2

(* Nor does a call that fails, *)
LEMMA FailedFacts ==
  ASSUME NEW q \in RunnerType, NEW i \in Slot
  PROVE  failedIn(q, i) \in RunnerType /\ Same(failedIn(q, i), q)
<1> DEFINE started == IF q.calls[i].at = "server" THEN q.started ELSE FALSE
           starting == IF q.calls[i].at = "server" THEN q.starting ELSE FALSE
           calls == [q.calls EXCEPT ![i].at = "no", ![i].of = None]
<1>1. failedIn(q, i) = [q EXCEPT !.started = started, !.starting = starting,
                                 !.status = "failed", !.calls = calls]
  BY ZenonT(30) DEF failedIn
<1>2. started \in BOOLEAN /\ starting \in BOOLEAN
  BY DEF RunnerType
<1>3. calls \in CallsType
  BY DEF RunnerType, CallsType, CallType
<1> HIDE DEF started, starting, calls
<1> QED BY <1>1, <1>2, <1>3 DEF RunnerType, Same

(* or one that is done, *)
Done(q, i) == [q EXCEPT !.started = TRUE, !.status = "STARTED", !.server = TRUE,
                        !.calls[i].at = "no", !.calls[i].of = None]

(* which keeps the type of the runner, *)
LEMMA DoneFacts ==
  ASSUME NEW q \in RunnerType, NEW i \in Slot
  PROVE  Done(q, i) \in RunnerType /\ Same(Done(q, i), q)
<1> DEFINE calls == [q.calls EXCEPT ![i].at = "no", ![i].of = None]
<1>1. Done(q, i) = [q EXCEPT !.started = TRUE, !.status = "STARTED", !.server = TRUE,
                             !.calls = calls]
  BY DEF Done
<1>2. calls \in CallsType
  BY DEF RunnerType, CallsType, CallType
<1> HIDE DEF calls
<1> QED BY <1>1, <1>2 DEF RunnerType, Same

(* nor the listener of exit, *)
LEMMA StoppedFacts ==
  ASSUME NEW q \in RunnerType, NEW i \in Slot
  PROVE  stopped(q, i) \in RunnerType /\ Same(stopped(q, i), q)
<1> DEFINE calls == [q.calls EXCEPT ![i].xcodebuild = "none"]
<1>1. calls \in CallsType
  BY DEF RunnerType, CallsType, CallType
<1>2. stopped(q, i) = [q EXCEPT !.started = FALSE, !.starting = FALSE, !.deleting = TRUE,
                                !.server = FALSE, !.status = "STOPPED", !.calls = calls]
  BY DEF stopped
<1> HIDE DEF calls
<1> QED BY <1>1, <1>2 DEF RunnerType, Same

(* nor the deletion of a session. *)
LEMMA DeletedFacts ==
  ASSUME NEW q \in RunnerType
  PROVE  sessionDeleted(q) \in RunnerType /\ Same(sessionDeleted(q), q)
<1> DEFINE calls == [i \in Slot |->
             IF q.calls[i].xcodebuild = "up" /\ RoomToRestart(q, i)
             THEN [q.calls[i] EXCEPT !.xcodebuild = "exited"] ELSE q.calls[i]]
<1>1. calls \in CallsType
  BY DEF RunnerType, CallsType, CallType
<1>2. sessionDeleted(q) = [q EXCEPT !.calls = calls]
  BY DEF sessionDeleted
<1> HIDE DEF calls
<1> QED BY <1>1, <1>2 DEF RunnerType, Same

-----------------------------------------------------------------------------
(* Types is TypeOK. *)
LEMMA TypesTypeOK == Types <=> TypeOK
BY DEF Types, TypeOK, RunnerType, CallsType, CallType

(* A runner of the map is one, and 0 is none. *)
LEMMA RunnerIsPositive == 0 \notin Runner /\ Runner \subseteq 0..MaxRunners
BY BoundsAssumption DEF Runner

(* The initial states. *)
LEMMA InitInv == IsFiniteSet(Holder) /\ Init => Inv
<1> SUFFICES ASSUME IsFiniteSet(Holder), Init PROVE Inv
  OBVIOUS
<1>1. Types
  BY BoundsAssumption, NewRunnerFacts DEF Init, Types, Idle
<1>2. \A r \in Runner : Holders(r) = {}
  BY RunnerIsPositive DEF Init, Holders
<1>3. Counted
  BY <1>2, NewRunnerFacts, FS_EmptySet DEF Init, Counted
<1>4. TimerIsCurrent /\ ProxyHolds /\ HeldIsKept
  BY NewRunnerFacts DEF Init, TimerIsCurrent, ProxyHolds, HeldIsKept, Idle
<1> QED BY <1>1, <1>3, <1>4 DEF Inv

(* A step that leaves the holders and the timer of every runner alone.     *)
LEMMA SameInv ==
  ASSUME Inv, NEW r \in Runner, NEW p \in RunnerType, Same(p, runners[r]),
         runners' = [runners EXCEPT ![r] = p],
         UNCHANGED <<instance, holds>>, servers' \in 0..MaxRunners,
         watching' \in [Requests -> [does : {"nothing", "waits", "hangs", "streams"},
                                    proxy : Requests \cup {None}]],
         mjpeg' \in Requests \cup {None}, ProxyHolds'
  PROVE  Inv'
<1>1. Types'
  BY DEF Inv, Types
<1>2. \A q \in Runner : Same(runners'[q], runners[q])
  BY DEF Inv, Types, Same
<1>3. \A q \in Runner : Holders(q)' = Holders(q)
  BY DEF Holders
<1>4. Counted'
  BY <1>2, <1>3 DEF Inv, Counted, Same
<1>5. TimerIsCurrent'
  BY <1>2 DEF Inv, TimerIsCurrent, Same
<1>6. HeldIsKept'
  <2> SUFFICES ASSUME NEW h \in Holder, holds[h] # 0
               PROVE  instance = holds[h] /\ ~runners'[holds[h]].timer /\ ~runners'[holds[h]].closing
    BY DEF HeldIsKept
  <2>1. holds[h] \in Runner
    BY BoundsAssumption DEF Inv, Types, Runner
  <2> QED BY <1>2, <2>1 DEF Inv, HeldIsKept, Same
<1> QED BY <1>1, <1>4, <1>5, <1>6 DEF Inv

(* Somebody takes the runner of the map, or a new one. *)
LEMMA LockInv ==
  ASSUME Inv, IsFiniteSet(Holder), NEW h \in Holder, holds[h] = 0, NEW r \in Runner,
         Instance(r), NEW p \in RunnerType, Same(p, lock(Found(r))),
         instance' = r, holds' = [holds EXCEPT ![h] = r],
         runners' = [runners EXCEPT ![r] = p], UNCHANGED servers,
         watching' \in [Requests -> [does : {"nothing", "waits", "hangs", "streams"},
                                    proxy : Requests \cup {None}]],
         mjpeg' \in Requests \cup {None}, ProxyHolds'
  PROVE  Inv'
<1> USE RunnerIsPositive
<1>1. Types'
  BY DEF Inv, Types
<1>2. Found(r) \in RunnerType
  BY NewRunnerFacts DEF Found, Inv, Types
<1>3. p.holders = Found(r).holders + 1 /\ ~p.timer /\ p.closing = Found(r).closing
  BY <1>2, LockFacts DEF Same
<1>4. \A g \in Holder : holds[g] # 0 => holds[g] = instance
  BY DEF Inv, HeldIsKept
<1>5. Found(r).holders = Cardinality(Holders(r)) /\ ~Found(r).closing /\ (instance = 0 \/ instance = r)
  <2>1. CASE instance # 0
    BY <2>1 DEF Instance, Found, Inv, Counted, TimerIsCurrent
  <2>2. CASE instance = 0
    <3>1. Holders(r) = {}
      BY <1>4, <2>2 DEF Holders
    <3> QED BY <2>2, <3>1, NewRunnerFacts, FS_EmptySet DEF Found
  <2> QED BY <2>1, <2>2
<1>6. /\ runners'[r] = p
      /\ \A q \in Runner \ {r} : runners'[q] = runners[q] /\ ~runners[q].timer
  BY <1>5 DEF Inv, Types, TimerIsCurrent
<1>7. Counted'
  <2>1. Holders(r)' = Holders(r) \cup {h} /\ h \notin Holders(r)
    BY DEF Holders, Inv, Types
  <2>2. IsFiniteSet(Holders(r))
    BY FS_Subset DEF Holders
  <2>3. Cardinality(Holders(r)') = Cardinality(Holders(r)) + 1
    BY <2>1, <2>2, FS_AddElement, ZenonT(30)
  <2>4. \A q \in Runner \ {r} : Holders(q)' = Holders(q)
    BY DEF Holders, Inv, Types
  <2>5. \A q \in Runner \ {r} : runners'[q].holders = Cardinality(Holders(q)')
    BY <1>6, <2>4 DEF Inv, Counted
  <2>6. runners'[r].holders = Cardinality(Holders(r)')
    BY <1>3, <1>5, <1>6, <2>3
  <2> QED BY <2>5, <2>6 DEF Counted
<1>8. TimerIsCurrent'
  BY <1>3, <1>5, <1>6 DEF TimerIsCurrent
<1>9. HeldIsKept'
  BY <1>3, <1>4, <1>5, <1>6 DEF HeldIsKept, Inv, Types
<1> QED BY <1>1, <1>7, <1>8, <1>9 DEF Inv

(* Somebody gives its runner back. *)
LEMMA UnlockInv ==
  ASSUME Inv, IsFiniteSet(Holder), NEW h \in Holder, holds[h] # 0,
         holds' = [holds EXCEPT ![h] = 0],
         runners' = [runners EXCEPT ![holds[h]] = unlock(@)],
         UNCHANGED <<instance, servers>>,
         watching' \in [Requests -> [does : {"nothing", "waits", "hangs", "streams"},
                                    proxy : Requests \cup {None}]],
         mjpeg' \in Requests \cup {None}, ProxyHolds'
  PROVE  Inv'
<1> USE RunnerIsPositive
<1>0. PICK r \in Runner : holds[h] = r
  BY BoundsAssumption DEF Inv, Types, Runner
<1>1. instance = r /\ ~runners[r].timer /\ ~runners[r].closing /\ runners[r] \in RunnerType
  BY <1>0 DEF Inv, Types, HeldIsKept
<1>2. h \in Holders(r) /\ IsFiniteSet(Holders(r))
  BY <1>0, FS_Subset DEF Holders
<1>3. /\ Cardinality(Holders(r)) \in Nat
      /\ Cardinality(Holders(r) \ {h}) \in Nat
      /\ Cardinality(Holders(r) \ {h}) = Cardinality(Holders(r)) - 1
      /\ IsFiniteSet(Holders(r) \ {h})
  BY <1>2, FS_RemoveElement, FS_CardinalityType
<1>4. runners[r].holders = Cardinality(Holders(r))
  BY DEF Inv, Counted
<1>5. runners[r].holders > 0
  BY <1>3, <1>4
<1>6. /\ runners'[r] \in RunnerType
      /\ runners'[r].holders = runners[r].holders - 1
      /\ runners'[r].timer = (runners[r].holders <= 1) /\ ~runners'[r].closing
      /\ \A q \in Runner \ {r} : runners'[q] = runners[q]
  <2>1. runners'[r] = unlock(runners[r]) /\ \A q \in Runner \ {r} : runners'[q] = runners[q]
    BY <1>0 DEF Inv, Types
  <2> QED BY <1>1, <1>5, <2>1, UnlockFacts
<1>7. Types'
  <2>1. runners' \in [Runner -> RunnerType]
    BY <1>0, <1>6 DEF Inv, Types
  <2>2. holds' \in [Holder -> 0..MaxRunners]
    BY BoundsAssumption DEF Inv, Types
  <2> QED BY <2>1, <2>2 DEF Inv, Types
<1>8. Holders(r)' = Holders(r) \ {h} /\ \A q \in Runner \ {r} : Holders(q)' = Holders(q)
  BY <1>0 DEF Holders, Inv, Types
<1>9. Counted'
  <2>1. runners'[r].holders = Cardinality(Holders(r)')
    BY <1>3, <1>4, <1>6, <1>8
  <2>2. \A q \in Runner \ {r} : runners'[q].holders = Cardinality(Holders(q)')
    BY <1>6, <1>8 DEF Inv, Counted
  <2> QED BY <2>1, <2>2 DEF Counted
<1>10. TimerIsCurrent'
  BY <1>1, <1>6 DEF Inv, TimerIsCurrent
<1>11. HeldIsKept'
  <2> SUFFICES ASSUME NEW g \in Holder, holds'[g] # 0
               PROVE  instance = holds'[g] /\ ~runners'[holds'[g]].timer /\ ~runners'[holds'[g]].closing
    BY DEF HeldIsKept
  <2>1. g # h /\ holds'[g] = holds[g] /\ holds[g] = r
    BY <1>1 DEF Inv, Types, HeldIsKept
  <2>2. g \in Holders(r) \ {h}
    BY <2>1 DEF Holders
  <2>3. Cardinality(Holders(r) \ {h}) # 0
    BY <1>3, <2>2, FS_EmptySet
  <2>4. ~(runners[r].holders <= 1)
    BY <1>3, <1>4, <2>3
  <2> QED BY <1>1, <1>6, <2>1, <2>4
<1> QED BY <1>7, <1>9, <1>10, <1>11 DEF Inv

-----------------------------------------------------------------------------
(* The shutdown: nobody holds a runner whose timer is pending. *)
LEMMA ShutdownInv ==
  ASSUME Inv, NEW r \in Runner, TimerFires(r) \/ SessionClosed(r)
  PROVE  Inv'
<1> USE RunnerIsPositive
<1>0. runners[r] \in RunnerType /\ runners \in [Runner -> RunnerType]
  BY DEF Inv, Types
<1>1. CASE TimerFires(r)
  <2>1. instance = r /\ instance' = 0 /\ servers' = 0 /\ UNCHANGED <<holds, watching, mjpeg>>
    BY <1>1 DEF TimerFires, Inv, TimerIsCurrent
  <2>2. PICK p : /\ runners' = [runners EXCEPT ![r] = p] /\ p \in RunnerType
                 /\ p.holders = runners[r].holders /\ ~p.timer
    <3> DEFINE closing == runners[r].server
               p == [runners[r] EXCEPT !.timer = FALSE, !.closing = closing]
    <3>1. runners' = [runners EXCEPT ![r] = p] /\ closing \in BOOLEAN
      BY <1>0, <1>1 DEF TimerFires, RunnerType
    <3> HIDE DEF closing
    <3>2. p \in RunnerType /\ p.holders = runners[r].holders /\ ~p.timer
      BY <1>0, <3>1 DEF RunnerType
    <3> HIDE DEF p
    <3> QED BY <3>1, <3>2
  <2>3. /\ runners'[r] = p
        /\ \A q \in Runner \ {r} : runners'[q] = runners[q] /\ ~runners[q].timer
    BY <1>0, <2>1, <2>2 DEF Inv, TimerIsCurrent
  <2>4. \A h \in Holder : holds[h] = 0
    BY <1>1, <2>1 DEF TimerFires, Inv, HeldIsKept
  <2>5. Types'
    BY BoundsAssumption, <1>0, <2>1, <2>2 DEF Inv, Types
  <2>6. Counted'
    BY <2>1, <2>2, <2>3 DEF Inv, Counted, Holders
  <2>7. TimerIsCurrent' /\ HeldIsKept' /\ ProxyHolds'
    BY <2>1, <2>2, <2>3, <2>4 DEF TimerIsCurrent, HeldIsKept, ProxyHolds, Inv
  <2> QED BY <2>5, <2>6, <2>7 DEF Inv
<1>2. CASE SessionClosed(r)
  <2>1. UNCHANGED <<instance, servers, holds, watching, mjpeg>>
    BY <1>2 DEF SessionClosed
  <2>2. PICK p : /\ runners' = [runners EXCEPT ![r] = p] /\ p \in RunnerType
                 /\ p.holders = runners[r].holders /\ p.timer = runners[r].timer /\ ~p.closing
    <3> DEFINE q == sessionDeleted(runners[r])
               p == [q EXCEPT !.closing = FALSE, !.server = FALSE]
    <3>1. runners' = [runners EXCEPT ![r] = p]
      BY <1>0, <1>2 DEF SessionClosed
    <3>2. q \in RunnerType /\ Same(q, runners[r])
      BY <1>0, DeletedFacts
    <3> HIDE DEF q
    <3>3. /\ p \in RunnerType /\ ~p.closing
          /\ p.holders = runners[r].holders /\ p.timer = runners[r].timer
      BY <3>2 DEF RunnerType, Same
    <3> HIDE DEF p
    <3> QED BY <3>1, <3>3
  <2>3. runners'[r] = p /\ \A q \in Runner \ {r} : runners'[q] = runners[q]
    BY <1>0, <2>2
  <2>4. Types'
    BY <1>0, <2>1, <2>2 DEF Inv, Types
  <2>5. Counted'
    BY <2>1, <2>2, <2>3 DEF Inv, Counted, Holders
  <2>6. TimerIsCurrent' /\ ProxyHolds'
    BY <2>1, <2>2, <2>3 DEF TimerIsCurrent, ProxyHolds, Inv
  <2>7. HeldIsKept'
    <3> SUFFICES ASSUME NEW h \in Holder, holds[h] # 0
                 PROVE  instance = holds[h] /\ ~runners'[holds[h]].timer /\ ~runners'[holds[h]].closing
      BY <2>1 DEF HeldIsKept
    <3>1. holds[h] \in Runner
      BY BoundsAssumption DEF Inv, Types, Runner
    <3> QED BY <2>2, <2>3, <3>1 DEF Inv, HeldIsKept
  <2> QED BY <2>4, <2>5, <2>6, <2>7 DEF Inv
<1> QED BY <1>1, <1>2

(* Calls of start(), xcodebuild and its listener. *)
LEMMA CallInv ==
  ASSUME Inv, NEW r \in Runner, NEW i \in Slot,
         CallStep(r, i) \/ XcodebuildExits(r, i) \/ OnExit(r, i)
  PROVE  Inv'
<1>0. /\ runners[r] \in RunnerType /\ runners \in [Runner -> RunnerType]
      /\ servers \in 0..MaxRunners /\ r \in 0..MaxRunners /\ mjpeg \in Requests \cup {None}
      /\ watching \in [Requests -> [does : {"nothing", "waits", "hangs", "streams"},
                                    proxy : Requests \cup {None}]]
      /\ runners[r].calls \in CallsType /\ runners[r].calls[i] \in CallType
      /\ ProxyHolds
  BY RunnerIsPositive DEF Inv, Types, RunnerType, CallsType
(* A call that fails lets its request hang. *)
<1>h. ASSUME LET of == runners[r].calls[i].of IN
               watching' = IF of = None THEN watching ELSE [watching EXCEPT ![of].does = "hangs"],
             UNCHANGED <<holds, mjpeg>>
      PROVE  /\ watching' \in [Requests -> [does : {"nothing", "waits", "hangs", "streams"},
                                          proxy : Requests \cup {None}]]
             /\ mjpeg' \in Requests \cup {None} /\ ProxyHolds'
  <2>1. runners[r].calls[i].of \in Requests \cup {None}
    BY <1>0 DEF CallType
  <2>2. watching' \in [Requests -> [does : {"nothing", "waits", "hangs", "streams"},
                                   proxy : Requests \cup {None}]]
    BY <1>0, <1>h, <2>1
  <2>3. \A q \in Requests : watching'[q].does = "streams" => watching'[q] = watching[q]
    BY <1>0, <1>h, <2>1
  <2> QED BY <1>0, <1>h, <2>2, <2>3 DEF ProxyHolds
(* A step of the runner alone. *)
<1>s. ASSUME NEW p \in RunnerType, Same(p, runners[r]), runners' = [runners EXCEPT ![r] = p],
             UNCHANGED <<instance, holds, watching, mjpeg>>, servers' \in 0..MaxRunners
      PROVE  Inv'
  <2>1. ProxyHolds'
    BY <1>0, <1>s DEF ProxyHolds
  <2> QED BY <1>0, <1>s, <2>1, SameInv
<1>c. ASSUME NEW calls \in CallsType
      PROVE  /\ [runners[r] EXCEPT !.calls = calls] \in RunnerType
             /\ Same([runners[r] EXCEPT !.calls = calls], runners[r])
  BY <1>0, <1>c DEF RunnerType, Same
<1>1. CASE StartFails(r, i)
  <2>1. runners' = [runners EXCEPT ![r] = failedIn(runners[r], i)]
    BY <1>0, <1>1 DEF StartFails
  <2> QED BY <1>0, <1>1, <1>h, <2>1, FailedFacts, SameInv DEF StartFails
<1>2. CASE XcodebuildMissing(r, i)
  <2> DEFINE q == failedIn(runners[r], i)
             p == [q EXCEPT !.server = FALSE]
  <2>1. runners' = [runners EXCEPT ![r] = p]
    BY <1>0, <1>2 DEF XcodebuildMissing
  <2>2. q \in RunnerType /\ Same(q, runners[r])
    BY <1>0, FailedFacts
  <2> HIDE DEF q
  <2>3. p \in RunnerType /\ Same(p, runners[r])
    BY <2>2 DEF RunnerType, Same
  <2> HIDE DEF p
  <2> QED BY <1>0, <1>2, <1>h, <2>1, <2>3, SameInv DEF XcodebuildMissing
<1>3. CASE ServerReady(r, i)
  <2> DEFINE calls == [runners[r].calls EXCEPT ![i].at = "session"]
  <2>1. runners' = [runners EXCEPT ![r] = [runners[r] EXCEPT !.calls = calls]]
    BY <1>0, <1>3 DEF ServerReady
  <2>2. calls \in CallsType
    BY <1>0 DEF CallsType, CallType
  <2> HIDE DEF calls
  <2> QED BY <1>0, <1>3, <1>c, <1>s, <2>1, <2>2 DEF ServerReady
<1>4. CASE SessionReady(r, i)
  <2> DEFINE call == [runners[r].calls[i] EXCEPT !.at = "connect", !.xcodebuild = "up"]
             calls == [runners[r].calls EXCEPT ![i] = call]
  <2>1. runners' = [runners EXCEPT ![r].calls[i] = call]
    BY <1>4 DEF SessionReady
  <2>2. call \in CallType
    BY <1>0 DEF CallType
  <2> HIDE DEF call
  <2>3. runners' = [runners EXCEPT ![r] = [runners[r] EXCEPT !.calls = calls]]
    BY <2>1, Zenon
  <2>4. calls \in CallsType
    BY <1>0, <2>2 DEF CallsType
  <2> HIDE DEF calls
  <2> QED BY <1>0, <1>4, <1>c, <1>s, <2>3, <2>4 DEF SessionReady
<1>5. CASE Connected(r, i)
  <2> DEFINE others == {runners[r].calls[j].of : j \in Slot \ {i}}
             ready == {q \in Requests : /\ holds[q] = r /\ watching[q].does = "waits"
                                        /\ q \notin others}
             p == Done(runners[r], i)
  <2>1. runners' = [runners EXCEPT ![r] = p]
    BY <1>5 DEF Connected, Done
  <2>2. p \in RunnerType /\ Same(p, runners[r])
    BY <1>0, DoneFacts
  <2> HIDE DEF p
  <2>4. /\ watching' = [q \in Requests |->
                IF q \in ready THEN [does |-> "streams", proxy |-> q] ELSE watching[q]]
        /\ IF ready = {} THEN UNCHANGED mjpeg ELSE mjpeg' \in ready
        /\ UNCHANGED <<instance, servers, holds>>
    BY <1>5 DEF Connected
  <2>5. \A q \in ready : q \in Requests /\ holds[q] # 0
    BY RunnerIsPositive
  <2> HIDE DEF ready
  <2>6. /\ watching' \in [Requests -> [does : {"nothing", "waits", "hangs", "streams"},
                                      proxy : Requests \cup {None}]]
        /\ mjpeg' \in Requests \cup {None}
    BY <1>0, <2>4, <2>5
  <2>7. ProxyHolds'
    BY <1>0, <2>4, <2>5 DEF ProxyHolds
  <2> QED BY <1>0, <2>1, <2>2, <2>4, <2>6, <2>7, SameInv
<1>6. CASE XcodebuildExits(r, i)
  <2> DEFINE calls == [runners[r].calls EXCEPT ![i].xcodebuild = "exited"]
  <2>1. runners' = [runners EXCEPT ![r] = [runners[r] EXCEPT !.calls = calls]]
    BY <1>0, <1>6 DEF XcodebuildExits
  <2>2. calls \in CallsType
    BY <1>0 DEF CallsType, CallType
  <2> HIDE DEF calls
  <2> QED BY <1>0, <1>6, <1>c, <1>s, <2>1, <2>2 DEF XcodebuildExits
<1>7. CASE OnExit(r, i)
  <2> DEFINE q == stopped(runners[r], i)
  <2>1. q \in RunnerType /\ Same(q, runners[r])
    BY <1>0, StoppedFacts
  <2>2. start(q, None) \in RunnerType /\ Same(start(q, None), q)
    BY <2>1, StartFacts
  <2>3. PICK p \in {q, start(q, None)} : runners' = [runners EXCEPT ![r] = p]
    BY <1>7 DEF OnExit
  <2> HIDE DEF q
  <2>4. p \in RunnerType /\ Same(p, runners[r])
    BY <2>1, <2>2 DEF Same
  <2> QED BY <1>0, <1>7, <1>s, <2>3, <2>4 DEF OnExit
<1> QED BY <1>1, <1>2, <1>3, <1>4, <1>5, <1>6, <1>7 DEF CallStep

(* Channels and requests that come and go. *)
LEMMA HolderInv ==
  ASSUME Inv, IsFiniteSet(Holder),
         \/ \E c \in Conns : (\E r \in Runner : RunWda(c, r)) \/ CloseConn(c)
         \/ \E q \in Requests : (\E r \in Runner : LockRunner(q, r)) \/ JoinProxy(q) \/ LeaveProxy(q)
  PROVE  Inv'
<1>0. /\ servers \in 0..MaxRunners /\ mjpeg \in Requests \cup {None}
      /\ holds \in [Holder -> 0..MaxRunners] /\ runners \in [Runner -> RunnerType]
      /\ watching \in [Requests -> [does : {"nothing", "waits", "hangs", "streams"},
                                    proxy : Requests \cup {None}]]
      /\ ProxyHolds /\ Conns \subseteq Holder /\ Requests \subseteq Holder
  BY DEF Inv, Types, Holder
<1>f. ASSUME NEW r \in Runner, NEW who \in Requests \cup {None}
      PROVE  /\ lock(Found(r)) \in RunnerType
             /\ start(lock(Found(r)), who) \in RunnerType
             /\ Same(start(lock(Found(r)), who), lock(Found(r)))
  <2>1. Found(r) \in RunnerType
    BY <1>0, NewRunnerFacts DEF Found
  <2> QED BY <2>1, LockFacts, StartFacts
<1>1. ASSUME NEW c \in Conns, NEW r \in Runner, RunWda(c, r) PROVE Inv'
  <2>1. ProxyHolds'
    BY <1>0, <1>1, RunnerIsPositive DEF RunWda, ProxyHolds
  <2> QED BY <1>0, <1>1, <1>f, <2>1, LockInv DEF RunWda
<1>2. ASSUME NEW c \in Conns, CloseConn(c) PROVE Inv'
  <2>1. ProxyHolds'
    BY <1>0, <1>2, HoldersAssumption DEF CloseConn, ProxyHolds
  <2> QED BY <1>0, <1>2, <2>1, UnlockInv DEF CloseConn
<1>3. ASSUME NEW q \in Requests, NEW r \in Runner, LockRunner(q, r) PROVE Inv'
  <2>1. /\ watching' \in [Requests -> [does : {"nothing", "waits", "hangs", "streams"},
                                      proxy : Requests \cup {None}]]
        /\ mjpeg' \in Requests \cup {None}
    BY <1>0, <1>3 DEF LockRunner
  <2>2. ProxyHolds'
    BY <1>0, <1>3, RunnerIsPositive DEF LockRunner, ProxyHolds
  <2> QED BY <1>0, <1>3, <1>f, <2>1, <2>2, LockInv DEF LockRunner
<1>4. ASSUME NEW q \in Requests, JoinProxy(q) PROVE Inv'
  <2>1. /\ UNCHANGED <<instance, servers, runners, holds, mjpeg>> /\ mjpeg # None
        /\ watching' = [watching EXCEPT ![q] = [does |-> "streams", proxy |-> mjpeg]]
    BY <1>4 DEF JoinProxy
  <2>2. Types'
    BY <1>0, <2>1 DEF Inv, Types
  <2>3. Counted'
    BY <2>1 DEF Inv, Counted, Holders
  <2>4. TimerIsCurrent' /\ HeldIsKept'
    BY <2>1 DEF Inv, TimerIsCurrent, HeldIsKept
  <2>5. ProxyHolds'
    BY <1>0, <2>1 DEF ProxyHolds
  <2> QED BY <2>2, <2>3, <2>4, <2>5 DEF Inv
<1>5. ASSUME NEW q \in Requests, LeaveProxy(q) PROVE Inv'
  <2>1. /\ watching' = [watching EXCEPT ![q] = Idle] /\ watching[q].does = "streams"
        /\ UNCHANGED <<instance, servers>>
    BY <1>5 DEF LeaveProxy
  <2>2. /\ watching' \in [Requests -> [does : {"nothing", "waits", "hangs", "streams"},
                                      proxy : Requests \cup {None}]]
        /\ \A o \in Requests : watching'[o].does = "streams" => o # q /\ watching'[o] = watching[o]
    BY <1>0, <2>1 DEF Idle
  <2>3. CASE \E other \in Requests \ {q} : watching[other].proxy = watching[q].proxy
    <3>1. UNCHANGED <<runners, holds, mjpeg>>
      BY <1>5, <2>3 DEF LeaveProxy
    <3>2. Types'
      BY <1>0, <2>1, <2>2, <3>1 DEF Inv, Types
    <3>3. Counted'
      BY <2>1, <3>1 DEF Inv, Counted, Holders
    <3>4. TimerIsCurrent' /\ HeldIsKept'
      BY <2>1, <3>1 DEF Inv, TimerIsCurrent, HeldIsKept
    <3>5. ProxyHolds'
      BY <1>0, <2>2, <3>1 DEF ProxyHolds
    <3> QED BY <3>2, <3>3, <3>4, <3>5 DEF Inv
  <2>4. CASE ~\E other \in Requests \ {q} : watching[other].proxy = watching[q].proxy
    <3>1. PICK p \in Requests : p = watching[q].proxy /\ holds[p] # 0
      BY <1>0, <2>1 DEF ProxyHolds
    <3>2. /\ runners' = [runners EXCEPT ![holds[p]] = unlock(@)]
          /\ holds' = [holds EXCEPT ![p] = 0] /\ mjpeg' = None
      BY <1>5, <2>4, <3>1 DEF LeaveProxy
    <3>3. ProxyHolds'
      BY <1>0, <2>2, <2>4, <3>1, <3>2 DEF ProxyHolds
    <3> QED BY <1>0, <2>1, <2>2, <3>1, <3>2, <3>3, UnlockInv
  <2> QED BY <2>3, <2>4
<1> QED BY <1>1, <1>2, <1>3, <1>4, <1>5

(* Every step keeps the invariant. *)
LEMMA NextInv == IsFiniteSet(Holder) /\ Inv /\ [Next]_vars => Inv'
<1> SUFFICES ASSUME IsFiniteSet(Holder), Inv, [Next]_vars PROVE Inv'
  OBVIOUS
<1>1. CASE \E r \in Runner, i \in Slot : CallStep(r, i) \/ XcodebuildExits(r, i) \/ OnExit(r, i)
  BY <1>1, CallInv
<1>2. ASSUME NEW r \in Runner, Deleted(r) PROVE Inv'
  <2>1. runners[r] \in RunnerType /\ runners \in [Runner -> RunnerType]
    BY DEF Inv, Types
  <2>2. runners[r].deleting /\ UNCHANGED <<instance, servers, holds, watching, mjpeg>>
    BY <1>2 DEF Deleted
  <2> DEFINE q == sessionDeleted(runners[r])
             p == [q EXCEPT !.deleting = FALSE]
  <2>3. runners' = [runners EXCEPT ![r] = p]
    BY <1>2, <2>1 DEF Deleted
  <2>4. q \in RunnerType /\ Same(q, runners[r])
    BY <2>1, DeletedFacts
  <2> HIDE DEF q
  <2>5. p \in RunnerType /\ Same(p, runners[r])
    BY <2>4 DEF RunnerType, Same
  <2> HIDE DEF p
  <2>6. ProxyHolds'
    BY <2>2 DEF Inv, ProxyHolds
  <2> QED BY <2>2, <2>3, <2>5, <2>6, SameInv DEF Inv, Types
<1>3. CASE \E r \in Runner : TimerFires(r) \/ SessionClosed(r)
  BY <1>3, ShutdownInv
<1>4. CASE \/ \E c \in Conns : (\E r \in Runner : RunWda(c, r)) \/ CloseConn(c)
           \/ \E q \in Requests : (\E r \in Runner : LockRunner(q, r)) \/ JoinProxy(q) \/ LeaveProxy(q)
  BY <1>4, HolderInv
<1>5. CASE UNCHANGED vars
  <2>1. Types' /\ TimerIsCurrent' /\ ProxyHolds' /\ HeldIsKept'
    BY <1>5 DEF vars, Inv, Types, TimerIsCurrent, ProxyHolds, HeldIsKept
  <2>2. Counted'
    BY <1>5 DEF vars, Inv, Counted, Holders
  <2> QED BY <2>1, <2>2 DEF Inv
<1> QED BY <1>1, <1>2, <1>3, <1>4, <1>5 DEF Next

-----------------------------------------------------------------------------

(* The invariant, for finitely many channels and requests. *)
THEOREM Invariant == ASSUME IsFiniteSet(Holder) PROVE Spec => []Inv
<1>1. Init => Inv
  BY InitInv
<1>2. Inv /\ [Next]_vars => Inv'
  BY NextInv
<1> QED BY <1>1, <1>2, PTL DEF Spec

(* TypeOK, for every number of runners and of calls that overlap. *)
THEOREM TypeCorrect == ASSUME IsFiniteSet(Holder) PROVE Spec => []TypeOK
<1>1. Inv => TypeOK
  BY TypesTypeOK DEF Inv
<1> QED BY <1>1, Invariant, PTL

(* HeldIsKept: the shutdown timer of unlock never takes WebDriverAgent     *)
(* from a channel or an MJPEG proxy that uses it.                          *)
THEOREM UsedIsKept == ASSUME IsFiniteSet(Holder) PROVE Spec => []HeldIsKept
<1>1. Inv => HeldIsKept
  BY DEF Inv
<1> QED BY <1>1, Invariant, PTL

-----------------------------------------------------------------------------
(* The ws-qvh process (QvhackRunner, as instance Qvh of MCRunners).        *)

(* A channel of QVHStreamProxy, and the slot of a runner of ws-qvh. *)
Channel == 1..MaxChannels

StreamRunner == [proc : {"none", "starting", "running", "ended", "stopped"},
                 started : BOOLEAN, holders : Int, older : Nat, last : BOOLEAN]

StreamChannel == [state : {"new", "open", "closed"}, runner : 0..MaxChannels,
                  proxy : BOOLEAN, releases : 0..2]

(* The types, and that an open channel has a runner it has not released. *)
Streams ==
  /\ qvhInstance \in 0..MaxChannels
  /\ qvhRunners \in [Channel -> StreamRunner]
  /\ qvhChannels \in [Channel -> StreamChannel]
  /\ \A c \in Channel : qvhChannels[c].state = "open" =>
       qvhChannels[c].releases = 0 /\ qvhChannels[c].runner # 0

(* Channels are opened, and runners created, in order: channel c at the    *)
(* latest creates runner c.                                                *)
InOrder ==
  \E opened \in 0..MaxChannels, created \in 0..MaxChannels :
    /\ created <= opened /\ qvhInstance <= created
    /\ \A c \in Channel : qvhChannels[c] = Qvh!Unopened <=> c > opened
    /\ \A r \in Channel : IF r > created THEN qvhRunners[r] = Qvh!Unused
                                           ELSE qvhRunners[r].proc # "none"
    /\ \A c \in Channel : qvhChannels[c].runner <= created

(* A runner counts its channels, only the timer of the runner of the map   *)
(* is pending, when nobody holds that one, and open channels hold the      *)
(* runner of the map, which is not stopped.                                *)
Balanced ==
  /\ \A r \in Channel : qvhRunners[r].holders = Cardinality(Qvh!Open(r)) /\ qvhRunners[r].older = 0
  /\ \A r \in Channel : qvhRunners[r].last => qvhInstance = r /\ Qvh!Open(r) = {}
  /\ \A c \in Channel : qvhChannels[c].state = "open" => qvhChannels[c].runner = qvhInstance
  /\ qvhInstance # 0 => qvhRunners[qvhInstance].proc # "stopped"

(* The premise of HeldIsKept. *)
OnceOnly == \A c \in Channel : ~Qvh!ReleasedTwice(c)

StreamInv == Streams /\ InOrder /\ (OnceOnly => Balanced)

(* A new runner has no holder and no timer. *)
LEMMA UnusedFacts ==
  /\ Qvh!NewRunner \in StreamRunner
  /\ ~Qvh!NewRunner.last /\ Qvh!NewRunner.proc = "starting"
  /\ Qvh!NewRunner.holders = 0 /\ Qvh!NewRunner.older = 0
  /\ Qvh!Unused \in StreamRunner
  /\ ~Qvh!Unused.last /\ Qvh!Unused.proc = "none"
  /\ Qvh!Unused.holders = 0 /\ Qvh!Unused.older = 0
<1>1. /\ Qvh!NewRunner \in StreamRunner
      /\ ~Qvh!NewRunner.last /\ Qvh!NewRunner.proc = "starting"
      /\ Qvh!NewRunner.holders = 0 /\ Qvh!NewRunner.older = 0
  BY DEF Qvh!NewRunner, StreamRunner
<1> DEFINE n == Qvh!NewRunner
<1>2. Qvh!Unused = [n EXCEPT !.proc = "none"]
  BY DEF Qvh!Unused
<1> HIDE DEF n
<1>3. /\ [n EXCEPT !.proc = "none"] \in StreamRunner
      /\ ~[n EXCEPT !.proc = "none"].last /\ [n EXCEPT !.proc = "none"].proc = "none"
      /\ [n EXCEPT !.proc = "none"].holders = 0 /\ [n EXCEPT !.proc = "none"].older = 0
  BY <1>1 DEF StreamRunner, n
<1> QED BY <1>1, <1>2, <1>3

(* The invariant holds at the start. *)
LEMMA StreamInit == Qvh!Init => StreamInv
<1> SUFFICES ASSUME Qvh!Init PROVE StreamInv
  OBVIOUS
<1>0. /\ qvhInstance = 0 /\ MaxChannels \in Nat
      /\ \A c \in Channel : qvhChannels[c] = Qvh!Unopened /\ qvhRunners[c] = Qvh!Unused
      /\ qvhRunners = [c \in Channel |-> Qvh!Unused] /\ qvhChannels = [c \in Channel |-> Qvh!Unopened]
  BY ChannelsAssumption DEF Qvh!Init, Qvh!Channel, Qvh!Runner, Channel
<1>1. /\ Qvh!Unopened \in StreamChannel
      /\ Qvh!Unopened.state = "new" /\ Qvh!Unopened.runner = 0
  BY <1>0 DEF Qvh!Unopened, StreamChannel
<1>2. /\ Qvh!Unused \in StreamRunner /\ ~Qvh!Unused.last
      /\ Qvh!Unused.holders = 0 /\ Qvh!Unused.older = 0
  BY UnusedFacts
<1>3. Streams
  BY <1>0, <1>1, <1>2 DEF Streams
<1>4. InOrder
  <2>1. \A c \in Channel : c > 0
    BY <1>0 DEF Channel
  <2>2. 0 \in 0..MaxChannels /\ \A c \in Channel : qvhChannels[c].runner = 0
    BY <1>0, <1>1
  <2> QED BY <1>0, <2>1, <2>2 DEF InOrder
<1>5. Balanced
  <2>1. \A r \in Channel : Qvh!Open(r) = {}
    BY <1>0, <1>1 DEF Qvh!Open, Qvh!Channel, Channel
  <2> QED BY <1>0, <1>1, <1>2, <2>1, FS_EmptySet DEF Balanced
<1> QED BY <1>3, <1>4, <1>5 DEF StreamInv

(* A runner that is used goes on, without a change of its holders and      *)
(* timers; channels may learn that it has started.                         *)
LEMMA GoesOn ==
  ASSUME StreamInv, NEW r \in Channel, NEW q \in StreamRunner,
         qvhRunners' = [qvhRunners EXCEPT ![r] = q],
         qvhRunners[r].proc # "none", q.proc \notin {"none", "stopped"},
         q.holders = qvhRunners[r].holders, q.older = qvhRunners[r].older,
         q.last = qvhRunners[r].last,
         UNCHANGED qvhInstance,
         qvhChannels' \in [Channel -> StreamChannel],
         \A c \in Channel : /\ qvhChannels'[c].state = qvhChannels[c].state
                            /\ qvhChannels'[c].runner = qvhChannels[c].runner
                            /\ qvhChannels'[c].releases = qvhChannels[c].releases
                            /\ qvhChannels'[c] = Qvh!Unopened <=> qvhChannels[c] = Qvh!Unopened
  PROVE  StreamInv'
<1>0. /\ qvhRunners'[r] = q /\ \A p \in Channel \ {r} : qvhRunners'[p] = qvhRunners[p]
      /\ MaxChannels \in Nat
  BY ChannelsAssumption DEF StreamInv, Streams
<1>1. Streams'
  BY <1>0 DEF StreamInv, Streams
<1>2. InOrder'
  <2>1. PICK opened \in 0..MaxChannels, created \in 0..MaxChannels :
          /\ created <= opened /\ qvhInstance <= created
          /\ \A c \in Channel : qvhChannels[c] = Qvh!Unopened <=> c > opened
          /\ \A p \in Channel : IF p > created THEN qvhRunners[p] = Qvh!Unused
                                               ELSE qvhRunners[p].proc # "none"
          /\ \A c \in Channel : qvhChannels[c].runner <= created
    BY DEF StreamInv, InOrder
  <2>2. ~(r > created)
    BY <2>1, UnusedFacts
  <2>3. /\ \A c \in Channel : qvhChannels'[c] = Qvh!Unopened <=> c > opened
        /\ \A p \in Channel : IF p > created THEN qvhRunners'[p] = Qvh!Unused
                                             ELSE qvhRunners'[p].proc # "none"
        /\ \A c \in Channel : qvhChannels'[c].runner <= created
    BY <1>0, <2>1, <2>2
  <2> QED BY <2>1, <2>3 DEF InOrder
<1>3. OnceOnly' => OnceOnly
  BY DEF OnceOnly, Qvh!ReleasedTwice
<1>4. \A p \in Channel : Qvh!Open(p)' = Qvh!Open(p)
  BY DEF Qvh!Open, Qvh!Channel, Channel
<1>5. Balanced => Balanced'
  <2> SUFFICES ASSUME Balanced PROVE Balanced'
    OBVIOUS
  <2>1. ASSUME NEW p \in Channel
        PROVE  /\ qvhRunners'[p].holders = Cardinality(Qvh!Open(p)') /\ qvhRunners'[p].older = 0
               /\ qvhRunners'[p].last => qvhInstance = p /\ Qvh!Open(p)' = {}
    BY <1>0, <1>4 DEF Balanced
  <2>2. qvhInstance # 0 => qvhRunners'[qvhInstance].proc # "stopped"
    BY <1>0 DEF Balanced, StreamInv, Streams, Channel
  <2> QED BY <2>1, <2>2 DEF Balanced
<1> QED BY <1>1, <1>2, <1>3, <1>5 DEF StreamInv

(* What the process does of itself. *)
LEMMA StreamStep ==
  ASSUME StreamInv, NEW r \in Channel, Qvh!Spawned(r) \/ Qvh!Started(r) \/ Qvh!ProcessEnds(r)
  PROVE  StreamInv'
<1>0. /\ qvhRunners[r] \in StreamRunner
      /\ qvhRunners \in [Channel -> StreamRunner]
      /\ qvhChannels \in [Channel -> StreamChannel]
  BY DEF StreamInv, Streams
<1>1. CASE Qvh!Spawned(r)
  <2> DEFINE q == [qvhRunners[r] EXCEPT !.proc = "running"]
  <2>1. /\ qvhRunners' = [qvhRunners EXCEPT ![r] = q] /\ qvhRunners[r].proc = "starting"
        /\ UNCHANGED <<qvhInstance, qvhChannels>>
    BY <1>1 DEF Qvh!Spawned
  <2>2. /\ q \in StreamRunner /\ q.proc \notin {"none", "stopped"}
        /\ q.holders = qvhRunners[r].holders /\ q.older = qvhRunners[r].older
        /\ q.last = qvhRunners[r].last
    BY <1>0 DEF StreamRunner
  <2> HIDE DEF q
  <2> QED BY <1>0, <2>1, <2>2, GoesOn
<1>2. CASE Qvh!ProcessEnds(r)
  <2> DEFINE q == [qvhRunners[r] EXCEPT !.proc = "ended"]
  <2>1. /\ qvhRunners' = [qvhRunners EXCEPT ![r] = q] /\ qvhRunners[r].proc = "running"
        /\ UNCHANGED <<qvhInstance, qvhChannels>>
    BY <1>2 DEF Qvh!ProcessEnds
  <2>2. /\ q \in StreamRunner /\ q.proc \notin {"none", "stopped"}
        /\ q.holders = qvhRunners[r].holders /\ q.older = qvhRunners[r].older
        /\ q.last = qvhRunners[r].last
    BY <1>0 DEF StreamRunner
  <2> HIDE DEF q
  <2> QED BY <1>0, <2>1, <2>2, GoesOn
<1>3. CASE Qvh!Started(r)
  <2> DEFINE q == [qvhRunners[r] EXCEPT !.started = TRUE]
  <2>1. /\ qvhRunners' = [qvhRunners EXCEPT ![r] = q] /\ qvhRunners[r].proc = "running"
        /\ UNCHANGED qvhInstance
        /\ qvhChannels' = [c \in Channel |->
             IF qvhChannels[c].runner = r THEN [qvhChannels[c] EXCEPT !.proxy = TRUE]
             ELSE qvhChannels[c]]
    BY <1>3 DEF Qvh!Started, Qvh!Channel, Channel
  <2>2. /\ q \in StreamRunner /\ q.proc \notin {"none", "stopped"}
        /\ q.holders = qvhRunners[r].holders /\ q.older = qvhRunners[r].older
        /\ q.last = qvhRunners[r].last
    BY <1>0, <2>1 DEF StreamRunner
  <2> HIDE DEF q
  <2>3. r # 0
    BY DEF Channel
  <2>4. ASSUME NEW c \in Channel
        PROVE  /\ qvhChannels'[c] \in StreamChannel
               /\ qvhChannels'[c].state = qvhChannels[c].state
               /\ qvhChannels'[c].runner = qvhChannels[c].runner
               /\ qvhChannels'[c].releases = qvhChannels[c].releases
               /\ qvhChannels'[c] = Qvh!Unopened <=> qvhChannels[c] = Qvh!Unopened
    <3>0. qvhChannels[c] \in StreamChannel
      BY <1>0
    <3>1. CASE qvhChannels[c].runner # r
      BY <2>1, <3>0, <3>1
    <3>2. CASE qvhChannels[c].runner = r
      <4>1. qvhChannels'[c] = [qvhChannels[c] EXCEPT !.proxy = TRUE]
        BY <2>1, <3>2
      <4>2. qvhChannels'[c].runner = r /\ Qvh!Unopened.runner = 0
        BY <3>0, <3>2, <4>1 DEF StreamChannel, Qvh!Unopened
      <4> QED BY <2>3, <3>0, <3>2, <4>1, <4>2 DEF StreamChannel
    <3> QED BY <3>1, <3>2
  <2>5. qvhChannels' \in [Channel -> StreamChannel]
    BY <2>1, <2>4
  <2> QED BY <2>1, <2>2, <2>4, <2>5, GoesOn
<1> QED BY <1>1, <1>2, <1>3

(* lock counts a holder and clears the timer, unlock takes a holder away   *)
(* and sets the timer for the last one, kill stops the process.            *)
LEMMA StreamOperations ==
  ASSUME NEW q \in StreamRunner
  PROVE  /\ Qvh!lock(q) \in StreamRunner /\ Qvh!lock(q).holders = q.holders + 1
         /\ ~Qvh!lock(q).last /\ Qvh!lock(q).older = q.older /\ Qvh!lock(q).proc = q.proc
         /\ Qvh!unlock(q) \in StreamRunner /\ Qvh!unlock(q).proc = q.proc
         /\ Qvh!unlock(q).holders = q.holders - 1
         /\ ~q.last => Qvh!unlock(q).older = q.older
         /\ ~q.last => Qvh!unlock(q).last = (q.holders <= 1)
         /\ Qvh!kill(q) \in StreamRunner /\ Qvh!kill(q).holders = q.holders
         /\ Qvh!kill(q).older = q.older /\ Qvh!kill(q).last = q.last
         /\ q.proc # "none" => Qvh!kill(q).proc # "none"
<1> DEFINE more == q.holders + 1
           less == q.holders - 1
           older == IF q.last THEN q.older + 1 ELSE q.older
<1>1. /\ more \in Int /\ less \in Int /\ older \in Nat
      /\ ~q.last => older = q.older
  BY DEF StreamRunner
<1>2. /\ Qvh!lock(q) = [q EXCEPT !.holders = more, !.last = FALSE]
      /\ q.holders > 1 => Qvh!unlock(q) = [q EXCEPT !.holders = less]
      /\ ~(q.holders > 1) =>
           Qvh!unlock(q) = [q EXCEPT !.holders = less, !.older = older, !.last = TRUE]
  BY DEF Qvh!lock, Qvh!unlock
<1> HIDE DEF more, less, older
<1>3. /\ Qvh!lock(q) \in StreamRunner /\ Qvh!lock(q).holders = more
      /\ ~Qvh!lock(q).last /\ Qvh!lock(q).older = q.older /\ Qvh!lock(q).proc = q.proc
  BY <1>1, <1>2 DEF StreamRunner
<1>4. /\ Qvh!unlock(q) \in StreamRunner /\ Qvh!unlock(q).proc = q.proc
      /\ Qvh!unlock(q).holders = less
      /\ ~q.last => Qvh!unlock(q).older = q.older
      /\ ~q.last => Qvh!unlock(q).last = (q.holders <= 1)
  <2>1. CASE q.holders > 1
    <3>1. ~(q.holders <= 1) /\ q.last \in BOOLEAN
      BY <2>1 DEF StreamRunner
    <3> QED BY <1>1, <1>2, <2>1, <3>1 DEF StreamRunner
  <2>2. CASE ~(q.holders > 1)
    <3>1. q.holders <= 1
      BY <2>2 DEF StreamRunner
    <3> QED BY <1>1, <1>2, <2>2, <3>1 DEF StreamRunner
  <2> QED BY <2>1, <2>2
<1>5. /\ Qvh!kill(q) \in StreamRunner /\ Qvh!kill(q).holders = q.holders
      /\ Qvh!kill(q).older = q.older /\ Qvh!kill(q).last = q.last
      /\ q.proc # "none" => Qvh!kill(q).proc # "none"
  BY DEF Qvh!kill, StreamRunner
<1> QED BY <1>3, <1>4, <1>5 DEF more, less

(* The timer of a runner that nobody holds takes it out of the map.        *)
LEMMA StreamTimer ==
  ASSUME StreamInv, NEW r \in Channel, Qvh!TimerFires(r)
  PROVE  StreamInv'
<1> DEFINE q == qvhRunners[r]
           earlier == q.older - 1
           fired == IF q.older > 0 THEN [q EXCEPT !.older = earlier] ELSE [q EXCEPT !.last = FALSE]
           p == Qvh!kill(fired)
<1>1. /\ q \in StreamRunner /\ qvhRunners \in [Channel -> StreamRunner] /\ MaxChannels \in Nat
      /\ q.older > 0 \/ q.last
      /\ qvhRunners' = [qvhRunners EXCEPT ![r] = p] /\ qvhInstance' = 0 /\ UNCHANGED qvhChannels
  BY ChannelsAssumption DEF Qvh!TimerFires, StreamInv, Streams
<1>2. /\ fired \in StreamRunner /\ fired.proc = q.proc /\ fired.holders = q.holders
      /\ q.older = 0 => ~fired.last /\ fired.older = 0
  <2>1. CASE q.older > 0
    <3>1. earlier \in Nat /\ q.older # 0
      BY <1>1, <2>1 DEF StreamRunner
    <3> HIDE DEF earlier
    <3> QED BY <1>1, <2>1, <3>1 DEF StreamRunner
  <2>2. CASE ~(q.older > 0)
    BY <1>1, <2>2 DEF StreamRunner
  <2> QED BY <2>1, <2>2
<1> HIDE DEF fired
<1>3. /\ p \in StreamRunner /\ p.holders = q.holders
      /\ q.proc # "none" => p.proc # "none"
      /\ q.older = 0 => ~p.last /\ p.older = 0
  BY <1>2, StreamOperations
<1> HIDE DEF p
<1>4. /\ qvhRunners'[r] = p /\ \A o \in Channel \ {r} : qvhRunners'[o] = qvhRunners[o]
      /\ qvhRunners' \in [Channel -> StreamRunner]
  BY <1>1, <1>3
<1>5. Streams'
  BY <1>1, <1>4 DEF StreamInv, Streams
<1>6. InOrder'
  <2>1. PICK opened \in 0..MaxChannels, created \in 0..MaxChannels :
          /\ created <= opened /\ qvhInstance <= created
          /\ \A c \in Channel : qvhChannels[c] = Qvh!Unopened <=> c > opened
          /\ \A o \in Channel : IF o > created THEN qvhRunners[o] = Qvh!Unused
                                               ELSE qvhRunners[o].proc # "none"
          /\ \A c \in Channel : qvhChannels[c].runner <= created
    BY DEF StreamInv, InOrder
  <2>2. ~(r > created) /\ 0 <= created
    BY <1>1, <2>1, UnusedFacts
  <2>3. \A o \in Channel : IF o > created THEN qvhRunners'[o] = Qvh!Unused
                                          ELSE qvhRunners'[o].proc # "none"
    BY <1>3, <1>4, <2>1, <2>2
  <2> QED BY <1>1, <2>1, <2>2, <2>3 DEF InOrder
<1>7. OnceOnly' => OnceOnly
  BY <1>1 DEF OnceOnly, Qvh!ReleasedTwice
<1>8. \A o \in Channel : Qvh!Open(o)' = Qvh!Open(o)
  BY <1>1 DEF Qvh!Open
<1>9. Balanced => Balanced'
  <2> SUFFICES ASSUME Balanced PROVE Balanced'
    OBVIOUS
  <2>1. q.older = 0 /\ q.last /\ qvhInstance = r /\ Qvh!Open(r) = {}
    BY <1>1 DEF Balanced
  <2>2. \A c \in Channel : qvhChannels[c].state # "open"
    BY <2>1 DEF Balanced, Qvh!Open, Qvh!Channel, Channel
  <2>3. ASSUME NEW o \in Channel
        PROVE  /\ qvhRunners'[o].holders = Cardinality(Qvh!Open(o)') /\ qvhRunners'[o].older = 0
               /\ ~qvhRunners'[o].last
    BY <1>3, <1>4, <1>8, <2>1 DEF Balanced
  <2> QED BY <1>1, <2>2, <2>3 DEF Balanced
<1> QED BY <1>5, <1>6, <1>7, <1>9 DEF StreamInv

(* Only finitely many channels hold a runner. *)
LEMMA OpenFinite == \A r : IsFiniteSet(Qvh!Open(r)) /\ Cardinality(Qvh!Open(r)) \in Nat
<1>1. IsFiniteSet(1..MaxChannels)
  BY ChannelsAssumption, FS_Interval
<1>2. \A r : Qvh!Open(r) \in SUBSET (1..MaxChannels)
  BY DEF Qvh!Open, Qvh!Channel
<1> QED BY <1>1, <1>2, FS_Subset, FS_CardinalityType

(* A channel opens, with the runner of the map or a new one. *)
LEMMA StreamOpens ==
  ASSUME StreamInv, NEW c \in Channel, Qvh!OpenChannel(c)
  PROVE  StreamInv'
<1> DEFINE new == CHOOSE n \in Channel : /\ qvhRunners[n] = Qvh!Unused
                                         /\ \A m \in 1..(n - 1) : qvhRunners[m] # Qvh!Unused
           its == IF qvhInstance # 0 THEN qvhInstance ELSE new
           q == IF qvhInstance # 0 THEN qvhRunners[its] ELSE Qvh!NewRunner
           p == Qvh!lock(q)
           channel == [Qvh!Unopened EXCEPT !.state = "open", !.runner = its, !.proxy = q.started]
<1>0. /\ MaxChannels \in Nat /\ c \in 1..MaxChannels /\ Channel = 1..MaxChannels
      /\ qvhRunners \in [Channel -> StreamRunner] /\ qvhChannels \in [Channel -> StreamChannel]
      /\ qvhInstance \in 0..MaxChannels
  BY ChannelsAssumption DEF StreamInv, Streams, Channel
<1>1. /\ qvhChannels[c] = Qvh!Unopened /\ \A d \in 1..(c - 1) : qvhChannels[d] # Qvh!Unopened
      /\ qvhInstance' = its /\ qvhRunners' = [qvhRunners EXCEPT ![its] = p]
      /\ qvhChannels' = [qvhChannels EXCEPT ![c] = channel]
  BY DEF Qvh!OpenChannel, Qvh!Runner, Channel
<1>2. PICK opened \in 0..MaxChannels, created \in 0..MaxChannels :
        /\ created <= opened /\ qvhInstance <= created
        /\ \A d \in Channel : qvhChannels[d] = Qvh!Unopened <=> d > opened
        /\ \A o \in Channel : IF o > created THEN qvhRunners[o] = Qvh!Unused
                                             ELSE qvhRunners[o].proc # "none"
        /\ \A d \in Channel : qvhChannels[d].runner <= created
  BY DEF StreamInv, InOrder
<1>3. c = opened + 1
  <2>1. c > opened
    BY <1>1, <1>2
  <2>2. SUFFICES ASSUME c # opened + 1 PROVE FALSE
    OBVIOUS
  <2>3. opened + 1 \in 1..(c - 1) /\ opened + 1 \in Channel /\ opened + 1 > opened
    BY <1>0, <2>1, <2>2
  <2> QED BY <1>1, <1>2, <2>3
<1>4. qvhInstance = 0 => new = created + 1 /\ new \in Channel
  <2>1. PICK k \in Channel : /\ k = created + 1 /\ qvhRunners[k] = Qvh!Unused
                             /\ \A m \in 1..(k - 1) : qvhRunners[m] # Qvh!Unused
    <3>1. created + 1 \in Channel /\ created + 1 > created
      BY <1>0, <1>2, <1>3
    <3>2. \A m \in 1..(created + 1 - 1) : m \in Channel /\ ~(m > created)
      BY <1>0
    <3> QED BY <1>2, <3>1, <3>2, UnusedFacts
  <2>2. /\ new \in Channel /\ qvhRunners[new] = Qvh!Unused
        /\ \A m \in 1..(new - 1) : qvhRunners[m] # Qvh!Unused
    <3>1. \E n \in Channel : /\ qvhRunners[n] = Qvh!Unused
                              /\ \A m \in 1..(n - 1) : qvhRunners[m] # Qvh!Unused
      BY <2>1, Zenon
    <3> QED BY <3>1, Zenon
  <2> HIDE DEF new
  <2>3. new > created
    BY <1>2, <2>2, UnusedFacts
  <2>4. SUFFICES ASSUME new # created + 1 PROVE FALSE
    BY <2>2
  <2>5. created + 1 \in 1..(new - 1)
    BY <1>0, <2>2, <2>3, <2>4
  <2> QED BY <2>1, <2>2, <2>5
<1> HIDE DEF new
<1>5. PICK r \in Channel :
      /\ its = r /\ r # 0 /\ r > 0
      /\ qvhInstance # 0 => r = qvhInstance /\ q = qvhRunners[r] /\ r <= created
      /\ qvhInstance = 0 => r = created + 1 /\ q = Qvh!NewRunner
  <2>1. its \in Channel /\ (qvhInstance # 0 => its <= created)
    BY <1>0, <1>2, <1>4
  <2>2. /\ its # 0 /\ its > 0
        /\ qvhInstance # 0 => its = qvhInstance /\ q = qvhRunners[its]
        /\ qvhInstance = 0 => its = created + 1 /\ q = Qvh!NewRunner
    <3>1. its # 0 /\ its > 0
      BY <1>0, <2>1
    <3>2. /\ qvhInstance # 0 => its = qvhInstance /\ q = qvhRunners[its]
          /\ qvhInstance = 0 => its = created + 1 /\ q = Qvh!NewRunner
      BY <1>4
    <3> QED BY <3>1, <3>2
  <2> HIDE DEF its, q
  <2> QED BY <2>1, <2>2
<1>6. q \in StreamRunner /\ q.proc # "none" /\ q.started \in BOOLEAN
  <2>1. CASE qvhInstance # 0
    <3>1. ~(r > created)
      BY <1>0, <1>5, <2>1
    <3> QED BY <1>0, <1>2, <1>5, <2>1, <3>1 DEF StreamRunner
  <2>2. CASE qvhInstance = 0
    BY <1>5, <2>2, UnusedFacts DEF StreamRunner
  <2> QED BY <2>1, <2>2
<1> HIDE DEF its, q
<1>7. /\ p \in StreamRunner /\ p.holders = q.holders + 1 /\ ~p.last
      /\ p.older = q.older /\ p.proc = q.proc
  BY <1>6, StreamOperations
<1>8. /\ channel \in StreamChannel /\ channel.state = "open" /\ channel.runner = r
      /\ channel.releases = 0 /\ channel # Qvh!Unopened
      /\ Qvh!Unopened.state = "new"
  <2>1. /\ Qvh!Unopened \in StreamChannel /\ Qvh!Unopened.state = "new"
        /\ Qvh!Unopened.releases = 0
    BY <1>0 DEF Qvh!Unopened, StreamChannel
  <2> DEFINE u == Qvh!Unopened
             started == q.started
  <2>2. /\ channel = [u EXCEPT !.state = "open", !.runner = its, !.proxy = started]
        /\ its \in 0..MaxChannels /\ its = r /\ started \in BOOLEAN
    BY <1>0, <1>5, <1>6
  <2> HIDE DEF u, started
  <2>3. /\ channel \in StreamChannel /\ channel.state = "open" /\ channel.runner = r
        /\ channel.releases = u.releases
    BY <2>1, <2>2 DEF StreamChannel, u
  <2> HIDE DEF channel
  <2> QED BY <2>1, <2>3 DEF u
<1> HIDE DEF p, channel
<1>9. /\ qvhRunners'[r] = p /\ \A o \in Channel \ {r} : qvhRunners'[o] = qvhRunners[o]
      /\ qvhRunners' \in [Channel -> StreamRunner]
      /\ qvhChannels'[c] = channel /\ \A d \in Channel \ {c} : qvhChannels'[d] = qvhChannels[d]
      /\ qvhChannels' \in [Channel -> StreamChannel]
  BY <1>0, <1>1, <1>5, <1>7, <1>8
<1>10. Streams'
  BY <1>0, <1>1, <1>5, <1>8, <1>9 DEF StreamInv, Streams
<1>11. InOrder'
  <2> DEFINE created2 == IF qvhInstance = 0 THEN created + 1 ELSE created
  <2>1. /\ c \in 0..MaxChannels /\ created2 \in 0..MaxChannels /\ created2 <= c
        /\ r <= created2 /\ created <= created2
    BY <1>0, <1>2, <1>3, <1>5
  <2>2. \A o \in Channel : IF o > created2 THEN qvhRunners'[o] = Qvh!Unused
                                           ELSE qvhRunners'[o].proc # "none"
    BY <1>0, <1>2, <1>5, <1>6, <1>7, <1>9
  <2> HIDE DEF created2
  <2>3. \A d \in Channel : qvhChannels'[d] = Qvh!Unopened <=> d > c
    BY <1>0, <1>2, <1>3, <1>8, <1>9
  <2>4. \A d \in Channel : qvhChannels'[d].runner <= created2
    <3> TAKE d \in Channel
    <3>1. qvhChannels[d].runner \in Int /\ qvhChannels[d].runner <= created
      BY <1>0, <1>2 DEF StreamChannel
    <3> QED BY <1>0, <1>8, <1>9, <2>1, <3>1
  <2> QED BY <1>1, <1>5, <2>1, <2>2, <2>3, <2>4 DEF InOrder
<1>12. OnceOnly' => OnceOnly
  <2>1. qvhChannels[c].releases = 0
    BY <1>1 DEF Qvh!Unopened
  <2> QED BY <1>9, <2>1 DEF OnceOnly, Qvh!ReleasedTwice
<1>13. Balanced => Balanced'
  <2> SUFFICES ASSUME Balanced PROVE Balanced'
    OBVIOUS
  <2>1. c \notin Qvh!Open(r) /\ Qvh!Open(r)' = Qvh!Open(r) \cup {c}
    <3>1. qvhChannels[c].state # "open"
      BY <1>1, <1>8
    <3> QED BY <1>0, <1>8, <1>9, <3>1 DEF Qvh!Open, Qvh!Channel
  <2>2. \A o \in Channel \ {r} : Qvh!Open(o)' = Qvh!Open(o)
    BY <1>0, <1>1, <1>8, <1>9 DEF Qvh!Open, Qvh!Channel
  <2>3. /\ \A d \in Channel : qvhChannels[d].state = "open" => qvhChannels[d].runner = r
        /\ qvhInstance = 0 => Qvh!Open(r) = {}
    BY <1>0, <1>5 DEF Balanced, StreamInv, Streams, Qvh!Open, Qvh!Channel
  <2>4. /\ q.holders = Cardinality(Qvh!Open(r)) /\ q.older = 0
        /\ q.proc # "stopped"
    BY <1>5, <2>3, UnusedFacts, FS_EmptySet DEF Balanced
  <2>5. Cardinality(Qvh!Open(r)') = Cardinality(Qvh!Open(r)) + 1
    BY <2>1, OpenFinite, FS_AddElement, ZenonT(30)
  <2>6. qvhRunners'[r].holders = Cardinality(Qvh!Open(r)') /\ qvhRunners'[r].older = 0
    BY <1>7, <1>9, <2>4, <2>5
  <2>7. ASSUME NEW o \in Channel \ {r}
        PROVE  /\ qvhRunners'[o].holders = Cardinality(Qvh!Open(o)') /\ qvhRunners'[o].older = 0
               /\ ~qvhRunners'[o].last
    <3>1. o # qvhInstance /\ ~qvhRunners[o].last
      BY <1>0, <1>5 DEF Balanced
    <3> QED BY <1>9, <2>2, <3>1 DEF Balanced
  <2>8. \A d \in Channel : qvhChannels'[d].state = "open" => qvhChannels'[d].runner = r
    BY <1>8, <1>9, <2>3
  <2>9. qvhRunners'[r].proc # "stopped" /\ ~qvhRunners'[r].last
    BY <1>7, <1>9, <2>4
  <2>10. \A o \in Channel : /\ qvhRunners'[o].holders = Cardinality(Qvh!Open(o)')
                            /\ qvhRunners'[o].older = 0 /\ ~qvhRunners'[o].last
    <3> TAKE o \in Channel
    <3>1. CASE o = r
      BY <2>6, <2>9, <3>1
    <3>2. CASE o # r
      BY <2>7, <3>2
    <3> QED BY <3>1, <3>2
  <2> QED BY <1>1, <1>5, <2>8, <2>9, <2>10 DEF Balanced
<1> QED BY <1>10, <1>11, <1>12, <1>13 DEF StreamInv

(* A channel closes and releases its runner, once or twice. *)
LEMMA StreamCloses ==
  ASSUME StreamInv, NEW c \in Channel, Qvh!CloseChannel(c)
  PROVE  StreamInv'
<1> DEFINE its == qvhChannels[c].runner
           q == qvhRunners[its]
           once == Qvh!unlock(q)
           twice == Qvh!unlock(once)
           p == IF qvhChannels[c].proxy THEN twice ELSE once
           times == IF qvhChannels[c].proxy THEN 2 ELSE 1
<1>0. /\ MaxChannels \in Nat /\ Channel = 1..MaxChannels
      /\ qvhRunners \in [Channel -> StreamRunner] /\ qvhChannels \in [Channel -> StreamChannel]
      /\ qvhInstance \in 0..MaxChannels
  BY ChannelsAssumption DEF StreamInv, Streams, Channel
<1>1. /\ qvhChannels[c].state = "open" /\ UNCHANGED qvhInstance
      /\ qvhRunners' = [qvhRunners EXCEPT ![its] = p]
      /\ qvhChannels' = [qvhChannels EXCEPT ![c].state = "closed", ![c].releases = times]
  BY DEF Qvh!CloseChannel
<1>2. PICK r \in Channel :
      /\ r = its /\ q \in StreamRunner /\ qvhChannels[c].releases = 0
      /\ r \in 0..MaxChannels /\ r # 0 /\ q = qvhRunners[r]
  BY <1>0, <1>1 DEF StreamInv, Streams, StreamChannel
<1>3. p \in StreamRunner /\ p.proc = q.proc
  BY <1>2, StreamOperations
<1>4. times \in 0..2
  OBVIOUS
<1>5. PICK channel \in StreamChannel :
        /\ qvhChannels' = [qvhChannels EXCEPT ![c] = channel]
        /\ channel.state = "closed" /\ channel.runner = r /\ channel.releases = times
        /\ channel # Qvh!Unopened
  <2> DEFINE channel == [qvhChannels[c] EXCEPT !.state = "closed", !.releases = times]
  <2>1. qvhChannels' = [qvhChannels EXCEPT ![c] = channel]
    BY <1>1, Zenon
  <2> HIDE DEF times
  <2>2. /\ channel \in StreamChannel
        /\ channel.state = "closed" /\ channel.runner = r /\ channel.releases = times
    BY <1>0, <1>2, <1>4 DEF StreamChannel
  <2> HIDE DEF channel
  <2>3. channel # Qvh!Unopened
    BY <2>2 DEF Qvh!Unopened
  <2> QED BY <2>1, <2>2, <2>3
<1>6. /\ qvhRunners'[r] = p /\ \A o \in Channel \ {r} : qvhRunners'[o] = qvhRunners[o]
      /\ qvhRunners' \in [Channel -> StreamRunner]
      /\ qvhChannels'[c].state = "closed" /\ qvhChannels'[c].runner = r
      /\ qvhChannels'[c].releases = times /\ qvhChannels'[c] # Qvh!Unopened
      /\ \A d \in Channel \ {c} : qvhChannels'[d] = qvhChannels[d]
      /\ qvhChannels' \in [Channel -> StreamChannel]
  <2> HIDE DEF p, its, times
  <2>1. qvhRunners' = [qvhRunners EXCEPT ![r] = p] /\ r \in Channel
    BY <1>1, <1>2
  <2>2. /\ qvhRunners'[r] = p /\ \A o \in Channel \ {r} : qvhRunners'[o] = qvhRunners[o]
        /\ qvhRunners' \in [Channel -> StreamRunner]
    BY <1>0, <1>3, <2>1
  <2>3. qvhChannels'[c] = channel /\ \A d \in Channel \ {c} : qvhChannels'[d] = qvhChannels[d]
    BY <1>0, <1>5
  <2>4. qvhChannels' \in [Channel -> StreamChannel]
    BY <1>0, <1>5
  <2> QED BY <1>5, <2>2, <2>3, <2>4
<1> HIDE DEF p, its, times
<1>7. Streams'
  BY <1>0, <1>1, <1>6 DEF StreamInv, Streams
<1>8. InOrder'
  <2>1. PICK opened \in 0..MaxChannels, created \in 0..MaxChannels :
          /\ created <= opened /\ qvhInstance <= created
          /\ \A d \in Channel : qvhChannels[d] = Qvh!Unopened <=> d > opened
          /\ \A o \in Channel : IF o > created THEN qvhRunners[o] = Qvh!Unused
                                               ELSE qvhRunners[o].proc # "none"
          /\ \A d \in Channel : qvhChannels[d].runner <= created
    BY DEF StreamInv, InOrder
  <2>2. r <= created /\ ~(r > created)
    BY <1>0, <1>2, <2>1 DEF its
  <2>3. qvhChannels[c] # Qvh!Unopened
    BY <1>1 DEF Qvh!Unopened
  <2>4. /\ \A d \in Channel : qvhChannels'[d] = Qvh!Unopened <=> d > opened
        /\ \A d \in Channel : qvhChannels'[d].runner <= created
    BY <1>6, <2>1, <2>2, <2>3
  <2>5. \A o \in Channel : IF o > created THEN qvhRunners'[o] = Qvh!Unused
                                          ELSE qvhRunners'[o].proc # "none"
    BY <1>2, <1>3, <1>6, <2>1, <2>2
  <2> QED BY <1>1, <2>1, <2>4, <2>5 DEF InOrder
<1>9. OnceOnly' => OnceOnly /\ p = once /\ ~qvhChannels[c].proxy
  <2> SUFFICES ASSUME OnceOnly' PROVE OnceOnly /\ p = once /\ ~qvhChannels[c].proxy
    OBVIOUS
  <2>1. times # 2
    BY <1>6 DEF OnceOnly, Qvh!ReleasedTwice
  <2>2. ~qvhChannels[c].proxy /\ p = once
    BY <2>1 DEF times, p
  <2> QED BY <1>2, <1>6, <2>2 DEF OnceOnly, Qvh!ReleasedTwice
<1>10. Balanced /\ p = once => Balanced'
  <2> SUFFICES ASSUME Balanced, p = once PROVE Balanced'
    OBVIOUS
  <2>1. /\ Qvh!Open(r)' = Qvh!Open(r) \ {c} /\ c \in Qvh!Open(r)
        /\ \A o \in Channel \ {r} : Qvh!Open(o)' = Qvh!Open(o)
    BY <1>0, <1>1, <1>6 DEF Qvh!Open, Qvh!Channel, its
  <2>2. r = qvhInstance /\ ~q.last /\ q.older = 0 /\ q.holders = Cardinality(Qvh!Open(r))
    BY <1>1, <1>2, <2>1 DEF Balanced, its
  <2>3. /\ p.holders = q.holders - 1 /\ p.older = 0 /\ p.last = (q.holders <= 1)
        /\ p.proc = q.proc
    BY <1>2, <2>2, StreamOperations
  <2>4. Cardinality(Qvh!Open(r) \ {c}) = Cardinality(Qvh!Open(r)) - 1
    BY <2>1, OpenFinite, FS_RemoveElement
  <2>5. /\ Cardinality(Qvh!Open(r) \ {c}) \in Nat
        /\ Cardinality(Qvh!Open(r) \ {c}) = 0 => Qvh!Open(r) \ {c} = {}
    BY OpenFinite, FS_RemoveElement, FS_CardinalityType, FS_EmptySet
  <2>6. /\ qvhRunners'[r].holders = Cardinality(Qvh!Open(r)') /\ qvhRunners'[r].older = 0
        /\ qvhRunners'[r].last => Qvh!Open(r)' = {}
    <3>1. p.holders = Cardinality(Qvh!Open(r) \ {c}) /\ p.older = 0
      BY <2>2, <2>3, <2>4
    <3>2. p.last => Qvh!Open(r) \ {c} = {}
      <4>1. q.holders <= 1 => Cardinality(Qvh!Open(r) \ {c}) = 0
        <5> DEFINE n == Cardinality(Qvh!Open(r) \ {c})
                   m == Cardinality(Qvh!Open(r))
        <5>1. q.holders = m /\ n = m - 1 /\ n \in Nat /\ m \in Nat
          BY <2>2, <2>4, <2>5, OpenFinite
        <5> HIDE DEF n, m
        <5> QED BY <5>1 DEF n
      <4> QED BY <2>3, <2>5, <4>1
    <3> QED BY <1>6, <2>1, <3>1, <3>2
  <2>7. ASSUME NEW o \in Channel \ {r}
        PROVE  /\ qvhRunners'[o].holders = Cardinality(Qvh!Open(o)') /\ qvhRunners'[o].older = 0
               /\ ~qvhRunners'[o].last
    BY <1>6, <2>1, <2>2 DEF Balanced
  <2>8. \A d \in Channel : qvhChannels'[d].state = "open" => qvhChannels'[d].runner = qvhInstance
    BY <1>6 DEF Balanced
  <2>9. qvhRunners'[qvhInstance].proc # "stopped"
    BY <1>2, <1>6, <2>2, <2>3 DEF Balanced
  <2>10. \A o \in Channel :
           /\ qvhRunners'[o].holders = Cardinality(Qvh!Open(o)') /\ qvhRunners'[o].older = 0
           /\ qvhRunners'[o].last => qvhInstance = o /\ Qvh!Open(o)' = {}
    <3> TAKE o \in Channel
    <3>1. CASE o = r
      BY <2>2, <2>6, <3>1
    <3>2. CASE o # r
      BY <2>7, <3>2
    <3> QED BY <3>1, <3>2
  <2> QED BY <1>1, <2>8, <2>9, <2>10 DEF Balanced
<1> QED BY <1>7, <1>8, <1>9, <1>10 DEF StreamInv

(* Every step keeps the invariant. *)
LEMMA StreamNext == StreamInv /\ [Qvh!Next]_(Qvh!vars) => StreamInv'
<1> SUFFICES ASSUME StreamInv, [Qvh!Next]_(Qvh!vars) PROVE StreamInv'
  OBVIOUS
<1>1. ASSUME NEW r \in Channel,
             Qvh!TimerFires(r) \/ Qvh!Spawned(r) \/ Qvh!Started(r) \/ Qvh!ProcessEnds(r)
      PROVE  StreamInv'
  BY <1>1, StreamTimer, StreamStep
<1>2. ASSUME NEW c \in Channel, Qvh!OpenChannel(c) \/ Qvh!CloseChannel(c) PROVE StreamInv'
  BY <1>2, StreamOpens, StreamCloses
<1>3. CASE UNCHANGED Qvh!vars
  <2>1. Streams' /\ InOrder' /\ (OnceOnly' => OnceOnly)
    BY <1>3 DEF Qvh!vars, StreamInv, Streams, InOrder, OnceOnly, Qvh!ReleasedTwice
  <2>2. Balanced => Balanced'
    BY <1>3 DEF Qvh!vars, Balanced, Qvh!Open
  <2> QED BY <2>1, <2>2 DEF StreamInv
<1> QED BY <1>1, <1>2, <1>3 DEF Qvh!Next, Qvh!Runner, Qvh!Channel, Channel

(* StreamIsKept: as long as no QVHStreamProxy has released its runner      *)
(* twice, the shutdown timer of QvhackRunner.unlock never stops the        *)
(* ws-qvh process of an open channel.                                      *)
THEOREM HeldStream == Qvh!Spec => []StreamIsKept
<1>1. Qvh!Init => StreamInv
  BY StreamInit
<1>2. StreamInv /\ [Qvh!Next]_(Qvh!vars) => StreamInv'
  BY StreamNext
<1>3. StreamInv => StreamIsKept
  <2> SUFFICES ASSUME StreamInv, OnceOnly, NEW r \in Channel, Qvh!Open(r) # {}
               PROVE  qvhInstance = r /\ qvhRunners[r].proc # "stopped"
    BY DEF StreamIsKept, Qvh!HeldIsKept, OnceOnly, Qvh!Channel, Qvh!Runner, Channel
  <2>1. PICK c \in Channel : qvhChannels[c].state = "open" /\ qvhChannels[c].runner = r
    BY DEF Qvh!Open, Qvh!Channel, Channel
  <2> QED BY <2>1 DEF StreamInv, Streams, Balanced
<1> QED BY <1>1, <1>2, <1>3, PTL DEF Qvh!Spec
=============================================================================
