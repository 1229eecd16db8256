------------------------ MODULE DeviceServer_proofs ------------------------
(***************************************************************************)
(* Proofs about DeviceServer, for every number of servers, calls, changes, *)
(* commands and failures: KillLasts, ShownServerRuns and ServerKept.       *)
(***************************************************************************)
EXTENDS DeviceServer, TLAPS

CallRecord ==
  [call : {"none", "startServer", "getServerPid", "killServer", "served", "unserved"},
   at : {"pid", "run", "copy", "wait", "last", "kill", "killed"},
   info : {"none", "pending"},
   of : Pid \cup {0}, tries : Nat, look : BOOLEAN, file : 0..OldPid,
   listed : BOOLEAN, list : SUBSET (Pid \cup {OldPid})]

TypeOK ==
  /\ connected \in BOOLEAN /\ spawnServer \in BOOLEAN /\ gaveUp \in BOOLEAN
  /\ updateCount \in Nat /\ timers \in Nat /\ failures \in Nat
  /\ states \in Nat /\ commands \in Nat
  /\ lastCommand \in {"none", "startServer", "killServer"}
  /\ pid \in Pid \cup {NoPid}
  /\ calls \in [Call -> CallRecord]
  /\ proc \in [Pid -> {"none", "starting", "up", "dead"}]
  /\ old \in {"no", "up", "killed"} /\ pidFile \in 0..OldPid
  /\ outdated \in SUBSET Pid /\ erased \in BOOLEAN

(* A kill leaves spawnServer off, and without a command nothing kills.     *)
Spawns ==
  /\ lastCommand = "killServer" => ~spawnServer
  /\ commands = 0 => spawnServer /\ \A c \in Call : calls[c].call # "killServer"

(* The call c will look for a server again and keep what it finds, or      *)
(* forget the one it has killed.                                           *)
Looks(c) ==
  \/ calls[c].call \in {"startServer", "getServerPid"} /\ calls[c].at = "pid"
  \/ calls[c].call = "killServer" /\ calls[c].at \in {"pid", "killed"}

(* What a list names still runs, or is remembered to have ended since.     *)
Known == Running \cup outdated
ListsKnown == \A c \in Call : calls[c].list \cap Pid \subseteq Known

StaleIsRefreshed ==
  connected /\ failures = 0 /\ pid # NoPid /\ pid \notin Known => \E c \in Call : Looks(c)

(* The call c will show a server, or ask for another attempt.              *)
Tries(c) == calls[c].info # "none" /\ calls[c].call \in {"startServer", "unserved"}

MissingIsSought ==
  connected /\ failures = 0 /\ commands = 0 /\ ~gaveUp /\ ~erased /\ pid = NoPid =>
    timers > 0 \/ \E c \in Call : Tries(c)

Inv == TypeOK /\ Spawns /\ ListsKnown /\ StaleIsRefreshed /\ MissingIsSought

-----------------------------------------------------------------------------

(* A step that changes one call.                                           *)
LEMMA Changed ==
  ASSUME calls \in [Call -> CallRecord], NEW c \in Call, NEW r \in CallRecord,
         calls' = [calls EXCEPT ![c] = r]
  PROVE  /\ calls' \in [Call -> CallRecord]
         /\ calls'[c] = r
         /\ \A d \in Call : d # c => calls'[d] = calls[d]
  OBVIOUS

LEMMA FreeType == Free \in CallRecord
  BY BoundsAssumption DEF Free, CallRecord, OldPid

LEMMA RefusedType ==
  ASSUME failures \in Nat, NEW x \in BOOLEAN, Refused(x)
  PROVE  failures' \in Nat /\ (x => failures' # 0) /\ (failures' = 0 => failures = 0)
  BY DEF Refused

LEMMA ScheduleType ==
  ASSUME TypeOK, scheduleInfoUpdate
  PROVE  /\ updateCount' \in Nat /\ timers' \in Nat /\ gaveUp' \in BOOLEAN
         /\ timers' > 0 \/ gaveUp'
<1>1. /\ updateCount \in Nat /\ timers \in Nat /\ gaveUp \in BOOLEAN
      /\ updateCount' = updateCount + 1
  BY DEF TypeOK, scheduleInfoUpdate
<1>2. CASE updateCount' > MAX_UPDATES_COUNT
  BY <1>1, <1>2 DEF scheduleInfoUpdate
<1>3. CASE ~(updateCount' > MAX_UPDATES_COUNT)
  BY <1>1, <1>3 DEF scheduleInfoUpdate
<1> QED
  BY <1>2, <1>3

LEMMA InitInv == Init => Inv
<1> SUFFICES ASSUME Init PROVE Inv
  OBVIOUS
<1>1. Pid \subseteq Nat /\ 1 \in Call
  BY BoundsAssumption DEF Pid, Call
<1>2. /\ Free \in CallRecord
      /\ [Free EXCEPT !.call = "startServer", !.info = "pending"] \in CallRecord
  BY FreeType DEF Free, CallRecord
<1>3. calls \in [Call -> CallRecord]
  BY <1>2 DEF Init
<1>4. TypeOK
  <2>1. proc \in [Pid -> {"none", "starting", "up", "dead"}] /\ pidFile \in 0..OldPid
    BY BoundsAssumption DEF Init, OldPid
  <2> QED
    BY <1>3, <2>1 DEF Init, TypeOK
<1>5. calls[1] = [Free EXCEPT !.call = "startServer", !.info = "pending"]
  BY <1>1 DEF Init
<1>6. \A c \in Call : calls[c].call # "killServer" /\ calls[c].list = {}
  BY DEF Init, Free
<1>7. Tries(1)
  BY <1>5 DEF Tries, Free
<1> QED
  BY <1>1, <1>4, <1>6, <1>7 DEF Init, Inv, Spawns, ListsKnown, StaleIsRefreshed, MissingIsSought, NoPid

-----------------------------------------------------------------------------

(* A server that a list names, or that has ended, is not forgotten.        *)
Remembers ==
  \A q \in Pid : q \in Known /\ (q \in outdated \/ \E c \in Call : q \in calls[c].list) =>
    q \in Known'

LEMMA SameDevice ==
  ASSUME UNCHANGED <<proc, outdated>>
  PROVE  Running' = Running /\ Known' = Known /\ Remembers
  BY DEF Running, Known, Remembers

LEMMA EndsFacts ==
  ASSUME TypeOK, NEW ps, Ends(ps)
  PROVE  /\ proc' \in [Pid -> {"none", "starting", "up", "dead"}]
         /\ outdated' \in SUBSET Pid
         /\ Remembers
         /\ \A q \in Known : q \notin ps => q \in Known'
<1>1. /\ proc' \in [Pid -> {"none", "starting", "up", "dead"}]
      /\ \A q \in Pid : q \in Running /\ q \notin ps => q \in Running'
  BY DEF Ends, TypeOK, Running
<1>2. outdated' \in SUBSET Pid /\ outdated \subseteq outdated'
  BY DEF Ends, TypeOK, Running
<1>3. \A q \in Running : (\E c \in Call : q \in calls[c].list) => q \in Running' \cup outdated'
  BY <1>1 DEF Ends, Running
<1>4. Running \subseteq Pid
  BY DEF Running
<1> QED
  BY <1>1, <1>2, <1>3, <1>4 DEF Known, Remembers

(* What the steps of one call c have in common.                            *)
Only(c) ==
  /\ calls' \in [Call -> CallRecord]
  /\ \A d \in Call : d # c => calls'[d] = calls[d]
  /\ calls'[c].call \in {calls[c].call, "none", "served", "unserved"}
  /\ UNCHANGED <<connected, spawnServer, commands, lastCommand>>
  /\ failures' = 0 => failures = 0
  /\ erased => erased'
  /\ calls'[c].list \cap Pid \subseteq Known'
  /\ Remembers

(* A PID that no longer runs is known to c, or was known to another call.  *)
StaleSeen(c) ==
  connected /\ failures' = 0 /\ pid' # NoPid /\ pid' \notin Known' =>
    Looks(c)' \/ (pid' = pid /\ pid \notin Known /\ ~Looks(c))

(* A server that is missing is sought by c, by a retry, or by another call.*)
MissingSeen(c) ==
  connected /\ failures' = 0 /\ commands = 0 /\ ~gaveUp' /\ ~erased' /\ pid' = NoPid =>
    \/ timers' > 0 \/ Tries(c)'
    \/ pid = NoPid /\ ~gaveUp /\ timers' >= timers /\ ~Tries(c)

LEMMA OnlyInv ==
  ASSUME Inv, TypeOK', NEW c \in Call, Only(c), StaleSeen(c), MissingSeen(c)
  PROVE  Inv'
<1>1. Spawns'
  BY DEF Inv, Spawns, Only
<1>2. StaleIsRefreshed'
  <2> SUFFICES ASSUME connected', failures' = 0, pid' # NoPid, pid' \notin Known', ~Looks(c)'
               PROVE  \E d \in Call : Looks(d)'
    BY DEF StaleIsRefreshed
  <2>1. connected /\ failures = 0 /\ pid # NoPid /\ pid \notin Known /\ ~Looks(c)
    BY DEF StaleSeen, Only
  <2>2. PICK d \in Call : Looks(d)
    BY <2>1 DEF Inv, StaleIsRefreshed
  <2>3. d # c /\ calls'[d] = calls[d]
    BY <2>1, <2>2 DEF Only
  <2>4. Looks(d)'
    BY <2>2, <2>3 DEF Looks
  <2> QED
    BY <2>4
<1>3. MissingIsSought'
  <2> SUFFICES ASSUME connected', failures' = 0, commands' = 0, ~gaveUp', ~erased', pid' = NoPid,
                      ~(timers' > 0), ~Tries(c)'
               PROVE  \E d \in Call : Tries(d)'
    BY DEF MissingIsSought
  <2>1. /\ connected /\ failures = 0 /\ commands = 0 /\ ~gaveUp /\ ~erased /\ pid = NoPid
        /\ timers' >= timers /\ ~Tries(c)
    BY DEF MissingSeen, Only
  <2>2. ~(timers > 0)
    BY <2>1 DEF Inv, TypeOK
  <2>3. PICK d \in Call : Tries(d)
    BY <2>1, <2>2 DEF Inv, MissingIsSought
  <2>4. d # c /\ calls'[d] = calls[d]
    BY <2>1, <2>3 DEF Only
  <2>5. Tries(d)'
    BY <2>3, <2>4 DEF Tries
  <2> QED
    BY <2>5
<1>4. ListsKnown'
  <2> SUFFICES ASSUME NEW d \in Call, NEW q \in Pid, q \in calls'[d].list
               PROVE  q \in Known'
    BY DEF ListsKnown
  <2>1. CASE d = c
    BY <2>1 DEF Only
  <2>2. CASE d # c
    <3>1. q \in calls[d].list
      BY <2>2 DEF Only
    <3> QED
      BY <3>1 DEF Inv, ListsKnown, Remembers, Only
  <2> QED
    BY <2>1, <2>2
<1> QED
  BY <1>1, <1>2, <1>3, <1>4 DEF Inv

(* Finds gives servers that run, or are remembered to have ended; Shows    *)
(* shows one of them, or that there is none.                               *)
LEMMA FindsFacts ==
  ASSUME Inv, NEW c \in Call, NEW serverPid \in SUBSET Pid, Finds(c, serverPid)
  PROVE  serverPid \subseteq Known
  BY DEF Finds, Inv, ListsKnown

LEMMA ShowsFacts ==
  ASSUME Inv, NEW c \in Call, NEW serverPid \in SUBSET Pid, Shows(c, serverPid)
  PROVE  /\ pid' \in Pid \cup {NoPid} /\ erased' \in BOOLEAN
         /\ erased => erased'
         /\ pid' # NoPid => pid' \in Known
         /\ pid' = NoPid <=> serverPid = {}
         /\ pid' = NoPid /\ ~erased' => pid = NoPid \/ calls[c].info # "none"
<1>1. Finds(c, serverPid) /\ serverPid \subseteq Known
  BY FindsFacts DEF Shows
<1>2. NoPid \notin Pid
  BY BoundsAssumption DEF Pid, NoPid
<1> QED
  BY <1>1, <1>2 DEF Shows, Inv, TypeOK

RetryTypes ==
  /\ updateCount' \in Nat /\ timers' \in Nat /\ gaveUp' \in BOOLEAN
  /\ timers' >= timers /\ (gaveUp => gaveUp')

LEMMA ScheduleFacts ==
  ASSUME TypeOK, scheduleInfoUpdate
  PROVE  RetryTypes /\ (timers' > 0 \/ gaveUp')
<1>1. timers \in Nat /\ (timers' = timers \/ timers' = timers + 1)
  BY DEF TypeOK, scheduleInfoUpdate
<1>2. gaveUp' = TRUE \/ gaveUp' = gaveUp
  BY DEF scheduleInfoUpdate
<1> QED
  BY <1>1, <1>2, ScheduleType DEF RetryTypes

LEMMA FulfilledFacts ==
  ASSUME TypeOK, NEW ok \in BOOLEAN, Fulfilled(ok)
  PROVE  RetryTypes /\ (~ok => timers' > 0 \/ gaveUp')
<1>1. CASE ok
  BY <1>1 DEF Fulfilled, RetryTypes, TypeOK
<1>2. CASE ~ok
  BY <1>2, ScheduleFacts DEF Fulfilled
<1> QED
  BY <1>1, <1>2

(* A call that is over with an exception has asked for another attempt, if *)
(* fetchDeviceInfo waits for it.                                           *)
LEMMA ThrowsFacts ==
  ASSUME TypeOK, NEW c \in Call, Throws(c)
  PROVE  /\ calls' = [calls EXCEPT ![c] = Free]
         /\ RetryTypes
         /\ calls[c].info # "none" => timers' > 0 \/ gaveUp'
<1>1. calls' = [calls EXCEPT ![c] = Free]
  BY DEF Throws, Settle
<1>2. CASE calls[c].info = "none"
  BY <1>1, <1>2 DEF Throws, Settle, RetryTypes, retryVars, TypeOK
<1>3. CASE calls[c].info # "none"
  BY <1>1, <1>3, ScheduleFacts DEF Throws, Settle
<1> QED
  BY <1>1, <1>2, <1>3

(* One that is over with no PID will ask for another attempt.              *)
LEMMA ReturnsFacts ==
  ASSUME TypeOK, NEW c \in Call, Returns(c)
  PROVE  /\ calls' \in [Call -> CallRecord]
         /\ \A d \in Call : d # c => calls'[d] = calls[d]
         /\ calls'[c].call \in {"none", "served", "unserved"} /\ calls'[c].list = {}
         /\ RetryTypes
         /\ calls[c].info # "none" /\ pid' = NoPid /\ spawnServer => Tries(c)'
<1> DEFINE r == [Free EXCEPT !.info = "pending",
                             !.call = IF Served THEN "served" ELSE "unserved"]
<1>1. r \in CallRecord /\ r.call \in {"served", "unserved"} /\ r.info = "pending" /\ r.list = {}
      /\ (~Served => r.call = "unserved")
  BY FreeType DEF Free, CallRecord
<1>2. RetryTypes
  BY DEF Returns, Settle, TypeOK, retryVars, RetryTypes
<1>3. pid' = NoPid /\ spawnServer => ~Served
  BY DEF Served
<1>4. CASE calls[c].info = "none"
  <2>1. calls' = [calls EXCEPT ![c] = Free]
    BY <1>4 DEF Returns, Settle
  <2> QED
    BY <1>2, <1>4, <2>1, FreeType, Changed DEF TypeOK, Free
<1>5. CASE calls[c].info # "none"
  <2>1. calls' = [calls EXCEPT ![c] = r]
    BY <1>5 DEF Returns
  <2> HIDE DEF r
  <2>2. calls' \in [Call -> CallRecord] /\ calls'[c] = r
        /\ \A d \in Call : d # c => calls'[d] = calls[d]
    BY <1>1, <2>1, Changed DEF TypeOK
  <2> QED
    BY <1>1, <1>2, <1>3, <2>2 DEF Tries
<1> QED
  BY <1>4, <1>5

(* At keeps the function and the promises of a call.                       *)
LEMMA AtFacts ==
  ASSUME TypeOK, NEW c \in Call, NEW at \in {"run", "copy", "last", "killed"}, At(c, at)
  PROVE  /\ calls' \in [Call -> CallRecord]
         /\ \A d \in Call : d # c => calls'[d] = calls[d]
         /\ calls'[c].call = calls[c].call /\ calls'[c].info = calls[c].info
         /\ calls'[c].at = at /\ calls'[c].list = {}
<1> DEFINE r == [Free EXCEPT !.call = calls[c].call, !.info = calls[c].info, !.at = at]
<1>1. /\ r \in CallRecord
      /\ r.call = calls[c].call /\ r.info = calls[c].info /\ r.at = at /\ r.list = {}
  BY FreeType DEF Free, CallRecord, TypeOK
<1>2. calls' = [calls EXCEPT ![c] = r]
  BY DEF At
<1> HIDE DEF r
<1> QED
  BY <1>1, <1>2, Changed DEF TypeOK

LEMMA ListsInv ==
  ASSUME Inv, NEW c \in Call, Lists(c)
  PROVE  Inv' /\ Only(c)
<1>1. TypeOK /\ UNCHANGED <<connected, spawnServer, shownVars, retryVars, deviceVars, states,
                            commands, lastCommand>>
  BY DEF Lists, Inv
<1>2. PICK list \in {{}, Processes} :
        /\ calls' = [calls EXCEPT ![c] = [@ EXCEPT !.listed = TRUE, !.list = list]]
        /\ Refused(list # Processes)
  BY DEF Lists
<1>3. failures' \in Nat /\ (failures' = 0 => failures = 0)
  BY <1>1, <1>2, RefusedType DEF TypeOK
<1>4. list \cap Pid \subseteq Running /\ list \in SUBSET (Pid \cup {OldPid})
  BY BoundsAssumption DEF Processes, Running, Pid, OldPid
<1> DEFINE r == [calls[c] EXCEPT !.listed = TRUE, !.list = list]
<1>5. /\ r \in CallRecord
      /\ r.call = calls[c].call /\ r.info = calls[c].info /\ r.at = calls[c].at /\ r.list = list
  BY <1>1, <1>4 DEF TypeOK, CallRecord
<1>6. calls' = [calls EXCEPT ![c] = r]
  BY <1>2
<1> HIDE DEF r
<1>7. /\ calls' \in [Call -> CallRecord] /\ calls'[c] = r
      /\ \A d \in Call : d # c => calls'[d] = calls[d]
  BY <1>1, <1>5, <1>6, Changed DEF TypeOK
<1>8. Known' = Known /\ Remembers /\ Running \subseteq Known
  BY <1>1, SameDevice DEF deviceVars, Known
<1>9. TypeOK'
  BY <1>1, <1>3, <1>7 DEF TypeOK, shownVars, retryVars, deviceVars
<1>10. Only(c)
  BY <1>1, <1>3, <1>4, <1>5, <1>7, <1>8 DEF Only, shownVars
<1>11. StaleSeen(c) /\ MissingSeen(c)
  BY <1>1, <1>5, <1>7, <1>8 DEF StaleSeen, MissingSeen, Looks, Tries, shownVars, retryVars, TypeOK
<1> QED
  BY <1>9, <1>10, <1>11, OnlyInv

LEMMA KillsOldInv ==
  ASSUME Inv, NEW c \in Call, KillsOld(c)
  PROVE  Inv' /\ Only(c)
<1>1. /\ TypeOK /\ old' \in {"no", "up", "killed"}
      /\ UNCHANGED <<connected, spawnServer, shownVars, retryVars, proc, pidFile, outdated, envVars>>
  BY DEF KillsOld, Inv, TypeOK
<1> DEFINE r == [calls[c] EXCEPT !.list = @ \ {OldPid}]
<1>2. calls' = [calls EXCEPT ![c] = r]
  BY <1>1 DEF KillsOld, TypeOK, CallRecord
<1>3. /\ r \in CallRecord /\ r.list \subseteq calls[c].list
      /\ r.call = calls[c].call /\ r.info = calls[c].info /\ r.at = calls[c].at
  BY <1>1 DEF TypeOK, CallRecord
<1> HIDE DEF r
<1>4. /\ calls' \in [Call -> CallRecord] /\ calls'[c] = r
      /\ \A d \in Call : d # c => calls'[d] = calls[d]
  BY <1>1, <1>2, <1>3, Changed DEF TypeOK
<1>5. Known' = Known /\ Remembers /\ calls[c].list \cap Pid \subseteq Known
  BY <1>1, SameDevice DEF Inv, ListsKnown
<1>6. TypeOK'
  BY <1>1, <1>4 DEF TypeOK, shownVars, retryVars, envVars
<1>7. Only(c)
  BY <1>1, <1>3, <1>4, <1>5 DEF Only, shownVars, envVars
<1>8. StaleSeen(c) /\ MissingSeen(c)
  BY <1>1, <1>3, <1>4, <1>5 DEF StaleSeen, MissingSeen, Looks, Tries, shownVars, retryVars,
                                envVars, TypeOK
<1> QED
  BY <1>6, <1>7, <1>8, OnlyInv

LEMMA StartFindsInv ==
  ASSUME Inv, NEW c \in Call, NEW serverPid \in SUBSET Pid, StartFinds(c, serverPid)
  PROVE  Inv' /\ Only(c)
<1>1. TypeOK /\ Shows(c, serverPid) /\ Starting(c) /\ calls[c].at = "pid"
      /\ UNCHANGED <<connected, spawnServer, deviceVars, envVars>>
  BY DEF StartFinds, Inv
<1>2. /\ pid' \in Pid \cup {NoPid} /\ erased' \in BOOLEAN
      /\ erased => erased'
      /\ pid' # NoPid => pid' \in Known
      /\ pid' = NoPid <=> serverPid = {}
      /\ pid' = NoPid /\ ~erased' => pid = NoPid \/ calls[c].info # "none"
  BY <1>1, ShowsFacts
<1>3. Known' = Known /\ Remembers
  BY <1>1, SameDevice DEF deviceVars
<1>4. /\ calls' \in [Call -> CallRecord]
      /\ \A d \in Call : d # c => calls'[d] = calls[d]
      /\ calls'[c].call \in {calls[c].call, "none", "served", "unserved"}
      /\ calls'[c].list = {}
      /\ RetryTypes
      /\ serverPid = {} => calls'[c].call = "startServer" /\ calls'[c].info = calls[c].info
  <2>1. CASE serverPid # {}
    BY <1>1, <2>1, ReturnsFacts DEF StartFinds
  <2>2. CASE serverPid = {}
    <3>1. PICK at \in {"run", "last"} : At(c, at) /\ UNCHANGED retryVars
      BY <2>2 DEF StartFinds, Goes
    <3>2. RetryTypes
      BY <1>1, <3>1 DEF RetryTypes, retryVars, TypeOK
    <3> QED
      BY <1>1, <2>2, <3>1, <3>2, AtFacts DEF Starting
  <2> QED
    BY <2>1, <2>2
<1>5. TypeOK'
  BY <1>1, <1>2, <1>4 DEF TypeOK, RetryTypes, deviceVars, envVars
<1>6. Only(c)
  BY <1>1, <1>2, <1>3, <1>4 DEF Only, envVars
<1>7. StaleSeen(c)
  BY <1>1, <1>2, <1>3 DEF StaleSeen
<1>8. MissingSeen(c)
  BY <1>1, <1>2, <1>4 DEF MissingSeen, Tries, RetryTypes
<1> QED
  BY <1>5, <1>6, <1>7, <1>8, OnlyInv

LEMMA RunFindsInv ==
  ASSUME Inv, NEW c \in Call, NEW serverPid \in SUBSET Pid, RunFinds(c, serverPid)
  PROVE  Inv' /\ Only(c)
<1>1. TypeOK /\ Starting(c) /\ calls[c].at = "run"
      /\ UNCHANGED <<connected, spawnServer, shownVars, deviceVars, envVars>>
  BY DEF RunFinds, Inv
<1>2. PICK at \in {"last", "copy"} : At(c, at) /\ UNCHANGED retryVars
  BY DEF RunFinds, Goes
<1>3. /\ calls' \in [Call -> CallRecord]
      /\ \A d \in Call : d # c => calls'[d] = calls[d]
      /\ calls'[c].call = calls[c].call /\ calls'[c].info = calls[c].info
      /\ calls'[c].list = {}
  BY <1>1, <1>2, AtFacts
<1>4. Known' = Known /\ Remembers
  BY <1>1, SameDevice DEF deviceVars
<1>5. TypeOK'
  BY <1>1, <1>2, <1>3 DEF TypeOK, shownVars, retryVars, deviceVars, envVars
<1>6. Only(c)
  BY <1>1, <1>3, <1>4 DEF Only, shownVars, envVars
<1>7. StaleSeen(c) /\ MissingSeen(c)
  BY <1>1, <1>2, <1>3, <1>4 DEF StaleSeen, MissingSeen, Looks, Tries, Starting, shownVars,
                                retryVars, envVars, TypeOK
<1> QED
  BY <1>5, <1>6, <1>7, OnlyInv

LEMMA CopiedInv ==
  ASSUME Inv, NEW c \in Call, Copied(c)
  PROVE  Inv' /\ Only(c)
<1>1. TypeOK /\ Starting(c) /\ calls[c].at = "copy"
      /\ UNCHANGED <<connected, spawnServer, shownVars, retryVars, old, pidFile, outdated, envVars>>
  BY DEF Copied, Inv
<1>2. PICK p \in Pid : /\ proc' = [proc EXCEPT ![p] = "starting"]
                       /\ calls' = [calls EXCEPT ![c] = [@ EXCEPT !.at = "wait", !.of = p,
                                      !.listed = FALSE, !.list = {}]]
  BY DEF Copied
<1> DEFINE r == [calls[c] EXCEPT !.at = "wait", !.of = p, !.listed = FALSE, !.list = {}]
<1>3. /\ r \in CallRecord
      /\ r.call = calls[c].call /\ r.info = calls[c].info /\ r.list = {}
  BY <1>1 DEF TypeOK, CallRecord
<1>4. calls' = [calls EXCEPT ![c] = r]
  BY <1>2
<1> HIDE DEF r
<1>5. /\ calls' \in [Call -> CallRecord] /\ calls'[c] = r
      /\ \A d \in Call : d # c => calls'[d] = calls[d]
  BY <1>1, <1>3, <1>4, Changed DEF TypeOK
<1>6. /\ proc' \in [Pid -> {"none", "starting", "up", "dead"}]
      /\ \A q \in Known : q \in Known'
  BY <1>1, <1>2 DEF TypeOK, Running, Known
<1>7. TypeOK'
  BY <1>1, <1>5, <1>6 DEF TypeOK, shownVars, retryVars, envVars
<1>8. Only(c)
  BY <1>1, <1>3, <1>5, <1>6 DEF Only, Remembers, shownVars, envVars
<1>9. StaleSeen(c) /\ MissingSeen(c)
  BY <1>1, <1>3, <1>5, <1>6 DEF StaleSeen, MissingSeen, Looks, Tries, Starting, shownVars,
                                retryVars, TypeOK
<1> QED
  BY <1>7, <1>8, <1>9, OnlyInv

LEMMA RunExitsInv ==
  ASSUME Inv, NEW c \in Call, RunExits(c)
  PROVE  Inv' /\ Only(c)
<1>1. TypeOK /\ Starting(c) /\ calls[c].at = "wait" /\ At(c, "last")
      /\ UNCHANGED <<connected, spawnServer, shownVars, retryVars, deviceVars, envVars>>
  BY DEF RunExits, Goes, Inv
<1>2. /\ calls' \in [Call -> CallRecord]
      /\ \A d \in Call : d # c => calls'[d] = calls[d]
      /\ calls'[c].call = calls[c].call /\ calls'[c].info = calls[c].info
      /\ calls'[c].list = {}
  BY <1>1, AtFacts
<1>3. TypeOK'
  BY <1>1, <1>2 DEF TypeOK, shownVars, retryVars, deviceVars, envVars
<1>4. Known' = Known /\ Remembers
  BY <1>1, SameDevice DEF deviceVars
<1>5. Only(c)
  BY <1>1, <1>2, <1>4 DEF Only, shownVars, envVars
<1>6. StaleSeen(c) /\ MissingSeen(c)
  BY <1>1, <1>2, <1>4 DEF StaleSeen, MissingSeen, Looks, Tries, Starting, shownVars, retryVars,
                          TypeOK
<1> QED
  BY <1>3, <1>5, <1>6, OnlyInv

(* A call that waits for the server, goes on waiting or stops.             *)
Waits(c) ==
  /\ calls' \in [Call -> CallRecord]
  /\ \A d \in Call : d # c => calls'[d] = calls[d]
  /\ calls'[c].call \in {calls[c].call, "none"} /\ calls'[c].list \subseteq calls[c].list
  /\ RetryTypes
  /\ Tries(c) => timers' > 0 \/ gaveUp' \/ Tries(c)'

LEMMA TriesAgainWaits ==
  ASSUME TypeOK, NEW c \in Call, NEW look \in BOOLEAN, Starting(c), TriesAgain(c, look)
  PROVE  Waits(c)
<1>1. CASE calls[c].tries + 1 > MaxTries
  <2>1. /\ calls' = [calls EXCEPT ![c] = Free] /\ RetryTypes
        /\ calls[c].info # "none" => timers' > 0 \/ gaveUp'
    BY <1>1, ThrowsFacts DEF TriesAgain
  <2>2. /\ calls' \in [Call -> CallRecord] /\ calls'[c] = Free
        /\ \A d \in Call : d # c => calls'[d] = calls[d]
    BY <2>1, FreeType, Changed DEF TypeOK
  <2> QED
    BY <2>1, <2>2 DEF Waits, Tries, Free
<1>2. CASE ~(calls[c].tries + 1 > MaxTries)
  <2> DEFINE r == [calls[c] EXCEPT !.tries = calls[c].tries + 1, !.look = look,
                     !.file = 0, !.listed = FALSE, !.list = {}]
  <2>1. calls' = [calls EXCEPT ![c] = r] /\ UNCHANGED retryVars
    BY <1>2 DEF TriesAgain
  <2>2. calls[c] \in CallRecord /\ calls[c].tries + 1 \in Nat /\ 0 \in 0..OldPid
    BY BoundsAssumption DEF TypeOK, CallRecord, OldPid
  <2>3. /\ r \in CallRecord
        /\ r.call = calls[c].call /\ r.info = calls[c].info /\ r.list = {}
    BY <2>2 DEF CallRecord
  <2> HIDE DEF r
  <2>4. /\ calls' \in [Call -> CallRecord] /\ calls'[c] = r
        /\ \A d \in Call : d # c => calls'[d] = calls[d]
    BY <2>1, <2>3, Changed DEF TypeOK
  <2>5. RetryTypes
    BY <2>1 DEF RetryTypes, retryVars, TypeOK
  <2> QED
    BY <2>3, <2>4, <2>5 DEF Waits, Tries
<1> QED
  BY <1>1, <1>2

LEMMA WaitsInv ==
  ASSUME Inv, NEW c \in Call, Starting(c), calls[c].at = "wait", Waits(c),
         UNCHANGED <<connected, spawnServer, shownVars, deviceVars, envVars>>
  PROVE  Inv' /\ Only(c)
<1>1. TypeOK /\ calls[c].list \cap Pid \subseteq Known
  BY DEF Inv, ListsKnown
<1>2. Known' = Known /\ Remembers
  BY SameDevice DEF deviceVars
<1>3. TypeOK'
  BY <1>1 DEF Waits, TypeOK, RetryTypes, shownVars, deviceVars, envVars
<1>4. Only(c)
  BY <1>1, <1>2 DEF Only, Waits, shownVars, envVars
<1>5. ~Looks(c)
  BY DEF Looks, Starting
<1>6. StaleSeen(c)
  BY <1>2, <1>5 DEF StaleSeen, shownVars
<1>7. MissingSeen(c)
  BY DEF MissingSeen, Waits, RetryTypes, shownVars
<1> QED
  BY <1>3, <1>4, <1>6, <1>7, OnlyInv

LEMMA ReadsPidFileInv ==
  ASSUME Inv, NEW c \in Call, ReadsPidFile(c)
  PROVE  Inv' /\ Only(c)
<1>1. TypeOK /\ Starting(c) /\ calls[c].at = "wait"
      /\ UNCHANGED <<connected, spawnServer, shownVars, deviceVars, envVars>>
  BY DEF ReadsPidFile, Inv
<1>2. CASE pidFile = 0
  <2>1. TriesAgain(c, TRUE)
    BY <1>2 DEF ReadsPidFile
  <2>2. Waits(c)
    BY <1>1, <2>1, TriesAgainWaits
  <2> QED
    BY <1>1, <2>2, WaitsInv
<1>3. CASE pidFile # 0
  <2> DEFINE r == [calls[c] EXCEPT !.file = pidFile]
  <2>1. calls' = [calls EXCEPT ![c] = r] /\ UNCHANGED retryVars
    BY <1>3 DEF ReadsPidFile
  <2>2. /\ r \in CallRecord
        /\ r.call = calls[c].call /\ r.info = calls[c].info /\ r.list = calls[c].list
    BY <1>1 DEF TypeOK, CallRecord
  <2> HIDE DEF r
  <2>3. /\ calls' \in [Call -> CallRecord] /\ calls'[c] = r
        /\ \A d \in Call : d # c => calls'[d] = calls[d]
    BY <1>1, <2>1, <2>2, Changed DEF TypeOK
  <2>4. RetryTypes
    BY <1>1, <2>1 DEF RetryTypes, retryVars, TypeOK
  <2>5. Waits(c)
    BY <2>2, <2>3, <2>4 DEF Waits, Tries
  <2> QED
    BY <1>1, <2>5, WaitsInv
<1> QED
  BY <1>2, <1>3

LEMMA WaitFindsInv ==
  ASSUME Inv, NEW c \in Call, NEW serverPid \in SUBSET Pid, WaitFinds(c, serverPid)
  PROVE  Inv' /\ Only(c)
<1>1. TypeOK /\ Starting(c) /\ calls[c].at = "wait"
      /\ UNCHANGED <<connected, spawnServer, shownVars, deviceVars, envVars>>
  BY DEF WaitFinds, Inv
<1>2. Goes(c, "last") \/ TriesAgain(c, FALSE)
  BY DEF WaitFinds
<1>3. CASE Goes(c, "last")
  <2>1. RetryTypes
    BY <1>1, <1>3 DEF Goes, RetryTypes, retryVars, TypeOK
  <2>2. Waits(c)
    BY <1>1, <1>3, <2>1, AtFacts DEF Goes, Starting, Tries, Waits
  <2> QED
    BY <1>1, <2>2, WaitsInv
<1>4. CASE TriesAgain(c, FALSE)
  <2>1. Waits(c)
    BY <1>1, <1>4, TriesAgainWaits
  <2> QED
    BY <1>1, <2>1, WaitsInv
<1> QED
  BY <1>2, <1>3, <1>4

LEMMA LastFindsInv ==
  ASSUME Inv, NEW c \in Call, NEW serverPid \in SUBSET Pid, LastFinds(c, serverPid)
  PROVE  Inv' /\ Only(c)
<1>1. TypeOK /\ Shows(c, serverPid) /\ Returns(c)
      /\ UNCHANGED <<connected, spawnServer, deviceVars, envVars>>
  BY DEF LastFinds, Inv
<1>2. /\ pid' \in Pid \cup {NoPid} /\ erased' \in BOOLEAN
      /\ erased => erased'
      /\ pid' # NoPid => pid' \in Known
      /\ pid' = NoPid /\ ~erased' => pid = NoPid \/ calls[c].info # "none"
  BY <1>1, ShowsFacts
<1>3. Known' = Known /\ Remembers
  BY <1>1, SameDevice DEF deviceVars
<1>4. /\ calls' \in [Call -> CallRecord]
      /\ \A d \in Call : d # c => calls'[d] = calls[d]
      /\ calls'[c].call \in {"none", "served", "unserved"} /\ calls'[c].list = {}
      /\ RetryTypes
      /\ calls[c].info # "none" /\ pid' = NoPid /\ spawnServer => Tries(c)'
  BY <1>1, ReturnsFacts
<1>5. TypeOK'
  BY <1>1, <1>2, <1>4 DEF TypeOK, RetryTypes, deviceVars, envVars
<1>6. Only(c)
  BY <1>1, <1>2, <1>3, <1>4 DEF Only, envVars
<1>7. StaleSeen(c)
  BY <1>1, <1>2, <1>3 DEF StaleSeen
<1>8. commands = 0 => spawnServer
  BY DEF Inv, Spawns
<1>9. MissingSeen(c)
  BY <1>1, <1>2, <1>4, <1>8 DEF MissingSeen, Tries, RetryTypes
<1> QED
  BY <1>5, <1>6, <1>7, <1>9, OnlyInv

LEMMA KillFindsInv ==
  ASSUME Inv, NEW c \in Call, NEW serverPid \in SUBSET Pid, KillFinds(c, serverPid)
  PROVE  Inv' /\ Only(c)
<1>1. TypeOK /\ Shows(c, serverPid) /\ calls[c].call = "killServer"
      /\ UNCHANGED <<connected, spawnServer, retryVars, deviceVars, envVars>>
  BY DEF KillFinds, Inv
<1>2. /\ pid' \in Pid \cup {NoPid} /\ erased' \in BOOLEAN
      /\ erased => erased'
      /\ pid' # NoPid => pid' \in Known
      /\ pid' = NoPid <=> serverPid = {}
  BY <1>1, ShowsFacts
<1>3. Known' = Known /\ Remembers
  BY <1>1, SameDevice DEF deviceVars
<1> DEFINE r == IF serverPid = {} THEN Free
                ELSE [Free EXCEPT !.call = "killServer", !.at = "kill", !.of = pid']
<1>4. calls' = [calls EXCEPT ![c] = r]
  BY DEF KillFinds
<1>5. r \in CallRecord /\ r.call \in {calls[c].call, "none"} /\ r.list = {}
  BY <1>1, <1>2, FreeType DEF CallRecord, Free
<1> HIDE DEF r
<1>6. /\ calls' \in [Call -> CallRecord] /\ calls'[c] = r
      /\ \A d \in Call : d # c => calls'[d] = calls[d]
  BY <1>1, <1>4, <1>5, Changed DEF TypeOK
<1>7. TypeOK'
  BY <1>1, <1>2, <1>6 DEF TypeOK, retryVars, deviceVars, envVars
<1>8. Only(c)
  BY <1>1, <1>2, <1>3, <1>5, <1>6 DEF Only, envVars
<1>9. StaleSeen(c)
  BY <1>1, <1>2, <1>3 DEF StaleSeen
<1>10. commands # 0
  BY <1>1 DEF Inv, Spawns
<1>11. MissingSeen(c)
  BY <1>10 DEF MissingSeen
<1> QED
  BY <1>7, <1>8, <1>9, <1>11, OnlyInv

LEMMA KillsInv ==
  ASSUME Inv, NEW c \in Call, Kills(c)
  PROVE  Inv' /\ Only(c)
<1>1. TypeOK /\ calls[c].call = "killServer" /\ At(c, "killed") /\ Ends({calls[c].of})
      /\ UNCHANGED <<connected, spawnServer, shownVars, retryVars, old, pidFile, envVars>>
  BY DEF Kills, Inv
<1>2. /\ calls' \in [Call -> CallRecord]
      /\ \A d \in Call : d # c => calls'[d] = calls[d]
      /\ calls'[c].call = "killServer" /\ calls'[c].at = "killed" /\ calls'[c].list = {}
  BY <1>1, AtFacts
<1>3. /\ proc' \in [Pid -> {"none", "starting", "up", "dead"}]
      /\ outdated' \in SUBSET Pid
      /\ Remembers
  BY <1>1, EndsFacts
<1>4. TypeOK'
  BY <1>1, <1>2, <1>3 DEF TypeOK, shownVars, retryVars, envVars
<1>5. Only(c)
  BY <1>1, <1>2, <1>3 DEF Only, shownVars, envVars
<1>6. StaleSeen(c)
  BY <1>2 DEF StaleSeen, Looks
<1>7. commands # 0
  BY <1>1 DEF Inv, Spawns
<1>8. MissingSeen(c)
  BY <1>7 DEF MissingSeen
<1> QED
  BY <1>4, <1>5, <1>6, <1>8, OnlyInv

LEMMA KilledInv ==
  ASSUME Inv, NEW c \in Call, Killed(c)
  PROVE  Inv' /\ Only(c)
<1>1. TypeOK /\ calls[c].call = "killServer" /\ pid' = NoPid /\ UNCHANGED erased
      /\ calls' = [calls EXCEPT ![c] = Free]
      /\ UNCHANGED <<connected, spawnServer, retryVars, deviceVars, envVars>>
  BY DEF Killed, pidAfterKill, Inv
<1>2. /\ calls' \in [Call -> CallRecord] /\ calls'[c] = Free
      /\ \A d \in Call : d # c => calls'[d] = calls[d]
  BY <1>1, FreeType, Changed DEF TypeOK
<1>3. TypeOK'
  BY <1>1, <1>2 DEF TypeOK, retryVars, deviceVars, envVars
<1>4. Only(c)
  BY <1>1, <1>2, SameDevice DEF Only, Free, deviceVars, envVars
<1>5. StaleSeen(c)
  BY <1>1 DEF StaleSeen
<1>6. commands # 0
  BY <1>1 DEF Inv, Spawns
<1>7. MissingSeen(c)
  BY <1>6 DEF MissingSeen
<1> QED
  BY <1>3, <1>4, <1>5, <1>7, OnlyInv

LEMMA CallFailsInv ==
  ASSUME Inv, NEW c \in Call, CallFails(c)
  PROVE  Inv' /\ Only(c)
<1>1. TypeOK /\ Throws(c) /\ Refused(connected /\ ~NoPidLeft(c))
      /\ UNCHANGED <<connected, spawnServer, shownVars, deviceVars, states, commands, lastCommand>>
      /\ calls[c].call \in {"startServer", "getServerPid", "killServer"}
  BY DEF CallFails, Inv
<1>2. /\ failures' \in Nat
      /\ failures' = 0 => failures = 0
      /\ connected /\ failures' = 0 => NoPidLeft(c)
  <2>1. (connected /\ ~NoPidLeft(c)) \in BOOLEAN
    OBVIOUS
  <2> QED
    BY <1>1, <2>1, RefusedType DEF TypeOK
<1>3. /\ calls' = [calls EXCEPT ![c] = Free]
      /\ RetryTypes
      /\ calls[c].info # "none" => timers' > 0 \/ gaveUp'
  BY <1>1, ThrowsFacts
<1>4. /\ calls' \in [Call -> CallRecord] /\ calls'[c] = Free
      /\ \A d \in Call : d # c => calls'[d] = calls[d]
  BY <1>1, <1>3, FreeType, Changed DEF TypeOK
<1>5. TypeOK'
  BY <1>1, <1>2, <1>3, <1>4 DEF TypeOK, RetryTypes, shownVars, deviceVars
<1>6. Known' = Known /\ Remembers
  BY <1>1, SameDevice DEF deviceVars
<1>7. Only(c)
  BY <1>1, <1>2, <1>4, <1>6 DEF Only, Free, shownVars
<1>8. connected /\ failures' = 0 => calls[c].at = "copy"
  BY <1>2 DEF NoPidLeft
<1>9. StaleSeen(c)
  <2> SUFFICES ASSUME connected, failures' = 0, pid' # NoPid, pid' \notin Known'
               PROVE  pid' = pid /\ pid \notin Known /\ ~Looks(c)
    BY DEF StaleSeen
  <2> QED
    BY <1>1, <1>6, <1>8 DEF Looks, shownVars
<1>10. MissingSeen(c)
  BY <1>1, <1>3 DEF MissingSeen, Tries, RetryTypes, shownVars
<1> QED
  BY <1>5, <1>7, <1>9, <1>10, OnlyInv

LEMMA InfoComesInv ==
  ASSUME Inv, NEW c \in Call, NEW ok \in BOOLEAN, InfoComes(c, ok)
  PROVE  Inv' /\ Only(c)
<1>1. TypeOK /\ IsOver(c)
      /\ calls' = [calls EXCEPT ![c] = Free] /\ Fulfilled(ok /\ calls[c].call = "served")
      /\ UNCHANGED <<connected, spawnServer, shownVars, deviceVars, envVars>>
  BY DEF InfoComes, Settle, Inv
<1>2. RetryTypes /\ (~(ok /\ calls[c].call = "served") => timers' > 0 \/ gaveUp')
  <2>1. (ok /\ calls[c].call = "served") \in BOOLEAN
    OBVIOUS
  <2> QED
    BY <1>1, <2>1, FulfilledFacts
<1>3. /\ calls' \in [Call -> CallRecord] /\ calls'[c] = Free
      /\ \A d \in Call : d # c => calls'[d] = calls[d]
  BY <1>1, FreeType, Changed DEF TypeOK
<1>4. TypeOK'
  BY <1>1, <1>2, <1>3 DEF TypeOK, RetryTypes, shownVars, deviceVars, envVars
<1>5. Known' = Known /\ Remembers
  BY <1>1, SameDevice DEF deviceVars
<1>6. Only(c)
  BY <1>1, <1>3, <1>5 DEF Only, Free, shownVars, envVars
<1>7. StaleSeen(c)
  BY <1>1, <1>5 DEF StaleSeen, Looks, IsOver, shownVars
<1>8. MissingSeen(c)
  BY <1>1, <1>2 DEF MissingSeen, Tries, RetryTypes, shownVars
<1> QED
  BY <1>4, <1>6, <1>7, <1>8, OnlyInv

LEMMA InfoRejectedInv ==
  ASSUME Inv, NEW c \in Call, InfoRejected(c)
  PROVE  Inv' /\ Only(c)
<1>1. TypeOK /\ scheduleInfoUpdate /\ Refused(connected)
      /\ UNCHANGED <<connected, spawnServer, shownVars, deviceVars, states, commands, lastCommand>>
  BY DEF InfoRejected, Inv
<1>2. /\ failures' \in Nat
      /\ failures' = 0 => failures = 0
      /\ connected => failures' # 0
  BY <1>1, RefusedType DEF TypeOK
<1>3. RetryTypes
  BY <1>1, ScheduleFacts
<1> DEFINE r == IF IsOver(c) THEN Free ELSE [calls[c] EXCEPT !.info = "none"]
<1>4. calls' = [calls EXCEPT ![c] = r]
  BY DEF InfoRejected
<1>5. /\ r \in CallRecord /\ (r.call = "none" \/ r.call = calls[c].call)
      /\ r.list \subseteq calls[c].list
  BY <1>1, FreeType DEF TypeOK, CallRecord, Free
<1> HIDE DEF r
<1>6. /\ calls' \in [Call -> CallRecord] /\ calls'[c] = r
      /\ \A d \in Call : d # c => calls'[d] = calls[d]
  BY <1>1, <1>4, <1>5, Changed DEF TypeOK
<1>7. TypeOK'
  BY <1>1, <1>2, <1>3, <1>6 DEF TypeOK, RetryTypes, shownVars, deviceVars
<1>8. Known' = Known /\ Remembers /\ calls[c].list \cap Pid \subseteq Known
  BY <1>1, SameDevice DEF deviceVars, Inv, ListsKnown
<1>9. Only(c)
  BY <1>1, <1>2, <1>5, <1>6, <1>8 DEF Only, shownVars
<1>10. StaleSeen(c) /\ MissingSeen(c)
  BY <1>2 DEF StaleSeen, MissingSeen
<1> QED
  BY <1>7, <1>9, <1>10, OnlyInv

-----------------------------------------------------------------------------
(* fetchDeviceInfo on a connection: a call that looks for a server, and    *)
(* without a command asks for one.                                         *)
LEMMA FetchFacts ==
  ASSUME Inv, NEW c \in Call, NEW x \in BOOLEAN, fetchDeviceInfo(c, x)
  PROVE  /\ calls' \in [Call -> CallRecord] /\ updateCount' \in Nat
         /\ \A d \in Call : calls'[d].call = "killServer" => calls[d].call = "killServer"
         /\ \A d \in Call : calls'[d].list \subseteq calls[d].list
         /\ x => /\ Looks(c)'
                 /\ commands = 0 => Tries(c)'
<1>1. TypeOK /\ Spawns
  BY DEF Inv
<1>2. CASE x
  <2> DEFINE r == [Free EXCEPT !.call = Fetched, !.info = "pending"]
  <2>1. calls' = [calls EXCEPT ![c] = r] /\ UNCHANGED updateCount
    BY <1>2 DEF fetchDeviceInfo
  <2>2. /\ r \in CallRecord
        /\ r.call \in {"startServer", "getServerPid"} /\ r.at = "pid" /\ r.info = "pending"
        /\ r.list = {}
        /\ spawnServer => r.call = "startServer"
    BY FreeType DEF Fetched, Free, CallRecord
  <2> HIDE DEF r
  <2>3. /\ calls' \in [Call -> CallRecord] /\ calls'[c] = r
        /\ \A d \in Call : d # c => calls'[d] = calls[d]
    BY <1>1, <2>1, <2>2, Changed DEF TypeOK
  <2> QED
    BY <1>1, <2>1, <2>2, <2>3 DEF Looks, Tries, Spawns, TypeOK
<1>3. CASE ~x
  BY <1>1, <1>3 DEF fetchDeviceInfo, TypeOK
<1> QED
  BY <1>2, <1>3

(* Lists that do not grow stay known.                                      *)
LEMMA ListsStayKnown ==
  ASSUME ListsKnown, Remembers, \A d \in Call : calls'[d].list \subseteq calls[d].list
  PROVE  ListsKnown'
<1> SUFFICES ASSUME NEW d \in Call, NEW q \in Pid, q \in calls'[d].list
             PROVE  q \in Known'
  BY DEF ListsKnown
<1>1. q \in calls[d].list
  OBVIOUS
<1> QED
  BY <1>1 DEF ListsKnown, Remembers

LEMMA setStateInv ==
  ASSUME Inv, NEW c \in Call, setState(c)
  PROVE  Inv'
<1>1. /\ TypeOK /\ Spawns /\ ListsKnown
      /\ states' = states + 1 /\ connected' \in BOOLEAN
      /\ fetchDeviceInfo(c, connected')
      /\ UNCHANGED <<spawnServer, shownVars, timers, gaveUp, pidFile, failures, commands, lastCommand>>
  BY DEF setState, Inv, TypeOK
<1>2. /\ calls' \in [Call -> CallRecord] /\ updateCount' \in Nat
      /\ \A d \in Call : calls'[d].call = "killServer" => calls[d].call = "killServer"
      /\ \A d \in Call : calls'[d].list \subseteq calls[d].list
      /\ connected' => /\ Looks(c)'
                       /\ commands = 0 => Tries(c)'
  BY <1>1, FetchFacts
<1>3. /\ proc' \in [Pid -> {"none", "starting", "up", "dead"}]
      /\ outdated' \in SUBSET Pid
      /\ Remembers
  <2>1. CASE UNCHANGED <<proc, old, outdated>>
    BY <1>1, <2>1, SameDevice DEF TypeOK
  <2>2. CASE Ends(Pid)
    BY <1>1, <2>2, EndsFacts
  <2> QED
    BY <2>1, <2>2 DEF setState
<1>4. TypeOK'
  <2>1. old' \in {"no", "up", "killed"}
    BY <1>1 DEF setState, TypeOK
  <2> QED
    BY <1>1, <1>2, <1>3, <2>1 DEF TypeOK, shownVars
<1>5. Spawns'
  BY <1>1, <1>2 DEF Spawns
<1>6. StaleIsRefreshed' /\ MissingIsSought'
  BY <1>1, <1>2 DEF StaleIsRefreshed, MissingIsSought
<1>7. ListsKnown'
  BY <1>1, <1>2, <1>3, ListsStayKnown
<1> QED
  BY <1>4, <1>5, <1>6, <1>7 DEF Inv

LEMMA RetryDueInv ==
  ASSUME Inv, NEW c \in Call, RetryDue(c)
  PROVE  Inv'
<1>1. /\ TypeOK /\ Spawns /\ ListsKnown
      /\ timers > 0 /\ timers' = timers - 1
      /\ fetchDeviceInfo(c, connected)
      /\ UNCHANGED <<connected, spawnServer, shownVars, gaveUp, deviceVars, envVars>>
  BY DEF RetryDue, Inv
<1>2. /\ calls' \in [Call -> CallRecord] /\ updateCount' \in Nat
      /\ \A d \in Call : calls'[d].call = "killServer" => calls[d].call = "killServer"
      /\ \A d \in Call : calls'[d].list \subseteq calls[d].list
      /\ connected => /\ Looks(c)'
                      /\ commands = 0 => Tries(c)'
  BY <1>1, FetchFacts DEF TypeOK
<1>3. timers' \in Nat
  BY <1>1 DEF TypeOK
<1>4. TypeOK'
  BY <1>1, <1>2, <1>3 DEF TypeOK, shownVars, deviceVars, envVars
<1>5. Spawns'
  BY <1>1, <1>2 DEF Spawns, envVars
<1>6. StaleIsRefreshed' /\ MissingIsSought'
  BY <1>1, <1>2 DEF StaleIsRefreshed, MissingIsSought, envVars
<1>7. ListsKnown'
  BY <1>1, <1>2, SameDevice, ListsStayKnown DEF deviceVars
<1> QED
  BY <1>4, <1>5, <1>6, <1>7 DEF Inv

LEMMA runCommandInv ==
  ASSUME Inv, NEW c \in Call, NEW command \in {"startServer", "killServer"},
         runCommand(c, command)
  PROVE  Inv'
<1>1. /\ TypeOK /\ ListsKnown
      /\ commands' = commands + 1 /\ lastCommand' = command
      /\ calls[c].call = "none"
      /\ spawnServer' = (command = "startServer")
      /\ UNCHANGED <<connected, shownVars, retryVars, deviceVars, states, failures>>
  BY DEF runCommand, FreeCall, Inv
<1> DEFINE r == [Free EXCEPT !.call = command]
<1>2. calls' = [calls EXCEPT ![c] = r]
  BY DEF runCommand
<1>3. r \in CallRecord /\ r.list = {}
  BY FreeType DEF Free, CallRecord
<1> HIDE DEF r
<1>4. /\ calls' \in [Call -> CallRecord] /\ calls'[c] = r
      /\ \A d \in Call : d # c => calls'[d] = calls[d]
  BY <1>1, <1>2, <1>3, Changed DEF TypeOK
<1>5. commands' \in Nat /\ commands' # 0
  BY <1>1 DEF TypeOK
<1>6. TypeOK'
  BY <1>1, <1>4, <1>5 DEF TypeOK, shownVars, retryVars, deviceVars
<1>7. Spawns'
  BY <1>1, <1>5 DEF Spawns
<1>8. StaleIsRefreshed'
  <2> SUFFICES ASSUME connected', failures' = 0, pid' # NoPid, pid' \notin Known'
               PROVE  \E d \in Call : Looks(d)'
    BY DEF StaleIsRefreshed
  <2>1. PICK d \in Call : Looks(d)
    BY <1>1, SameDevice DEF Inv, StaleIsRefreshed, shownVars, deviceVars
  <2>2. d # c /\ calls'[d] = calls[d]
    BY <1>1, <1>4, <2>1 DEF Looks
  <2>3. Looks(d)'
    BY <2>1, <2>2 DEF Looks
  <2> QED
    BY <2>3
<1>9. MissingIsSought'
  BY <1>5 DEF MissingIsSought
<1>10. ListsKnown'
  BY <1>1, <1>3, <1>4, SameDevice, ListsStayKnown DEF deviceVars
<1> QED
  BY <1>6, <1>7, <1>8, <1>9, <1>10 DEF Inv

-----------------------------------------------------------------------------
(* Steps of the device: the calls stay as they are, and the server whose   *)
(* PID is shown goes on running unless that is a failure.                  *)
LEMMA DeviceStepInv ==
  ASSUME Inv, TypeOK', Remembers,
         UNCHANGED <<connected, spawnServer, shownVars, retryVars, calls, commands, lastCommand>>,
         failures' = 0 => failures = 0 /\ (pid \in Known => pid \in Known')
  PROVE  Inv'
<1>1. Spawns'
  BY DEF Inv, Spawns
<1>2. \A c \in Call : (Looks(c)' <=> Looks(c)) /\ (Tries(c)' <=> Tries(c))
  BY DEF Looks, Tries
<1>3. StaleIsRefreshed'
  BY <1>2 DEF Inv, StaleIsRefreshed, shownVars
<1>4. MissingIsSought'
  BY <1>2 DEF Inv, MissingIsSought, shownVars, retryVars
<1>5. ListsKnown'
  BY ListsStayKnown DEF Inv
<1> QED
  BY <1>1, <1>3, <1>4, <1>5 DEF Inv

LEMMA ServerUpInv ==
  ASSUME Inv, NEW p \in Pid, ServerUp(p)
  PROVE  Inv'
<1>1. /\ TypeOK /\ proc' = [proc EXCEPT ![p] = "up"] /\ pidFile' = p
      /\ UNCHANGED <<connected, spawnServer, shownVars, retryVars, calls, old, outdated, envVars>>
  BY DEF ServerUp, Inv
<1>2. pidFile' \in 0..OldPid
  BY <1>1, BoundsAssumption DEF Pid, OldPid
<1>3. \A q \in Known : q \in Known'
  BY <1>1 DEF Running, Known, TypeOK
<1>4. proc' \in [Pid -> {"none", "starting", "up", "dead"}]
  BY <1>1 DEF TypeOK
<1>5. TypeOK'
  BY <1>1, <1>2, <1>4 DEF TypeOK, shownVars, retryVars, envVars
<1>6. Remembers
  BY <1>3 DEF Remembers
<1> QED
  BY <1>1, <1>3, <1>5, <1>6, DeviceStepInv DEF envVars

LEMMA ServerDiesInv ==
  ASSUME Inv, NEW p \in Pid, ServerDies(p)
  PROVE  Inv'
<1>1. /\ TypeOK /\ Ends({p})
      /\ UNCHANGED <<connected, spawnServer, shownVars, retryVars, calls, old, pidFile,
                     states, commands, lastCommand>>
  BY DEF ServerDies, Inv
<1>2. /\ failures' \in Nat
      /\ failures' = 0 => failures = 0 /\ pid # p
  BY <1>1 DEF ServerDies, Refused, TypeOK
<1>3. /\ proc' \in [Pid -> {"none", "starting", "up", "dead"}]
      /\ outdated' \in SUBSET Pid
      /\ Remembers
      /\ \A q \in Known : q \notin {p} => q \in Known'
  BY <1>1, EndsFacts
<1>4. TypeOK'
  BY <1>1, <1>2, <1>3 DEF TypeOK, shownVars, retryVars
<1> QED
  BY <1>1, <1>2, <1>3, <1>4, DeviceStepInv

LEMMA OldDiesInv ==
  ASSUME Inv, OldDies
  PROVE  Inv'
<1>1. TypeOK'
  BY DEF OldDies, Inv, TypeOK, shownVars, retryVars, envVars
<1>2. Known' = Known /\ Remembers
  BY SameDevice DEF OldDies
<1> QED
  BY <1>1, <1>2, DeviceStepInv DEF OldDies, envVars

LEMMA GoesOnInv ==
  ASSUME Inv, NEW c \in Call, GoesOn(c)
  PROVE  Inv' /\ Only(c)
<1>1. ASSUME NEW s \in SUBSET Pid,
             \/ StartFinds(c, s) \/ RunFinds(c, s) \/ WaitFinds(c, s)
             \/ LastFinds(c, s) \/ KillFinds(c, s)
      PROVE  Inv' /\ Only(c)
  BY <1>1, StartFindsInv, RunFindsInv, WaitFindsInv, LastFindsInv, KillFindsInv
<1>2. CASE \/ Lists(c) \/ KillsOld(c) \/ ReadsPidFile(c) \/ Copied(c) \/ RunExits(c)
           \/ Kills(c) \/ Killed(c) \/ CallFails(c)
  BY <1>2, ListsInv, KillsOldInv, ReadsPidFileInv, CopiedInv, RunExitsInv, KillsInv, KilledInv,
     CallFailsInv
<1> QED
  BY <1>1, <1>2 DEF GoesOn

LEMMA NextInv == Inv /\ [Next]_vars => Inv'
<1> SUFFICES ASSUME Inv, [Next]_vars PROVE Inv'
  OBVIOUS
<1>1. ASSUME NEW p \in Pid, ServerUp(p) \/ ServerDies(p) PROVE Inv'
  BY <1>1, ServerUpInv, ServerDiesInv
<1>2. CASE OldDies
  BY <1>2, OldDiesInv
<1>3. ASSUME NEW c \in Call, setState(c) \/ RetryDue(c) \/ InfoRejected(c) PROVE Inv'
  BY <1>3, setStateInv, RetryDueInv, InfoRejectedInv
<1>4. ASSUME NEW c \in Call, NEW command \in {"startServer", "killServer"},
             runCommand(c, command)
      PROVE  Inv'
  BY <1>4, runCommandInv
<1>5. ASSUME NEW c \in Call, NEW ok \in BOOLEAN, InfoComes(c, ok) PROVE Inv'
  BY <1>5, InfoComesInv
<1>6. ASSUME NEW c \in Call, GoesOn(c) PROVE Inv'
  BY <1>6, GoesOnInv
<1>7. CASE UNCHANGED vars
  <2>1. TypeOK'
    BY <1>7 DEF Inv, TypeOK, vars, shownVars, retryVars, deviceVars, envVars
  <2>2. Known' = Known /\ Remembers
    BY <1>7, SameDevice DEF vars, deviceVars
  <2> QED
    BY <1>7, <2>1, <2>2, DeviceStepInv DEF vars, envVars
<1> QED
  BY <1>1, <1>2, <1>3, <1>4, <1>5, <1>6, <1>7 DEF Next

-----------------------------------------------------------------------------

(* The values of the variables stay in their types, and the invariant      *)
(* holds.                                                                  *)
THEOREM InvHolds == Spec => []Inv
<1>1. Init => Inv
  BY InitInv
<1>2. Inv /\ [Next]_vars => Inv'
  BY NextInv
<1> QED
  BY <1>1, <1>2, PTL DEF Spec

(* At rest the PID that Device shows the pages names a server that runs,   *)
(* or one that ended while a call had it in its list (ListsKnown): whoever *)
(* else reboots the device, kills a server or takes the connection away, a *)
(* call is under way that looks again (StaleIsRefreshed).                  *)
THEOREM ShownRuns == Spec => []ShownServerRuns
<1>1. Inv => ShownServerRuns
  <2> SUFFICES ASSUME Inv, AtRest, pid # NoPid PROVE pid \in Known
    BY DEF ShownServerRuns, Known
  <2>1. \A c \in Call : ~Looks(c)
    BY DEF AtRest, Quiet, Looks, Free
  <2> QED
    BY <2>1 DEF Inv, StaleIsRefreshed, AtRest
<1> QED
  BY <1>1, InvHolds, PTL

(* A device that no page has commanded ends with a server shown, unless    *)
(* the attempts of fetchDeviceInfo were used up or an abandoned call has   *)
(* shown an old answer: while none is shown, one is sought or a retry is   *)
(* due (MissingIsSought).                                                  *)
THEOREM MissingIsStarted == Spec => []ServerKept
<1>1. Inv => ServerKept
  <2> SUFFICES ASSUME Inv, AtRest, commands = 0, ~gaveUp, ~erased PROVE pid # NoPid
    BY DEF ServerKept
  <2>1. \A c \in Call : ~Tries(c)
    BY DEF AtRest, Quiet, Tries, Free
  <2> QED
    BY <2>1 DEF Inv, MissingIsSought, AtRest, Quiet, TypeOK
<1> QED
  BY <1>1, InvHolds, PTL

(* After a kill spawnServer is off (Spawns), so that what retries and      *)
(* connections fetch is the PID only, and no call turns into a start.      *)
THEOREM NoStartAfterKill == Spec => KillLasts
<1>1. Inv /\ [Next]_vars =>
        [lastCommand = "killServer" /\ lastCommand' = "killServer"
           /\ (\A c \in Call : ~Starting(c)) => \A c \in Call : ~Starting(c)']_vars
  <2> SUFFICES ASSUME Inv, Next, lastCommand = "killServer", lastCommand' = "killServer",
                      \A c \in Call : ~Starting(c),
                      NEW d \in Call
               PROVE  ~Starting(d)'
    OBVIOUS
  <2>1. TypeOK /\ ~spawnServer /\ calls[d].call # "startServer"
    BY DEF Inv, Spawns, Starting
  <2>2. CASE calls' = calls
    BY <2>1, <2>2 DEF Starting
  <2>3. ASSUME NEW c \in Call, Only(c) PROVE ~Starting(d)'
    BY <2>1, <2>3 DEF Only, Starting
  <2>4. ASSUME NEW c \in Call, NEW x \in BOOLEAN, fetchDeviceInfo(c, x) PROVE ~Starting(d)'
    <3>1. Fetched = "getServerPid"
      BY <2>1 DEF Fetched
    <3>2. [Free EXCEPT !.call = Fetched, !.info = "pending"].call = "getServerPid"
      BY <3>1 DEF Free
    <3>3. calls'[d] = calls[d] \/ calls'[d] = [Free EXCEPT !.call = Fetched, !.info = "pending"]
      BY <2>1, <2>4 DEF fetchDeviceInfo, TypeOK
    <3> QED
      BY <2>1, <3>2, <3>3 DEF Starting
  <2>5. ASSUME NEW c \in Call, NEW command \in {"startServer", "killServer"},
               runCommand(c, command)
        PROVE  ~Starting(d)'
    <3>1. calls'[d] = calls[d] \/ calls'[d] = [Free EXCEPT !.call = "killServer"]
      BY <2>1, <2>5 DEF runCommand, TypeOK
    <3>2. [Free EXCEPT !.call = "killServer"].call = "killServer"
      BY DEF Free
    <3> QED
      BY <2>1, <3>1, <3>2 DEF Starting
  <2>6. ASSUME NEW p \in Pid, ServerUp(p) \/ ServerDies(p) PROVE ~Starting(d)'
    BY <2>2, <2>6 DEF ServerUp, ServerDies
  <2>7. CASE OldDies
    BY <2>2, <2>7 DEF OldDies
  <2>8. ASSUME NEW c \in Call, setState(c) \/ RetryDue(c) PROVE ~Starting(d)'
    <3>1. connected \in BOOLEAN /\ (setState(c) => connected' \in BOOLEAN)
      BY <2>1 DEF TypeOK, setState
    <3> QED
      BY <2>4, <2>8, <3>1 DEF setState, RetryDue
  <2>9. ASSUME NEW c \in Call, InfoRejected(c) PROVE ~Starting(d)'
    BY <2>3, <2>9, InfoRejectedInv
  <2>10. ASSUME NEW c \in Call, NEW ok \in BOOLEAN, InfoComes(c, ok) PROVE ~Starting(d)'
    BY <2>3, <2>10, InfoComesInv
  <2>11. ASSUME NEW c \in Call, GoesOn(c) PROVE ~Starting(d)'
    BY <2>3, <2>11, GoesOnInv
  <2> QED
    BY <2>5, <2>6, <2>7, <2>8, <2>9, <2>10, <2>11 DEF Next
<1> QED
  BY <1>1, InvHolds, PTL DEF Spec, KillLasts

=============================================================================
