---------------------------- MODULE DeviceServer ----------------------------
(***************************************************************************)
(* One Android device and the scrcpy server the Node server keeps running  *)
(* on it: Device.fetchDeviceInfo with its retries, startServer and         *)
(* killServer, which a page may also ask for, and ScrcpyServer.run with    *)
(* its search for a PID.                                                   *)
(*                                                                         *)
(* Each of these is an async function: a call is a record in calls and     *)
(* goes on, one await at a time, whatever the other calls do meanwhile.    *)
(* The processes are listed, the command lines are read, each at a time of *)
(* its own, and what was found is used when it may be no longer true.      *)
(*                                                                         *)
(* External: adb, which may refuse a call, and the processes of the        *)
(* device.  A server that starts gets the port unless another one has it,  *)
(* and then writes its PID file, which outlives it.  What waitForServerPid *)
(* still reads when the server has exited is left out.                     *)
(* Bounds: MaxPid servers are ever started, MaxCalls calls run at a time,  *)
(* MaxStates changes of the device's state, MaxCommands commands,          *)
(* MaxFailures crashes and refused calls, and MaxEvents of these together. *)
(***************************************************************************)
EXTENDS Integers, FiniteSets

CONSTANTS MaxPid, MaxCalls, MaxStates, MaxCommands, MaxFailures, MaxEvents,
          MAX_UPDATES_COUNT, \* of Device
          MaxTries           \* of waitForServerPid

ASSUME BoundsAssumption ==
  /\ {MaxPid, MaxCalls, MaxStates, MaxCommands, MaxFailures, MaxEvents, MAX_UPDATES_COUNT,
      MaxTries} \subseteq Nat
  /\ MaxCalls > 0

VARIABLES
  connected, spawnServer, updateCount,
  pid,        \* descriptor.pid
  timers,     \* pending setTimeout(fetchDeviceInfo)
  gaveUp,     \* history: MAX_UPDATES_COUNT was exceeded
  calls,      \* the calls under way
  proc,       \* the servers on the device
  old,        \* a server of an older version: "no", "up", or "killed" but still there
  pidFile,    \* content of PID_FILE_PATH, 0 if there is none
  outdated,   \* history: servers that ended while a call had them in its list
  erased,     \* history: an abandoned call showed that there is none instead of a PID
  states, failures,
  commands, lastCommand \* how many commands there were, and the last

deviceVars == <<proc, old, pidFile, outdated>>
envVars == <<states, failures, commands, lastCommand>>
retryVars == <<updateCount, timers, gaveUp>>
shownVars == <<pid, erased>>
vars == <<connected, spawnServer, shownVars, retryVars, calls, deviceVars, envVars>>

Pid == 1..MaxPid
OldPid == MaxPid + 1
NoPid == -1
Call == 1..MaxCalls

(* A call: the function, what it awaits, the state of the other promises   *)
(* of fetchDeviceInfo ("none" for a command), the server it has started or *)
(* kills, the parameters of waitForServerPid and the PID file it has read, *)
(* and getServerPid: whether the processes are listed, and the list.       *)
Free == [call |-> "none", at |-> "pid", info |-> "none", of |-> 0,
         tries |-> 0, look |-> TRUE, file |-> 0,
         listed |-> FALSE, list |-> {}]

Init ==
  /\ connected = TRUE /\ spawnServer = TRUE
  /\ updateCount = 0 /\ timers = 0 /\ gaveUp = FALSE
  /\ pid = NoPid
  /\ calls = [c \in Call |-> IF c = 1
                THEN [Free EXCEPT !.call = "startServer", !.info = "pending"] ELSE Free]
  /\ proc = [p \in Pid |-> "none"]
  /\ old \in {"no", "up"}
  /\ pidFile = IF old = "up" THEN OldPid ELSE 0
  /\ outdated = {} /\ erased = FALSE
  /\ states = 0 /\ failures = 0
  /\ commands = 0 /\ lastCommand = "none"

Starting(c) == calls[c].call = "startServer"
Running == {p \in Pid : proc[p] \in {"starting", "up"}}

(* The servers ps end; a call that has listed one may show it after that.  *)
Ends(ps) ==
  /\ proc' = [p \in Pid |-> IF p \in ps \cap Running THEN "dead" ELSE proc[p]]
  /\ outdated' = outdated \cup {p \in ps \cap Running : \E c \in Call : p \in calls[c].list}

-----------------------------------------------------------------------------
(* The device.                                                             *)

MoreEvents == states + commands + failures < MaxEvents

Refused(isFailure) ==
  IF isFailure THEN MoreEvents /\ failures < MaxFailures /\ failures' = failures + 1
  ELSE UNCHANGED failures

PortTaken == old # "no" \/ \E p \in Pid : proc[p] = "up"

ServerUp(p) ==
  /\ proc[p] = "starting" /\ ~PortTaken
  /\ proc' = [proc EXCEPT ![p] = "up"]
  /\ pidFile' = p
  /\ UNCHANGED <<connected, spawnServer, shownVars, retryVars, calls, old, outdated, envVars>>

(* A server that cannot have the port ends.  This is a failure if its PID  *)
(* was shown: nobody looks again; other servers end only by a failure.     *)
ServerDies(p) ==
  /\ p \in Running
  /\ Ends({p})
  /\ IF proc[p] = "starting" /\ PortTaken
     THEN failures' = IF pid = p /\ failures = 0 THEN 1 ELSE failures
     ELSE Refused(TRUE)
  /\ UNCHANGED <<connected, spawnServer, shownVars, retryVars, calls, old, pidFile,
                 states, commands, lastCommand>>

OldDies ==
  /\ old = "killed"
  /\ old' = "no"
  /\ UNCHANGED <<connected, spawnServer, shownVars, retryVars, calls, proc, pidFile,
                 outdated, envVars>>

-----------------------------------------------------------------------------
(* fetchDeviceInfo.                                                        *)

FetchedAlways == "startServer"                            \* mutant
Fetched == IF spawnServer THEN "startServer" ELSE "getServerPid"

(* It runs in the free call c, or only resets the count.                   *)
fetchDeviceInfo(c, isConnected) ==
  IF isConnected
  THEN /\ calls' = [calls EXCEPT ![c] = [Free EXCEPT !.call = Fetched, !.info = "pending"]]
       /\ UNCHANGED updateCount
  ELSE /\ updateCount' = 0
       /\ UNCHANGED calls

FreeCall(c) == calls[c].call = "none" /\ \A d \in 1..(c - 1) : calls[d].call # "none"

(* setState: adb reports the device; without it, it may also have          *)
(* rebooted, which leaves the PID file.                                    *)
setState(c) ==
  /\ MoreEvents /\ states < MaxStates
  /\ states' = states + 1
  /\ connected' = ~connected
  /\ FreeCall(c)
  /\ fetchDeviceInfo(c, connected')
  /\ \/ UNCHANGED <<proc, old, outdated>>
     \/ connected /\ Ends(Pid) /\ old' = "no"
  /\ UNCHANGED <<spawnServer, shownVars, timers, gaveUp, pidFile, failures, commands, lastCommand>>

(* The timer of scheduleInfoUpdate, which nobody clears.                   *)
RetryDue(c) ==
  /\ timers > 0
  /\ timers' = timers - 1
  /\ FreeCall(c)
  /\ fetchDeviceInfo(c, connected)
  /\ UNCHANGED <<connected, spawnServer, shownVars, gaveUp, deviceVars, envVars>>

(* scheduleInfoUpdate.  updateTimeoutId was just set to undefined by its   *)
(* caller, so that its first test never holds.                             *)
scheduleForever ==                                        \* mutant
  /\ timers' = timers + 1
  /\ UNCHANGED <<updateCount, gaveUp>>
scheduleInfoUpdate ==
  /\ updateCount' = updateCount + 1
  /\ IF updateCount' > MAX_UPDATES_COUNT
     THEN gaveUp' = TRUE /\ UNCHANGED timers
     ELSE timers' = timers + 1 /\ UNCHANGED gaveUp

(* The then and the catch of Promise.all: which is settled by the first    *)
(* rejection, or when all are fulfilled.                                   *)
Fulfilled(ok) ==
  IF ok THEN updateCount' = 0 /\ UNCHANGED <<timers, gaveUp>> ELSE scheduleInfoUpdate

(* serverPromise, once the call is over and has shown a PID.               *)
ServedAnyway == TRUE                                      \* mutant
Served == ~(pid' = NoPid /\ spawnServer)

(* The call c is over, with what it has shown or with an exception.        *)
Settle(c, done) == calls' = [calls EXCEPT ![c] = Free] /\ done
Returns(c) ==
  IF calls[c].info = "none" THEN Settle(c, UNCHANGED retryVars)
  ELSE /\ calls' = [calls EXCEPT ![c] = [Free EXCEPT !.info = "pending",
                      !.call = IF Served THEN "served" ELSE "unserved"]]
       /\ UNCHANGED retryVars
Throws(c) == Settle(c, IF calls[c].info = "none" THEN UNCHANGED retryVars
                       ELSE scheduleInfoUpdate)
IsOver(c) == calls[c].call \in {"served", "unserved"}

(* The promises for properties and interfaces are fulfilled, which is      *)
(* looked at when startServer is over, or one is rejected: startServer     *)
(* then goes on with nobody waiting for it.                                *)
InfoComes(c, ok) ==
  /\ calls[c].info = "pending" /\ IsOver(c)
  /\ Settle(c, Fulfilled(ok /\ calls[c].call = "served"))
  /\ UNCHANGED <<connected, spawnServer, shownVars, deviceVars, envVars>>

InfoRejected(c) ==
  /\ calls[c].info = "pending"
  /\ calls' = [calls EXCEPT ![c] = IF IsOver(c) THEN Free
                                   ELSE [@ EXCEPT !.info = "none"]]
  /\ scheduleInfoUpdate
  /\ Refused(connected)
  /\ UNCHANGED <<connected, spawnServer, shownVars, deviceVars, states, commands, lastCommand>>

-----------------------------------------------------------------------------
(* getServerPid: the processes of this version; one of an older version is *)
(* killed, and nobody waits for that.  Without a connection there is none, *)
(* at once.                                                                *)

Asks(c) ==
  \/ Starting(c) /\ calls[c].at \in {"pid", "run", "last"}
  \/ Starting(c) /\ calls[c].at = "wait" /\ (calls[c].look => calls[c].file # 0)
  \/ calls[c].call = "getServerPid"
  \/ calls[c].call = "killServer" /\ calls[c].at = "pid"

(* getPidOf.  A refused pidof, or ps, is taken for an empty list.          *)
Processes == Running \cup (IF old = "no" THEN {} ELSE {OldPid})
Lists(c) ==
  /\ Asks(c) /\ ~calls[c].listed
  /\ connected
  /\ \E list \in {{}, Processes} :
       /\ calls' = [calls EXCEPT ![c] = [@ EXCEPT !.listed = TRUE, !.list = list]]
       /\ Refused(list # Processes)
  /\ UNCHANGED <<connected, spawnServer, shownVars, retryVars, deviceVars, states, commands,
                 lastCommand>>

(* The command line of the older server: nobody waits for its end.         *)
KillsOld(c) ==
  /\ connected /\ OldPid \in calls[c].list
  /\ old' = IF old = "up" THEN "killed" ELSE old
  /\ calls' = [calls EXCEPT ![c].list = @ \ {OldPid}]
  /\ UNCHANGED <<connected, spawnServer, shownVars, retryVars, proc, pidFile, outdated, envVars>>

(* The command lines of the others have been read, some time since the     *)
(* list: a server that still runs was found, one that has ended since may  *)
(* have been.                                                              *)
Finds(c, serverPid) ==
  /\ Asks(c)
  /\ IF calls[c].listed THEN OldPid \notin calls[c].list ELSE ~connected
  /\ serverPid \subseteq calls[c].list
  /\ calls[c].list \cap Running \subseteq serverPid

(* getServerPid of Device, which keeps the first of them in descriptor.pid.*)
(* The call is abandoned if fetchDeviceInfo no longer waits for it.        *)
Shows(c, serverPid) ==
  /\ Finds(c, serverPid)
  /\ pid' \in IF serverPid = {} THEN {NoPid} ELSE serverPid
  /\ erased' = (erased \/ (pid' = NoPid /\ pid # NoPid /\ calls[c].info = "none"))

At(c, at) ==
  calls' = [calls EXCEPT ![c] =
    [Free EXCEPT !.call = calls[c].call, !.info = calls[c].info, !.at = at]]
Goes(c, at) == At(c, at) /\ UNCHANGED retryVars

(* startServer.  Without a connection run returns at once.                 *)
StartFinds(c, serverPid) ==
  /\ Starting(c) /\ calls[c].at = "pid"
  /\ Shows(c, serverPid)
  /\ IF serverPid # {} THEN Returns(c) ELSE Goes(c, IF connected THEN "run" ELSE "last")
  /\ UNCHANGED <<connected, spawnServer, deviceVars, envVars>>

RunFinds(c, serverPid) ==
  /\ Starting(c) /\ calls[c].at = "run"
  /\ Finds(c, serverPid)
  /\ Goes(c, IF serverPid # {} THEN "last" ELSE "copy")
  /\ UNCHANGED <<connected, spawnServer, shownVars, deviceVars, envVars>>

(* The push has begun, which is all that copyServer awaits: the server is  *)
(* started.                                                                *)
Copied(c) ==
  /\ Starting(c) /\ calls[c].at = "copy"
  /\ connected
  /\ \E p \in Pid :
       /\ proc[p] = "none" /\ \A q \in 1..(p - 1) : proc[q] # "none"
       /\ proc' = [proc EXCEPT ![p] = "starting"]
       /\ calls' = [calls EXCEPT ![c] = [@ EXCEPT !.at = "wait", !.of = p,
                                           !.listed = FALSE, !.list = {}]]
  /\ UNCHANGED <<connected, spawnServer, shownVars, retryVars, old, pidFile, outdated, envVars>>

(* runPromise: the adb process that runs the server ends with it, or with  *)
(* the connection.                                                         *)
RunExits(c) ==
  /\ Starting(c) /\ calls[c].at = "wait"
  /\ calls[c].of \notin Running \/ ~connected
  /\ Goes(c, "last")
  /\ UNCHANGED <<connected, spawnServer, shownVars, deviceVars, envVars>>

(* waitForServerPid tries once more, or throws.                            *)
TriesAgain(c, look) ==
  IF calls[c].tries + 1 > MaxTries THEN Throws(c)
  ELSE /\ calls' = [calls EXCEPT ![c] = [@ EXCEPT !.tries = calls[c].tries + 1, !.look = look,
                      !.file = 0, !.listed = FALSE, !.list = {}]]
       /\ UNCHANGED retryVars

(* It reads the PID file, and lists the processes if there is one.         *)
ReadsPidFile(c) ==
  /\ Starting(c) /\ calls[c].at = "wait" /\ connected
  /\ calls[c].look /\ calls[c].file = 0
  /\ IF pidFile = 0 THEN TriesAgain(c, TRUE)
     ELSE calls' = [calls EXCEPT ![c] = [@ EXCEPT !.file = pidFile]] /\ UNCHANGED retryVars
  /\ UNCHANGED <<connected, spawnServer, shownVars, deviceVars, envVars>>

(* The process the file names has to be one of them; if it is not, the     *)
(* next tries leave the file alone.                                        *)
WaitFinds(c, serverPid) ==
  /\ Starting(c) /\ calls[c].at = "wait" /\ Finds(c, serverPid)
  /\ IF serverPid # {} /\ (calls[c].look => calls[c].file \in serverPid)
     THEN Goes(c, "last")
     ELSE TriesAgain(c, FALSE)
  /\ UNCHANGED <<connected, spawnServer, shownVars, deviceVars, envVars>>

(* getServerPid at the end of startServer, or called by fetchDeviceInfo.   *)
LastFinds(c, serverPid) ==
  /\ \/ Starting(c) /\ calls[c].at = "last"
     \/ calls[c].call = "getServerPid"
  /\ Shows(c, serverPid)
  /\ Returns(c)
  /\ UNCHANGED <<connected, spawnServer, deviceVars, envVars>>

(* killServer.                                                             *)
KillFinds(c, serverPid) ==
  /\ calls[c].call = "killServer" /\ calls[c].at = "pid"
  /\ Shows(c, serverPid)
  /\ calls' = [calls EXCEPT ![c] = IF serverPid = {} THEN Free
                 ELSE [Free EXCEPT !.call = "killServer", !.at = "kill", !.of = pid']]
  /\ UNCHANGED <<connected, spawnServer, retryVars, deviceVars, envVars>>

Kills(c) ==
  /\ calls[c].call = "killServer" /\ calls[c].at = "kill" /\ connected
  /\ Ends({calls[c].of})
  /\ At(c, "killed")
  /\ UNCHANGED <<connected, spawnServer, shownVars, retryVars, old, pidFile, envVars>>

pidAfterKillSame == pid                                   \* mutant
pidAfterKill == NoPid

Killed(c) ==
  /\ calls[c].call = "killServer" /\ calls[c].at = "killed"
  /\ pid' = pidAfterKill /\ UNCHANGED erased
  /\ calls' = [calls EXCEPT ![c] = Free]
  /\ UNCHANGED <<connected, spawnServer, retryVars, deviceVars, envVars>>

(* adb refuses what a call awaits, as it does for a device that is gone,   *)
(* and for the push once MaxPid servers have been started.                 *)
NoPidLeft(c) == calls[c].at = "copy" /\ \A p \in Pid : proc[p] # "none"
CallFails(c) ==
  /\ calls[c].call \in {"startServer", "getServerPid", "killServer"}
  /\ Refused(connected /\ ~NoPidLeft(c))
  /\ Throws(c)
  /\ UNCHANGED <<connected, spawnServer, shownVars, deviceVars, states, commands, lastCommand>>

-----------------------------------------------------------------------------
(* runCommand: a page asks for a start or a kill.                          *)

runCommand(c, command) ==
  /\ MoreEvents /\ commands < MaxCommands
  /\ commands' = commands + 1
  /\ lastCommand' = command
  /\ FreeCall(c)
  /\ calls' = [calls EXCEPT ![c] = [Free EXCEPT !.call = command]]
  /\ spawnServer' = (command = "startServer")
  /\ UNCHANGED <<connected, shownVars, retryVars, deviceVars, states, failures>>

GoesOn(c) ==
  \/ Lists(c) \/ KillsOld(c)
  \/ \E serverPid \in SUBSET Pid :
       \/ StartFinds(c, serverPid) \/ RunFinds(c, serverPid) \/ WaitFinds(c, serverPid)
       \/ LastFinds(c, serverPid) \/ KillFinds(c, serverPid)
  \/ ReadsPidFile(c) \/ Copied(c) \/ RunExits(c) \/ Kills(c) \/ Killed(c) \/ CallFails(c)

Next ==
  \/ \E p \in Pid : ServerUp(p) \/ ServerDies(p)
  \/ OldDies
  \/ \E c \in Call :
       \/ setState(c) \/ RetryDue(c)
       \/ \E command \in {"startServer", "killServer"} : runCommand(c, command)
       \/ \E ok \in BOOLEAN : InfoComes(c, ok)
       \/ InfoRejected(c)
       \/ GoesOn(c)

(* While a promise can be settled, a timer is due or a process has to end, *)
(* one of them happens.  No more is needed: none of it can go on for ever  *)
(* while another waits.  Commands, changes of the device and crashes need  *)
(* not come.                                                               *)
Progress ==
  \/ \E c \in Call : \/ RetryDue(c) \/ GoesOn(c)
                     \/ InfoRejected(c) \/ \E ok \in BOOLEAN : InfoComes(c, ok)
  \/ \E p \in Pid : ServerUp(p) \/ (PortTaken /\ proc[p] = "starting" /\ ServerDies(p))
  \/ OldDies

Fairness == WF_vars(Progress)

Spec == Init /\ [][Next]_vars /\ Fairness

-----------------------------------------------------------------------------

(* The device is connected, no call is under way, no timer is pending,     *)
(* adb refused nothing, and no server ended but one that lost the port     *)
(* before its PID was shown.                                               *)
Quiet == timers = 0 /\ \A c \in Call : calls[c] = Free
AtRest == Quiet /\ connected /\ failures = 0

(* What fetchDeviceInfo and its retries are for: whatever overlaps, a      *)
(* device that no page has commanded ends with a server shown to the       *)
(* pages, unless all the attempts were used, or a call that was abandoned  *)
(* when the connection was lost has shown, after a later fetch, that there *)
(* was none before.  An older server that is killed but still has the port *)
(* makes the first attempt fail.                                           *)
ServerKept == AtRest /\ commands = 0 => pid # NoPid \/ gaveUp \/ erased

(* The PID the pages are shown at rest names a server that runs, after     *)
(* kills, reboots and changes of the connection, also when all the         *)
(* attempts were used up.  One case leaves a PID that nothing corrects:    *)
(* the server was killed, lost the port or went with the device after a    *)
(* call had listed it and before that call showed it.                      *)
ShownServerRuns == AtRest /\ pid # NoPid => pid \in Running \cup outdated

(* After a kill no retry and no return of the device starts a server:      *)
(* once the starts that were under way are over, none begins until a page  *)
(* asks for one.                                                           *)
KillLasts ==
  [][lastCommand = "killServer" /\ lastCommand' = "killServer"
       /\ (\A c \in Call : ~Starting(c)) => \A c \in Call : ~Starting(c)']_vars

(* The retries end, by success or by MAX_UPDATES_COUNT, even if what is    *)
(* fetched is never complete and several fetches overlap.                  *)
RetriesEnd == <>[]Quiet
=============================================================================
