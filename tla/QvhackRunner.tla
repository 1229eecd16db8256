---------------------------- MODULE QvhackRunner ----------------------------
(***************************************************************************)
(* The ws-qvh process of one iOS device, shared by the channels that show  *)
(* its screen: QvhackRunner (over ProcessRunner) and QVHStreamProxy.       *)
(*                                                                         *)
(* A runner counts its holders; the last release sets a timer that stops   *)
(* the process and removes the runner from the map of instances.           *)
(*                                                                         *)
(* External: the process, which prints to stderr when it listens and may   *)
(* end by itself; the pages, which open and close channels.  A process     *)
(* that cannot be spawned ends the whole server ('error' has no listener)  *)
(* and is left out; the search for a port ends within SHUTDOWN_TIMEOUT.    *)
(* Bound: MaxChannels channels are ever opened; each creates at most one   *)
(* runner.                                                                 *)
(***************************************************************************)
EXTENDS Integers

CONSTANT MaxChannels   \* a positive number

VARIABLES
  instance,   \* QvhackRunner.instances.get(udid), 0 if there is none
  runners,    \* the runners created, in order
  channels    \* the QVHStreamProxy of each channel

vars == <<instance, runners, channels>>

Channel == 1..MaxChannels
Runner == 1..MaxChannels

(* older counts the timers that are pending but no longer named by         *)
(* releaseTimeoutId; last says that the one it names is pending.           *)
NewRunner == [proc |-> "starting", started |-> FALSE, holders |-> 0, older |-> 0, last |-> FALSE]
Unused == [NewRunner EXCEPT !.proc = "none"]

(* proxy: onStarted has run; on an open channel it adds the second close   *)
(* listener.  releases counts how often the channel released its runner.   *)
Unopened == [state |-> "new", runner |-> 0, proxy |-> FALSE, releases |-> 0]

Init ==
  /\ instance = 0
  /\ runners = [r \in Runner |-> Unused]
  /\ channels = [c \in Channel |-> Unopened]

Open(r) == {c \in Channel : channels[c].state = "open" /\ channels[c].runner = r}

-----------------------------------------------------------------------------
(* QvhackRunner.                                                           *)

lockOnly(q) == [q EXCEPT !.holders = @ + 1]                   \* mutant
lock(q) == [q EXCEPT !.holders = @ + 1, !.last = FALSE]

unlock(q) ==
  IF q.holders > 1
  THEN [q EXCEPT !.holders = @ - 1]
  ELSE [q EXCEPT !.holders = @ - 1, !.older = IF q.last THEN @ + 1 ELSE @, !.last = TRUE]

(* ProcessRunner.release.                                                  *)
killNothing(q) == q                                           \* mutant
kill(q) == IF q.proc \in {"running", "ended"} THEN [q EXCEPT !.proc = "stopped"] ELSE q

(* The oldest timer of r runs.                                             *)
TimerFires(r) ==
  LET q == runners[r] IN
  /\ q.proc # "starting"
  /\ q.older > 0 \/ q.last
  /\ runners' = [runners EXCEPT ![r] =
       kill(IF q.older > 0 THEN [q EXCEPT !.older = @ - 1] ELSE [q EXCEPT !.last = FALSE])]
  /\ instance' = 0
  /\ UNCHANGED channels

(* getArgs has found a port, and the process is spawned.                   *)
Spawned(r) ==
  /\ runners[r].proc = "starting"
  /\ runners' = [runners EXCEPT ![r].proc = "running"]
  /\ UNCHANGED <<instance, channels>>

(* The first output of the process: 'started', for every channel that      *)
(* waits, one that has closed since included.                              *)
Started(r) ==
  /\ runners[r].proc = "running" /\ ~runners[r].started
  /\ runners' = [runners EXCEPT ![r].started = TRUE]
  /\ channels' = [c \in Channel |->
       IF channels[c].runner = r THEN [channels[c] EXCEPT !.proxy = TRUE] ELSE channels[c]]
  /\ UNCHANGED instance

(* The process ends by itself: nobody listens to 'exit'.                   *)
ProcessEnds(r) ==
  /\ runners[r].proc = "running"
  /\ runners' = [runners EXCEPT ![r].proc = "ended"]
  /\ UNCHANGED <<instance, channels>>

-----------------------------------------------------------------------------
(* QVHStreamProxy.                                                         *)

OpenChannel(c) ==
  /\ channels[c] = Unopened
  /\ \A d \in 1..(c - 1) : channels[d] # Unopened
  /\ LET r == IF instance # 0 THEN instance
              ELSE CHOOSE n \in Runner : /\ runners[n] = Unused
                                         /\ \A m \in 1..(n - 1) : runners[m] # Unused
         q == IF instance # 0 THEN runners[r] ELSE NewRunner
     IN /\ instance' = r
        /\ runners' = [runners EXCEPT ![r] = lock(q)]
        /\ channels' = [channels EXCEPT ![c] =
             [Unopened EXCEPT !.state = "open", !.runner = r, !.proxy = q.started]]

(* onSocketClose runs once for the listener of Mw and once more for that   *)
(* of onStarted.                                                           *)
CloseChannel(c) ==
  LET r == channels[c].runner
      once == unlock(runners[r])
  IN /\ channels[c].state = "open"
     /\ channels' = [channels EXCEPT ![c].state = "closed",
                                     ![c].releases = IF channels[c].proxy THEN 2 ELSE 1]
     /\ runners' = [runners EXCEPT ![r] = IF channels[c].proxy THEN unlock(once) ELSE once]
     /\ UNCHANGED instance

-----------------------------------------------------------------------------
Next ==
  \/ \E r \in Runner : TimerFires(r) \/ Spawned(r) \/ Started(r) \/ ProcessEnds(r)
  \/ \E c \in Channel : OpenChannel(c) \/ CloseChannel(c)

(* Timers run and the port is found; the rest is the choice of the         *)
(* process and of the pages.                                               *)
Fairness == \A r \in Runner : WF_vars(TimerFires(r)) /\ WF_vars(Spawned(r))

Spec == Init /\ [][Next]_vars /\ Fairness

-----------------------------------------------------------------------------
(* A channel that closed after its stream had started released the runner  *)
(* twice.                                                                  *)
ReleasedTwice(c) == channels[c].releases = 2

(* While no channel has released twice, the runner that an open channel    *)
(* holds is the one of the map and its process is not stopped, however     *)
(* opening, closing and the shutdown timers interleave.  The double        *)
(* release of QVHStreamProxy is the only way to lose a held stream.        *)
HeldIsKept ==
  (\A c \in Channel : ~ReleasedTwice(c)) =>
     \A r \in Runner : Open(r) # {} => instance = r /\ runners[r].proc # "stopped"

(* Once every channel is closed no process runs and no runner is in the    *)
(* map, unless a page comes: also after double releases, runners removed   *)
(* by the timer of another one, and processes that ended by themselves.    *)
IdleStops ==
  (\A r \in Runner : Open(r) = {}) ~>
     \/ instance = 0 /\ \A r \in Runner : runners[r].proc \notin {"starting", "running"}
     \/ \E r \in Runner : Open(r) # {}
=============================================================================
