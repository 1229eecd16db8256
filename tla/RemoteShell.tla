----------------------------- MODULE RemoteShell -----------------------------
(***************************************************************************)
(* A shell on an Android device: the page's terminal (ShellClient) asks    *)
(* for it once its channel is open, and the middleware (RemoteShell) sends *)
(* what `adb shell' writes to its pty, gathered for 5 ms.  The process may *)
(* exit while a timer is set, and the page may leave at any time.          *)
(*                                                                         *)
(* Chunks of output are numbered.  buffer and bufferUtf8 differ in the     *)
(* kind of data only.  "stop" is not modelled: once the shell has started  *)
(* every message is input, and no page sends "stop" before.                *)
(* External: the pty, which tells of an exit after all output; a channel   *)
(* (module Channel), whose send throws once it is closed; no handler of    *)
(* the process catches what a timer throws, so that it ends the server.    *)
(* Bound: MaxOutput chunks.                                                *)
(***************************************************************************)
EXTENDS Naturals, Sequences

CONSTANT MaxOutput

VARIABLES
  ws,           \* readyState of the channel
  term,         \* the process: "none", "running", "killed", "exited"
  buffer,       \* output that waits for the timer
  timer,        \* the timer: "none", "set", or "cleared" but still in its field
  terminated,
  output,       \* chunks written to the pty so far
  sent,         \* chunks sent to the page
  closedByExit, \* the channel was closed because the process exited
  crashed       \* a timer has thrown

vars == <<ws, term, buffer, timer, terminated, output, sent, closedByExit, crashed>>

Init ==
  /\ ws = "OPEN" /\ term = "none"
  /\ buffer = <<>> /\ timer = "none" /\ terminated = FALSE
  /\ output = 0 /\ sent = <<>> /\ closedByExit = FALSE /\ crashed = FALSE

(* start: the first message of the page *)
createTerminal ==
  /\ ws = "OPEN" /\ term = "none" /\ ~crashed
  /\ term' = "running"
  /\ UNCHANGED <<ws, buffer, timer, terminated, output, sent, closedByExit, crashed>>

(* data of the pty.  A timer that release has cleared is never set again.  *)
send ==
  /\ term \in {"running", "killed"} /\ ~crashed
  /\ output < MaxOutput /\ output' = output + 1
  /\ buffer' = Append(buffer, output + 1)
  /\ timer' = IF timer = "none" THEN "set" ELSE timer
  /\ UNCHANGED <<ws, term, terminated, sent, closedByExit, crashed>>

close ==
  /\ ws' = "CLOSED"
  /\ closedByExit' = (closedByExit \/ ws = "OPEN")

flushingNever == FALSE                                        \* mutant
flushing == timer # "none"

exit ==
  /\ term \in {"running", "killed"} /\ ~crashed
  /\ term' = "exited"
  /\ IF flushing THEN terminated' = TRUE /\ UNCHANGED <<ws, closedByExit>>
     ELSE close /\ UNCHANGED terminated
  /\ UNCHANGED <<buffer, timer, output, sent, crashed>>

timeout ==
  /\ timer = "set" /\ ~crashed
  /\ \/ /\ ws = "OPEN"
        /\ sent' = sent \o buffer /\ buffer' = <<>> /\ timer' = "none"
        /\ IF terminated THEN close ELSE UNCHANGED <<ws, closedByExit>>
        /\ UNCHANGED crashed
     \/ /\ ws = "CLOSED"
        /\ crashed' = TRUE
        /\ UNCHANGED <<ws, buffer, timer, sent, closedByExit>>
  /\ UNCHANGED <<term, terminated, output>>

(* The page closes the channel: release. *)
release ==
  /\ ws = "OPEN" /\ ~crashed
  /\ ws' = "CLOSED"
  /\ timer' = IF timer = "set" THEN "cleared" ELSE timer
  /\ term' = IF term = "running" THEN "killed" ELSE term
  /\ UNCHANGED <<buffer, terminated, output, sent, closedByExit, crashed>>

Next == createTerminal \/ send \/ exit \/ timeout \/ release

(* Timers fire.  A shell may run for ever. *)
Fairness == WF_vars(timeout)

Spec == Init /\ [][Next]_vars /\ Fairness

-----------------------------------------------------------------------------
(* When the process exits the page gets all its output, in order, before   *)
(* the channel is closed, although the last of it waits for a timer when   *)
(* the exit is told; and the channel is closed.                            *)
ShellEnds ==
  /\ [](closedByExit => sent = [i \in 1..output |-> i])
  /\ term = "exited" ~> ws = "CLOSED"
=============================================================================
