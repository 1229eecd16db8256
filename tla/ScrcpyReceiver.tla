--------------------------- MODULE ScrcpyReceiver ---------------------------
(***************************************************************************)
(* castX in adb mode: a phone's scrcpy connects back three times, and one  *)
(* accept loop and a goroutine per connection find out which of them is    *)
(* the video, the audio and the control connection.                        *)
(*                                                                         *)
(* Nothing says which session a connection belongs to: the loop reads the  *)
(* name of the device from the first one after Counter was reset, and      *)
(* readHeader takes for control whatever does not start with a known codec *)
(* within 3 s.  Counter is shared without a lock.                          *)
(*                                                                         *)
(* External: the phone, whose scrcpy opens the connections in order, sends *)
(* its name on the first once all are open, and may end at any time.       *)
(* Bounds: MaxSessions sessions.  When they start is module CastXAdb's.    *)
(***************************************************************************)
EXTENDS Integers, Sequences

CONSTANT MaxSessions

ASSUME SessionsAssumption == MaxSessions \in Nat

VARIABLES
  counter,    \* ScrcpyReceiver.Counter
  job,        \* the scrcpy of session s
  alone,      \* history: s did not overlap the connecting of another session
  dialed,     \* how many connections s has opened
  backlog,    \* connections that wait for Accept
  loop,       \* the connection the accept loop has in hand
  name,       \* the bytes in front of the first header of s: "there" until read
  eaten,      \* connections whose header was read as a name
  handler     \* what the goroutine of a connection does

vars == <<counter, job, alone, dialed, backlog, loop, name, eaten, handler>>

Session == 1..MaxSessions
Kind == {"video", "audio", "control"}
Order == <<"video", "audio", "control">>
Conn == Session \X Kind
NoConn == <<0, "video">>
Nothing == [conn |-> NoConn, naming |-> FALSE]

(* startReceiver: Counter is 0, the loop runs.                             *)
Init ==
  /\ counter = 0
  /\ job = [s \in Session |-> "none"]
  /\ alone = [s \in Session |-> FALSE]
  /\ dialed = [s \in Session |-> 0]
  /\ backlog = <<>> /\ loop = Nothing
  /\ name = [s \in Session |-> "none"] /\ eaten = {}
  /\ handler = [c \in Conn |-> "none"]

-----------------------------------------------------------------------------
(* The connections of s have been accepted, or will not be opened.         *)
Settled(s) ==
  /\ job[s] = "running" => dialed[s] = 3
  /\ loop.conn[1] # s
  /\ \A i \in 1..Len(backlog) : backlog[i][1] # s

counterKept == counter                                        \* mutant
counterReset == 0

(* adbConnectOk resets Counter and starts scrcpy.                          *)
SessionStarts(s) ==
  /\ job[s] = "none" /\ \A t \in 1..(s - 1) : job[t] # "none"
  /\ counter' = counterReset
  /\ job' = [job EXCEPT ![s] = "running"]
  /\ alone' = [t \in Session |->
       IF t = s THEN \A u \in Session \ {s} : Settled(u) ELSE alone[t] /\ Settled(t)]
  /\ UNCHANGED <<dialed, backlog, loop, name, eaten, handler>>

(* scrcpy ends; connections nobody has accepted yet stay in the backlog.   *)
SessionEnds(s) ==
  /\ job[s] = "running"
  /\ job' = [job EXCEPT ![s] = "ended"]
  /\ UNCHANGED <<counter, alone, dialed, backlog, loop, name, eaten, handler>>

Dial(s) ==
  /\ job[s] = "running" /\ dialed[s] < 3
  /\ dialed' = [dialed EXCEPT ![s] = @ + 1]
  /\ backlog' = Append(backlog, <<s, Order[dialed[s] + 1]>>)
  /\ name' = IF dialed[s] = 2 THEN [name EXCEPT ![s] = "there"] ELSE name
  /\ UNCHANGED <<counter, job, alone, loop, eaten, handler>>

-----------------------------------------------------------------------------
(* The accept loop.                                                        *)

Accept ==
  /\ loop = Nothing /\ backlog # <<>>
  /\ loop' = [conn |-> Head(backlog), naming |-> counter = 0]
  /\ backlog' = Tail(backlog)
  /\ UNCHANGED <<counter, job, alone, dialed, name, eaten, handler>>

(* ReadFull of 64 bytes: the name, the beginning of an audio stream, or    *)
(* the end of a connection whose session is over.                          *)
ReadName ==
  LET c == loop.conn IN
  /\ loop.naming
  /\ \/ job[c[1]] = "ended" /\ UNCHANGED <<name, eaten>>
     \/ /\ c[2] = "video" /\ name[c[1]] = "there"
        /\ name' = [name EXCEPT ![c[1]] = "read"]
        /\ UNCHANGED eaten
     \/ /\ c[2] = "audio" /\ dialed[c[1]] = 3
        /\ eaten' = eaten \cup {c}
        /\ UNCHANGED name
  /\ loop' = [loop EXCEPT !.naming = FALSE]
  /\ UNCHANGED <<counter, job, alone, dialed, backlog, handler>>

(* The handler is started, and Counter incremented.                        *)
Spawn ==
  /\ loop # Nothing /\ ~loop.naming
  /\ handler' = [handler EXCEPT ![loop.conn] = "reading"]
  /\ counter' = counter + 1
  /\ loop' = Nothing
  /\ UNCHANGED <<job, alone, dialed, backlog, name, eaten>>

-----------------------------------------------------------------------------
(* handleConnection with readHeader.                                       *)

Readable(c) == job[c[1]] = "running" /\ dialed[c[1]] = 3 /\ c \notin eaten

HandlesVideo(c) ==
  /\ handler[c] = "reading" /\ c[2] = "video"
  /\ Readable(c) /\ name[c[1]] = "read"
  /\ handler' = [handler EXCEPT ![c] = "video"]
  /\ UNCHANGED <<counter, job, alone, dialed, backlog, loop, name, eaten>>

HandlesAudio(c) ==
  /\ handler[c] = "reading" /\ c[2] = "audio" /\ Readable(c)
  /\ handler' = [handler EXCEPT ![c] = "audio"]
  /\ UNCHANGED <<counter, job, alone, dialed, backlog, loop, name, eaten>>

(* What readHeader takes for control: bytes that are no codec, nothing for *)
(* 3 s, or the end of the connection, whose error it does not look at.     *)
(* "late" marks the last two, and an audio connection without a stream,    *)
(* which sends zeros.                                                      *)
HandlesControl(c) ==
  /\ handler[c] = "reading"
  /\ handler' = [handler EXCEPT ![c] =
       IF \/ c[2] = "control"
          \/ job[c[1]] = "running" /\ c[2] = "video" /\ name[c[1]] = "there"
          \/ job[c[1]] = "running" /\ c \in eaten
       THEN "control" ELSE "late"]
  /\ UNCHANGED <<counter, job, alone, dialed, backlog, loop, name, eaten>>

Handle(c) == HandlesVideo(c) \/ HandlesAudio(c) \/ HandlesControl(c)

Next ==
  \/ \E s \in Session : SessionStarts(s) \/ SessionEnds(s) \/ Dial(s)
  \/ Accept \/ ReadName \/ Spawn
  \/ \E c \in Conn : Handle(c)

Spec == Init /\ [][Next]_vars

-----------------------------------------------------------------------------
TypeOK ==
  /\ counter \in 0..(3 * MaxSessions)
  /\ job \in [Session -> {"none", "running", "ended"}]
  /\ alone \in [Session -> BOOLEAN]
  /\ dialed \in [Session -> 0..3]
  /\ backlog \in Seq(Conn)
  /\ loop \in [conn : Conn \cup {NoConn}, naming : BOOLEAN]
  /\ name \in [Session -> {"none", "there", "read"}]
  /\ eaten \subseteq Conn
  /\ handler \in [Conn -> {"none", "reading", "video", "audio", "control", "late"}]

(* While a session connects alone, with no connection of another one       *)
(* opened, waiting or in the hands of the accept loop, the loop reads a    *)
(* name from its first connection only, and each connection is handled as  *)
(* what it is unless its header is late.  The reset of Counter is "very    *)
(* important" (adb.go) for this, and is enough.                            *)
AloneIsSorted ==
  \A c \in Conn : alone[c[1]] =>
    /\ loop.conn = c /\ loop.naming => c[2] = "video"
    /\ handler[c] \in {"none", "reading", "late", c[2]}
=============================================================================
