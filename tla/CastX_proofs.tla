---------------------------- MODULE CastX_proofs ----------------------------
(***************************************************************************)
(* Proofs about the parts of castX and go-scrcpy that MCCastX checks side  *)
(* by side, each for every value of its constants:                         *)
(*   Sorting        AloneIsSorted of ScrcpyReceiver;                       *)
(*   PiecesAreSent  NalsAreExact of MemoryWriter;                          *)
(*   UnitsArrive    CompleteUnitsAreExact of H264Depacketizer;             *)
(*   SizesAreRead   SizeIsRead of H264Sps;                                 *)
(*   SignalsArrive  SignalsFit of GoScrcpy;                                *)
(*   Lifted         AllLifted of GoScrcpy and of CastXControl.             *)
(***************************************************************************)
EXTENDS MCCastX, SequenceTheorems, FiniteSetTheorems, WellFoundedInduction, TLAPS

-----------------------------------------------------------------------------
(* ScrcpyReceiver.                                                         *)

Types ==
  /\ counter \in Nat
  /\ job \in [Session -> {"none", "running", "ended"}]
  /\ alone \in [Session -> BOOLEAN]
  /\ dialed \in [Session -> 0..3]
  /\ backlog \in Seq(Conn)
  /\ loop \in [conn : Conn \cup {NoConn}, naming : BOOLEAN]
  /\ loop.conn = NoConn => ~loop.naming
  /\ name \in [Session -> {"none", "there", "read"}]
  /\ eaten \subseteq Conn
  /\ handler \in [Conn -> {"none", "reading", "video", "audio", "control", "late"}]

(* Nothing of a session exists before it starts, and they start in order.  *)
Unstarted ==
  /\ \A s \in Session : job[s] = "none" =>
       /\ dialed[s] = 0 /\ name[s] = "none" /\ ~alone[s] /\ Settled(s)
       /\ \A kd \in Kind : handler[<<s, kd>>] = "none" /\ <<s, kd>> \notin eaten
  /\ \A s, t \in Session : t < s /\ job[s] # "none" => job[t] # "none"
  /\ \A s \in Session : name[s] # "none" => dialed[s] = 3

Current(s) == \A t \in Session : t > s => job[t] = "none"

(* Its name was read from the connection of the video, or is not needed. *)
NameDone(s) == name[s] = "read" \/ job[s] = "ended"

(* What the loop and the backlog hold of session s when k of its           *)
(* connections have been accepted.                                         *)
Accepted(s, k) ==
  /\ k \in 0..dialed[s] /\ Len(backlog) = dialed[s] - k
  /\ \A i \in 1..Len(backlog) : backlog[i] = <<s, Order[k + i]>>
  /\ \/ loop = Nothing /\ counter = k
     \/ /\ k > 0 /\ loop.conn = <<s, Order[k]>> /\ counter = k - 1
        /\ loop.naming => k = 1
        /\ k = 1 /\ ~loop.naming => NameDone(s)

(* The last session that started, if alone, has loop and backlog for       *)
(* itself; an earlier one needs them no more.                              *)
OneAtATime ==
  \A s \in Session : alone[s] =>
    IF Current(s)
    THEN /\ \E k \in 0..3 : Accepted(s, k)
         /\ \A u \in Session \ {s} : Settled(u)
    ELSE Settled(s)

(* No connection of a session that was alone is taken for another kind.    *)
Sorted ==
  \A s \in Session : alone[s] =>
    /\ \A kd \in Kind : /\ <<s, kd>> \notin eaten
                        /\ handler[<<s, kd>>] \in {"none", "reading", "late", kd}
    /\ handler[<<s, "video">>] # "none" => NameDone(s)

Inv == Types /\ Unstarted /\ OneAtATime /\ Sorted

-----------------------------------------------------------------------------

(* The kinds of the connections. *)
LEMMA Orders ==
  /\ Order[1] = "video" /\ Order[2] = "audio" /\ Order[3] = "control"
  /\ \A k \in 1..3 : Order[k] \in Kind /\ (Order[k] = "video" => k = 1)
BY DEF Order, Kind

(* The initial states. *)
LEMMA InitInv == Init => Inv
BY DEF Init, Inv, Types, Unstarted, OneAtATime, Sorted, Settled, Nothing, NoConn, Session, Conn

(* The invariant gives the property. *)
LEMMA InvSorted == Inv => AloneIsSorted
<1> SUFFICES ASSUME Inv, NEW s \in Session, NEW kd \in Kind, alone[s]
             PROVE  /\ loop.conn = <<s, kd>> /\ loop.naming => kd = "video"
                    /\ handler[<<s, kd>>] \in {"none", "reading", "late", kd}
  BY DEF AloneIsSorted, Conn
<1>1. ASSUME loop.conn = <<s, kd>>, loop.naming PROVE kd = "video"
  <2>1. ~Settled(s) /\ loop # Nothing
    BY <1>1 DEF Settled, Nothing
  <2>2. PICK k \in 0..3 : Accepted(s, k)
    BY <2>1 DEF Inv, OneAtATime
  <2>3. k = 1 /\ loop.conn = <<s, Order[k]>>
    BY <1>1, <2>1, <2>2 DEF Accepted
  <2> QED BY <1>1, <2>3, Orders
<1> QED BY <1>1 DEF Inv, Sorted

-----------------------------------------------------------------------------

(* A session starts: whoever was alone needs loop and backlog no more, and *)
(* it is alone only if that is true of all.                                *)
LEMMA StartsInv ==
  ASSUME Inv, NEW n \in Session, SessionStarts(n)
  PROVE  Inv'
<1>0. /\ job[n] = "none" /\ dialed[n] = 0 /\ name[n] = "none" /\ Settled(n)
      /\ \A kd \in Kind : handler[<<n, kd>>] = "none" /\ <<n, kd>> \notin eaten
      /\ \A t \in Session : t > n => job[t] = "none"
      /\ \A t \in Session \ {n} : job'[t] = job[t]
      /\ job'[n] = "running" /\ counter' = 0
      /\ \A t \in Session \ {n} : alone'[t] = (alone[t] /\ Settled(t))
      /\ alone'[n] = \A u \in Session \ {n} : Settled(u)
      /\ UNCHANGED <<dialed, backlog, loop, name, eaten, handler>>
  BY DEF SessionStarts, Inv, Types, Unstarted, counterReset
<1>1. Types'
  BY DEF SessionStarts, Inv, Types, counterReset
<1>2. \A t \in Session \ {n} : Settled(t) => Settled(t)'
  BY <1>0 DEF Settled
<1>3. Unstarted'
  <2>1. \A s, t \in Session : t < s /\ job'[s] # "none" => job'[t] # "none"
    BY <1>0 DEF SessionStarts, Inv, Types, Unstarted, Session
  <2>2. \A s \in Session : job'[s] = "none" => s # n /\ job[s] = "none" /\ ~alone'[s]
    BY <1>0 DEF Inv, Unstarted
  <2> QED BY <1>0, <1>2, <2>1, <2>2 DEF Inv, Unstarted
<1>4. \A t \in Session \ {n} : alone'[t] => ~Current(t)'
  <2> SUFFICES ASSUME NEW t \in Session \ {n}, alone'[t] PROVE n > t
    BY <1>0 DEF Current
  <2>1. job[t] # "none"
    BY <1>0 DEF Inv, Unstarted
  <2> QED BY <1>0, <2>1 DEF Session
<1>5. Current(n)'
  BY <1>0 DEF Current, Session
<1>6. ASSUME alone'[n]
      PROVE  Accepted(n, 0)' /\ \A u \in Session \ {n} : Settled(u)'
  <2>1. \A u \in Session : Settled(u)
    BY <1>0, <1>6
  <2>2. Len(backlog) = 0 /\ loop.conn = NoConn
    BY <2>1 DEF Settled, Inv, Types, Conn
  <2>3. loop = Nothing
    BY <2>2 DEF Nothing, Inv, Types
  <2> QED BY <1>0, <1>2, <2>1, <2>2, <2>3 DEF Accepted
<1>7. OneAtATime'
  <2> SUFFICES ASSUME NEW s \in Session, alone'[s]
               PROVE  IF Current(s)'
                      THEN /\ \E k \in 0..3 : Accepted(s, k)'
                           /\ \A u \in Session \ {s} : Settled(u)'
                      ELSE Settled(s)'
    BY DEF OneAtATime
  <2>1. CASE s = n
    BY <1>5, <1>6, <2>1
  <2>2. CASE s # n
    BY <1>0, <1>2, <1>4, <2>2
  <2> QED BY <2>1, <2>2
<1>8. Sorted'
  <2> SUFFICES ASSUME NEW s \in Session, alone'[s]
               PROVE  /\ \A kd \in Kind : /\ <<s, kd>> \notin eaten
                                          /\ handler[<<s, kd>>] \in {"none", "reading", "late", kd}
                      /\ handler[<<s, "video">>] # "none" => NameDone(s)'
    BY <1>0 DEF Sorted
  <2>1. CASE s = n
    BY <1>0, <2>1 DEF Kind
  <2>2. CASE s # n
    BY <1>0, <2>2 DEF Inv, Sorted, NameDone
  <2> QED BY <2>1, <2>2
<1> QED BY <1>1, <1>3, <1>7, <1>8 DEF Inv

(* It ends. *)
LEMMA EndsInv ==
  ASSUME Inv, NEW n \in Session, SessionEnds(n)
  PROVE  Inv'
<1>0. /\ job[n] = "running" /\ job'[n] = "ended"
      /\ \A t \in Session \ {n} : job'[t] = job[t]
      /\ \A t \in Session : job'[t] = "none" <=> job[t] = "none"
      /\ UNCHANGED <<counter, alone, dialed, backlog, loop, name, eaten, handler>>
  BY DEF SessionEnds, Inv, Types
<1>1. Types'
  BY DEF SessionEnds, Inv, Types
<1>2. \A t \in Session : /\ Settled(t) => Settled(t)'
                         /\ NameDone(t) => NameDone(t)'
                         /\ Current(t)' <=> Current(t)
  BY <1>0 DEF Settled, NameDone, Current
<1>3. Unstarted'
  BY <1>0, <1>2 DEF Inv, Unstarted
<1>4. \A t \in Session, k \in 0..3 : Accepted(t, k) => Accepted(t, k)'
  BY <1>0, <1>2 DEF Accepted
<1>5. OneAtATime'
  BY <1>0, <1>2, <1>4 DEF Inv, OneAtATime
<1>6. Sorted'
  BY <1>0, <1>2 DEF Inv, Sorted
<1> QED BY <1>1, <1>3, <1>5, <1>6 DEF Inv

(* It opens its next connection, which waits behind those it has. *)
LEMMA DialInv ==
  ASSUME Inv, NEW n \in Session, Dial(n)
  PROVE  Inv'
<1> DEFINE c == <<n, Order[dialed[n] + 1]>>
<1>0. /\ job[n] = "running" /\ dialed[n] \in 0..2 /\ dialed'[n] = dialed[n] + 1
      /\ \A t \in Session \ {n} : dialed'[t] = dialed[t] /\ name'[t] = name[t]
      /\ name'[n] = IF dialed[n] = 2 THEN "there" ELSE name[n]
      /\ UNCHANGED <<counter, job, alone, loop, eaten, handler>>
      /\ backlog \in Seq(Conn) /\ backlog' = Append(backlog, c) /\ name[n] = "none"
  BY DEF Dial, Inv, Types, Unstarted
<1>1. PICK kd \in Kind : c = <<n, kd>> /\ kd = Order[dialed[n] + 1]
  BY <1>0, Orders
<1>2. /\ backlog' \in Seq(Conn) /\ Len(backlog') = Len(backlog) + 1
      /\ \A i \in 1..Len(backlog) : backlog'[i] = backlog[i]
      /\ backlog'[Len(backlog) + 1] = <<n, kd>>
  BY <1>0, <1>1, AppendProperties DEF Conn
<1>3. Types'
  <2>1. dialed' \in [Session -> 0..3]
    BY <1>0 DEF Dial, Inv, Types
  <2>2. name' \in [Session -> {"none", "there", "read"}]
    BY DEF Dial, Inv, Types
  <2> QED BY <1>0, <1>2, <2>1, <2>2 DEF Inv, Types
<1>4. \A t \in Session \ {n} : Settled(t) => Settled(t)'
  BY <1>0, <1>2 DEF Settled
<1>5. ~Settled(n)
  BY <1>0 DEF Settled
<1>6. Unstarted'
  <2>1. \A s \in Session : job[s] = "none" => s # n /\ dialed'[s] = dialed[s] /\ name'[s] = name[s]
    BY <1>0
  <2>2. \A s \in Session : name'[s] # "none" => dialed'[s] = 3
    <3> TAKE s \in Session
    <3>1. CASE s = n
      BY <1>0, <3>1
    <3>2. CASE s # n
      BY <1>0, <3>2 DEF Inv, Unstarted
    <3> QED BY <3>1, <3>2
  <2>3. \A s \in Session : job[s] = "none" => Settled(s)'
    BY <1>4, <2>1 DEF Inv, Unstarted
  <2> QED BY <1>0, <2>1, <2>2, <2>3 DEF Inv, Unstarted
<1>7. \A t \in Session : NameDone(t) => NameDone(t)'
  BY <1>0 DEF NameDone
<1>8. ASSUME alone[n]
      PROVE  /\ Current(n) /\ \A u \in Session \ {n} : Settled(u)'
             /\ \E k \in 0..3 : Accepted(n, k)'
  <2>1. Current(n) /\ \A u \in Session \ {n} : Settled(u)
    BY <1>5, <1>8 DEF Inv, OneAtATime
  <2>2. PICK k \in 0..3 : Accepted(n, k)
    BY <1>5, <1>8 DEF Inv, OneAtATime
  <2>3. k \in 0..dialed'[n] /\ Len(backlog') = dialed'[n] - k
    BY <1>0, <1>2, <2>2 DEF Accepted
  <2>4. \A i \in 1..Len(backlog') : backlog'[i] = <<n, Order[k + i]>>
    <3> SUFFICES ASSUME NEW i \in 1..Len(backlog') PROVE backlog'[i] = <<n, Order[k + i]>>
      OBVIOUS
    <3>1. CASE i = Len(backlog) + 1
      <4>1. k + i = dialed[n] + 1
        <5>1. Len(backlog) = dialed[n] - k
          BY <2>2 DEF Accepted
        <5>2. dialed[n] \in Int /\ k \in Int
          BY <1>0
        <5> QED BY <3>1, <5>1, <5>2
      <4> QED BY <1>1, <1>2, <3>1, <4>1
    <3>2. CASE i # Len(backlog) + 1
      <4>1. i \in 1..Len(backlog)
        BY <1>0, <1>2, <3>2
      <4> QED BY <1>2, <2>2, <4>1 DEF Accepted
    <3> QED BY <3>1, <3>2
  <2>5. Accepted(n, k)'
    BY <1>0, <1>7, <2>2, <2>3, <2>4 DEF Accepted
  <2> QED BY <1>4, <2>1, <2>5
<1>9. OneAtATime'
  <2> SUFFICES ASSUME NEW s \in Session, alone[s]
               PROVE  IF Current(s)
                      THEN /\ \E k \in 0..3 : Accepted(s, k)'
                           /\ \A u \in Session \ {s} : Settled(u)'
                      ELSE Settled(s)'
    BY <1>0 DEF OneAtATime, Current
  <2>1. CASE s = n
    BY <1>8, <2>1
  <2>2. CASE s # n
    BY <1>4, <1>5, <2>2 DEF Inv, OneAtATime
  <2> QED BY <2>1, <2>2
<1>10. Sorted'
  BY <1>0, <1>7 DEF Inv, Sorted
<1> QED BY <1>3, <1>6, <1>9, <1>10 DEF Inv

(* The loop takes the first connection of the backlog in hand. *)
LEMMA AcceptInv ==
  ASSUME Inv, Accept
  PROVE  Inv'
<1>0. /\ loop = Nothing /\ backlog \in Seq(Conn) /\ backlog # <<>>
      /\ loop' = [conn |-> Head(backlog), naming |-> counter = 0] /\ backlog' = Tail(backlog)
      /\ UNCHANGED <<counter, job, alone, dialed, name, eaten, handler>>
  BY DEF Accept, Inv, Types
<1>1. /\ Head(backlog) \in Conn /\ Head(backlog) = backlog[1] /\ backlog' \in Seq(Conn)
      /\ Len(backlog') = Len(backlog) - 1 /\ Len(backlog) > 0 /\ Len(backlog) \in Nat
      /\ \A i \in 1..Len(backlog') : backlog'[i] = backlog[i + 1]
      /\ Len(backlog') \in Nat
  BY <1>0, HeadTailProperties
<1>2. loop' \in [conn : Conn, naming : BOOLEAN] /\ loop'.conn = backlog[1]
      /\ loop'.naming = (counter = 0) /\ loop'.conn # NoConn
  BY <1>0, <1>1 DEF NoConn, Conn, Session
<1>3. Types'
  BY <1>0, <1>1, <1>2 DEF Inv, Types
<1>4. \A t \in Session : Settled(t) => Settled(t)'
  <2> TAKE t \in Session
  <2> HAVE Settled(t)
  <2>1. loop'.conn[1] # t
    BY <1>1, <1>2 DEF Settled
  <2>2. \A i \in 1..Len(backlog') : backlog'[i][1] # t
    BY <1>1 DEF Settled
  <2> QED BY <1>0, <2>1, <2>2 DEF Settled
<1>5. Unstarted'
  BY <1>0, <1>4 DEF Inv, Unstarted
<1>6. ASSUME NEW s \in Session, NEW k \in 0..3, Accepted(s, k)
      PROVE  k + 1 \in 0..3 /\ Accepted(s, k + 1)'
  <2>0. dialed[s] \in 0..3 /\ counter \in Nat
    BY DEF Inv, Types
  <2>1. /\ counter = k /\ Len(backlog) = dialed[s] - k
        /\ \A i \in 1..Len(backlog) : backlog[i] = <<s, Order[k + i]>>
    BY <1>0, <1>6, <2>0 DEF Accepted, Nothing, NoConn, Session
  <2>2. k + 1 \in 0..dialed[s] /\ Len(backlog') = dialed[s] - (k + 1)
    BY <1>1, <2>0, <2>1
  <2>3. \A i \in 1..Len(backlog') : backlog'[i] = <<s, Order[(k + 1) + i]>>
    <3> TAKE i \in 1..Len(backlog')
    <3>1. i + 1 \in 1..Len(backlog) /\ k + (i + 1) = (k + 1) + i
      BY <1>1
    <3> QED BY <1>1, <2>1, <3>1
  <2>4. loop'.conn = <<s, Order[k + 1]>> /\ counter = (k + 1) - 1
    BY <1>1, <1>2, <2>1
  <2>5. (loop'.naming <=> k + 1 = 1) /\ k + 1 > 0 /\ k + 1 \in 0..3
    BY <1>2, <2>0, <2>1, <2>2
  <2>6. dialed' = dialed /\ counter' = counter
    BY <1>0
  <2> HIDE DEF Accepted
  <2> QED BY <2>2, <2>3, <2>4, <2>5, <2>6 DEF Accepted
<1>7. OneAtATime'
  BY <1>0, <1>4, <1>6 DEF Inv, OneAtATime, Current
<1>8. Sorted'
  BY <1>0 DEF Inv, Sorted, NameDone
<1> QED BY <1>3, <1>5, <1>7, <1>8 DEF Inv

(* The loop reads a name. *)
LEMMA ReadNameInv ==
  ASSUME Inv, ReadName
  PROVE  Inv'
<1> DEFINE c == loop.conn
<1>0. /\ loop.naming /\ loop' = [loop EXCEPT !.naming = FALSE]
      /\ UNCHANGED <<counter, job, alone, dialed, backlog, handler>>
      /\ loop'.conn = loop.conn /\ ~loop'.naming /\ loop.conn \in Conn
  BY DEF ReadName, Inv, Types
<1>1. PICK s \in Session, kd \in Kind : loop.conn = <<s, kd>>
  BY <1>0 DEF Conn
<1>2. ~Settled(s) /\ job[s] # "none" /\ loop # Nothing
  BY <1>0, <1>1 DEF Settled, Inv, Unstarted, Nothing
<1>3. \/ job[s] = "ended" /\ UNCHANGED <<name, eaten>>
      \/ /\ kd = "video" /\ name[s] = "there"
         /\ name' = [name EXCEPT ![s] = "read"] /\ UNCHANGED eaten
      \/ kd = "audio" /\ eaten' = eaten \cup {<<s, kd>>} /\ UNCHANGED name
  BY <1>1 DEF ReadName
<1>4. Types'
  BY <1>0, <1>1, <1>3, ZenonT(30) DEF ReadName, Inv, Types
<1>5. \A t \in Session : /\ Settled(t) <=> Settled(t)'
                         /\ NameDone(t) => NameDone(t)'
  BY <1>0, <1>3 DEF Settled, NameDone, Inv, Types
<1>6. Unstarted'
  BY <1>0, <1>2, <1>3, <1>5 DEF Inv, Unstarted, Types
<1>7. ASSUME alone[s]
      PROVE  /\ kd = "video" /\ NameDone(s)' /\ UNCHANGED eaten
             /\ \E k \in 0..3 : Accepted(s, k)'
  <2>1. PICK k \in 0..3 : Accepted(s, k)
    BY <1>2, <1>7 DEF Inv, OneAtATime
  <2>2. k = 1 /\ kd = "video"
    BY <1>0, <1>1, <1>2, <2>1, Orders DEF Accepted
  <2>3. NameDone(s)' /\ UNCHANGED eaten
    BY <1>0, <1>3, <2>2 DEF NameDone, Inv, Types
  <2>4. Accepted(s, k)'
    BY <1>0, <1>2, <2>1, <2>2, <2>3 DEF Accepted
  <2> QED BY <2>2, <2>3, <2>4
<1>8. OneAtATime'
  <2> SUFFICES ASSUME NEW t \in Session, alone[t]
               PROVE  IF Current(t)
                      THEN /\ \E k \in 0..3 : Accepted(t, k)'
                           /\ \A u \in Session \ {t} : Settled(u)'
                      ELSE Settled(t)'
    BY <1>0 DEF OneAtATime, Current
  <2>1. CASE t = s
    BY <1>2, <1>5, <1>7, <2>1 DEF Inv, OneAtATime
  <2>2. CASE t # s
    BY <1>2, <1>5, <2>2 DEF Inv, OneAtATime
  <2> QED BY <2>1, <2>2
<1>9. Sorted'
  <2> SUFFICES ASSUME NEW t \in Session, alone[t], NEW k2 \in Kind
               PROVE  /\ <<t, k2>> \notin eaten'
                      /\ handler[<<t, k2>>] \in {"none", "reading", "late", k2}
                      /\ handler[<<t, "video">>] # "none" => NameDone(t)'
    BY <1>0 DEF Sorted, Kind
  <2>1. CASE t = s
    BY <1>5, <1>7, <2>1 DEF Inv, Sorted
  <2>2. CASE t # s
    BY <1>3, <1>5, <2>2 DEF Inv, Sorted
  <2> QED BY <2>1, <2>2
<1> QED BY <1>4, <1>6, <1>8, <1>9 DEF Inv

(* It hands the connection to a goroutine. *)
LEMMA SpawnInv ==
  ASSUME Inv, Spawn
  PROVE  Inv'
<1>0. /\ loop # Nothing /\ ~loop.naming /\ loop' = Nothing /\ counter' = counter + 1
      /\ handler' = [handler EXCEPT ![loop.conn] = "reading"]
      /\ UNCHANGED <<job, alone, dialed, backlog, name, eaten>>
      /\ loop.conn \in Conn /\ counter \in Nat
  BY DEF Spawn, Inv, Types, Nothing
<1>1. PICK s \in Session, kd \in Kind : loop.conn = <<s, kd>>
  BY <1>0 DEF Conn
<1>2. ~Settled(s) /\ job[s] # "none"
  BY <1>0, <1>1 DEF Settled, Inv, Unstarted
<1>3. /\ handler'[<<s, kd>>] = "reading"
      /\ \A d \in Conn : d # <<s, kd>> => handler'[d] = handler[d]
  BY <1>0, <1>1 DEF Inv, Types
<1>4. Types'
  BY <1>0 DEF Inv, Types, Nothing
<1>5. \A t \in Session : /\ Settled(t) => Settled(t)'
                         /\ NameDone(t) <=> NameDone(t)'
  BY <1>0 DEF Settled, NameDone, Nothing, NoConn, Session
<1>6. Unstarted'
  <2>1. \A t \in Session, k2 \in Kind : job[t] = "none" => handler'[<<t, k2>>] = handler[<<t, k2>>]
    BY <1>2, <1>3 DEF Conn
  <2> QED BY <1>0, <1>5, <2>1 DEF Inv, Unstarted
<1>7. ASSUME alone[s]
      PROVE  /\ kd = "video" => NameDone(s)
             /\ \E k \in 0..3 : Accepted(s, k)'
  <2>1. PICK k \in 0..3 : Accepted(s, k)
    BY <1>2, <1>7 DEF Inv, OneAtATime
  <2>2. k > 0 /\ kd = Order[k] /\ counter = k - 1 /\ (k = 1 => NameDone(s))
    BY <1>0, <1>1, <2>1 DEF Accepted
  <2>3. kd = "video" => NameDone(s)
    <3>1. k \in 1..3
      BY <2>2
    <3>2. Order[k] = "video" => k = 1
      BY <3>1, Orders
    <3> QED BY <2>2, <3>2
  <2>4. Accepted(s, k)'
    <3>1. loop' = Nothing /\ counter' = k /\ UNCHANGED <<dialed, backlog>>
      BY <1>0, <2>2
    <3>2. /\ k \in 0..dialed[s] /\ Len(backlog) = dialed[s] - k
          /\ \A i \in 1..Len(backlog) : backlog[i] = <<s, Order[k + i]>>
      BY <2>1 DEF Accepted
    <3>3. loop' = Nothing'
      BY <3>1 DEF Nothing, NoConn
    <3> QED BY <3>1, <3>2, <3>3 DEF Accepted
  <2> QED BY <2>3, <2>4
<1>8. OneAtATime'
  <2> SUFFICES ASSUME NEW t \in Session, alone[t]
               PROVE  IF Current(t)
                      THEN /\ \E k \in 0..3 : Accepted(t, k)'
                           /\ \A u \in Session \ {t} : Settled(u)'
                      ELSE Settled(t)'
    BY <1>0 DEF OneAtATime, Current
  <2>1. CASE t = s
    BY <1>2, <1>5, <1>7, <2>1 DEF Inv, OneAtATime
  <2>2. CASE t # s
    BY <1>2, <1>5, <2>2 DEF Inv, OneAtATime
  <2> QED BY <2>1, <2>2
<1>9. Sorted'
  <2> SUFFICES ASSUME NEW t \in Session, alone[t], NEW k2 \in Kind
               PROVE  /\ <<t, k2>> \notin eaten
                      /\ handler'[<<t, k2>>] \in {"none", "reading", "late", k2}
                      /\ handler'[<<t, "video">>] # "none" => NameDone(t)
    BY <1>0, <1>5 DEF Sorted, Kind
  <2>1. <<t, k2>> \in Conn /\ <<t, "video">> \in Conn
    BY DEF Conn, Kind
  <2>2. CASE t = s
    BY <1>3, <1>7, <2>1, <2>2 DEF Inv, Sorted
  <2>3. CASE t # s
    BY <1>3, <2>1, <2>3 DEF Inv, Sorted
  <2> QED BY <2>2, <2>3
<1> QED BY <1>4, <1>6, <1>8, <1>9 DEF Inv

(* A goroutine finds out what its connection is. *)
LEMMA HandleInv ==
  ASSUME Inv, NEW c \in Conn, Handle(c)
  PROVE  Inv'
<1>1. PICK s \in Session, kd \in Kind : c = <<s, kd>>
  BY DEF Conn
<1>0. /\ handler[<<s, kd>>] = "reading"
      /\ UNCHANGED <<counter, job, alone, dialed, backlog, loop, name, eaten>>
      /\ \A d \in Conn : d # <<s, kd>> => handler'[d] = handler[d]
      /\ handler'[<<s, kd>>] \in {"video", "audio", "control", "late"}
      /\ handler'[<<s, kd>>] = "video" => kd = "video"
      /\ handler'[<<s, kd>>] = "audio" => kd = "audio"
      /\ handler'[<<s, kd>>] = "control" =>
           \/ kd = "control"
           \/ job[s] = "running" /\ kd = "video" /\ name[s] = "there"
           \/ <<s, kd>> \in eaten
  BY <1>1 DEF Handle, HandlesVideo, HandlesAudio, HandlesControl, Inv, Types
<1>2. Types'
  <2>1. handler' \in [Conn -> {"none", "reading", "video", "audio", "control", "late"}]
    BY DEF Handle, HandlesVideo, HandlesAudio, HandlesControl, Inv, Types
  <2> QED BY <1>0, <2>1 DEF Inv, Types
<1>3. \A t \in Session : (Settled(t) <=> Settled(t)') /\ (NameDone(t) <=> NameDone(t)')
  BY <1>0 DEF Settled, NameDone
<1>4. Unstarted'
  <2>1. job[s] # "none"
    BY <1>0 DEF Inv, Unstarted
  <2>2. \A t \in Session, k2 \in Kind : job[t] = "none" => handler'[<<t, k2>>] = handler[<<t, k2>>]
    BY <1>0, <2>1 DEF Conn
  <2> QED BY <1>0, <1>3, <2>2 DEF Inv, Unstarted
<1>5. \A t \in Session, k \in 0..3 : Accepted(t, k) => Accepted(t, k)'
  BY <1>0, <1>3 DEF Accepted
<1>6. OneAtATime'
  BY <1>0, <1>3, <1>5 DEF Inv, OneAtATime, Current
<1>7. Sorted'
  <2> SUFFICES ASSUME NEW t \in Session, alone[t], NEW k2 \in Kind
               PROVE  /\ <<t, k2>> \notin eaten
                      /\ handler'[<<t, k2>>] \in {"none", "reading", "late", k2}
                      /\ handler'[<<t, "video">>] # "none" => NameDone(t)
    BY <1>0, <1>3 DEF Sorted, Kind
  <2>0. <<t, k2>> \in Conn /\ <<t, "video">> \in Conn
    BY DEF Conn, Kind
  <2>1. handler'[<<t, "video">>] # "none" => NameDone(t)
    BY <1>0, <2>0 DEF Inv, Sorted
  <2>2. CASE <<t, k2>> = <<s, kd>>
    <3>1. t = s /\ k2 = kd /\ <<s, kd>> \notin eaten
      BY <2>2 DEF Inv, Sorted
    <3>2. kd = "video" => NameDone(s)
      BY <1>0, <3>1 DEF Inv, Sorted
    <3>3. handler'[<<s, kd>>] = "control" => kd = "control"
      BY <1>0, <3>1, <3>2 DEF NameDone
    <3> QED BY <1>0, <2>1, <3>1, <3>3
  <2>3. CASE <<t, k2>> # <<s, kd>>
    BY <1>0, <2>0, <2>1, <2>3 DEF Inv, Sorted
  <2> QED BY <2>2, <2>3
<1> QED BY <1>2, <1>4, <1>6, <1>7 DEF Inv

(* Every step keeps the invariant. *)
LEMMA NextInv == Inv /\ [Next]_vars => Inv'
<1> SUFFICES ASSUME Inv, [Next]_vars PROVE Inv'
  OBVIOUS
<1>1. CASE \E s \in Session : SessionStarts(s) \/ SessionEnds(s) \/ Dial(s)
  BY <1>1, StartsInv, EndsInv, DialInv
<1>2. CASE Accept \/ ReadName \/ Spawn
  BY <1>2, AcceptInv, ReadNameInv, SpawnInv
<1>3. CASE \E c \in Conn : Handle(c)
  BY <1>3, HandleInv
<1>4. CASE UNCHANGED vars
  <2>1. \A t \in Session : (Settled(t) <=> Settled(t)') /\ (NameDone(t) <=> NameDone(t)')
    BY <1>4 DEF vars, Settled, NameDone
  <2>2. \A t \in Session, k \in 0..3 : Accepted(t, k) => Accepted(t, k)'
    BY <1>4, <2>1 DEF vars, Accepted
  <2>3. Types' /\ Unstarted'
    BY <1>4, <2>1 DEF vars, Inv, Types, Unstarted
  <2>4. OneAtATime' /\ Sorted'
    BY <1>4, <2>1, <2>2 DEF vars, Inv, OneAtATime, Sorted, Current
  <2> QED BY <2>3, <2>4 DEF Inv
<1> QED BY <1>1, <1>2, <1>3, <1>4 DEF Next

-----------------------------------------------------------------------------

(* AloneIsSorted, for every number of sessions: the connections of a       *)
(* session that connects alone are handled as what they are, or are late.  *)
THEOREM Sorting == Spec => []AloneIsSorted
<1> QED BY InitInv, NextInv, InvSorted, PTL DEF Spec

-----------------------------------------------------------------------------
(* Sequences and numbers.                                                  *)

(* Two sequences, one behind the other. *)
Joined(a, b, c) ==
  /\ Len(a) \in Nat /\ DOMAIN a = 1..Len(a)
  /\ Len(b) \in Nat /\ DOMAIN b = 1..Len(b)
  /\ \A i \in 1..Len(a) : i \in DOMAIN c /\ c[i] = a[i]
  /\ \A i \in 1..Len(b) : Len(a) + i \in DOMAIN c /\ c[Len(a) + i] = b[i]
  /\ \A i \in DOMAIN c : i \in 1..Len(a) \/ \E j \in 1..Len(b) : i = Len(a) + j
  /\ Range(c) = Range(a) \cup Range(b)

LEMMA Joins ==
  ASSUME NEW S, NEW a \in Seq(S), NEW b \in Seq(S)
  PROVE  Joined(a, b, a \o b)
<1> DEFINE c == a \o b
<1>1. /\ Len(a) \in Nat /\ DOMAIN a = 1..Len(a)
      /\ Len(b) \in Nat /\ DOMAIN b = 1..Len(b)
      /\ DOMAIN c = 1..(Len(a) + Len(b))
  OBVIOUS
<1>2. \A i \in 1..Len(a) : i \in DOMAIN c /\ c[i] = a[i]
  BY <1>1
<1>3. \A i \in 1..Len(b) : Len(a) + i \in DOMAIN c /\ c[Len(a) + i] = b[i]
  BY <1>1
<1>4. ASSUME NEW i \in DOMAIN c PROVE i \in 1..Len(a) \/ \E j \in 1..Len(b) : i = Len(a) + j
  <2>1. CASE i > Len(a)
    <3>1. i - Len(a) \in 1..Len(b) /\ i = Len(a) + (i - Len(a))
      BY <1>1, <2>1
    <3> QED BY <3>1
  <2>2. CASE ~(i > Len(a))
    BY <1>1, <2>2
  <2> QED BY <2>1, <2>2
<1> HIDE DEF c
<1>5. Range(c) = Range(a) \cup Range(b)
  <2>1. \A i \in 1..Len(a) : a[i] \in Range(c)
    BY <1>2 DEF Range
  <2>2. \A i \in 1..Len(b) : b[i] \in Range(c)
    BY <1>3 DEF Range
  <2>3. ASSUME NEW i \in DOMAIN c PROVE c[i] \in Range(a) \cup Range(b)
    <3>1. CASE i \in 1..Len(a)
      BY <1>1, <1>2, <3>1 DEF Range
    <3>2. ASSUME NEW j \in 1..Len(b), i = Len(a) + j PROVE c[i] \in Range(b)
      BY <1>1, <1>3, <3>2 DEF Range
    <3> QED BY <1>4, <3>1, <3>2
  <2> QED BY <1>1, <2>1, <2>2, <2>3 DEF Range
<1> QED BY <1>1, <1>2, <1>3, <1>4, <1>5 DEF Joined, c

(* The least of a set of numbers. *)
LEMMA Least ==
  ASSUME NEW T \in SUBSET Nat, T # {}
  PROVE  \E x \in T : \A y \in T : x <= y
<1> DEFINE R == {ss \in Nat \X Nat : ss[1] < ss[2]}
<1>1. IsWellFoundedOn(R, Nat)
  BY NatLessThanWellFounded DEF OpToRel
<1>2. \E x \in T : \A y \in T : ~(<<y, x>> \in R)
  <2> HIDE DEF R
  <2> QED BY <1>1, WFMin
<1>3. \A x, y \in Nat : <<y, x>> \notin R => x <= y
  OBVIOUS
<1> QED BY <1>2, <1>3

(* The greatest of a set of numbers with a bound. *)
LEMMA Greatest ==
  ASSUME NEW T \in SUBSET Nat, NEW b \in Nat, \A t \in T : t <= b, T # {}
  PROVE  \E x \in T : \A y \in T : y <= x
<1> DEFINE U == {n \in Nat : b - n \in T}
<1>1. U \in SUBSET Nat /\ U # {}
  <2>1. PICK t \in T : t \in Nat /\ t <= b
    OBVIOUS
  <2>2. b - t \in Nat /\ b - (b - t) = t
    BY <2>1
  <2> QED BY <2>1, <2>2
<1>2. PICK n \in U : \A m \in U : n <= m
  <2> HIDE DEF U
  <2> QED BY <1>1, Least
<1>3. b - n \in T /\ n \in Nat
  BY <1>2
<1>4. ASSUME NEW y \in T PROVE y <= b - n
  <2>1. y \in Nat /\ y <= b /\ b - y \in Nat /\ b - (b - y) = y
    OBVIOUS
  <2>2. b - y \in U
    BY <2>1
  <2>3. n <= b - y
    BY <1>2, <2>2
  <2> QED BY <1>3, <2>1, <2>3
<1> QED BY <1>3, <1>4

-----------------------------------------------------------------------------
(* MemoryWriter.                                                           *)

(* The start codes, byte by byte. *)
CodeAt(s, i) ==
  /\ i \in Int /\ 1 <= i /\ i <= Len(s) - 3
  /\ s[i] = 0 /\ s[i + 1] = 0 /\ s[i + 2] = 0 /\ s[i + 3] = 1

(* The pieces of s, the codes that end one, their numbers, and those of    *)
(* them in the first c bytes or behind these.                              *)
Starts(s, e) == {1} \cup {i + 4 : i \in {j \in Nal!Codes(s) : j < e}}
PieceOf(s, e) == SubSeq(s, CHOOSE m \in Starts(s, e) : \A t \in Starts(s, e) : t <= m, e - 1)
EndsOf(s) == {e \in Nal!Codes(s) : PieceOf(s, e) # <<>>}
UpTo(s, e) == {d \in EndsOf(s) : d <= e}
SentIs(q, s, c) ==
  /\ Len(q) = Cardinality(UpTo(s, c + 1))
  /\ \A e \in UpTo(s, c + 1) : q[Cardinality(UpTo(s, e))] = PieceOf(s, e)

(* The number of bytes of the stream that are no longer in the buffer. *)
Cut == Len(written) - Len(buffer)

NalTypes ==
  /\ buffer \in Seq(Nal!Byte) /\ written \in Seq(Nal!Byte) /\ sent \in Seq(Seq(Nal!Byte))
  /\ found \in Int

(* The buffer is the end of the stream; it begins with a code, or behind   *)
(* one, or with the stream.                                                *)
Buffered ==
  /\ Cut >= 0 /\ \A i \in 1..Len(buffer) : buffer[i] = written[Cut + i]
  /\ Cut = 0 \/ Cut - 3 \in Nal!Codes(written) \/ Cut + 1 \in Nal!Codes(written)

(* What was found is still the first code, whatever is written meanwhile.  *)
FoundIs ==
  found >= 0 => /\ found + 1 \in Nal!Codes(buffer)
                /\ \A j \in Nal!Codes(buffer) : found + 1 <= j

NalInv == NalTypes /\ Buffered /\ FoundIs /\ SentIs(sent, written, Cut)

LEMMA CodesAre ==
  ASSUME NEW s \in Seq(Nal!Byte), NEW i
  PROVE  i \in Nal!Codes(s) <=> CodeAt(s, i)
<1>1. Len(s) \in Nat /\ 1..(Len(s) - 3) = {j \in Int : 1 <= j /\ j <= Len(s) - 3}
  OBVIOUS
<1>2. ASSUME i \in 1..(Len(s) - 3)
      PROVE  SubSeq(s, i, i + 3) = <<0, 0, 0, 1>>
               <=> s[i] = 0 /\ s[i + 1] = 0 /\ s[i + 2] = 0 /\ s[i + 3] = 1
  <2> DEFINE q == SubSeq(s, i, i + 3)
  <2>1. q \in Seq(Nal!Byte) /\ Len(q) = 4
    BY <1>1, <1>2, SubSeqProperties
  <2>2. q[1] = s[i] /\ q[2] = s[i + 1] /\ q[3] = s[i + 2] /\ q[4] = s[i + 3]
    BY <1>1, <1>2
  <2> HIDE DEF q
  <2>3. q = <<0, 0, 0, 1>> <=> q[1] = 0 /\ q[2] = 0 /\ q[3] = 0 /\ q[4] = 1
    BY <2>1
  <2> QED BY <2>2, <2>3 DEF q
<1> QED BY <1>1, <1>2 DEF Nal!Codes, Nal!StartCode, CodeAt

(* Start codes do not overlap. *)
LEMMA CodesApart ==
  ASSUME NEW s \in Seq(Nal!Byte), NEW i \in Nal!Codes(s), NEW j \in Nal!Codes(s), i < j
  PROVE  i + 4 <= j
<1>1. CodeAt(s, i) /\ CodeAt(s, j)
  BY CodesAre
<1>2. i \in Int /\ j \in Int /\ s[i + 3] = 1 /\ s[j] = 0 /\ s[j + 1] = 0 /\ s[j + 2] = 0
  BY <1>1 DEF CodeAt
<1>3. i + 3 # j /\ i + 3 # j + 1 /\ i + 3 # j + 2
  BY <1>2
<1> QED BY <1>2, <1>3

LEMMA CodesIn ==
  ASSUME NEW s \in Seq(Nal!Byte)
  PROVE  /\ Nal!Codes(s) \subseteq 1..Len(s) /\ Nal!Codes(s) \subseteq Nat \ {0}
         /\ \A i \in Nal!Codes(s) : i + 3 <= Len(s)
BY CodesAre DEF CodeAt

(* What is written later changes no code. *)
LEMMA CodesStay ==
  ASSUME NEW s \in Seq(Nal!Byte), NEW p \in Seq(Nal!Byte)
  PROVE  /\ s \o p \in Seq(Nal!Byte)
         /\ \A i : i \in Nal!Codes(s) => i \in Nal!Codes(s \o p)
         /\ \A i : i \in Nal!Codes(s \o p) /\ i + 3 <= Len(s) => i \in Nal!Codes(s)
<1> DEFINE w == s \o p
<1>1. w \in Seq(Nal!Byte) /\ Len(s) \in Nat /\ Len(p) \in Nat
  BY ConcatProperties
<1>2. Len(w) = Len(s) + Len(p) /\ \A i \in 1..Len(s) : w[i] = s[i]
  BY <1>1
<1> HIDE DEF w
<1>3. ASSUME NEW i \in Int, 1 <= i, i + 3 <= Len(s)
      PROVE  /\ w[i] = s[i] /\ w[i + 1] = s[i + 1] /\ w[i + 2] = s[i + 2] /\ w[i + 3] = s[i + 3]
             /\ i <= Len(w) - 3 /\ i <= Len(s) - 3
  <2>1. {i, i + 1, i + 2, i + 3} \subseteq 1..Len(s)
    BY <1>1, <1>3
  <2> QED BY <1>1, <1>2, <1>3, <2>1
<1>4. \A i : i \in Nal!Codes(s) => i \in Nal!Codes(w)
  <2> SUFFICES ASSUME NEW i, CodeAt(s, i) PROVE CodeAt(w, i)
    BY <1>1, CodesAre
  <2>1. i + 3 <= Len(s)
    BY <1>1 DEF CodeAt
  <2> QED BY <1>3, <2>1 DEF CodeAt
<1>5. \A i : i \in Nal!Codes(w) /\ i + 3 <= Len(s) => i \in Nal!Codes(s)
  <2> SUFFICES ASSUME NEW i, CodeAt(w, i), i + 3 <= Len(s) PROVE CodeAt(s, i)
    BY <1>1, CodesAre
  <2> QED BY <1>3 DEF CodeAt
<1> QED BY <1>1, <1>4, <1>5 DEF w

LEMMA StartsIn ==
  ASSUME NEW s \in Seq(Nal!Byte), NEW e \in Nat
  PROVE  /\ Starts(s, e) \in SUBSET (Nat \ {0}) /\ 1 \in Starts(s, e)
         /\ \A t \in Starts(s, e) : t <= e + 3 \/ t = 1
         /\ \A j \in Nal!Codes(s) : j < e => j + 4 \in Starts(s, e)
         /\ \A t \in Starts(s, e) : t = 1 \/ \E j \in Nal!Codes(s) : j < e /\ t = j + 4
<1>1. Nal!Codes(s) \subseteq Nat \ {0}
  BY CodesIn
<1> QED BY <1>1 DEF Starts

(* Where a piece begins. *)
LEMMA PieceAt ==
  ASSUME NEW s \in Seq(Nal!Byte), NEW e \in Nat,
         NEW m \in Starts(s, e), \A t \in Starts(s, e) : t <= m
  PROVE  PieceOf(s, e) = SubSeq(s, m, e - 1)
<1>1. Starts(s, e) \in SUBSET (Nat \ {0})
  BY StartsIn
<1>2. \A x \in Starts(s, e) : (\A t \in Starts(s, e) : t <= x) => x = m
  BY <1>1
<1>3. (CHOOSE x \in Starts(s, e) : \A t \in Starts(s, e) : t <= x) = m
  BY <1>2
<1> QED BY <1>3 DEF PieceOf

(* Behind the c-th byte, where the stream or a piece begins. *)
LEMMA FirstPiece ==
  ASSUME NEW s \in Seq(Nal!Byte), NEW c \in Nat, c = 0 \/ c - 3 \in Nal!Codes(s),
         NEW e \in Nal!Codes(s), c < e, \A j \in Nal!Codes(s) : j < e => j <= c
  PROVE  PieceOf(s, e) = SubSeq(s, c + 1, e - 1)
<1>1. e \in Nat /\ Nal!Codes(s) \subseteq Nat \ {0}
  BY CodesIn
<1>2. c + 1 \in Starts(s, e)
  <2>1. CASE c = 0
    BY <1>1, <2>1, StartsIn
  <2>2. CASE c - 3 \in Nal!Codes(s)
    <3>1. c - 3 < e /\ (c - 3) + 4 = c + 1
      BY <1>1
    <3> QED BY <1>1, <2>2, <3>1, StartsIn
  <2> QED BY <2>1, <2>2
<1>3. ASSUME NEW t \in Starts(s, e) PROVE t <= c + 1
  <2>1. CASE t = 1
    BY <2>1
  <2>2. ASSUME NEW j \in Nal!Codes(s), j < e, t = j + 4 PROVE t <= c + 1
    <3>1. j <= c /\ j \in Nat \ {0}
      BY <1>1, <2>2
    <3>2. c - 3 \in Nal!Codes(s) /\ c # 0
      BY <3>1
    <3>3. CASE j <= c - 3
      BY <1>1, <2>2, <3>1, <3>3
    <3>4. CASE c - 3 < j
      <4>1. (c - 3) + 4 <= j
        BY <2>2, <3>2, <3>4, CodesApart
      <4> QED BY <3>1, <4>1
    <3> QED BY <3>1, <3>3, <3>4
  <2> QED BY <1>1, <2>1, <2>2, StartsIn
<1> QED BY <1>1, <1>2, <1>3, PieceAt

(* What is written later changes no piece that a code has ended. *)
LEMMA PieceStays ==
  ASSUME NEW s \in Seq(Nal!Byte), NEW p \in Seq(Nal!Byte), NEW e \in Nal!Codes(s)
  PROVE  PieceOf(s \o p, e) = PieceOf(s, e)
<1> DEFINE w == s \o p
<1>1. w \in Seq(Nal!Byte) /\ e \in Nal!Codes(w) /\ e \in Nat \ {0} /\ e + 3 <= Len(s)
  BY CodesStay, CodesIn
<1>2. {j \in Nal!Codes(w) : j < e} = {j \in Nal!Codes(s) : j < e}
  <2>1. ASSUME NEW j \in Nal!Codes(w), j < e PROVE j \in Nal!Codes(s)
    <3>1. j \in Nat \ {0}
      BY <1>1, CodesIn
    <3>2. j + 3 <= Len(s)
      BY <1>1, <2>1, <3>1
    <3> QED BY <3>2, CodesStay
  <2> QED BY <2>1, CodesStay
<1>3. Starts(w, e) = Starts(s, e)
  BY <1>2 DEF Starts
<1>4. PICK m \in Starts(s, e) : \A t \in Starts(s, e) : t <= m
  <2>1. e \in Nat /\ e + 4 \in Nat
    BY <1>1
  <2>2. Starts(s, e) \in SUBSET Nat /\ Starts(s, e) # {}
    BY <2>1, StartsIn
  <2>3. \A t \in Starts(s, e) : t <= e + 3 \/ t = 1
    BY <2>1, StartsIn
  <2>4. \A t \in Starts(s, e) : t <= e + 4
    BY <2>1, <2>2, <2>3
  <2> QED BY <2>1, <2>2, <2>4, Greatest
<1>5. SubSeq(w, m, e - 1) = SubSeq(s, m, e - 1)
  <2>1. m \in Nat \ {0} /\ e - 1 \in Nat /\ e - 1 <= Len(s) /\ Len(s) \in Nat
    BY <1>1, StartsIn
  <2>2. Len(w) = Len(s) + Len(p) /\ \A i \in 1..Len(s) : w[i] = s[i]
    OBVIOUS
  <2> HIDE DEF w
  <2>3. \A i \in 1..(e - 1 - m + 1) : m + i - 1 \in 1..Len(s)
    BY <2>1
  <2>4. SubSeq(w, m, e - 1) = [i \in 1..(e - 1 - m + 1) |-> w[m + i - 1]]
    BY <1>1, <2>1
  <2>5. SubSeq(s, m, e - 1) = [i \in 1..(e - 1 - m + 1) |-> s[m + i - 1]]
    BY <1>1, <2>1
  <2> QED BY <2>2, <2>3, <2>4, <2>5
<1>6. PieceOf(s, e) = SubSeq(s, m, e - 1)
  BY <1>1, <1>4, PieceAt
<1>7. PieceOf(w, e) = SubSeq(w, m, e - 1)
  <2> HIDE DEF w
  <2> QED BY <1>1, <1>3, <1>4, PieceAt
<1> QED BY <1>5, <1>6, <1>7

(* The ends of pieces are finitely many. *)
LEMMA EndsFinite ==
  ASSUME NEW s \in Seq(Nal!Byte), NEW e
  PROVE  /\ IsFiniteSet(EndsOf(s)) /\ IsFiniteSet(UpTo(s, e))
         /\ UpTo(s, e) \subseteq EndsOf(s) /\ EndsOf(s) \subseteq Nat \ {0}
         /\ Cardinality(EndsOf(s)) \in Nat /\ Cardinality(UpTo(s, e)) \in Nat
<1>1. EndsOf(s) \subseteq 1..Len(s) /\ EndsOf(s) \subseteq Nat \ {0}
  BY CodesIn DEF EndsOf
<1>2. IsFiniteSet(1..Len(s))
  <2>1. 1 \in Int /\ Len(s) \in Int
    OBVIOUS
  <2> QED BY <2>1, FS_Interval
<1>3. IsFiniteSet(EndsOf(s))
  BY <1>1, <1>2, FS_Subset
<1>4. UpTo(s, e) \subseteq EndsOf(s)
  BY DEF UpTo
<1>5. IsFiniteSet(UpTo(s, e))
  BY <1>3, <1>4, FS_Subset
<1> QED BY <1>1, <1>3, <1>4, <1>5, FS_CardinalityType

(* The same pieces up to here. *)
LEMMA SameSent ==
  ASSUME NEW s, NEW w, NEW q, NEW c \in Nat, NEW d \in Nat, SentIs(q, s, c),
         UpTo(w, d + 1) = UpTo(s, c + 1), EndsOf(s) \subseteq Nat, EndsOf(w) \subseteq Nat,
         \A e \in UpTo(s, c + 1) : PieceOf(w, e) = PieceOf(s, e)
  PROVE  SentIs(q, w, d)
<1>1. ASSUME NEW e \in UpTo(s, c + 1)
      PROVE  UpTo(w, e) = UpTo(s, e)
  <2>1. e \in Nat /\ e <= c + 1 /\ e <= d + 1
    BY DEF UpTo
  <2>2. UpTo(s, e) = {x \in UpTo(s, c + 1) : x <= e}
    BY <2>1 DEF UpTo
  <2>3. UpTo(w, e) = {x \in UpTo(w, d + 1) : x <= e}
    BY <2>1 DEF UpTo
  <2> QED BY <2>2, <2>3
<1> QED BY <1>1 DEF SentIs

(* One piece more. *)
LEMMA MoreSent ==
  ASSUME NEW s \in Seq(Nal!Byte), NEW S, NEW q \in Seq(S), NEW c \in Nat, SentIs(q, s, c),
         NEW k \in EndsOf(s), c + 1 < k, UpTo(s, k) = UpTo(s, c + 1) \cup {k},
         NEW x \in S, x = PieceOf(s, k)
  PROVE  SentIs(Append(q, x), s, k - 1)
<1> DEFINE r == Append(q, x)  D == UpTo(s, c + 1)
<1>1. k \in Nat \ {0} /\ k - 1 \in Nat /\ k - 1 + 1 = k
  BY EndsFinite
<1>2. IsFiniteSet(D) /\ Cardinality(D) \in Nat /\ Len(q) = Cardinality(D) /\ k \notin D
  <2>1. k \notin D
    BY <1>1 DEF UpTo
  <2>2. Len(q) = Cardinality(D)
    BY DEF SentIs
  <2> QED BY <2>1, <2>2, EndsFinite
<1>3. Cardinality(UpTo(s, k)) = Cardinality(D) + 1
  <2> HIDE DEF D
  <2> QED BY <1>2, FS_AddElement DEF D
<1>4. Len(r) = Len(q) + 1 /\ r[Len(q) + 1] = x /\ \A i \in 1..Len(q) : r[i] = q[i]
  OBVIOUS
<1>5. ASSUME NEW e \in D
      PROVE  r[Cardinality(UpTo(s, e))] = PieceOf(s, e)
  <2>1. UpTo(s, e) \subseteq D /\ e \in UpTo(s, e)
    <3>1. e \in Nat /\ e <= c + 1
      BY EndsFinite DEF UpTo
    <3>2. EndsOf(s) \subseteq Nat
      BY EndsFinite
    <3> QED BY <3>1, <3>2 DEF UpTo
  <2>2. Cardinality(UpTo(s, e)) \in Nat /\ Cardinality(UpTo(s, e)) # 0
    BY <2>1, EndsFinite, FS_EmptySet
  <2>3. Cardinality(UpTo(s, e)) <= Cardinality(D)
    BY <1>2, <2>1, FS_Subset
  <2>4. Cardinality(UpTo(s, e)) \in 1..Len(q)
    BY <1>2, <2>2, <2>3
  <2>5. q[Cardinality(UpTo(s, e))] = PieceOf(s, e)
    BY DEF SentIs
  <2> QED BY <1>4, <2>4, <2>5
<1> HIDE DEF r
<1>6. Len(r) = Cardinality(UpTo(s, k))
  BY <1>2, <1>3, <1>4
<1>7. r[Cardinality(UpTo(s, k))] = PieceOf(s, k)
  BY <1>2, <1>3, <1>4
<1>8. \A e \in UpTo(s, k) : r[Cardinality(UpTo(s, e))] = PieceOf(s, e)
  BY <1>5, <1>7
<1>9. SentIs(r, s, k - 1)
  BY <1>1, <1>6, <1>8 DEF SentIs
<1> QED BY <1>9 DEF r

(* The codes of the buffer are those of the stream behind the cut. *)
LEMMA BufferedCodes ==
  ASSUME NalTypes, Buffered
  PROVE  /\ Cut \in Nat /\ Len(buffer) \in Nat /\ Len(written) = Cut + Len(buffer)
         /\ \A i \in Nal!Codes(buffer) : i \in Nat \ {0} /\ Cut + i \in Nal!Codes(written)
         /\ \A j \in Nal!Codes(written) : Cut < j => j - Cut \in Nal!Codes(buffer)
<1>1. /\ buffer \in Seq(Nal!Byte) /\ written \in Seq(Nal!Byte)
      /\ Len(buffer) \in Nat /\ Len(written) \in Nat
      /\ Cut \in Nat /\ Len(written) = Cut + Len(buffer)
  BY DEF NalTypes, Buffered, Cut
<1>2. \A i \in 1..Len(buffer) : buffer[i] = written[Cut + i]
  BY DEF Buffered
<1>3. ASSUME NEW i \in Int, 1 <= i, i <= Len(buffer) - 3
      PROVE  /\ buffer[i] = written[Cut + i] /\ buffer[i + 1] = written[Cut + i + 1]
             /\ buffer[i + 2] = written[Cut + i + 2] /\ buffer[i + 3] = written[Cut + i + 3]
  <2>1. {i, i + 1, i + 2, i + 3} \subseteq 1..Len(buffer)
    BY <1>1, <1>3
  <2>2. Cut + (i + 1) = Cut + i + 1 /\ Cut + (i + 2) = Cut + i + 2 /\ Cut + (i + 3) = Cut + i + 3
    BY <1>1
  <2> QED BY <1>2, <2>1, <2>2
<1>4. ASSUME NEW i \in Nal!Codes(buffer)
      PROVE  i \in Nat \ {0} /\ Cut + i \in Nal!Codes(written)
  <2>1. CodeAt(buffer, i)
    BY <1>1, CodesAre
  <2>2. CodeAt(written, Cut + i)
    BY <1>1, <1>3, <2>1 DEF CodeAt
  <2>3. Cut + i \in Nal!Codes(written)
    BY <1>1, <2>2, CodesAre
  <2>4. i \in Nat \ {0}
    BY <2>1 DEF CodeAt
  <2> QED BY <2>3, <2>4
<1>5. ASSUME NEW j \in Nal!Codes(written), Cut < j
      PROVE  j - Cut \in Nal!Codes(buffer)
  <2>1. CodeAt(written, j)
    BY <1>1, CodesAre
  <2>2. PICK i \in Int : i = j - Cut /\ 1 <= i /\ i <= Len(buffer) - 3 /\ j = Cut + i
    BY <1>1, <1>5, <2>1 DEF CodeAt
  <2>3. CodeAt(buffer, i)
    BY <1>3, <2>1, <2>2 DEF CodeAt
  <2> QED BY <1>1, <2>2, <2>3, CodesAre
<1> QED BY <1>1, <1>4, <1>5

(* No code lies across the end of another, or of nothing. *)
LEMMA CleanCut ==
  ASSUME NEW s \in Seq(Nal!Byte), NEW c \in Nat, c = 0 \/ c - 3 \in Nal!Codes(s),
         NEW j \in Nal!Codes(s), j <= c
  PROVE  j <= c - 3
<1>1. j \in Nat \ {0}
  BY CodesIn
<1>2. CASE c - 3 \in Nal!Codes(s) /\ c - 3 < j
  <2>1. (c - 3) + 4 <= j
    BY <1>2, CodesApart
  <2> QED BY <1>1, <2>1
<1> QED BY <1>1, <1>2

(* A code right behind another, or at the beginning, ends no piece. *)
LEMMA NothingAtCut ==
  ASSUME NEW s \in Seq(Nal!Byte), NEW c \in Nat, c = 0 \/ c - 3 \in Nal!Codes(s)
  PROVE  c + 1 \notin EndsOf(s)
<1> SUFFICES ASSUME c + 1 \in Nal!Codes(s) PROVE PieceOf(s, c + 1) = <<>>
  BY DEF EndsOf
<1>1. PICK e \in Nal!Codes(s) : e = c + 1
  OBVIOUS
<1>2. PieceOf(s, e) = SubSeq(s, c + 1, e - 1)
  <2>1. c < e /\ \A j \in Nal!Codes(s) : j < e => j <= c
    BY <1>1, CodesIn
  <2> QED BY <2>1, FirstPiece
<1>3. SubSeq(s, c + 1, e - 1) = <<>>
  BY <1>1
<1> QED BY <1>1, <1>2, <1>3

LEMMA NalInit == Nal!Init => NalInv
<1> SUFFICES ASSUME Nal!Init PROVE NalInv
  OBVIOUS
<1>1. buffer = <<>> /\ written = <<>> /\ sent = <<>> /\ found = -2
  BY DEF Nal!Init
<1>2. NalTypes
  BY <1>1 DEF NalTypes
<1>3. Cut = 0 /\ Buffered /\ FoundIs
  BY <1>1 DEF Cut, Buffered, FoundIs
<1>4. EndsOf(written) = {}
  <2>1. Len(written) = 0
    BY <1>1
  <2>2. Nal!Codes(written) = {}
    <3>1. Nal!Codes(written) \subseteq 1..Len(written)
      BY <1>2, CodesIn DEF NalTypes
    <3> QED BY <2>1, <3>1
  <2> QED BY <2>2 DEF EndsOf
<1>5. SentIs(sent, written, Cut)
  <2>1. UpTo(written, Cut + 1) = {}
    BY <1>4 DEF UpTo
  <2>2. Cardinality(UpTo(written, Cut + 1)) = 0
    BY <2>1, FS_EmptySet
  <2> QED BY <1>1, <2>1, <2>2 DEF SentIs
<1> QED BY <1>2, <1>3, <1>5 DEF NalInv

LEMMA StreamFits ==
  ASSUME NalInv, NEW p \in Nal!Chunk, Nal!Write(p) PROVE NalInv'
<1>1. p \in Seq(Nal!Byte)
  <2>1. PICK n \in 1..MaxChunk : p \in [1..n -> Nal!Byte]
    BY DEF Nal!Chunk
  <2>2. n \in Nat
    BY BoundsAssumption
  <2> QED BY <2>1, <2>2
<1>2. /\ buffer' = buffer \o p /\ written' = written \o p /\ UNCHANGED <<found, sent>>
      /\ NalTypes /\ Buffered
  BY DEF Nal!Write, NalInv
<1>3. /\ buffer \in Seq(Nal!Byte) /\ written \in Seq(Nal!Byte)
      /\ Len(buffer) \in Nat /\ Cut \in Nat /\ Len(written) = Cut + Len(buffer)
      /\ Len(p) \in Nat
  BY <1>1, <1>2, BufferedCodes DEF NalTypes
<1>4. NalTypes'
  BY <1>1, <1>2, <1>3, CodesStay DEF NalTypes
<1>5. Cut' = Cut
  <2>1. Len(buffer') = Len(buffer) + Len(p) /\ Len(written') = Len(written) + Len(p)
    BY <1>1, <1>2, <1>3, ConcatProperties
  <2> QED BY <1>3, <2>1 DEF Cut
<1>6. Buffered'
  <2>1. Joined(buffer, p, buffer') /\ Joined(written, p, written')
    BY <1>1, <1>2, <1>3, Joins
  <2>2. Len(buffer') = Len(buffer) + Len(p)
    BY <1>1, <1>2, <1>3
  <2>3. ASSUME NEW i \in 1..Len(buffer') PROVE buffer'[i] = written'[Cut + i]
    <3>1. CASE i \in 1..Len(buffer)
      <4>1. Cut + i \in 1..Len(written)
        BY <1>3, <3>1
      <4> QED BY <1>2, <2>1, <3>1, <4>1 DEF Joined, Buffered
    <3>2. CASE i \notin 1..Len(buffer)
      <4>1. PICK j \in 1..Len(p) : i = Len(buffer) + j /\ Cut + i = Len(written) + j
        <5>1. i - Len(buffer) \in 1..Len(p) /\ i = Len(buffer) + (i - Len(buffer))
          BY <1>3, <2>2, <3>2
        <5>2. Cut + i = Len(written) + (i - Len(buffer))
          BY <1>3
        <5> QED BY <5>1, <5>2
      <4> QED BY <2>1, <4>1 DEF Joined
    <3> QED BY <3>1, <3>2
  <2>4. \A i \in Nal!Codes(written) : i \in Nal!Codes(written')
    BY <1>1, <1>2, <1>3, CodesStay
  <2> QED BY <1>2, <1>3, <1>5, <2>3, <2>4 DEF Buffered
<1>7. FoundIs'
  <2> SUFFICES ASSUME found >= 0
               PROVE  /\ found + 1 \in Nal!Codes(buffer')
                      /\ \A j \in Nal!Codes(buffer') : found + 1 <= j
    BY <1>2 DEF FoundIs
  <2>1. found \in Int /\ found + 1 \in Nal!Codes(buffer) /\ \A j \in Nal!Codes(buffer) : found + 1 <= j
    BY <1>2 DEF NalInv, NalTypes, FoundIs
  <2>2. found + 1 \in Nal!Codes(buffer') /\ found + 1 + 3 <= Len(buffer)
    BY <1>1, <1>2, <1>3, <2>1, CodesStay, CodesIn
  <2>3. ASSUME NEW j \in Nal!Codes(buffer') PROVE found + 1 <= j
    <3>1. j \in Nat
      BY <1>4, CodesIn DEF NalTypes
    <3>2. CASE j + 3 <= Len(buffer)
      BY <1>1, <1>2, <1>3, <2>1, <3>2, CodesStay
    <3>3. CASE ~(j + 3 <= Len(buffer))
      BY <1>3, <2>1, <2>2, <3>1, <3>3
    <3> QED BY <3>2, <3>3
  <2> QED BY <2>2, <2>3
<1>8. SentIs(sent', written', Cut')
  <2>1. \A e \in Nal!Codes(written) : PieceOf(written', e) = PieceOf(written, e)
    BY <1>1, <1>2, <1>3, PieceStays
  <2>2. ASSUME NEW e \in UpTo(written', Cut + 1) PROVE e \in UpTo(written, Cut + 1)
    <3>1. e \in Nal!Codes(written') /\ PieceOf(written', e) # <<>> /\ e <= Cut + 1 /\ e \in Nat
      BY <1>4, CodesIn DEF UpTo, EndsOf, NalTypes
    <3>2. CASE Cut + 1 \in Nal!Codes(written)
      <4>1. Cut + 1 + 3 <= Len(written)
        BY <1>3, <3>2, CodesIn
      <4>2. e + 3 <= Len(written)
        BY <1>3, <3>1, <4>1
      <4> QED BY <1>1, <1>2, <1>3, <2>1, <3>1, <4>2, CodesStay DEF UpTo, EndsOf
    <3>3. CASE Cut = 0 \/ Cut - 3 \in Nal!Codes(written)
      <4>1. Cut = 0 \/ Cut - 3 \in Nal!Codes(written')
        BY <1>1, <1>2, <1>3, <3>3, CodesStay
      <4>2. e # Cut + 1
        BY <1>3, <1>4, <4>1, NothingAtCut DEF UpTo, NalTypes
      <4>3. e <= Cut - 3
        <5>1. e <= Cut /\ written' \in Seq(Nal!Byte)
          BY <1>3, <1>4, <3>1, <4>2 DEF NalTypes
        <5> QED BY <1>3, <3>1, <4>1, <5>1, CleanCut
      <4>4. e + 3 <= Len(written)
        BY <1>3, <3>1, <4>3
      <4> QED BY <1>1, <1>2, <1>3, <2>1, <3>1, <4>4, CodesStay DEF UpTo, EndsOf
    <3> QED BY <1>2, <3>2, <3>3 DEF Buffered
  <2>3. UpTo(written', Cut + 1) = UpTo(written, Cut + 1)
    <3>1. \A e \in EndsOf(written) : e \in EndsOf(written')
      BY <1>1, <1>2, <1>3, <2>1, CodesStay DEF EndsOf
    <3> QED BY <2>2, <3>1 DEF UpTo
  <2>4. EndsOf(written) \subseteq Nat /\ EndsOf(written') \subseteq Nat
    BY <1>3, <1>4, EndsFinite DEF NalTypes
  <2>5. \A e \in UpTo(written, Cut + 1) : PieceOf(written', e) = PieceOf(written, e)
    BY <2>1 DEF UpTo, EndsOf
  <2>6. SentIs(sent, written, Cut)
    BY DEF NalInv
  <2> QED BY <1>2, <1>3, <1>5, <2>3, <2>4, <2>5, <2>6, SameSent
<1> QED BY <1>4, <1>6, <1>7, <1>8 DEF NalInv

LEMMA FindFits == NalInv /\ Nal!FindStartCode => NalInv'
<1> SUFFICES ASSUME NalInv, Nal!FindStartCode PROVE NalInv'
  OBVIOUS
<1>1. PICK i \in Nal!Codes(buffer) \cup {0} :
        (\A j \in Nal!Codes(buffer) : i # 0 /\ i <= j) /\ found' = i - 1
  BY DEF Nal!FindStartCode
<1>2. UNCHANGED <<buffer, sent, written>>
  BY DEF Nal!FindStartCode
<1>3. i \in Nat
  BY <1>1, CodesIn DEF NalInv, NalTypes
<1>4. NalTypes'
  BY <1>1, <1>2, <1>3 DEF NalInv, NalTypes
<1>5. FoundIs'
  <2> SUFFICES ASSUME i - 1 >= 0
               PROVE  /\ i - 1 + 1 \in Nal!Codes(buffer)
                      /\ \A j \in Nal!Codes(buffer) : i - 1 + 1 <= j
    BY <1>1, <1>2 DEF FoundIs
  <2>1. i - 1 + 1 = i /\ i # 0
    BY <1>3
  <2> QED BY <1>1, <2>1
<1>6. Cut' = Cut
  BY <1>2 DEF Cut
<1>7. Buffered' /\ SentIs(sent', written', Cut')
  BY <1>2, <1>6 DEF NalInv, Buffered
<1> QED BY <1>4, <1>5, <1>7 DEF NalInv

(* n bytes leave the buffer. *)
LEMMA UpdataFacts ==
  ASSUME NalTypes, Buffered, NEW n \in Nat, n <= Len(buffer),
         buffer' = Nal!updata(n), UNCHANGED written
  PROVE  /\ buffer' \in Seq(Nal!Byte) /\ Cut' = Cut + n
         /\ \A i \in 1..Len(buffer') : buffer'[i] = written'[Cut' + i]
<1>1. /\ buffer \in Seq(Nal!Byte) /\ Len(buffer) \in Nat /\ Cut \in Nat
      /\ Len(written) = Cut + Len(buffer)
  BY BufferedCodes DEF NalTypes
<1>2. /\ buffer' \in Seq(Nal!Byte) /\ Len(buffer') = Len(buffer) - n
      /\ \A i \in 1..(Len(buffer) - n) : buffer'[i] = buffer[n + i] /\ n + i \in 1..Len(buffer)
  <2>1. buffer' = SubSeq(buffer, n + 1, Len(buffer))
    BY DEF Nal!updata
  <2>2. buffer' \in Seq(Nal!Byte) /\ Len(buffer') = Len(buffer) - n
    BY <1>1, <2>1
  <2>3. ASSUME NEW i \in 1..(Len(buffer) - n)
        PROVE  buffer'[i] = buffer[n + i] /\ n + i \in 1..Len(buffer)
    <3>1. n + i \in 1..Len(buffer) /\ n + 1 + i - 1 = n + i
      BY <1>1
    <3>2. i \in 1..(Len(buffer) - (n + 1) + 1)
      BY <1>1
    <3>3. buffer' = [j \in 1..(Len(buffer) - (n + 1) + 1) |-> buffer[n + 1 + j - 1]]
      BY <1>1, <2>1
    <3> QED BY <3>1, <3>2, <3>3
  <2> QED BY <2>2, <2>3
<1>3. Cut' = Cut + n
  BY <1>1, <1>2 DEF Cut
<1>4. ASSUME NEW i \in 1..Len(buffer') PROVE buffer'[i] = written'[Cut' + i]
  <2>1. buffer'[i] = buffer[n + i] /\ n + i \in 1..Len(buffer)
    BY <1>2
  <2>2. buffer[n + i] = written[Cut + (n + i)]
    BY <2>1 DEF Buffered
  <2>3. Cut + (n + i) = Cut' + i
    BY <1>1, <1>3
  <2> QED BY <2>1, <2>2, <2>3
<1> QED BY <1>2, <1>3, <1>4

(* A code at the front of the buffer is skipped. *)
LEMMA SkipFits ==
  ASSUME NalInv, found = 0, buffer' = Nal!updata(4), found' = -2, UNCHANGED <<sent, written>>
  PROVE  NalInv'
<1>1. /\ NalTypes /\ Buffered /\ written \in Seq(Nal!Byte) /\ buffer \in Seq(Nal!Byte)
      /\ Cut \in Nat /\ Len(buffer) \in Nat
  BY BufferedCodes DEF NalInv, NalTypes
<1>2. 1 \in Nal!Codes(buffer) /\ Cut + 1 \in Nal!Codes(written)
  <2>1. 1 \in Nal!Codes(buffer)
    BY DEF NalInv, FoundIs
  <2> QED BY <1>1, <2>1, BufferedCodes
<1>3. 4 <= Len(buffer)
  BY <1>1, <1>2, CodesIn
<1>4. /\ buffer' \in Seq(Nal!Byte) /\ Cut' = Cut + 4
      /\ \A i \in 1..Len(buffer') : buffer'[i] = written'[Cut' + i]
  BY <1>1, <1>3, UpdataFacts
<1>5. NalTypes' /\ FoundIs'
  BY <1>1, <1>4 DEF NalTypes, FoundIs
<1>6. Cut' \in Nat /\ Cut' - 3 \in Nal!Codes(written)
  <2>1. Cut' - 3 = Cut + 1
    BY <1>1, <1>4
  <2> QED BY <1>1, <1>2, <1>4, <2>1
<1>7. Buffered'
  BY <1>4, <1>6 DEF Buffered
<1>8. UpTo(written, Cut' + 1) = UpTo(written, Cut + 1)
  <2>1. ASSUME NEW e \in EndsOf(written), e <= Cut' + 1 PROVE e <= Cut + 1
    <3>1. e \in Nal!Codes(written) /\ e \in Nat
      BY <1>1, EndsFinite DEF EndsOf
    <3>2. e # Cut' + 1
      BY <1>1, <1>6, NothingAtCut
    <3>3. CASE Cut + 1 < e
      <4>1. Cut + 1 + 4 <= e
        BY <1>1, <1>2, <3>1, <3>3, CodesApart
      <4> QED BY <1>1, <1>4, <2>1, <3>1, <3>2, <4>1
    <3> QED BY <1>1, <3>1, <3>3
  <2>2. ASSUME NEW e \in EndsOf(written), e <= Cut + 1 PROVE e <= Cut' + 1
    <3>1. e \in Nat
      BY <1>1, EndsFinite
    <3> QED BY <1>1, <1>4, <2>2, <3>1
  <2> QED BY <2>1, <2>2 DEF UpTo
<1>9. SentIs(sent', written', Cut')
  <2>1. EndsOf(written) \subseteq Nat /\ SentIs(sent, written, Cut)
    BY <1>1, EndsFinite DEF NalInv
  <2>2. SentIs(sent, written, Cut')
    BY <1>1, <1>6, <1>8, <2>1, SameSent
  <2> QED BY <2>2
<1> QED BY <1>5, <1>7, <1>9 DEF NalInv

(* The piece in front of a code is cut off and sent. *)
LEMMA CutFits ==
  ASSUME NalInv, found > 0, buffer' = Nal!updata(found),
         sent' = Append(sent, SubSeq(buffer, 1, found)), found' = -2, UNCHANGED written
  PROVE  NalInv'
<1>1. /\ NalTypes /\ Buffered /\ written \in Seq(Nal!Byte) /\ buffer \in Seq(Nal!Byte)
      /\ Cut \in Nat /\ Len(buffer) \in Nat /\ Len(written) = Cut + Len(buffer)
      /\ found \in Nat \ {0} /\ sent \in Seq(Seq(Nal!Byte))
  BY BufferedCodes DEF NalInv, NalTypes
<1>2. /\ found + 1 \in Nal!Codes(buffer)
      /\ \A j \in Nal!Codes(buffer) : found + 1 <= j
  BY <1>1 DEF NalInv, FoundIs
<1>3. found <= Len(buffer) /\ found + 1 <= Len(buffer)
  <2>1. found + 1 + 3 <= Len(buffer)
    BY <1>1, <1>2, CodesIn
  <2> QED BY <1>1, <2>1
<1>4. /\ buffer' \in Seq(Nal!Byte) /\ Cut' = Cut + found
      /\ \A i \in 1..Len(buffer') : buffer'[i] = written'[Cut' + i]
  BY <1>1, <1>3, UpdataFacts
<1>5. PICK e \in Nal!Codes(written) : e = Cut + (found + 1) /\ e \in Nat
  <2>1. Cut + (found + 1) \in Nal!Codes(written)
    BY <1>1, <1>2, BufferedCodes
  <2> QED BY <1>1, <2>1
<1>6. Cut' + 1 = e /\ e - 1 = Cut' /\ Cut + 1 < e /\ Cut < e /\ e - 1 = Cut + found
  BY <1>1, <1>4, <1>5
<1>7. Buffered'
  BY <1>1, <1>4, <1>5, <1>6 DEF Buffered
(* It is the first code behind the cut. *)
<1>8. ASSUME NEW j \in Nal!Codes(written), j < e PROVE j <= Cut
  <2>1. j \in Nat
    BY <1>1, CodesIn
  <2>2. CASE Cut < j
    <3>1. j - Cut \in Nal!Codes(buffer)
      BY <1>1, <2>2, BufferedCodes
    <3>2. found + 1 <= j - Cut
      BY <1>2, <3>1
    <3> QED BY <1>1, <1>5, <1>8, <2>1, <3>2
  <2> QED BY <1>1, <2>1, <2>2
<1>9. Cut = 0 \/ Cut - 3 \in Nal!Codes(written)
  <2>1. Cut + 1 \notin Nal!Codes(written)
    <3> SUFFICES ASSUME Cut + 1 \in Nal!Codes(written) PROVE FALSE
      OBVIOUS
    <3>1. Cut + 1 <= Cut
      BY <1>6, <1>8
    <3> QED BY <1>1, <3>1
  <2> QED BY <1>1, <2>1 DEF Buffered
<1> DEFINE x == SubSeq(buffer, 1, found)
<1>10. x \in Seq(Nal!Byte) /\ x # <<>> /\ x = PieceOf(written, e)
  <2>1. PieceOf(written, e) = SubSeq(written, Cut + 1, e - 1)
    BY <1>1, <1>6, <1>8, <1>9, FirstPiece
  <2>2. SubSeq(written, Cut + 1, Cut + found) = [i \in 1..found |-> written[Cut + i]]
    <3>1. SubSeq(written, Cut + 1, Cut + found)
            = [i \in 1..(Cut + found - (Cut + 1) + 1) |-> written[Cut + 1 + i - 1]]
      BY <1>1, <1>3
    <3>2. Cut + found - (Cut + 1) + 1 = found /\ \A i \in 1..found : Cut + 1 + i - 1 = Cut + i
      BY <1>1
    <3> QED BY <3>1, <3>2
  <2>3. x = [i \in 1..found |-> buffer[i]]
    <3>1. x = [i \in 1..(found - 1 + 1) |-> buffer[1 + i - 1]]
      BY <1>1, <1>3
    <3>2. found - 1 + 1 = found /\ \A i \in 1..found : 1 + i - 1 = i
      BY <1>1
    <3> QED BY <3>1, <3>2
  <2>4. \A i \in 1..found : i \in 1..Len(buffer) /\ buffer[i] = written[Cut + i]
    BY <1>1, <1>3 DEF Buffered
  <2>5. x = SubSeq(written, Cut + 1, Cut + found)
    BY <2>2, <2>3, <2>4
  <2>6. x \in Seq(Nal!Byte) /\ Len(x) = found
    BY <1>1, <1>3
  <2>7. x # <<>>
    BY <1>1, <2>6
  <2> HIDE DEF x
  <2> QED BY <1>6, <2>1, <2>5, <2>6, <2>7
<1> HIDE DEF x
<1>11. UpTo(written, e) = UpTo(written, Cut + 1) \cup {e} /\ e \in EndsOf(written)
  <2>1. e \in EndsOf(written)
    BY <1>10 DEF EndsOf
  <2>2. EndsOf(written) \subseteq Nat /\ EndsOf(written) \subseteq Nal!Codes(written)
    BY <1>1, EndsFinite DEF EndsOf
  <2>3. ASSUME NEW d \in EndsOf(written), d <= e, d # e PROVE d <= Cut + 1
    <3>1. d \in Nat /\ d < e
      BY <1>5, <2>2, <2>3
    <3>2. d <= Cut
      BY <1>8, <2>2, <3>1
    <3> QED BY <1>1, <3>1, <3>2
  <2>4. ASSUME NEW d \in EndsOf(written), d <= Cut + 1 PROVE d <= e
    <3>1. d \in Nat
      BY <2>2
    <3> QED BY <1>1, <1>5, <1>6, <2>4, <3>1
  <2>5. e <= e
    BY <1>5
  <2> QED BY <2>1, <2>3, <2>4, <2>5 DEF UpTo
<1>12. SentIs(sent', written', Cut')
  <2>1. SentIs(sent, written, Cut)
    BY DEF NalInv
  <2>2. SentIs(Append(sent, x), written, e - 1)
    BY <1>1, <1>6, <1>10, <1>11, <2>1, MoreSent
  <2> QED BY <1>6, <2>2 DEF x
<1>13. NalTypes' /\ FoundIs'
  <2>1. sent' \in Seq(Seq(Nal!Byte))
    BY <1>1, <1>10, AppendProperties DEF x
  <2> QED BY <1>1, <1>4, <2>1 DEF NalTypes, FoundIs
<1> QED BY <1>7, <1>12, <1>13 DEF NalInv

LEMMA NalNext == NalInv /\ [Nal!Next]_(Nal!vars) => NalInv'
<1> SUFFICES ASSUME NalInv, [Nal!Next]_(Nal!vars) PROVE NalInv'
  OBVIOUS
<1>1. CASE UNCHANGED <<buffer, found, sent, written>>
  <2>1. Cut' = Cut
    BY <1>1 DEF Cut
  <2> QED BY <1>1, <2>1 DEF NalInv, NalTypes, Buffered, FoundIs
<1>2. CASE Nal!ProcessBuffer
  <2>1. found' = -2 /\ UNCHANGED written
    BY <1>2 DEF Nal!ProcessBuffer
  <2>2. CASE UNCHANGED <<buffer, sent>>
    <3>1. Cut' = Cut
      BY <2>1, <2>2 DEF Cut
    <3> QED BY <2>1, <2>2, <3>1 DEF NalInv, NalTypes, Buffered, FoundIs
  <2>3. CASE found = 0 /\ buffer' = Nal!updata(4) /\ UNCHANGED sent
    BY <2>1, <2>3, SkipFits
  <2>4. CASE found > 0 /\ buffer' = Nal!updata(found)
               /\ sent' = Append(sent, SubSeq(buffer, 1, found))
    BY <2>1, <2>4, CutFits
  <2> QED BY <1>2, <2>2, <2>3, <2>4 DEF Nal!ProcessBuffer
<1> QED BY <1>1, <1>2, StreamFits, FindFits DEF Nal!Next, Nal!vars

(* MemoryWriter counts as FiniteSets does. *)
LEMMA Counted == \A S : Nal!Cardinality(S) = Cardinality(S)
BY DEF Nal!Cardinality, Cardinality, Nal!IsFiniteSet, IsFiniteSet

(* The invariant gives the property. *)
LEMMA NalsExact == NalInv => Nal!NalsAreExact
<1> SUFFICES ASSUME NalInv PROVE Nal!NalsAreExact
  OBVIOUS
<1> DEFINE E == EndsOf(written)  D == UpTo(written, Cut + 1)
<1>1. /\ Nal!Ends = E
      /\ \A e : Nal!Piece(e) = PieceOf(written, e) /\ Nal!Number(e) = Cardinality(UpTo(written, e))
  <2>1. \A e : Nal!Piece(e) = PieceOf(written, e)
    BY DEF Nal!Piece, PieceOf, Starts
  <2>2. Nal!Ends = E
    BY <2>1 DEF Nal!Ends, EndsOf
  <2>3. \A e : Nal!Number(e) = Cardinality(UpTo(written, e))
    BY <2>2, Counted DEF Nal!Number, UpTo
  <2> QED BY <2>1, <2>2, <2>3
<1>2. /\ written \in Seq(Nal!Byte) /\ Cut \in Nat /\ SentIs(sent, written, Cut)
  BY BufferedCodes DEF NalInv, NalTypes
<1>3. /\ IsFiniteSet(E) /\ IsFiniteSet(D) /\ D \subseteq E /\ E \subseteq Nat
      /\ Cardinality(E) \in Nat /\ Cardinality(D) \in Nat
  BY <1>2, EndsFinite
<1>4. Len(sent) = Cardinality(D)
  BY <1>2 DEF SentIs
<1>5. Len(sent) <= Cardinality(E)
  BY <1>3, <1>4, FS_Subset
<1>6. ASSUME NEW e \in E, Cardinality(UpTo(written, e)) <= Len(sent)
      PROVE  sent[Cardinality(UpTo(written, e))] = PieceOf(written, e)
  <2>1. CASE e \in D
    BY <1>2, <2>1 DEF SentIs
  <2>2. CASE e \notin D
    <3>1. e \in Nat /\ Cut + 1 < e
      BY <1>2, <1>3, <2>2 DEF UpTo
    <3>2. D \cup {e} \subseteq UpTo(written, e)
      BY <1>2, <1>3, <3>1 DEF UpTo
    <3>3. Cardinality(D \cup {e}) = Cardinality(D) + 1
      BY <1>3, <2>2, FS_AddElement
    <3>4. /\ Cardinality(D \cup {e}) <= Cardinality(UpTo(written, e))
          /\ Cardinality(UpTo(written, e)) \in Nat
      BY <1>2, <3>2, EndsFinite, FS_Subset
    <3> QED BY <1>3, <1>4, <1>6, <3>3, <3>4
  <2> QED BY <2>1, <2>2
<1>7. ASSUME Nal!Codes(buffer) = {} PROVE Len(sent) = Cardinality(E)
  <2>1. ASSUME NEW e \in E PROVE e \in D
    <3>1. e \in Nat /\ e \in Nal!Codes(written)
      BY <1>3 DEF EndsOf
    <3>2. ~(Cut < e)
      BY <1>7, <3>1, BufferedCodes DEF NalInv
    <3>3. e <= Cut + 1
      BY <1>2, <3>1, <3>2
    <3> QED BY <3>3 DEF UpTo
  <2>2. D = E
    BY <1>3, <2>1
  <2> QED BY <1>4, <2>2
<1> HIDE DEF E, D
<1> QED BY <1>1, <1>5, <1>6, <1>7, Counted DEF Nal!NalsAreExact

(* NalsAreExact of MemoryWriter, for every stream and every way to cut it  *)
(* into chunks: the pieces sent are those between the start codes.         *)
THEOREM PiecesAreSent == Nal!Spec => []NalsAreExact
<1>1. NalInv => NalsAreExact
  BY NalsExact DEF NalsAreExact
<1> QED BY <1>1, NalInit, NalNext, PTL DEF Nal!Spec

-----------------------------------------------------------------------------
(* H264Depacketizer.                                                       *)

Fragment == [id : Nat, kind : Rtp!Kind, place : Nat]

(* What is handed on, or has to be. *)
Handed == [nal : Seq(Fragment), ts : Nat]

(* The unit that the last part of a sequence of parts is of. *)
LastOf(nal) == nal[Len(nal)].id

RtpTypes ==
  /\ now \in [id : Nat, form : Rtp!Form, kind : Rtp!Kind, parts : Nat \ {0}, ts : Nat]
  /\ next \in Nat \ {0} /\ clean \in BOOLEAN
  /\ fragmentBuffer \in Seq(Fragment)
  /\ nals \in Seq(Handed)
  /\ expected \in Seq(Handed)

(* What was handed on, or had to be, ends with a part of a unit before the *)
(* one being sent, or that one is all sent.                                *)
Earlier(w) == /\ LastOf(w.nal) \in 0..now.id
              /\ LastOf(w.nal) = now.id => next > now.parts
AllEarlier ==
  /\ \A i \in DOMAIN nals : Earlier(nals[i])
  /\ \A i \in DOMAIN expected : Earlier(expected[i])

(* A unit in fragments, of which none is lost so far, is in the buffer.    *)
Gathers ==
  clean /\ now.form = "FU-A" /\ 1 < next /\ next <= now.parts =>
    fragmentBuffer = [i \in 1..(next - 1) |-> Rtp!Part(now, i)] /\ lastTimestamp = now.ts

(* What is left in the buffer is of a unit that does not arrive whole, or  *)
(* of the one being sent.                                                  *)
LeftOver ==
  fragmentBuffer # <<>> =>
    /\ LastOf(fragmentBuffer) \in 0..now.id
    /\ LastOf(fragmentBuffer) = now.id => now.form = "FU-A"
    /\ \A i \in DOMAIN expected : LastOf(expected[i].nal) # LastOf(fragmentBuffer)

(* CompleteUnitsAreExact, of what was handed on and what had to be.        *)
ExactIn(w, e) ==
  /\ Range(e) \subseteq Range(w)
  /\ \A i, j \in DOMAIN w :
       i < j /\ {w[i], w[j]} \subseteq Range(e)
         => \E k, l \in DOMAIN e : k < l /\ e[k] = w[i] /\ e[l] = w[j]

RtpInv == RtpTypes /\ AllEarlier /\ Gathers /\ LeftOver /\ ExactIn(nals, expected)

(* More is handed on: what had to be, or something else. *)
LEMMA MoreExact ==
  ASSUME NEW S, NEW w \in Seq(S), NEW e \in Seq(S), NEW x \in Seq(S), NEW y \in Seq(S),
         ExactIn(w, e),
         \A i \in DOMAIN w : w[i] \notin Range(y),
         y = x \/ (y = <<>> /\ \A i \in DOMAIN x : x[i] \notin Range(e))
  PROVE  ExactIn(w \o x, e \o y)
<1> DEFINE wx == w \o x  ey == e \o y
<1>1. Joined(w, x, wx) /\ Joined(e, y, ey)
  BY Joins
<1> HIDE DEF wx, ey
<1>2. Range(y) \subseteq Range(x)
  BY DEF Range
<1>3. Range(ey) \subseteq Range(wx)
  BY <1>1, <1>2 DEF Joined, ExactIn
<1>4. Range(ey) = Range(e) \cup Range(y)
  BY <1>1 DEF Joined
(* What was handed on before and has to be now, had to be before. *)
<1>5. ASSUME NEW i \in 1..Len(w), w[i] \in Range(ey) PROVE w[i] \in Range(e)
  BY <1>5, <1>4, <1>1 DEF Joined
<1>6. ASSUME NEW i \in 1..Len(x), x[i] \in Range(ey)
      PROVE  y = x /\ i \in 1..Len(y)
  <2>1. CASE y = x
    BY <2>1
  <2>2. CASE y = <<>> /\ x[i] \notin Range(e)
    <3>1. Range(y) = {}
      BY <2>2 DEF Range
    <3> QED BY <1>6, <1>4, <2>2, <3>1
  <2> QED BY <2>1, <2>2, <1>1 DEF Joined
<1>7. ASSUME NEW i \in DOMAIN wx, NEW j \in DOMAIN wx, i < j,
             wx[i] \in Range(ey), wx[j] \in Range(ey)
      PROVE  \E k, l \in DOMAIN ey : k < l /\ ey[k] = wx[i] /\ ey[l] = wx[j]
  <2>1. CASE i \in 1..Len(w) /\ j \in 1..Len(w)
    <3>1. w[i] \in Range(e) /\ w[j] \in Range(e)
      BY <1>1, <1>5, <1>7, <2>1 DEF Joined
    <3>2. PICK k, l \in DOMAIN e : k < l /\ e[k] = w[i] /\ e[l] = w[j]
      BY <3>1, <1>1, <1>7, <2>1 DEF ExactIn, Joined
    <3> QED BY <3>2, <1>1, <2>1 DEF Joined
  <2>2. ASSUME NEW m \in 1..Len(x), j = Len(w) + m, i \in 1..Len(w)
        PROVE  \E k, l \in DOMAIN ey : k < l /\ ey[k] = wx[i] /\ ey[l] = wx[j]
    <3>1. w[i] \in Range(e)
      BY <1>1, <1>5, <1>7, <2>2 DEF Joined
    <3>2. PICK k \in 1..Len(e) : e[k] = w[i]
      BY <1>1, <3>1 DEF Range, Joined
    <3>3. y = x /\ m \in 1..Len(y)
      BY <1>1, <1>6, <1>7, <2>2 DEF Joined
    <3>4. k < Len(e) + m
      BY <1>1 DEF Joined
    <3> QED BY <3>3, <3>4, <3>2, <1>1, <2>2 DEF Joined
  <2>3. ASSUME NEW m \in 1..Len(x), j = Len(w) + m, NEW n \in 1..Len(x), i = Len(w) + n
        PROVE  \E k, l \in DOMAIN ey : k < l /\ ey[k] = wx[i] /\ ey[l] = wx[j]
    <3>1. y = x /\ m \in 1..Len(y) /\ n \in 1..Len(y)
      BY <1>1, <1>6, <1>7, <2>3 DEF Joined
    <3>2. Len(e) + n < Len(e) + m
      BY <1>1, <1>7, <2>3 DEF Joined
    <3> QED BY <3>1, <3>2, <1>1, <2>3 DEF Joined
  <2>4. ASSUME NEW n \in 1..Len(x), i = Len(w) + n, j \in 1..Len(w) PROVE FALSE
    BY <1>1, <1>7, <2>4 DEF Joined
  <2> QED BY <1>1, <2>1, <2>2, <2>3, <2>4 DEF Joined
<1> QED BY <1>3, <1>7 DEF ExactIn, wx, ey

(* The last part of what is put together. *)
LEMMA LastPart ==
  /\ \A q \in Seq(Fragment), p \in Fragment : LastOf(Append(q, p)) = p.id
  /\ \A p \in Fragment : LastOf(<<p>>) = p.id
<1>1. ASSUME NEW q \in Seq(Fragment), NEW p \in Fragment PROVE LastOf(Append(q, p)) = p.id
  <2>1. Append(q, p)[Len(Append(q, p))] = p
    BY <1>1
  <2> QED BY <2>1 DEF LastOf
<1>2. ASSUME NEW p \in Fragment PROVE LastOf(<<p>>) = p.id
  BY DEF LastOf
<1> QED BY <1>1, <1>2

(* A part of the unit being sent. *)
LEMMA PartFits ==
  ASSUME RtpTypes, NEW i \in Nat
  PROVE  Rtp!Part(now, i) \in Fragment /\ Rtp!Part(now, i).id = now.id
BY DEF RtpTypes, Fragment, Rtp!Part

(* The order and the numbers: where the unit being sent is not all sent,   *)
(* nothing of it was handed on, nor had to be.                             *)
LEMMA NoneYet ==
  ASSUME RtpTypes, AllEarlier, next <= now.parts
  PROVE  /\ \A i \in DOMAIN nals : LastOf(nals[i].nal) # now.id
         /\ \A i \in DOMAIN expected : LastOf(expected[i].nal) # now.id
BY DEF RtpTypes, AllEarlier, Earlier

(* x is handed on, which ends with parts of the unit being sent or is none *)
(* that had to be, and so is y, which had to be; then that unit is all     *)
(* sent.                                                                   *)
LEMMA HandedOn ==
  ASSUME RtpInv, next <= now.parts, UNCHANGED now, next' \in Nat, next' > now.parts,
         NEW x \in Seq(Handed),
         NEW y \in Seq(Handed),
         nals' = nals \o x, expected' = expected \o y,
         y = x \/ (y = <<>> /\ \A i \in DOMAIN x : x[i] \notin Range(expected)),
         \A i \in DOMAIN x : LastOf(x[i].nal) \in 0..now.id,
         \A i \in DOMAIN y : LastOf(y[i].nal) = now.id
  PROVE  /\ nals' \in Seq(Handed)
         /\ expected' \in Seq(Handed)
         /\ AllEarlier' /\ Gathers' /\ ExactIn(nals', expected')
         /\ \A i \in DOMAIN expected' : LastOf(expected'[i].nal) = now.id
                                          \/ \E j \in DOMAIN expected : expected'[i] = expected[j]
<1>1. nals \in Seq(Handed) /\ expected \in Seq(Handed)
  BY DEF RtpInv, RtpTypes
<1>2. nals' \in Seq(Handed) /\ expected' \in Seq(Handed)
  <2> QED BY <1>1, ConcatProperties
<1>3. Joined(nals, x, nals') /\ Joined(expected, y, expected')
  <2> QED BY <1>1, Joins
<1>4. \A i \in DOMAIN nals : nals[i] \notin Range(y)
  <2>1. \A i \in DOMAIN nals : LastOf(nals[i].nal) # now.id
    BY NoneYet DEF RtpInv
  <2> QED BY <2>1 DEF Range
<1>5. ExactIn(nals', expected')
  <2>1. ExactIn(nals, expected)
    BY DEF RtpInv
  <2> QED BY <1>1, <1>4, <2>1, MoreExact
<1>6. \A i \in DOMAIN expected' : LastOf(expected'[i].nal) = now.id
                                    \/ \E j \in DOMAIN expected : expected'[i] = expected[j]
  BY <1>3 DEF Joined
<1>7. AllEarlier'
  <2>1. now.id \in Nat /\ now.parts \in Nat
    BY DEF RtpInv, RtpTypes
  <2>2. \A i \in DOMAIN nals : LastOf(nals[i].nal) \in 0..now.id
    BY DEF RtpInv, AllEarlier, Earlier
  <2>3. \A i \in DOMAIN expected : LastOf(expected[i].nal) \in 0..now.id
    BY DEF RtpInv, AllEarlier, Earlier
  <2>4. \A i \in DOMAIN nals' : LastOf(nals'[i].nal) \in 0..now.id
    <3> SUFFICES ASSUME NEW i \in DOMAIN nals' PROVE LastOf(nals'[i].nal) \in 0..now.id
      OBVIOUS
    <3>1. CASE i \in 1..Len(nals)
      <4>1. nals'[i] = nals[i] /\ i \in DOMAIN nals
        BY <1>3, <3>1 DEF Joined
      <4> QED BY <2>2, <4>1
    <3>2. ASSUME NEW j \in 1..Len(x), i = Len(nals) + j PROVE LastOf(nals'[i].nal) \in 0..now.id
      <4>1. nals'[i] = x[j] /\ j \in DOMAIN x
        BY <1>3, <3>2 DEF Joined
      <4> QED BY <4>1
    <3>3. i \in 1..Len(nals) \/ \E j \in 1..Len(x) : i = Len(nals) + j
      BY <1>3 DEF Joined
    <3> QED BY <3>1, <3>2, <3>3
  <2>5. \A i \in DOMAIN expected' : LastOf(expected'[i].nal) \in 0..now.id
    <3>1. now.id \in 0..now.id
      BY <2>1
    <3> QED BY <1>6, <2>3, <3>1
  <2> QED BY <2>4, <2>5 DEF AllEarlier, Earlier
<1>8. Gathers'
  <2>1. now.parts \in Nat
    BY DEF RtpInv, RtpTypes
  <2> QED BY <2>1 DEF Gathers
<1> QED BY <1>2, <1>5, <1>6, <1>7, <1>8

LEMMA RtpInit == Rtp!Init => RtpInv
<1> SUFFICES ASSUME Rtp!Init PROVE RtpInv
  OBVIOUS
<1>1. RtpTypes
  BY DEF Rtp!Init, RtpTypes, Rtp!NoUnit, Rtp!Form, Rtp!Kind
<1>2. DOMAIN nals = {} /\ DOMAIN expected = {}
  BY DEF Rtp!Init
<1>3. AllEarlier
  BY <1>2 DEF AllEarlier
<1>4. Gathers /\ LeftOver
  BY DEF Rtp!Init, Gathers, LeftOver, Rtp!NoUnit
<1>5. ExactIn(nals, expected)
  BY <1>2 DEF ExactIn, Range
<1> QED BY <1>1, <1>3, <1>4, <1>5 DEF RtpInv

LEMMA SendFits == RtpInv /\ Rtp!Send => RtpInv'
<1> SUFFICES ASSUME RtpInv, Rtp!Send PROVE RtpInv'
  OBVIOUS
<1>1. UNCHANGED <<fragmentBuffer, nals, expected>> /\ next' = 1 /\ clean' = TRUE
  BY DEF Rtp!Send
<1>2. /\ now' \in [id : Nat, form : Rtp!Form, kind : Rtp!Kind, parts : Nat \ {0}, ts : Nat]
      /\ now'.id = now.id + 1 /\ now.id \in Nat
  <2>1. PICK u \in Rtp!Unit : u.id = now.id + 1 /\ now' = u
    BY DEF Rtp!Send
  <2>2. /\ 1..MaxUnits \subseteq Nat /\ 0..MaxUnits \subseteq Nat
        /\ 1..MaxParts \subseteq Nat \ {0}
    BY BoundsAssumption
  <2>3. u \in [id : 1..MaxUnits, form : Rtp!Form, kind : Rtp!Kind, parts : 1..MaxParts,
               ts : 0..MaxUnits]
    BY DEF Rtp!Unit
  <2> QED BY <2>1, <2>2, <2>3 DEF RtpInv, RtpTypes
<1>3. RtpTypes'
  BY <1>1, <1>2 DEF RtpInv, RtpTypes
<1>4. AllEarlier'
  <2>1. \A n \in 0..now.id : n \in 0..now'.id /\ n # now'.id
    BY <1>2
  <2> QED BY <1>1, <1>2, <2>1 DEF RtpInv, AllEarlier, Earlier
<1>5. Gathers'
  BY <1>1 DEF Gathers
<1>6. LeftOver'
  BY <1>1, <1>2 DEF RtpInv, LeftOver
<1> QED BY <1>1, <1>3, <1>4, <1>5, <1>6 DEF RtpInv

LEMMA LoseFits == RtpInv /\ Rtp!Lose => RtpInv'
<1> SUFFICES ASSUME RtpInv, Rtp!Lose PROVE RtpInv'
  OBVIOUS
<1>1. /\ UNCHANGED <<now, fragmentBuffer, nals, expected>> /\ clean' = FALSE
      /\ next <= now.parts /\ next' \in {next + 1, now.parts + 1}
  BY DEF Rtp!Lose, Rtp!Behind
<1>2. next' \in Nat \ {0}
  BY <1>1 DEF RtpInv, RtpTypes
<1>3. RtpTypes'
  BY <1>1, <1>2 DEF RtpInv, RtpTypes
<1>4. AllEarlier'
  BY <1>1, NoneYet DEF RtpInv, AllEarlier, Earlier
<1>5. Gathers' /\ LeftOver'
  BY <1>1 DEF RtpInv, Gathers, LeftOver
<1> QED BY <1>1, <1>3, <1>4, <1>5 DEF RtpInv

LEMMA SingleFits == RtpInv /\ Rtp!ProcessSingle => RtpInv'
<1> SUFFICES ASSUME RtpInv, Rtp!ProcessSingle PROVE RtpInv'
  OBVIOUS
<1>1. /\ UNCHANGED <<now, clean, fragmentBuffer>> /\ now.form = "single"
      /\ next <= now.parts /\ next' = now.parts + 1
  BY DEF Rtp!ProcessSingle, Rtp!Behind
<1> DEFINE out == [nal |-> <<Rtp!Part(now, 1)>>, ts |-> now.ts]
<1>2. RtpTypes
  BY DEF RtpInv
<1>3. next' \in Nat \ {0} /\ next' > now.parts
  BY <1>1, <1>2 DEF RtpTypes
<1>4. out \in Handed /\ LastOf(out.nal) = now.id /\ now.id \in Nat
  <2>1. Rtp!Part(now, 1) \in Fragment /\ Rtp!Part(now, 1).id = now.id
    BY <1>2, PartFits
  <2> QED BY <1>2, <2>1, LastPart DEF RtpTypes, Handed
<1>5. PICK x : /\ x = <<>> \/ x = <<out>>
               /\ nals' = nals \o x /\ expected' = expected \o x
  <2>1. nals \in Seq(Handed) /\ expected \in Seq(Handed)
    BY <1>2 DEF RtpTypes
  <2>2. Rtp!Part(now, 1).kind = now.kind /\ Rtp!Part(now, 1).place = 1
    BY DEF Rtp!Part
  <2>3. CASE now.kind = "other"
    <3>1. UNCHANGED <<nals, expected>>
      BY <2>2, <2>3 DEF Rtp!ProcessSingle, Rtp!writeNALU
    <3> QED BY <2>1, <3>1
  <2>4. CASE now.kind # "other"
    <3>1. nals' = Append(nals, out) /\ expected' = Append(expected, out)
      BY <2>2, <2>4 DEF Rtp!ProcessSingle, Rtp!writeNALU
    <3> HIDE DEF out
    <3>2. nals' = nals \o <<out>> /\ expected' = expected \o <<out>>
      BY <1>4, <2>1, <3>1
    <3> QED BY <3>2
  <2> QED BY <2>3, <2>4
<1>6. x \in Seq(Handed) /\ \A i \in DOMAIN x : LastOf(x[i].nal) = now.id
  <2> HIDE DEF out
  <2>1. CASE x = <<>>
    BY <2>1
  <2>2. CASE x = <<out>>
    <3>1. x \in Seq(Handed) /\ DOMAIN x = {1} /\ x[1] = out
      BY <1>4, <2>2
    <3> QED BY <1>4, <3>1
  <2> QED BY <1>5, <2>1, <2>2
<1>7. \A i \in DOMAIN x : LastOf(x[i].nal) \in 0..now.id
  BY <1>4, <1>6
<1>8. /\ nals' \in Seq(Handed) /\ expected' \in Seq(Handed)
      /\ AllEarlier' /\ Gathers' /\ ExactIn(nals', expected')
      /\ \A i \in DOMAIN expected' : LastOf(expected'[i].nal) = now.id
                                       \/ \E j \in DOMAIN expected : expected'[i] = expected[j]
  BY <1>1, <1>3, <1>5, <1>6, <1>7, HandedOn
<1>9. RtpTypes'
  BY <1>1, <1>2, <1>3, <1>8 DEF RtpTypes
<1>10. LeftOver'
  BY <1>1, <1>8 DEF RtpInv, LeftOver
<1> QED BY <1>8, <1>9, <1>10 DEF RtpInv

(* What is put together once the next part of a unit has arrived. *)
LEMMA GatheredFacts ==
  ASSUME RtpInv, Rtp!processFUA, NEW g, g = Rtp!Gathered(Rtp!Part(now, next))
  PROVE  /\ g \in Seq(Fragment)
         /\ clean => g = [i \in 1..next |-> Rtp!Part(now, i)] /\ lastTimestamp' = now.ts
         /\ g # <<>> => /\ LastOf(g) \in 0..now.id
                        /\ \A i \in DOMAIN expected : LastOf(expected[i].nal) # LastOf(g)
<1> DEFINE p == Rtp!Part(now, next)
<1>1. /\ RtpTypes /\ next <= now.parts /\ now.form = "FU-A"
      /\ next \in Nat \ {0} /\ now.id \in Nat
      /\ lastTimestamp' = IF next = 1 THEN now.ts ELSE lastTimestamp
      /\ fragmentBuffer \in Seq(Fragment)
  BY DEF RtpInv, RtpTypes, Rtp!processFUA
<1>2. p \in Fragment /\ p.id = now.id /\ p.place = next
  BY <1>1, PartFits DEF Rtp!Part
<1>3. g = IF next = 1 THEN <<p>>
          ELSE IF now.ts = lastTimestamp THEN Append(fragmentBuffer, p)
          ELSE fragmentBuffer
  BY <1>2 DEF Rtp!Gathered, Rtp!startFragment
<1> HIDE DEF p
<1>4. g \in Seq(Fragment)
  BY <1>1, <1>2, <1>3
<1>5. ASSUME clean PROVE g = [i \in 1..next |-> Rtp!Part(now, i)] /\ lastTimestamp' = now.ts
  <2>1. CASE next = 1
    <3>1. g = <<p>> /\ lastTimestamp' = now.ts
      BY <1>1, <1>3, <2>1
    <3>2. <<p>> = [i \in 1..next |-> Rtp!Part(now, i)]
      BY <2>1 DEF p
    <3> QED BY <3>1, <3>2
  <2>2. CASE next # 1
    <3>1. /\ fragmentBuffer = [i \in 1..(next - 1) |-> Rtp!Part(now, i)]
          /\ lastTimestamp = now.ts
      BY <1>1, <1>5, <2>2 DEF RtpInv, Gathers
    <3>2. g = Append(fragmentBuffer, p) /\ lastTimestamp' = now.ts
      BY <1>1, <1>3, <2>2, <3>1
    <3>3. Len(fragmentBuffer) = next - 1 /\ next - 1 \in Nat
      BY <1>1, <3>1
    <3>4. Append(fragmentBuffer, p) = [i \in 1..next |-> Rtp!Part(now, i)]
      BY <1>1, <1>2, <3>1, <3>3 DEF p
    <3> QED BY <3>2, <3>4
  <2> QED BY <2>1, <2>2
<1>6. ASSUME g # <<>>
      PROVE  /\ LastOf(g) \in 0..now.id
             /\ \A i \in DOMAIN expected : LastOf(expected[i].nal) # LastOf(g)
  <2>1. CASE g = <<p>> \/ g = Append(fragmentBuffer, p)
    <3>1. LastOf(g) = now.id
      BY <1>1, <1>2, <2>1, LastPart
    <3>2. now.id \in 0..now.id
      BY <1>1
    <3> QED BY <1>1, <3>1, <3>2, NoneYet DEF RtpInv
  <2>2. CASE g = fragmentBuffer
    BY <1>6, <2>2 DEF RtpInv, LeftOver
  <2> QED BY <1>3, <2>1, <2>2
<1> QED BY <1>4, <1>5, <1>6

LEMMA FUAFits == RtpInv /\ Rtp!processFUA => RtpInv'
<1> SUFFICES ASSUME RtpInv, Rtp!processFUA PROVE RtpInv'
  OBVIOUS
<1> DEFINE p == Rtp!Part(now, next)
<1>1. PICK g : g = Rtp!Gathered(p)
  OBVIOUS
<1>2. /\ RtpTypes /\ next <= now.parts /\ now.form = "FU-A"
      /\ next \in Nat \ {0} /\ now.id \in Nat /\ now.parts \in Nat
      /\ UNCHANGED <<now, clean>> /\ next' = next + 1
  BY DEF RtpInv, RtpTypes, Rtp!processFUA, Rtp!Behind
<1>3. /\ g \in Seq(Fragment)
      /\ clean => g = [i \in 1..next |-> Rtp!Part(now, i)] /\ lastTimestamp' = now.ts
      /\ g # <<>> => /\ LastOf(g) \in 0..now.id
                     /\ \A i \in DOMAIN expected : LastOf(expected[i].nal) # LastOf(g)
  BY <1>1, GatheredFacts
<1>4. clean => g # <<>> /\ g[1].place = 1 /\ g[1].kind = now.kind
  <2> SUFFICES ASSUME clean PROVE g # <<>> /\ g[1].place = 1 /\ g[1].kind = now.kind
    OBVIOUS
  <2>1. g[1] = Rtp!Part(now, 1) /\ Len(g) = next
    BY <1>2, <1>3
  <2> QED BY <1>2, <2>1 DEF Rtp!Part
<1> DEFINE out == [nal |-> g, ts |-> now.ts]
           unit == [nal |-> [i \in 1..now.parts |-> Rtp!Part(now, i)], ts |-> now.ts]
<1>5. /\ IF next = now.parts /\ g # <<>>
         THEN Rtp!writeNALU(g) /\ fragmentBuffer' = <<>>
         ELSE fragmentBuffer' = g /\ UNCHANGED nals
      /\ expected' = IF next = now.parts /\ clean /\ now.kind # "other"
                     THEN Append(expected, unit) ELSE expected
  <2> HIDE DEF out
  <2> QED BY <1>1 DEF Rtp!processFUA
<1>6. nals \in Seq(Handed) /\ expected \in Seq(Handed)
  BY <1>2 DEF RtpTypes
<1> HIDE DEF p
(* The unit goes on, or it ends and there is nothing of it. *)
<1>7. CASE ~(next = now.parts /\ g # <<>>)
  <2>1. UNCHANGED <<nals, expected>> /\ fragmentBuffer' = g
    BY <1>4, <1>5, <1>7
  <2>2. RtpTypes'
    BY <1>2, <1>3, <2>1 DEF RtpTypes
  <2>3. AllEarlier'
    BY <1>2, <2>1, NoneYet DEF RtpInv, AllEarlier, Earlier
  <2>4. Gathers'
    <3> SUFFICES ASSUME clean
                 PROVE  /\ g = [i \in 1..(next' - 1) |-> Rtp!Part(now', i)]
                        /\ lastTimestamp' = now'.ts
      BY <1>2, <2>1 DEF Gathers
    <3>1. next' - 1 = next /\ now' = now
      BY <1>2
    <3> QED BY <1>3, <3>1
  <2>5. LeftOver'
    BY <1>2, <1>3, <2>1 DEF LeftOver
  <2> QED BY <2>1, <2>2, <2>3, <2>4, <2>5 DEF RtpInv
(* It ends. *)
<1>8. CASE next = now.parts /\ g # <<>>
  <2>1. next' \in Nat \ {0} /\ next' > now.parts /\ fragmentBuffer' = <<>>
    BY <1>2, <1>5, <1>8
  <2>2. out \in Handed /\ LastOf(out.nal) \in 0..now.id
    BY <1>2, <1>3, <1>8 DEF Handed, RtpTypes
  <2>3. clean => unit = out
    BY <1>3, <1>8
  <2>4. nals' = nals \/ nals' = Append(nals, out)
    BY <1>5, <1>8 DEF Rtp!writeNALU
  <2>5. PICK x, y : /\ x = <<>> \/ x = <<out>>
                    /\ (clean /\ y = x) \/ y = <<>>
                    /\ nals' = nals \o x /\ expected' = expected \o y
    <3> HIDE DEF out, unit
    <3>1. nals \o <<>> = nals /\ nals \o <<out>> = Append(nals, out)
      BY <1>6, <2>2
    <3>2. expected \o <<>> = expected /\ expected \o <<out>> = Append(expected, out)
      BY <1>6, <2>2
    <3>3. CASE ~clean
      BY <1>5, <2>4, <3>1, <3>2, <3>3
    <3>4. CASE clean /\ now.kind = "other"
      <4>1. nals' = nals
        BY <1>4, <1>5, <1>8, <3>4 DEF Rtp!writeNALU
      <4> QED BY <1>5, <3>1, <3>2, <3>4, <4>1
    <3>5. CASE clean /\ now.kind # "other"
      <4>1. nals' = Append(nals, out)
        BY <1>4, <1>5, <1>8, <3>5 DEF Rtp!writeNALU, out
      <4>2. expected' = Append(expected, out)
        BY <1>5, <1>8, <2>3, <3>5
      <4>3. nals' = nals \o <<out>> /\ expected' = expected \o <<out>>
        BY <3>1, <3>2, <4>1, <4>2
      <4> QED BY <3>5, <4>3
    <3> QED BY <3>3, <3>4, <3>5, <1>2 DEF RtpTypes
  <2>6. /\ x \in Seq(Handed) /\ y \in Seq(Handed)
        /\ \A i \in DOMAIN x : x[i] = out
    <3> HIDE DEF out
    <3>1. <<out>> \in Seq(Handed) /\ DOMAIN <<out>> = {1} /\ <<out>>[1] = out
      BY <2>2
    <3>2. <<>> \in Seq(Handed)
      OBVIOUS
    <3>3. CASE x = <<>>
      <4>1. y = <<>> /\ DOMAIN x = {}
        BY <2>5, <3>3
      <4> QED BY <3>2, <3>3, <4>1
    <3>4. CASE x = <<out>>
      <4>1. x \in Seq(Handed) /\ \A i \in DOMAIN x : x[i] = out
        BY <3>1, <3>4
      <4> QED BY <2>5, <3>2, <4>1
    <3> QED BY <2>5, <3>3, <3>4
  <2>7. clean => LastOf(out.nal) = now.id
    <3> SUFFICES ASSUME clean PROVE LastOf(g) = now.id
      OBVIOUS
    <3>1. g[next] = Rtp!Part(now, next) /\ Len(g) = next
      BY <1>2, <1>3
    <3> QED BY <3>1 DEF LastOf, Rtp!Part
  <2>8. out \notin Range(expected)
    <3>1. \A i \in DOMAIN expected : LastOf(expected[i].nal) # LastOf(out.nal)
      BY <1>3, <1>8
    <3> QED BY <3>1 DEF Range
  <2> HIDE DEF out, unit
  <2>9. /\ y = x \/ (y = <<>> /\ \A i \in DOMAIN x : x[i] \notin Range(expected))
        /\ \A i \in DOMAIN x : LastOf(x[i].nal) \in 0..now.id
    BY <2>2, <2>5, <2>6, <2>8
  <2>10. \A i \in DOMAIN y : LastOf(y[i].nal) = now.id
    <3>1. CASE clean /\ y = x
      BY <2>6, <2>7, <3>1
    <3>2. CASE y = <<>>
      BY <3>2
    <3> QED BY <2>5, <3>1, <3>2
  <2>11. /\ nals' \in Seq(Handed) /\ expected' \in Seq(Handed)
         /\ AllEarlier' /\ Gathers' /\ ExactIn(nals', expected')
    BY <1>2, <2>1, <2>5, <2>6, <2>9, <2>10, HandedOn
  <2>12. RtpTypes'
    BY <1>2, <2>1, <2>11 DEF RtpTypes
  <2>13. LeftOver'
    BY <2>1 DEF LeftOver
  <2> QED BY <2>11, <2>12, <2>13 DEF RtpInv
<1> QED BY <1>7, <1>8

LEMMA STAPAFits == RtpInv /\ Rtp!processSTAPA => RtpInv'
<1> SUFFICES ASSUME RtpInv, Rtp!processSTAPA PROVE RtpInv'
  OBVIOUS
<1> DEFINE units == [i \in 1..now.parts |-> [nal |-> <<Rtp!Part(now, i)>>, ts |-> now.ts]]
<1>1. /\ UNCHANGED <<now, clean, fragmentBuffer>> /\ now.form = "STAP-A"
      /\ next <= now.parts /\ next' = now.parts + 1
      /\ RtpTypes /\ now.parts \in Nat /\ now.id \in Nat
  BY DEF RtpInv, RtpTypes, Rtp!processSTAPA, Rtp!Behind
<1>2. next' \in Nat \ {0} /\ next' > now.parts /\ now.id \in 0..now.id
  BY <1>1
<1>3. ASSUME NEW i \in 1..now.parts
      PROVE  units[i] \in Handed /\ LastOf(units[i].nal) = now.id
  <2>1. Rtp!Part(now, i) \in Fragment /\ Rtp!Part(now, i).id = now.id
    BY <1>1, PartFits
  <2> QED BY <1>1, <2>1, LastPart DEF RtpTypes, Handed
<1>4. units \in Seq(Handed) /\ DOMAIN units = 1..now.parts
  <2>1. units \in [1..now.parts -> Handed]
    BY <1>3
  <2> HIDE DEF units
  <2> QED BY <1>1, <2>1
<1>5. PICK x : /\ x = <<>> \/ x = units
               /\ nals' = nals \o x /\ expected' = expected \o x
  <2>1. nals \o <<>> = nals /\ expected \o <<>> = expected
    BY <1>1 DEF RtpTypes
  <2>2. CASE now.kind = "other"
    BY <2>1, <2>2 DEF Rtp!processSTAPA
  <2>3. CASE now.kind # "other"
    <3>1. nals' = nals \o units /\ expected' = expected \o units
      BY <2>3 DEF Rtp!processSTAPA
    <3> QED BY <3>1
  <2> QED BY <2>2, <2>3
<1>6. x \in Seq(Handed) /\ \A i \in DOMAIN x : LastOf(x[i].nal) = now.id
  <2> HIDE DEF units
  <2>1. CASE x = <<>>
    BY <2>1
  <2>2. CASE x = units
    BY <1>3, <1>4, <2>2
  <2> QED BY <1>5, <2>1, <2>2
<1> HIDE DEF units
<1>7. \A i \in DOMAIN x : LastOf(x[i].nal) \in 0..now.id
  BY <1>2, <1>6
<1>8. /\ nals' \in Seq(Handed) /\ expected' \in Seq(Handed)
      /\ AllEarlier' /\ Gathers' /\ ExactIn(nals', expected')
      /\ \A i \in DOMAIN expected' : LastOf(expected'[i].nal) = now.id
                                       \/ \E j \in DOMAIN expected : expected'[i] = expected[j]
  BY <1>1, <1>2, <1>5, <1>6, <1>7, HandedOn
<1>9. RtpTypes'
  BY <1>1, <1>2, <1>8 DEF RtpTypes
<1>10. LeftOver'
  BY <1>1, <1>8 DEF RtpInv, LeftOver
<1> QED BY <1>8, <1>9, <1>10 DEF RtpInv

LEMMA RtpNext == RtpInv /\ [Rtp!Next]_(Rtp!vars) => RtpInv'
<1> SUFFICES ASSUME RtpInv, [Rtp!Next]_(Rtp!vars) PROVE RtpInv'
  OBVIOUS
<1>1. CASE UNCHANGED Rtp!vars
  <2>1. UNCHANGED <<now, next, clean, fragmentBuffer, lastTimestamp, nals, expected>>
    BY <1>1 DEF Rtp!vars
  <2> QED BY <2>1 DEF RtpInv, RtpTypes, AllEarlier, Earlier, Gathers, LeftOver
<1>2. CASE Rtp!Next
  BY <1>2, SendFits, LoseFits, SingleFits, FUAFits, STAPAFits DEF Rtp!Next
<1> QED BY <1>1, <1>2

(* CompleteUnitsAreExact of H264Depacketizer, for every number of units and*)
(* parts: a loss damages no unit but the one it hits.                      *)
THEOREM UnitsArrive == Rtp!Spec => []CompleteUnitsAreExact
<1>1. RtpInv => CompleteUnitsAreExact
  BY DEF RtpInv, ExactIn, CompleteUnitsAreExact, Rtp!CompleteUnitsAreExact,
         Range, Rtp!Range
<1> QED BY <1>1, RtpInit, RtpNext, PTL DEF Rtp!Spec

-----------------------------------------------------------------------------
(* H264Sps.                                                                *)

Bit == {0, 1}

(* The binary digits d, from a 1 on, are of the number m.  f has the value *)
(* of the first digits.                                                    *)
Spells(d, m) ==
  /\ d \in Seq(Bit) /\ Len(d) \in Nat \ {0} /\ d[1] = 1
  /\ \E f \in [0..Len(d) -> Nat] :
       /\ f[0] = 0 /\ f[Len(d)] = m
       /\ \A i \in 1..Len(d) : f[i] = 2 * f[i - 1] + d[i]

(* The digits of 1. *)
LEMMA SpellsOne == Spells(<<1>>, 1)
<1> DEFINE d == <<1>>
           f == [i \in 0..1 |-> i]
<1>1. d \in Seq(Bit) /\ Len(d) = 1 /\ d[1] = 1
  BY DEF Bit
<1>2. f \in [0..1 -> Nat] /\ f[0] = 0 /\ f[1] = 1
  OBVIOUS
<1> HIDE DEF d, f
<1>3. \A i \in 1..Len(d) : f[i] = 2 * f[i - 1] + d[i]
  BY <1>1, <1>2
<1>4. Len(d) \in Nat \ {0} /\ f \in [0..Len(d) -> Nat] /\ f[Len(d)] = 1
  BY <1>1, <1>2
<1>5. Spells(d, 1)
  BY <1>1, <1>2, <1>3, <1>4 DEF Spells
<1> QED BY <1>5 DEF d

(* A digit more. *)
LEMMA SpellsMore ==
  ASSUME NEW m \in Nat, NEW b \in Bit, NEW d, Spells(d, m)
  PROVE  Spells(Append(d, b), 2 * m + b)
<1>1. /\ d \in Seq(Bit) /\ Len(d) \in Nat \ {0} /\ d[1] = 1
      /\ b \in Nat
  BY DEF Spells, Bit
<1>2. PICK f \in [0..Len(d) -> Nat] :
        /\ f[0] = 0 /\ f[Len(d)] = m
        /\ \A i \in 1..Len(d) : f[i] = 2 * f[i - 1] + d[i]
  BY DEF Spells
<1> DEFINE e == Append(d, b)
           l == Len(d) + 1
           g == [i \in 0..l |-> IF i = l THEN 2 * m + b ELSE f[i]]
<1>3. /\ e \in Seq(Bit) /\ Len(e) = l /\ l \in Nat \ {0} /\ e[l] = b
      /\ \A i \in 1..Len(d) : e[i] = d[i]
  BY <1>1
<1>4. /\ g[l] = 2 * m + b
      /\ \A i \in 0..Len(d) : g[i] = f[i]
      /\ g \in [0..l -> Nat]
  BY <1>1, <1>2
<1> HIDE DEF e, g
<1>5. ASSUME NEW i \in 1..Len(e) PROVE g[i] = 2 * g[i - 1] + e[i]
  <2>1. CASE i = l
    <3>1. i - 1 = Len(d) /\ i - 1 \in 0..Len(d)
      BY <1>1, <2>1
    <3> QED BY <1>2, <1>3, <1>4, <2>1, <3>1
  <2>2. CASE i # l
    <3>1. i \in 1..Len(d) /\ i - 1 \in 0..Len(d) /\ i \in 0..Len(d)
      BY <1>1, <1>3, <2>2
    <3> HIDE DEF l
    <3> QED BY <1>2, <1>3, <1>4, <3>1
  <2> QED BY <2>1, <2>2
<1>6. e[1] = 1 /\ g[0] = 0
  BY <1>1, <1>2, <1>3, <1>4
<1>7. Spells(e, 2 * m + b)
  <2> HIDE DEF l
  <2> QED BY <1>3, <1>4, <1>5, <1>6 DEF Spells
<1> QED BY <1>7 DEF e

(* The recursion of UE. *)
Digits(g, n) ==
  g = [m \in 1..n |-> IF m = 1 THEN <<1>> ELSE Append(g[m \div 2], m % 2)]

(* There is such a function, for every n. *)
LEMMA DigitsExist ==
  ASSUME NEW n \in Nat
  PROVE  \E g : Digits(g, n)
<1> DEFINE T == {m \in Nat : ~\E g : Digits(g, m)}
<1> SUFFICES ASSUME T # {} PROVE FALSE
  OBVIOUS
<1>1. PICK m \in T : \A j \in T : m <= j
  <2>1. T \in SUBSET Nat
    OBVIOUS
  <2> HIDE DEF T
  <2> QED BY <2>1, Least
<1>2. CASE m = 0
  <2> DEFINE g == [i \in 1..0 |-> <<1>>]
  <2>1. Digits(g, 0)
    <3>1. g = [i \in 1..0 |-> IF i = 1 THEN <<1>> ELSE Append(g[i \div 2], i % 2)]
      OBVIOUS
    <3> HIDE DEF g
    <3> QED BY <3>1 DEF Digits
  <2> HIDE DEF g
  <2> QED BY <1>1, <1>2, <2>1
<1>3. CASE m # 0
  <2>1. m - 1 \in Nat /\ m - 1 \notin T
    BY <1>1, <1>3
  <2>2. PICK h : Digits(h, m - 1)
    BY <2>1
  <2> DEFINE last == IF m = 1 THEN <<1>> ELSE Append(h[m \div 2], m % 2)
             g == [i \in 1..m |-> IF i = m THEN last ELSE h[i]]
  <2>3. \A i \in 1..(m - 1) : h[i] = IF i = 1 THEN <<1>> ELSE Append(h[i \div 2], i % 2)
    BY <2>2 DEF Digits
  <2>4. \A i \in 1..m : /\ i # m => i \in 1..(m - 1)
                        /\ i # 1 => i \div 2 \in 1..(m - 1) /\ i \div 2 \in 1..m
    BY <1>1
  <2>5. m \in 1..m /\ \A i \in 1..(m - 1) : i \in 1..m /\ i # m
    BY <1>1, <2>1
  <2>6. g[m] = last /\ \A i \in 1..(m - 1) : g[i] = h[i]
    BY <2>5
  <2>7. ASSUME NEW i \in 1..m
        PROVE  g[i] = IF i = 1 THEN <<1>> ELSE Append(g[i \div 2], i % 2)
    <3> HIDE DEF g
    <3>1. CASE i = m
      <4>1. m # 1 => g[m \div 2] = h[m \div 2]
        BY <2>4, <2>6, <3>1
      <4> QED BY <2>6, <3>1, <4>1
    <3>2. CASE i # m
      <4>1. i \in 1..(m - 1) /\ (i # 1 => g[i \div 2] = h[i \div 2])
        BY <2>4, <2>6, <3>2
      <4> QED BY <2>3, <2>6, <4>1
    <3> QED BY <3>1, <3>2
  <2>8. g = [i \in 1..m |-> g[i]]
    OBVIOUS
  <2> HIDE DEF g
  <2>9. Digits(g, m)
    BY <2>7, <2>8 DEF Digits
  <2> QED BY <1>1, <2>9
<1> QED BY <1>2, <1>3

(* Its last row has the digits of n. *)
LEMMA DigitsSpell ==
  ASSUME NEW n \in Nat \ {0}, NEW g, Digits(g, n)
  PROVE  Spells(g[n], n)
<1> DEFINE T == {m \in 1..n : ~Spells(g[m], m)}
<1> SUFFICES ASSUME T # {} PROVE FALSE
  <2> SUFFICES ASSUME ~Spells(g[n], n) PROVE T # {}
    OBVIOUS
  <2> n \in T
    OBVIOUS
  <2> QED OBVIOUS
<1>1. PICK m \in T : \A j \in T : m <= j
  <2>1. T \in SUBSET Nat
    OBVIOUS
  <2> HIDE DEF T
  <2> QED BY <2>1, Least
<1>2. m \in 1..n /\ ~Spells(g[m], m)
  OBVIOUS
<1>3. g[m] = IF m = 1 THEN <<1>> ELSE Append(g[m \div 2], m % 2)
  BY <1>2 DEF Digits
<1>4. CASE m = 1
  BY <1>2, <1>3, <1>4, SpellsOne
<1>5. CASE m # 1
  <2> DEFINE k == m \div 2
             b == m % 2
  <2>1. k \in 1..n /\ k < m /\ m = 2 * k + b /\ k \in Nat /\ b \in Bit
    BY <1>2, <1>5 DEF Bit
  <2> HIDE DEF k, b
  <2>2. Spells(g[k], k)
    <3> SUFFICES ASSUME ~Spells(g[k], k) PROVE FALSE
      OBVIOUS
    <3>1. k \in T
      BY <2>1
    <3>2. m <= k
      BY <1>1, <3>1
    <3> QED BY <1>2, <2>1, <3>2
  <2>3. Spells(Append(g[k], b), 2 * k + b)
    BY <2>1, <2>2, SpellsMore
  <2>4. g[m] = Append(g[k], b)
    BY <1>3, <1>5 DEF k, b
  <2> QED BY <1>2, <2>1, <2>3, <2>4
<1> QED BY <1>4, <1>5

(* A code: zeros, and as many digits and one more. *)
Zeros(n) == [i \in 1..n |-> 0]

(* UE gives a code. *)
LEMMA UEIs ==
  ASSUME NEW n \in Nat
  PROVE  \E d : Spells(d, n + 1) /\ Size!UE(n) = Zeros(Len(d) - 1) \o d
<1> DEFINE digits == CHOOSE g : Digits(g, n + 1)
<1>1. n + 1 \in Nat \ {0}
  OBVIOUS
<1>2. Digits(digits, n + 1)
  BY <1>1, DigitsExist
<1>3. Spells(digits[n + 1], n + 1)
  <2> HIDE DEF digits
  <2> QED BY <1>1, <1>2, DigitsSpell
<1>4. Size!UE(n) = Zeros(Len(digits[n + 1]) - 1) \o digits[n + 1]
  BY DEF Size!UE, Digits, Zeros
<1> HIDE DEF digits
<1> QED BY <1>3, <1>4

(* The bits w stand from p on, up to before q. *)
Span(bits, p, w, q) ==
  /\ bits \in Seq(Bit) /\ w \in Seq(Bit)
  /\ p \in Nat \ {0} /\ q \in Nat \ {0} /\ q = p + Len(w) /\ q <= Len(bits) + 1
  /\ \A i \in 1..Len(w) : bits[p + i - 1] = w[i]

(* Of bits behind bits, each stand where the others end. *)
LEMMA Splits ==
  ASSUME NEW bits, NEW p, NEW q, NEW u \in Seq(Bit), NEW v \in Seq(Bit), Span(bits, p, u \o v, q)
  PROVE  \E r : Span(bits, p, u, r) /\ Span(bits, r, v, q)
<1> DEFINE r == p + Len(u)
<1>1. /\ bits \in Seq(Bit) /\ Len(bits) \in Nat
      /\ p \in Nat \ {0} /\ q \in Nat \ {0} /\ q = p + Len(u \o v) /\ q <= Len(bits) + 1
      /\ \A i \in 1..Len(u \o v) : bits[p + i - 1] = (u \o v)[i]
  BY DEF Span
<1>2. /\ Len(u) \in Nat /\ Len(v) \in Nat /\ Len(u \o v) = Len(u) + Len(v)
      /\ \A i \in 1..Len(u) : (u \o v)[i] = u[i]
      /\ \A i \in 1..Len(v) : (u \o v)[Len(u) + i] = v[i]
  OBVIOUS
<1>3. \A i \in 1..Len(u) : bits[p + i - 1] = u[i]
  <2> SUFFICES ASSUME NEW i \in 1..Len(u) PROVE bits[p + i - 1] = u[i]
    OBVIOUS
  <2>1. i \in 1..Len(u \o v)
    BY <1>2
  <2>2. bits[p + i - 1] = (u \o v)[i]
    BY <1>1, <2>1
  <2> QED BY <1>2, <2>2
<1>4. \A i \in 1..Len(v) : bits[r + i - 1] = v[i]
  <2> SUFFICES ASSUME NEW i \in 1..Len(v) PROVE bits[r + i - 1] = v[i]
    OBVIOUS
  <2>1. Len(u) + i \in 1..Len(u \o v) /\ r + i - 1 = p + (Len(u) + i) - 1
    BY <1>1, <1>2
  <2>2. bits[p + (Len(u) + i) - 1] = (u \o v)[Len(u) + i]
    BY <1>1, <2>1
  <2> QED BY <1>2, <2>1, <2>2
<1>5. r \in Nat \ {0} /\ r <= Len(bits) + 1 /\ q = r + Len(v)
  BY <1>1, <1>2
<1>6. Span(bits, p, u, r)
  BY <1>1, <1>3, <1>5 DEF Span
<1>7. Span(bits, r, v, q)
  <2> HIDE DEF r
  <2> QED BY <1>1, <1>4, <1>5 DEF Span
<1> QED BY <1>6, <1>7

(* All that there is. *)
LEMMA Whole ==
  ASSUME NEW w \in Seq(Bit)
  PROVE  Span(w, 1, w, Len(w) + 1)
BY DEF Span

(* No bits. *)
LEMMA NothingSpans ==
  ASSUME NEW bits, NEW p, NEW q, Span(bits, p, <<>>, q)
  PROVE  q = p
BY DEF Span

(* ReadBit reads the bit that is there. *)
LEMMA ReadsBit ==
  ASSUME NEW bits, NEW p, NEW q, NEW b \in Bit, Span(bits, p, <<b>>, q)
  PROVE  Size!ReadBit(bits, p) = [value |-> b, next |-> q]
<1>1. Len(<<b>>) = 1 /\ <<b>>[1] = b /\ 1 \in 1..Len(<<b>>)
  OBVIOUS
<1>2. /\ p \in Nat /\ q = p + 1 /\ Len(bits) \in Nat /\ q <= Len(bits) + 1
      /\ bits[p + 1 - 1] = b
  BY <1>1 DEF Span
<1>3. bits[p] = b /\ ~(p > Len(bits))
  BY <1>2
<1> QED BY <1>2, <1>3 DEF Size!ReadBit

(* Bits gives the number of the digits that are there. *)
LEMMA BitsAre ==
  ASSUME NEW bits, NEW one \in Nat \ {0}, NEW m, NEW d, Spells(d, m),
         \A i \in 1..Len(d) : bits[one + i - 1] = d[i]
  PROVE  Size!Bits(bits, one, one + Len(d) - 1) = m
<1>1. PICK f \in [0..Len(d) -> Nat] :
        /\ f[0] = 0 /\ f[Len(d)] = m
        /\ \A i \in 1..Len(d) : f[i] = 2 * f[i - 1] + d[i]
  BY DEF Spells
<1>2. PICK n : n = Len(d) /\ n \in Nat \ {0}
  BY DEF Spells
<1> DEFINE last == one + n - 1
           Value(v) == v = [i \in (one - 1)..last |->
                              IF i < one THEN 0 ELSE 2 * v[i - 1] + bits[i]]
           v == CHOOSE w : Value(w)
<1>3. Size!Bits(bits, one, last) = v[last]
  BY DEF Size!Bits
<1>4. Value(v)
  <2> DEFINE w == [i \in (one - 1)..last |-> f[i - one + 1]]
  <2>1. ASSUME NEW i \in (one - 1)..last
        PROVE  w[i] = IF i < one THEN 0 ELSE 2 * w[i - 1] + bits[i]
    <3>1. w[i] = f[i - one + 1]
      OBVIOUS
    <3>2. CASE i < one
      <4>1. i - one + 1 = 0
        BY <1>2, <3>2
      <4> HIDE DEF w
      <4> QED BY <1>1, <3>1, <3>2, <4>1
    <3>3. CASE ~(i < one)
      <4> DEFINE j == i - one + 1
      <4>1. /\ j \in 1..n /\ i - 1 \in (one - 1)..last /\ (i - 1) - one + 1 = j - 1
            /\ one + j - 1 = i
        BY <1>2, <3>3
      <4>2. w[i - 1] = f[j - 1]
        BY <4>1
      <4>3. bits[i] = d[j]
        BY <1>2, <4>1
      <4>4. f[j] = 2 * f[j - 1] + d[j]
        BY <1>1, <1>2, <4>1
      <4> HIDE DEF w
      <4> QED BY <3>1, <3>3, <4>2, <4>3, <4>4
    <3> QED BY <3>2, <3>3
  <2>2. w = [i \in (one - 1)..last |-> w[i]]
    OBVIOUS
  <2> HIDE DEF w
  <2>3. Value(w)
    BY <2>1, <2>2
  <2> HIDE DEF Value
  <2> QED BY <2>3
<1>5. /\ v[one - 1] = 0
      /\ \A i \in one..last : v[i] = 2 * v[i - 1] + bits[i]
  <2>1. \A i \in (one - 1)..last : v[i] = IF i < one THEN 0 ELSE 2 * v[i - 1] + bits[i]
    <3> HIDE DEF v
    <3> QED BY <1>4
  <2> HIDE DEF v
  <2>2. one - 1 \in (one - 1)..last /\ one - 1 < one
    BY <1>2
  <2>3. \A i \in one..last : i \in (one - 1)..last /\ ~(i < one)
    BY <1>2
  <2> HIDE DEF last
  <2> QED BY <2>1, <2>2, <2>3
<1> HIDE DEF v
<1> DEFINE T == {i \in 0..n : v[one - 1 + i] # f[i]}
<1>6. T = {}
  <2> SUFFICES ASSUME T # {} PROVE FALSE
    OBVIOUS
  <2>1. PICK k \in T : \A j \in T : k <= j
    <3>1. T \in SUBSET Nat
      BY <1>2
    <3> HIDE DEF T
    <3> QED BY <3>1, Least
  <2>2. k \in 0..n /\ v[one - 1 + k] # f[k]
    OBVIOUS
  <2>3. k # 0
    <3> SUFFICES ASSUME k = 0 PROVE FALSE
      OBVIOUS
    <3>1. one - 1 + k = one - 1
      OBVIOUS
    <3> QED BY <1>1, <1>5, <2>2, <3>1
  <2>4. k - 1 \in 0..n /\ k \in 1..n
    BY <1>2, <2>2, <2>3
  <2>5. k - 1 \notin T
    BY <2>1, <2>2
  <2>6. v[one - 1 + (k - 1)] = f[k - 1]
    BY <2>4, <2>5
  <2>7. /\ one - 1 + k \in one..last /\ (one - 1 + k) - 1 = one - 1 + (k - 1)
        /\ one + k - 1 = one - 1 + k
    BY <1>2, <2>4
  <2>8. v[one - 1 + k] = 2 * f[k - 1] + bits[one - 1 + k]
    <3>1. v[one - 1 + k] = 2 * v[(one - 1 + k) - 1] + bits[one - 1 + k]
      BY <1>5, <2>7
    <3> QED BY <2>6, <2>7, <3>1
  <2>9. bits[one - 1 + k] = d[k]
    BY <1>2, <2>4, <2>7
  <2>10. f[k] = 2 * f[k - 1] + d[k]
    BY <1>1, <1>2, <2>4
  <2> QED BY <2>2, <2>8, <2>9, <2>10
<1>7. v[one - 1 + n] = f[n]
  <2>1. n \in 0..n
    BY <1>2
  <2>2. n \notin T
    <3> HIDE DEF T
    <3> QED BY <1>6
  <2> QED BY <2>1, <2>2
<1>8. one - 1 + n = last
  BY <1>2
<1> QED BY <1>1, <1>2, <1>3, <1>7, <1>8

(* ReadExpGolomb reads the number whose code is there, and no more. *)
LEMMA ReadsCode ==
  ASSUME NEW bits, NEW p, NEW q, NEW n \in Nat, Span(bits, p, Size!UE(n), q)
  PROVE  Size!ReadExpGolomb(bits, p) = [value |-> n, next |-> q]
<1>1. PICK d : Spells(d, n + 1) /\ Size!UE(n) = Zeros(Len(d) - 1) \o d
  BY UEIs
<1>2. PICK l : l = Len(d) /\ l \in Nat \ {0}
  BY <1>1 DEF Spells
<1>3. d \in Seq(Bit) /\ d[1] = 1
  BY <1>1 DEF Spells
<1>4. /\ Zeros(l - 1) \in Seq(Bit) /\ Len(Zeros(l - 1)) = l - 1
      /\ \A i \in 1..(l - 1) : Zeros(l - 1)[i] = 0
  <2>1. l - 1 \in Nat
    BY <1>2
  <2> QED BY <2>1 DEF Zeros, Bit
<1>5. Span(bits, p, Zeros(l - 1) \o d, q)
  BY <1>1, <1>2
<1>6. PICK r : Span(bits, p, Zeros(l - 1), r) /\ Span(bits, r, d, q)
  BY <1>3, <1>4, <1>5, Splits
<1>7. /\ p \in Nat \ {0} /\ r = p + (l - 1) /\ q = r + l
      /\ Len(bits) \in Nat /\ q <= Len(bits) + 1
  <2>1. /\ p \in Nat \ {0} /\ r = p + Len(Zeros(l - 1))
        /\ bits \in Seq(Bit) /\ q = r + Len(d) /\ q <= Len(bits) + 1
    BY <1>6 DEF Span
  <2>2. Len(bits) \in Nat
    BY <2>1
  <2> QED BY <1>2, <1>4, <2>1, <2>2
<1>8. /\ \A i \in 1..(l - 1) : bits[p + i - 1] = 0
      /\ \A i \in 1..Len(d) : bits[r + i - 1] = d[i]
  <2>1. /\ \A i \in 1..(l - 1) : bits[p + i - 1] = Zeros(l - 1)[i]
        /\ \A i \in 1..Len(d) : bits[r + i - 1] = d[i]
    BY <1>4, <1>6 DEF Span
  <2> QED BY <1>4, <2>1
<1> DEFINE ones == {i \in p..Len(bits) : bits[i] = 1}
           one == CHOOSE i \in ones : \A j \in ones : i <= j
           last == one + (one - p)
<1>9. r \in ones
  <2>1. r \in p..Len(bits) /\ r + 1 - 1 = r /\ 1 \in 1..Len(d)
    BY <1>2, <1>7
  <2> QED BY <1>3, <1>8, <2>1
<1>10. \A j \in ones : r <= j
  <2> SUFFICES ASSUME NEW j \in p..Len(bits), bits[j] = 1, j < r PROVE FALSE
    BY <1>2, <1>7
  <2>1. j - p + 1 \in 1..(l - 1) /\ p + (j - p + 1) - 1 = j
    BY <1>2, <1>7
  <2>2. bits[p + (j - p + 1) - 1] = 0
    BY <1>8, <2>1
  <2> QED BY <2>1, <2>2
<1>11. one = r
  <2>1. one \in ones /\ \A j \in ones : one <= j
    <3> HIDE DEF ones
    <3> QED BY <1>9, <1>10
  <2>2. one <= r /\ r <= one
    <3> HIDE DEF ones, one
    <3> QED BY <1>9, <1>10, <2>1
  <2>3. one \in Int /\ r \in Int
    <3>1. \A i \in ones : i \in Int
      BY <1>7
    <3> HIDE DEF ones, one
    <3> QED BY <1>9, <2>1, <3>1
  <2> HIDE DEF one
  <2> QED BY <2>2, <2>3
<1>12. last = r + l - 1 /\ ~(last > Len(bits)) /\ last + 1 = q
  <2> HIDE DEF one
  <2> QED BY <1>2, <1>7, <1>11
<1>13. Size!Bits(bits, r, r + l - 1) = n + 1
  <2>1. r \in Nat \ {0}
    BY <1>2, <1>7
  <2> QED BY <1>1, <1>2, <1>8, <2>1, BitsAre
<1>14. Size!ReadExpGolomb(bits, p) =
         IF ones = {} THEN Size!End(bits)
         ELSE IF last > Len(bits) THEN Size!End(bits)
              ELSE [value |-> Size!Bits(bits, one, last) - 1, next |-> last + 1]
  BY DEF Size!ReadExpGolomb
<1>15. ones # {}
  <2> HIDE DEF ones
  <2> QED BY <1>9
<1>16. (n + 1) - 1 = n
  OBVIOUS
<1> HIDE DEF ones, one, last
<1>17. Size!Bits(bits, one, last) = n + 1
  BY <1>11, <1>12, <1>13
<1> QED BY <1>12, <1>14, <1>15, <1>16, <1>17

(* Codes are bits. *)
LEMMA CodeBits ==
  ASSUME NEW n \in Nat
  PROVE  Size!UE(n) \in Seq(Bit)
<1>1. PICK d : Spells(d, n + 1) /\ Size!UE(n) = Zeros(Len(d) - 1) \o d
  BY UEIs
<1>2. d \in Seq(Bit) /\ Len(d) - 1 \in Nat
  BY <1>1 DEF Spells
<1>3. Zeros(Len(d) - 1) \in Seq(Bit)
  BY <1>2 DEF Zeros, Bit
<1> QED BY <1>1, <1>2, <1>3

(* The code of a signed number is that of a number. *)
LEMMA SignedCode ==
  ASSUME NEW n \in Int
  PROVE  \E k \in Nat : Size!SE(n) = Size!UE(k)
<1>1. (IF n > 0 THEN 2 * n - 1 ELSE -2 * n) \in Nat
  OBVIOUS
<1> QED BY <1>1 DEF Size!SE

(* So it is bits, too. *)
LEMMA SignedBits ==
  ASSUME NEW n \in Int
  PROVE  Size!SE(n) \in Seq(Bit)
BY SignedCode, CodeBits

(* A bit, and the codes, are passed. *)
LEMMA SkipsBit ==
  ASSUME NEW bits, NEW p, NEW q, NEW b \in Bit, Span(bits, p, <<b>>, q)
  PROVE  Size!SkipBit(bits, p) = q
BY ReadsBit DEF Size!SkipBit

(* A code. *)
LEMMA SkipsCode ==
  ASSUME NEW bits, NEW p, NEW q, NEW n \in Nat, Span(bits, p, Size!UE(n), q)
  PROVE  Size!SkipCode(bits, p) = q
BY ReadsCode DEF Size!SkipCode

(* A signed code. *)
LEMMA SkipsSigned ==
  ASSUME NEW bits, NEW p, NEW q, NEW n \in Int, Span(bits, p, Size!SE(n), q)
  PROVE  Size!SkipCode(bits, p) = q
BY SignedCode, SkipsCode

(* Single bits. *)
LEMMA OneBit ==
  /\ <<0>> \in Seq(Bit) /\ <<1>> \in Seq(Bit) /\ 0 \in Bit /\ 1 \in Bit
  /\ \A b \in Bit : <<b>> \in Seq(Bit)
  /\ <<>> \in Seq(Bit)
BY DEF Bit

(* The offsets of the frames of a cycle, of which there are two. *)
LEMMA OffsetsSkip ==
  ASSUME NEW bits, NEW p, NEW q, NEW r,
         Size!SkipCode(bits, p) = q, Size!SkipCode(bits, q) = r
  PROVE  LET after[i \in 0..Size!offsets(2)] ==
               IF i = 0 THEN p ELSE Size!SkipCode(bits, after[i - 1])
         IN  after[Size!offsets(2)] = r
<1> DEFINE After2(g) == g = [i \in 0..2 |-> IF i = 0 THEN p ELSE Size!SkipCode(bits, g[i - 1])]
           after == CHOOSE g : After2(g)
<1>1. After2(after)
  <2> DEFINE g == [i \in 0..2 |-> IF i = 0 THEN p ELSE IF i = 1 THEN q ELSE r]
  <2>1. g[0] = p /\ g[1] = q /\ g[2] = r
    OBVIOUS
  <2>2. ASSUME NEW i \in 0..2
        PROVE  g[i] = IF i = 0 THEN p ELSE Size!SkipCode(bits, g[i - 1])
    <3> HIDE DEF g
    <3>1. i = 0 \/ (i = 1 /\ i - 1 = 0) \/ (i = 2 /\ i - 1 = 1)
      OBVIOUS
    <3> QED BY <2>1, <3>1
  <2>3. g = [i \in 0..2 |-> g[i]]
    OBVIOUS
  <2> HIDE DEF g
  <2>4. After2(g)
    BY <2>2, <2>3
  <2> HIDE DEF After2
  <2> QED BY <2>4
<1>2. \A i \in 0..2 : after[i] = IF i = 0 THEN p ELSE Size!SkipCode(bits, after[i - 1])
  <2> HIDE DEF after
  <2> QED BY <1>1
<1>3. Size!offsets(2) = 2
  BY DEF Size!offsets
<1>4. after[2] = r
  <2> HIDE DEF after
  <2>1. 2 - 1 = 1 /\ 1 - 1 = 0 /\ 0 \in 0..2 /\ 1 \in 0..2 /\ 2 \in 0..2
    OBVIOUS
  <2>2. after[0] = p
    BY <1>2, <2>1
  <2>3. after[1] = Size!SkipCode(bits, after[0])
    <3>1. after[1] = IF 1 = 0 THEN p ELSE Size!SkipCode(bits, after[1 - 1])
      BY <1>2, <2>1
    <3> QED BY <2>1, <3>1
  <2>4. after[2] = Size!SkipCode(bits, after[1])
    <3>1. after[2] = IF 2 = 0 THEN p ELSE Size!SkipCode(bits, after[2 - 1])
      BY <1>2, <2>1
    <3> QED BY <2>1, <3>1
  <2> QED BY <2>2, <2>3, <2>4
<1> QED BY <1>3, <1>4

(* The reader gets past the fields of pic_order_cnt_type. *)
LEMMA OrderSkips ==
  ASSUME NEW s, s.order \in 0..2, s.offset \in Int,
         NEW bits, NEW p, NEW q, Span(bits, p, Size!EncodedOrder(s), q)
  PROVE  Size!skipOrder(bits, p) = q
<1>0. \A n \in Nat : Size!UE(n) \in Seq(Bit)
  BY CodeBits
<1> DEFINE pocType == Size!ReadExpGolomb(bits, p)
<1>1. CASE s.order = 0
  <2>1. Span(bits, p, Size!UE(0) \o Size!UE(4), q)
    BY <1>1 DEF Size!EncodedOrder
  <2>2. PICK r : Span(bits, p, Size!UE(0), r) /\ Span(bits, r, Size!UE(4), q)
    BY <1>0, <2>1, Splits
  <2>3. pocType.value = 0 /\ Size!SkipCode(bits, pocType.next) = q
    BY <2>2, ReadsCode, SkipsCode
  <2> HIDE DEF pocType
  <2>4. Size!skipOrder(bits, p) = Size!SkipCode(bits, pocType.next)
    BY <2>3 DEF Size!skipOrder, pocType
  <2> QED BY <2>3, <2>4
<1>2. CASE s.order = 2
  <2>1. Span(bits, p, Size!UE(2), q)
    BY <1>2 DEF Size!EncodedOrder
  <2>2. pocType.value = 2 /\ pocType.next = q
    BY <2>1, ReadsCode
  <2> HIDE DEF pocType
  <2>3. Size!skipOrder(bits, p) = pocType.next
    BY <2>2 DEF Size!skipOrder, pocType
  <2> QED BY <2>2, <2>3
<1>3. CASE s.order = 1
  <2> DEFINE a == Size!SE(s.offset)
             b == Size!SE(0)
             c == Size!SE(-1)
             w2 == Size!UE(1) \o <<0>>
             w3 == w2 \o a
             w4 == w3 \o b
             w5 == w4 \o Size!UE(2)
             w6 == w5 \o a
  <2>1. Span(bits, p, w6 \o c, q)
    BY <1>3 DEF Size!EncodedOrder
  <2>2. a \in Seq(Bit) /\ b \in Seq(Bit) /\ c \in Seq(Bit)
    <3>1. 0 \in Int /\ -1 \in Int
      OBVIOUS
    <3> QED BY <3>1, SignedBits
  <2>3. /\ w2 \in Seq(Bit) /\ w3 \in Seq(Bit) /\ w4 \in Seq(Bit) /\ w5 \in Seq(Bit)
        /\ w6 \in Seq(Bit)
    <3> HIDE DEF a, b, c
    <3> QED BY <1>0, <2>2, OneBit
  <2>4. PICK p7 : Span(bits, p, w6, p7) /\ Span(bits, p7, c, q)
    <3> HIDE DEF w6, c
    <3> QED BY <2>1, <2>2, <2>3, Splits
  <2>5. PICK p6 : Span(bits, p, w5, p6) /\ Span(bits, p6, a, p7)
    <3> HIDE DEF w5, a
    <3> QED BY <2>2, <2>3, <2>4, Splits
  <2>6. PICK p5 : Span(bits, p, w4, p5) /\ Span(bits, p5, Size!UE(2), p6)
    <3> HIDE DEF w4
    <3> QED BY <1>0, <2>3, <2>5, Splits
  <2>7. PICK p4 : Span(bits, p, w3, p4) /\ Span(bits, p4, b, p5)
    <3> HIDE DEF w3, b
    <3> QED BY <2>2, <2>3, <2>6, Splits
  <2>8. PICK p3 : Span(bits, p, w2, p3) /\ Span(bits, p3, a, p4)
    <3> HIDE DEF w2, a
    <3> QED BY <2>2, <2>3, <2>7, Splits
  <2>9. PICK p2 : Span(bits, p, Size!UE(1), p2) /\ Span(bits, p2, <<0>>, p3)
    BY <1>0, <2>8, OneBit, Splits
  <2>10. pocType.value = 1 /\ pocType.next = p2
    BY <2>9, ReadsCode
  <2>11. Size!SkipBit(bits, p2) = p3
    BY <2>9, OneBit, SkipsBit
  <2>12. /\ Size!SkipCode(bits, p3) = p4 /\ Size!SkipCode(bits, p4) = p5
         /\ Size!SkipCode(bits, p6) = p7 /\ Size!SkipCode(bits, p7) = q
    <3>1. 0 \in Int /\ -1 \in Int
      OBVIOUS
    <3> QED BY <2>4, <2>5, <2>7, <2>8, <3>1, SkipsSigned
  <2> DEFINE count == Size!ReadExpGolomb(bits, p5)
  <2>13. count.value = 2 /\ count.next = p6
    BY <2>6, ReadsCode
  <2> HIDE DEF pocType, count
  <2>14. Size!skipOrder(bits, p) =
           LET after[i \in 0..Size!offsets(2)] ==
                 IF i = 0 THEN p6 ELSE Size!SkipCode(bits, after[i - 1])
           IN  after[Size!offsets(2)]
    BY <2>10, <2>11, <2>12, <2>13 DEF Size!skipOrder, pocType, count
  <2>15. LET after[i \in 0..Size!offsets(2)] ==
               IF i = 0 THEN p6 ELSE Size!SkipCode(bits, after[i - 1])
         IN  after[Size!offsets(2)] = q
    BY <2>12, OffsetsSkip
  <2> QED BY <2>14, <2>15
<1> QED BY <1>1, <1>2, <1>3

(* No list is there: eight flags are 0. *)
LEMMA ListsSkip ==
  ASSUME NEW bits, NEW p, NEW q, Span(bits, p, Size!Zeros(8), q)
  PROVE  Size!skipScalingLists(bits, p) = q
<1> DEFINE Next1(r) == LET flag == Size!ReadBit(bits, r)
                       IN  IF flag.value = 1 THEN Size!skipScalingList(bits, flag.next)
                           ELSE flag.next
           Lists(g) == g = [i \in 0..8 |-> IF i = 0 THEN p ELSE Next1(g[i - 1])]
           after == CHOOSE g : Lists(g)
<1>1. /\ p \in Nat \ {0} /\ q = p + 8 /\ q <= Len(bits) + 1 /\ Len(bits) \in Nat
      /\ \A i \in 1..8 : bits[p + i - 1] = 0
  <2> DEFINE w == Size!Zeros(8)
  <2>1. Len(w) = 8 /\ \A i \in 1..8 : w[i] = 0
    BY DEF Size!Zeros
  <2>2. Span(bits, p, w, q)
    OBVIOUS
  <2> HIDE DEF w
  <2>3. bits \in Seq(Bit) /\ p \in Nat \ {0} /\ q = p + Len(w) /\ q <= Len(bits) + 1
    BY <2>2 DEF Span
  <2>4. \A i \in 1..8 : bits[p + i - 1] = 0
    BY <2>1, <2>2 DEF Span
  <2> QED BY <2>1, <2>3, <2>4
<1>2. ASSUME NEW i \in 1..8 PROVE Next1(p + i - 1) = p + i
  <2>1. /\ ~(p + i - 1 > Len(bits)) /\ (p + i - 1) + 1 = p + i
        /\ bits[p + i - 1] = 0
    <3>1. bits[p + i - 1] = 0
      BY <1>1
    <3>2. p \in Nat /\ q = p + 8 /\ q <= Len(bits) + 1 /\ Len(bits) \in Nat
      BY <1>1
    <3>3. i \in Nat /\ i <= 8
      OBVIOUS
    <3> QED BY <3>1, <3>2, <3>3
  <2>2. Size!ReadBit(bits, p + i - 1) = [value |-> 0, next |-> p + i]
    BY <2>1 DEF Size!ReadBit
  <2> QED BY <2>2
<1> HIDE DEF Next1
<1>3. Lists(after)
  <2> DEFINE g == [i \in 0..8 |-> p + i]
  <2>1. ASSUME NEW i \in 0..8 PROVE g[i] = IF i = 0 THEN p ELSE Next1(g[i - 1])
    <3>1. CASE i = 0
      BY <1>1, <3>1
    <3>2. CASE i # 0
      <4>1. i \in 1..8 /\ i - 1 \in 0..8 /\ p + (i - 1) = p + i - 1
        BY <1>1, <3>2
      <4>2. g[i] = p + i /\ g[i - 1] = p + i - 1
        BY <4>1
      <4> HIDE DEF g
      <4> QED BY <1>2, <3>2, <4>1, <4>2
    <3> QED BY <3>1, <3>2
  <2>2. g = [i \in 0..8 |-> g[i]]
    OBVIOUS
  <2> HIDE DEF g
  <2>3. Lists(g)
    BY <2>1, <2>2
  <2> HIDE DEF Lists
  <2> QED BY <2>3
<1>4. \A i \in 0..8 : after[i] = IF i = 0 THEN p ELSE Next1(after[i - 1])
  <2> HIDE DEF after
  <2> QED BY <1>3
<1>5. Size!skipScalingLists(bits, p) = after[8]
  BY DEF Size!skipScalingLists, Next1
<1> HIDE DEF after, Lists
<1>6. after[0] = p
  BY <1>4
<1>7. ASSUME NEW i \in 1..8, after[i - 1] = p + (i - 1) PROVE after[i] = p + i
  <2>1. i \in 0..8 /\ i # 0 /\ p + (i - 1) = p + i - 1
    BY <1>1
  <2> QED BY <1>2, <1>4, <1>7, <2>1
<1> DEFINE In(i) == after[i] = p + i
<1>8. In(0)
  BY <1>1, <1>6
<1>9. In(1)
  BY <1>7, <1>8
<1>10. In(2)
  BY <1>7, <1>9
<1>11. In(3)
  BY <1>7, <1>10
<1>12. In(4)
  BY <1>7, <1>11
<1>13. In(5)
  BY <1>7, <1>12
<1>14. In(6)
  BY <1>7, <1>13
<1>15. In(7)
  BY <1>7, <1>14
<1>16. In(8)
  BY <1>7, <1>15
<1> QED BY <1>1, <1>5, <1>16

(* A parameter set, of which only the first scaling list may be there. *)
Fields(s) ==
  /\ s.ref \in 1..3
  /\ s.high \in BOOLEAN /\ s.chroma \in Nat
  /\ s.scaling \in {"none", "flat", "default"}
  /\ s.order \in 0..2 /\ s.offset \in Int
  /\ s.width \in Nat \ {0} /\ s.height \in Nat \ {0} /\ s.frames \in Bit /\ s.crop \in Nat

(* None of its scaling lists is there, and their flags are eight. *)
FewLists(s) == s.scaling = "none" \/ (s.scaling = "flat" /\ s.chroma # 3)

LEMMA FlatIs ==
  ASSUME NEW s, s.scaling = "flat", s.chroma # 3
  PROVE  Size!EncodedScaling(s) = <<1>> \o Size!Zeros(8)
<1>1. Size!Lists(s) = 8
  BY DEF Size!Lists
<1>2. ~(s.scaling = "none")
  OBVIOUS
<1>3. Size!EncodedScaling(s) = <<1>> \o Size!Zeros(Size!Lists(s))
  BY <1>2, Zenon DEF Size!EncodedScaling
<1> QED BY <1>1, <1>3

(* What ends a parameter set is bits. *)
LEMMA TrailerBits ==
  ASSUME NEW n \in Nat
  PROVE  Size!Trailer(n) \in Seq(Bit)
<1>1. PICK k : k = (8 - ((n + 2) % 8)) % 8
  OBVIOUS
<1>2. k \in Nat
  BY <1>1
<1>3. Size!Zeros(k) \in Seq(Bit) /\ <<0, 1>> \in Seq(Bit)
  BY <1>2 DEF Size!Zeros, Bit
<1>4. <<0, 1>> \o Size!Zeros(k) \in Seq(Bit)
  BY <1>3
<1> QED BY <1>1, <1>4 DEF Size!Trailer

(* The parts of a parameter set are bits: its scaling lists, *)
LEMMA ScalingBits ==
  ASSUME NEW s, FewLists(s)
  PROVE  Size!EncodedScaling(s) \in Seq(Bit)
<1>1. Size!Zeros(8) \in Seq(Bit) /\ <<0>> \in Seq(Bit) /\ <<1>> \in Seq(Bit)
  BY DEF Bit, Size!Zeros
<1>2. <<1>> \o Size!Zeros(8) \in Seq(Bit)
  BY <1>1
<1>3. CASE s.scaling = "none"
  BY <1>1, <1>3 DEF Size!EncodedScaling
<1>4. CASE s.scaling = "flat" /\ s.chroma # 3
  BY <1>2, <1>4, FlatIs
<1> QED BY <1>3, <1>4 DEF FewLists

(* The reader gets past the fields of a high profile. *)
LEMMA HighSkips ==
  ASSUME NEW s, Fields(s), s.high, FewLists(s),
         NEW bits, NEW p, NEW q, Span(bits, p, Size!EncodedHigh(s), q)
  PROVE  Size!skipHigh(bits, p) = q
<1>0. \A n \in Nat : Size!UE(n) \in Seq(Bit)
  BY CodeBits
<1> DEFINE plane == IF s.chroma = 3 THEN <<0>> ELSE <<>>
           lists == Size!EncodedScaling(s)
           w1 == Size!UE(s.chroma)
           w2 == w1 \o plane
           w3 == w2 \o Size!UE(0)
           w4 == w3 \o Size!UE(0)
           w5 == w4 \o <<0>>
<1>1. Span(bits, p, w5 \o lists, q)
  BY DEF Size!EncodedHigh
<1>2. s.chroma \in Nat
  BY DEF Fields
<1>3. plane \in Seq(Bit) /\ lists \in Seq(Bit) /\ w1 \in Seq(Bit)
  BY <1>0, <1>2, OneBit, ScalingBits
<1>4. w2 \in Seq(Bit) /\ w3 \in Seq(Bit) /\ w4 \in Seq(Bit) /\ w5 \in Seq(Bit)
  <2> HIDE DEF plane, w1
  <2> QED BY <1>0, <1>3, OneBit
<1>5. PICK p6 : Span(bits, p, w5, p6) /\ Span(bits, p6, lists, q)
  <2> HIDE DEF w5, lists
  <2> QED BY <1>1, <1>3, <1>4, Splits
<1>6. PICK p5 : Span(bits, p, w4, p5) /\ Span(bits, p5, <<0>>, p6)
  <2> HIDE DEF w4
  <2> QED BY <1>4, <1>5, OneBit, Splits
<1>7. PICK p4 : Span(bits, p, w3, p4) /\ Span(bits, p4, Size!UE(0), p5)
  <2> HIDE DEF w3
  <2> QED BY <1>0, <1>4, <1>6, Splits
<1>8. PICK p3 : Span(bits, p, w2, p3) /\ Span(bits, p3, Size!UE(0), p4)
  <2> HIDE DEF w2
  <2> QED BY <1>0, <1>4, <1>7, Splits
<1>9. PICK p2 : Span(bits, p, w1, p2) /\ Span(bits, p2, plane, p3)
  <2> HIDE DEF w1, plane
  <2> QED BY <1>3, <1>4, <1>8, Splits
<1> DEFINE chromaFormat == Size!ReadExpGolomb(bits, p)
           depths == IF chromaFormat.value = 3 THEN Size!SkipBit(bits, chromaFormat.next)
                     ELSE chromaFormat.next
           present == Size!ReadBit(bits, Size!SkipBit(bits,
                        Size!SkipCode(bits, Size!SkipCode(bits, depths))))
<1>10. chromaFormat.value = s.chroma /\ chromaFormat.next = p2
  BY <1>2, <1>9, ReadsCode
<1>11. depths = p3
  <2> HIDE DEF chromaFormat
  <2>1. CASE s.chroma = 3
    BY <1>9, <1>10, <2>1, OneBit, SkipsBit
  <2>2. CASE s.chroma # 3
    BY <1>9, <1>10, <2>2, NothingSpans
  <2> QED BY <2>1, <2>2
<1>12. present = Size!ReadBit(bits, p6)
  <2> HIDE DEF depths
  <2>1. Size!SkipCode(bits, p3) = p4 /\ Size!SkipCode(bits, p4) = p5
    BY <1>7, <1>8, SkipsCode
  <2>2. Size!SkipBit(bits, p5) = p6
    BY <1>6, OneBit, SkipsBit
  <2> QED BY <1>11, <2>1, <2>2
<1>13. Size!skipHigh(bits, p) =
         IF present.value = 1 THEN Size!skipScalingLists(bits, present.next)
         ELSE present.next
  BY DEF Size!skipHigh
<1> HIDE DEF present
<1>14. CASE s.scaling = "none"
  <2>1. Span(bits, p6, <<0>>, q)
    BY <1>5, <1>14 DEF Size!EncodedScaling
  <2>2. present = [value |-> 0, next |-> q]
    BY <1>12, <2>1, OneBit, ReadsBit
  <2> QED BY <1>13, <2>2
<1>15. CASE s.scaling = "flat" /\ s.chroma # 3
  <2> DEFINE w == Size!Zeros(8)
  <2>1. Span(bits, p6, <<1>> \o w, q)
    BY <1>5, <1>15, FlatIs
  <2>2. w \in Seq(Bit)
    BY DEF Bit, Size!Zeros
  <2>3. PICK r : Span(bits, p6, <<1>>, r) /\ Span(bits, r, w, q)
    <3> HIDE DEF w
    <3> QED BY <2>1, <2>2, OneBit, Splits
  <2>4. present = [value |-> 1, next |-> r]
    BY <1>12, <2>3, OneBit, ReadsBit
  <2>5. Size!skipScalingLists(bits, r) = q
    BY <2>3, ListsSkip
  <2> QED BY <1>13, <2>4, <2>5
<1> QED BY <1>14, <1>15 DEF FewLists

(* its cropping, *)
LEMMA CropBits ==
  ASSUME NEW s, Fields(s)
  PROVE  Size!EncodedCrop(s) \in Seq(Bit)
<1>0. \A n \in Nat : Size!UE(n) \in Seq(Bit)
  BY CodeBits
<1>1. s.crop \in Nat
  BY DEF Fields
<1>2. PICK u \in Seq(Bit) : u = Size!UE(0)
  BY <1>0
<1>3. PICK v \in Seq(Bit) : v = Size!UE(s.crop)
  BY <1>0, <1>1
<1>4. <<1>> \o u \o u \o u \o v \in Seq(Bit)
  BY <1>2, <1>3, OneBit
<1> QED BY <1>2, <1>3, <1>4, OneBit DEF Size!EncodedCrop

(* its pic_order_cnt_type, *)
LEMMA OrderBits ==
  ASSUME NEW s, Fields(s)
  PROVE  Size!EncodedOrder(s) \in Seq(Bit)
<1>0. \A n \in Nat : Size!UE(n) \in Seq(Bit)
  BY CodeBits
<1>1. s.order \in 0..2 /\ s.offset \in Int
  BY DEF Fields
<1>2. CASE s.order = 0
  BY <1>0, <1>2 DEF Size!EncodedOrder
<1>3. CASE s.order = 2
  BY <1>0, <1>3 DEF Size!EncodedOrder
<1>4. CASE s.order = 1
  <2>1. PICK a \in Seq(Bit) : a = Size!SE(s.offset)
    BY <1>1, SignedBits
  <2>2. PICK b \in Seq(Bit) : b = Size!SE(0)
    <3>1. 0 \in Int
      OBVIOUS
    <3> QED BY <3>1, SignedBits
  <2>3. PICK c \in Seq(Bit) : c = Size!SE(-1)
    <3>1. -1 \in Int
      OBVIOUS
    <3> QED BY <3>1, SignedBits
  <2>4. Size!UE(1) \in Seq(Bit) /\ Size!UE(2) \in Seq(Bit)
    BY <1>0
  <2>5. Size!UE(1) \o <<0>> \o a \o b \o Size!UE(2) \o a \o c \in Seq(Bit)
    BY <2>4, OneBit
  <2>6. Size!EncodedOrder(s) =
          Size!UE(1) \o <<0>> \o Size!SE(s.offset) \o Size!SE(0) \o Size!UE(2)
          \o Size!SE(s.offset) \o Size!SE(-1)
    <3>1. s.order # 0 /\ s.order # 2
      BY <1>4
    <3> QED BY <1>4, <3>1, Zenon DEF Size!EncodedOrder
  <2> QED BY <2>1, <2>2, <2>3, <2>5, <2>6
<1> QED BY <1>1, <1>2, <1>3, <1>4

(* what a high profile has. *)
LEMMA HighBits ==
  ASSUME NEW s, Fields(s), s.high => FewLists(s)
  PROVE  Size!EncodedHigh(s) \in Seq(Bit)
<1>1. CASE ~s.high
  BY <1>1, OneBit DEF Size!EncodedHigh
<1>2. CASE s.high
  <2>1. PICK u \in Seq(Bit) : u = Size!UE(0)
    BY CodeBits
  <2>2. PICK v \in Seq(Bit) : v = Size!UE(s.chroma)
    BY CodeBits DEF Fields
  <2>3. PICK w \in Seq(Bit) : w = Size!EncodedScaling(s)
    BY <1>2, ScalingBits
  <2>4. PICK x \in Seq(Bit) : x = IF s.chroma = 3 THEN <<0>> ELSE <<>>
    BY OneBit
  <2>5. v \o x \o u \o u \o <<0>> \o w \in Seq(Bit)
    BY OneBit
  <2> QED BY <1>2, <2>1, <2>2, <2>3, <2>4, <2>5 DEF Size!EncodedHigh
<1> QED BY <1>1, <1>2 DEF Fields

(* The size of the coded pictures is what is read. *)
LEMMA SizeRead ==
  ASSUME NEW s, Fields(s), s.high => FewLists(s), Mb \in Nat
  PROVE  /\ Size!Encode(s) \in Seq(Bit)
         /\ Size!ParseSize(s.high, Size!Encode(s)) = Size!CodedSize(s)
<1>0. /\ \A n \in Nat : Size!UE(n) \in Seq(Bit)
      /\ s.width - 1 \in Nat /\ s.height - 1 \in Nat /\ s.frames \in Bit
      /\ s.width \in Nat /\ s.height \in Nat /\ s.frames \in {0, 1} /\ s.high \in BOOLEAN
      /\ s.order \in 0..2 /\ s.offset \in Int
  <2>1. \A n \in Nat : Size!UE(n) \in Seq(Bit)
    BY CodeBits
  <2>2. /\ s.width \in Nat \ {0} /\ s.height \in Nat \ {0}
        /\ s.frames \in Bit /\ s.frames \in {0, 1} /\ s.high \in BOOLEAN
        /\ s.order \in 0..2 /\ s.offset \in Int
    BY DEF Fields, Bit
  <2>3. /\ s.width - 1 \in Nat /\ s.height - 1 \in Nat
        /\ s.width \in Nat /\ s.height \in Nat
    BY <2>2
  <2> QED BY <2>1, <2>2, <2>3
<1> DEFINE bits == Size!Encode(s)
           u == Size!UE(0)
           high == Size!EncodedHigh(s)
           ord == Size!EncodedOrder(s)
           wide == Size!UE(s.width - 1)
           tall == Size!UE(s.height - 1)
           rest == IF s.frames = 0 THEN <<0>> ELSE <<>>
           crop == Size!EncodedCrop(s)
           w2 == u \o high
           w3 == w2 \o u
           w4 == w3 \o ord
           w5 == w4 \o Size!UE(1)
           w6 == w5 \o <<0>>
           w7 == w6 \o wide
           w8 == w7 \o tall
           w9 == w8 \o <<s.frames>>
           w10 == w9 \o rest
           w11 == w10 \o <<1>>
           w12 == w11 \o crop
           trailer == Size!Trailer(Len(Size!Data(s)))
<1>26. w12 = Size!Data(s)
  BY DEF Size!Data
<1>1. bits = w12 \o trailer
  <2> HIDE DEF w12
  <2> QED BY <1>26 DEF Size!Encode
<1>2. /\ u \in Seq(Bit) /\ high \in Seq(Bit) /\ ord \in Seq(Bit) /\ Size!UE(1) \in Seq(Bit)
      /\ wide \in Seq(Bit) /\ tall \in Seq(Bit) /\ <<s.frames>> \in Seq(Bit)
      /\ rest \in Seq(Bit) /\ crop \in Seq(Bit)
  BY <1>0, OneBit, HighBits, OrderBits, CropBits
<1> HIDE DEF bits, u, high, ord, wide, tall, rest, crop, trailer
<1>3. w2 \in Seq(Bit) /\ w3 \in Seq(Bit) /\ w4 \in Seq(Bit) /\ w5 \in Seq(Bit)
      /\ w6 \in Seq(Bit)
  BY <1>2, OneBit
<1> HIDE DEF w6
<1>4. /\ w7 \in Seq(Bit) /\ w8 \in Seq(Bit) /\ w9 \in Seq(Bit) /\ w10 \in Seq(Bit)
      /\ w11 \in Seq(Bit) /\ w12 \in Seq(Bit)
  BY <1>2, <1>3, OneBit
<1>28. trailer \in Seq(Bit)
  <2>1. Len(Size!Data(s)) \in Nat
    <3> HIDE DEF w12
    <3> QED BY <1>4, <1>26
  <2> QED BY <2>1, TrailerBits DEF trailer
<1>5. bits \in Seq(Bit)
  <2> HIDE DEF w12
  <2> QED BY <1>1, <1>4, <1>28
<1>6. \E q : Span(bits, 1, w12 \o trailer, q)
  <2>1. Span(bits, 1, bits, Len(bits) + 1)
    BY <1>5, Whole
  <2> HIDE DEF w12
  <2> QED BY <1>1, <2>1
<1>27. PICK q12 : Span(bits, 1, w12, q12)
  <2> HIDE DEF w12
  <2> QED BY <1>4, <1>6, <1>28, Splits
<1>7. PICK q11 : Span(bits, 1, w11, q11)
  <2> HIDE DEF w11
  <2> QED BY <1>2, <1>4, <1>27, Splits
<1>8. PICK q10 : Span(bits, 1, w10, q10)
  <2> HIDE DEF w10
  <2> QED BY <1>4, <1>7, OneBit, Splits
<1>9. PICK q9 : Span(bits, 1, w9, q9)
  <2> HIDE DEF w9
  <2> QED BY <1>2, <1>4, <1>8, Splits
<1>10. PICK q8 : Span(bits, 1, w8, q8) /\ Span(bits, q8, <<s.frames>>, q9)
  <2> HIDE DEF w8
  <2> QED BY <1>2, <1>4, <1>9, Splits
<1>11. PICK q7 : Span(bits, 1, w7, q7) /\ Span(bits, q7, tall, q8)
  <2> HIDE DEF w7
  <2> QED BY <1>2, <1>4, <1>10, Splits
<1>12. PICK q6 : Span(bits, 1, w6, q6) /\ Span(bits, q6, wide, q7)
  BY <1>2, <1>3, <1>11, Splits
<1>13. PICK q5 : Span(bits, 1, w5, q5) /\ Span(bits, q5, <<0>>, q6)
  <2> HIDE DEF w5
  <2> QED BY <1>3, <1>12, OneBit, Splits DEF w6
<1>14. PICK q4 : Span(bits, 1, w4, q4) /\ Span(bits, q4, Size!UE(1), q5)
  <2> HIDE DEF w4
  <2> QED BY <1>2, <1>3, <1>13, Splits
<1>15. PICK q3 : Span(bits, 1, w3, q3) /\ Span(bits, q3, ord, q4)
  <2> HIDE DEF w3
  <2> QED BY <1>2, <1>3, <1>14, Splits
<1>16. PICK q2 : Span(bits, 1, w2, q2) /\ Span(bits, q2, u, q3)
  <2> HIDE DEF w2
  <2> QED BY <1>2, <1>3, <1>15, Splits
<1>17. PICK q1 : Span(bits, 1, u, q1) /\ Span(bits, q1, high, q2)
  BY <1>2, <1>16, Splits
<1>18. Size!SkipCode(bits, 1) = q1 /\ Size!SkipCode(bits, q2) = q3
  BY <1>16, <1>17, SkipsCode DEF u
<1>19. (IF s.high THEN Size!skipHigh(bits, q1) ELSE q1) = q2
  <2>1. CASE s.high
    BY <1>17, <2>1, HighSkips DEF high
  <2>2. CASE ~s.high
    <3>1. high = <<>>
      BY <2>2 DEF high, Size!EncodedHigh
    <3> QED BY <1>17, <2>2, <3>1, NothingSpans
  <2> QED BY <1>0, <2>1, <2>2
<1>20. Size!skipOrder(bits, q3) = q4
  BY <1>0, <1>15, OrderSkips DEF ord
<1>21. Size!SkipCode(bits, q4) = q5 /\ Size!SkipBit(bits, q5) = q6
  BY <1>13, <1>14, OneBit, SkipsCode, SkipsBit
<1>22. /\ Size!ReadExpGolomb(bits, q6) = [value |-> s.width - 1, next |-> q7]
       /\ Size!ReadExpGolomb(bits, q7) = [value |-> s.height - 1, next |-> q8]
       /\ Size!ReadBit(bits, q8) = [value |-> s.frames, next |-> q9]
  <2>1. Span(bits, q6, Size!UE(s.width - 1), q7) /\ Span(bits, q7, Size!UE(s.height - 1), q8)
    BY <1>11, <1>12 DEF wide, tall
  <2>2. s.width - 1 \in Nat /\ s.height - 1 \in Nat /\ s.frames \in Bit
    BY <1>0
  <2>3. Size!ReadBit(bits, q8) = [value |-> s.frames, next |-> q9]
    BY <1>10, <2>2, ReadsBit
  <2>4. /\ Size!ReadExpGolomb(bits, q6) = [value |-> s.width - 1, next |-> q7]
        /\ Size!ReadExpGolomb(bits, q7) = [value |-> s.height - 1, next |-> q8]
    BY <2>1, <2>2, ReadsCode
  <2> QED BY <2>3, <2>4
<1>23. Size!ParseSize(s.high, bits) =
         <<(s.width - 1 + 1) * Mb, (s.height - 1 + 1) * Mb * (IF s.frames = 0 THEN 2 ELSE 1)>>
  BY <1>18, <1>19, <1>20, <1>21, <1>22 DEF Size!ParseSize
<1>24. /\ (s.width - 1 + 1) * Mb = Mb * s.width
       /\ (s.height - 1 + 1) * Mb * (IF s.frames = 0 THEN 2 ELSE 1) = Mb * s.height * (2 - s.frames)
  <2>1. s.width \in Nat /\ s.height \in Nat /\ s.frames \in {0, 1}
    BY <1>0
  <2>2. s.width - 1 + 1 = s.width /\ s.height - 1 + 1 = s.height
    BY <2>1
  <2>3. s.width * Mb = Mb * s.width /\ s.height * Mb = Mb * s.height
    BY <2>1
  <2>4. (IF s.frames = 0 THEN 2 ELSE 1) = 2 - s.frames
    BY <2>1
  <2> QED BY <2>2, <2>3, <2>4
<1>25. Size!ParseSize(s.high, bits) = Size!CodedSize(s)
  BY <1>23, <1>24 DEF Size!CodedSize
<1> QED BY <1>5, <1>25 DEF bits

(* A set of eight bytes, with a first byte that is taken, is parsed. *)
LEMMA SizeParsed ==
  ASSUME NEW s, Fields(s), Size!ReadRight(s), Mb \in Nat
  PROVE  Size!ParseSPS(Size!FirstByte(s), s.high, Size!Encode(s)) = Size!CodedSize(s)
<1>1. s.high => FewLists(s)
  BY DEF Size!ReadRight, FewLists
<1>2. s.ref \in {1, 3} /\ Len(Size!Encode(s)) >= 8 * 4
  BY DEF Size!ReadRight
<1>3. Size!FirstByte(s) \in {103, 39}
  BY <1>2 DEF Size!FirstByte
<1>4. PICK l : l = Len(Size!Encode(s))
  OBVIOUS
<1>5. l \in Nat
  <2>1. Size!Encode(s) \in Seq(Bit)
    BY <1>1, SizeRead
  <2> QED BY <1>4, <2>1
<1>6. ~(4 + l \div 8 < 8)
  BY <1>2, <1>4, <1>5
<1>7. ~Size!Refused(Size!FirstByte(s), Size!Encode(s))
  BY <1>3, <1>4, <1>6 DEF Size!Refused
<1> QED BY <1>1, <1>7, SizeRead DEF Size!ParseSPS

(* The parameter sets of Sps. *)
LEMMA SpsFields == \A s \in Sps : Fields(s) /\ Mb \in Nat
<1> SUFFICES ASSUME NEW s \in Sps PROVE Fields(s) /\ Mb \in Nat
  OBVIOUS
<1>1. /\ s.ref \in 1..3 /\ s.high \in BOOLEAN /\ s.chroma \in 0..3
      /\ s.scaling \in {"none", "flat", "default"}
      /\ s.order \in 0..2 /\ s.offset \in -(2^30)..2^30
      /\ s.width \in 1..2^30 /\ s.height \in 1..2^30
      /\ s.frames \in {0, 1} /\ s.crop \in 0..2^30 /\ Mb \in Nat
  BY SpsAssumption, Zenon
<1>2. /\ s.chroma \in Nat /\ s.offset \in Int /\ s.width \in Nat \ {0}
      /\ s.height \in Nat \ {0} /\ s.crop \in Nat
  BY <1>1
<1> QED BY <1>1, <1>2 DEF Fields, Bit

(* Every parameter set that handleVideo parses gives the size of the coded *)
(* pictures, but for those that it refuses and those that have a scaling   *)
(* list or flags for twelve: SizeIsRead.                                   *)
THEOREM SizesAreRead == Size!Spec => []SizeIsRead
<1>1. Size!Init => Size!SizeIsRead
  BY DEF Size!Init, Size!SizeIsRead, Size!Read
<1>2. Size!SizeIsRead /\ [Size!Next]_(Size!vars) => Size!SizeIsRead'
  <2> SUFFICES ASSUME Size!SizeIsRead, [Size!Next]_(Size!vars) PROVE Size!SizeIsRead'
    OBVIOUS
  <2>1. CASE UNCHANGED Size!vars
    BY <2>1 DEF Size!SizeIsRead, Size!Read, Size!vars
  <2>2. CASE Size!Next
    <3>1. PICK s \in Sps :
            LET size == Size!ParseSPS(Size!FirstByte(s), s.high, Size!Encode(s))
            IN  /\ sps' = s
                /\ sameWidth' = (size[1] = screen[1])
                /\ screen' = IF size[1] # screen[1] THEN size ELSE screen
      BY <2>2 DEF Size!Next, Size!handleVideo
    <3> SUFFICES ASSUME Size!ReadRight(s)
                 PROVE  /\ screen'[1] = Size!CodedSize(s)[1]
                        /\ screen'[2] = Size!CodedSize(s)[2] \/ sameWidth'
      BY <3>1 DEF Size!SizeIsRead, Size!Read
    <3>2. PICK size : size = Size!ParseSPS(Size!FirstByte(s), s.high, Size!Encode(s))
      OBVIOUS
    <3>3. size = Size!CodedSize(s)
      BY <3>2, SizeParsed, SpsFields
    <3>4. /\ sameWidth' = (size[1] = screen[1])
          /\ screen' = IF size[1] # screen[1] THEN size ELSE screen
      BY <3>1, <3>2
    <3> QED BY <3>3, <3>4
  <2> QED BY <2>1, <2>2
<1> QED BY <1>1, <1>2, PTL DEF Size!Spec, SizeIsRead

-----------------------------------------------------------------------------
(* GoScrcpy with candidates.                                               *)

Socket == 1..MaxSockets

(* A peer connection, a client of the server and a message of socket s.    *)
PeerOf(s) == [state : {"none", "open", "offered", "stable", "closed"},
              answer : {0, s}, ice : SUBSET {s}, gathering : BOOLEAN]
ClientOf(s) == [accepted : BOOLEAN, remote : {0, s}, answering : {0, s},
                ice : SUBSET {s}, gathering : BOOLEAN]
Mine(s) == [type : {"offer", "answer", "ice-candidate"}, peer : {s}]
             \cup [type : {"touch", "key"}, action : {"down", "up"}]

(* f is a function on the sockets. *)
OfSockets(f) == f = [s \in Socket |-> f[s]]

(* The page: what is not closed or closing is the current socket, and what *)
(* is not closed is its peer connection. *)
OneSocket ==
  /\ ws \in 0..MaxSockets /\ pc \in {0, ws}
  /\ OfSockets(readyState)
  /\ \A s \in Socket : readyState[s] \in {"CONNECTING", "OPEN"} => s = ws

OnePeer ==
  /\ OfSockets(peers)
  /\ \A s \in Socket : /\ peers[s] \in PeerOf(s)
                       /\ peers[s].state \notin {"none", "closed"} => s = pc
                       /\ peers[s].gathering => peers[s].state # "none"

(* The server. *)
OneRemote ==
  /\ OfSockets(server)
  /\ \A s \in Socket : /\ server[s] \in ClientOf(s)
                       /\ server[s].gathering => server[s].remote # 0

(* The messages. *)
OwnMessages ==
  /\ OfSockets(toServer) /\ OfSockets(toPage)
  /\ \A s \in Socket : toServer[s] \in Seq(Mine(s)) /\ toPage[s] \in Seq(Mine(s))

(* Unless a socket was overwritten, all that belongs to it stays with it.  *)
Paired == OneSocket /\ OnePeer /\ OneRemote /\ OwnMessages

SignalInv == ~overwritten => Paired

(* The sockets and null. *)
LEMMA SocketFacts ==
  /\ MaxSockets \in Nat /\ 0 \in 0..MaxSockets
  /\ \A s \in Socket : s # 0 /\ s \in 0..MaxSockets
  /\ \A s \in 0..MaxSockets : s = 0 \/ s \in Socket
  /\ Signals!Socket = Socket
BY SocketsAssumption DEF Socket, Signals!Socket

(* A step that changes one peer connection. *)
LEMMA PeerStep ==
  ASSUME OnePeer, NEW s \in Socket, NEW p \in PeerOf(s), peers' = [peers EXCEPT ![s] = p],
         p.state \notin {"none", "closed"} => s = pc', p.gathering => p.state # "none",
         \A t \in Socket \ {s} : peers[t].state \notin {"none", "closed"} => t = pc'
  PROVE  OnePeer'
<1>1. /\ OfSockets(peers') /\ peers'[s] = p
      /\ \A t \in Socket \ {s} : peers'[t] = peers[t]
  BY DEF OnePeer, OfSockets
<1>2. ASSUME NEW t \in Socket
      PROVE  /\ peers'[t] \in PeerOf(t)
             /\ peers'[t].state \notin {"none", "closed"} => t = pc'
             /\ peers'[t].gathering => peers'[t].state # "none"
  <2>1. CASE t = s
    BY <1>1, <2>1
  <2>2. CASE t # s
    BY <1>1, <2>2 DEF OnePeer
  <2> QED BY <2>1, <2>2
<1> QED BY <1>1, <1>2 DEF OnePeer, OfSockets

(* ws.send puts a message on the current socket or drops it. *)
LEMMA SentFacts ==
  ASSUME OneSocket, OwnMessages, NEW m, ws \in Socket => m \in Mine(ws),
         toServer' = Signals!Sent(m), UNCHANGED toPage
  PROVE  OwnMessages'
<1>1. CASE toServer' = toServer
  BY <1>1 DEF OwnMessages, OfSockets
<1>2. CASE toServer' # toServer
  <2>1. ws \in Socket /\ toServer' = [toServer EXCEPT ![ws] = Append(@, m)]
    BY <1>2, SocketFacts DEF Signals!Sent, Signals!IsOpen, OneSocket
  <2>2. PICK s \in Socket : s = ws /\ m \in Mine(s)
    BY <2>1
  <2> DEFINE q == Append(toServer[s], m)
  <2>3. q \in Seq(Mine(s))
    BY <2>2, AppendProperties DEF OwnMessages
  <2>4. toServer' = [toServer EXCEPT ![s] = q]
    BY <2>1, <2>2
  <2> HIDE DEF q
  <2>5. /\ OfSockets(toServer') /\ toServer'[s] = q
        /\ \A t \in Socket \ {s} : toServer'[t] = toServer[t]
    BY <2>4 DEF OwnMessages, OfSockets
  <2>6. \A t \in Socket : toServer'[t] \in Seq(Mine(t))
    BY <2>3, <2>5 DEF OwnMessages
  <2> QED BY <2>5, <2>6 DEF OwnMessages, OfSockets
<1> QED BY <1>1, <1>2

(* cleanup leaves no socket open and no peer connection. *)
LEMMA CleanupFacts ==
  ASSUME OneSocket, OnePeer, NEW rs, OfSockets(rs),
         \A s \in Socket : rs[s] \in {"CONNECTING", "OPEN"} => s = ws,
         Signals!cleanup(rs)
  PROVE  OneSocket' /\ OnePeer' /\ UNCHANGED overwritten
<1>0. /\ pc' = 0 /\ ws' = 0 /\ UNCHANGED overwritten
      /\ peers' = IF pc = 0 THEN peers ELSE [peers EXCEPT ![pc] = Signals!closedPeer(@)]
      /\ readyState' = IF ws # 0 /\ rs[ws] \in {"CONNECTING", "OPEN"}
                       THEN [rs EXCEPT ![ws] = "CLOSING"] ELSE rs
  BY DEF Signals!cleanup
<1>1. OneSocket'
  <2>1. CASE ws # 0 /\ rs[ws] \in {"CONNECTING", "OPEN"}
    <3>1. ws \in Socket /\ readyState' = [rs EXCEPT ![ws] = "CLOSING"]
      BY <1>0, <2>1, SocketFacts DEF OneSocket
    <3>2. /\ OfSockets(readyState') /\ readyState'[ws] = "CLOSING"
          /\ \A t \in Socket \ {ws} : readyState'[t] = rs[t]
      BY <3>1 DEF OfSockets
    <3>3. \A t \in Socket : readyState'[t] \notin {"CONNECTING", "OPEN"}
      BY <3>2
    <3> QED BY <1>0, <3>2, <3>3, SocketFacts DEF OneSocket, OfSockets
  <2>2. CASE ~(ws # 0 /\ rs[ws] \in {"CONNECTING", "OPEN"})
    <3>1. readyState' = rs
      BY <1>0, <2>2
    <3>2. \A t \in Socket : readyState'[t] \notin {"CONNECTING", "OPEN"}
      BY <2>2, <3>1, SocketFacts
    <3> QED BY <1>0, <3>1, <3>2, SocketFacts DEF OneSocket, OfSockets
  <2> QED BY <2>1, <2>2
<1>2. OnePeer'
  <2>1. CASE pc = 0
    BY <1>0, <2>1 DEF OnePeer, OfSockets
  <2>2. CASE pc # 0
    <3>1. PICK s \in Socket : s = pc
      BY <2>2, SocketFacts DEF OneSocket
    <3> DEFINE q == peers[s]
               p == [q EXCEPT !.state = "closed"]
    <3>2. peers' = [peers EXCEPT ![s] = p]
      BY <1>0, <2>2, <3>1 DEF Signals!closedPeer
    <3>3. q \in PeerOf(s)
      BY DEF OnePeer
    <3> HIDE DEF q
    <3>4. p \in PeerOf(s) /\ p.state = "closed"
      BY <3>3 DEF PeerOf
    <3> HIDE DEF p
    <3>5. \A t \in Socket \ {s} : peers[t].state \in {"none", "closed"}
      BY <3>1 DEF OnePeer
    <3> QED BY <3>2, <3>4, <3>5, PeerStep
  <2> QED BY <2>1, <2>2
<1> QED BY <1>0, <1>1, <1>2

(* The messages are those of their socket. *)
LEMMA MessageFacts ==
  ASSUME NEW s \in Socket
  PROVE  /\ Signals!offer(s) \in Mine(s) /\ Signals!answer(s) \in Mine(s)
         /\ Signals!candidate(s) \in Mine(s)
         /\ \A what \in {"touch", "key"}, action \in {"down", "up"} :
              Signals!input(what, action) \in Mine(s)
BY DEF Signals!offer, Signals!answer, Signals!candidate, Signals!input, Mine

(* The page leaves the server alone. *)
LEMMA PagePart ==
  ASSUME OneRemote, UNCHANGED server
  PROVE  OneRemote'
BY DEF OneRemote, OfSockets

(* A step that sends and handles nothing. *)
LEMMA MessagesPart ==
  ASSUME OwnMessages, UNCHANGED <<toServer, toPage>>
  PROVE  OwnMessages'
BY DEF OwnMessages, OfSockets

(* The server leaves the page alone. *)
LEMMA ServerPart ==
  ASSUME OneSocket, OnePeer, UNCHANGED <<ws, pc, readyState, peers>>
  PROVE  OneSocket' /\ OnePeer'
BY DEF OneSocket, OnePeer, OfSockets

(* Connect replaces a closed socket, or sets overwritten. *)
LEMMA ConnectFits ==
  ASSUME Paired, ~overwritten', Signals!connect
  PROVE  Paired'
<1>1. PICK s \in Socket : ws' = s /\ readyState' = [readyState EXCEPT ![s] = "CONNECTING"]
  BY SocketFacts DEF Signals!connect
<1>2. /\ ws = 0 /\ UNCHANGED <<pc, peers, toServer, toPage, server>>
  BY DEF Signals!connect, Signals!serverVars
<1>3. /\ OfSockets(readyState') /\ readyState'[s] = "CONNECTING"
      /\ \A t \in Socket \ {s} : readyState'[t] = readyState[t]
  BY <1>1 DEF Paired, OneSocket, OfSockets
<1>4. OneSocket'
  BY <1>1, <1>2, <1>3, SocketFacts DEF Paired, OneSocket
<1>5. OnePeer'
  BY <1>2 DEF Paired, OnePeer, OfSockets
<1> QED BY <1>2, <1>4, <1>5, PagePart, MessagesPart DEF Paired

(* disconnect and onclose. *)
LEMMA CloseFits ==
  ASSUME Paired, Signals!disconnect \/ \E s \in Socket : Signals!onclose(s)
  PROVE  Paired'
<1>1. UNCHANGED <<toServer, toPage, server>>
  BY DEF Signals!disconnect, Signals!onclose, Signals!serverVars
<1>2. OneSocket' /\ OnePeer'
  <2>1. CASE Signals!disconnect
    <3>1. Signals!cleanup(readyState)
      BY <2>1 DEF Signals!disconnect
    <3>2. OfSockets(readyState) /\ \A s \in Socket : readyState[s] \in {"CONNECTING", "OPEN"} => s = ws
      BY DEF Paired, OneSocket
    <3> QED BY <3>1, <3>2, CleanupFacts DEF Paired
  <2>2. ASSUME NEW s \in Socket, Signals!onclose(s) PROVE OneSocket' /\ OnePeer'
    <3> DEFINE rs == [readyState EXCEPT ![s] = "CLOSED"]
    <3>1. Signals!cleanup(rs)
      BY <2>2 DEF Signals!onclose
    <3>2. OfSockets(rs) /\ rs[s] = "CLOSED" /\ \A t \in Socket \ {s} : rs[t] = readyState[t]
      BY DEF Paired, OneSocket, OfSockets
    <3> HIDE DEF rs
    <3>3. \A t \in Socket : rs[t] \in {"CONNECTING", "OPEN"} => t = ws
      BY <3>2 DEF Paired, OneSocket
    <3> QED BY <3>1, <3>2, <3>3, CleanupFacts DEF Paired
  <2> QED BY <2>1, <2>2
<1> QED BY <1>1, <1>2, PagePart, MessagesPart DEF Paired

(* Only the current socket opens, and creates the peer connection. *)
LEMMA OpenFits ==
  ASSUME Paired, NEW s \in Socket, Signals!onopen(s)
  PROVE  Paired'
<1> DEFINE q == peers[s]
           p == [q EXCEPT !.state = "open"]
<1>1. /\ readyState[s] = "CONNECTING" /\ readyState' = [readyState EXCEPT ![s] = "OPEN"]
      /\ pc' = s /\ peers' = [peers EXCEPT ![s] = p]
      /\ UNCHANGED <<ws, toServer, toPage, server>>
  BY DEF Signals!onopen, Signals!serverVars
<1>2. q \in PeerOf(s) /\ s = ws
  BY <1>1 DEF Paired, OnePeer, OneSocket
<1> HIDE DEF q
<1>3. p \in PeerOf(s) /\ p.state = "open"
  BY <1>2 DEF PeerOf
<1> HIDE DEF p
<1>4. /\ OfSockets(readyState') /\ readyState'[s] = "OPEN"
      /\ \A t \in Socket \ {s} : readyState'[t] = readyState[t]
  BY <1>1 DEF Paired, OneSocket, OfSockets
<1>5. OneSocket'
  BY <1>1, <1>2, <1>4 DEF Paired, OneSocket
<1>6. \A t \in Socket \ {s} : peers[t].state \in {"none", "closed"}
  BY <1>2, SocketFacts DEF Paired, OnePeer, OneSocket
<1>7. OnePeer'
  BY <1>1, <1>3, <1>6, PeerStep DEF Paired
<1> QED BY <1>1, <1>5, <1>7, PagePart, MessagesPart DEF Paired

(* A step that leaves ws, pc and the sockets alone. *)
LEMMA SocketPart ==
  ASSUME OneSocket, UNCHANGED <<ws, pc, readyState>>
  PROVE  OneSocket'
BY DEF OneSocket, OfSockets

(* setupWebRTC after its awaits, and the candidates of the page. *)
LEMMA OfferFits ==
  ASSUME Paired, NEW s \in Socket, Signals!OfferSent(s) \/ Signals!onicecandidate(s)
  PROVE  Paired'
<1> DEFINE q == peers[s]
<1>1. /\ peers[s].state \notin {"none", "closed"}
      /\ UNCHANGED <<ws, pc, readyState, toPage, server>>
  BY DEF Signals!OfferSent, Signals!onicecandidate, Signals!serverVars, Paired, OnePeer
<1>2. q \in PeerOf(s) /\ s = pc /\ s = ws
  BY <1>1, SocketFacts DEF Paired, OnePeer, OneSocket
<1>3. PICK r \in PeerOf(s) : /\ peers' = [peers EXCEPT ![s] = r]
                             /\ r.state \notin {"none", "closed"}
  <2>1. CASE Signals!OfferSent(s)
    <3> DEFINE r == [q EXCEPT !.state = "offered", !.gathering = TRUE]
    <3>1. peers' = [peers EXCEPT ![s] = r]
      BY <2>1, Zenon DEF Signals!OfferSent
    <3> HIDE DEF q
    <3>2. r \in PeerOf(s) /\ r.state = "offered"
      BY <1>2 DEF PeerOf
    <3> QED BY <3>1, <3>2
  <2>2. CASE Signals!onicecandidate(s)
    <3> DEFINE r == [q EXCEPT !.gathering = FALSE]
    <3>1. peers' = [peers EXCEPT ![s] = r]
      BY <2>2, Zenon DEF Signals!onicecandidate
    <3>2. q.state \notin {"none", "closed"}
      BY <1>1
    <3> HIDE DEF q
    <3>3. r \in PeerOf(s) /\ r.state = q.state
      BY <1>2 DEF PeerOf
    <3> QED BY <3>1, <3>2, <3>3
  <2> QED BY <2>1, <2>2
<1>4. OnePeer'
  BY <1>1, <1>2, <1>3, PeerStep DEF Paired, OnePeer
<1>5. PICK m \in Mine(s) : toServer' = Signals!Sent(m)
  BY MessageFacts DEF Signals!OfferSent, Signals!onicecandidate
<1>6. OwnMessages'
  BY <1>1, <1>2, <1>5, SentFacts DEF Paired
<1> QED BY <1>1, <1>4, <1>6, SocketPart, PagePart DEF Paired

(* Clicks and keys. *)
LEMMA InputFits ==
  ASSUME Paired, Signals!click \/ Signals!clickTimer \/ Signals!keydown \/ Signals!keyup
  PROVE  Paired'
<1>1. UNCHANGED <<ws, pc, readyState, peers, toPage, server>>
  BY DEF Signals!click, Signals!clickTimer, Signals!keydown, Signals!keyup,
         Signals!pageVars, Signals!serverVars
<1>2. PICK what \in {"touch", "key"}, action \in {"down", "up"} :
        toServer' = Signals!Sent(Signals!input(what, action))
  BY DEF Signals!click, Signals!clickTimer, Signals!keydown, Signals!keyup
<1>3. ws \in Socket => Signals!input(what, action) \in Mine(ws)
  BY MessageFacts
<1>4. OwnMessages'
  BY <1>1, <1>2, <1>3, SentFacts DEF Paired
<1> QED BY <1>1, <1>4, ServerPart, PagePart DEF Paired

(* A step that changes the messages of one socket. *)
LEMMA MessageStep ==
  ASSUME OwnMessages, NEW s \in Socket, NEW up \in Seq(Mine(s)), NEW dn \in Seq(Mine(s)),
         toServer' = [toServer EXCEPT ![s] = up], toPage' = [toPage EXCEPT ![s] = dn]
  PROVE  OwnMessages'
<1>1. /\ OfSockets(toServer') /\ toServer'[s] = up
      /\ \A t \in Socket \ {s} : toServer'[t] = toServer[t]
  BY DEF OwnMessages, OfSockets
<1>2. /\ OfSockets(toPage') /\ toPage'[s] = dn
      /\ \A t \in Socket \ {s} : toPage'[t] = toPage[t]
  BY DEF OwnMessages, OfSockets
<1>3. \A t \in Socket : toServer'[t] \in Seq(Mine(t)) /\ toPage'[t] \in Seq(Mine(t))
  BY <1>1, <1>2 DEF OwnMessages
<1> QED BY <1>1, <1>2, <1>3 DEF OwnMessages, OfSockets

(* The one where only one direction changes. *)
LEMMA OneWay ==
  ASSUME OwnMessages, NEW s \in Socket, NEW q \in Seq(Mine(s)),
         \/ toServer' = [toServer EXCEPT ![s] = q] /\ UNCHANGED toPage
         \/ toPage' = [toPage EXCEPT ![s] = q] /\ UNCHANGED toServer
  PROVE  OwnMessages'
<1>1. /\ toServer = [toServer EXCEPT ![s] = toServer[s]]
      /\ toPage = [toPage EXCEPT ![s] = toPage[s]]
  BY DEF OwnMessages, OfSockets
<1>2. toServer[s] \in Seq(Mine(s)) /\ toPage[s] \in Seq(Mine(s))
  BY DEF OwnMessages
<1>3. CASE toServer' = [toServer EXCEPT ![s] = q] /\ UNCHANGED toPage
  BY <1>1, <1>2, <1>3, MessageStep
<1>4. CASE toPage' = [toPage EXCEPT ![s] = q] /\ UNCHANGED toServer
  BY <1>1, <1>2, <1>4, MessageStep
<1> QED BY <1>3, <1>4

(* The first message of a socket. *)
LEMMA FirstMessage ==
  ASSUME NEW s \in Socket, NEW q \in Seq(Mine(s)), q # <<>>
  PROVE  /\ Head(q) \in Mine(s) /\ Tail(q) \in Seq(Mine(s))
         /\ Head(q).type \in {"offer", "answer", "ice-candidate"} => Head(q).peer = s
<1>1. Head(q) \in Mine(s) /\ Tail(q) \in Seq(Mine(s))
  BY HeadTailProperties
<1> QED BY <1>1 DEF Mine

(* handleMessage of the page: only the current socket is open. *)
LEMMA ReceiveFits ==
  ASSUME Paired, NEW s \in Socket, Signals!onmessage(s)
  PROVE  Paired'
<1> DEFINE m == Head(toPage[s])
           q == peers[s]
<1>1. /\ s = ws /\ UNCHANGED <<ws, pc, readyState, toServer, server>>
      /\ toPage[s] # <<>> /\ toPage' = [toPage EXCEPT ![s] = Tail(toPage[s])]
  BY DEF Signals!onmessage, Signals!serverVars, Paired, OneSocket
<1>2. /\ Tail(toPage[s]) \in Seq(Mine(s))
      /\ m.type \in {"answer", "ice-candidate"} => m.peer = s
  BY <1>1, FirstMessage DEF Paired, OwnMessages
<1>3. OwnMessages'
  BY <1>1, <1>2, OneWay DEF Paired
<1>4. OnePeer'
  <2>1. CASE UNCHANGED peers
    BY <1>1, <2>1 DEF Paired, OnePeer, OfSockets
  <2>2. CASE Signals!Takes(m) /\ m.type = "answer" /\ Signals!setRemoteDescription(m)
    <3>1. pc = s /\ m.peer = s /\ peers[s].state = "offered"
      BY <1>1, <1>2, <2>2 DEF Signals!Takes, Paired, OneSocket
    <3> DEFINE r == [q EXCEPT !.answer = s, !.state = "stable"]
    <3>2. peers' = [peers EXCEPT ![s] = r]
      BY <2>2, <3>1, Zenon DEF Signals!setRemoteDescription
    <3>3. q \in PeerOf(s)
      BY DEF Paired, OnePeer
    <3> HIDE DEF q
    <3>4. r \in PeerOf(s) /\ r.state = "stable"
      BY <3>3 DEF PeerOf
    <3> HIDE DEF r
    <3> QED BY <1>1, <3>1, <3>2, <3>4, PeerStep DEF Paired, OnePeer
  <2>3. CASE Signals!Takes(m) /\ m.type = "ice-candidate" /\ Signals!addIceCandidate(m)
    <3>1. pc = s /\ m.peer = s /\ peers[s].state = "stable"
      BY <1>1, <1>2, <2>3 DEF Signals!Takes, Paired, OneSocket
    <3> DEFINE ice == peers[s].ice \cup {s}
               r == [q EXCEPT !.ice = ice]
    <3>2. peers' = [peers EXCEPT ![s] = r]
      BY <2>3, <3>1, Zenon DEF Signals!addIceCandidate
    <3>3. q \in PeerOf(s) /\ ice \in SUBSET {s} /\ q.state = "stable"
      BY <3>1 DEF Paired, OnePeer, PeerOf
    <3> HIDE DEF q, ice
    <3>4. r \in PeerOf(s) /\ r.state = "stable"
      BY <3>3 DEF PeerOf
    <3> HIDE DEF r
    <3> QED BY <1>1, <3>1, <3>2, <3>4, PeerStep DEF Paired, OnePeer
  <2> QED BY <2>1, <2>2, <2>3 DEF Signals!onmessage
<1> QED BY <1>1, <1>3, <1>4, SocketPart, PagePart DEF Paired

(* A step that changes one client of the server. *)
LEMMA ClientStep ==
  ASSUME OneRemote, NEW s \in Socket, NEW c \in ClientOf(s), c.gathering => c.remote # 0,
         server' = [server EXCEPT ![s] = c]
  PROVE  OneRemote'
<1>1. /\ OfSockets(server') /\ server'[s] = c
      /\ \A t \in Socket \ {s} : server'[t] = server[t]
  BY DEF OneRemote, OfSockets
<1>2. ASSUME NEW t \in Socket
      PROVE  server'[t] \in ClientOf(t) /\ (server'[t].gathering => server'[t].remote # 0)
  <2>1. CASE t = s
    BY <1>1, <2>1
  <2>2. CASE t # s
    BY <1>1, <2>2 DEF OneRemote
  <2> QED BY <2>1, <2>2
<1> QED BY <1>1, <1>2 DEF OneRemote, OfSockets

(* handleMessage of the server. *)
LEMMA HandleFits ==
  ASSUME Paired, NEW s \in Socket, Signals!handleMessage(s)
  PROVE  Paired'
<1> DEFINE m == Head(toServer[s])
           q == server[s]
<1>1. /\ UNCHANGED <<ws, pc, readyState, peers, toPage>>
      /\ toServer[s] # <<>> /\ toServer' = [toServer EXCEPT ![s] = Tail(toServer[s])]
  BY DEF Signals!handleMessage, Signals!pageVars
<1>2. /\ Tail(toServer[s]) \in Seq(Mine(s))
      /\ m.type \in {"offer", "ice-candidate"} => m.peer = s
  BY <1>1, FirstMessage DEF Paired, OwnMessages
<1>3. OwnMessages'
  BY <1>1, <1>2, OneWay DEF Paired
<1>0. q \in ClientOf(s) /\ (q.gathering => q.remote # 0) /\ s # 0
  BY SocketFacts DEF Paired, OneRemote
<1>4. OneRemote'
  <2>1. CASE UNCHANGED server
    BY <2>1, PagePart DEF Paired
  <2>2. CASE /\ m.type = "offer"
             /\ server' = [server EXCEPT ![s].remote = m.peer, ![s].answering = m.peer,
                                         ![s].gathering = TRUE]
    <3> DEFINE c == [q EXCEPT !.remote = s, !.answering = s, !.gathering = TRUE]
    <3>1. m.peer = s
      BY <1>2, <2>2
    <3>2. server' = [server EXCEPT ![s] = c]
      BY <2>2, <3>1, Zenon
    <3> HIDE DEF q
    <3>3. c \in ClientOf(s) /\ c.remote = s
      BY <1>0 DEF ClientOf
    <3> HIDE DEF c
    <3> QED BY <1>0, <3>2, <3>3, ClientStep DEF Paired
  <2>3. CASE m.type = "ice-candidate" /\ server' = [server EXCEPT ![s].ice = @ \cup {m.peer}]
    <3> DEFINE ice == server[s].ice \cup {s}
               c == [q EXCEPT !.ice = ice]
    <3>1. m.peer = s
      BY <1>2, <2>3
    <3>2. server' = [server EXCEPT ![s] = c]
      BY <2>3, <3>1, Zenon
    <3>3. ice \in SUBSET {s}
      BY <1>0 DEF ClientOf
    <3> HIDE DEF q, ice
    <3>4. c \in ClientOf(s) /\ (c.gathering => c.remote # 0)
      BY <1>0, <3>3 DEF ClientOf
    <3> HIDE DEF c
    <3> QED BY <3>2, <3>4, ClientStep DEF Paired
  <2> QED BY <2>1, <2>2, <2>3 DEF Signals!handleMessage
<1> QED BY <1>1, <1>3, <1>4, ServerPart DEF Paired

(* The two goroutines that write to a page. *)
LEMMA WriteFits ==
  ASSUME Paired, NEW s \in Socket, Signals!WriteAnswer(s) \/ Signals!OnICECandidate(s)
  PROVE  Paired'
<1> DEFINE q == server[s]
<1>0. q \in ClientOf(s) /\ (q.gathering => q.remote # 0) /\ s # 0
  BY SocketFacts DEF Paired, OneRemote
<1>1. UNCHANGED <<ws, pc, readyState, peers, toServer>>
  BY DEF Signals!WriteAnswer, Signals!OnICECandidate, Signals!pageVars
<1>2. PICK m \in Mine(s) : toPage' = [toPage EXCEPT ![s] = Append(toPage[s], m)]
  <2>1. CASE Signals!WriteAnswer(s)
    <3>1. server[s].answering = s
      BY <1>0, <2>1 DEF Signals!WriteAnswer, ClientOf
    <3> QED BY <2>1, <3>1, MessageFacts DEF Signals!WriteAnswer
  <2>2. CASE Signals!OnICECandidate(s)
    <3>1. server[s].remote = s
      BY <1>0, <2>2 DEF Signals!OnICECandidate, ClientOf
    <3> QED BY <2>2, <3>1, MessageFacts DEF Signals!OnICECandidate
  <2> QED BY <2>1, <2>2
<1>3. OwnMessages'
  <2>1. Append(toPage[s], m) \in Seq(Mine(s))
    BY AppendProperties DEF Paired, OwnMessages
  <2> QED BY <1>1, <1>2, <2>1, OneWay DEF Paired
<1>4. OneRemote'
  <2>1. CASE Signals!WriteAnswer(s)
    <3> DEFINE c == [q EXCEPT !.answering = 0]
    <3>1. server' = [server EXCEPT ![s] = c]
      BY <2>1, Zenon DEF Signals!WriteAnswer
    <3> HIDE DEF q
    <3>2. c \in ClientOf(s) /\ (c.gathering => c.remote # 0)
      BY <1>0 DEF ClientOf
    <3> HIDE DEF c
    <3> QED BY <3>1, <3>2, ClientStep DEF Paired
  <2>2. CASE Signals!OnICECandidate(s)
    <3> DEFINE c == [q EXCEPT !.gathering = FALSE]
    <3>1. server' = [server EXCEPT ![s] = c]
      BY <2>2, Zenon DEF Signals!OnICECandidate
    <3> HIDE DEF q
    <3>2. c \in ClientOf(s) /\ ~c.gathering
      BY <1>0 DEF ClientOf
    <3> HIDE DEF c
    <3> QED BY <3>1, <3>2, ClientStep DEF Paired
  <2> QED BY <2>1, <2>2
<1> QED BY <1>1, <1>3, <1>4, ServerPart DEF Paired

(* A socket that is accepted, left or cut. *)
LEMMA AcceptFits ==
  ASSUME Paired, NEW s \in Socket,
         Signals!handleWebSocket(s) \/ Signals!Leave(s) \/ Signals!Cut(s)
  PROVE  Paired'
<1> DEFINE q == server[s]
<1>0. q \in ClientOf(s) /\ (q.gathering => q.remote # 0) /\ <<>> \in Seq(Mine(s))
  BY EmptySeq DEF Paired, OneRemote
<1>1. UNCHANGED <<ws, pc, readyState, peers>>
  BY DEF Signals!handleWebSocket, Signals!Leave, Signals!Cut, Signals!pageVars
<1>2. OwnMessages'
  <2>1. CASE Signals!handleWebSocket(s)
    BY <2>1, MessagesPart DEF Signals!handleWebSocket, Paired
  <2>2. CASE Signals!Leave(s)
    BY <1>0, <2>2, OneWay DEF Signals!Leave, Paired
  <2>3. CASE Signals!Cut(s)
    BY <1>0, <2>3, MessageStep DEF Signals!Cut, Paired
  <2> QED BY <2>1, <2>2, <2>3
<1>3. OneRemote'
  <2>1. CASE Signals!handleWebSocket(s)
    <3> DEFINE c == [q EXCEPT !.accepted = TRUE]
    <3>1. server' = [server EXCEPT ![s] = c]
      BY <2>1, Zenon DEF Signals!handleWebSocket
    <3> HIDE DEF q
    <3>2. c \in ClientOf(s) /\ (c.gathering => c.remote # 0)
      BY <1>0 DEF ClientOf
    <3> HIDE DEF c
    <3> QED BY <3>1, <3>2, ClientStep DEF Paired
  <2>2. CASE Signals!Leave(s)
    BY <2>2, PagePart DEF Signals!Leave, Paired
  <2>3. CASE Signals!Cut(s)
    <3> DEFINE c == [q EXCEPT !.answering = 0]
    <3>1. server' = [server EXCEPT ![s] = c]
      BY <2>3, Zenon DEF Signals!Cut
    <3> HIDE DEF q
    <3>2. c \in ClientOf(s) /\ (c.gathering => c.remote # 0)
      BY <1>0 DEF ClientOf
    <3> HIDE DEF c
    <3> QED BY <3>1, <3>2, ClientStep DEF Paired
  <2> QED BY <2>1, <2>2, <2>3
<1> QED BY <1>1, <1>2, <1>3, ServerPart DEF Paired

(* A server without clients, as at the start and after a panic. *)
LEMMA FreshServer ==
  /\ \A s \in Socket : /\ Signals!NoClient \in ClientOf(s)
                       /\ <<>> \in Seq(Mine(s))
  /\ ~Signals!NoClient.gathering
BY EmptySeq DEF Signals!NoClient, ClientOf

(* A panic leaves no client and no message. *)
LEMMA PanicFits ==
  ASSUME Paired, Signals!Panic
  PROVE  Paired'
<1>1. /\ UNCHANGED <<ws, pc, readyState, peers>>
      /\ server' = [s \in Socket |-> Signals!NoClient]
      /\ toServer' = [s \in Socket |-> <<>>] /\ toPage' = [s \in Socket |-> <<>>]
  BY SocketFacts DEF Signals!Panic, Signals!pageVars
<1>2. OneRemote'
  BY <1>1, FreshServer DEF OneRemote, OfSockets
<1>3. OwnMessages'
  BY <1>1, FreshServer DEF OwnMessages, OfSockets
<1> QED BY <1>1, <1>2, <1>3, ServerPart DEF Paired

(* The initial states. *)
LEMMA SignalsInit == Signals!Init => SignalInv
<1> SUFFICES ASSUME Signals!Init PROVE Paired
  BY DEF SignalInv
<1>1. /\ ws = 0 /\ pc = 0 /\ readyState = [s \in Socket |-> "none"]
      /\ peers = [s \in Socket |-> Signals!NoPeer]
      /\ server = [s \in Socket |-> Signals!NoClient]
      /\ toServer = [s \in Socket |-> <<>>] /\ toPage = [s \in Socket |-> <<>>]
  BY SocketFacts DEF Signals!Init
<1>2. OneSocket
  BY <1>1, SocketFacts DEF OneSocket, OfSockets
<1>3. OnePeer
  <2>1. /\ \A s \in Socket : Signals!NoPeer \in PeerOf(s)
        /\ Signals!NoPeer.state = "none" /\ ~Signals!NoPeer.gathering
    BY DEF Signals!NoPeer, PeerOf
  <2> QED BY <1>1, <2>1 DEF OnePeer, OfSockets
<1>4. OneRemote
  BY <1>1, FreshServer DEF OneRemote, OfSockets
<1>5. OwnMessages
  BY <1>1, FreshServer DEF OwnMessages, OfSockets
<1> QED BY <1>2, <1>3, <1>4, <1>5 DEF Paired

(* Every step keeps the invariant, and overwritten stays true. *)
LEMMA SignalsNext == SignalInv /\ [Signals!Next]_(Signals!vars) => SignalInv'
<1> SUFFICES ASSUME SignalInv, [Signals!Next]_(Signals!vars), ~overwritten' PROVE Paired'
  BY DEF SignalInv
<1>1. ~overwritten
  BY Zenon DEF Signals!Next, Signals!vars, Signals!connect, Signals!disconnect,
         Signals!onconnectionstatechange, Signals!click, Signals!clickTimer, Signals!keydown,
         Signals!keyup, Signals!onopen, Signals!OfferCreated, Signals!OfferSent,
         Signals!onicecandidate, Signals!onmessage, Signals!onclose, Signals!handleWebSocket,
         Signals!handleMessage, Signals!WriteAnswer, Signals!OnICECandidate, Signals!Leave,
         Signals!Cut, Signals!Panic, Signals!startControlListener, Signals!cleanup,
         Signals!pageVars
<1>2. Paired
  BY <1>1 DEF SignalInv
<1>3. CASE Signals!connect \/ Signals!disconnect \/ \E s \in Socket : Signals!onclose(s)
  BY <1>2, <1>3, ConnectFits, CloseFits
<1>4. CASE \/ Signals!onconnectionstatechange \/ Signals!startControlListener
           \/ \E s \in Socket : Signals!OfferCreated(s)
           \/ UNCHANGED Signals!vars
  <2>1. UNCHANGED <<ws, pc, readyState, peers, toServer, toPage, server>>
    BY <1>4 DEF Signals!onconnectionstatechange, Signals!startControlListener,
                Signals!OfferCreated, Signals!vars, Signals!pageVars, Signals!serverVars
  <2> QED BY <1>2, <2>1, ServerPart, PagePart, MessagesPart DEF Paired
<1>5. CASE Signals!click \/ Signals!clickTimer \/ Signals!keydown \/ Signals!keyup
  BY <1>2, <1>5, InputFits
<1>6. ASSUME NEW s \in Socket,
             \/ Signals!onopen(s) \/ Signals!OfferSent(s) \/ Signals!onicecandidate(s)
             \/ Signals!onmessage(s)
      PROVE  Paired'
  BY <1>2, <1>6, OpenFits, OfferFits, ReceiveFits
<1>7. ASSUME NEW s \in Socket,
             \/ Signals!handleWebSocket(s) \/ Signals!handleMessage(s) \/ Signals!WriteAnswer(s)
             \/ Signals!OnICECandidate(s) \/ Signals!Leave(s) \/ Signals!Cut(s)
      PROVE  Paired'
  BY <1>2, <1>7, HandleFits, WriteFits, AcceptFits
<1>8. CASE Signals!Panic
  BY <1>2, <1>8, PanicFits
<1> QED BY <1>3, <1>4, <1>5, <1>6, <1>7, <1>8, SocketFacts DEF Signals!Next

(* SignalsFit of GoScrcpy, for every number of sockets: answers and        *)
(* candidates reach the peer connection they are for, at both ends, unless *)
(* connect has replaced a socket that was not closed.                      *)
THEOREM SignalsArrive == Signals!Spec => []SignalsFit
<1>1. Signals!Init => SignalInv
  BY SignalsInit
<1>2. SignalInv /\ [Signals!Next]_(Signals!vars) => SignalInv'
  BY SignalsNext
<1>3. SignalInv => SignalsFit
  BY SocketFacts DEF SignalInv, Paired, OnePeer, OneRemote, PeerOf, ClientOf, SignalsFit,
                     Signals!SignalsFit
<1> QED BY <1>1, <1>2, <1>3, PTL DEF Signals!Spec

-----------------------------------------------------------------------------
(* Sequences: what is in them, and what comes after what.                  *)

(* q holds a member of U. *)
Holds(q, U) == \E i \in 1..Len(q) : q[i] \in U

(* Every d in q has a member of U after it. *)
Answered(q, d, U) ==
  \A i \in 1..Len(q) : q[i] = d => \E j \in 1..Len(q) : j > i /\ q[j] \in U

(* What comes to the end of a sequence. *)
LEMMA AtTheEnd ==
  ASSUME NEW S, NEW q \in Seq(S), NEW m, NEW d, NEW U
  PROVE  /\ Holds(q, U) \/ m \in U => Holds(Append(q, m), U)
         /\ m # d /\ Answered(q, d, U) => Answered(Append(q, m), d, U)
         /\ m # d /\ m \in U => Answered(Append(q, m), d, U)
<1>0. /\ Len(q) \in Nat /\ Len(Append(q, m)) = Len(q) + 1
      /\ Append(q, m)[Len(q) + 1] = m
      /\ \A i \in 1..Len(q) : Append(q, m)[i] = q[i]
  OBVIOUS
<1> DEFINE r == Append(q, m)
<1>1. Holds(q, U) \/ m \in U => Holds(r, U)
  BY <1>0 DEF Holds
<1>2. \A i \in 1..Len(r) : i \in 1..Len(q) \/ i = Len(q) + 1
  BY <1>0
<1>3. m # d /\ Answered(q, d, U) => Answered(r, d, U)
  BY <1>0, <1>2 DEF Answered
<1>4. m # d /\ m \in U => Answered(r, d, U)
  BY <1>0, <1>2 DEF Answered
<1> QED BY <1>1, <1>3, <1>4

(* What is taken from its front. *)
LEMMA FromTheFront ==
  ASSUME NEW S, NEW q \in Seq(S), q # <<>>, NEW d, NEW U
  PROVE  /\ Head(q) \in S /\ Tail(q) \in Seq(S)
         /\ Holds(q, U) /\ Head(q) \notin U => Holds(Tail(q), U)
         /\ Answered(q, d, U) => Answered(Tail(q), d, U)
         /\ Answered(q, d, U) /\ Head(q) = d => Holds(Tail(q), U)
<1> DEFINE r == Tail(q)
<1>0. /\ Len(q) \in Nat \ {0} /\ Len(r) = Len(q) - 1 /\ Head(q) = q[1]
      /\ \A i \in 1..Len(r) : r[i] = q[i + 1]
      /\ Head(q) \in S /\ r \in Seq(S)
  OBVIOUS
<1>1. \A i \in 1..Len(q) : i > 1 => i - 1 \in 1..Len(r) /\ r[i - 1] = q[i]
  BY <1>0
<1>2. Holds(q, U) /\ Head(q) \notin U => Holds(r, U)
  BY <1>0, <1>1 DEF Holds
<1>3. ASSUME Answered(q, d, U) PROVE Answered(r, d, U)
  <2> SUFFICES ASSUME NEW i \in 1..Len(r), r[i] = d
               PROVE  \E j \in 1..Len(r) : j > i /\ r[j] \in U
    BY DEF Answered
  <2>1. i + 1 \in 1..Len(q) /\ q[i + 1] = d
    BY <1>0
  <2>2. PICK j \in 1..Len(q) : j > i + 1 /\ q[j] \in U
    BY <1>3, <2>1 DEF Answered
  <2>3. j - 1 \in 1..Len(r) /\ j - 1 > i /\ r[j - 1] \in U
    BY <1>0, <1>1, <2>2
  <2> QED BY <2>3
<1>4. ASSUME Answered(q, d, U), Head(q) = d PROVE Holds(r, U)
  <2>1. PICK j \in 1..Len(q) : j > 1 /\ q[j] \in U
    BY <1>0, <1>4 DEF Answered
  <2> QED BY <1>1, <2>1 DEF Holds
<1> QED BY <1>0, <1>2, <1>3, <1>4

-----------------------------------------------------------------------------
(* GoScrcpy with input.                                                    *)

Kinds == {"touch", "key"}
Msg == [type : {"offer", "ice-candidate"}, peer : 1..MaxSockets]
         \cup [type : Kinds, action : {"down", "up"}]

InputTypes ==
  /\ ws \in 0..MaxSockets
  /\ clicks \in Seq(1..MaxSockets) /\ typing \in 0..MaxSockets
  /\ toServer \in [1..MaxSockets -> Seq(Msg)]
  /\ clients \subseteq 1..MaxSockets /\ down \subseteq Kinds
  /\ \A s \in 1..MaxSockets : s \notin clients => toServer[s] = <<>>

(* Messages q: after each DOWN of what comes an UP; an UP of what comes.   *)
Covered(q, what) == Answered(q, Inputs!input(what, "down"), {Inputs!input(what, "up")})
Lifts(q, what) == Holds(q, {Inputs!input(what, "up")})

(* The UP of what was pressed on socket s is still to come. *)
Due(s, what) == \/ what = "touch" /\ Holds(clicks, {s})
                \/ what = "key" /\ typing = s

(* Without scrcpy nothing was injected. *)
NothingDown == ~controlConn => down = {}

(* Each DOWN on its way has its UP behind it, on its way or due, and so has*)
(* what the device holds down.                                             *)
UpsCome ==
  \A what \in Kinds :
    /\ \A s \in 1..MaxSockets :
         Due(s, what) \/ Covered(toServer[s], what)
    /\ what \in down =>
         \E s \in 1..MaxSockets : Due(s, what) \/ Lifts(toServer[s], what)

InputInv == InputTypes /\ (~strayed => NothingDown /\ UpsCome)


(* The messages of input, and when nothing of it changes.                  *)
LEMMA InputFacts ==
  /\ \A s \in 1..MaxSockets : Inputs!offer(s) \in Msg /\ Inputs!candidate(s) \in Msg
  /\ \A what \in Kinds, a \in {"down", "up"} : Inputs!input(what, a) \in Msg
  /\ \A what \in Kinds, s \in 1..MaxSockets, a \in {"down", "up"} :
       Inputs!offer(s) # Inputs!input(what, a) /\ Inputs!candidate(s) # Inputs!input(what, a)
  /\ \A v, w \in Kinds, a, b \in {"down", "up"} :
       Inputs!input(v, a) = Inputs!input(w, b) => v = w /\ a = b
  /\ \A m \in Msg : m.type \in Kinds => /\ m = Inputs!input(m.type, m.action)
                                        /\ m.action \in {"down", "up"}
<1> USE DEF Inputs!offer, Inputs!candidate, Inputs!input, Msg, Kinds
<1>1. \A s \in 1..MaxSockets : Inputs!offer(s) \in Msg /\ Inputs!candidate(s) \in Msg
  OBVIOUS
<1>2. \A what \in Kinds, a \in {"down", "up"} : Inputs!input(what, a) \in Msg
  OBVIOUS
<1>3. \A what \in Kinds, s \in 1..MaxSockets, a \in {"down", "up"} :
        Inputs!offer(s).type # Inputs!input(what, a).type
        /\ Inputs!candidate(s).type # Inputs!input(what, a).type
  OBVIOUS
<1>4. \A v \in Kinds, a \in {"down", "up"} : Inputs!input(v, a).type = v /\ Inputs!input(v, a).action = a
  OBVIOUS
<1>5. \A m \in Msg : m.type \in Kinds => /\ m = Inputs!input(m.type, m.action)
                                        /\ m.action \in {"down", "up"}
  OBVIOUS
<1> HIDE DEF Inputs!offer, Inputs!candidate, Inputs!input, Msg, Kinds
<1> QED BY <1>1, <1>2, <1>3, <1>4, <1>5

(* A message that is no DOWN of what is sent. *)
LEMMA NextMessage ==
  ASSUME NEW q \in Seq(Msg), NEW m \in Msg, NEW what \in Kinds, m # Inputs!input(what, "down")
  PROVE  /\ Covered(q, what) => Covered(Append(q, m), what)
         /\ m = Inputs!input(what, "up") =>
              Covered(Append(q, m), what) /\ Lifts(Append(q, m), what)
<1> DEFINE d == Inputs!input(what, "down")  U == {Inputs!input(what, "up")}
<1>1. /\ Holds(q, U) \/ m \in U => Holds(Append(q, m), U)
      /\ m # d /\ Answered(q, d, U) => Answered(Append(q, m), d, U)
      /\ m # d /\ m \in U => Answered(Append(q, m), d, U)
  <2> HIDE DEF d, U
  <2> QED BY AtTheEnd
<1> QED BY <1>1 DEF Covered, Lifts

(* An UP on its way stays there when a message is sent. *)
LEMMA LiftsNext ==
  ASSUME NEW q \in Seq(Msg), NEW m \in Msg, NEW what \in Kinds
  PROVE  Lifts(q, what) => Lifts(Append(q, m), what)
<1> DEFINE U == {Inputs!input(what, "up")}
<1>1. Holds(q, U) => Holds(Append(q, m), U)
  <2> HIDE DEF U
  <2> QED BY AtTheEnd
<1> QED BY <1>1 DEF Lifts

(* No message, timer or key moves. *)
LEMMA Still ==
  ASSUME UpsCome, UNCHANGED <<clicks, typing, toServer, down>>
  PROVE  UpsCome'
BY DEF UpsCome, Due

(* The handlers of the page that send nothing, and what touches a socket   *)
(* at the server but not its messages.                                     *)
LEMMA RestLifts ==
  ASSUME InputInv,
         \/ Inputs!connect \/ Inputs!disconnect \/ Inputs!onconnectionstatechange
         \/ \E s \in Inputs!Socket :
              \/ Inputs!onopen(s) \/ Inputs!OfferCreated(s) \/ Inputs!onmessage(s)
              \/ Inputs!onclose(s) \/ Inputs!handleWebSocket(s) \/ Inputs!WriteAnswer(s)
              \/ Inputs!OnICECandidate(s) \/ Inputs!Leave(s)
         \/ Inputs!startControlListener
  PROVE  InputInv'
<1>1. UNCHANGED <<clicks, typing, toServer, down, strayed>>
  BY DEF Inputs!connect, Inputs!disconnect, Inputs!onconnectionstatechange, Inputs!onopen,
         Inputs!OfferCreated, Inputs!onmessage, Inputs!onclose, Inputs!handleWebSocket,
         Inputs!WriteAnswer, Inputs!OnICECandidate, Inputs!Leave, Inputs!startControlListener,
         Inputs!userVars, Inputs!deviceVars
<1>2. ws' \in 0..MaxSockets
  BY SocketsAssumption
     DEF Inputs!connect, Inputs!disconnect, Inputs!onconnectionstatechange, Inputs!onopen,
         Inputs!OfferCreated, Inputs!onmessage, Inputs!onclose, Inputs!handleWebSocket,
         Inputs!WriteAnswer, Inputs!OnICECandidate, Inputs!Leave, Inputs!startControlListener,
         Inputs!pageVars, Inputs!cleanup, Inputs!Socket, InputInv, InputTypes
<1>3. /\ clients' \subseteq 1..MaxSockets
      /\ \A s \in 1..MaxSockets : s \notin clients' => toServer[s] = <<>>
  BY Zenon DEF Inputs!connect, Inputs!disconnect, Inputs!onconnectionstatechange, Inputs!onopen,
         Inputs!OfferCreated, Inputs!onmessage, Inputs!onclose, Inputs!handleWebSocket,
         Inputs!WriteAnswer, Inputs!OnICECandidate, Inputs!Leave, Inputs!startControlListener,
         Inputs!serverVars, Inputs!Socket, InputInv, InputTypes
<1>4. ~controlConn' => ~controlConn
  BY DEF Inputs!connect, Inputs!disconnect, Inputs!onconnectionstatechange, Inputs!onopen,
         Inputs!OfferCreated, Inputs!onmessage, Inputs!onclose, Inputs!handleWebSocket,
         Inputs!WriteAnswer, Inputs!OnICECandidate, Inputs!Leave, Inputs!startControlListener,
         Inputs!deviceVars
<1>5. InputTypes'
  BY <1>1, <1>2, <1>3, <1>4 DEF InputInv, InputTypes
<1> QED BY <1>1, <1>4, <1>5, Still DEF InputInv, NothingDown

(* A message is sent on the socket in ws, or by nobody.                    *)
LEMMA SendTypes ==
  ASSUME InputTypes, NEW m \in Msg
  PROVE  /\ Inputs!Sent(m) \in [1..MaxSockets -> Seq(Msg)]
         /\ \A s \in 1..MaxSockets : s \notin clients => Inputs!Sent(m)[s] = <<>>
         /\ \A s \in 1..MaxSockets :
              \/ Inputs!Sent(m)[s] = toServer[s] /\ ~(s = ws /\ Inputs!IsOpen /\ ws \in clients)
              \/ Inputs!Sent(m)[s] = Append(toServer[s], m) /\ s = ws
<1>1. CASE Inputs!IsOpen /\ ws \in clients
  <2>1. Inputs!Sent(m) = [toServer EXCEPT ![ws] = Append(@, m)] /\ ws \in 1..MaxSockets
    BY <1>1 DEF Inputs!Sent, InputTypes
  <2> QED BY <2>1, <1>1 DEF InputTypes
<1>2. CASE ~(Inputs!IsOpen /\ ws \in clients)
  <2>1. Inputs!Sent(m) = toServer
    BY <1>2 DEF Inputs!Sent
  <2> QED BY <2>1, <1>2 DEF InputTypes
<1> QED BY <1>1, <1>2

(* An offer or a candidate is sent among the input.                        *)
LEMMA SignalLifts ==
  ASSUME InputInv, NEW r \in Inputs!Socket, Inputs!OfferSent(r) \/ Inputs!onicecandidate(r)
  PROVE  InputInv'
<1>0. PICK m \in {Inputs!offer(r), Inputs!candidate(r)} : toServer' = Inputs!Sent(m)
  BY DEF Inputs!OfferSent, Inputs!onicecandidate
<1>1. /\ m \in Msg
      /\ \A what \in Kinds, a \in {"down", "up"} : m # Inputs!input(what, a)
  BY InputFacts DEF Inputs!Socket
<1>2. UNCHANGED <<ws, clicks, typing, clients, down, controlConn, strayed>>
  BY DEF Inputs!OfferSent, Inputs!onicecandidate, Inputs!userVars, Inputs!serverVars,
         Inputs!deviceVars
<1>3. InputTypes'
  BY <1>0, <1>1, <1>2, SendTypes DEF InputInv, InputTypes
<1>4. ASSUME UpsCome PROVE UpsCome'
  <2> SUFFICES ASSUME NEW what \in Kinds
               PROVE  /\ \A s \in 1..MaxSockets :
                           Due(s, what) \/ Covered(toServer'[s], what)
                      /\ what \in down =>
                           \E s \in 1..MaxSockets : Due(s, what) \/ Lifts(toServer'[s], what)
    BY <1>2 DEF UpsCome, Due
  <2>1. \A s \in 1..MaxSockets : toServer[s] \in Seq(Msg) /\ (toServer'[s] = toServer[s] \/ toServer'[s] = Append(toServer[s], m))
    BY <1>0, <1>1, SendTypes DEF InputInv, InputTypes
  <2>2. \A s \in 1..MaxSockets :
          /\ Covered(toServer[s], what)
              => Covered(toServer'[s], what)
          /\ Lifts(toServer[s], what) => Lifts(toServer'[s], what)
    <3> TAKE s \in 1..MaxSockets
    <3>1. CASE toServer'[s] = toServer[s]
      BY <3>1
    <3>2. CASE toServer'[s] = Append(toServer[s], m)
      <4>1. m # Inputs!input(what, "down") /\ toServer[s] \in Seq(Msg)
        BY <1>1, <2>1
      <4> QED BY <1>1, <3>2, <4>1, NextMessage, LiftsNext
    <3> QED BY <2>1, <3>1, <3>2
  <2> QED BY <2>2, <1>4 DEF UpsCome
<1> QED BY <1>2, <1>3, <1>4 DEF InputInv, NothingDown

(* A DOWN is sent, and its UP is due on the socket that takes it. *)
LEMMA PressLifts ==
  ASSUME InputInv, NEW what \in Kinds, Inputs!IsOpen,
         toServer' = Inputs!Sent(Inputs!input(what, "down")), Due(ws, what)',
         \A s \in 1..MaxSockets, w \in Kinds : Due(s, w) => Due(s, w)',
         clicks' \in Seq(1..MaxSockets), typing' \in 0..MaxSockets,
         UNCHANGED <<ws, clients, down, controlConn, strayed>>
  PROVE  InputInv'
<1> DEFINE m == Inputs!input(what, "down")
<1>1. m \in Msg /\ \A w \in Kinds : m = Inputs!input(w, "down") => w = what
  BY InputFacts
<1>2. InputTypes'
  BY <1>1, SendTypes DEF InputInv, InputTypes
<1>3. ASSUME UpsCome PROVE UpsCome'
  <2> SUFFICES ASSUME NEW w \in Kinds
               PROVE  /\ \A s \in 1..MaxSockets :
                           Due(s, w)' \/ Covered(toServer'[s], w)
                      /\ w \in down =>
                           \E s \in 1..MaxSockets : Due(s, w)' \/ Lifts(toServer'[s], w)
    BY DEF UpsCome
  <2>1. \A s \in 1..MaxSockets :
          toServer[s] \in Seq(Msg) /\ (toServer'[s] = toServer[s] \/ (toServer'[s] = Append(toServer[s], m) /\ s = ws))
    BY <1>1, SendTypes DEF InputInv, InputTypes
  <2>2. \A s \in 1..MaxSockets :
          /\ Due(s, w) \/ Covered(toServer[s], w)
              => Due(s, w)' \/ Covered(toServer'[s], w)
          /\ Lifts(toServer[s], w) => Lifts(toServer'[s], w)
    <3> TAKE s \in 1..MaxSockets
    <3>1. CASE toServer'[s] = toServer[s]
      BY <3>1
    <3>2. CASE toServer'[s] = Append(toServer[s], m) /\ s = ws
      <4>1. Lifts(toServer[s], w) => Lifts(toServer'[s], w)
        BY <1>1, <2>1, <3>2, LiftsNext
      <4>2. w = what => Due(s, w)'
        BY <3>2
      <4>3. ASSUME w # what, Covered(toServer[s], w)
            PROVE  Covered(toServer'[s], w)
        <5>1. m # Inputs!input(w, "down") /\ toServer[s] \in Seq(Msg)
          BY <1>1, <2>1, <4>3
        <5> QED BY <1>1, <3>2, <4>3, <5>1, NextMessage
      <4> QED BY <4>1, <4>2, <4>3
    <3> QED BY <2>1, <3>1, <3>2
  <2> QED BY <2>2, <1>3 DEF UpsCome
<1> QED BY <1>2, <1>3 DEF InputInv, NothingDown

(* An UP is sent on the socket of its DOWN, or strays.                     *)
LEMMA ReleaseLifts ==
  ASSUME InputInv, NEW what \in Kinds, NEW h \in 1..MaxSockets,
         toServer' = Inputs!Sent(Inputs!input(what, "up")),
         strayed' = (strayed \/ Inputs!Astray(h)),
         \A s \in 1..MaxSockets, w \in Kinds : Due(s, w) => Due(s, w)' \/ (s = h /\ w = what),
         clicks' \in Seq(1..MaxSockets), typing' \in 0..MaxSockets,
         UNCHANGED <<ws, clients, down, controlConn>>
  PROVE  InputInv'
<1>0. PICK m : m = Inputs!input(what, "up")
  OBVIOUS
<1>1. m \in Msg /\ \A w \in Kinds : m # Inputs!input(w, "down")
  BY <1>0, InputFacts
<1>2. InputTypes'
  BY <1>0, <1>1, SendTypes DEF InputInv, InputTypes
<1>3. ASSUME UpsCome, ~strayed' PROVE UpsCome'
  <2> SUFFICES ASSUME NEW w \in Kinds
               PROVE  /\ \A s \in 1..MaxSockets :
                           Due(s, w)' \/ Covered(toServer'[s], w)
                      /\ w \in down =>
                           \E s \in 1..MaxSockets : Due(s, w)' \/ Lifts(toServer'[s], w)
    BY DEF UpsCome
  <2>1. \A s \in 1..MaxSockets :
          toServer[s] \in Seq(Msg) /\ (toServer'[s] = toServer[s] \/ toServer'[s] = Append(toServer[s], m))
    BY <1>0, <1>1, SendTypes DEF InputInv, InputTypes
  <2>2. \A s \in 1..MaxSockets :
          /\ Covered(toServer[s], w)
              => Covered(toServer'[s], w)
          /\ Lifts(toServer[s], w) => Lifts(toServer'[s], w)
    <3> TAKE s \in 1..MaxSockets
    <3>1. CASE toServer'[s] = toServer[s]
      BY <3>1
    <3>2. CASE toServer'[s] = Append(toServer[s], m)
      <4>1. m # Inputs!input(w, "down") /\ toServer[s] \in Seq(Msg)
        BY <1>1, <2>1
      <4>2. Lifts(toServer[s], w) => Lifts(Append(toServer[s], m), w)
        BY <1>1, <4>1, LiftsNext
      <4>3. Covered(toServer[s], w) => Covered(Append(toServer[s], m), w)
        BY <1>1, <4>1, NextMessage
      <4> QED BY <3>2, <4>2, <4>3
    <3> QED BY <2>1, <3>1, <3>2
  <2>3. Lifts(toServer'[h], what) /\ Covered(toServer'[h], what)
    <3>1. toServer'[h] = Append(toServer[h], m)
      BY <1>0, <1>1, <1>3, SendTypes DEF Inputs!Astray, InputInv
    <3>2. m # Inputs!input(what, "down") /\ toServer[h] \in Seq(Msg)
      BY <1>1, <2>1
    <3>3. Lifts(Append(toServer[h], m), what) /\ Covered(Append(toServer[h], m), what)
      BY <1>0, <1>1, <3>2, NextMessage
    <3> QED BY <3>1, <3>3
  <2>4. ASSUME NEW s \in 1..MaxSockets
        PROVE  Due(s, w)' \/ Covered(toServer'[s], w)
    BY <2>2, <2>3, <1>3 DEF UpsCome
  <2>5. ASSUME w \in down
        PROVE  \E s \in 1..MaxSockets : Due(s, w)' \/ Lifts(toServer'[s], w)
    <3>1. PICK s \in 1..MaxSockets : Due(s, w) \/ Lifts(toServer[s], w)
      BY <1>3, <2>5 DEF UpsCome
    <3> QED BY <2>2, <2>3, <3>1
  <2> QED BY <2>4, <2>5
<1> QED BY <1>2, <1>3 DEF InputInv, NothingDown

(* What the user does. *)
LEMMA UserLifts ==
  ASSUME InputInv, \/ Inputs!click \/ Inputs!clickTimer \/ Inputs!keydown \/ Inputs!keyup
  PROVE  InputInv'
<1>0. "touch" \in Kinds /\ "key" \in Kinds /\ clicks \in Seq(1..MaxSockets)
  BY DEF Kinds, InputInv, InputTypes
<1>1. CASE Inputs!click
  <2>1. /\ UNCHANGED <<ws, clients, down, controlConn, strayed, typing>>
        /\ clicks' = Append(clicks, ws) /\ ws \in 1..MaxSockets /\ Inputs!IsOpen
        /\ toServer' = Inputs!Sent(Inputs!input("touch", "down"))
    BY <1>1 DEF Inputs!click, Inputs!pageVars, Inputs!serverVars, Inputs!deviceVars, Inputs!IsOpen,
                InputInv, InputTypes
  <2>2. Holds(clicks', {ws}) /\ \A s \in 1..MaxSockets : Holds(clicks, {s}) => Holds(clicks', {s})
    BY <1>0, <2>1, AtTheEnd
  <2>3. Due(ws, "touch")' /\ \A s \in 1..MaxSockets, w \in Kinds : Due(s, w) => Due(s, w)'
    BY <2>1, <2>2 DEF Due
  <2>4. clicks' \in Seq(1..MaxSockets) /\ typing' \in 0..MaxSockets
    BY <1>0, <2>1 DEF InputInv, InputTypes
  <2> QED BY <1>0, <2>1, <2>3, <2>4, PressLifts
<1>2. CASE Inputs!keydown
  <2>1. /\ UNCHANGED <<ws, clients, down, controlConn, strayed, clicks>>
        /\ typing = 0 /\ typing' = ws /\ ws \in 1..MaxSockets /\ Inputs!IsOpen
        /\ toServer' = Inputs!Sent(Inputs!input("key", "down"))
    BY <1>2 DEF Inputs!keydown, Inputs!pageVars, Inputs!serverVars, Inputs!deviceVars, Inputs!IsOpen,
                InputInv, InputTypes
  <2>2. \A s \in 1..MaxSockets : typing # s
    BY <2>1
  <2>3. Due(ws, "key")' /\ \A s \in 1..MaxSockets, w \in Kinds : Due(s, w) => Due(s, w)'
    BY <2>1, <2>2 DEF Due
  <2>4. clicks' \in Seq(1..MaxSockets) /\ typing' \in 0..MaxSockets
    BY <1>0, <2>1 DEF InputInv, InputTypes
  <2> QED BY <1>0, <2>1, <2>3, <2>4, PressLifts
<1>3. CASE Inputs!clickTimer
  <2>1. /\ UNCHANGED <<ws, clients, down, controlConn, typing>>
        /\ clicks # <<>> /\ clicks' = Tail(clicks)
        /\ toServer' = Inputs!Sent(Inputs!input("touch", "up"))
        /\ strayed' = (strayed \/ Inputs!Astray(Head(clicks)))
    BY <1>3 DEF Inputs!clickTimer, Inputs!pageVars, Inputs!serverVars, Inputs!deviceVars
  <2>2. PICK h \in 1..MaxSockets : h = Head(clicks)
    BY <1>0, <2>1, FromTheFront
  <2>3. clicks' \in Seq(1..MaxSockets)
        /\ \A s \in 1..MaxSockets : Holds(clicks, {s}) => Holds(clicks', {s}) \/ s = h
    <3>1. ASSUME NEW s \in 1..MaxSockets, Holds(clicks, {s}), s # h PROVE Holds(clicks', {s})
      <4>1. Head(clicks) \notin {s}
        BY <2>2, <3>1
      <4> QED BY <1>0, <2>1, <3>1, <4>1, FromTheFront
    <3> QED BY <1>0, <2>1, <3>1, FromTheFront
  <2>4. \A s \in 1..MaxSockets, w \in Kinds : Due(s, w) => Due(s, w)' \/ (s = h /\ w = "touch")
    BY <2>1, <2>3 DEF Due
  <2>5. typing' \in 0..MaxSockets /\ strayed' = (strayed \/ Inputs!Astray(h))
    BY <2>1, <2>2 DEF InputInv, InputTypes
  <2> QED BY <1>0, <2>1, <2>3, <2>4, <2>5, ReleaseLifts
<1>4. CASE Inputs!keyup
  <2>1. /\ UNCHANGED <<ws, clients, down, controlConn, clicks>>
        /\ typing # 0 /\ typing' = 0
        /\ toServer' = Inputs!Sent(Inputs!input("key", "up"))
        /\ strayed' = (strayed \/ Inputs!Astray(typing))
    BY <1>4 DEF Inputs!keyup, Inputs!pageVars, Inputs!serverVars, Inputs!deviceVars
  <2>2. PICK h \in 1..MaxSockets : h = typing
    BY <2>1 DEF InputInv, InputTypes
  <2>3. \A s \in 1..MaxSockets, w \in Kinds : Due(s, w) => Due(s, w)' \/ (s = h /\ w = "key")
    BY <2>1, <2>2 DEF Due, Kinds
  <2>4. /\ clicks' \in Seq(1..MaxSockets) /\ typing' \in 0..MaxSockets
        /\ strayed' = (strayed \/ Inputs!Astray(h))
    BY <1>0, <2>1, <2>2, SocketsAssumption
  <2> QED BY <1>0, <2>1, <2>3, <2>4, ReleaseLifts
<1> QED BY <1>1, <1>2, <1>3, <1>4

(* The first message of a socket is taken. *)
LEMMA FirstMessages ==
  ASSUME NEW q \in Seq(Msg), q # <<>>, NEW what \in Kinds
  PROVE  /\ Covered(q, what) => Covered(Tail(q), what)
         /\ Covered(q, what) /\ Head(q) = Inputs!input(what, "down") => Lifts(Tail(q), what)
         /\ Lifts(q, what) /\ Head(q) # Inputs!input(what, "up") => Lifts(Tail(q), what)
<1> DEFINE d == Inputs!input(what, "down")  U == {Inputs!input(what, "up")}
<1>1. /\ Answered(q, d, U) => Answered(Tail(q), d, U)
      /\ Answered(q, d, U) /\ Head(q) = d => Holds(Tail(q), U)
      /\ Holds(q, U) /\ Head(q) \notin U => Holds(Tail(q), U)
  <2> HIDE DEF d, U
  <2> QED BY FromTheFront
<1> QED BY <1>1 DEF Covered, Lifts

(* The next message of socket s at the server. *)
LEMMA TakenLifts ==
  ASSUME InputInv, NEW s \in Inputs!Socket, Inputs!handleMessage(s)
  PROVE  InputInv'
<1> DEFINE m == Head(toServer[s])
<1>0. /\ s \in 1..MaxSockets /\ s \in clients /\ toServer[s] # <<>>
      /\ toServer[s] \in Seq(Msg) /\ m \in Msg /\ Tail(toServer[s]) \in Seq(Msg)
      /\ toServer' = [toServer EXCEPT ![s] = Tail(toServer[s])]
      /\ UNCHANGED <<ws, clicks, typing, clients, controlConn>>
  <2>1. /\ s \in 1..MaxSockets /\ s \in clients /\ toServer[s] # <<>>
        /\ toServer' = [toServer EXCEPT ![s] = Tail(toServer[s])]
        /\ UNCHANGED <<ws, clicks, typing, clients, controlConn>>
    BY DEF Inputs!handleMessage, Inputs!pageVars, Inputs!userVars, Inputs!Socket
  <2>2. toServer[s] \in Seq(Msg)
    BY <2>1 DEF InputInv, InputTypes
  <2> QED BY <2>1, <2>2, FromTheFront
<1>1. \/ m.type \notin Kinds /\ UNCHANGED <<down, strayed>>
      \/ m.type \in Kinds /\ Inputs!Inject(m)
  BY DEF Inputs!handleMessage, Kinds
<1>2. /\ down' \subseteq Kinds /\ (~controlConn => down' = down)
      /\ ~strayed' => ~strayed
      /\ ~strayed' => \A what \in Kinds :
           /\ what \in down' => what \in down \/ m = Inputs!input(what, "down")
           /\ m = Inputs!input(what, "up") => what \notin down'
  <2>1. CASE m.type \in Kinds /\ Inputs!Inject(m)
    <3>1. m = Inputs!input(m.type, m.action) /\ m.action \in {"down", "up"}
      BY <1>0, <2>1, InputFacts
    <3>2. m.action = "down" \/ m.action = "up"
      BY <3>1
    <3>3. \A what \in Kinds :
            /\ m = Inputs!input(what, "up") => m.type = what /\ m.action = "up"
            /\ m = Inputs!input(what, "down") => m.type = what /\ m.action = "down"
      BY DEF Inputs!input
    <3>4. CASE m.action = "down"
      BY <1>0, <2>1, <3>1, <3>3, <3>4 DEF Inputs!Inject, InputInv, InputTypes
    <3>5. CASE m.action = "up"
      BY <1>0, <2>1, <3>1, <3>3, <3>5 DEF Inputs!Inject, InputInv, InputTypes, NothingDown
    <3> QED BY <3>2, <3>4, <3>5
  <2>2. CASE UNCHANGED <<down, strayed>> /\ m.type \notin Kinds
    BY <2>2 DEF Inputs!input, InputInv, InputTypes
  <2> QED BY <1>1, <2>1, <2>2
<1>3. InputTypes'
  BY <1>0, <1>2 DEF InputInv, InputTypes
<1>4. ASSUME UpsCome, ~strayed' PROVE UpsCome'
  <2> SUFFICES ASSUME NEW w \in Kinds
               PROVE  /\ \A t \in 1..MaxSockets : Due(t, w) \/ Covered(toServer'[t], w)
                      /\ w \in down' => \E t \in 1..MaxSockets : Due(t, w) \/ Lifts(toServer'[t], w)
    BY <1>0 DEF UpsCome, Due
  <2>1. toServer'[s] = Tail(toServer[s])
        /\ \A t \in 1..MaxSockets : t # s => toServer'[t] = toServer[t]
    BY <1>0 DEF InputInv, InputTypes
  <2>2. /\ Covered(toServer[s], w) => Covered(toServer'[s], w)
        /\ Covered(toServer[s], w) /\ m = Inputs!input(w, "down") => Lifts(toServer'[s], w)
        /\ Lifts(toServer[s], w) /\ m # Inputs!input(w, "up") => Lifts(toServer'[s], w)
    BY <1>0, <2>1, FirstMessages
  <2>3. ASSUME NEW t \in 1..MaxSockets PROVE Due(t, w) \/ Covered(toServer'[t], w)
    BY <2>1, <2>2, <1>4 DEF UpsCome
  <2>4. ASSUME w \in down' PROVE \E t \in 1..MaxSockets : Due(t, w) \/ Lifts(toServer'[t], w)
    <3>1. CASE m = Inputs!input(w, "down")
      BY <1>0, <1>4, <2>2, <3>1 DEF UpsCome
    <3>2. CASE w \in down
      <4>1. PICK t \in 1..MaxSockets : Due(t, w) \/ Lifts(toServer[t], w)
        BY <1>4, <3>2 DEF UpsCome
      <4>2. m # Inputs!input(w, "up")
        BY <1>2, <1>4, <2>4
      <4> QED BY <2>1, <2>2, <4>1, <4>2
    <3> QED BY <1>2, <1>4, <2>4, <3>1, <3>2
  <2> QED BY <2>3, <2>4
<1> QED BY <1>0, <1>2, <1>3, <1>4 DEF InputInv, NothingDown

(* A connection is lost, or all are.                                       *)
LEMMA LossLifts ==
  ASSUME InputInv, Inputs!Panic \/ \E s \in Inputs!Socket : Inputs!Cut(s)
  PROVE  InputInv'
<1>1. CASE Inputs!Panic
  <2>1. InputTypes'
    <3>1. <<>> \in Seq(Msg)
      OBVIOUS
    <3> QED BY <1>1, <3>1, SocketsAssumption
            DEF Inputs!Panic, Inputs!pageVars, Inputs!userVars, Inputs!Socket, InputInv, InputTypes
  <2> QED BY <1>1, <2>1 DEF Inputs!Panic, InputInv
<1>2. ASSUME NEW s \in Inputs!Socket, Inputs!Cut(s) PROVE InputInv'
  <2>1. /\ UNCHANGED <<ws, clicks, typing, down, controlConn>> /\ clients' = clients \ {s}
        /\ toServer' = [toServer EXCEPT ![s] = <<>>]
        /\ strayed' = (strayed \/ toServer[s] # <<>>) /\ s \in 1..MaxSockets
    BY <1>2 DEF Inputs!Cut, Inputs!pageVars, Inputs!userVars, Inputs!deviceVars, Inputs!Socket
  <2>2. InputTypes'
    BY <2>1 DEF InputInv, InputTypes
  <2>3. ASSUME ~strayed' PROVE UpsCome' /\ ~strayed
    <3>1. toServer' = toServer
      BY <2>1, <2>3 DEF InputInv, InputTypes
    <3> QED BY <2>1, <2>3, <3>1, Still DEF InputInv
  <2> QED BY <2>1, <2>2, <2>3 DEF InputInv, NothingDown
<1> QED BY <1>1, <1>2

(* The initial states. *)
LEMMA InputsInit == Inputs!Init => InputInv
BY SocketsAssumption
   DEF Inputs!Init, Inputs!Socket, InputInv, NothingDown, InputTypes, UpsCome, Covered, Answered

(* Every step keeps the invariant. *)
LEMMA InputsNext == InputInv /\ [Inputs!Next]_(Inputs!vars) => InputInv'
<1> SUFFICES ASSUME InputInv, [Inputs!Next]_(Inputs!vars) PROVE InputInv'
  OBVIOUS
<1>1. CASE UNCHANGED Inputs!vars
  <2>1. UNCHANGED <<ws, clicks, typing, toServer, clients, down, controlConn, strayed>>
    BY <1>1 DEF Inputs!vars, Inputs!pageVars, Inputs!userVars, Inputs!serverVars, Inputs!deviceVars
  <2> QED BY <2>1, Still DEF InputInv, NothingDown, InputTypes
<1>2. CASE Inputs!Next
  BY <1>2, RestLifts, SignalLifts, UserLifts, TakenLifts, LossLifts DEF Inputs!Next
<1> QED BY <1>1, <1>2

(* The invariant gives the property: when no UP is to come, none is owed. *)
LEMMA InputLifted == InputInv => Inputs!AllLifted
<1> SUFFICES ASSUME InputInv, Inputs!Quiet, ~strayed, NEW what \in down PROVE FALSE
  BY DEF Inputs!AllLifted
<1>1. PICK s \in 1..MaxSockets : Due(s, what) \/ Lifts(toServer[s], what)
  BY DEF InputInv, InputTypes, UpsCome
<1>2. ~Due(s, what)
  BY DEF Inputs!Quiet, Due, Holds
<1>3. toServer[s] = <<>>
  BY DEF Inputs!Quiet, InputInv, InputTypes
<1> QED BY <1>1, <1>2, <1>3 DEF Lifts, Holds
-----------------------------------------------------------------------------
(* CastXControl.                                                           *)

(* The messages of a page, and what controlCall has yet to send.           *)
Ups == {"panend", "left"}
Messages == {"left", "panstart", "pan", "panend", "home", "back", "displayPower"}
Todos == {<<>>, <<Control!Move>>, <<Control!DisplayPower>>,
          <<Control!Down("pointer")>>, <<Control!Up("pointer")>>,
          <<Control!Down("pointer"), Control!Up("pointer")>>,
          <<Control!Up("home")>>, <<Control!Down("home"), Control!Up("home")>>,
          <<Control!Down("back"), Control!Up("home")>>}

(* A key is being written by a goroutine that has it to send; nothing is   *)
(* sent without a connection.                                              *)
ControlTypes ==
  /\ isPointerDown \in [Page -> BOOLEAN] /\ lost \in BOOLEAN
  /\ controls \in [Page -> Seq(Messages)]
  /\ todo \in [Page -> Todos] /\ using \in [Page -> Nat] /\ connection \in Nat
  /\ writing \subseteq Page /\ held \subseteq {"pointer", "home", "back"}
  /\ \A p \in writing : todo[p] # <<>> /\ Head(todo[p]).what # "pointer"
  /\ \A p \in Page : todo[p] # <<>> => using[p] # 0
  /\ connection = 0 => held = {}

(* Each DOWN of the pointer a page has sent has an UP to come. *)
PagesLift ==
  \A p \in Page : isPointerDown[p] \/
    /\ Answered(controls[p], "panstart", Ups)
    /\ todo[p] = <<Control!Down("pointer")>> => Holds(controls[p], Ups)

(* The goroutine of p has e to write to the phone that is connected.       *)
Writes(p, e) == using[p] = connection /\ Holds(todo[p], {e})

(* What the phone holds down has an UP to come. *)
PhoneLifts ==
  /\ "pointer" \in held => \E p \in Page : isPointerDown[p] \/ Holds(controls[p], Ups)
                                             \/ Writes(p, Control!Up("pointer"))
  /\ "home" \in held => \E p \in Page : Writes(p, Control!Up("home"))

ControlInv == ControlTypes /\ (~lost => PagesLift /\ PhoneLifts)

(* What a message makes of todo. *)
LEMMA CallFacts ==
  ASSUME NEW m \in Messages
  PROVE  /\ Control!controlCall(m) \in Todos \ {<<>>}
         /\ m \in Ups => Holds(Control!controlCall(m), {Control!Up("pointer")})
         /\ Control!controlCall(m) = <<Control!Down("pointer")>> => m = "panstart"
<1> USE DEF Control!controlCall, Control!left, Control!Move, Control!DisplayPower, Control!Down,
            Control!Up, Todos, Ups, Holds
<1>1. CASE m = "left"
  BY <1>1
<1>2. CASE m = "panstart"
  BY <1>2
<1>3. CASE m = "pan"
  BY <1>3
<1>4. CASE m = "panend"
  BY <1>4
<1>5. CASE m = "home"
  BY <1>5
<1>6. CASE m = "back"
  BY <1>6
<1>7. CASE m = "displayPower"
  BY <1>7
<1> QED BY <1>1, <1>2, <1>3, <1>4, <1>5, <1>6, <1>7 DEF Messages

(* When one event of todo is sent: the UP of a key follows its DOWN, that  *)
(* of the pointer follows unless the page sends it.                        *)
LEMMA TodoFacts ==
  ASSUME NEW q \in Todos, q # <<>>
  PROVE  /\ Tail(q) \in Todos /\ Tail(q) # <<Control!Down("pointer")>>
         /\ Head(q).action \in {"down", "up", "move", "set"}
         /\ Head(q).action = "down" => Head(q).what \in {"pointer", "home", "back"}
         /\ Head(q).action = "down" /\ Head(q).what = "pointer" =>
              q = <<Control!Down("pointer")>> \/ Holds(Tail(q), {Control!Up("pointer")})
         /\ Head(q).action = "down" /\ Head(q).what = "home" =>
              Holds(Tail(q), {Control!Up("home")})
         /\ \A w \in {"pointer", "home"} :
              Holds(q, {Control!Up(w)}) =>
                \/ Head(q).action = "up" /\ Head(q).what = w
                \/ Holds(Tail(q), {Control!Up(w)})
<1> USE DEF Control!Move, Control!DisplayPower, Control!Down, Control!Up, Todos, Holds
<1>1. CASE q = <<Control!Move>>
  BY <1>1
<1>2. CASE q = <<Control!DisplayPower>>
  BY <1>2
<1>6. CASE q = <<Control!Down("pointer")>>
  BY <1>6
<1>7. CASE q = <<Control!Up("pointer")>>
  BY <1>7
<1>8. CASE q = <<Control!Up("home")>>
  BY <1>8
<1>3. CASE q = <<Control!Down("pointer"), Control!Up("pointer")>>
  BY <1>3
<1>4. CASE q = <<Control!Down("home"), Control!Up("home")>>
  BY <1>4
<1>5. CASE q = <<Control!Down("back"), Control!Up("home")>>
  BY <1>5
<1> QED BY <1>1, <1>2, <1>3, <1>4, <1>5, <1>6, <1>7, <1>8

(* A page sends a message. *)
LEMMA NextControl ==
  ASSUME NEW q \in Seq(Messages), NEW m \in Messages
  PROVE  /\ q \o <<m>> \in Seq(Messages)
         /\ Holds(q, Ups) \/ m \in Ups => Holds(q \o <<m>>, Ups)
         /\ m # "panstart" /\ Answered(q, "panstart", Ups) => Answered(q \o <<m>>, "panstart", Ups)
         /\ m \in Ups => Answered(q \o <<m>>, "panstart", Ups)
<1>1. q \o <<m>> = Append(q, m)
  OBVIOUS
<1>2. m \in Ups => m # "panstart"
  BY DEF Ups
<1> DEFINE d == "panstart"
<1>3. /\ Holds(q, Ups) \/ m \in Ups => Holds(Append(q, m), Ups)
      /\ m # d /\ Answered(q, d, Ups) => Answered(Append(q, m), d, Ups)
      /\ m # d /\ m \in Ups => Answered(Append(q, m), d, Ups)
  <2> HIDE DEF d
  <2> QED BY AtTheEnd
<1>4. q \o <<m>> \in Seq(Messages)
  OBVIOUS
<1> HIDE DEF d
<1> QED BY <1>1, <1>2, <1>3, <1>4 DEF d

(* A page sends one message, which is an UP or leaves its pointer as it is.*)
LEMMA OneControl ==
  ASSUME ControlInv, NEW p \in Page, NEW m \in Messages, NEW b \in BOOLEAN,
         m # "panstart", b = isPointerDown[p] \/ m \in Ups,
         controls' = [controls EXCEPT ![p] = @ \o <<m>>],
         isPointerDown' = [isPointerDown EXCEPT ![p] = b],
         UNCHANGED <<lost, todo, using, writing, connection, held>>
  PROVE  ControlInv'
<1>1. /\ controls[p] \in Seq(Messages) /\ controls' \in [Page -> Seq(Messages)]
      /\ isPointerDown' \in [Page -> BOOLEAN]
      /\ controls'[p] = controls[p] \o <<m>> /\ isPointerDown'[p] = b
      /\ \A o \in Page : o # p => controls'[o] = controls[o] /\ isPointerDown'[o] = isPointerDown[o]
  BY NextControl DEF ControlInv, ControlTypes
<1>2. ControlTypes'
  BY <1>1 DEF ControlInv, ControlTypes
<1>3. /\ Holds(controls[p], Ups) \/ m \in Ups => Holds(controls'[p], Ups)
      /\ Answered(controls[p], "panstart", Ups) \/ m \in Ups => Answered(controls'[p], "panstart", Ups)
  BY <1>1, NextControl
<1>4. ASSUME PagesLift PROVE PagesLift'
  BY <1>1, <1>3, <1>4 DEF PagesLift
<1>5. ASSUME PhoneLifts PROVE PhoneLifts'
  <2>1. \A e : \A o \in Page : Writes(o, e) => Writes(o, e)'
    BY DEF Writes
  <2>2. \A o \in Page : isPointerDown[o] \/ Holds(controls[o], Ups)
                         => isPointerDown'[o] \/ Holds(controls'[o], Ups)
    BY <1>1, <1>3
  <2> QED BY <1>5, <2>1, <2>2 DEF PhoneLifts
<1> QED BY <1>2, <1>4, <1>5 DEF ControlInv

(* A pointer goes down: its UP is due from the page. *)
LEMMA StartControl ==
  ASSUME ControlInv, NEW p \in Page, NEW pointer, Control!panstart(p, pointer)
  PROVE  ControlInv'
<1>0. PICK ms \in {<<"panstart">>, <<"panstart", "panstart">>} :
        controls' = [controls EXCEPT ![p] = @ \o ms]
  BY DEF Control!panstart, Control!mouseClick
<1>1. /\ isPointerDown' = [isPointerDown EXCEPT ![p] = TRUE]
      /\ UNCHANGED <<lost, todo, using, writing, connection, held>>
  BY DEF Control!panstart, Control!serverVars, Control!phoneVars
<1>2. /\ controls' \in [Page -> Seq(Messages)] /\ isPointerDown' \in [Page -> BOOLEAN]
      /\ isPointerDown'[p]
      /\ \A o \in Page : o # p => controls'[o] = controls[o] /\ isPointerDown'[o] = isPointerDown[o]
  <2>1. ms \in Seq(Messages)
    <3>1. <<"panstart">> \in Seq(Messages)
      BY DEF Messages
    <3>2. <<"panstart", "panstart">> \in Seq(Messages)
      BY DEF Messages
    <3> QED BY <3>1, <3>2
  <2> QED BY <1>0, <1>1, <2>1 DEF ControlInv, ControlTypes
<1>3. ControlTypes'
  BY <1>1, <1>2 DEF ControlInv, ControlTypes
<1>4. ASSUME PagesLift PROVE PagesLift'
  BY <1>1, <1>2, <1>4 DEF PagesLift
<1>5. ASSUME PhoneLifts PROVE PhoneLifts'
  <2>1. \A e : \A o \in Page : Writes(o, e) => Writes(o, e)'
    BY <1>1 DEF Writes
  <2>2. \A o \in Page : isPointerDown[o] \/ Holds(controls[o], Ups)
                         => isPointerDown'[o] \/ Holds(controls'[o], Ups)
    BY <1>2
  <2> QED BY <1>1, <1>5, <2>1, <2>2 DEF PhoneLifts
<1> QED BY <1>1, <1>3, <1>4, <1>5 DEF ControlInv

(* Nothing of it changes. *)
LEMMA StillControl ==
  ASSUME ControlInv,
         UNCHANGED <<isPointerDown, lost, controls, todo, using, writing, connection, held>>
  PROVE  ControlInv'
BY DEF ControlInv, ControlTypes, PagesLift, PhoneLifts, Writes

(* The other handlers of a page. *)
LEMMA PageControl ==
  ASSUME ControlInv, NEW p \in Page,
         \/ \E pointer \in Control!Pointer : Control!pointerup(p, pointer)
         \/ Control!pointermove(p) \/ Control!ReleaseOutside(p) \/ Control!DragIn(p)
         \/ Control!keyboardClick(p)
  PROVE  ControlInv'
<1>0. /\ UNCHANGED <<lost, todo, using, writing, connection, held>>
      /\ isPointerDown[p] \in BOOLEAN
      /\ isPointerDown = [isPointerDown EXCEPT ![p] = isPointerDown[p]]
  BY DEF Control!pointerup, Control!pointermove, Control!ReleaseOutside, Control!DragIn,
         Control!keyboardClick, Control!serverVars, Control!phoneVars, ControlInv, ControlTypes
<1>1. CASE Control!clickUp(p)
  <2>1. PICK m \in Ups : controls' = [controls EXCEPT ![p] = @ \o <<m>>]
    BY <1>1 DEF Control!clickUp, Control!mouseClick, Ups
  <2>2. isPointerDown' = [isPointerDown EXCEPT ![p] = FALSE]
    BY <1>1 DEF Control!clickUp
  <2>3. m \in Messages /\ m # "panstart"
    BY DEF Ups, Messages
  <2> QED BY <1>0, <2>1, <2>2, <2>3, OneControl
<1>2. CASE Control!pointermove(p) \/ Control!keyboardClick(p)
  <2>1. PICK m \in {"pan", "home", "back", "displayPower"} :
          controls' = [controls EXCEPT ![p] = @ \o <<m>>]
    BY <1>2 DEF Control!pointermove, Control!keyboardClick, Control!mouseClick
  <2>2. isPointerDown' = isPointerDown
    BY <1>2 DEF Control!pointermove, Control!keyboardClick
  <2>3. m \in Messages /\ m # "panstart"
    BY DEF Messages
  <2>4. isPointerDown' = [isPointerDown EXCEPT ![p] = isPointerDown[p]]
    BY <1>0, <2>2
  <2> QED BY <1>0, <2>1, <2>3, <2>4, OneControl
<1>3. CASE UNCHANGED <<isPointerDown, controls>>
  BY <1>0, <1>3, StillControl
<1> QED
  BY <1>1, <1>2, <1>3 DEF Control!pointerup, Control!ReleaseOutside, Control!DragIn

(* A page goes, having lost nothing or at a loss. *)
LEMMA LeaveControl ==
  ASSUME ControlInv, NEW p \in Page, Control!Leave(p)
  PROVE  ControlInv'
<1>0. PICK n \in 0..Len(controls[p]) :
        /\ controls' = [controls EXCEPT ![p] = SubSeq(@, 1, n)]
        /\ lost' = (lost \/ isPointerDown[p] \/ n < Len(controls[p]))
  BY DEF Control!Leave
<1>1. /\ isPointerDown' = [isPointerDown EXCEPT ![p] = FALSE]
      /\ UNCHANGED <<todo, using, writing, connection, held>>
      /\ controls[p] \in Seq(Messages) /\ isPointerDown[p] \in BOOLEAN
  BY DEF Control!Leave, Control!serverVars, Control!phoneVars, ControlInv, ControlTypes
<1>2. SubSeq(controls[p], 1, n) \in Seq(Messages)
  BY <1>1
<1>3. ControlTypes'
  BY <1>0, <1>1, <1>2 DEF ControlInv, ControlTypes
<1>4. ASSUME ~lost' PROVE UNCHANGED <<lost, controls, isPointerDown>>
  <2>0. ~lost /\ ~isPointerDown[p] /\ ~(n < Len(controls[p]))
    BY <1>0, <1>4, Zenon
  <2>1. n = Len(controls[p])
    BY <1>1, <2>0
  <2>2. SubSeq(controls[p], 1, n) = controls[p]
    BY <1>1, <2>1
  <2>3. controls' = controls
    BY <1>0, <2>2 DEF ControlInv, ControlTypes
  <2>4. isPointerDown' = isPointerDown
    BY <1>1, <2>0 DEF ControlInv, ControlTypes
  <2>5. lost' = lost
    <3>1. lost \in BOOLEAN /\ lost' \in BOOLEAN
      BY <1>3 DEF ControlInv, ControlTypes
    <3>2. lost = FALSE /\ lost' = FALSE
      BY <1>4, <2>0, <3>1
    <3> QED BY <3>2
  <2> QED BY <2>3, <2>4, <2>5
<1>5. ASSUME ~lost' PROVE ControlInv'
  BY <1>1, <1>4, <1>5, StillControl
<1> QED BY <1>3, <1>5 DEF ControlInv

-----------------------------------------------------------------------------
(* The goroutine of a page takes a message, for which it may have no       *)
(* connection.                                                             *)
LEMMA TakeControl ==
  ASSUME ControlInv, NEW p \in Page, Control!handleControl(p)
  PROVE  ControlInv'
<1> DEFINE m == Head(controls[p])  c == Control!controlCall(m)
<1>0. /\ todo[p] = <<>> /\ controls[p] # <<>>
      /\ controls' = [controls EXCEPT ![p] = Tail(@)]
      /\ todo' = [todo EXCEPT ![p] = IF connection = 0 THEN <<>> ELSE c]
      /\ using' = [using EXCEPT ![p] = connection]
      /\ UNCHANGED <<isPointerDown, lost, writing, connection, held>>
  BY DEF Control!handleControl, Control!pageVars, Control!phoneVars
<1>1. controls[p] \in Seq(Messages)
  BY DEF ControlInv, ControlTypes
<1>2. /\ m \in Messages /\ Tail(controls[p]) \in Seq(Messages)
      /\ Holds(controls[p], Ups) /\ m \notin Ups => Holds(Tail(controls[p]), Ups)
      /\ Answered(controls[p], "panstart", Ups) => Answered(Tail(controls[p]), "panstart", Ups)
      /\ Answered(controls[p], "panstart", Ups) /\ m = "panstart" => Holds(Tail(controls[p]), Ups)
  BY <1>0, <1>1, FromTheFront
<1>3. /\ c \in Todos \ {<<>>}
      /\ m \in Ups => Holds(c, {Control!Up("pointer")})
      /\ c = <<Control!Down("pointer")>> => m = "panstart"
  BY <1>2, CallFacts
<1> HIDE DEF m, c
<1>4. /\ todo'[p] \in Todos /\ controls'[p] = Tail(controls[p]) /\ using'[p] = connection
      /\ todo'[p] = IF connection = 0 THEN <<>> ELSE c
      /\ \A o \in Page : o # p => controls'[o] = controls[o] /\ todo'[o] = todo[o] /\ using'[o] = using[o]
      /\ controls' \in [Page -> Seq(Messages)] /\ todo' \in [Page -> Todos] /\ using' \in [Page -> Nat]
  <2>1. <<>> \in Todos
    BY DEF Todos
  <2> QED BY <1>0, <1>2, <1>3, <2>1 DEF ControlInv, ControlTypes
<1>5. ControlTypes'
  <2>1. p \notin writing
    BY <1>0 DEF ControlInv, ControlTypes
  <2>2. \A o \in writing' : todo'[o] # <<>> /\ Head(todo'[o]).what # "pointer"
    BY <1>0, <1>4, <2>1 DEF ControlInv, ControlTypes
  <2>3. \A o \in Page : todo'[o] # <<>> => using'[o] # 0
    BY <1>4 DEF ControlInv, ControlTypes
  <2> QED BY <1>0, <1>4, <2>2, <2>3 DEF ControlInv, ControlTypes
<1>6. ASSUME PagesLift PROVE PagesLift'
  <2> SUFFICES ASSUME NEW o \in Page, ~isPointerDown[o]
               PROVE  /\ Answered(controls'[o], "panstart", Ups)
                      /\ todo'[o] = <<Control!Down("pointer")>> => Holds(controls'[o], Ups)
    BY <1>0 DEF PagesLift
  <2>1. CASE o = p
    <3>1. Answered(controls[p], "panstart", Ups)
      BY <1>6, <2>1 DEF PagesLift
    <3>2. todo'[p] = <<Control!Down("pointer")>> => m = "panstart"
      <4>1. <<Control!Down("pointer")>> # <<>>
        OBVIOUS
      <4> QED BY <1>3, <1>4, <4>1
    <3> QED BY <1>2, <1>4, <2>1, <3>1, <3>2
  <2>2. CASE o # p
    BY <1>4, <1>6, <2>2 DEF PagesLift
  <2> QED BY <2>1, <2>2
<1>7. ASSUME PhoneLifts PROVE PhoneLifts'
  <2>1. \A e : \A o \in Page : Writes(o, e) => Writes(o, e)'
    BY <1>0, <1>4 DEF Writes, Holds
  <2>2. ASSUME "pointer" \in held
        PROVE  \E o \in Page : isPointerDown[o] \/ Holds(controls'[o], Ups)
                                 \/ Writes(o, Control!Up("pointer"))'
    <3>1. PICK o \in Page : isPointerDown[o] \/ Holds(controls[o], Ups)
                              \/ Writes(o, Control!Up("pointer"))
      BY <1>7, <2>2 DEF PhoneLifts
    <3>2. CASE o = p /\ Holds(controls[p], Ups) /\ m \in Ups
      <4>1. connection # 0
        BY <2>2 DEF ControlInv, ControlTypes
      <4>2. Writes(p, Control!Up("pointer"))'
        BY <1>0, <1>3, <1>4, <3>2, <4>1 DEF Writes
      <4> QED BY <4>2
    <3>3. CASE ~(o = p /\ Holds(controls[p], Ups) /\ m \in Ups)
      BY <1>2, <1>4, <2>1, <3>1, <3>3
    <3> QED BY <3>2, <3>3
  <2>3. ASSUME "home" \in held
        PROVE  \E o \in Page : Writes(o, Control!Up("home"))'
    BY <1>7, <2>1, <2>3 DEF PhoneLifts
  <2> QED BY <1>0, <2>2, <2>3 DEF PhoneLifts
<1> QED BY <1>0, <1>5, <1>6, <1>7 DEF ControlInv

(* An event is written to the phone, or to a dead connection.              *)
LEMMA InjectControl ==
  ASSUME ControlInv, NEW p \in Page, Control!Inject(p), todo[p] # <<>>,
         UNCHANGED <<isPointerDown, lost, controls, using, connection>>,
         writing' \subseteq Page, \A o \in writing' : o \in writing /\ o # p
  PROVE  ControlInv'
<1> DEFINE e == Head(todo[p])
<1>0. todo[p] \in Todos /\ todo' = [todo EXCEPT ![p] = Tail(@)]
  BY DEF Control!Inject, ControlInv, ControlTypes
<1>1. /\ Tail(todo[p]) \in Todos /\ Tail(todo[p]) # <<Control!Down("pointer")>>
      /\ e.action \in {"down", "up", "move", "set"}
      /\ e.action = "down" => e.what \in {"pointer", "home", "back"}
      /\ e.action = "down" /\ e.what = "pointer" =>
           todo[p] = <<Control!Down("pointer")>> \/ Holds(Tail(todo[p]), {Control!Up("pointer")})
      /\ e.action = "down" /\ e.what = "home" => Holds(Tail(todo[p]), {Control!Up("home")})
      /\ \A w \in {"pointer", "home"} :
           Holds(todo[p], {Control!Up(w)}) =>
             \/ e.action = "up" /\ e.what = w
             \/ Holds(Tail(todo[p]), {Control!Up(w)})
  BY <1>0, TodoFacts
<1>2. \/ using[p] # connection /\ held' = held
      \/ e.action \in {"move", "set"} /\ held' = held
      \/ using[p] = connection /\ e.action = "down" /\ held' = held \cup {e.what}
      \/ using[p] = connection /\ e.action = "up" /\ held' = held \ {e.what}
  BY <1>1 DEF Control!Inject
<1> HIDE DEF e
<1>3. /\ todo'[p] = Tail(todo[p]) /\ todo' \in [Page -> Todos]
      /\ \A o \in Page : o # p => todo'[o] = todo[o]
  BY <1>0, <1>1 DEF ControlInv, ControlTypes
<1>4. ControlTypes'
  <2>1. held' \subseteq {"pointer", "home", "back"}
    BY <1>1, <1>2 DEF ControlInv, ControlTypes
  <2>2. connection = 0 => held' = {}
    <3>1. using[p] # 0
      BY DEF ControlInv, ControlTypes
    <3> QED BY <1>2, <3>1 DEF ControlInv, ControlTypes
  <2>3. \A o \in writing' : todo'[o] # <<>> /\ Head(todo'[o]).what # "pointer"
    BY <1>3 DEF ControlInv, ControlTypes
  <2>4. \A o \in Page : todo'[o] # <<>> => using[o] # 0
    BY <1>3 DEF ControlInv, ControlTypes
  <2> QED BY <1>3, <2>1, <2>2, <2>3, <2>4 DEF ControlInv, ControlTypes
<1>5. ASSUME PagesLift PROVE PagesLift'
  BY <1>1, <1>3, <1>5 DEF PagesLift
<1>6. ASSUME NEW w \in {"pointer", "home"}, NEW o \in Page, Writes(o, Control!Up(w)), w \in held'
      PROVE  Writes(o, Control!Up(w))'
  <2>1. CASE o = p
    <3>1. ~(e.action = "up" /\ e.what = w)
      BY <1>2, <1>6, <2>1 DEF Writes
    <3>2. Holds(Tail(todo[p]), {Control!Up(w)})
      BY <1>1, <1>6, <2>1, <3>1 DEF Writes
    <3> QED BY <1>3, <1>6, <2>1, <3>2 DEF Writes
  <2>2. CASE o # p
    BY <1>3, <1>6, <2>2 DEF Writes
  <2> QED BY <2>1, <2>2
<1>7. ASSUME NEW w \in {"pointer", "home"}, w \in held', w \notin held
      PROVE  using[p] = connection /\ e.action = "down" /\ e.what = w
  BY <1>2, <1>7
<1>8. ASSUME PagesLift, PhoneLifts PROVE PhoneLifts'
  <2>1. ASSUME "pointer" \in held'
        PROVE  \E o \in Page : isPointerDown[o] \/ Holds(controls[o], Ups)
                                 \/ Writes(o, Control!Up("pointer"))'
    <3>1. CASE "pointer" \in held
      <4>1. PICK o \in Page : isPointerDown[o] \/ Holds(controls[o], Ups)
                                \/ Writes(o, Control!Up("pointer"))
        BY <1>8, <3>1 DEF PhoneLifts
      <4> QED BY <1>6, <2>1, <4>1
    <3>2. CASE "pointer" \notin held
      <4>1. CASE todo[p] = <<Control!Down("pointer")>>
        BY <1>8, <4>1 DEF PagesLift
      <4>2. CASE todo[p] # <<Control!Down("pointer")>>
        <5>1. using[p] = connection /\ Holds(Tail(todo[p]), {Control!Up("pointer")})
          BY <1>1, <1>7, <2>1, <3>2, <4>2
        <5>2. Writes(p, Control!Up("pointer"))'
          BY <1>3, <5>1 DEF Writes
        <5> QED BY <5>2
      <4> QED BY <4>1, <4>2
    <3> QED BY <3>1, <3>2
  <2>2. ASSUME "home" \in held'
        PROVE  \E o \in Page : Writes(o, Control!Up("home"))'
    <3>1. CASE "home" \in held
      <4>1. PICK o \in Page : Writes(o, Control!Up("home"))
        BY <1>8, <3>1 DEF PhoneLifts
      <4> QED BY <1>6, <2>2, <4>1
    <3>2. CASE "home" \notin held
      <4>1. using[p] = connection /\ Holds(Tail(todo[p]), {Control!Up("home")})
        BY <1>1, <1>7, <2>2, <3>2
      <4>2. Writes(p, Control!Up("home"))'
        BY <1>3, <4>1 DEF Writes
      <4> QED BY <4>2
    <3> QED BY <3>1, <3>2
  <2> QED BY <2>1, <2>2 DEF PhoneLifts
<1> QED BY <1>4, <1>5, <1>8 DEF ControlInv

(* The goroutines that write, and a new control connection, on which       *)
(* nothing is down.                                                        *)
LEMMA ServerControl ==
  ASSUME ControlInv,
         \/ Control!SetControlConnectCall
         \/ \E p \in Page : \/ Control!SendKTouchEvent(p) \/ Control!SendKeyCode(p)
                            \/ Control!SendKeyCodeEnds(p)
  PROVE  ControlInv'
<1>1. CASE Control!SetControlConnectCall
  <2>1. /\ UNCHANGED <<isPointerDown, lost, controls, todo, using, writing>>
        /\ connection' = connection + 1 /\ held' = {}
    BY <1>1 DEF Control!SetControlConnectCall, Control!pageVars, Control!serverVars
  <2> QED BY <2>1 DEF ControlInv, ControlTypes, PagesLift, PhoneLifts
<1>2. ASSUME NEW p \in Page, Control!SendKTouchEvent(p) PROVE ControlInv'
  <2>1. /\ UNCHANGED <<isPointerDown, lost, controls, using, connection, writing>>
        /\ Control!Inject(p) /\ todo[p] # <<>> /\ Head(todo[p]).what = "pointer"
    BY <1>2 DEF Control!SendKTouchEvent, Control!pageVars
  <2>2. writing \subseteq Page /\ p \notin writing
    BY <2>1 DEF ControlInv, ControlTypes
  <2> QED BY <2>1, <2>2, InjectControl
<1>3. ASSUME NEW p \in Page, Control!SendKeyCodeEnds(p) PROVE ControlInv'
  <2>1. /\ UNCHANGED <<isPointerDown, lost, controls, using, connection>>
        /\ Control!Inject(p) /\ p \in writing /\ writing' = writing \ {p}
    BY <1>3 DEF Control!SendKeyCodeEnds, Control!pageVars
  <2>2. writing \subseteq Page /\ todo[p] # <<>>
    BY <2>1 DEF ControlInv, ControlTypes
  <2> QED BY <2>1, <2>2, InjectControl
<1>4. ASSUME NEW p \in Page, Control!SendKeyCode(p) PROVE ControlInv'
  <2>1. /\ UNCHANGED <<isPointerDown, lost, controls, using, connection, todo, held>>
        /\ todo[p] # <<>> /\ Head(todo[p]).what # "pointer" /\ writing' = writing \cup {p}
    BY <1>4 DEF Control!SendKeyCode, Control!pageVars
  <2>2. ControlTypes'
    BY <2>1 DEF ControlInv, ControlTypes
  <2> QED BY <2>1, <2>2 DEF ControlInv, PagesLift, PhoneLifts, Writes
<1> QED BY <1>1, <1>2, <1>3, <1>4

(* The initial states. *)
LEMMA ControlInit == Control!Init => ControlInv
<1> SUFFICES ASSUME Control!Init PROVE ControlInv
  OBVIOUS
<1>1. ControlTypes
  <2>1. <<>> \in Todos /\ <<>> \in Seq(Messages)
    BY DEF Todos
  <2> QED BY <2>1 DEF Control!Init, ControlTypes
<1>2. PagesLift
  <2>1. <<>> # <<Control!Down("pointer")>>
    OBVIOUS
  <2>2. Answered(<<>>, "panstart", Ups)
    BY DEF Answered
  <2> QED BY <2>1, <2>2 DEF Control!Init, PagesLift
<1>3. PhoneLifts
  BY DEF Control!Init, PhoneLifts
<1> QED BY <1>1, <1>2, <1>3 DEF ControlInv

(* Every step keeps the invariant. *)
LEMMA ControlNext == ControlInv /\ [Control!Next]_(Control!vars) => ControlInv'
<1> SUFFICES ASSUME ControlInv, [Control!Next]_(Control!vars) PROVE ControlInv'
  OBVIOUS
<1>1. CASE UNCHANGED Control!vars
  <2>1. UNCHANGED <<isPointerDown, lost, controls, todo, using, writing, connection, held>>
    BY <1>1 DEF Control!vars, Control!pageVars, Control!serverVars, Control!phoneVars
  <2> QED BY <2>1, StillControl
<1>2. CASE Control!Next
  BY <1>2, StartControl, PageControl, LeaveControl, TakeControl, ServerControl DEF Control!Next
<1> QED BY <1>1, <1>2

(* The invariant gives the property. *)
LEMMA ControlLifted == ControlInv => Control!AllLifted
<1> SUFFICES ASSUME ControlInv, Control!Quiet, ~lost, \A p \in Page : ~isPointerDown[p]
             PROVE  held \subseteq {"back"}
  BY DEF Control!AllLifted
<1>1. \A p \in Page : controls[p] = <<>> /\ todo[p] = <<>>
  BY DEF Control!Quiet
<1>2. "pointer" \notin held /\ "home" \notin held
  BY <1>1 DEF ControlInv, PhoneLifts, Writes, Holds
<1> QED BY <1>2 DEF ControlInv, ControlTypes

(* AllLifted of GoScrcpy and of CastXControl, for every number of sockets, *)
(* inputs, pages, acts and control connections: when all is sent and       *)
(* handled, what was pressed is released, but for what is named there.     *)
THEOREM Lifted == Inputs!Spec /\ Control!Spec => []AllLifted
<1>1. Inputs!Spec => []InputInv
  BY InputsInit, InputsNext, PTL DEF Inputs!Spec
<1>2. Control!Spec => []ControlInv
  BY ControlInit, ControlNext, PTL DEF Control!Spec
<1>3. InputInv /\ ControlInv => AllLifted
  BY InputLifted, ControlLifted DEF AllLifted
<1> QED BY <1>1, <1>2, <1>3, PTL
=============================================================================
