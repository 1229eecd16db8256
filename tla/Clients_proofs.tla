---------------------------- MODULE Clients_proofs ----------------------------
(***************************************************************************)
(* Proofs about two parts that own a connection of a page: WebsocketProxy, *)
(* for every number of messages (the types, NothingLost and Prefixes), and *)
(* MsePlayer, for every number of frames (FramesInOrder).                  *)
(***************************************************************************)
EXTENDS MCClients, SequenceTheorems, WellFoundedInduction, TLAPS

Count(n) == [i \in 1..n |-> i]

(* Of n messages, those that are due when the d-th is dropped, or none.    *)
Nth(d, i) == IF d # 0 /\ i >= d THEN i + 1 ELSE i
Row(d, n) == [i \in 1..n |-> Nth(d, i)]
Total(d, n) == IF d = 0 THEN n ELSE n - 1

(* remoteSocket is set when the remote opens and never cleared; before     *)
(* that nothing is written.                                                *)
SocketSet ==
  /\ remoteSocket => remote \in {"OPEN", "CLOSING", "CLOSED"}
  /\ ~remoteSocket => written = <<>> /\ remote \notin {"OPEN", "CLOSING"}

(* The proxy is released exactly when its client is gone, and keeps        *)
(* neither messages nor an open remote then.                               *)
ReleasedIsClosed ==
  /\ released <=> ws = "CLOSED"
  /\ released => storage = <<>> /\ remote # "OPEN"

(* While the client is open it has been sent every reply. *)
RepliesReturned == ws = "OPEN" => returned = Count(replies)

(* A message is dropped when the remote opens. *)
OnceDropped == dropped # 0 => remoteSocket /\ dropped \in 1..sent

Inv ==
  /\ TypeOK
  /\ SocketSet
  /\ OnceDropped
  /\ ReleasedIsClosed
  /\ RepliesReturned
  /\ NothingLost
  /\ Prefixes

-----------------------------------------------------------------------------

(* Count(n) is the sequence 1, ..., n. *)
LEMMA CountSeq ==
  ASSUME NEW n \in Nat, NEW m \in Nat, n <= m
  PROVE  Count(n) \in Seq(1..m) /\ Len(Count(n)) = n
BY DEF Count

(* The next message continues it. *)
LEMMA CountAppend ==
  ASSUME NEW n \in Nat
  PROVE  Append(Count(n), n + 1) = Count(n + 1)
BY CountSeq DEF Count

(* The same of a row: its length and range, when nothing is dropped, *)
LEMMA RowSeq ==
  ASSUME NEW d \in Nat, NEW n \in Nat, NEW m \in Nat, d <= n, n <= m
  PROVE  /\ Total(d, n) \in Nat
         /\ Row(d, Total(d, n)) \in Seq(1..m)
         /\ Len(Row(d, Total(d, n))) = Total(d, n)
<1>1. PICK t : t = Total(d, n)
  OBVIOUS
<1>2. t \in Nat /\ (t = n \/ t + 1 = n) /\ (t = n => d = 0)
  BY <1>1 DEF Total
<1>3. \A i \in 1..t : Nth(d, i) \in 1..m
  BY <1>2 DEF Nth
<1>4. Row(d, t) \in Seq(1..m) /\ Len(Row(d, t)) = t
  BY <1>2, <1>3 DEF Row
<1> QED BY <1>1, <1>2, <1>4

LEMMA RowAll ==
  ASSUME NEW n \in Nat
  PROVE  Row(0, Total(0, n)) = Count(n)
BY DEF Row, Nth, Total, Count

(* and what the next message makes of it. *)
LEMMA RowAppend ==
  ASSUME NEW d \in Nat, NEW n \in Nat, d <= n
  PROVE  Append(Row(d, Total(d, n)), n + 1) = Row(d, Total(d, n + 1))
<1>1. PICK t : t = Total(d, n)
  OBVIOUS
<1>2. t \in Nat /\ Total(d, n + 1) = t + 1 /\ Nth(d, t + 1) = n + 1
  BY <1>1 DEF Total, Nth
<1>3. Row(d, t) \in Seq(Nat) /\ Len(Row(d, t)) = t
  <2>1. \A i \in 1..t : Nth(d, i) \in Nat
    BY <1>2 DEF Nth
  <2> QED BY <1>2, <2>1 DEF Row
<1>4. Append(Row(d, t), Nth(d, t + 1)) = Row(d, t + 1)
  <2>1. PICK r : r = Append(Row(d, t), Nth(d, t + 1))
    OBVIOUS
  <2>2. r \in Seq(Nat) /\ Len(r) = t + 1
    <3>1. Nth(d, t + 1) \in Nat
      BY <1>2
    <3> QED BY <1>3, <2>1, <3>1
  <2>3. \A i \in 1..(t + 1) : r[i] = Nth(d, i)
    <3>1. \A i \in 1..t : r[i] = Row(d, t)[i] /\ Row(d, t)[i] = Nth(d, i)
      BY <1>2, <1>3, <2>1 DEF Row
    <3>2. r[t + 1] = Nth(d, t + 1)
      BY <1>2, <1>3, <2>1
    <3> QED BY <1>2, <3>1, <3>2
  <2>4. r = [i \in 1..(t + 1) |-> r[i]]
    BY <2>2
  <2>5. r = Row(d, t + 1)
    BY <2>3, <2>4 DEF Row
  <2> QED BY <2>1, <2>5
<1> QED BY <1>1, <1>2, <1>4

(* flush takes the empty message out of those that waited. *)
LEMMA FlushSkips ==
  ASSUME NEW n \in Nat, NEW b \in Nat
  PROVE  /\ SeqExt!Contains(Count(n), b) <=> b \in 1..n
         /\ b \in 1..n => SeqExt!RemoveFirst(Count(n), b) = Row(b, Total(b, n))
         /\ b \notin 1..n => SeqExt!RemoveFirst(Count(n), b) = Count(n)
<1>1. PICK s : s = Count(n)
  OBVIOUS
<1>2. s \in Seq(1..n) /\ Len(s) = n /\ \A i \in 1..n : s[i] = i
  BY <1>1 DEF Count
<1>3. SeqExt!Contains(s, b) <=> b \in 1..n
  BY <1>2 DEF SeqExt!Contains
<1>4. ASSUME b \notin 1..n PROVE SeqExt!RemoveFirst(s, b) = s
  BY <1>2, <1>4 DEF SeqExt!RemoveFirst
<1>5. ASSUME b \in 1..n PROVE SeqExt!RemoveFirst(s, b) = Row(b, Total(b, n))
  <2> DEFINE I == {i \in 1..Len(s) : s[i] = b}
             at == SeqExt!SelectInSeq(s, LAMBDA v : v = b)
  <2>1. I = {b}
    BY <1>2, <1>5
  <2>2. at = b
    <3>1. at = IF I # {} THEN CHOOSE x \in I : \A y \in I : x <= y ELSE 0
      BY DEF SeqExt!SelectInSeq, SeqExt!Min
    <3> HIDE DEF I, at
    <3> QED BY <2>1, <3>1
  <2>3. SeqExt!RemoveFirst(s, b) = SeqExt!RemoveAt(s, at)
    BY <1>2, <1>5 DEF SeqExt!RemoveFirst
  <2> HIDE DEF I, at
  <2>4. SeqExt!RemoveFirst(s, b) = SubSeq(s, 1, b - 1) \o SubSeq(s, b + 1, n)
    BY <1>2, <2>2, <2>3 DEF SeqExt!RemoveAt
  <2>5. PICK u, v : u = SubSeq(s, 1, b - 1) /\ v = SubSeq(s, b + 1, n)
    OBVIOUS
  <2>6. /\ u \in Seq(1..n) /\ Len(u) = b - 1 /\ v \in Seq(1..n) /\ Len(v) = n - b
        /\ \A i \in 1..(b - 1) : u[i] = i
        /\ \A i \in 1..(n - b) : v[i] = b + i
    BY <1>2, <1>5, <2>5
  <2>7. PICK r : r = u \o v
    OBVIOUS
  <2>8. /\ Len(r) = n - 1 /\ r = [i \in 1..(n - 1) |-> r[i]]
        /\ \A i \in 1..(n - 1) : r[i] = IF i <= b - 1 THEN u[i] ELSE v[i - (b - 1)]
    <3>1. r \in Seq(1..n) /\ Len(r) = Len(u) + Len(v)
      BY <2>6, <2>7, ConcatProperties
    <3>2. Len(r) = n - 1
      BY <1>5, <2>6, <3>1
    <3>3. r = [i \in 1..(n - 1) |-> r[i]]
      BY <3>1, <3>2
    <3>4. \A i \in 1..(Len(u) + Len(v)) : r[i] = IF i <= Len(u) THEN u[i] ELSE v[i - Len(u)]
      BY <2>6, <2>7
    <3>5. Len(u) + Len(v) = n - 1
      BY <3>1, <3>2
    <3> QED BY <2>6, <3>2, <3>3, <3>4, <3>5
  <2>9. ASSUME NEW i \in 1..(n - 1) PROVE r[i] = Nth(b, i)
    <3>1. CASE i <= b - 1
      BY <1>5, <2>6, <2>8, <3>1 DEF Nth
    <3>2. CASE ~(i <= b - 1)
      <4>1. i - (b - 1) \in 1..(n - b) /\ b + (i - (b - 1)) = i + 1
        BY <1>5, <3>2
      <4> QED BY <1>5, <2>6, <2>8, <3>2, <4>1 DEF Nth
    <3> QED BY <3>1, <3>2
  <2>10. r = Row(b, n - 1)
    BY <2>8, <2>9 DEF Row
  <2>11. Total(b, n) = n - 1
    BY <1>5 DEF Total
  <2> QED BY <2>4, <2>5, <2>7, <2>10, <2>11
<1> QED BY <1>1, <1>3, <1>4, <1>5

(* NothingLost and Prefixes are about rows. *)
LEMMA AboutRows ==
  /\ NothingLost <=>
       (~released /\ remote \in {"forwarding", "CONNECTING", "OPEN"} =>
          written \o storage = Row(dropped, Total(dropped, sent)))
  /\ Prefixes <=> /\ written = Row(dropped, Len(written))
                  /\ returned = Count(Len(returned))
BY DEF NothingLost, Prefixes, Row, Nth, Due, Total, Count

(* Init establishes the invariant. *)
LEMMA InitInv == Init => Inv
<1> SUFFICES ASSUME Init PROVE Inv
  OBVIOUS
<1> USE BoundsAssumption
<1>1. TypeOK
  <2>1. <<>> \in Seq(1..MaxSends) /\ <<>> \in Seq(1..MaxReplies)
    BY EmptySeq
  <2>2. 0 \in 0..MaxSends /\ 0 \in 0..MaxReplies
    OBVIOUS
  <2> QED BY <2>1, <2>2 DEF Init, TypeOK, State
<1>2. SocketSet /\ ReleasedIsClosed /\ OnceDropped
  BY DEF Init, SocketSet, ReleasedIsClosed, OnceDropped
<1>3. <<>> = Count(0) /\ <<>> = Row(0, 0) /\ Total(0, 0) = 0
  BY DEF Count, Row, Total
<1>4. RepliesReturned /\ Prefixes
  BY <1>3, AboutRows DEF Init, RepliesReturned
<1>5. NothingLost
  BY <1>3, AboutRows DEF Init
<1> QED BY <1>1, <1>2, <1>4, <1>5 DEF Inv

(* The client sends: the message is stored, written behind what was        *)
(* written, or lost because the remote is no longer open.                  *)
LEMMA ClientSendsInv == Inv /\ ClientSends => Inv'
<1> SUFFICES ASSUME Inv, ClientSends PROVE Inv'
  OBVIOUS
<1> USE BoundsAssumption
<1>1. /\ ws \in State /\ ws # "CLOSED" /\ ~released
      /\ sent \in Nat /\ sent' = sent + 1 /\ sent' \in 1..MaxSends
      /\ dropped \in Nat /\ dropped <= sent /\ dropped' = dropped /\ blank' = blank
      /\ written \in Seq(1..MaxSends) /\ storage \in Seq(1..MaxSends)
      /\ ws' = ws /\ remote' = remote /\ remoteSocket' = remoteSocket
      /\ released' = released /\ replies' = replies /\ returned' = returned
  BY DEF Inv, TypeOK, ClientSends, ReleasedIsClosed, OnceDropped
<1>2. CASE ~remoteSocket
  <2>1. /\ storage' = Append(storage, sent') /\ written' = written /\ written = <<>>
        /\ dropped = 0
    BY <1>2 DEF ClientSends, Stores, Inv, SocketSet, OnceDropped
  <2>2. storage' \in Seq(1..MaxSends)
    BY <1>1, <2>1
  <2>3. ASSUME remote \in {"forwarding", "CONNECTING", "OPEN"}
        PROVE  written' \o storage' = Row(dropped', Total(dropped', sent'))
    <3>1. written \o storage = Row(dropped, Total(dropped, sent))
      BY <1>1, <2>3, AboutRows DEF Inv
    <3>2. storage = Row(dropped, Total(dropped, sent))
      BY <1>1, <2>1, <3>1, ConcatEmptySeq
    <3>3. storage' = Row(dropped, Total(dropped, sent'))
      BY <1>1, <2>1, <3>2, RowAppend
    <3>4. <<>> \o storage' = storage'
      BY <2>2, ConcatEmptySeq
    <3> QED BY <1>1, <2>1, <3>3, <3>4
  <2>4. TypeOK'
    BY <1>1, <1>2, <2>1, <2>2 DEF Inv, TypeOK, ClientSends
  <2>5. NothingLost'
    BY <1>1, <2>3 DEF NothingLost, Row, Nth, Due, Total
  <2>6. Prefixes'
    BY <1>1, <2>1 DEF Inv, Prefixes, Due
  <2>7. OnceDropped'
    BY <1>1, <2>1 DEF OnceDropped
  <2> QED BY <1>1, <2>1, <2>4, <2>5, <2>6, <2>7
          DEF Inv, SocketSet, ReleasedIsClosed, RepliesReturned
<1>3. CASE remoteSocket /\ remote = "OPEN"
  <2>1. storage' = storage /\ storage = <<>> /\ written' = Append(written, sent')
    BY <1>3 DEF ClientSends, Stores, Inv, TypeOK
  <2>2. written = Row(dropped, Total(dropped, sent))
    <3>1. written \o storage = Row(dropped, Total(dropped, sent))
      BY <1>1, <1>3, AboutRows DEF Inv
    <3> QED BY <1>1, <2>1, <3>1, ConcatEmptySeq
  <2>3. written' = Row(dropped', Total(dropped', sent'))
    BY <1>1, <2>1, <2>2, RowAppend
  <2>4. written' \in Seq(1..MaxSends) /\ Len(written') = Total(dropped', sent')
    BY <1>1, <2>3, RowSeq
  <2>5. TypeOK'
    BY <1>1, <1>3, <2>1, <2>4 DEF Inv, TypeOK, ClientSends
  <2>6. NothingLost'
    <3>1. written' \o <<>> = written'
      BY <2>4, ConcatEmptySeq
    <3>2. written' \o storage' = Row(dropped', Total(dropped', sent'))
      BY <2>1, <2>3, <3>1
    <3> QED BY <3>2 DEF NothingLost, Row, Nth, Due, Total
  <2>7. Prefixes'
    <3>1. returned' = [i \in 1..Len(returned') |-> i]
      BY <1>1 DEF Inv, Prefixes
    <3>2. written' = Row(dropped', Len(written'))
      BY <2>3, <2>4
    <3> QED BY <3>1, <3>2 DEF Prefixes, Row, Nth, Due
  <2>8. OnceDropped'
    BY <1>1, <1>3 DEF Inv, OnceDropped
  <2> QED BY <1>1, <1>3, <2>1, <2>5, <2>6, <2>7, <2>8
          DEF Inv, SocketSet, ReleasedIsClosed, RepliesReturned
<1>4. CASE remoteSocket /\ remote # "OPEN"
  <2>1. storage' = storage /\ written' = written /\ remote \in {"CLOSING", "CLOSED"}
    BY <1>4 DEF ClientSends, Stores, Inv, SocketSet
  <2>2. TypeOK'
    BY <1>1, <1>4, <2>1 DEF Inv, TypeOK, ClientSends
  <2>3. NothingLost' /\ Prefixes' /\ OnceDropped'
    BY <1>1, <1>4, <2>1 DEF Inv, NothingLost, Prefixes, OnceDropped, Due
  <2> QED BY <1>1, <1>4, <2>1, <2>2, <2>3
          DEF Inv, SocketSet, ReleasedIsClosed, RepliesReturned
<1> QED BY <1>2, <1>3, <1>4

(* The remote opens: everything stored is written, and nothing is if the   *)
(* client has gone.                                                        *)
LEMMA RemoteOpenInv == Inv /\ RemoteOpen => Inv'
<1> SUFFICES ASSUME Inv, RemoteOpen PROVE Inv'
  OBVIOUS
<1> USE BoundsAssumption
<1>1. /\ written = <<>> /\ ~remoteSocket /\ remoteSocket' = TRUE /\ storage' = <<>>
      /\ storage \in Seq(1..MaxSends) /\ sent \in 0..MaxSends
      /\ remote = "CONNECTING" /\ released \in BOOLEAN
      /\ remote' = IF released THEN "CLOSING" ELSE "OPEN"
      /\ written' = written \o SeqExt!RemoveFirst(storage, blank)
      /\ dropped' = IF SeqExt!Contains(storage, blank) THEN blank ELSE dropped
      /\ dropped = 0 /\ blank \in Nat /\ sent \in Nat /\ sent <= MaxSends
  BY DEF Inv, TypeOK, SocketSet, OnceDropped, RemoteOpen, flush, cleared
<1>2. PICK n \in Nat : n <= sent /\ storage = Count(n) /\ (~released => n = sent)
  <2>1. CASE released
    <3>1. storage = Count(0)
      BY <2>1 DEF Inv, ReleasedIsClosed, Count
    <3> QED BY <1>1, <2>1, <3>1
  <2>2. CASE ~released
    <3>1. written \o storage = Row(dropped, Total(dropped, sent))
      BY <1>1, <2>2, AboutRows DEF Inv
    <3>2. storage = Row(0, Total(0, sent))
      BY <1>1, <3>1, ConcatEmptySeq
    <3> QED BY <1>1, <3>2, RowAll
  <2> QED BY <1>1, <2>1, <2>2
<1>3. /\ UNCHANGED <<ws, code, released, blank, sent, replies, returned>>
  BY DEF RemoteOpen
<1>4. /\ dropped' \in {0, blank} /\ dropped' \in Nat /\ dropped' <= n
      /\ written' = Row(dropped', Total(dropped', n))
  <2>1. written' = SeqExt!RemoveFirst(Count(n), blank)
    <3>1. PICK r : r = SeqExt!RemoveFirst(Count(n), blank)
      OBVIOUS
    <3>2. r \in Seq(Nat)
      <4>1. CASE blank \in 1..n
        <5>1. r = Row(blank, Total(blank, n))
          BY <1>1, <3>1, <4>1, FlushSkips
        <5> QED BY <1>1, <4>1, <5>1, RowSeq
      <4>2. CASE blank \notin 1..n
        <5>1. r = Count(n)
          BY <1>1, <3>1, <4>2, FlushSkips
        <5> QED BY <5>1 DEF Count
      <4> QED BY <4>1, <4>2
    <3>3. <<>> \o r = r
      BY <3>2, ConcatEmptySeq
    <3> QED BY <1>1, <1>2, <3>1, <3>3
  <2>2. CASE blank \in 1..n
    <3>1. SeqExt!Contains(storage, blank)
      BY <1>1, <1>2, <2>2, FlushSkips
    <3>2. dropped' = blank
      BY <1>1, <3>1
    <3>3. written' = Row(blank, Total(blank, n))
      BY <1>1, <2>1, <2>2, FlushSkips
    <3> QED BY <1>1, <2>2, <3>2, <3>3
  <2>3. CASE blank \notin 1..n
    <3>1. ~SeqExt!Contains(storage, blank)
      BY <1>1, <1>2, <2>3, FlushSkips
    <3>2. dropped' = 0
      BY <1>1, <3>1
    <3>3. written' = Row(0, Total(0, n))
      BY <1>1, <2>1, <2>3, FlushSkips, RowAll
    <3> QED BY <1>1, <1>2, <3>2, <3>3
  <2> QED BY <2>2, <2>3
<1>5. written' \in Seq(1..MaxSends) /\ Len(written') = Total(dropped', n)
  <2>1. PICK d : d = dropped'
    OBVIOUS
  <2>2. d \in Nat /\ d <= n /\ n <= MaxSends /\ MaxSends \in Nat
    BY <1>1, <1>2, <1>4, <2>1
  <2>3. Row(d, Total(d, n)) \in Seq(1..MaxSends) /\ Len(Row(d, Total(d, n))) = Total(d, n)
    BY <2>2, RowSeq
  <2> QED BY <1>4, <2>1, <2>3
<1>6. TypeOK'
  BY <1>1, <1>3, <1>4, <1>5 DEF Inv, TypeOK, State
<1>7. SocketSet' /\ ReleasedIsClosed' /\ RepliesReturned'
  BY <1>1, <1>3 DEF Inv, SocketSet, ReleasedIsClosed, RepliesReturned
<1>8. OnceDropped'
  BY <1>1, <1>2, <1>3, <1>4 DEF OnceDropped
<1>9. Prefixes'
  <2>1. written' = Row(dropped', Len(written'))
    BY <1>4, <1>5
  <2>2. returned' = [i \in 1..Len(returned') |-> i]
    BY <1>3 DEF Inv, Prefixes
  <2> QED BY <2>1, <2>2 DEF Prefixes, Row, Nth, Due
<1>10. NothingLost'
  <2> SUFFICES ASSUME ~released'
               PROVE  written' \o storage' = Row(dropped', Total(dropped', sent'))
    BY DEF NothingLost, Row, Nth, Due, Total
  <2>1. written' \o storage' = written'
    BY <1>1, <1>5, ConcatEmptySeq
  <2> QED BY <1>2, <1>3, <1>4, <2>1
<1> QED BY <1>6, <1>7, <1>8, <1>9, <1>10 DEF Inv

(* The client goes. *)
LEMMA ClientGoneInv == Inv /\ ClientGone => Inv'
<1> SUFFICES ASSUME Inv, ClientGone PROVE Inv'
  OBVIOUS
<1> USE BoundsAssumption
<1>1. /\ ws' = "CLOSED" /\ released' = TRUE /\ storage' = <<>>
      /\ UNCHANGED <<code, remoteSocket, blank, sent, replies, returned>>
  BY DEF ClientGone, cleared
<1>2. /\ written' = written /\ dropped' = dropped
      /\ remote' \in State \cup {"forwarding", "failed"}
      /\ remoteSocket => remote' \in {"CLOSING", "CLOSED"}
      /\ ~remoteSocket => remote' = remote
  <2>1. CASE remoteSocket
    <3>1. storage = <<>> /\ remote \in {"OPEN", "CLOSING", "CLOSED"}
      BY <2>1 DEF Inv, TypeOK, SocketSet
    <3>6. flush(storage, TRUE)
      BY <2>1 DEF ClientGone
    <3>2. Count(0) = <<>>
      BY DEF Count
    <3>3. ~SeqExt!Contains(<<>>, blank) /\ SeqExt!RemoveFirst(<<>>, blank) = <<>>
      <4>1. blank \in Nat /\ blank \notin 1..0
        BY DEF Inv, TypeOK
      <4> QED BY <3>2, <4>1, FlushSkips
    <3>4. written \o <<>> = written
      BY ConcatEmptySeq DEF Inv, TypeOK
    <3>5. written' = written /\ dropped' = dropped /\ remote' \in {"CLOSING", "CLOSED"}
      BY <3>1, <3>3, <3>4, <3>6 DEF flush
    <3> QED BY <2>1, <3>5 DEF State
  <2>2. CASE ~remoteSocket
    BY <2>2 DEF ClientGone, Inv, TypeOK
  <2> QED BY <2>1, <2>2 DEF Inv, TypeOK
<1>3. TypeOK'
  BY <1>1, <1>2 DEF Inv, TypeOK, State
<1>4. Prefixes' /\ OnceDropped'
  BY <1>1, <1>2 DEF Inv, Prefixes, OnceDropped, Due
<1> QED BY <1>1, <1>2, <1>3, <1>4
        DEF Inv, SocketSet, ReleasedIsClosed, RepliesReturned, NothingLost

(* The remote sends. *)
LEMMA RepliesInv == Inv /\ Replies => Inv'
<1> SUFFICES ASSUME Inv, Replies PROVE Inv'
  OBVIOUS
<1> USE BoundsAssumption
<1>1. /\ replies \in Nat /\ replies' = replies + 1 /\ replies' \in 1..MaxReplies
      /\ returned \in Seq(1..MaxReplies)
      /\ UNCHANGED <<ws, code, remote, remoteSocket, storage, released, blank, sent, written,
                     dropped>>
  BY DEF Inv, TypeOK, Replies
<1>4. NothingLost' /\ OnceDropped' /\ written' = [i \in 1..Len(written') |-> Due(i)']
  BY <1>1 DEF Inv, NothingLost, OnceDropped, Prefixes, Due
<1>2. CASE ws = "OPEN"
  <2>1. returned' = Count(replies')
    <3>1. returned' = Append(returned, replies') /\ returned = Count(replies)
      BY <1>2 DEF Replies, Inv, RepliesReturned
    <3> QED BY <1>1, <3>1, CountAppend
  <2>2. returned' \in Seq(1..MaxReplies) /\ Len(returned') = replies'
    BY <1>1, <2>1, CountSeq
  <2>3. TypeOK'
    BY <1>1, <2>2 DEF Inv, TypeOK
  <2>4. Prefixes'
    BY <1>4, <2>1, <2>2 DEF Prefixes, Count
  <2> QED BY <1>1, <1>4, <2>1, <2>3, <2>4
          DEF Inv, SocketSet, ReleasedIsClosed, RepliesReturned
<1>3. CASE ws # "OPEN"
  <2>1. returned' = returned
    BY <1>3 DEF Replies
  <2>2. TypeOK'
    BY <1>1, <2>1 DEF Inv, TypeOK
  <2>3. Prefixes'
    BY <1>4, <2>1 DEF Inv, Prefixes
  <2> QED BY <1>1, <1>3, <1>4, <2>1, <2>2, <2>3
          DEF Inv, SocketSet, ReleasedIsClosed, RepliesReturned
<1> QED BY <1>2, <1>3

(* The remote is reached, or is not, or ends, or fails. *)
LEMMA RemoteStepInv ==
  ASSUME Inv,
         Forwarded \/ NotStarted \/ RemoteFails \/ \E wasClean \in BOOLEAN : RemoteClosed(wasClean)
  PROVE  Inv'
<1>1. /\ UNCHANGED <<remoteSocket, storage, released, blank, sent, written, dropped, replies,
                     returned>>
      /\ ws' = ws \/ (ws = "OPEN" /\ ws' = "CLOSING")
      /\ code' \in {0, 1000, 4005, 4010, 4011}
      /\ \/ remote = "forwarding" /\ remote' \in {"CONNECTING", "failed"}
         \/ remote \in {"CONNECTING", "OPEN", "CLOSING"} /\ remote' = "CLOSED"
  BY DEF Forwarded, NotStarted, RemoteFails, RemoteClosed, close, Inv, TypeOK
<1>2. TypeOK'
  BY <1>1 DEF Inv, TypeOK, State
<1>3. SocketSet' /\ ReleasedIsClosed'
  BY <1>1 DEF Inv, SocketSet, ReleasedIsClosed
<1>4. RepliesReturned' /\ NothingLost' /\ Prefixes' /\ OnceDropped'
  BY <1>1 DEF Inv, RepliesReturned, NothingLost, Prefixes, OnceDropped, Due
<1> QED BY <1>2, <1>3, <1>4 DEF Inv

(* Every step preserves the invariant. *)
LEMMA StepInv == Inv /\ [Next]_vars => Inv'
<1> SUFFICES ASSUME Inv, [Next]_vars PROVE Inv'
  OBVIOUS
<1>1. CASE UNCHANGED vars
  BY <1>1 DEF Inv, vars, TypeOK, SocketSet, OnceDropped, ReleasedIsClosed, RepliesReturned,
               NothingLost, Prefixes, Due
<1>2. CASE Next
  BY <1>2, ClientSendsInv, RemoteOpenInv, ClientGoneInv, RepliesInv, RemoteStepInv DEF Next
<1> QED BY <1>1, <1>2

(* Every variable of the proxy keeps its type, and an open remote leaves   *)
(* nothing in storage.                                                     *)
THEOREM TypeCorrect == Spec => []TypeOK
<1>1. Inv => TypeOK
  BY DEF Inv
<1> QED BY <1>1, InitInv, StepInv, PTL DEF Spec

(* For any number of messages, and whenever the ends open, close or fail:  *)
(* while both live, each message of the client is written or in storage.   *)
THEOREM NothingIsLost == Spec => []NothingLost
<1>1. Inv => NothingLost
  BY DEF Inv
<1> QED BY <1>1, InitInv, StepInv, PTL DEF Spec

(* What each end has received is a prefix of what the other has sent.      *)
THEOREM PrefixesOnly == Spec => []Prefixes
<1>1. Inv => Prefixes
  BY DEF Inv
<1> QED BY <1>1, InitInv, StepInv, PTL DEF Spec

-----------------------------------------------------------------------------
(* MsePlayer.                                                              *)

(* The least of a set of numbers. *)
LEMMA Least ==
  ASSUME NEW T \in SUBSET Nat, T # {}
  PROVE  \E x \in T : \A y \in T : x <= y
<1> DEFINE R == {ss \in Nat \X Nat : ss[1] < ss[2]}
<1>1. IsWellFoundedOn(R, Nat)
  BY NatLessThanWellFounded DEF OpToRel
<1>2. \E x \in T : \A y \in T : ~(<<y, x>> \in R)
  <2> HIDE DEF R
  <2> QED BY <1>1, WFMin
<1>3. \A x, y \in Nat : <<y, x>> \notin R => x <= y
  OBVIOUS
<1> QED BY <1>2, <1>3

Frame == [number : Nat, key : BOOLEAN]

(* What checkForIFrame works on has these fields. *)
HasFields(r) ==
  \E w, b, l, g, k :
    r = [waiting |-> w, blocks |-> b, listening |-> l, given |-> g, kept |-> k]

(* A frame is given, while others wait only if it is the one that makes    *)
(* cleanSourceBuffer listen, or it is kept, to wait for a removal if there *)
(* is a converter.                                                         *)
Taken(r, q, f) ==
  /\ HasFields(q)
  /\ \/ q.given = Append(r.given, f) /\ q.kept = <<>> /\ (r.waiting => q.listening /\ q.waiting)
     \/ q.given = r.given /\ q.kept = <<f>> /\ (converter => q.waiting)

LEMMA CheckTakes ==
  ASSUME NEW r, HasFields(r), r.kept = <<>>, NEW f
  PROVE  Taken(r, Video!checkForIFrame(r, f), f)
<1>1. PICK w, b, l, g, k :
        r = [waiting |-> w, blocks |-> b, listening |-> l, given |-> g, kept |-> k]
  BY DEF HasFields
<1>2. k = <<>> /\ Append(<<>>, f) = <<f>>
  BY <1>1
<1>3. PICK q : q = Video!checkForIFrame(r, f)
  OBVIOUS
<1>4. \E w2, b2, l2, g2, k2 :
        /\ q = [waiting |-> w2, blocks |-> b2, listening |-> l2, given |-> g2, kept |-> k2]
        /\ \/ g2 = Append(g, f) /\ k2 = <<>> /\ (w => l2 /\ w2)
           \/ g2 = g /\ k2 = <<f>> /\ (converter => w2)
  <2> DEFINE block == f.key /\ buffered
  <2>1. CASE converter /\ block /\ b + 1 > Limit
    <3>1. q = [waiting |-> TRUE, blocks |-> b + 1, listening |-> TRUE, given |-> Append(g, f), kept |-> k]
      BY <1>1, <1>3, <2>1 DEF Video!checkForIFrame, Video!give
    <3> QED BY <1>2, <3>1
  <2>2. CASE converter /\ block /\ ~(b + 1 > Limit) /\ w
    <3>1. q = [waiting |-> w, blocks |-> b + 1, listening |-> l, given |-> g, kept |-> Append(k, f)]
      BY <1>1, <1>3, <2>2 DEF Video!checkForIFrame, Video!give
    <3> QED BY <1>2, <2>2, <3>1
  <2>3. CASE converter /\ block /\ ~(b + 1 > Limit) /\ ~w
    <3>1. q = [waiting |-> w, blocks |-> b + 1, listening |-> l, given |-> Append(g, f), kept |-> k]
      BY <1>1, <1>3, <2>3 DEF Video!checkForIFrame, Video!give
    <3> QED BY <1>2, <2>3, <3>1
  <2>4. CASE converter /\ ~block /\ w
    <3>1. q = [waiting |-> w, blocks |-> b, listening |-> l, given |-> g, kept |-> Append(k, f)]
      BY <1>1, <1>3, <2>4 DEF Video!checkForIFrame, Video!give
    <3> QED BY <1>2, <2>4, <3>1
  <2>5. CASE converter /\ ~block /\ ~w
    <3>1. q = [waiting |-> w, blocks |-> b, listening |-> l, given |-> Append(g, f), kept |-> k]
      BY <1>1, <1>3, <2>5 DEF Video!checkForIFrame, Video!give
    <3> QED BY <1>2, <2>5, <3>1
  <2>6. CASE ~converter
    <3>1. q = [waiting |-> w, blocks |-> b, listening |-> l, given |-> g, kept |-> Append(k, f)]
      BY <1>1, <1>3, <2>6 DEF Video!checkForIFrame
    <3> QED BY <1>2, <2>6, <3>1
  <2> QED BY <2>1, <2>2, <2>3, <2>4, <2>5, <2>6
<1>5. PICK w2, b2, l2, g2, k2 :
        /\ q = [waiting |-> w2, blocks |-> b2, listening |-> l2, given |-> g2, kept |-> k2]
        /\ \/ g2 = Append(g, f) /\ k2 = <<>> /\ (w => l2 /\ w2)
           \/ g2 = g /\ k2 = <<f>> /\ (converter => w2)
  BY <1>4
<1>6. Taken(r, q, f)
  BY <1>1, <1>5 DEF Taken, HasFields
<1> QED BY <1>3, <1>6

(* The loop of cleanSourceBuffer, frame by frame. *)
Step(acc, f) ==
  IF acc.kept # <<>> THEN [acc EXCEPT !.kept = Append(@, f)] ELSE Video!checkForIFrame(acc, f)

After(g, n, r, queue) ==
  g = [i \in 0..n |-> IF i = 0 THEN r ELSE Step(g[i - 1], queue[i])]

LEMMA AfterExists ==
  ASSUME NEW n \in Nat, NEW r, NEW queue
  PROVE  \E g : After(g, n, r, queue)
<1> DEFINE T == {m \in Nat : ~\E g : After(g, m, r, queue)}
<1> SUFFICES ASSUME T # {} PROVE FALSE
  OBVIOUS
<1>1. PICK m \in T : \A j \in T : m <= j
  <2>1. T \in SUBSET Nat
    OBVIOUS
  <2> HIDE DEF T
  <2> QED BY <2>1, Least
<1>2. CASE m = 0
  <2> DEFINE g == [i \in 0..0 |-> r]
  <2>1. \A i \in 0..0 : (IF i = 0 THEN r ELSE Step(g[i - 1], queue[i])) = r
    OBVIOUS
  <2>2. After(g, m, r, queue)
    BY <1>2, <2>1 DEF After
  <2> HIDE DEF g
  <2> QED BY <1>1, <2>2
<1>3. CASE m # 0
  <2>1. m - 1 \in Nat /\ m - 1 \notin T
    BY <1>1, <1>3
  <2>2. PICK h : After(h, m - 1, r, queue)
    BY <2>1
  <2> DEFINE g == [i \in 0..m |-> IF i = m THEN Step(h[m - 1], queue[m]) ELSE h[i]]
  <2>3. \A i \in 0..(m - 1) : h[i] = IF i = 0 THEN r ELSE Step(h[i - 1], queue[i])
    BY <2>2 DEF After
  <2>4. \A i \in 0..m : i # m => i \in 0..(m - 1) /\ (i # 0 => i - 1 \in 0..m /\ i - 1 # m)
    BY <1>1
  <2>5. m \in 0..m /\ m - 1 \in 0..m /\ m - 1 # m
    BY <1>1, <2>1
  <2>6. ASSUME NEW i \in 0..m
        PROVE  g[i] = IF i = 0 THEN r ELSE Step(g[i - 1], queue[i])
    <3>1. CASE i = m
      <4>1. g[i] = Step(h[m - 1], queue[m]) /\ g[m - 1] = h[m - 1]
        BY <2>5, <3>1
      <4> HIDE DEF g
      <4> QED BY <1>3, <3>1, <4>1
    <3>2. CASE i # m /\ i # 0
      <4>1. g[i] = h[i] /\ g[i - 1] = h[i - 1]
        BY <2>4, <3>2
      <4> HIDE DEF g
      <4> QED BY <2>3, <2>4, <3>2, <4>1
    <3>3. CASE i # m /\ i = 0
      <4>1. g[i] = h[i]
        BY <3>3
      <4> HIDE DEF g
      <4> QED BY <2>3, <2>4, <3>3, <4>1
    <3> QED BY <3>1, <3>2, <3>3
  <2>7. g = [i \in 0..m |-> g[i]]
    OBVIOUS
  <2> HIDE DEF g
  <2>8. After(g, m, r, queue)
    BY <2>6, <2>7 DEF After
  <2> QED BY <1>1, <2>8
<1> QED BY <1>2, <1>3

(* It gives the first frames of the queue, and keeps the others, which     *)
(* then wait for another removal.                                          *)
Split(q, queue, n) ==
  /\ converter /\ q.kept # <<>> => q.waiting
  /\ \E k \in 0..n : /\ q.given = [j \in 1..k |-> queue[j]]
                     /\ q.kept = [j \in 1..(n - k) |-> queue[k + j]]

LEMMA StepSplits ==
  ASSUME NEW queue \in Seq(Frame), NEW i \in 1..Len(queue), NEW acc,
         HasFields(acc), Split(acc, queue, i - 1)
  PROVE  HasFields(Step(acc, queue[i])) /\ Split(Step(acc, queue[i]), queue, i)
<1>1. PICK k \in 0..(i - 1) : /\ acc.given = [j \in 1..k |-> queue[j]]
                              /\ acc.kept = [j \in 1..(i - 1 - k) |-> queue[k + j]]
  BY DEF Split
<1>2. PICK q : q = Step(acc, queue[i])
  OBVIOUS
<1>0. i \in Nat /\ k \in Nat /\ Len(queue) \in Nat /\ \A j \in 1..i : queue[j] \in Frame
  OBVIOUS
<1>3. CASE acc.kept # <<>>
  <2>1. q = [acc EXCEPT !.kept = Append(@, queue[i])]
    BY <1>2, <1>3 DEF Step
  <2>2. HasFields(q) /\ q.given = acc.given /\ q.kept = Append(acc.kept, queue[i])
    BY <2>1 DEF HasFields
  <2>3. k < i - 1
    <3>1. SUFFICES ASSUME k = i - 1 PROVE FALSE
      BY <1>0
    <3>2. acc.kept = [j \in 1..0 |-> queue[k + j]]
      BY <1>0, <1>1, <3>1
    <3> QED BY <1>3, <3>2
  <2>4. q.kept = [j \in 1..(i - k) |-> queue[k + j]]
    <3> DEFINE n == i - 1 - k
    <3>1. n \in Nat /\ i - k = n + 1 /\ k + (n + 1) = i
      BY <1>0, <2>3
    <3>2. acc.kept \in Seq(Frame) /\ Len(acc.kept) = n
      BY <1>0, <1>1, <3>1
    <3>3. \A j \in 1..n : acc.kept[j] = queue[k + j]
      BY <1>1
    <3> HIDE DEF n
    <3>4. Append(acc.kept, queue[i]) = [j \in 1..(n + 1) |-> IF j = n + 1 THEN queue[i] ELSE acc.kept[j]]
      BY <3>1, <3>2
    <3>5. \A j \in 1..(n + 1) : (IF j = n + 1 THEN queue[i] ELSE acc.kept[j]) = queue[k + j]
      BY <3>1, <3>3
    <3> QED BY <2>2, <3>1, <3>4, <3>5
  <2>5. Split(q, queue, i)
    <3>1. converter => q.waiting
      <4>1. q.waiting = acc.waiting
        BY <2>1 DEF HasFields
      <4>2. converter => acc.waiting
        BY <1>3, Zenon DEF Split
      <4> QED BY <4>1, <4>2, Zenon
    <3>2. \E h \in 0..i : /\ q.given = [j \in 1..h |-> queue[j]]
                         /\ q.kept = [j \in 1..(i - h) |-> queue[h + j]]
      <4>1. k \in 0..i /\ q.given = [j \in 1..k |-> queue[j]]
        BY <1>0, <1>1, <2>2
      <4> QED BY <2>4, <4>1
    <3> QED BY <3>1, <3>2, Zenon DEF Split
  <2> QED BY <1>2, <2>2, <2>5
<1>4. CASE acc.kept = <<>>
  <2>1. Taken(acc, q, queue[i])
    BY <1>2, <1>4, CheckTakes DEF Step
  <2>2. k = i - 1
    <3>1. SUFFICES ASSUME i - 1 - k > 0 PROVE FALSE
      BY <1>0
    <3>2. DOMAIN acc.kept = 1..(i - 1 - k) /\ DOMAIN acc.kept = {}
      BY <1>1, <1>4
    <3>3. 1 \in 1..(i - 1 - k)
      BY <1>0, <3>1
    <3> QED BY <3>2, <3>3
  <2>3. CASE q.given = Append(acc.given, queue[i]) /\ q.kept = <<>>
    <3>1. acc.given \in Seq(Frame) /\ Len(acc.given) = k
      <4>1. acc.given = [j \in 1..k |-> queue[j]]
        BY <1>1
      <4>2. \A j \in 1..k : queue[j] \in Frame
        BY <1>0
      <4>3. [j \in 1..k |-> queue[j]] \in Seq(Frame) /\ Len([j \in 1..k |-> queue[j]]) = k
        BY <1>0, <4>2
      <4> QED BY <4>1, <4>3
    <3>2. Append(acc.given, queue[i]) = [j \in 1..(k + 1) |-> IF j = k + 1 THEN queue[i] ELSE acc.given[j]]
      BY <1>0, <3>1
    <3>3. \A j \in 1..(k + 1) : (IF j = k + 1 THEN queue[i] ELSE acc.given[j]) = queue[j]
      BY <1>0, <1>1, <2>2
    <3>4. q.given = [j \in 1..i |-> queue[j]]
      BY <1>0, <2>2, <2>3, <3>2, <3>3
    <3>5. q.kept = [j \in 1..(i - i) |-> queue[i + j]]
      BY <1>0, <2>3
    <3>6. Split(q, queue, i)
      <4>1. i \in 0..i
        BY <1>0
      <4> QED BY <3>4, <3>5, <4>1 DEF Split
    <3> QED BY <1>2, <2>1, <3>6 DEF Taken
  <2>4. CASE q.given = acc.given /\ q.kept = <<queue[i]>> /\ (converter => q.waiting)
    <3>1. q.kept = [j \in 1..(i - k) |-> queue[k + j]]
      <4>1. i - k = 1 /\ k + 1 = i
        BY <1>0, <2>2
      <4>2. \A j \in 1..1 : queue[k + j] = queue[i]
        BY <4>1
      <4>3. q.kept = <<queue[i]>>
        BY <2>4
      <4>4. <<queue[i]>> = [j \in 1..1 |-> queue[k + j]]
        BY <4>2
      <4> QED BY <4>1, <4>3, <4>4
    <3>2. Split(q, queue, i)
      <4>1. k \in 0..i
        BY <1>0, <2>2
      <4>2. q.given = [j \in 1..k |-> queue[j]]
        BY <1>1, <2>4
      <4>3. \E h \in 0..i : /\ q.given = [j \in 1..h |-> queue[j]]
                           /\ q.kept = [j \in 1..(i - h) |-> queue[h + j]]
        BY <3>1, <4>1, <4>2
      <4> QED BY <2>4, <4>3, Zenon DEF Split
    <3> QED BY <1>2, <2>1, <3>2 DEF Taken
  <2> QED BY <2>1, <2>3, <2>4 DEF Taken
<1> QED BY <1>3, <1>4

LEMMA DrainSplits ==
  ASSUME NEW queue \in Seq(Frame), NEW r, HasFields(r), r.given = <<>>, r.kept = <<>>
  PROVE  Split(Video!drain(r, queue), queue, Len(queue))
<1> DEFINE n == Len(queue)
           after == CHOOSE g : g = [i \in 0..Len(queue) |->
                      IF i = 0 THEN r
                      ELSE IF g[i - 1].kept # <<>> THEN [g[i - 1] EXCEPT !.kept = Append(@, queue[i])]
                      ELSE Video!checkForIFrame(g[i - 1], queue[i])]
<1>1. n \in Nat
  OBVIOUS
<1>2. Video!drain(r, queue) = after[n]
  BY DEF Video!drain
<1>3. After(after, n, r, queue)
  <2>1. \E g : g = [i \in 0..Len(queue) |->
                     IF i = 0 THEN r
                     ELSE IF g[i - 1].kept # <<>> THEN [g[i - 1] EXCEPT !.kept = Append(@, queue[i])]
                     ELSE Video!checkForIFrame(g[i - 1], queue[i])]
    <3>1. \E g : After(g, Len(queue), r, queue)
      BY <1>1, AfterExists
    <3> QED BY <3>1, Zenon DEF After, Step
  <2>2. after = [i \in 0..Len(queue) |->
                     IF i = 0 THEN r
                     ELSE IF after[i - 1].kept # <<>> THEN [after[i - 1] EXCEPT !.kept = Append(@, queue[i])]
                     ELSE Video!checkForIFrame(after[i - 1], queue[i])]
    BY <2>1, Zenon
  <2> HIDE DEF after
  <2> QED BY <2>2 DEF After, Step
<1> HIDE DEF after
<1>4. /\ after[0] = r
      /\ \A i \in 1..n : after[i] = Step(after[i - 1], queue[i])
  <2>1. \A i \in 0..n : after[i] = IF i = 0 THEN r ELSE Step(after[i - 1], queue[i])
    BY <1>3 DEF After
  <2>2. 0 \in 0..n /\ \A i \in 1..n : i \in 0..n /\ i # 0
    BY <1>1
  <2> QED BY <2>1, <2>2
<1> DEFINE T == {i \in 0..n : ~(HasFields(after[i]) /\ Split(after[i], queue, i))}
<1>5. T = {}
  <2> SUFFICES ASSUME T # {} PROVE FALSE
    OBVIOUS
  <2>1. PICK i \in T : \A j \in T : i <= j
    <3>1. T \in SUBSET Nat
      OBVIOUS
    <3> HIDE DEF T
    <3> QED BY <3>1, Least
  <2>2. i # 0
    <3>1. Split(r, queue, 0)
      <4>1. 0 \in 0..0 /\ <<>> = [j \in 1..0 |-> queue[j]] /\ <<>> = [j \in 1..(0 - 0) |-> queue[0 + j]]
        OBVIOUS
      <4> QED BY <4>1 DEF Split
    <3> QED BY <1>4, <2>1, <3>1
  <2>3. i \in 1..n /\ i - 1 \in 0..n /\ i - 1 \notin T
    BY <1>1, <2>1, <2>2
  <2>4. HasFields(after[i - 1]) /\ Split(after[i - 1], queue, i - 1)
    BY <2>3
  <2>5. HasFields(after[i]) /\ Split(after[i], queue, i)
    BY <1>4, <2>3, <2>4, StepSplits
  <2> QED BY <2>1, <2>5
<1>6. n \in 0..n
  BY <1>1
<1> QED BY <1>2, <1>5, <1>6

-----------------------------------------------------------------------------
(* Frames that wait are newer than those handed to a converter, each in    *)
(* the order in which they came, until a key frame overtakes or a removal  *)
(* leaves them.                                                            *)
PlayerTypes == pushed \in Nat /\ appended \in Seq(Nat) /\ frames \in Seq(Frame)

Ordered ==
  /\ \A i, j \in 1..Len(appended) : i < j => appended[i] < appended[j]
  /\ \A i, j \in 1..Len(frames) : i < j => frames[i].number < frames[j].number
  /\ \A i \in 1..Len(appended), j \in 1..Len(frames) : appended[i] < frames[j].number
  /\ \A i \in 1..Len(appended) : appended[i] <= pushed
  /\ \A i \in 1..Len(frames) : frames[i].number <= pushed

(* What is queued waits for a removal, unless one has left it. *)
Held ==
  /\ playing => converter
  /\ frames # <<>> /\ ~left => waitUntilSegmentRemoved

PlayerInv == PlayerTypes /\ Held /\ (~overtaken /\ ~left => Ordered)

LEMMA PushOrdered ==
  ASSUME PlayerInv, Video!pushFrame
  PROVE  PlayerInv'
<1>1. PICK r0, frame, r :
        /\ r0 = Video!Fields(waitUntilSegmentRemoved, blocks)
        /\ r = Video!checkForIFrame(r0, frame)
        /\ \E key \in BOOLEAN : frame = [number |-> pushed + 1, key |-> key]
        /\ appended' = appended \o [i \in DOMAIN r.given |-> r.given[i].number]
        /\ frames' = frames \o r.kept /\ pushed' = pushed + 1
        /\ overtaken' = (overtaken \/ (r.listening /\ frames # <<>>))
        /\ waitUntilSegmentRemoved' = r.waiting
        /\ UNCHANGED <<playing, converter, left>> /\ playing
  BY DEF Video!pushFrame, Video!Given
<1>2. HasFields(r0) /\ r0.kept = <<>> /\ r0.given = <<>>
  BY <1>1 DEF HasFields, Video!Fields
<1>3. Taken(r0, r, frame)
  BY <1>1, <1>2, CheckTakes
<1>4. /\ pushed \in Nat /\ appended \in Seq(Nat) /\ frames \in Seq(Frame)
      /\ frame.number = pushed + 1 /\ frame \in Frame
  BY <1>1 DEF PlayerInv, PlayerTypes, Frame
<1>8. /\ appended' = appended \o [i \in DOMAIN r.given |-> r.given[i].number]
      /\ frames' = frames \o r.kept /\ pushed' = pushed + 1
  BY <1>1
<1>9. ~overtaken' => ~overtaken /\ (~r.listening \/ frames = <<>>)
  BY <1>1, Zenon
<1>10. /\ left' = left /\ playing' = playing /\ converter' = converter /\ converter
       /\ waitUntilSegmentRemoved' = r.waiting
       /\ r0.waiting = waitUntilSegmentRemoved
  BY <1>1 DEF PlayerInv, Held, Video!Fields
<1>5. CASE r.given = <<frame>> /\ r.kept = <<>> /\ (r0.waiting => r.listening /\ r.waiting)
  <2>1. appended' = Append(appended, pushed + 1) /\ frames' = frames
    <3>1. [i \in DOMAIN r.given |-> r.given[i].number] = <<pushed + 1>>
      BY <1>4, <1>5
    <3>2. appended \o <<pushed + 1>> = Append(appended, pushed + 1) /\ frames \o <<>> = frames
      BY <1>4
    <3> QED BY <1>5, <1>8, <3>1, <3>2
  <2>2. PlayerTypes'
    BY <1>4, <1>8, <2>1 DEF PlayerTypes
  <2>3. ASSUME ~overtaken', ~left' PROVE Ordered'
    <3>1. ~overtaken /\ ~left /\ frames = <<>>
      <4>1. ~left /\ ~overtaken /\ (~r.listening \/ frames = <<>>)
        BY <1>9, <1>10, <2>3, Zenon
      <4>2. frames # <<>> => waitUntilSegmentRemoved
        BY <4>1, Zenon DEF PlayerInv, Held
      <4> QED BY <1>5, <1>10, <4>1, <4>2, Zenon
    <3>2. Ordered
      BY <3>1 DEF PlayerInv
    <3>3. /\ Len(appended') = Len(appended) + 1 /\ appended'[Len(appended) + 1] = pushed + 1
          /\ \A i \in 1..Len(appended) : appended'[i] = appended[i] /\ appended[i] \in Nat
          /\ Len(appended) \in Nat /\ Len(frames') = 0
      BY <1>4, <2>1, <3>1
    <3>4. \A i \in 1..(Len(appended) + 1) : i \in 1..Len(appended) \/ i = Len(appended) + 1
      BY <3>3
    <3>5. \A i \in 1..Len(appended) : appended[i] <= pushed
      BY <3>2 DEF Ordered
    <3>6. \A i, j \in 1..(Len(appended) + 1) : i < j => appended'[i] < appended'[j]
      <4> SUFFICES ASSUME NEW i \in 1..(Len(appended) + 1), NEW j \in 1..(Len(appended) + 1), i < j
                   PROVE  appended'[i] < appended'[j]
        OBVIOUS
      <4>1. i \in 1..Len(appended)
        BY <3>3
      <4>2. CASE j \in 1..Len(appended)
        BY <3>2, <3>3, <4>1, <4>2 DEF Ordered
      <4>3. CASE j = Len(appended) + 1
        <5>1. appended'[i] = appended[i] /\ appended[i] \in Nat /\ appended[i] <= pushed
          BY <3>3, <3>5, <4>1
        <5>2. appended'[j] = pushed + 1
          BY <3>3, <4>3
        <5>3. pushed \in Nat
          BY <1>4
        <5> QED BY <5>1, <5>2, <5>3
      <4> QED BY <3>4, <4>2, <4>3
    <3>7. \A i \in 1..(Len(appended) + 1) : appended'[i] <= pushed'
      <4> SUFFICES ASSUME NEW i \in 1..(Len(appended) + 1) PROVE appended'[i] <= pushed'
        OBVIOUS
      <4>1. CASE i \in 1..Len(appended)
        <5>1. appended'[i] = appended[i] /\ appended[i] \in Nat /\ appended[i] <= pushed
          BY <3>3, <3>5, <4>1
        <5>2. pushed \in Nat /\ pushed' = pushed + 1
          BY <1>4, <1>8
        <5> QED BY <5>1, <5>2
      <4>2. CASE i = Len(appended) + 1
        BY <1>4, <1>8, <3>3, <4>2
      <4> QED BY <3>4, <4>1, <4>2
    <3>8. Len(frames') = 0 /\ 1..0 = {}
      BY <3>3
    <3> QED BY <3>3, <3>6, <3>7, <3>8 DEF Ordered
  <2>4. Held'
    <3>1. frames # <<>> /\ ~left => waitUntilSegmentRemoved
      BY Zenon DEF PlayerInv, Held
    <3> QED BY <1>5, <1>10, <2>1, <3>1, Zenon DEF Held
  <2> QED BY <2>2, <2>3, <2>4 DEF PlayerInv
<1>6. CASE r.given = <<>> /\ r.kept = <<frame>> /\ (converter => r.waiting)
  <2>1. frames' = Append(frames, frame) /\ appended' = appended
    <3>1. [i \in DOMAIN r.given |-> r.given[i].number] = <<>>
      BY <1>6
    <3>2. appended \o <<>> = appended /\ frames \o <<frame>> = Append(frames, frame)
      BY <1>4
    <3> QED BY <1>6, <1>8, <3>1, <3>2
  <2>2. PlayerTypes'
    BY <1>4, <1>8, <2>1 DEF PlayerTypes
  <2>3. ASSUME ~overtaken', ~left' PROVE Ordered'
    <3>1. Ordered
      <4>1. ~overtaken /\ ~left
        BY <1>9, <1>10, <2>3, Zenon
      <4> QED BY <4>1, Zenon DEF PlayerInv
    <3>2. /\ Len(frames') = Len(frames) + 1 /\ frames'[Len(frames) + 1] = frame
          /\ \A i \in 1..Len(frames) : frames'[i] = frames[i] /\ frames[i] \in Frame
          /\ Len(frames) \in Nat /\ Len(appended) \in Nat
          /\ \A i \in 1..Len(appended) : appended[i] \in Nat
      BY <1>4, <2>1
    <3>3. \A i \in 1..Len(frames) : frames[i].number \in Nat
      BY <3>2 DEF Frame
    <3>4. \A i \in 1..(Len(frames) + 1) : i \in 1..Len(frames) \/ i = Len(frames) + 1
      BY <3>2
    <3>5. \A i \in 1..Len(frames') : frames'[i].number <= pushed'
      BY <1>4, <1>8, <3>1, <3>2, <3>3, <3>4 DEF Ordered
    <3>6. \A i, j \in 1..(Len(frames) + 1) : i < j => frames'[i].number < frames'[j].number
      <4> SUFFICES ASSUME NEW i \in 1..(Len(frames) + 1), NEW j \in 1..(Len(frames) + 1), i < j
                   PROVE  frames'[i].number < frames'[j].number
        OBVIOUS
      <4>1. i \in 1..Len(frames)
        BY <3>2
      <4>2. CASE j \in 1..Len(frames)
        BY <3>1, <3>2, <4>1, <4>2 DEF Ordered
      <4>3. CASE j = Len(frames) + 1
        <5>1. frames[i].number <= pushed
          BY <3>1, <4>1 DEF Ordered
        <5> QED BY <1>4, <3>2, <3>3, <4>1, <4>3, <5>1
      <4> QED BY <3>4, <4>2, <4>3
    <3>7. \A i \in 1..Len(appended), j \in 1..(Len(frames) + 1) : appended[i] < frames'[j].number
      <4> SUFFICES ASSUME NEW i \in 1..Len(appended), NEW j \in 1..(Len(frames) + 1)
                   PROVE  appended[i] < frames'[j].number
        OBVIOUS
      <4>1. CASE j \in 1..Len(frames)
        BY <3>1, <3>2, <4>1 DEF Ordered
      <4>2. CASE j = Len(frames) + 1
        <5>1. appended[i] <= pushed
          BY <3>1 DEF Ordered
        <5> QED BY <1>4, <3>2, <4>2, <5>1
      <4> QED BY <3>4, <4>1, <4>2
    <3>8. \A i \in 1..Len(appended) : appended[i] <= pushed'
      BY <1>4, <1>8, <3>1, <3>2 DEF Ordered
    <3>9. \A i, j \in 1..Len(appended) : i < j => appended[i] < appended[j]
      BY <3>1 DEF Ordered
    <3> QED BY <2>1, <3>2, <3>5, <3>6, <3>7, <3>8, <3>9 DEF Ordered
  <2>4. Held'
    BY <1>6, <1>10, Zenon DEF Held
  <2> QED BY <2>2, <2>3, <2>4 DEF PlayerInv
<1>7. Append(<<>>, frame) = <<frame>>
  BY <1>4
<1> QED BY <1>2, <1>3, <1>5, <1>6, <1>7 DEF Taken

LEMMA Joined ==
  ASSUME NEW S, NEW p \in Seq(S), NEW q \in Seq(S)
  PROVE  /\ p \o q \in Seq(S) /\ Len(p \o q) = Len(p) + Len(q)
         /\ \A i \in 1..Len(p) : (p \o q)[i] = p[i]
         /\ \A i \in 1..Len(q) : (p \o q)[Len(p) + i] = q[i]
OBVIOUS

LEMMA CleanOrdered ==
  ASSUME PlayerInv, Video!Removal, UNCHANGED <<pushed, overtaken, playing, converter>>
  PROVE  PlayerInv'
<1>1. PICK r0, r :
        /\ r0 = Video!Fields(FALSE, blocks - Removed) /\ r = Video!drain(r0, frames)
        /\ appended' = appended \o [i \in DOMAIN r.given |-> r.given[i].number]
        /\ frames' = r.kept /\ waitUntilSegmentRemoved' = r.waiting
        /\ left' = (left \/ (~converter /\ frames # <<>>))
  BY DEF Video!Removal, Video!Given
<1>2. HasFields(r0) /\ r0.kept = <<>> /\ r0.given = <<>>
  BY <1>1 DEF HasFields, Video!Fields
<1>3. pushed \in Nat /\ appended \in Seq(Nat) /\ frames \in Seq(Frame)
  BY DEF PlayerInv, PlayerTypes
<1>10. Split(r, frames, Len(frames))
  BY <1>1, <1>2, <1>3, DrainSplits
<1>4. PICK k \in 0..Len(frames) :
        /\ r.given = [j \in 1..k |-> frames[j]]
        /\ r.kept = [j \in 1..(Len(frames) - k) |-> frames[k + j]]
  BY <1>10 DEF Split
<1> DEFINE a == Len(appended)  n == Len(frames)
<1>5. /\ a \in Nat /\ n \in Nat /\ k \in Nat /\ k <= n
      /\ \A i \in 1..a : appended[i] \in Nat
      /\ \A i \in 1..n : frames[i] \in Frame /\ frames[i].number \in Nat
  <2>1. a \in Nat /\ n \in Nat /\ k \in Nat /\ k <= n
    BY <1>3
  <2>2. (\A i \in 1..a : appended[i] \in Nat) /\ (\A i \in 1..n : frames[i] \in Frame)
    BY <1>3
  <2>3. \A i \in 1..n : frames[i].number \in Nat
    BY <2>2 DEF Frame
  <2> QED BY <2>1, <2>2, <2>3
<1>6. /\ Len(frames') = n - k /\ \A i \in 1..(n - k) : frames'[i] = frames[k + i] /\ k + i \in 1..n
      /\ frames' \in Seq(Frame)
  <2> HIDE DEF n
  <2>1. PICK m \in Nat : m = n - k
    <3>1. n - k \in Nat
      BY <1>5
    <3> QED BY <3>1
  <2>2. frames' = [j \in 1..m |-> frames[k + j]]
    BY <1>1, <1>4, <2>1 DEF n
  <2>3. ASSUME NEW i \in 1..m PROVE k + i \in 1..n /\ frames[k + i] \in Frame
    <3>1. k + i \in 1..n
      BY <1>5, <2>1
    <3> QED BY <1>5, <3>1
  <2>4. frames' \in Seq(Frame) /\ Len(frames') = m
    <3>1. PICK h : h = [j \in 1..m |-> frames[k + j]]
      OBVIOUS
    <3>2. h \in [1..m -> Frame]
      BY <2>3, <3>1
    <3>3. h \in Seq(Frame) /\ Len(h) = m
      BY <2>1, <3>2
    <3> QED BY <2>2, <3>1, <3>3
  <2> QED BY <2>1, <2>2, <2>3, <2>4
<1>7. /\ Len(appended') = a + k /\ \A i \in 1..a : appended'[i] = appended[i]
      /\ \A i \in 1..k : appended'[a + i] = frames[i].number /\ i \in 1..n
      /\ appended' \in Seq(Nat)
  <2> DEFINE s == [i \in 1..k |-> frames[i].number]
  <2>1. [i \in DOMAIN r.given |-> r.given[i].number] = s
    BY <1>4
  <2>2. s \in Seq(Nat) /\ Len(s) = k /\ \A i \in 1..k : s[i] = frames[i].number
    BY <1>5
  <2>3. appended' = appended \o s
    BY <1>1, <2>1
  <2> HIDE DEF s
  <2>4. /\ (appended \o s) \in Seq(Nat) /\ Len(appended \o s) = Len(appended) + Len(s)
        /\ \A i \in 1..Len(appended) : (appended \o s)[i] = appended[i]
        /\ \A i \in 1..Len(s) : (appended \o s)[Len(appended) + i] = s[i]
    <3>1. PICK p \in Seq(Nat) : p = appended
      BY <1>3
    <3>2. PICK q \in Seq(Nat) : q = s
      BY <2>2
    <3>3. /\ p \o q \in Seq(Nat) /\ Len(p \o q) = Len(p) + Len(q)
          /\ \A i \in 1..Len(p) : (p \o q)[i] = p[i]
          /\ \A i \in 1..Len(q) : (p \o q)[Len(p) + i] = q[i]
      BY Joined
    <3> QED BY <3>1, <3>2, <3>3
  <2>5. \A i \in 1..k : i \in 1..n
    BY <1>5
  <2> QED BY <2>2, <2>3, <2>4, <2>5
<1>8. PlayerTypes'
  BY <1>3, <1>6, <1>7 DEF PlayerTypes
<1>11. Held'
  <2>1. playing' => converter'
    BY DEF PlayerInv, Held
  <2>2. CASE converter
    BY <1>1, <1>10, <2>1, <2>2, Zenon DEF Split, Held
  <2>3. CASE ~converter /\ frames # <<>>
    BY <1>1, <2>1, <2>3, Zenon DEF Held
  <2>4. CASE frames = <<>>
    <3>1. Len(frames') = 0
      BY <1>5, <1>6, <2>4
    <3>2. frames' = <<>>
      BY <1>6, <3>1
    <3> QED BY <2>1, <3>2, Zenon DEF Held
  <2> QED BY <2>2, <2>3, <2>4
<1>9. ASSUME ~overtaken, ~left' PROVE Ordered'
  <2>1. Ordered
    <3>1. ~left
      BY <1>1, <1>9, Zenon
    <3> QED BY <1>9, <3>1 DEF PlayerInv
  <2>2. \A i \in 1..(a + k) : i \in 1..a \/ \E j \in 1..k : i = a + j
    <3>1. \A i \in 1..(a + k) : i \notin 1..a => i - a \in 1..k /\ i = a + (i - a)
      BY <1>5
    <3> QED BY <3>1
  <2> HIDE DEF a, n
  <2>3. \A i \in 1..(a + k), j \in 1..(a + k) : i < j => appended'[i] < appended'[j]
    <3> SUFFICES ASSUME NEW i \in 1..(a + k), NEW j \in 1..(a + k), i < j
                 PROVE  appended'[i] < appended'[j]
      OBVIOUS
    <3>1. CASE i \in 1..a /\ j \in 1..a
      BY <1>7, <2>1, <3>1 DEF Ordered, a
    <3>2. CASE i \in 1..a /\ j \notin 1..a
      <4>1. PICK y \in 1..k : j = a + y
        BY <2>2, <3>2
      <4> QED BY <1>7, <2>1, <3>2, <4>1 DEF Ordered, a, n
    <3>3. CASE i \notin 1..a
      <4>1. PICK x \in 1..k : i = a + x
        BY <2>2, <3>3
      <4>2. PICK y \in 1..k : j = a + y
        <5>1. j \notin 1..a
          BY <1>5, <4>1
        <5> QED BY <2>2, <5>1
      <4>3. x < y
        BY <1>5, <4>1, <4>2
      <4> QED BY <1>7, <2>1, <4>1, <4>2, <4>3 DEF Ordered, n
    <3> QED BY <3>1, <3>2, <3>3
  <2>4. \A i, j \in 1..(n - k) : i < j => frames'[i].number < frames'[j].number
    <3> SUFFICES ASSUME NEW i \in 1..(n - k), NEW j \in 1..(n - k), i < j
                 PROVE  frames'[i].number < frames'[j].number
      OBVIOUS
    <3>1. k + i < k + j
      BY <1>5
    <3> QED BY <1>6, <2>1, <3>1 DEF Ordered, n
  <2>5. \A i \in 1..(a + k), j \in 1..(n - k) : appended'[i] < frames'[j].number
    <3> SUFFICES ASSUME NEW i \in 1..(a + k), NEW j \in 1..(n - k)
                 PROVE  appended'[i] < frames'[j].number
      OBVIOUS
    <3>1. CASE i \in 1..a
      BY <1>6, <1>7, <2>1, <3>1 DEF Ordered, a, n
    <3>2. CASE i \notin 1..a
      <4>1. PICK x \in 1..k : i = a + x
        BY <2>2, <3>2
      <4>2. x < k + j
        BY <1>5
      <4> QED BY <1>6, <1>7, <2>1, <4>1, <4>2 DEF Ordered, n
    <3> QED BY <3>1, <3>2
  <2>6. \A i \in 1..(a + k) : appended'[i] <= pushed
    <3> SUFFICES ASSUME NEW i \in 1..(a + k) PROVE appended'[i] <= pushed
      OBVIOUS
    <3>1. CASE i \in 1..a
      BY <1>7, <2>1, <3>1 DEF Ordered, a
    <3>2. CASE i \notin 1..a
      <4>1. PICK x \in 1..k : i = a + x
        BY <2>2, <3>2
      <4> QED BY <1>7, <2>1, <4>1 DEF Ordered, n
    <3> QED BY <3>1, <3>2
  <2>7. \A i \in 1..(n - k) : frames'[i].number <= pushed
    BY <1>6, <2>1 DEF Ordered, n
  <2> QED BY <1>6, <1>7, <2>3, <2>4, <2>5, <2>6, <2>7 DEF Ordered
<1>12. overtaken' = overtaken
  OBVIOUS
<1>13. ASSUME ~overtaken', ~left' PROVE Ordered'
  <2>1. ~overtaken
    BY <1>12, <1>13
  <2> QED BY <1>9, <1>13, <2>1
<1> QED BY <1>8, <1>11, <1>13 DEF PlayerInv

(* The other steps leave the order as it is; a removal that fails also     *)
(* says so, and a stop or a late updateend changes no frame.               *)
LEMMA RestOrdered ==
  ASSUME PlayerInv, UNCHANGED <<pushed, overtaken, appended, frames>>,
         left => left', playing' => converter',
         \/ waitUntilSegmentRemoved' = waitUntilSegmentRemoved
         \/ frames # <<>> => left'
  PROVE  PlayerInv'
<1>1. PlayerTypes'
  BY DEF PlayerInv, PlayerTypes
<1>2. Held'
  BY Zenon DEF PlayerInv, Held
<1>3. Ordered => Ordered'
  BY DEF Ordered
<1> QED BY <1>1, <1>2, <1>3, Zenon DEF PlayerInv

LEMMA CleanInv ==
  ASSUME PlayerInv, Video!cleanSourceBuffer, UNCHANGED <<pushed, overtaken, playing, converter>>
  PROVE  PlayerInv'
<1>1. CASE Video!Removal
  BY <1>1, CleanOrdered
<1>2. CASE Video!RemovalFails
  <2>1. UNCHANGED <<pushed, overtaken, appended, frames>> /\ left' = (left \/ frames # <<>>)
    BY <1>2 DEF Video!RemovalFails
  <2>2. playing' => converter'
    BY DEF PlayerInv, Held
  <2> QED BY <2>1, <2>2, RestOrdered
<1> QED BY <1>1, <1>2 DEF Video!cleanSourceBuffer

(* FramesInOrder of MsePlayer, for any number of frames and stops, and     *)
(* whatever the limits: cleanSourceBuffer drains the queue from its head   *)
(* and puts back the frame that is held back at the head, and while frames *)
(* are queued the others wait, unless a removal has left them.             *)
THEOREM FramesStayInOrder == Video!Spec => []FramesInOrder
<1>1. Video!Init => PlayerInv
  BY DEF Video!Init, PlayerInv, PlayerTypes, Held, Ordered
<1>2. PlayerInv /\ [Video!Next]_(Video!vars) => PlayerInv'
  <2> SUFFICES ASSUME PlayerInv, [Video!Next]_(Video!vars) PROVE PlayerInv'
    OBVIOUS
  <2>0. playing => converter
    BY DEF PlayerInv, Held
  <2>1. CASE Video!pushFrame
    BY <2>1, PushOrdered
  <2>2. CASE Video!updateend
    <3>1. CASE Video!cleanSourceBuffer
      BY <2>2, <3>1, CleanInv DEF Video!updateend
    <3>2. CASE ~Video!cleanSourceBuffer
      <4>1. UNCHANGED <<pushed, overtaken, appended, frames, left, playing, converter,
                        waitUntilSegmentRemoved>>
        BY <2>2, <3>2 DEF Video!updateend
      <4> QED BY <2>0, <4>1, RestOrdered
    <3> QED BY <3>1, <3>2
  <2>3. CASE Video!lateUpdateend
    <3>1. CASE Video!cleanSourceBuffer
      BY <2>3, <3>1, CleanInv DEF Video!lateUpdateend
    <3>2. CASE ~Video!cleanSourceBuffer
      <4>1. UNCHANGED <<pushed, overtaken, appended, frames, left, playing, converter,
                        waitUntilSegmentRemoved>>
        BY <2>3, <3>2 DEF Video!lateUpdateend
      <4> QED BY <2>0, <4>1, RestOrdered
    <3> QED BY <3>1, <3>2
  <2>4. CASE Video!play
    BY <2>4, RestOrdered DEF Video!play, Video!historyVars
  <2>5. CASE Video!stop
    BY <2>5, RestOrdered DEF Video!stop
  <2>6. CASE UNCHANGED Video!vars
    <3>1. UNCHANGED <<pushed, overtaken, appended, frames, left, playing, converter,
                      waitUntilSegmentRemoved>>
      BY <2>6 DEF Video!vars, Video!historyVars, Video!playerVars, Video!bufferVars
    <3> QED BY <2>0, <3>1, RestOrdered
  <2> QED BY <2>1, <2>2, <2>3, <2>4, <2>5, <2>6 DEF Video!Next
<1>3. PlayerInv => FramesInOrder
  <2> SUFFICES ASSUME PlayerInv, ~overtaken, ~left, NEW i \in 1..(Len(appended) - 1)
               PROVE  appended[i] < appended[i + 1]
    BY DEF FramesInOrder, Video!FramesInOrder
  <2>1. Len(appended) \in Nat
    BY DEF PlayerInv, PlayerTypes
  <2>2. i \in 1..Len(appended) /\ i + 1 \in 1..Len(appended) /\ i < i + 1
    BY <2>1
  <2> QED BY <2>2 DEF PlayerInv, Ordered
<1> QED BY <1>1, <1>2, <1>3, PTL DEF Video!Spec

=============================================================================
