--------------------------- MODULE FilePush_proofs ---------------------------
(***************************************************************************)
(* Proofs about FilePush: SuccessMeansWritten and ErrorHasCause for any    *)
(* files and sizes, and the ids that Bounds describes.                     *)
(***************************************************************************)
EXTENDS FilePush, FiniteSetTheorems, SequenceTheorems, TLAPS

CommandType == {"NEW", "START", "APPEND", "FINISH"}
AnswerType == {"NEW_PUSH_ID", "NO_ERROR"}
Command == [ch : File, type : CommandType, id : Nat, k : Nat]
Response == [ch : File, type : AnswerType \cup {"closed", "failed"}, id : Nat]

ClientTypes ==
  /\ pc \in [File -> CommandType \cup {"idle", "end"}]
  /\ size \in [File -> Nat]
  /\ sentChunks \in [File -> Nat]
  /\ pushId \in [File -> Nat]
  /\ waiting \in [File -> BOOLEAN]
  /\ newWaiters \in Seq(File)
  /\ channelOf \in SUBSET (Nat \X File)
  /\ open \in [File -> BOOLEAN]
  /\ report \in [File -> {"none", "success", "error"}]
  /\ released \in BOOLEAN

ReaderTypes ==
  /\ state \in [File -> {"INITIAL", "NEW", "START", "APPEND", "FINISH"}]
  /\ readerId \in [File -> Nat]
  /\ disposed \in [File -> BOOLEAN]
  /\ creating \in [File -> {"no", "pending", "refused"}]
  /\ finishing \in [File -> BOOLEAN]
  /\ stream \in [File -> Seq(Nat)]
  /\ acked \in [File -> Nat]
  /\ streams \in [File -> Nat]
  /\ transfer \in [File -> {"none", "active", "ended", "failed"}]
  /\ fileId \in 1..MaxId

(* Types of all variables. *)
TypeOK ==
  /\ ClientTypes /\ ReaderTypes
  /\ toServer \in Seq(Command)
  /\ toClient \in Seq(Response)

(* The file of n chunks. *)
Chunks(n) == [i \in 1..n |-> i]

(* The reader of channel c. *)
ReaderOK(c) ==
  LET got == Len(stream[c]) IN
  /\ stream[c] = Chunks(got)
  /\ state[c] \in {"INITIAL", "NEW"} => got = 0
  /\ state[c] \in {"APPEND", "FINISH"} => got > 0
  /\ got = 0 => ~finishing[c] /\ streams[c] = 0
  /\ got > 0 => streams[c] = 1
  /\ creating[c] # "no" <=> transfer[c] = "none" /\ got > 0
  /\ creating[c] # "no" <=> state[c] = "START" /\ got > 0
  /\ creating[c] # "no" => acked[c] = 0 \/ got = size[c]
  /\ acked[c] <= got /\ got <= acked[c] + 1
  /\ got = 0 => transfer[c] = "none"
  /\ finishing[c] => creating[c] # "no"
  /\ finishing[c] \/ state[c] = "FINISH" => acked[c] = got /\ got = size[c]
  /\ transfer[c] \in {"ended", "failed"} => disposed[c]
  /\ transfer[c] = "ended" => state[c] = "FINISH"

(* The push of file c. *)
ClientOK(c) ==
  /\ sentChunks[c] <= size[c]
  /\ pc[c] \in {"idle", "NEW", "START"} => sentChunks[c] = 0
  /\ pc[c] \in {"APPEND", "FINISH"} => sentChunks[c] > 0
  /\ pc[c] = "FINISH" => sentChunks[c] = size[c]
  /\ pc[c] = "idle" => state[c] = "INITIAL" /\ ~waiting[c] /\ ~disposed[c] /\ report[c] = "none"
  /\ report[c] = "success" => transfer[c] = "ended"
  /\ report[c] = "error" => size[c] = 0 \/ transfer[c] = "failed"

(* Ids: the reader of a channel has one when it was asked for it, and no   *)
(* two have the same.                                                      *)
Started == {c \in File : state[c] # "INITIAL"}
Count == Cardinality(Started)

IdsOK ==
  /\ \A c \in File : state[c] = "INITIAL" <=> readerId[c] = NoId
  /\ \A c, d \in Started : readerId[c] = readerId[d] => c = d
  /\ \/ /\ fileId = FirstId + Count
        /\ \A c \in Started : readerId[c] > FirstId /\ readerId[c] <= fileId
     \/ /\ fileId + MaxId = FirstId + Count
        /\ MaxId <= MaxInResponse
        /\ \A c \in Started : readerId[c] > FirstId \/ readerId[c] <= fileId
        /\ \A c \in Started : readerId[c] <= MaxId
  /\ \A c \in File : pushId[c] \in {NoId, readerId[c]}
  /\ \A p \in channelOf : p[1] = readerId[p[2]] /\ p[1] # NoId

Asked(c) == \E i \in 1..Len(toServer) : toServer[i].ch = c

(* The reader of c before it handles the command pc[c], and after.         *)
Before(c) ==
  LET got == Len(stream[c]) IN
  /\ acked[c] = got
  /\ ~finishing[c]
  /\ pc[c] = "NEW" => state[c] = "INITIAL"
  /\ pc[c] = "START" => state[c] = "NEW"
  /\ pc[c] = "APPEND" => /\ sentChunks[c] = got + 1
                         /\ state[c] = IF got = 0 THEN "START" ELSE "APPEND"
  /\ pc[c] = "FINISH" => got = size[c] /\ state[c] \in {"START", "APPEND"}
After(c) ==
  LET got == Len(stream[c]) IN
  /\ pc[c] = "NEW" => state[c] = "NEW"
  /\ pc[c] = "START" => state[c] = "START" /\ got = 0
  /\ pc[c] = "APPEND" => sentChunks[c] = got /\ state[c] \in {"START", "APPEND"} /\ ~finishing[c]
  /\ pc[c] = "FINISH" => finishing[c] \/ state[c] = "FINISH"

(* Command pc[c] has been answered.                                        *)
Answered(c) ==
  /\ acked[c] = Len(stream[c]) \/ disposed[c]
  /\ pc[c] = "FINISH" => transfer[c] = "ended"

(* The push knows the id of its reader.                                    *)
Knows(c) == /\ pushId[c] = readerId[c] /\ readerId[c] # NoId
            /\ <<readerId[c], c>> \in channelOf

TurnOK(c) ==
  /\ pc[c] \in {"idle", "NEW"} => ~disposed[c]
  /\ pc[c] = "end" => disposed[c]
  /\ ~open[c] /\ pc[c] # "idle" => disposed[c]
  /\ pc[c] \in {"START", "APPEND", "FINISH"} \/ (pc[c] = "NEW" /\ ~waiting[c]) => Knows(c)
  /\ pc[c] \in CommandType /\ ~waiting[c] => Answered(c)
  /\ pc[c] \in CommandType /\ ~disposed[c] => IF Asked(c) THEN Before(c) ELSE After(c)

(* A command on its way is the one pushFile waits for.                     *)
CommandOK(m) ==
  /\ m.type = pc[m.ch] /\ waiting[m.ch]
  /\ m.type # "NEW" => m.id = readerId[m.ch]
  /\ m.type = "START" => m.k = size[m.ch]
  /\ m.type = "APPEND" => m.k = sentChunks[m.ch]
InServer(x) == \E i \in 1..Len(toServer) : toServer[i] = x
ToServerOK ==
  /\ \A x \in Command : InServer(x) => CommandOK(x)
  /\ \A i, j \in 1..Len(toServer) : toServer[i].ch = toServer[j].ch => i = j

(* An answer on its way is the one pushFile waits for; a channel is closed *)
(* as failed for a cause.                                                  *)
ResponseOK(m) ==
  /\ m.type \in AnswerType => /\ pc[m.ch] \in CommandType /\ waiting[m.ch]
                              /\ m.id = readerId[m.ch] /\ m.id # NoId
                              /\ m.type = "NEW_PUSH_ID" <=> pc[m.ch] = "NEW"
                              /\ Answered(m.ch) /\ ~Asked(m.ch)
  /\ m.type \notin AnswerType => disposed[m.ch]
  /\ m.type = "failed" => size[m.ch] = 0 \/ transfer[m.ch] = "failed"
InClient(x) == \E i \in 1..Len(toClient) : toClient[i] = x
ToClientOK ==
  /\ \A x \in Response : InClient(x) => ResponseOK(x)
  /\ \A i, j \in 1..Len(toClient) :
       toClient[i].type \in AnswerType /\ toClient[j].type \in AnswerType
       /\ toClient[i].ch = toClient[j].ch => i = j

(* Ids are answered in the order in which pushFile waits for them.         *)
IsNew(m, c) == m.ch = c /\ m.type = "NEW"
IsNewId(m, c) == m.ch = c /\ m.type = "NEW_PUSH_ID"
Overflown == fileId > MaxInResponse

WaitersOK ==
  /\ \A c \in File : (pc[c] = "NEW" /\ waiting[c]) <=> \E i \in 1..Len(newWaiters) : newWaiters[i] = c
  /\ \A i, j \in 1..Len(newWaiters) : newWaiters[i] = newWaiters[j] => i = j
  /\ \A i \in 1..Len(newWaiters) :
       \/ Overflown
       \/ \E k \in 1..Len(toServer) : IsNew(toServer[k], newWaiters[i])
       \/ \E k \in 1..Len(toClient) : IsNewId(toClient[k], newWaiters[i])
  /\ \A j \in 1..Len(newWaiters) : \A i \in 1..(j - 1) :
       /\ \A k \in 1..Len(toServer) : IsNew(toServer[k], newWaiters[j]) =>
            \/ Overflown
            \/ \E l \in 1..(k - 1) : IsNew(toServer[l], newWaiters[i])
            \/ \E l \in 1..Len(toClient) : IsNewId(toClient[l], newWaiters[i])
       /\ \A k \in 1..Len(toClient) : IsNewId(toClient[k], newWaiters[j]) =>
            \E l \in 1..(k - 1) : IsNewId(toClient[l], newWaiters[i])

(* After FilePushHandler.release nothing is sent any more.                 *)
Silence ==
  /\ toServer = <<>> /\ toClient = <<>>
  /\ \A c \in File : ~open[c] /\ (pc[c] # "idle" => disposed[c])

(* The inductive invariant. *)
Inv ==
  /\ TypeOK
  /\ \A c \in File : ReaderOK(c) /\ ClientOK(c)
  /\ IdsOK
  /\ released => Silence
  /\ ~released => (\A c \in File : TurnOK(c)) /\ ToServerOK /\ ToClientOK /\ WaitersOK

-----------------------------------------------------------------------------
(* Types. *)

LEMMA ResponseType ==
  ASSUME NEW c \in File, NEW id \in Nat, NEW type \in AnswerType \cup {"closed", "failed"}
  PROVE  /\ response(c, id, type) \in Response
         /\ response(c, id, type).ch = c /\ response(c, id, type).id = id
         /\ response(c, id, type).type = type
BY DEF response, Response

LEMMA CommandFields ==
  ASSUME NEW c \in File, NEW type \in CommandType, NEW id \in Nat, NEW k \in Nat
  PROVE  /\ command(c, type, id, k) \in Command
         /\ command(c, type, id, k).ch = c /\ command(c, type, id, k).id = id
         /\ command(c, type, id, k).type = type /\ command(c, type, id, k).k = k
BY DEF command, Command

(* What Append and Tail do, by index.                                      *)
LEMMA Appended ==
  ASSUME NEW S, NEW s \in Seq(S), NEW m \in S
  PROVE  /\ Append(s, m) \in Seq(S)
         /\ Len(Append(s, m)) = Len(s) + 1
         /\ \A i \in 1..Len(s) : Append(s, m)[i] = s[i]
         /\ Append(s, m)[Len(s) + 1] = m
BY AppendProperties

LEMMA Tailed ==
  ASSUME NEW S, NEW s \in Seq(S), s # <<>>
  PROVE  /\ Tail(s) \in Seq(S)
         /\ Len(s) \in Nat /\ Len(s) > 0
         /\ Len(Tail(s)) = Len(s) - 1
         /\ \A i \in 1..Len(Tail(s)) : Tail(s)[i] = s[i + 1] /\ i + 1 \in 1..Len(s)
         /\ Head(s) = s[1] /\ s[1] \in S /\ 1 \in 1..Len(s)
<1>1. Tail(s) \in Seq(S) /\ Len(Tail(s)) = Len(s) - 1
  BY HeadTailProperties
<1>2. Len(s) \in Nat /\ Len(s) > 0 /\ s \in [1..Len(s) -> S]
  BY EmptySeq, LenProperties
<1>3. Head(s) = s[1] /\ \A i \in 1..Len(Tail(s)) : Tail(s)[i] = s[i + 1]
  BY HeadTailProperties
<1> QED BY <1>1, <1>2, <1>3

LEMMA InitTypes == ASSUME Bounds, Init PROVE TypeOK
<1>1. <<>> \in Seq(File) /\ <<>> \in Seq(Nat) /\ <<>> \in Seq(Command) /\ <<>> \in Seq(Response)
  BY EmptySeq
<1>2. ClientTypes
  BY <1>1 DEF Init, ClientTypes, NoId
<1>3. stream \in [File -> Seq(Nat)]
  BY <1>1 DEF Init
<1>4. ReaderTypes
  BY <1>3 DEF Init, ReaderTypes, NoId, Bounds
<1> QED BY <1>1, <1>2, <1>4 DEF Init, TypeOK

LEMMA PushFileTypes ==
  ASSUME Bounds, TypeOK, NEW f \in File, NEW n \in 0..MaxSize, pushFile(f, n) PROVE TypeOK'
<1>1. n \in Nat /\ 0 \in Nat /\ NoId \in Nat
  BY DEF Bounds, NoId
<1>2. newWaiters' \in Seq(File)
  BY AppendProperties DEF pushFile, TypeOK, ClientTypes
<1>3. toServer' \in Seq(Command)
  <2>1. command(f, "NEW", NoId, 0) \in Command
    BY <1>1, CommandFields DEF CommandType
  <2> QED BY <2>1, Appended DEF pushFile, TypeOK
<1>4. ClientTypes'
  BY <1>1, <1>2 DEF pushFile, TypeOK, ClientTypes, CommandType
<1>5. ReaderTypes' /\ toClient' \in Seq(Response)
  BY DEF pushFile, TypeOK, ReaderTypes, readerVars
<1> QED BY <1>3, <1>4, <1>5 DEF TypeOK

LEMMA ContinueTypes ==
  ASSUME Bounds, TypeOK, NEW f \in File, Continue(f) PROVE TypeOK'
<1>1. /\ pc' \in [File -> CommandType \cup {"idle", "end"}]
      /\ waiting' \in [File -> BOOLEAN]
      /\ toServer' \in Seq(Command)
  <2>1. ASSUME NEW type \in CommandType, NEW k \in Nat, Ask(f, type, k)
        PROVE  <1>1!:
    <3>1. PICK c \in File : \/ /\ toServer' = Append(toServer, command(c, type, pushId[f], k))
                               /\ pc' = [pc EXCEPT ![f] = type]
                               /\ waiting' = [waiting EXCEPT ![f] = TRUE]
                            \/ pc' = [pc EXCEPT ![f] = "end"] /\ UNCHANGED <<toServer, waiting>>
      BY <2>1 DEF Ask
    <3>2. pushId[f] \in Nat
      BY DEF TypeOK, ClientTypes
    <3>3. command(c, type, pushId[f], k) \in Command
      BY <3>2, CommandFields
    <3>4. toServer' \in Seq(Command)
      BY <3>1, <3>3, Appended, SMTT(20) DEF TypeOK
    <3> QED BY <3>1, <3>4, ZenonT(30) DEF TypeOK, ClientTypes
  <2>2. size[f] \in Nat /\ sentChunks[f] + 1 \in Nat /\ 0 \in Nat
    BY DEF TypeOK, ClientTypes
  <2>3. CASE pc[f] = "FINISH" /\ pc' = [pc EXCEPT ![f] = "end"] /\ UNCHANGED <<waiting, toServer>>
    BY <2>3 DEF TypeOK, ClientTypes
  <2> QED BY <2>1, <2>2, <2>3 DEF Continue, CommandType
<1>2. sentChunks' \in [File -> Nat] /\ report' \in [File -> {"none", "success", "error"}]
  <2>1. sentChunks' = sentChunks \/ sentChunks' = [sentChunks EXCEPT ![f] = @ + 1]
    BY DEF Continue
  <2>2. report' = report \/ report' = [report EXCEPT ![f] = "success"]
    BY DEF Continue
  <2>3. sentChunks \in [File -> Nat] /\ report \in [File -> {"none", "success", "error"}]
    BY DEF TypeOK, ClientTypes
  <2>4. sentChunks' \in [File -> Nat]
    BY <2>1, <2>3
  <2>5. report' \in [File -> {"none", "success", "error"}]
    BY <2>2, <2>3
  <2> QED BY <2>4, <2>5
<1>3. ClientTypes'
  BY <1>1, <1>2 DEF Continue, TypeOK, ClientTypes
<1>4. ReaderTypes' /\ toClient' \in Seq(Response)
  BY DEF Continue, TypeOK, ReaderTypes, readerVars
<1> QED BY <1>1, <1>3, <1>4 DEF TypeOK

LEMMA ClientReceiveTypes ==
  ASSUME Bounds, TypeOK, ClientReceive PROVE TypeOK'
<1> DEFINE m == Head(toClient)
<1>1. toClient' \in Seq(Response) /\ m \in Response
  BY Tailed DEF ClientReceive, TypeOK
<1>2. m.ch \in File /\ m.id \in Nat
  BY <1>1 DEF Response
<1>3. /\ pushId' \in [File -> Nat] /\ waiting' \in [File -> BOOLEAN]
      /\ newWaiters' \in Seq(File) /\ channelOf' \in SUBSET (Nat \X File)
      /\ open' \in [File -> BOOLEAN] /\ report' \in [File -> {"none", "success", "error"}]
  <2>1. CASE ResponseNew(m)
    <3>1. newWaiters # <<>> => Head(newWaiters) \in File /\ Tail(newWaiters) \in Seq(File)
      BY HeadTailProperties DEF TypeOK, ClientTypes
    <3> HIDE DEF m
    <3>2. newWaiters' \in Seq(File) /\ pushId' \in [File -> Nat] /\ waiting' \in [File -> BOOLEAN]
      BY <1>2, <2>1, <3>1 DEF ResponseNew, shifted, TypeOK, ClientTypes
    <3>3. channelOf' = channelOf \cup {<<m.id, m.ch>>} /\ open' = open /\ report' = report
      BY <2>1 DEF ResponseNew
    <3>4. channelOf' \in SUBSET (Nat \X File)
      BY <1>2, <3>3 DEF TypeOK, ClientTypes
    <3> QED BY <3>2, <3>3, <3>4 DEF TypeOK, ClientTypes
  <2>2. CASE ResponseOk(m) \/ ChannelClosed(m) \/ Undispatched(m)
    <3> HIDE DEF m
    <3> QED BY <1>2, <2>2, ZenonT(30) DEF ResponseOk, ChannelClosed, Undispatched, TypeOK, ClientTypes
  <2> QED BY <2>1, <2>2 DEF ClientReceive
<1>4. ClientTypes'
  BY <1>3 DEF ClientReceive, TypeOK, ClientTypes
<1>5. ReaderTypes' /\ toServer' \in Seq(Command)
  BY DEF ClientReceive, TypeOK, ReaderTypes, readerVars
<1> QED BY <1>1, <1>4, <1>5 DEF TypeOK

LEMMA ConnectionLostTypes ==
  ASSUME Bounds, TypeOK, ConnectionLost PROVE TypeOK'
<1>1. toServer' \in Seq(Command) /\ toClient' \in Seq(Response)
  BY EmptySeq DEF ConnectionLost
<1> QED BY <1>1 DEF ConnectionLost, TypeOK, ClientTypes, ReaderTypes

(* A response is sent, or the reader closes its channel.                   *)
LEMMA SendTypes ==
  ASSUME TypeOK, NEW c \in File, NEW id \in Nat, NEW type \in AnswerType \cup {"closed", "failed"}
  PROVE  Append(toClient, response(c, id, type)) \in Seq(Response)
BY ResponseType, Appended DEF TypeOK

LEMMA CloseTypes ==
  ASSUME TypeOK, NEW c \in File, closeWithError(c)
  PROVE  disposed' \in [File -> BOOLEAN] /\ toClient' \in Seq(Response)
BY SendTypes DEF closeWithError, TypeOK, ReaderTypes, NoId

LEMMA NextIdType ==
  ASSUME Bounds, TypeOK
  PROVE  getNextId \in 1..MaxId /\ getNextId \in Nat
BY DEF Bounds, TypeOK, ReaderTypes, getNextId

LEMMA ReaderReceiveTypes ==
  ASSUME Bounds, TypeOK, ReaderReceive PROVE TypeOK'
<1> DEFINE m == Head(toServer)
<1>1. toServer' \in Seq(Command) /\ m \in Command
  BY Tailed DEF ReaderReceive, TypeOK
<1>2. m.ch \in File /\ m.id \in Nat /\ m.k \in Nat
  BY <1>1 DEF Command
<1>3. ClientTypes'
  BY DEF ReaderReceive, TypeOK, ClientTypes, clientVars
<1>4. acked' = acked /\ transfer' = transfer
  BY DEF ReaderReceive
<1>5. ReaderTypes' /\ toClient' \in Seq(Response)
  <2>1. CASE OnNew(m)
    <3>1. getNextId \in 1..MaxId /\ getNextId \in Nat
      BY NextIdType
    <3>2. Append(toClient, response(m.ch, getNextId, "NEW_PUSH_ID")) \in Seq(Response)
      BY <1>2, <3>1, SendTypes DEF AnswerType
    <3>3. closeWithError(m.ch) => disposed' \in [File -> BOOLEAN] /\ toClient' \in Seq(Response)
      BY <1>2, CloseTypes
    <3> HIDE DEF m
    <3> QED BY <1>2, <1>4, <2>1, <3>1, <3>2, <3>3, ZenonT(30) DEF OnNew, TypeOK, ReaderTypes
  <2>2. CASE OnStart(m)
    <3>1. Append(toClient, response(m.ch, m.id, "NO_ERROR")) \in Seq(Response)
      BY <1>2, SendTypes DEF AnswerType
    <3>2. closeWithError(m.ch) => disposed' \in [File -> BOOLEAN] /\ toClient' \in Seq(Response)
      BY <1>2, CloseTypes
    <3> HIDE DEF m
    <3> QED BY <1>2, <1>4, <2>2, <3>1, <3>2 DEF OnStart, TypeOK, ReaderTypes
  <2>3. CASE OnAppend(m)
    <3>1. closeWithError(m.ch) => disposed' \in [File -> BOOLEAN] /\ toClient' \in Seq(Response)
      BY <1>2, CloseTypes
    <3>2. stream' \in [File -> Seq(Nat)]
      <4>1. <<m.k>> \in Seq(Nat) /\ Append(stream[m.ch], m.k) \in Seq(Nat)
        BY <1>2, AppendProperties DEF TypeOK, ReaderTypes
      <4> HIDE DEF m
      <4>2. \/ stream' = [stream EXCEPT ![m.ch] = <<m.k>>]
            \/ stream' = [stream EXCEPT ![m.ch] = Append(@, m.k)]
            \/ stream' = stream
        BY <2>3 DEF OnAppend
      <4>3. stream \in [File -> Seq(Nat)]
        BY DEF TypeOK, ReaderTypes
      <4> QED BY <1>2, <4>1, <4>2, <4>3
    <3>3. streams' \in [File -> Nat] /\ creating' \in [File -> {"no", "pending", "refused"}]
      <4> HIDE DEF m
      <4>1. streams' = streams \/ streams' = [streams EXCEPT ![m.ch] = @ + 1]
        BY <2>3 DEF OnAppend
      <4>2. creating' = creating \/ creating' = [creating EXCEPT ![m.ch] = "pending"]
        BY <2>3 DEF OnAppend
      <4>3. /\ streams \in [File -> Nat]
            /\ creating \in [File -> {"no", "pending", "refused"}]
        BY DEF TypeOK, ReaderTypes
      <4>4. streams' \in [File -> Nat]
        BY <1>2, <4>1, <4>3
      <4>5. creating' \in [File -> {"no", "pending", "refused"}]
        BY <1>2, <4>2, <4>3
      <4> QED BY <4>4, <4>5
    <3>4. disposed' \in [File -> BOOLEAN] /\ toClient' \in Seq(Response)
      BY <2>3, <3>1 DEF OnAppend, TypeOK, ReaderTypes
    <3>5. UNCHANGED <<state, readerId, fileId, finishing>>
      BY <2>3 DEF OnAppend
    <3> QED BY <1>4, <3>2, <3>3, <3>4, <3>5 DEF TypeOK, ReaderTypes
  <2>4. CASE OnFinish(m)
    <3>1. closeWithError(m.ch) => disposed' \in [File -> BOOLEAN] /\ toClient' \in Seq(Response)
      BY <1>2, CloseTypes
    <3> HIDE DEF m
    <3> QED BY <1>2, <1>4, <2>4, <3>1 DEF OnFinish, Finish, TypeOK, ReaderTypes
  <2>5. CASE UNCHANGED <<state, readerId, disposed, creating, finishing, stream, streams,
                         fileId, toClient>>
    BY <1>4, <2>5 DEF TypeOK, ReaderTypes
  <2> QED BY <2>1, <2>2, <2>3, <2>4, <2>5 DEF ReaderReceive
<1> QED BY <1>1, <1>3, <1>5 DEF TypeOK

LEMMA AdbTypes ==
  ASSUME Bounds, TypeOK, NEW c \in File,
         Created(c) \/ Refused(c) \/ Read(c) \/ PushEnd(c) \/ PushError(c)
  PROVE  TypeOK'
<1>1. readerId[c] \in Nat /\ NoId \in Nat /\ acked[c] + 1 \in Nat
  BY DEF TypeOK, ReaderTypes, NoId
<1>2. CASE Created(c)
  BY <1>2 DEF Created, TypeOK, ReaderTypes, ClientTypes, clientVars
<1>3. CASE Refused(c)
  BY <1>3 DEF Refused, TypeOK, ReaderTypes, ClientTypes, clientVars
<1>4. CASE Read(c)
  <2>1. toClient' \in Seq(Response)
    BY <1>1, <1>4, SendTypes DEF Read, AnswerType
  <2> QED BY <1>1, <1>4, <2>1 DEF Read, TypeOK, ReaderTypes, ClientTypes, clientVars
<1>5. CASE PushEnd(c)
  <2>1. <<response(c, readerId[c], "NO_ERROR"), response(c, NoId, "closed")>> \in Seq(Response)
    BY <1>1, ResponseType DEF AnswerType
  <2>2. toClient' \in Seq(Response)
    BY <1>5, <2>1, ConcatProperties DEF PushEnd, TypeOK
  <2> QED BY <1>5, <2>2 DEF PushEnd, TypeOK, ReaderTypes, ClientTypes, clientVars
<1>6. CASE PushError(c)
  <2>1. disposed' \in [File -> BOOLEAN] /\ toClient' \in Seq(Response)
    BY <1>6, CloseTypes DEF PushError, TypeOK, ReaderTypes
  <2> QED BY <1>6, <2>1 DEF PushError, TypeOK, ReaderTypes, ClientTypes, clientVars
<1> QED BY <1>2, <1>3, <1>4, <1>5, <1>6

LEMMA StepTypes == ASSUME Bounds, TypeOK, [Next]_vars PROVE TypeOK'
<1>1. CASE UNCHANGED vars
  BY <1>1 DEF vars, clientVars, readerVars, TypeOK, ClientTypes, ReaderTypes
<1> QED BY <1>1, PushFileTypes, ContinueTypes, ClientReceiveTypes, ConnectionLostTypes,
           ReaderReceiveTypes, AdbTypes DEF Next

-----------------------------------------------------------------------------
(* The queues.                                                             *)

(* t is s without its first a elements, and maybe longer; none of type T   *)
(* has come or gone.                                                       *)
Shifts(s, t, a, T) ==
  /\ \A k \in 1..Len(s) : s[k].type = T => k > a /\ k - a \in 1..Len(t) /\ t[k - a] = s[k]
  /\ \A k \in 1..Len(t) : t[k].type = T => k + a \in 1..Len(s) /\ s[k + a] = t[k]

LEMMA ShiftsSame ==
  ASSUME NEW S, NEW s \in Seq(S), NEW T
  PROVE  Shifts(s, s, 0, T)
<1>1. Len(s) \in Nat
  BY LenProperties
<1> QED BY <1>1 DEF Shifts

LEMMA ShiftsAppend ==
  ASSUME NEW S, NEW s \in Seq(S), NEW m \in S, NEW T, m.type # T
  PROVE  Shifts(s, Append(s, m), 0, T)
<1> DEFINE t == Append(s, m)
<1>1. Len(s) \in Nat /\ Len(t) = Len(s) + 1 /\ t[Len(s) + 1] = m /\ \A i \in 1..Len(s) : t[i] = s[i]
  BY Appended, LenProperties
<1> HIDE DEF t
<1>2. \A k \in 1..Len(t) : k \in 1..Len(s) \/ k = Len(s) + 1
  BY <1>1
<1>3. Shifts(s, t, 0, T)
  BY <1>1, <1>2 DEF Shifts
<1> QED BY <1>3 DEF t

LEMMA ShiftsTail ==
  ASSUME NEW S, NEW s \in Seq(S), NEW T, s # <<>>, Head(s).type # T
  PROVE  Shifts(s, Tail(s), 1, T)
<1> DEFINE t == Tail(s)
<1>1. /\ Len(s) \in Nat /\ Len(s) > 0 /\ Len(t) = Len(s) - 1
      /\ \A i \in 1..Len(t) : t[i] = s[i + 1] /\ i + 1 \in 1..Len(s)
      /\ s[1].type # T
  BY Tailed
<1> HIDE DEF t
<1>2. \A k \in 1..Len(s) : k = 1 \/ (k > 1 /\ k - 1 \in 1..Len(t) /\ (k - 1) + 1 = k)
  BY <1>1
<1>3. Shifts(s, t, 1, T)
  BY <1>1, <1>2 DEF Shifts
<1> QED BY <1>3 DEF t

(* The order of the ids survives what does not concern it.                 *)
LEMMA WaitersKept ==
  ASSUME TypeOK, TypeOK', WaitersOK, NEW a \in Nat, NEW b \in Nat,
         newWaiters' = newWaiters, fileId' = fileId,
         \A c \in File : (pc'[c] = "NEW" /\ waiting'[c]) <=> (pc[c] = "NEW" /\ waiting[c]),
         Shifts(toServer, toServer', a, "NEW"), Shifts(toClient, toClient', b, "NEW_PUSH_ID")
  PROVE  WaitersOK'
<1>1. /\ Len(toServer) \in Nat /\ Len(toServer') \in Nat
      /\ Len(toClient) \in Nat /\ Len(toClient') \in Nat
      /\ Len(newWaiters) \in Nat
  BY LenProperties DEF TypeOK, ClientTypes
<1>2. Overflown' <=> Overflown
  BY DEF Overflown
<1>3. /\ \A c \in File : (pc'[c] = "NEW" /\ waiting'[c]) <=> \E i \in 1..Len(newWaiters') : newWaiters'[i] = c
      /\ \A i, j \in 1..Len(newWaiters') : newWaiters'[i] = newWaiters'[j] => i = j
  BY DEF WaitersOK
<1>4. /\ \A k \in 1..Len(toServer) : \A c : IsNew(toServer[k], c) =>
           k > a /\ k - a \in 1..Len(toServer') /\ IsNew(toServer'[k - a], c)
      /\ \A k \in 1..Len(toServer') : \A c : IsNew(toServer'[k], c) =>
           k + a \in 1..Len(toServer) /\ IsNew(toServer[k + a], c)
  BY DEF Shifts, IsNew
<1>5. /\ \A k \in 1..Len(toClient) : \A c : IsNewId(toClient[k], c) =>
           k > b /\ k - b \in 1..Len(toClient') /\ IsNewId(toClient'[k - b], c)
      /\ \A k \in 1..Len(toClient') : \A c : IsNewId(toClient'[k], c) =>
           k + b \in 1..Len(toClient) /\ IsNewId(toClient[k + b], c)
  BY DEF Shifts, IsNewId
<1>6. ASSUME NEW i \in 1..Len(newWaiters')
      PROVE  \/ Overflown'
             \/ \E k \in 1..Len(toServer') : IsNew(toServer'[k], newWaiters'[i])
             \/ \E k \in 1..Len(toClient') : IsNewId(toClient'[k], newWaiters'[i])
  <2>1. \/ Overflown
        \/ \E k \in 1..Len(toServer) : IsNew(toServer[k], newWaiters[i])
        \/ \E k \in 1..Len(toClient) : IsNewId(toClient[k], newWaiters[i])
    BY <1>6 DEF WaitersOK
  <2> QED BY <1>2, <1>4, <1>5, <2>1
<1>7. ASSUME NEW j \in 1..Len(newWaiters'), NEW i \in 1..(j - 1)
      PROVE  /\ \A k \in 1..Len(toServer') : IsNew(toServer'[k], newWaiters'[j]) =>
                  \/ Overflown'
                  \/ \E l \in 1..(k - 1) : IsNew(toServer'[l], newWaiters'[i])
                  \/ \E l \in 1..Len(toClient') : IsNewId(toClient'[l], newWaiters'[i])
             /\ \A k \in 1..Len(toClient') : IsNewId(toClient'[k], newWaiters'[j]) =>
                  \E l \in 1..(k - 1) : IsNewId(toClient'[l], newWaiters'[i])
  <2>0. /\ \A k \in 1..Len(toServer) : IsNew(toServer[k], newWaiters[j]) =>
             \/ Overflown
             \/ \E l \in 1..(k - 1) : IsNew(toServer[l], newWaiters[i])
             \/ \E l \in 1..Len(toClient) : IsNewId(toClient[l], newWaiters[i])
        /\ \A k \in 1..Len(toClient) : IsNewId(toClient[k], newWaiters[j]) =>
             \E l \in 1..(k - 1) : IsNewId(toClient[l], newWaiters[i])
    BY <1>7 DEF WaitersOK
  <2>1. ASSUME NEW k \in 1..Len(toServer'), IsNew(toServer'[k], newWaiters'[j])
        PROVE  \/ Overflown'
               \/ \E l \in 1..(k - 1) : IsNew(toServer'[l], newWaiters'[i])
               \/ \E l \in 1..Len(toClient') : IsNewId(toClient'[l], newWaiters'[i])
    <3>1. \/ Overflown
          \/ \E l \in 1..((k + a) - 1) : IsNew(toServer[l], newWaiters[i])
          \/ \E l \in 1..Len(toClient) : IsNewId(toClient[l], newWaiters[i])
      BY <1>4, <2>0, <2>1
    <3>2. CASE \E l \in 1..((k + a) - 1) : IsNew(toServer[l], newWaiters[i])
      <4>1. PICK l \in 1..((k + a) - 1) : IsNew(toServer[l], newWaiters[i])
        BY <3>2
      <4>2. k + a \in 1..Len(toServer)
        BY <1>4, <2>1
      <4>3. l \in 1..Len(toServer)
        BY <1>1, <4>1, <4>2, SMTT(20)
      <4>4. l > a /\ l - a \in 1..Len(toServer') /\ IsNew(toServer'[l - a], newWaiters'[i])
        BY <1>4, <4>1, <4>3
      <4>5. l - a \in 1..(k - 1)
        BY <1>1, <4>1, <4>4, SMTT(20)
      <4> QED BY <4>4, <4>5
    <3> QED BY <1>2, <1>5, <3>1, <3>2
  <2>2. ASSUME NEW k \in 1..Len(toClient'), IsNewId(toClient'[k], newWaiters'[j])
        PROVE  \E l \in 1..(k - 1) : IsNewId(toClient'[l], newWaiters'[i])
    <3>1. k + b \in 1..Len(toClient) /\ \E l \in 1..((k + b) - 1) : IsNewId(toClient[l], newWaiters[i])
      BY <1>5, <2>0, <2>2
    <3>2. PICK l \in 1..((k + b) - 1) : IsNewId(toClient[l], newWaiters[i])
      BY <3>1
    <3>3. l \in 1..Len(toClient)
      BY <1>1, <3>1, <3>2
    <3>4. l > b /\ l - b \in 1..Len(toClient') /\ IsNewId(toClient'[l - b], newWaiters'[i])
      BY <1>5, <3>2, <3>3
    <3>5. l - b \in 1..(k - 1)
      BY <1>1, <3>2, <3>4, SMTT(20)
    <3> QED BY <3>4, <3>5
  <2> QED BY <2>1, <2>2
<1> HIDE DEF IsNew, IsNewId, Overflown
<1>8. (\A i \in 1..Len(newWaiters') :
        \/ Overflown'
        \/ \E k \in 1..Len(toServer') : IsNew(toServer'[k], newWaiters'[i])
        \/ \E k \in 1..Len(toClient') : IsNewId(toClient'[k], newWaiters'[i]))
  BY <1>6
<1> QED BY <1>3, <1>7, <1>8 DEF WaitersOK

(* A command is sent to a reader that has none to handle.                  *)
LEMMA Sends ==
  ASSUME TypeOK, ToServerOK, NEW m \in Command, toServer' = Append(toServer, m),
         CommandOK(m)', ~Asked(m.ch), \A x \in Command : x.ch # m.ch /\ CommandOK(x) => CommandOK(x)'
  PROVE  /\ ToServerOK'
         /\ Asked(m.ch)' /\ \A d \in File : d # m.ch => (Asked(d)' <=> Asked(d))
<1>1. /\ Len(toServer) \in Nat /\ Len(toServer') = Len(toServer) + 1
      /\ toServer'[Len(toServer) + 1] = m
      /\ \A i \in 1..Len(toServer) : toServer'[i] = toServer[i] /\ toServer[i] \in Command
  BY Appended, LenProperties DEF TypeOK
<1>2. \A k \in 1..Len(toServer') : k \in 1..Len(toServer) \/ k = Len(toServer) + 1
  BY <1>1
<1>3. \A k \in 1..Len(toServer) : k \in 1..Len(toServer')
  BY <1>1
<1>4. Len(toServer) + 1 \in 1..Len(toServer')
  BY <1>1
<1>5. \A k \in 1..Len(toServer) : toServer[k].ch # m.ch
  BY DEF Asked
<1>6. ASSUME NEW x \in Command, InServer(x)' PROVE CommandOK(x)'
  <2>1. x = m \/ (InServer(x) /\ x.ch # m.ch)
    BY <1>1, <1>2, <1>5, <1>6 DEF InServer
  <2> QED BY <2>1 DEF ToServerOK
<1>7. \A i, j \in 1..Len(toServer') : toServer'[i].ch = toServer'[j].ch => i = j
  BY <1>1, <1>2, <1>5 DEF ToServerOK
<1>8. Asked(m.ch)' /\ \A d \in File : d # m.ch => (Asked(d)' <=> Asked(d))
  BY <1>1, <1>2, <1>3, <1>4 DEF Asked
<1> QED BY <1>6, <1>7, <1>8 DEF ToServerOK

(* The reader takes a command.                                             *)
LEMMA Takes ==
  ASSUME TypeOK, ToServerOK, toServer # <<>>, toServer' = Tail(toServer),
         NEW m \in Command, m = Head(toServer),
         \A x \in Command : x.ch # m.ch /\ CommandOK(x) => CommandOK(x)'
  PROVE  /\ ToServerOK'
         /\ CommandOK(m) /\ Asked(m.ch)
         /\ ~Asked(m.ch)' /\ \A d \in File : d # m.ch => (Asked(d)' <=> Asked(d))
<1>1. /\ Len(toServer) \in Nat /\ Len(toServer) > 0 /\ Len(toServer') = Len(toServer) - 1
      /\ toServer[1] = m
      /\ \A i \in 1..Len(toServer') : toServer'[i] = toServer[i + 1] /\ i + 1 \in 1..Len(toServer)
      /\ \A i \in 1..Len(toServer) : toServer[i] \in Command
      /\ 1 \in 1..Len(toServer)
  BY Tailed DEF TypeOK
<1>2. \A k \in 1..Len(toServer) : k = 1 \/ (k - 1 \in 1..Len(toServer') /\ (k - 1) + 1 = k)
  BY <1>1
<1>3. \A k \in 1..Len(toServer') : toServer'[k].ch # m.ch
  <2> SUFFICES ASSUME NEW k \in 1..Len(toServer'), toServer'[k].ch = m.ch PROVE FALSE
    OBVIOUS
  <2>1. toServer[k + 1].ch = toServer[1].ch /\ k + 1 \in 1..Len(toServer) /\ k + 1 # 1
    BY <1>1
  <2> QED BY <1>1, <2>1 DEF ToServerOK
<1>4. ASSUME NEW x \in Command, InServer(x)' PROVE CommandOK(x)'
  <2>1. InServer(x) /\ x.ch # m.ch
    BY <1>1, <1>3, <1>4 DEF InServer
  <2> QED BY <2>1 DEF ToServerOK
<1>5. \A i, j \in 1..Len(toServer') : toServer'[i].ch = toServer'[j].ch => i = j
  <2> SUFFICES ASSUME NEW i \in 1..Len(toServer'), NEW j \in 1..Len(toServer'),
                      toServer'[i].ch = toServer'[j].ch
               PROVE  i = j
    OBVIOUS
  <2>1. i + 1 = j + 1
    BY <1>1 DEF ToServerOK
  <2> QED BY <1>1, <2>1
<1>6. CommandOK(m) /\ Asked(m.ch)
  BY <1>1 DEF ToServerOK, Asked, InServer
<1>7. ~Asked(m.ch)' /\ \A d \in File : d # m.ch => (Asked(d)' <=> Asked(d))
  <2>1. ~Asked(m.ch)'
    BY <1>3 DEF Asked
  <2>2. ASSUME NEW d \in File, d # m.ch, Asked(d)'
        PROVE  Asked(d)
    BY <1>1, <2>2 DEF Asked
  <2>3. ASSUME NEW d \in File, d # m.ch, Asked(d)
        PROVE  Asked(d)'
    BY <1>1, <1>2, <2>3 DEF Asked
  <2> QED BY <2>1, <2>2, <2>3
<1> QED BY <1>4, <1>5, <1>6, <1>7 DEF ToServerOK

(* A channel answers or is closed.                                         *)
LEMMA Replies ==
  ASSUME TypeOK, ToClientOK, NEW m \in Response, toClient' = Append(toClient, m),
         ResponseOK(m)',
         m.type \in AnswerType =>
           \A i \in 1..Len(toClient) : toClient[i].type \in AnswerType => toClient[i].ch # m.ch,
         \A x \in Response : InClient(x) => ResponseOK(x)'
  PROVE  ToClientOK'
<1>1. /\ Len(toClient) \in Nat /\ Len(toClient') = Len(toClient) + 1
      /\ toClient'[Len(toClient) + 1] = m
      /\ \A i \in 1..Len(toClient) : toClient'[i] = toClient[i] /\ toClient[i] \in Response
  BY Appended, LenProperties DEF TypeOK
<1>2. \A k \in 1..Len(toClient') : k \in 1..Len(toClient) \/ k = Len(toClient) + 1
  BY <1>1
<1>3. ASSUME NEW x \in Response, InClient(x)' PROVE ResponseOK(x)'
  <2>1. x = m \/ InClient(x)
    BY <1>1, <1>2, <1>3 DEF InClient
  <2> QED BY <2>1
<1>4. \A i, j \in 1..Len(toClient') :
        toClient'[i].type \in AnswerType /\ toClient'[j].type \in AnswerType
        /\ toClient'[i].ch = toClient'[j].ch => i = j
  BY <1>1, <1>2 DEF ToClientOK
<1> QED BY <1>3, <1>4 DEF ToClientOK

(* The client receives a message.                                          *)
LEMMA Receives ==
  ASSUME TypeOK, ToClientOK, toClient # <<>>, toClient' = Tail(toClient),
         NEW m \in Response, m = Head(toClient),
         \A x \in Response : /\ ResponseOK(x)
                             /\ x.type \in AnswerType /\ m.type \in AnswerType => x.ch # m.ch
                             => ResponseOK(x)'
  PROVE  /\ ToClientOK' /\ ResponseOK(m)
         /\ m.type \in AnswerType =>
              \A i \in 1..Len(toClient') : toClient'[i].type \in AnswerType => toClient'[i].ch # m.ch
<1>1. /\ Len(toClient) \in Nat /\ Len(toClient) > 0 /\ Len(toClient') = Len(toClient) - 1
      /\ toClient[1] = m
      /\ \A i \in 1..Len(toClient') : toClient'[i] = toClient[i + 1] /\ i + 1 \in 1..Len(toClient)
      /\ \A i \in 1..Len(toClient) : toClient[i] \in Response
      /\ 1 \in 1..Len(toClient)
  BY Tailed DEF TypeOK
<1>2. ASSUME NEW k \in 1..Len(toClient'), toClient'[k].type \in AnswerType, m.type \in AnswerType
      PROVE  toClient'[k].ch # m.ch
  <2> SUFFICES ASSUME toClient'[k].ch = m.ch PROVE FALSE
    OBVIOUS
  <2>1. toClient[k + 1].ch = toClient[1].ch /\ k + 1 \in 1..Len(toClient) /\ k + 1 # 1
        /\ toClient[k + 1].type \in AnswerType /\ toClient[1].type \in AnswerType
    BY <1>1, <1>2
  <2> QED BY <1>1, <2>1 DEF ToClientOK
<1>3. ASSUME NEW x \in Response, InClient(x)' PROVE ResponseOK(x)'
  <2>1. PICK k \in 1..Len(toClient') : toClient'[k] = x
    BY <1>3 DEF InClient
  <2>2. InClient(x)
    BY <1>1, <2>1 DEF InClient
  <2> QED BY <1>2, <2>1, <2>2 DEF ToClientOK
<1>5. ResponseOK(m)
  BY <1>1 DEF ToClientOK, InClient
<1>4. \A i, j \in 1..Len(toClient') :
        toClient'[i].type \in AnswerType /\ toClient'[j].type \in AnswerType
        /\ toClient'[i].ch = toClient'[j].ch => i = j
  <2> SUFFICES ASSUME NEW i \in 1..Len(toClient'), NEW j \in 1..Len(toClient'),
                      toClient'[i].type \in AnswerType, toClient'[j].type \in AnswerType,
                      toClient'[i].ch = toClient'[j].ch
               PROVE  i = j
    OBVIOUS
  <2>1. i + 1 = j + 1
    BY <1>1 DEF ToClientOK
  <2> QED BY <1>1, <2>1
<1> QED BY <1>2, <1>3, <1>4, <1>5 DEF ToClientOK

(* Nothing is sent, or received.                                           *)
LEMMA QueuesKept ==
  ASSUME TypeOK
  PROVE  /\ ToServerOK /\ toServer' = toServer
              /\ (\A x \in Command : InServer(x) /\ CommandOK(x) => CommandOK(x)')
              => ToServerOK'
         /\ ToClientOK /\ toClient' = toClient
              /\ (\A x \in Response : InClient(x) => ResponseOK(x)')
              => ToClientOK'
         /\ toServer' = toServer => \A d \in File : Asked(d)' <=> Asked(d)
<1>2. ASSUME ToServerOK, toServer' = toServer,
             \A x \in Command : InServer(x) /\ CommandOK(x) => CommandOK(x)'
      PROVE  ToServerOK'
  <2>1. ASSUME NEW x \in Command, InServer(x)' PROVE CommandOK(x)'
    <3>1. InServer(x)
      BY <1>2, <2>1 DEF InServer
    <3> QED BY <1>2, <3>1 DEF ToServerOK
  <2>2. \A i, j \in 1..Len(toServer') : toServer'[i].ch = toServer'[j].ch => i = j
    BY <1>2 DEF ToServerOK
  <2> QED BY <2>1, <2>2 DEF ToServerOK
<1>3. ASSUME ToClientOK, toClient' = toClient,
             \A x \in Response : InClient(x) => ResponseOK(x)'
      PROVE  ToClientOK'
  <2>1. ASSUME NEW x \in Response, InClient(x)' PROVE ResponseOK(x)'
    <3>1. InClient(x)
      BY <1>3, <2>1 DEF InClient
    <3> QED BY <1>3, <3>1
  <2>2. \A i, j \in 1..Len(toClient') :
          toClient'[i].type \in AnswerType /\ toClient'[j].type \in AnswerType
          /\ toClient'[i].ch = toClient'[j].ch => i = j
    BY <1>3 DEF ToClientOK
  <2> QED BY <2>1, <2>2 DEF ToClientOK
<1> QED BY <1>2, <1>3 DEF Asked

-----------------------------------------------------------------------------
(* Files.                                                                  *)

(* A step does not touch the push of file d, neither here nor there.       *)
Same(d) ==
  /\ pc'[d] = pc[d] /\ size'[d] = size[d] /\ sentChunks'[d] = sentChunks[d]
  /\ pushId'[d] = pushId[d] /\ waiting'[d] = waiting[d] /\ open'[d] = open[d]
  /\ report'[d] = report[d]
  /\ state'[d] = state[d] /\ readerId'[d] = readerId[d] /\ disposed'[d] = disposed[d]
  /\ creating'[d] = creating[d] /\ finishing'[d] = finishing[d]
  /\ stream'[d] = stream[d] /\ acked'[d] = acked[d] /\ streams'[d] = streams[d]
  /\ transfer'[d] = transfer[d]

Others(c) == \A d \in File : d # c => Same(d)

LEMMA SameKept ==
  ASSUME NEW d \in File, Same(d)
  PROVE  /\ ReaderOK(d) => ReaderOK(d)'
         /\ ClientOK(d) => ClientOK(d)'
         /\ TurnOK(d) /\ (Asked(d)' <=> Asked(d)) /\ channelOf \subseteq channelOf' => TurnOK(d)'
         /\ \A x \in Command : x.ch = d /\ CommandOK(x) => CommandOK(x)'
         /\ \A x \in Response : x.ch = d /\ ResponseOK(x) /\ (Asked(d)' => Asked(d)) => ResponseOK(x)'
<1>1. ReaderOK(d) => ReaderOK(d)'
  BY DEF Same, ReaderOK
<1>2. ClientOK(d) => ClientOK(d)'
  BY DEF Same, ClientOK
<1>3. Answered(d)' <=> Answered(d)
  BY DEF Same, Answered
<1>4. channelOf \subseteq channelOf' /\ Knows(d) => Knows(d)'
  BY DEF Same, Knows
<1>5. (Before(d)' <=> Before(d)) /\ (After(d)' <=> After(d))
  BY DEF Same, Before, After
<1>6. TurnOK(d) /\ (Asked(d)' <=> Asked(d)) /\ channelOf \subseteq channelOf' => TurnOK(d)'
  BY <1>3, <1>4, <1>5 DEF Same, TurnOK
<1>7. ASSUME NEW x \in Command, x.ch = d, CommandOK(x)
      PROVE  CommandOK(x)'
  BY <1>7 DEF Same, CommandOK
<1>8. ASSUME NEW x \in Response, x.ch = d, ResponseOK(x), Asked(d)' => Asked(d)
      PROVE  ResponseOK(x)'
  BY <1>3, <1>8 DEF Same, ResponseOK
<1> QED BY <1>1, <1>2, <1>6, <1>7, <1>8

(* What a step at file c does to the other files.                          *)
LEMMA OthersKept ==
  ASSUME NEW c \in File, Others(c)
  PROVE  /\ \A d \in File : d # c /\ ReaderOK(d) /\ ClientOK(d) => ReaderOK(d)' /\ ClientOK(d)'
         /\ \A d \in File : d # c /\ TurnOK(d) /\ (Asked(d)' <=> Asked(d)) /\ channelOf \subseteq channelOf'
              => TurnOK(d)'
         /\ \A x \in Command : x.ch # c /\ CommandOK(x) => CommandOK(x)'
         /\ \A x \in Response : x.ch # c /\ ResponseOK(x) /\ (Asked(x.ch)' => Asked(x.ch)) => ResponseOK(x)'
<1>1. ASSUME NEW d \in File, d # c
      PROVE  /\ ReaderOK(d) => ReaderOK(d)'
             /\ ClientOK(d) => ClientOK(d)'
             /\ TurnOK(d) /\ (Asked(d)' <=> Asked(d)) /\ channelOf \subseteq channelOf' => TurnOK(d)'
             /\ \A x \in Command : x.ch = d /\ CommandOK(x) => CommandOK(x)'
             /\ \A x \in Response : x.ch = d /\ ResponseOK(x) /\ (Asked(d)' => Asked(d)) => ResponseOK(x)'
  BY <1>1, SameKept DEF Others
<1>2. ASSUME NEW x \in Command, x.ch # c, CommandOK(x)
      PROVE  CommandOK(x)'
  <2>1. x.ch \in File
    BY DEF Command
  <2> QED BY <1>1, <1>2, <2>1
<1>3. ASSUME NEW x \in Response, x.ch # c, ResponseOK(x), Asked(x.ch)' => Asked(x.ch)
      PROVE  ResponseOK(x)'
  <2>1. PICK d \in File : d = x.ch
    BY DEF Response
  <2>2. Asked(d)' => Asked(d)
    BY <1>3, <2>1
  <2> QED BY <1>1, <1>3, <2>1, <2>2
<1> QED BY <1>1, <1>2, <1>3

(* Ids do not change as long as no reader starts.                          *)
LEMMA IdsKept ==
  ASSUME IdsOK, UNCHANGED <<readerId, fileId, pushId, channelOf>>,
         \A c \in File : state'[c] = "INITIAL" <=> state[c] = "INITIAL"
  PROVE  IdsOK'
<1>1. Started' = Started /\ Count' = Count
  BY DEF Started, Count
<1> QED BY <1>1 DEF IdsOK

(* The parts of the invariant.                                             *)
Talk == (\A c \in File : TurnOK(c)) /\ ToServerOK /\ ToClientOK /\ WaitersOK

(* Two files with the same id are one.                                     *)
LEMMA IdNames ==
  ASSUME Inv, NEW c \in File, NEW d \in File
  PROVE  /\ readerId[c] = readerId[d] /\ readerId[c] # NoId => c = d
         /\ \A i : <<i, d>> \in channelOf => i = readerId[d] /\ i # NoId
<1>1. \A i : <<i, d>> \in channelOf => i = readerId[d] /\ i # NoId
  BY DEF Inv, IdsOK
<1>2. readerId[c] = readerId[d] /\ readerId[c] # NoId => c = d
  BY DEF Inv, IdsOK, Started
<1> QED BY <1>1, <1>2

LEMMA InitInv == ASSUME Bounds, Init PROVE Inv
<1>0. TypeOK
  BY InitTypes
<1>1. ASSUME NEW c \in File PROVE ReaderOK(c) /\ ClientOK(c)
  <2>1. stream[c] = <<>> /\ Len(stream[c]) = 0
    BY EmptySeq DEF Init
  <2>2. Chunks(0) = <<>>
    BY DEF Chunks
  <2>3. ReaderOK(c)
    BY <2>1, <2>2 DEF Init, ReaderOK
  <2> QED BY <2>3 DEF Init, ClientOK
<1>2. IdsOK
  <2>1. Started = {} /\ Count = 0
    BY FS_EmptySet DEF Init, Started, Count
  <2> QED BY <2>1 DEF Init, IdsOK, NoId, Bounds
<1>3. Len(toServer) = 0 /\ Len(toClient) = 0 /\ Len(newWaiters) = 0
  BY EmptySeq DEF Init
<1>4. \A c \in File : TurnOK(c)
  BY DEF Init, TurnOK, CommandType
<1>5. ToServerOK /\ ToClientOK
  BY <1>3 DEF ToServerOK, ToClientOK, InServer, InClient
<1>6. WaitersOK
  BY <1>3 DEF Init, WaitersOK
<1> QED BY <1>0, <1>1, <1>2, <1>4, <1>5, <1>6 DEF Inv, Init

(* What is known about file c in every state of a connection.              *)
LEMMA Facts ==
  ASSUME Inv, NEW c \in File
  PROVE  /\ ReaderOK(c) /\ ClientOK(c) /\ (~released => TurnOK(c))
         /\ Len(stream[c]) \in Nat /\ acked[c] \in Nat /\ size[c] \in Nat /\ sentChunks[c] \in Nat
         /\ state[c] = "INITIAL" <=> readerId[c] = NoId
         /\ disposed[c] \in BOOLEAN /\ waiting[c] \in BOOLEAN /\ finishing[c] \in BOOLEAN
         /\ pc[c] \in CommandType \cup {"idle", "end"}
BY LenProperties DEF Inv, TypeOK, ClientTypes, ReaderTypes, IdsOK

(* No answer for c is on its way unless it has been given.                 *)
LEMMA NoAnswer ==
  ASSUME Inv, ~released, NEW c \in File,
         ~waiting[c] \/ ~Answered(c) \/ Asked(c) \/ pc[c] \notin CommandType
  PROVE  /\ \A x \in Response : InClient(x) /\ x.ch = c => x.type \notin AnswerType
         /\ \A i \in 1..Len(toClient) : toClient[i].type \in AnswerType => toClient[i].ch # c
<1>1. ASSUME NEW x \in Response, InClient(x), x.ch = c PROVE x.type \notin AnswerType
  BY <1>1 DEF Inv, ToClientOK, ResponseOK
<1>2. ASSUME NEW i \in 1..Len(toClient), toClient[i].type \in AnswerType PROVE toClient[i].ch # c
  <2>1. toClient[i] \in Response
    BY ElementOfSeq DEF Inv, TypeOK
  <2> QED BY <1>1, <1>2, <2>1 DEF InClient
<1> QED BY <1>1, <1>2

(* A command of c is on its way only when pushFile waits for its answer.   *)
LEMMA AskedWaits ==
  ASSUME Inv, ~released, NEW c \in File, Asked(c)
  PROVE  waiting[c] /\ pc[c] \in CommandType
<1>1. PICK i \in 1..Len(toServer) : toServer[i].ch = c
  BY DEF Asked
<1>2. toServer[i] \in Command
  BY ElementOfSeq DEF Inv, TypeOK
<1>3. CommandOK(toServer[i])
  BY <1>2 DEF Inv, ToServerOK, InServer
<1> QED BY <1>1, <1>2, <1>3 DEF CommandOK, Command

-----------------------------------------------------------------------------
(* The client.                                                             *)

(* A file is dropped: its NEW is the last, and so is its resolver.         *)
LEMMA PushFileWaiters ==
  ASSUME TypeOK, TypeOK', WaitersOK, NEW f \in File, pc[f] = "idle",
         NEW m \in Command, m.ch = f, m.type = "NEW", toServer' = Append(toServer, m),
         newWaiters' = Append(newWaiters, f), toClient' = toClient, fileId' = fileId,
         pc' = [pc EXCEPT ![f] = "NEW"], waiting' = [waiting EXCEPT ![f] = TRUE],
         ~Asked(f), \A i \in 1..Len(toClient) : toClient[i].type \in AnswerType => toClient[i].ch # f
  PROVE  WaitersOK'
<1> DEFINE n == Len(newWaiters)
           s == Len(toServer)
<1>1. /\ n \in Nat /\ Len(newWaiters') = n + 1 /\ newWaiters'[n + 1] = f
      /\ \A i \in 1..n : newWaiters'[i] = newWaiters[i]
  BY Appended, LenProperties DEF TypeOK, ClientTypes
<1>2. /\ s \in Nat /\ Len(toServer') = s + 1 /\ toServer'[s + 1] = m
      /\ \A i \in 1..s : toServer'[i] = toServer[i]
  BY Appended, LenProperties DEF TypeOK
<1> HIDE DEF n, s
<1>3. \A i \in 1..Len(newWaiters') : i \in 1..n \/ i = n + 1
  BY <1>1
<1>4. \A i \in 1..Len(toServer') : i \in 1..s \/ i = s + 1
  BY <1>2
<1>5. \A i \in 1..n : newWaiters[i] # f
  BY DEF WaitersOK, n
<1>6. \A c \in File : (pc'[c] = "NEW" /\ waiting'[c]) <=> ((pc[c] = "NEW" /\ waiting[c]) \/ c = f)
  BY DEF TypeOK, ClientTypes
<1>7. \A c \in File : (pc'[c] = "NEW" /\ waiting'[c]) <=> \E i \in 1..Len(newWaiters') : newWaiters'[i] = c
  <2>1. ASSUME NEW c \in File
        PROVE  (\E i \in 1..Len(newWaiters') : newWaiters'[i] = c) <=>
                 ((\E i \in 1..n : newWaiters[i] = c) \/ c = f)
    <3>1. n + 1 \in 1..Len(newWaiters') /\ \A i \in 1..n : i \in 1..Len(newWaiters')
      BY <1>1
    <3> QED BY <1>1, <1>3, <3>1
  <2> QED BY <1>6, <2>1 DEF WaitersOK, n
<1>8. \A i, j \in 1..Len(newWaiters') : newWaiters'[i] = newWaiters'[j] => i = j
  BY <1>1, <1>3, <1>5 DEF WaitersOK, n
<1>9. IsNew(toServer'[s + 1], f) /\ s + 1 \in 1..Len(toServer')
  BY <1>2 DEF IsNew
<1>10. \A i \in 1..s : i \in 1..Len(toServer')
  BY <1>2
<1>11. \A i \in 1..Len(newWaiters') :
         \/ Overflown'
         \/ \E k \in 1..Len(toServer') : IsNew(toServer'[k], newWaiters'[i])
         \/ \E k \in 1..Len(toClient') : IsNewId(toClient'[k], newWaiters'[i])
  <2> SUFFICES ASSUME NEW i \in 1..Len(newWaiters')
               PROVE  \/ Overflown'
                      \/ \E k \in 1..Len(toServer') : IsNew(toServer'[k], newWaiters'[i])
                      \/ \E k \in 1..Len(toClient') : IsNewId(toClient'[k], newWaiters'[i])
    OBVIOUS
  <2>1. CASE i = n + 1
    BY <1>1, <1>9, <2>1
  <2>2. CASE i \in 1..n
    <3>1. \/ Overflown
          \/ \E k \in 1..s : IsNew(toServer[k], newWaiters[i])
          \/ \E k \in 1..Len(toClient) : IsNewId(toClient[k], newWaiters[i])
      BY <2>2 DEF WaitersOK, n, s
    <3> QED BY <1>1, <1>2, <1>10, <2>2, <3>1 DEF Overflown
  <2> QED BY <1>3, <2>1, <2>2
<1>12. ASSUME NEW j \in 1..Len(newWaiters'), NEW i \in 1..(j - 1)
       PROVE  /\ \A k \in 1..Len(toServer') : IsNew(toServer'[k], newWaiters'[j]) =>
                   \/ Overflown'
                   \/ \E l \in 1..(k - 1) : IsNew(toServer'[l], newWaiters'[i])
                   \/ \E l \in 1..Len(toClient') : IsNewId(toClient'[l], newWaiters'[i])
              /\ \A k \in 1..Len(toClient') : IsNewId(toClient'[k], newWaiters'[j]) =>
                   \E l \in 1..(k - 1) : IsNewId(toClient'[l], newWaiters'[i])
  <2>1. i \in 1..n
    BY <1>1, <1>12
  <2>2. CASE j = n + 1
    <3>1. ASSUME NEW k \in 1..Len(toServer'), IsNew(toServer'[k], newWaiters'[j])
          PROVE  \/ Overflown'
                 \/ \E l \in 1..(k - 1) : IsNew(toServer'[l], newWaiters'[i])
                 \/ \E l \in 1..Len(toClient') : IsNewId(toClient'[l], newWaiters'[i])
      <4>1. k = s + 1
        <5> SUFFICES ASSUME k \in 1..s PROVE FALSE
          BY <1>4
        <5> QED BY <1>1, <1>2, <2>2, <3>1 DEF Asked, IsNew, s
      <4>2. \/ Overflown
            \/ \E l \in 1..s : IsNew(toServer[l], newWaiters[i])
            \/ \E l \in 1..Len(toClient) : IsNewId(toClient[l], newWaiters[i])
        BY <2>1 DEF WaitersOK, n, s
      <4> QED BY <1>1, <1>2, <2>1, <4>1, <4>2 DEF Overflown
    <3>2. \A k \in 1..Len(toClient') : ~IsNewId(toClient'[k], newWaiters'[j])
      BY <1>1, <2>2 DEF IsNewId, AnswerType
    <3> QED BY <3>1, <3>2
  <2>3. CASE j \in 1..n
    <3>1. /\ \A k \in 1..s : IsNew(toServer[k], newWaiters[j]) =>
               \/ Overflown
               \/ \E l \in 1..(k - 1) : IsNew(toServer[l], newWaiters[i])
               \/ \E l \in 1..Len(toClient) : IsNewId(toClient[l], newWaiters[i])
          /\ \A k \in 1..Len(toClient) : IsNewId(toClient[k], newWaiters[j]) =>
               \E l \in 1..(k - 1) : IsNewId(toClient[l], newWaiters[i])
      BY <1>12, <2>3 DEF WaitersOK, n, s
    <3>2. ASSUME NEW k \in 1..Len(toServer'), IsNew(toServer'[k], newWaiters'[j])
          PROVE  \/ Overflown'
                 \/ \E l \in 1..(k - 1) : IsNew(toServer'[l], newWaiters'[i])
                 \/ \E l \in 1..Len(toClient') : IsNewId(toClient'[l], newWaiters'[i])
      <4>1. k \in 1..s
        <5> SUFFICES ASSUME k = s + 1 PROVE FALSE
          BY <1>4
        <5> QED BY <1>1, <1>2, <1>5, <2>3, <3>2 DEF IsNew
      <4>2. IsNew(toServer[k], newWaiters[j]) /\ newWaiters'[i] = newWaiters[i]
        BY <1>1, <1>2, <2>1, <2>3, <3>2, <4>1
      <4>3. \A l \in 1..(k - 1) : l \in 1..s
        BY <1>2, <4>1
      <4> QED BY <1>2, <3>1, <4>1, <4>2, <4>3 DEF Overflown
    <3>3. \A k \in 1..Len(toClient') : IsNewId(toClient'[k], newWaiters'[j]) =>
            \E l \in 1..(k - 1) : IsNewId(toClient'[l], newWaiters'[i])
      BY <1>1, <2>1, <2>3, <3>1
    <3> QED BY <3>2, <3>3
  <2> QED BY <1>3, <2>2, <2>3
<1> QED BY <1>7, <1>8, <1>11, <1>12 DEF WaitersOK

LEMMA PushFileInv ==
  ASSUME Bounds, Inv, NEW f \in File, NEW n \in 0..MaxSize, pushFile(f, n)
  PROVE  Inv'
<1>0. TypeOK /\ TypeOK' /\ ~released /\ ~released'
  BY PushFileTypes DEF Inv, pushFile
<1> DEFINE m == command(f, "NEW", NoId, 0)
<1>1. m \in Command /\ m.ch = f /\ m.type = "NEW"
  BY CommandFields DEF CommandType, NoId
<1>2. /\ pc[f] = "idle"
      /\ pc' = [pc EXCEPT ![f] = "NEW"]
      /\ size' = [size EXCEPT ![f] = n]
      /\ open' = [open EXCEPT ![f] = TRUE]
      /\ newWaiters' = Append(newWaiters, f)
      /\ waiting' = [waiting EXCEPT ![f] = TRUE]
      /\ toServer' = Append(toServer, m)
      /\ UNCHANGED <<sentChunks, pushId, channelOf, report, released, readerVars, toClient>>
  BY DEF pushFile
<1> HIDE DEF m
<1>3. /\ pc'[f] = "NEW" /\ size'[f] = n /\ open'[f] = TRUE /\ waiting'[f] = TRUE
      /\ n \in Nat
      /\ Others(f)
  BY <1>0, <1>2 DEF TypeOK, ClientTypes, Others, Same, readerVars, Bounds
<1>4. /\ UNCHANGED <<state, readerId, disposed, creating, finishing, stream, acked, streams,
                     transfer, fileId, channelOf, pushId, sentChunks, report, toClient>>
  BY <1>2 DEF readerVars
<1>5. ReaderOK(f) /\ ClientOK(f) /\ TurnOK(f) /\ state[f] = "INITIAL" /\ ~disposed[f] /\ sentChunks[f] = 0
      /\ Len(stream[f]) = 0 /\ acked[f] = 0 /\ ~finishing[f] /\ report[f] = "none"
      /\ Len(stream[f]) \in Nat
  <2>1. ReaderOK(f) /\ ClientOK(f) /\ TurnOK(f) /\ Len(stream[f]) \in Nat /\ acked[f] \in Nat
    BY <1>0, Facts
  <2>2. state[f] = "INITIAL" /\ ~disposed[f] /\ sentChunks[f] = 0 /\ report[f] = "none"
    BY <1>2, <2>1 DEF ClientOK
  <2> QED BY <2>1, <2>2 DEF ReaderOK
<1>6. ~Asked(f)
  BY <1>0, <1>2, AskedWaits DEF CommandType
<1>7. /\ \A x \in Response : InClient(x) /\ x.ch = f => x.type \notin AnswerType
      /\ \A i \in 1..Len(toClient) : toClient[i].type \in AnswerType => toClient[i].ch # f
  BY <1>0, <1>2, NoAnswer DEF CommandType
<1>8. \A x \in Response : InClient(x) => x.ch # f
  BY <1>0, <1>5, <1>7 DEF Inv, ToClientOK, ResponseOK
<1>9. /\ ToServerOK' /\ Asked(f)' /\ \A d \in File : d # f => (Asked(d)' <=> Asked(d))
  <2>1. CommandOK(m)'
    BY <1>1, <1>3 DEF CommandOK
  <2>2. ToServerOK
    BY <1>0 DEF Inv
  <2> QED BY <1>0, <1>1, <1>2, <1>3, <1>6, <2>1, <2>2, OthersKept, Sends
<1>10. \A d \in File : ReaderOK(d)' /\ ClientOK(d)'
  <2>1. ReaderOK(f)'
    BY <1>4, <1>5 DEF ReaderOK
  <2>2. ClientOK(f)'
    BY <1>3, <1>4, <1>5 DEF ClientOK
  <2> QED BY <1>3, <2>1, <2>2, OthersKept DEF Inv
<1>11. IdsOK'
  BY <1>4, IdsKept DEF Inv
<1>12. \A d \in File : TurnOK(d)'
  <2>1. Before(f)'
    BY <1>3, <1>4, <1>5 DEF Before
  <2>2. TurnOK(f)'
    BY <1>3, <1>4, <1>5, <1>9, <2>1 DEF TurnOK, CommandType
  <2> QED BY <1>0, <1>3, <1>4, <1>9, <2>2, OthersKept DEF Inv
<1>13. ToClientOK'
  <2>1. ASSUME NEW x \in Response, InClient(x) PROVE ResponseOK(x)'
    <3>1. ResponseOK(x) /\ x.ch # f /\ x.ch \in File
      BY <1>0, <1>8, <2>1 DEF Inv, ToClientOK, Response
    <3> QED BY <1>3, <1>9, <3>1, OthersKept
  <2>2. ToClientOK
    BY <1>0 DEF Inv
  <2> QED BY <1>0, <1>4, <2>1, <2>2, QueuesKept
<1>14. WaitersOK'
  <2>1. WaitersOK
    BY <1>0 DEF Inv
  <2> QED BY <1>0, <1>1, <1>2, <1>4, <1>6, <1>7, <2>1, PushFileWaiters
<1> QED BY <1>0, <1>9, <1>10, <1>11, <1>12, <1>13, <1>14 DEF Inv

(* pushFile goes on.  On a live connection it has no message on its way.   *)
LEMMA ContinueQuiet ==
  ASSUME Inv, ~released, NEW f \in File, Continue(f)
  PROVE  /\ ~waiting[f] /\ pc[f] \in CommandType
         /\ Knows(f) /\ Answered(f) /\ ~Asked(f)
         /\ ~disposed[f] => After(f)
         /\ ~open[f] => disposed[f]
         /\ \A x \in Response : InClient(x) /\ x.ch = f => x.type \notin AnswerType
<1>1. ~waiting[f] /\ pc[f] \in CommandType
  BY DEF Continue, CommandType
<1>2. ~Asked(f)
  BY <1>1, AskedWaits
<1>3. TurnOK(f)
  BY Facts
<1>4. \A x \in Response : InClient(x) /\ x.ch = f => x.type \notin AnswerType
  BY <1>1, NoAnswer
<1> QED BY <1>1, <1>2, <1>3, <1>4 DEF TurnOK, CommandType

(* What it does: it sends the next command, or ends.                       *)
Goes(f, type, k) ==
  /\ toServer' = Append(toServer, command(f, type, pushId[f], k))
  /\ pc' = [pc EXCEPT ![f] = type]
  /\ waiting' = [waiting EXCEPT ![f] = TRUE]
Ends(f) == pc' = [pc EXCEPT ![f] = "end"] /\ UNCHANGED <<toServer, waiting>>

LEMMA AskGoes ==
  ASSUME Inv, NEW f \in File, ~released => Knows(f), NEW type, NEW k, Ask(f, type, k)
  PROVE  \/ ~released /\ Goes(f, type, k)
         \/ (~released => ~open[f]) /\ Ends(f)
<1>1. PICK c \in File :
        /\ <<pushId[f], c>> \in channelOf
        /\ \/ /\ open[c]
              /\ toServer' = Append(toServer, command(c, type, pushId[f], k))
              /\ pc' = [pc EXCEPT ![f] = type]
              /\ waiting' = [waiting EXCEPT ![f] = TRUE]
           \/ ~open[c] /\ pc' = [pc EXCEPT ![f] = "end"] /\ UNCHANGED <<toServer, waiting>>
  BY DEF Ask
<1>2. released => ~open[c]
  BY DEF Inv, Silence
<1>3. Knows(f) => c = f
  <2>1. pushId[f] = readerId[c] /\ pushId[f] # NoId
    BY <1>1, IdNames
  <2> QED BY <2>1, IdNames DEF Knows
<1> QED BY <1>1, <1>2, <1>3 DEF Goes, Ends

LEMMA ContinueCases ==
  ASSUME Inv, NEW f \in File, Continue(f)
  PROVE  \/ /\ ~released /\ Goes(f, "START", size[f]) /\ pc[f] = "NEW"
            /\ UNCHANGED <<sentChunks, report>>
         \/ /\ ~released /\ Goes(f, "APPEND", sentChunks[f] + 1) /\ pc[f] \in {"START", "APPEND"}
            /\ sentChunks[f] < size[f] /\ sentChunks' = [sentChunks EXCEPT ![f] = @ + 1]
            /\ UNCHANGED report
         \/ /\ ~released /\ Goes(f, "FINISH", 0) /\ pc[f] = "APPEND"
            /\ sentChunks[f] = size[f] /\ UNCHANGED <<sentChunks, report>>
         \/ /\ Ends(f) /\ pc[f] \in CommandType
            /\ \/ UNCHANGED sentChunks
               \/ sentChunks[f] < size[f] /\ sentChunks' = [sentChunks EXCEPT ![f] = @ + 1]
            /\ \/ (~released => ~open[f]) /\ UNCHANGED report
               \/ ~released /\ pc[f] = "FINISH" /\ report' = [report EXCEPT ![f] = "success"]
<1>1. ~released => Knows(f)
  BY ContinueQuiet
<1>2. CASE pc[f] = "NEW" /\ Ask(f, "START", size[f]) /\ UNCHANGED <<sentChunks, report>>
  BY <1>1, <1>2, AskGoes DEF CommandType
<1>3. CASE /\ pc[f] \in {"START", "APPEND"} /\ sentChunks[f] < size[f]
           /\ Ask(f, "APPEND", sentChunks[f] + 1)
           /\ sentChunks' = [sentChunks EXCEPT ![f] = @ + 1] /\ UNCHANGED report
  BY <1>1, <1>3, AskGoes DEF CommandType
<1>4. CASE /\ pc[f] = "APPEND" /\ sentChunks[f] = size[f] /\ Ask(f, "FINISH", 0)
           /\ UNCHANGED <<sentChunks, report>>
  BY <1>1, <1>4, AskGoes DEF CommandType
<1>5. CASE /\ pc[f] = "FINISH" /\ pc' = [pc EXCEPT ![f] = "end"]
           /\ report' = IF released THEN report ELSE [report EXCEPT ![f] = "success"]
           /\ UNCHANGED <<sentChunks, waiting, toServer>>
  BY <1>5 DEF Ends, CommandType
<1> QED BY <1>2, <1>3, <1>4, <1>5 DEF Continue

(* It sends the next command.                                              *)
LEMMA GoesInv ==
  ASSUME Bounds, Inv, NEW f \in File, Continue(f), ~released, NEW type \in CommandType, NEW k \in Nat,
         Goes(f, type, k),
         \/ type = "START" /\ k = size[f] /\ pc[f] = "NEW" /\ sentChunks' = sentChunks
         \/ /\ type = "APPEND" /\ k = sentChunks[f] + 1 /\ pc[f] \in {"START", "APPEND"}
            /\ sentChunks[f] < size[f] /\ sentChunks' = [sentChunks EXCEPT ![f] = @ + 1]
         \/ /\ type = "FINISH" /\ pc[f] = "APPEND" /\ sentChunks[f] = size[f]
            /\ sentChunks' = sentChunks,
         report' = report
  PROVE  Inv'
<1>0. TypeOK /\ TypeOK' /\ ~released'
  BY ContinueTypes DEF Inv, Continue
<1>1. /\ ~waiting[f] /\ pc[f] \in CommandType /\ Knows(f) /\ Answered(f) /\ ~Asked(f)
      /\ ~disposed[f] => After(f)
      /\ ~open[f] => disposed[f]
      /\ \A x \in Response : InClient(x) /\ x.ch = f => x.type \notin AnswerType
  BY ContinueQuiet
<1>2. UNCHANGED <<size, pushId, newWaiters, channelOf, open, released, state, readerId, disposed,
                  creating, finishing, stream, acked, streams, transfer, fileId, toClient>>
  BY DEF Continue, readerVars
<1>3. /\ ReaderOK(f) /\ ClientOK(f) /\ TurnOK(f)
      /\ Len(stream[f]) \in Nat /\ acked[f] \in Nat /\ size[f] \in Nat /\ sentChunks[f] \in Nat
  BY Facts
<1>4. /\ pc'[f] = type /\ waiting'[f] = TRUE
      /\ sentChunks'[f] = IF type = "APPEND" THEN sentChunks[f] + 1 ELSE sentChunks[f]
      /\ Others(f)
  BY <1>0, <1>2 DEF TypeOK, ClientTypes, Others, Same, Goes
<1>5. PICK m \in Command : /\ m.ch = f /\ m.id = pushId[f] /\ m.type = type /\ m.k = k
                           /\ toServer' = Append(toServer, m)
  BY <1>0, CommandFields, SMTT(20) DEF TypeOK, ClientTypes, Goes
<1>6. /\ ToServerOK' /\ Asked(f)' /\ \A d \in File : d # f => (Asked(d)' <=> Asked(d))
  <2>1. CommandOK(m)'
    BY <1>1, <1>2, <1>4, <1>5 DEF CommandOK, Knows
  <2>2. ToServerOK
    BY DEF Inv
  <2> QED BY <1>0, <1>1, <1>4, <1>5, <2>1, <2>2, OthersKept, Sends
<1>7. \A d \in File : ReaderOK(d)' /\ ClientOK(d)'
  <2>1. ReaderOK(f)'
    BY <1>2, <1>3 DEF ReaderOK
  <2>2. ClientOK(f)'
    BY <1>1, <1>2, <1>3, <1>4 DEF ClientOK, CommandType
  <2> QED BY <1>4, <2>1, <2>2, OthersKept DEF Inv
<1>8. IdsOK'
  BY <1>2, IdsKept DEF Inv
<1>9. \A d \in File : TurnOK(d)'
  <2>1. ASSUME ~disposed[f] PROVE Before(f)'
    <3>1. acked[f] = Len(stream[f]) /\ After(f)
      BY <1>1, <2>1 DEF Answered
    <3>2. ~finishing[f]
      BY <1>3, <3>1 DEF After, ReaderOK
    <3>3. CASE type = "START"
      BY <1>2, <1>4, <3>1, <3>2, <3>3 DEF Before, After
    <3>4. CASE type = "APPEND"
      <4>1. sentChunks[f] = Len(stream[f])
        BY <1>3, <3>1, <3>4 DEF After, ClientOK
      <4>2. state[f] = IF Len(stream[f]) = 0 THEN "START" ELSE "APPEND"
        BY <1>3, <3>1, <3>4, <4>1 DEF After, ClientOK, ReaderOK
      <4> QED BY <1>2, <1>4, <3>1, <3>2, <3>4, <4>1, <4>2 DEF Before
    <3>5. CASE type = "FINISH"
      BY <1>2, <1>4, <3>1, <3>2, <3>5 DEF Before, After
    <3> QED BY <3>3, <3>4, <3>5
  <2>2. Knows(f)'
    BY <1>1, <1>2 DEF Knows
  <2>3. TurnOK(f)'
    BY <1>1, <1>2, <1>3, <1>4, <1>6, <2>1, <2>2 DEF TurnOK, CommandType
  <2> QED BY <1>2, <1>4, <1>6, <2>3, OthersKept DEF Inv
<1>10. ToClientOK'
  <2>1. ASSUME NEW x \in Response, InClient(x) PROVE ResponseOK(x)'
    <3>1. ResponseOK(x) /\ x.ch \in File
      BY <2>1 DEF Inv, ToClientOK, Response
    <3>2. CASE x.ch = f
      BY <1>1, <1>2, <2>1, <3>1, <3>2 DEF ResponseOK
    <3>3. CASE x.ch # f
      BY <1>4, <1>6, <3>1, <3>3, OthersKept
    <3> QED BY <3>2, <3>3
  <2>2. ToClientOK
    BY DEF Inv
  <2> QED BY <1>0, <1>2, <2>1, <2>2, QueuesKept
<1>11. WaitersOK'
  <2>1. WaitersOK
    BY DEF Inv
  <2>2. \A c \in File : (pc'[c] = "NEW" /\ waiting'[c]) <=> (pc[c] = "NEW" /\ waiting[c])
    BY <1>1, <1>4 DEF Others, Same
  <2>3. Shifts(toServer, toServer', 0, "NEW")
    BY <1>0, <1>5, ShiftsAppend DEF TypeOK
  <2>4. Shifts(toClient, toClient', 0, "NEW_PUSH_ID")
    BY <1>0, <1>2, ShiftsSame DEF TypeOK
  <2> QED BY <1>0, <1>2, <2>1, <2>2, <2>3, <2>4, WaitersKept
<1> QED BY <1>0, <1>6, <1>7, <1>8, <1>9, <1>10, <1>11 DEF Inv

(* It ends: adb has confirmed the file, or the channel is closed.          *)
LEMMA EndsInv ==
  ASSUME Bounds, Inv, NEW f \in File, Continue(f), Ends(f), pc[f] \in CommandType,
         \/ sentChunks' = sentChunks
         \/ sentChunks[f] < size[f] /\ sentChunks' = [sentChunks EXCEPT ![f] = @ + 1],
         \/ (~released => ~open[f]) /\ report' = report
         \/ ~released /\ pc[f] = "FINISH" /\ report' = [report EXCEPT ![f] = "success"]
  PROVE  Inv'
<1>0. TypeOK /\ TypeOK' /\ released' = released
  BY ContinueTypes DEF Inv, Continue
<1>1. UNCHANGED <<size, pushId, newWaiters, channelOf, open, released, state, readerId, disposed,
                  creating, finishing, stream, acked, streams, transfer, fileId, toClient,
                  toServer, waiting>>
  BY DEF Continue, readerVars, Ends
<1>2. /\ ReaderOK(f) /\ ClientOK(f) /\ (~released => TurnOK(f))
      /\ size[f] \in Nat /\ sentChunks[f] \in Nat
  BY Facts
<1>3. /\ pc'[f] = "end" /\ Others(f)
      /\ sentChunks'[f] = sentChunks[f] \/ (sentChunks[f] < size[f] /\ sentChunks'[f] = sentChunks[f] + 1)
      /\ report'[f] = report[f] \/ (~released /\ pc[f] = "FINISH" /\ report'[f] = "success")
  BY <1>0, <1>1 DEF TypeOK, ClientTypes, Others, Same, Ends
<1>4. ~released => /\ ~waiting[f] /\ Answered(f) /\ disposed[f]
                   /\ pc[f] = "FINISH" => transfer[f] = "ended"
                   /\ \A x \in Response : InClient(x) /\ x.ch = f => x.type \notin AnswerType
                   /\ ~Asked(f)
  <2> SUFFICES ASSUME ~released
               PROVE  /\ ~waiting[f] /\ Answered(f) /\ disposed[f]
                      /\ pc[f] = "FINISH" => transfer[f] = "ended"
                      /\ \A x \in Response : InClient(x) /\ x.ch = f => x.type \notin AnswerType
                      /\ ~Asked(f)
    OBVIOUS
  <2>1. /\ ~waiting[f] /\ Answered(f) /\ ~Asked(f) /\ (~open[f] => disposed[f])
        /\ \A x \in Response : InClient(x) /\ x.ch = f => x.type \notin AnswerType
    BY ContinueQuiet
  <2> QED BY <1>2, <2>1 DEF Answered, ReaderOK
<1>5. \A d \in File : ReaderOK(d)' /\ ClientOK(d)'
  <2>1. ReaderOK(f)'
    BY <1>1, <1>2 DEF ReaderOK
  <2>2. ClientOK(f)'
    BY <1>1, <1>2, <1>3, <1>4 DEF ClientOK
  <2> QED BY <1>3, <2>1, <2>2, OthersKept DEF Inv
<1>6. IdsOK'
  BY <1>1, IdsKept DEF Inv
<1>7. CASE released
  <2>1. Silence
    BY <1>7 DEF Inv
  <2>2. \A c \in File : pc'[c] # "idle" => pc[c] # "idle"
    BY <1>3 DEF Others, Same, CommandType
  <2>3. Silence'
    BY <1>1, <2>1, <2>2 DEF Silence
  <2> QED BY <1>0, <1>5, <1>6, <1>7, <2>3 DEF Inv
<1>8. CASE ~released
  <2>1. \A x \in Command : CommandOK(x) => CommandOK(x)'
    <3> SUFFICES ASSUME NEW x \in Command, CommandOK(x) PROVE CommandOK(x)'
      OBVIOUS
    <3>1. x.ch # f
      BY <1>4, <1>8 DEF CommandOK
    <3> QED BY <1>3, <3>1, OthersKept
  <2>2. \A d \in File : Asked(d)' <=> Asked(d)
    BY <1>0, <1>1, QueuesKept
  <2>3. ASSUME NEW x \in Response, InClient(x) PROVE ResponseOK(x)'
    <3>1. ResponseOK(x) /\ x.ch \in File
      BY <1>8, <2>3 DEF Inv, ToClientOK, Response
    <3>2. CASE x.ch = f
      BY <1>1, <1>4, <1>8, <2>3, <3>1, <3>2 DEF ResponseOK
    <3>3. CASE x.ch # f
      BY <1>3, <2>2, <3>1, <3>3, OthersKept
    <3> QED BY <3>2, <3>3
  <2>4. ToServerOK' /\ ToClientOK'
    BY <1>0, <1>1, <1>8, <2>1, <2>3, QueuesKept DEF Inv
  <2>5. \A d \in File : TurnOK(d)'
    <3>1. TurnOK(f)'
      BY <1>1, <1>3, <1>4, <1>8 DEF TurnOK, CommandType
    <3> QED BY <1>1, <1>3, <1>8, <2>2, <3>1, OthersKept DEF Inv
  <2>6. WaitersOK'
    <3>1. WaitersOK
      BY <1>8 DEF Inv
    <3>2. \A c \in File : (pc'[c] = "NEW" /\ waiting'[c]) <=> (pc[c] = "NEW" /\ waiting[c])
      BY <1>1, <1>3, <1>4, <1>8 DEF Others, Same
    <3>3. Shifts(toServer, toServer', 0, "NEW") /\ Shifts(toClient, toClient', 0, "NEW_PUSH_ID")
      BY <1>0, <1>1, ShiftsSame DEF TypeOK
    <3> QED BY <1>0, <1>1, <3>1, <3>2, <3>3, WaitersKept
  <2> QED BY <1>0, <1>5, <1>6, <1>8, <2>4, <2>5, <2>6 DEF Inv
<1> QED BY <1>7, <1>8

LEMMA ContinueInv ==
  ASSUME Bounds, Inv, NEW f \in File, Continue(f)
  PROVE  Inv'
<1>1. size[f] \in Nat /\ sentChunks[f] + 1 \in Nat /\ 0 \in Nat
  BY Facts
<1>2. {"START", "APPEND", "FINISH"} \subseteq CommandType
  BY DEF CommandType
<1>3. ASSUME ~released, NEW type \in {"START", "APPEND", "FINISH"}, NEW k \in Nat, Goes(f, type, k),
             \/ type = "START" /\ k = size[f] /\ pc[f] = "NEW" /\ sentChunks' = sentChunks
             \/ /\ type = "APPEND" /\ k = sentChunks[f] + 1 /\ pc[f] \in {"START", "APPEND"}
                /\ sentChunks[f] < size[f] /\ sentChunks' = [sentChunks EXCEPT ![f] = @ + 1]
             \/ /\ type = "FINISH" /\ pc[f] = "APPEND" /\ sentChunks[f] = size[f]
                /\ sentChunks' = sentChunks,
             report' = report
      PROVE  Inv'
  BY <1>2, <1>3, GoesInv
<1>4. ASSUME Ends(f), pc[f] \in CommandType,
             \/ sentChunks' = sentChunks
             \/ sentChunks[f] < size[f] /\ sentChunks' = [sentChunks EXCEPT ![f] = @ + 1],
             \/ (~released => ~open[f]) /\ report' = report
             \/ ~released /\ pc[f] = "FINISH" /\ report' = [report EXCEPT ![f] = "success"]
      PROVE  Inv'
  BY <1>4, EndsInv
<1> QED BY <1>1, <1>3, <1>4, ContinueCases

(* The connection is lost.                                                 *)
LEMMA ConnectionLostInv ==
  ASSUME Bounds, Inv, ConnectionLost
  PROVE  Inv'
<1>0. TypeOK /\ TypeOK' /\ released'
  BY ConnectionLostTypes DEF Inv, ConnectionLost
<1>1. UNCHANGED <<pc, size, sentChunks, pushId, waiting, newWaiters, channelOf, report,
                  state, readerId, creating, finishing, stream, acked,
                  streams, transfer, fileId>>
  BY DEF ConnectionLost
<1>2. \A c \in File : disposed'[c] = (disposed[c] \/ pc[c] # "idle")
  BY DEF ConnectionLost
<1>3. ASSUME NEW d \in File PROVE ReaderOK(d)' /\ ClientOK(d)'
  <2>1. ReaderOK(d) /\ ClientOK(d)
    BY Facts
  <2>2. ReaderOK(d)'
    BY <1>1, <1>2, <2>1 DEF ReaderOK
  <2>3. ClientOK(d)'
    BY <1>1, <1>2, <2>1 DEF ClientOK
  <2> QED BY <2>2, <2>3
<1>4. IdsOK'
  BY <1>1, IdsKept DEF Inv
<1>5. Silence'
  BY <1>1, <1>2 DEF ConnectionLost, Silence
<1> QED BY <1>0, <1>3, <1>4, <1>5 DEF Inv

-----------------------------------------------------------------------------
(* The client receives a message of channel c.                             *)

LEMMA ReceivedInv ==
  ASSUME Bounds, Inv, ~released, toClient # <<>>, toClient' = Tail(toClient),
         NEW m \in Response, m = Head(toClient), NEW c \in File, c = m.ch,
         UNCHANGED <<pc, size, sentChunks, released, readerVars, toServer>>,
         TypeOK', Others(c), channelOf \subseteq channelOf', IdsOK',
         waiting'[c] = waiting[c] \/ m.type \in AnswerType,
         ClientOK(c)', TurnOK(c)', WaitersOK'
  PROVE  Inv'
<1>0. TypeOK /\ ToServerOK /\ ToClientOK /\ ~released'
  BY DEF Inv
<1>1. UNCHANGED <<state, readerId, disposed, creating, finishing, stream, acked, streams,
                  transfer, fileId>>
  BY DEF readerVars
<1>2. ResponseOK(m)
  BY <1>0, Tailed DEF ToClientOK, InClient, TypeOK
<1>3. \A d \in File : Asked(d)' <=> Asked(d)
  BY <1>0, QueuesKept
<1>4. \A d \in File : ReaderOK(d)' /\ ClientOK(d)'
  <2>1. ReaderOK(c)'
    BY <1>1, Facts DEF ReaderOK
  <2> QED BY <2>1, OthersKept DEF Inv
<1>5. \A d \in File : TurnOK(d)'
  BY <1>3, OthersKept DEF Inv
<1>6. ToServerOK'
  <2>1. ASSUME NEW x \in Command, InServer(x), CommandOK(x) PROVE CommandOK(x)'
    <3>1. CASE x.ch = c
      <4>1. Asked(c)
        BY <2>1, <3>1 DEF Asked, InServer
      <4>2. waiting'[c] = waiting[c]
        BY <1>2, <4>1 DEF ResponseOK
      <4> QED BY <1>1, <2>1, <3>1, <4>2 DEF CommandOK
    <3>2. CASE x.ch # c
      BY <2>1, <3>2, OthersKept
    <3> QED BY <3>1, <3>2
  <2> QED BY <1>0, <2>1, QueuesKept
<1>7. ToClientOK'
  <2>1. ASSUME NEW x \in Response, ResponseOK(x),
               x.type \in AnswerType /\ m.type \in AnswerType => x.ch # m.ch
        PROVE  ResponseOK(x)'
    <3>1. CASE x.ch # c
      <4>1. x.ch \in File
        BY DEF Response
      <4> QED BY <1>3, <2>1, <3>1, <4>1, OthersKept
    <3>2. CASE x.ch = c /\ x.type \in AnswerType
      <4>1. waiting'[c] = waiting[c] /\ (Asked(c)' <=> Asked(c)) /\ (Answered(c)' <=> Answered(c))
        BY <1>1, <1>3, <2>1, <3>2 DEF Answered
      <4> QED BY <1>1, <2>1, <3>2, <4>1 DEF ResponseOK, AnswerType
    <3>3. CASE x.ch = c /\ x.type \notin AnswerType
      BY <1>1, <2>1, <3>3 DEF ResponseOK
    <3> QED BY <3>1, <3>2, <3>3
  <2> QED BY <1>0, <2>1, Receives
<1> QED BY <1>0, <1>4, <1>5, <1>6, <1>7 DEF Inv

(* The id goes to the push that asked for it: of the pushes that wait for  *)
(* one it has waited longest.                                              *)
LEMMA FirstWaits ==
  ASSUME Inv, ~released, toClient # <<>>,
         NEW m \in Response, m = Head(toClient), m.type = "NEW_PUSH_ID", NEW c \in File, c = m.ch
  PROVE  newWaiters # <<>> /\ newWaiters[1] = c /\ Head(newWaiters) = c
<1>1. /\ Len(toClient) \in Nat /\ 1 \in 1..Len(toClient) /\ toClient[1] = m
      /\ Len(newWaiters) \in Nat
  BY Tailed, LenProperties DEF Inv, TypeOK, ClientTypes
<1>2. ResponseOK(m)
  BY <1>1 DEF Inv, ToClientOK, InClient
<1>3. pc[c] = "NEW" /\ waiting[c]
  BY <1>2 DEF ResponseOK, AnswerType
<1>4. PICK j \in 1..Len(newWaiters) : newWaiters[j] = c
  BY <1>3 DEF Inv, WaitersOK
<1>5. j = 1
  <2> SUFFICES ASSUME j # 1 PROVE FALSE
    OBVIOUS
  <2>1. 1 \in 1..(j - 1)
    BY <1>1, <1>4
  <2>2. IsNewId(toClient[1], newWaiters[j])
    BY <1>1, <1>4 DEF IsNewId
  <2>3. \E l \in 1..(1 - 1) : IsNewId(toClient[l], newWaiters[1])
    BY <1>1, <1>4, <2>1, <2>2 DEF Inv, WaitersOK
  <2> QED BY <2>3
<1>6. newWaiters # <<>>
  BY <1>4, <1>5 DEF Inv, TypeOK, ClientTypes
<1>7. Head(newWaiters) = newWaiters[1]
  BY <1>6, Tailed DEF Inv, TypeOK, ClientTypes
<1> QED BY <1>4, <1>5, <1>6, <1>7

(* The next one waits for the next id.                                     *)
LEMMA ShiftedWaiters ==
  ASSUME TypeOK, TypeOK', WaitersOK, NEW c \in File, newWaiters # <<>>, newWaiters[1] = c,
         newWaiters' = Tail(newWaiters), waiting' = [waiting EXCEPT ![c] = FALSE],
         toClient # <<>>, toClient' = Tail(toClient), IsNewId(Head(toClient), c),
         UNCHANGED <<pc, toServer, fileId>>
  PROVE  WaitersOK'
<1> DEFINE n == Len(newWaiters)
           r == Len(toClient)
<1>1. /\ n \in Nat /\ n > 0 /\ Len(newWaiters') = n - 1
      /\ \A i \in 1..Len(newWaiters') : newWaiters'[i] = newWaiters[i + 1] /\ i + 1 \in 1..n
  BY Tailed DEF TypeOK, ClientTypes
<1>2. /\ r \in Nat /\ r > 0 /\ Len(toClient') = r - 1 /\ toClient[1].ch = c
      /\ \A i \in 1..Len(toClient') : toClient'[i] = toClient[i + 1] /\ i + 1 \in 1..r
  BY Tailed DEF TypeOK, IsNewId
<1>3. \A i \in 1..n : i = 1 \/ (i - 1 \in 1..Len(newWaiters') /\ newWaiters'[i - 1] = newWaiters[i])
  BY <1>1
<1>4. \A i \in 1..r : i = 1 \/ (i - 1 \in 1..Len(toClient') /\ toClient'[i - 1] = toClient[i])
  BY <1>2
<1>5. \A i, j \in 1..n : newWaiters[i] = newWaiters[j] => i = j
  BY DEF WaitersOK, n
<1>6. \A i \in 1..Len(newWaiters') : newWaiters'[i] # c
  BY <1>1, <1>5
<1>7. \A d \in File : (pc'[d] = "NEW" /\ waiting'[d]) <=> \E i \in 1..Len(newWaiters') : newWaiters'[i] = d
  <2> SUFFICES ASSUME NEW d \in File
               PROVE  (pc'[d] = "NEW" /\ waiting'[d]) <=> \E i \in 1..Len(newWaiters') : newWaiters'[i] = d
    OBVIOUS
  <2>1. CASE d = c
    BY <1>6, <2>1 DEF TypeOK, ClientTypes
  <2>2. CASE d # c
    <3>1. (pc'[d] = "NEW" /\ waiting'[d]) <=> \E i \in 1..n : newWaiters[i] = d
      BY <2>2 DEF TypeOK, ClientTypes, WaitersOK, n
    <3>2. ASSUME NEW i \in 1..n, newWaiters[i] = d
          PROVE  \E k \in 1..Len(newWaiters') : newWaiters'[k] = d
      BY <1>3, <2>2, <3>2
    <3>3. ASSUME NEW i \in 1..Len(newWaiters'), newWaiters'[i] = d
          PROVE  \E k \in 1..n : newWaiters[k] = d
      BY <1>1, <3>3
    <3> QED BY <3>1, <3>2, <3>3
  <2> QED BY <2>1, <2>2
<1>8. \A i, j \in 1..Len(newWaiters') : newWaiters'[i] = newWaiters'[j] => i = j
  <2> SUFFICES ASSUME NEW i \in 1..Len(newWaiters'), NEW j \in 1..Len(newWaiters'),
                      newWaiters'[i] = newWaiters'[j]
               PROVE  i = j
    OBVIOUS
  <2>1. i + 1 = j + 1
    BY <1>1, <1>5
  <2> QED BY <2>1
<1>9. ASSUME NEW i \in 1..Len(newWaiters'), NEW l \in 1..r, IsNewId(toClient[l], newWaiters'[i])
      PROVE  l > 1 /\ l - 1 \in 1..Len(toClient') /\ IsNewId(toClient'[l - 1], newWaiters'[i])
  BY <1>2, <1>4, <1>6, <1>9 DEF IsNewId
<1>10. ASSUME NEW i \in 1..Len(newWaiters')
       PROVE  \/ Overflown'
              \/ \E k \in 1..Len(toServer') : IsNew(toServer'[k], newWaiters'[i])
              \/ \E k \in 1..Len(toClient') : IsNewId(toClient'[k], newWaiters'[i])
  <2>1. \/ Overflown
        \/ \E k \in 1..Len(toServer) : IsNew(toServer[k], newWaiters'[i])
        \/ \E k \in 1..r : IsNewId(toClient[k], newWaiters'[i])
    BY <1>1 DEF WaitersOK, n, r
  <2> QED BY <1>9, <2>1 DEF Overflown
<1>11. ASSUME NEW j \in 1..Len(newWaiters'), NEW i \in 1..(j - 1)
       PROVE  /\ \A k \in 1..Len(toServer') : IsNew(toServer'[k], newWaiters'[j]) =>
                   \/ Overflown'
                   \/ \E l \in 1..(k - 1) : IsNew(toServer'[l], newWaiters'[i])
                   \/ \E l \in 1..Len(toClient') : IsNewId(toClient'[l], newWaiters'[i])
              /\ \A k \in 1..Len(toClient') : IsNewId(toClient'[k], newWaiters'[j]) =>
                   \E l \in 1..(k - 1) : IsNewId(toClient'[l], newWaiters'[i])
  <2>1. i \in 1..Len(newWaiters') /\ i + 1 \in 1..((j + 1) - 1)
    BY <1>1, <1>11
  <2>2. /\ \A k \in 1..Len(toServer) : IsNew(toServer[k], newWaiters'[j]) =>
             \/ Overflown
             \/ \E l \in 1..(k - 1) : IsNew(toServer[l], newWaiters'[i])
             \/ \E l \in 1..r : IsNewId(toClient[l], newWaiters'[i])
        /\ \A k \in 1..r : IsNewId(toClient[k], newWaiters'[j]) =>
             \E l \in 1..(k - 1) : IsNewId(toClient[l], newWaiters'[i])
    <3>1. /\ j + 1 \in 1..n /\ i + 1 \in 1..((j + 1) - 1)
          /\ newWaiters'[j] = newWaiters[j + 1] /\ newWaiters'[i] = newWaiters[i + 1]
      BY <1>1, <2>1
    <3>2. /\ \A k \in 1..Len(toServer) : IsNew(toServer[k], newWaiters[j + 1]) =>
               \/ Overflown
               \/ \E l \in 1..(k - 1) : IsNew(toServer[l], newWaiters[i + 1])
               \/ \E l \in 1..r : IsNewId(toClient[l], newWaiters[i + 1])
          /\ \A k \in 1..r : IsNewId(toClient[k], newWaiters[j + 1]) =>
               \E l \in 1..(k - 1) : IsNewId(toClient[l], newWaiters[i + 1])
      BY <3>1 DEF WaitersOK, n, r
    <3> QED BY <3>1, <3>2
  <2>3. ASSUME NEW k \in 1..Len(toServer'), IsNew(toServer'[k], newWaiters'[j])
        PROVE  \/ Overflown'
               \/ \E l \in 1..(k - 1) : IsNew(toServer'[l], newWaiters'[i])
               \/ \E l \in 1..Len(toClient') : IsNewId(toClient'[l], newWaiters'[i])
    BY <1>9, <2>1, <2>2, <2>3 DEF Overflown
  <2>4. ASSUME NEW k \in 1..Len(toClient'), IsNewId(toClient'[k], newWaiters'[j])
        PROVE  \E l \in 1..(k - 1) : IsNewId(toClient'[l], newWaiters'[i])
    <3>1. k + 1 \in 1..r /\ IsNewId(toClient[k + 1], newWaiters'[j])
      BY <1>2, <2>4
    <3>2. PICK l \in 1..((k + 1) - 1) : IsNewId(toClient[l], newWaiters'[i])
      BY <2>2, <3>1
    <3>3. l \in 1..r
      BY <1>2, <3>1, <3>2
    <3>4. l > 1 /\ IsNewId(toClient'[l - 1], newWaiters'[i])
      BY <1>9, <2>1, <3>2, <3>3
    <3>5. l - 1 \in 1..(k - 1)
      BY <3>2, <3>4
    <3> QED BY <3>4, <3>5
  <2> QED BY <2>3, <2>4
<1> QED BY <1>7, <1>8, <1>10, <1>11 DEF WaitersOK

LEMMA ClientReceiveInv ==
  ASSUME Bounds, Inv, ClientReceive
  PROVE  Inv'
<1>0. TypeOK /\ TypeOK' /\ ~released
  BY ClientReceiveTypes DEF Inv, Silence, ClientReceive
<1>1. PICK m \in Response : /\ m = Head(toClient)
                            /\ ResponseNew(m) \/ ResponseOk(m) \/ ChannelClosed(m) \/ Undispatched(m)
  BY <1>0, Tailed DEF ClientReceive, TypeOK
<1>2. PICK c \in File : c = m.ch
  BY DEF Response
<1>3. /\ toClient # <<>> /\ toClient' = Tail(toClient)
      /\ UNCHANGED <<pc, size, sentChunks, released, readerVars, toServer>>
  BY DEF ClientReceive
<1>4. UNCHANGED <<state, readerId, disposed, creating, finishing, stream, acked, streams,
                  transfer, fileId>>
  BY <1>3 DEF readerVars
<1>5. ResponseOK(m) /\ WaitersOK
  BY <1>0, <1>1, <1>3, Tailed DEF Inv, ToClientOK, InClient, TypeOK
<1>6. ReaderOK(c) /\ ClientOK(c) /\ TurnOK(c)
  BY <1>0, Facts
<1>7. \A d \in File : Asked(d)' <=> Asked(d)
  BY <1>0, <1>3, QueuesKept
<1>8. /\ (Answered(c)' <=> Answered(c)) /\ (Before(c)' <=> Before(c)) /\ (After(c)' <=> After(c))
  BY <1>3, <1>4 DEF Answered, Before, After
<1>9. Shifts(toServer, toServer', 0, "NEW")
  BY <1>0, <1>3, ShiftsSame DEF TypeOK
<1>10. CASE ResponseNew(m)
  <2>1. m.type = "NEW_PUSH_ID" /\ pc[c] = "NEW" /\ waiting[c] /\ m.id = readerId[c] /\ m.id # NoId
        /\ Answered(c) /\ ~Asked(c)
    BY <1>2, <1>5, <1>10 DEF ResponseNew, ResponseOK, AnswerType
  <2>2. newWaiters # <<>> /\ newWaiters[1] = c /\ Head(newWaiters) = c
    BY <1>0, <1>1, <1>2, <1>3, <2>1, FirstWaits
  <2>3. /\ pushId' = [pushId EXCEPT ![c] = readerId[c]]
        /\ waiting' = [waiting EXCEPT ![c] = FALSE]
        /\ newWaiters' = Tail(newWaiters)
        /\ channelOf' = channelOf \cup {<<readerId[c], c>>}
        /\ open' = open /\ report' = report
    BY <1>2, <1>10, <2>1, <2>2 DEF ResponseNew, shifted
  <2>4. pushId'[c] = readerId[c] /\ waiting'[c] = FALSE /\ Others(c)
    BY <1>0, <1>3, <1>4, <2>3 DEF TypeOK, ClientTypes, Others, Same
  <2>5. ClientOK(c)'
    BY <1>3, <1>4, <1>6, <2>1, <2>3, <2>4 DEF ClientOK
  <2>6. Knows(c)'
    BY <1>4, <2>1, <2>3, <2>4 DEF Knows
  <2>7. TurnOK(c)'
    BY <1>3, <1>4, <1>6, <1>7, <1>8, <2>1, <2>3, <2>6 DEF TurnOK
  <2>8. IdsOK'
    <3>1. Started' = Started /\ Count' = Count
      BY <1>4 DEF Started, Count
    <3>2. \A d \in File : pushId'[d] \in {NoId, readerId'[d]}
      BY <1>4, <2>4 DEF Inv, IdsOK, Others, Same
    <3>3. \A p \in channelOf' : p[1] = readerId'[p[2]] /\ p[1] # NoId
      BY <1>4, <2>1, <2>3 DEF Inv, IdsOK
    <3> QED BY <1>4, <3>1, <3>2, <3>3 DEF Inv, IdsOK
  <2>9. WaitersOK'
    <3>1. IsNewId(Head(toClient), c)
      BY <1>1, <1>2, <2>1 DEF IsNewId
    <3> QED BY <1>0, <1>3, <1>4, <1>5, <2>2, <2>3, <3>1, ShiftedWaiters
  <2>10. channelOf \subseteq channelOf' /\ m.type \in AnswerType
    BY <2>1, <2>3 DEF AnswerType
  <2> QED BY <1>0, <1>1, <1>2, <1>3, <2>4, <2>5, <2>7, <2>8, <2>9, <2>10, ReceivedInv
<1>11. CASE ResponseOk(m)
  <2>1. m.type = "NO_ERROR" /\ m.type \in AnswerType /\ pc[c] \in CommandType /\ pc[c] # "NEW" /\ waiting[c]
        /\ m.id = readerId[c] /\ m.id # NoId /\ Answered(c) /\ ~Asked(c)
    BY <1>2, <1>5, <1>11 DEF ResponseOk, ResponseOK, AnswerType
  <2>2. Knows(c)
    BY <1>6, <2>1 DEF TurnOK, CommandType
  <2>3. UNCHANGED <<pushId, newWaiters, channelOf, open, report>>
        /\ waiting' = [f \in File |-> waiting[f] /\ pushId[f] # m.id]
    BY <1>11 DEF ResponseOk
  <2>4. waiting'[c] = FALSE /\ \A d \in File : d # c => waiting'[d] = waiting[d]
    <3>1. pushId[c] = m.id
      BY <2>1, <2>2 DEF Knows
    <3>2. ASSUME NEW d \in File, d # c PROVE pushId[d] # m.id
      <4>1. pushId[d] \in {NoId, readerId[d]}
        BY DEF Inv, IdsOK
      <4> QED BY <2>1, <3>2, <4>1, IdNames
    <3> QED BY <1>0, <2>3, <3>1, <3>2 DEF TypeOK, ClientTypes
  <2>5. Others(c)
    BY <1>3, <1>4, <2>3, <2>4 DEF Others, Same
  <2>6. ClientOK(c)'
    BY <1>3, <1>4, <1>6, <2>1, <2>3, <2>4 DEF ClientOK
  <2>7. Knows(c)'
    BY <1>4, <2>2, <2>3 DEF Knows
  <2>8. TurnOK(c)'
    BY <1>3, <1>4, <1>6, <1>7, <1>8, <2>1, <2>3, <2>7 DEF TurnOK
  <2>9. IdsOK'
    BY <1>4, <2>3, IdsKept DEF Inv
  <2>10. WaitersOK'
    <3>1. \A d \in File : (pc'[d] = "NEW" /\ waiting'[d]) <=> (pc[d] = "NEW" /\ waiting[d])
      BY <1>3, <2>1, <2>4
    <3>2. Shifts(toClient, toClient', 1, "NEW_PUSH_ID")
      BY <1>0, <1>1, <1>3, <2>1, ShiftsTail DEF TypeOK
    <3> QED BY <1>0, <1>4, <1>5, <1>9, <2>3, <3>1, <3>2, WaitersKept
  <2>11. channelOf \subseteq channelOf'
    BY <2>3
  <2> QED BY <1>0, <1>1, <1>2, <1>3, <2>1, <2>5, <2>6, <2>8, <2>9, <2>10, <2>11, ReceivedInv
<1>12. CASE ChannelClosed(m)
  <2>1. m.type \in {"closed", "failed"} /\ m.type \notin AnswerType /\ disposed[c]
        /\ (m.type = "failed" => size[c] = 0 \/ transfer[c] = "failed")
    BY <1>2, <1>5, <1>12 DEF ChannelClosed, ResponseOK, AnswerType
  <2>2. /\ open' = [open EXCEPT ![c] = FALSE]
        /\ report' = report \/ (m.type = "failed" /\ report' = [report EXCEPT ![c] = "error"])
        /\ UNCHANGED <<pushId, waiting, newWaiters, channelOf>>
    BY <1>2, <1>12 DEF ChannelClosed
  <2>3. /\ open'[c] = FALSE /\ (report'[c] = report[c] \/ (m.type = "failed" /\ report'[c] = "error"))
        /\ Others(c)
    BY <1>0, <1>3, <1>4, <2>2 DEF TypeOK, ClientTypes, Others, Same
  <2>4. ClientOK(c)'
    BY <1>3, <1>4, <1>6, <2>1, <2>2, <2>3 DEF ClientOK
  <2>5. Knows(c) => Knows(c)'
    BY <1>4, <2>2 DEF Knows
  <2>6. TurnOK(c)'
    BY <1>3, <1>4, <1>6, <1>7, <1>8, <2>1, <2>2, <2>5 DEF TurnOK
  <2>7. IdsOK'
    BY <1>4, <2>2, IdsKept DEF Inv
  <2>8. WaitersOK'
    <3>1. Shifts(toClient, toClient', 1, "NEW_PUSH_ID")
      BY <1>0, <1>1, <1>3, <2>1, ShiftsTail DEF TypeOK
    <3> QED BY <1>0, <1>3, <1>4, <1>5, <1>9, <2>2, <3>1, WaitersKept
  <2>9. channelOf \subseteq channelOf' /\ waiting'[c] = waiting[c]
    BY <2>2
  <2> QED BY <1>0, <1>1, <1>2, <1>3, <2>3, <2>4, <2>6, <2>7, <2>8, <2>9, ReceivedInv
<1>13. CASE Undispatched(m)
  <2>1. m.type \in AnswerType /\ ~open[c] /\ UNCHANGED <<pushId, waiting, newWaiters, channelOf, open, report>>
    BY <1>2, <1>13 DEF Undispatched, AnswerType
  <2>2. pc[c] \in CommandType /\ pc[c] # "NEW" /\ m.type # "NEW_PUSH_ID"
    BY <1>2, <1>5, <1>6, <2>1 DEF ResponseOK, TurnOK, CommandType
  <2>3. Others(c) /\ Same(c)
    BY <1>3, <1>4, <2>1 DEF Others, Same
  <2>4. ClientOK(c)' /\ TurnOK(c)'
    BY <1>6, <1>7, <2>1, <2>3, SameKept
  <2>5. IdsOK'
    BY <1>4, <2>1, IdsKept DEF Inv
  <2>6. WaitersOK'
    <3>1. Shifts(toClient, toClient', 1, "NEW_PUSH_ID")
      BY <1>0, <1>1, <1>3, <2>2, ShiftsTail DEF TypeOK
    <3> QED BY <1>0, <1>3, <1>4, <1>5, <1>9, <2>1, <3>1, WaitersKept
  <2>7. channelOf \subseteq channelOf'
    BY <2>1
  <2> QED BY <1>0, <1>1, <1>2, <1>3, <2>1, <2>3, <2>4, <2>5, <2>6, <2>7, ReceivedInv
<1> QED BY <1>1, <1>10, <1>11, <1>12, <1>13

-----------------------------------------------------------------------------
(* The reader of channel c takes a command.                                *)

(* Before it does, nothing but the command of c is on its way, and the     *)
(* reader is where the command finds it.                                   *)
TakesFrom(m, c) ==
  /\ toServer # <<>> /\ toServer' = Tail(toServer) /\ m = Head(toServer) /\ c = m.ch
  /\ UNCHANGED <<clientVars, acked, transfer>>
  /\ Others(c)

LEMMA TakesFacts ==
  ASSUME Inv, ~released, NEW m \in Command, NEW c \in File, TakesFrom(m, c)
  PROVE  /\ CommandOK(m) /\ m.type = pc[c] /\ waiting[c] /\ Asked(c) /\ ~Asked(c)'
         /\ \A d \in File : d # c => (Asked(d)' <=> Asked(d))
         /\ ToServerOK'
         /\ ~disposed[c] => Before(c)
         /\ m.type # "NEW" => Knows(c) /\ m.id = readerId[c]
         /\ m.type = "NEW" => ~disposed[c]
         /\ \A i \in 1..Len(toClient) : toClient[i].type \in AnswerType => toClient[i].ch # c
         /\ ~disposed[c] \/ Same(c) => \A x \in Response : InClient(x) => ResponseOK(x)'
         /\ UNCHANGED <<pc, size, sentChunks, pushId, waiting, newWaiters, channelOf, open, report, released>>
<1>0. TypeOK /\ ToServerOK
  BY DEF Inv
<1>1. UNCHANGED <<pc, size, sentChunks, pushId, waiting, newWaiters, channelOf, open, report, released>>
  BY DEF TakesFrom, clientVars
<1>2. \A x \in Command : x.ch # m.ch /\ CommandOK(x) => CommandOK(x)'
  BY OthersKept DEF TakesFrom
<1>3. /\ ToServerOK' /\ CommandOK(m) /\ Asked(c) /\ ~Asked(c)'
      /\ \A d \in File : d # c => (Asked(d)' <=> Asked(d))
  BY <1>0, <1>2, Takes DEF TakesFrom
<1>4. m.type = pc[c] /\ waiting[c] /\ m.type \in CommandType /\ (m.type # "NEW" => m.id = readerId[c])
  BY <1>3 DEF TakesFrom, CommandOK, Command
<1>5. TurnOK(c)
  BY Facts
<1>6. (~disposed[c] => Before(c)) /\ (m.type # "NEW" => Knows(c)) /\ (m.type = "NEW" => ~disposed[c])
  BY <1>3, <1>4, <1>5 DEF TurnOK, CommandType
<1>7. /\ \A x \in Response : InClient(x) /\ x.ch = c => x.type \notin AnswerType
      /\ \A i \in 1..Len(toClient) : toClient[i].type \in AnswerType => toClient[i].ch # c
  BY <1>3, NoAnswer
<1>8. ASSUME ~disposed[c] \/ Same(c), NEW x \in Response, InClient(x)
      PROVE  ResponseOK(x)'
  <2>1. ResponseOK(x) /\ x.ch \in File
    BY <1>8 DEF Inv, ToClientOK, Response
  <2>2. CASE x.ch # c
    BY <1>3, <2>1, <2>2, OthersKept DEF TakesFrom
  <2>3. CASE x.ch = c
    <3>1. disposed[c]
      BY <1>7, <1>8, <2>1, <2>3 DEF ResponseOK
    <3>2. Same(c)
      BY <1>8, <3>1
    <3>3. Asked(c)' => Asked(c)
      BY <1>3
    <3> QED BY <2>1, <2>3, <3>2, <3>3, SameKept
  <2> QED BY <2>2, <2>3
<1> QED BY <1>1, <1>3, <1>4, <1>6, <1>7, <1>8

(* What remains to be shown of such a step.                                *)
LEMMA TakenInv ==
  ASSUME Inv, ~released, NEW m \in Command, NEW c \in File, TakesFrom(m, c),
         TypeOK', IdsOK', ReaderOK(c)', ClientOK(c)', TurnOK(c)', ToClientOK', WaitersOK'
  PROVE  Inv'
<1>1. /\ ToServerOK' /\ (\A d \in File : d # c => (Asked(d)' <=> Asked(d)))
      /\ channelOf' = channelOf /\ released' = released
  BY TakesFacts
<1>2. Others(c)
  BY DEF TakesFrom
<1>3. \A d \in File : ReaderOK(d)' /\ ClientOK(d)'
  BY <1>2, OthersKept DEF Inv
<1>4. \A d \in File : TurnOK(d)'
  BY <1>1, <1>2, OthersKept DEF Inv
<1> QED BY <1>1, <1>3, <1>4 DEF Inv

(* No command but NEW and no answer but its id concerns the order of ids.  *)
LEMMA TakenWaiters ==
  ASSUME Inv, ~released, NEW m \in Command, NEW c \in File, TakesFrom(m, c), m.type # "NEW",
         TypeOK', fileId' = fileId,
         \/ toClient' = toClient
         \/ \E r \in Response : r.type # "NEW_PUSH_ID" /\ toClient' = Append(toClient, r)
  PROVE  WaitersOK'
<1>1. TypeOK /\ WaitersOK
  BY DEF Inv
<1>2. UNCHANGED <<pc, waiting, newWaiters>>
  BY TakesFacts
<1>3. Shifts(toServer, toServer', 1, "NEW")
  BY <1>1, ShiftsTail DEF TakesFrom, TypeOK
<1>4. Shifts(toClient, toClient', 0, "NEW_PUSH_ID")
  BY <1>1, ShiftsSame, ShiftsAppend DEF TypeOK
<1> QED BY <1>1, <1>2, <1>3, <1>4, WaitersKept

(* The next id is new.                                                     *)
LEMMA NextId ==
  ASSUME Bounds, Inv, NEW c \in File, state[c] = "INITIAL",
         state' = [state EXCEPT ![c] = "NEW"], fileId' = getNextId,
         readerId' = [readerId EXCEPT ![c] = getNextId], UNCHANGED <<pushId, channelOf>>
  PROVE  IdsOK' /\ getNextId # NoId /\ getNextId \in Nat /\ (Overflown => getNextId > MaxInResponse)
<1> DEFINE next == getNextId
<1>1. /\ state \in [File -> {"INITIAL", "NEW", "START", "APPEND", "FINISH"}]
      /\ readerId \in [File -> Nat] /\ fileId \in 1..MaxId
      /\ MaxId \in Nat /\ MaxInResponse \in Nat /\ FirstId \in 1..MaxId
  BY DEF Inv, TypeOK, ReaderTypes, Bounds
<1>2. Started' = Started \cup {c} /\ c \notin Started /\ Started \subseteq File /\ Started' \subseteq File
  BY <1>1 DEF Started
<1>3. IsFiniteSet(File) /\ IsFiniteSet(Started) /\ Cardinality(File) \in Nat
  BY <1>2, FS_Subset, FS_CardinalityType DEF Bounds
<1>4. Count \in Nat /\ Count' = Count + 1 /\ Count + 1 <= Cardinality(File)
  <2>1. Cardinality(Started \cup {c}) = Cardinality(Started) + 1 /\ Cardinality(Started) \in Nat
    BY <1>2, <1>3, FS_AddElement, FS_CardinalityType
  <2>2. Cardinality(Started \cup {c}) <= Cardinality(File)
    BY <1>2, <1>3, FS_Subset
  <2> QED BY <1>2, <2>1, <2>2 DEF Count
<1>5. next = (IF fileId + 1 > MaxId THEN 1 ELSE fileId + 1)
  BY DEF getNextId
<1>6. \/ FirstId + Cardinality(File) <= MaxId
      \/ Cardinality(File) <= MaxId /\ MaxId <= MaxInResponse
  BY DEF Bounds
<1>7. \/ /\ fileId = FirstId + Count
         /\ \A d \in Started : readerId[d] > FirstId /\ readerId[d] <= fileId
      \/ /\ fileId + MaxId = FirstId + Count
         /\ MaxId <= MaxInResponse
         /\ \A d \in Started : readerId[d] > FirstId \/ readerId[d] <= fileId
         /\ \A d \in Started : readerId[d] <= MaxId
  BY DEF Inv, IdsOK
<1> HIDE DEF next
<1>8. \A d \in Started : readerId[d] \in Nat
  BY <1>1, <1>2
<1>9. /\ next \in 1..MaxId
      /\ \A d \in Started : readerId[d] # next
      /\ fileId > MaxInResponse => next > MaxInResponse
      /\ \/ /\ next = FirstId + (Count + 1) /\ next > FirstId
            /\ \A d \in Started : readerId[d] > FirstId /\ readerId[d] <= next
         \/ /\ next + MaxId = FirstId + (Count + 1)
            /\ MaxId <= MaxInResponse
            /\ \A d \in Started : readerId[d] > FirstId \/ readerId[d] <= next
            /\ \A d \in Started : readerId[d] <= MaxId
  <2>1. CASE /\ fileId = FirstId + Count
             /\ \A d \in Started : readerId[d] > FirstId /\ readerId[d] <= fileId
    <3>1. CASE fileId + 1 > MaxId
      BY <1>1, <1>3, <1>4, <1>5, <1>6, <1>8, <2>1, <3>1
    <3>2. CASE ~(fileId + 1 > MaxId)
      BY <1>1, <1>3, <1>4, <1>5, <1>6, <1>8, <2>1, <3>2
    <3> QED BY <3>1, <3>2
  <2>2. CASE /\ fileId + MaxId = FirstId + Count
             /\ MaxId <= MaxInResponse
             /\ \A d \in Started : readerId[d] > FirstId \/ readerId[d] <= fileId
             /\ \A d \in Started : readerId[d] <= MaxId
    <3>1. fileId < FirstId /\ next = fileId + 1
      BY <1>1, <1>3, <1>4, <1>5, <1>6, <2>2
    <3> QED BY <1>1, <1>4, <1>8, <2>2, <3>1
  <2> QED BY <1>7, <2>1, <2>2
<1>10. /\ readerId'[c] = next /\ \A d \in File : d # c => readerId'[d] = readerId[d]
       /\ state'[c] = "NEW" /\ \A d \in File : d # c => state'[d] = state[d]
       /\ fileId' = next
  BY <1>1 DEF next
<1>11. next # NoId /\ next \in Nat
  BY <1>1, <1>9 DEF NoId
<1>12. \A d \in File : state'[d] = "INITIAL" <=> readerId'[d] = NoId
  <2> SUFFICES ASSUME NEW d \in File PROVE state'[d] = "INITIAL" <=> readerId'[d] = NoId
    OBVIOUS
  <2>1. state[d] = "INITIAL" <=> readerId[d] = NoId
    BY DEF Inv, IdsOK
  <2>2. CASE d = c
    BY <1>10, <1>11, <2>2
  <2>3. CASE d # c
    BY <1>10, <2>1, <2>3
  <2> QED BY <2>2, <2>3
<1>13. \A d, e \in Started' : readerId'[d] = readerId'[e] => d = e
  BY <1>2, <1>9, <1>10 DEF Inv, IdsOK
<1>14. \A d \in File : pushId'[d] \in {NoId, readerId'[d]}
  BY <1>10 DEF Inv, IdsOK
<1>15. \A p \in channelOf' : p[1] = readerId'[p[2]] /\ p[1] # NoId
  <2> SUFFICES ASSUME NEW p \in channelOf PROVE p[1] = readerId'[p[2]] /\ p[1] # NoId
    OBVIOUS
  <2>1. p[1] = readerId[p[2]] /\ p[1] # NoId /\ p[2] \in File
    BY DEF Inv, IdsOK, TypeOK, ClientTypes
  <2>2. readerId[c] = NoId
    BY DEF Inv, IdsOK
  <2> QED BY <1>10, <2>1, <2>2
<1>16. \/ /\ fileId' = FirstId + Count'
          /\ \A d \in Started' : readerId'[d] > FirstId /\ readerId'[d] <= fileId'
       \/ /\ fileId' + MaxId = FirstId + Count'
          /\ MaxId <= MaxInResponse
          /\ \A d \in Started' : readerId'[d] > FirstId \/ readerId'[d] <= fileId'
          /\ \A d \in Started' : readerId'[d] <= MaxId
  <2>1. \A d \in Started' : d = c \/ (d \in Started /\ readerId'[d] = readerId[d])
    BY <1>2, <1>10
  <2> QED BY <1>1, <1>4, <1>9, <1>10, <2>1
<1>17. IdsOK'
  BY <1>12, <1>13, <1>14, <1>15, <1>16 DEF IdsOK
<1> QED BY <1>9, <1>11, <1>17 DEF Overflown, next

(* NEW is answered, and with it the order of the ids goes on.              *)
LEMMA NewWaiters ==
  ASSUME TypeOK, TypeOK', WaitersOK, NEW c \in File,
         toServer # <<>>, toServer' = Tail(toServer), IsNew(Head(toServer), c),
         NEW m \in Response, IsNewId(m, c),
         \/ toClient' = Append(toClient, m) /\ ~Overflown
         \/ toClient' = toClient /\ Overflown',
         Overflown => Overflown',
         UNCHANGED <<pc, waiting, newWaiters>>
  PROVE  WaitersOK'
<1> DEFINE s == Len(toServer)
           r == Len(toClient)
<1>1. /\ s \in Nat /\ s > 0 /\ Len(toServer') = s - 1 /\ IsNew(toServer[1], c)
      /\ \A i \in 1..Len(toServer') : toServer'[i] = toServer[i + 1] /\ i + 1 \in 1..s
  BY Tailed DEF TypeOK
<1>2. \A i \in 1..s : i = 1 \/ (i - 1 \in 1..Len(toServer') /\ toServer'[i - 1] = toServer[i])
  BY <1>1
<1>3. /\ r \in Nat /\ Len(toClient') \in Nat /\ Len(toClient') >= r
      /\ \A i \in 1..r : toClient'[i] = toClient[i] /\ i \in 1..Len(toClient')
      /\ Overflown' \/ (Len(toClient') = r + 1 /\ toClient'[r + 1] = m /\ ~Overflown)
      /\ \A i \in 1..Len(toClient') : i \in 1..r \/ (i = r + 1 /\ toClient'[i] = m /\ ~Overflown)
  <2>1. r \in Nat
    BY LenProperties DEF TypeOK
  <2>2. CASE toClient' = Append(toClient, m) /\ ~Overflown
    <3>1. Len(toClient') = r + 1 /\ toClient'[r + 1] = m /\ \A i \in 1..r : toClient'[i] = toClient[i]
      BY <2>2, Appended DEF TypeOK
    <3> HIDE DEF r
    <3> QED BY <2>1, <2>2, <3>1
  <2>3. CASE toClient' = toClient /\ Overflown'
    BY <2>1, <2>3
  <2> QED BY <2>2, <2>3
<1> HIDE DEF s, r
<1>4. (IsNewId(toClient'[r + 1], c) /\ r + 1 \in 1..Len(toClient')) \/ Overflown'
  BY <1>3
<1>5. /\ \A d \in File : (pc'[d] = "NEW" /\ waiting'[d]) <=> \E i \in 1..Len(newWaiters') : newWaiters'[i] = d
      /\ \A i, j \in 1..Len(newWaiters') : newWaiters'[i] = newWaiters'[j] => i = j
  BY DEF WaitersOK
<1>6. ASSUME NEW i \in 1..Len(newWaiters')
      PROVE  \/ Overflown'
             \/ \E k \in 1..Len(toServer') : IsNew(toServer'[k], newWaiters'[i])
             \/ \E k \in 1..Len(toClient') : IsNewId(toClient'[k], newWaiters'[i])
  <2>1. \/ Overflown
        \/ \E k \in 1..s : IsNew(toServer[k], newWaiters[i])
        \/ \E k \in 1..r : IsNewId(toClient[k], newWaiters[i])
    BY DEF WaitersOK, s, r
  <2>2. CASE \E k \in 1..s : IsNew(toServer[k], newWaiters[i])
    <3>1. PICK k \in 1..s : IsNew(toServer[k], newWaiters[i])
      BY <2>2
    <3>2. CASE k = 1
      <4>1. newWaiters'[i] = c
        BY <1>1, <3>1, <3>2 DEF IsNew
      <4> QED BY <1>4, <4>1
    <3>3. CASE k # 1
      BY <1>2, <3>1, <3>3
    <3> QED BY <3>2, <3>3
  <2> QED BY <1>3, <2>1, <2>2
<1>7. ASSUME NEW j \in 1..Len(newWaiters'), NEW i \in 1..(j - 1)
      PROVE  /\ \A k \in 1..Len(toServer') : IsNew(toServer'[k], newWaiters'[j]) =>
                  \/ Overflown'
                  \/ \E l \in 1..(k - 1) : IsNew(toServer'[l], newWaiters'[i])
                  \/ \E l \in 1..Len(toClient') : IsNewId(toClient'[l], newWaiters'[i])
             /\ \A k \in 1..Len(toClient') : IsNewId(toClient'[k], newWaiters'[j]) =>
                  \E l \in 1..(k - 1) : IsNewId(toClient'[l], newWaiters'[i])
  <2>0. /\ \A k \in 1..s : IsNew(toServer[k], newWaiters[j]) =>
             \/ Overflown
             \/ \E l \in 1..(k - 1) : IsNew(toServer[l], newWaiters[i])
             \/ \E l \in 1..r : IsNewId(toClient[l], newWaiters[i])
        /\ \A k \in 1..r : IsNewId(toClient[k], newWaiters[j]) =>
             \E l \in 1..(k - 1) : IsNewId(toClient[l], newWaiters[i])
    BY DEF WaitersOK, s, r
  <2>1. ASSUME NEW k \in 1..Len(toServer'), IsNew(toServer'[k], newWaiters'[j])
        PROVE  \/ Overflown'
               \/ \E l \in 1..(k - 1) : IsNew(toServer'[l], newWaiters'[i])
               \/ \E l \in 1..Len(toClient') : IsNewId(toClient'[l], newWaiters'[i])
    <3>1. k + 1 \in 1..s /\ IsNew(toServer[k + 1], newWaiters[j])
      BY <1>1, <2>1
    <3>2. \/ Overflown
          \/ \E l \in 1..((k + 1) - 1) : IsNew(toServer[l], newWaiters[i])
          \/ \E l \in 1..r : IsNewId(toClient[l], newWaiters[i])
      BY <2>0, <3>1
    <3>3. CASE \E l \in 1..((k + 1) - 1) : IsNew(toServer[l], newWaiters[i])
      <4>1. PICK l \in 1..((k + 1) - 1) : IsNew(toServer[l], newWaiters[i])
        BY <3>3
      <4>2. CASE l = 1
        <5>1. newWaiters'[i] = c
          BY <1>1, <4>1, <4>2 DEF IsNew
        <5> QED BY <1>4, <5>1
      <4>3. CASE l # 1
        <5>1. l \in 1..s /\ l - 1 \in 1..(k - 1)
          BY <1>1, <3>1, <4>1, <4>3
        <5> QED BY <1>2, <4>1, <4>3, <5>1
      <4> QED BY <4>2, <4>3
    <3> QED BY <1>3, <3>2, <3>3
  <2>2. ASSUME NEW k \in 1..Len(toClient'), IsNewId(toClient'[k], newWaiters'[j])
        PROVE  \E l \in 1..(k - 1) : IsNewId(toClient'[l], newWaiters'[i])
    <3>1. CASE k \in 1..r
      <4>1. PICK l \in 1..(k - 1) : IsNewId(toClient[l], newWaiters[i])
        BY <1>3, <2>0, <2>2, <3>1
      <4>2. l \in 1..r
        BY <1>3, <3>1, <4>1
      <4> QED BY <1>3, <4>1, <4>2
    <3>2. CASE k = r + 1 /\ toClient'[k] = m /\ ~Overflown
      <4>1. newWaiters[j] = c
        BY <2>2, <3>2 DEF IsNewId
      <4>2. IsNew(toServer[1], newWaiters[j]) /\ 1 \in 1..s
        BY <1>1, <4>1
      <4>3. \/ \E l \in 1..(1 - 1) : IsNew(toServer[l], newWaiters[i])
            \/ \E l \in 1..r : IsNewId(toClient[l], newWaiters[i])
        BY <2>0, <3>2, <4>2
      <4>4. PICK l \in 1..r : IsNewId(toClient[l], newWaiters[i])
        BY <4>3
      <4> QED BY <1>3, <3>2, <4>4
    <3> QED BY <1>3, <3>1, <3>2
  <2> QED BY <2>1, <2>2
<1> QED BY <1>5, <1>6, <1>7 DEF WaitersOK

(* The reader of c takes the command for which it is disposed.             *)
LEMMA DroppedInv ==
  ASSUME Bounds, Inv, ~released, TypeOK', NEW m \in Command, NEW c \in File,
         ReaderReceive, m = Head(toServer), c = m.ch, disposed[c],
         UNCHANGED <<state, readerId, disposed, creating, finishing, stream, streams,
                     fileId, toClient>>
  PROVE  Inv'
<1>1. Others(c) /\ Same(c) /\ TakesFrom(m, c)
  BY DEF ReaderReceive, Others, Same, TakesFrom, clientVars
<1>2. m.type = pc[c] /\ waiting[c] /\ m.type # "NEW" /\ Knows(c) /\ m.type \in CommandType
  BY <1>1, TakesFacts DEF Command
<1>3. /\ UNCHANGED <<pc, size, sentChunks, pushId, waiting, newWaiters, channelOf, open, report>>
      /\ \A x \in Response : InClient(x) => ResponseOK(x)'
  BY <1>1, TakesFacts
<1>4. IdsOK'
  BY <1>3, IdsKept DEF Inv
<1>5. ReaderOK(c)' /\ ClientOK(c)'
  BY <1>1, SameKept, Facts
<1>6. TurnOK(c)'
  BY <1>2, <1>3 DEF TurnOK, Knows, CommandType
<1>7. ToClientOK'
  BY <1>3, QueuesKept DEF Inv
<1>8. WaitersOK'
  BY <1>1, <1>2, TakenWaiters
<1> QED BY <1>1, <1>4, <1>5, <1>6, <1>7, <1>8, TakenInv

(* NEW: the reader gets an id and sends it.                                *)
LEMMA OnNewInv ==
  ASSUME Bounds, Inv, ~released, TypeOK', NEW m \in Command, NEW c \in File,
         ReaderReceive, m = Head(toServer), c = m.ch, ~disposed[c], OnNew(m)
  PROVE  Inv'
<1>0. TypeOK /\ WaitersOK /\ ToClientOK
  BY DEF Inv
<1>1. TakesFrom(m, c)
  BY <1>0, SMTT(20) DEF ReaderReceive, OnNew, closeWithError, Others, Same, TakesFrom, clientVars, TypeOK, ReaderTypes
<1>2. /\ m.type = "NEW" /\ pc[c] = "NEW" /\ waiting[c] /\ Before(c) /\ ~Asked(c)'
      /\ UNCHANGED <<pc, size, sentChunks, pushId, waiting, newWaiters, channelOf, open, report>>
      /\ \A x \in Response : InClient(x) => ResponseOK(x)'
      /\ \A i \in 1..Len(toClient) : toClient[i].type \in AnswerType => toClient[i].ch # c
  BY <1>1, TakesFacts DEF OnNew
<1>3. /\ state[c] = "INITIAL" /\ ReaderOK(c) /\ ClientOK(c) /\ TurnOK(c)
      /\ Len(stream[c]) \in Nat /\ Len(stream[c]) = 0 /\ ~finishing[c] /\ acked[c] = 0
  BY <1>2, Facts DEF Before, ReaderOK
<1>4. /\ state' = [state EXCEPT ![c] = "NEW"]
      /\ fileId' = getNextId
      /\ readerId' = [readerId EXCEPT ![c] = getNextId]
      /\ toClient' = IF getNextId <= MaxInResponse
                     THEN Append(toClient, response(c, getNextId, "NEW_PUSH_ID"))
                     ELSE toClient
      /\ UNCHANGED <<disposed, creating, finishing, stream, streams, acked, transfer>>
  BY <1>3 DEF OnNew, ReaderReceive
<1>5. IdsOK' /\ getNextId # NoId /\ getNextId \in Nat /\ (Overflown => getNextId > MaxInResponse)
  BY <1>2, <1>3, <1>4, NextId
<1>6. state'[c] = "NEW" /\ readerId'[c] = getNextId
  BY <1>0, <1>4 DEF TypeOK, ReaderTypes
<1>7. ReaderOK(c)'
  BY <1>3, <1>4, <1>6 DEF ReaderOK
<1>8. ClientOK(c)'
  BY <1>2, <1>3, <1>4 DEF ClientOK
<1>9. TurnOK(c)'
  BY <1>2, <1>3, <1>4, <1>6 DEF TurnOK, After, CommandType
<1>10. PICK r \in Response : r = response(c, getNextId, "NEW_PUSH_ID") /\ r.ch = c /\ r.id = getNextId
                             /\ r.type = "NEW_PUSH_ID"
  BY <1>5, ResponseType DEF AnswerType
<1>11. ToClientOK'
  <2>1. ResponseOK(r)'
    BY <1>2, <1>3, <1>4, <1>5, <1>6, <1>10 DEF ResponseOK, Answered, AnswerType, CommandType
  <2>2. CASE toClient' = Append(toClient, r)
    BY <1>0, <1>2, <1>10, <2>1, <2>2, Replies
  <2>3. CASE toClient' = toClient
    BY <1>0, <1>2, <2>3, QueuesKept
  <2> QED BY <1>4, <1>10, <2>2, <2>3
<1>12. WaitersOK'
  <2>1. toServer # <<>> /\ toServer' = Tail(toServer) /\ IsNew(Head(toServer), c)
    BY <1>1, <1>2 DEF TakesFrom, IsNew
  <2>2. IsNewId(r, c)
    BY <1>10 DEF IsNewId
  <2>3. MaxInResponse \in Nat
    BY DEF Bounds
  <2>4. Overflown' <=> getNextId > MaxInResponse
    BY <1>4 DEF Overflown
  <2>5. CASE getNextId <= MaxInResponse
    <3>1. toClient' = Append(toClient, r) /\ ~Overflown
      BY <1>4, <1>5, <1>10, <2>3, <2>5
    <3> QED BY <1>0, <1>2, <2>1, <2>2, <3>1, NewWaiters
  <2>6. CASE ~(getNextId <= MaxInResponse)
    <3>1. toClient' = toClient /\ Overflown'
      BY <1>4, <1>5, <2>3, <2>4, <2>6
    <3> QED BY <1>0, <1>2, <2>1, <2>2, <3>1, NewWaiters
  <2> QED BY <2>5, <2>6
<1> QED BY <1>1, <1>5, <1>7, <1>8, <1>9, <1>11, <1>12, TakenInv

(* START: an empty file is refused, any other one is awaited.              *)
LEMMA OnStartInv ==
  ASSUME Bounds, Inv, ~released, TypeOK', NEW m \in Command, NEW c \in File,
         ReaderReceive, m = Head(toServer), c = m.ch, ~disposed[c], OnStart(m)
  PROVE  Inv'
<1>0. TypeOK /\ ToClientOK
  BY DEF Inv
<1>1. TakesFrom(m, c)
  BY <1>0, SMTT(20) DEF ReaderReceive, OnStart, closeWithError, Others, Same, TakesFrom, clientVars, TypeOK, ReaderTypes
<1>2. /\ m.type = "START" /\ pc[c] = "START" /\ waiting[c] /\ Before(c) /\ ~Asked(c)' /\ CommandOK(m)
      /\ m.id = readerId[c] /\ Knows(c)
      /\ UNCHANGED <<pc, size, sentChunks, pushId, waiting, newWaiters, channelOf, open, report>>
      /\ \A x \in Response : InClient(x) => ResponseOK(x)'
      /\ \A i \in 1..Len(toClient) : toClient[i].type \in AnswerType => toClient[i].ch # c
  BY <1>1, TakesFacts DEF OnStart
<1>3. /\ state[c] = "NEW" /\ ReaderOK(c) /\ ClientOK(c) /\ TurnOK(c)
      /\ Len(stream[c]) \in Nat /\ Len(stream[c]) = 0 /\ ~finishing[c] /\ acked[c] = 0
      /\ m.k = size[c]
  BY <1>2, Facts DEF Before, ReaderOK, CommandOK
<1>4. UNCHANGED <<readerId, fileId, creating, finishing, stream, streams, acked, transfer>>
  BY DEF OnStart, ReaderReceive
<1>5. Knows(c)'
  BY <1>2, <1>4 DEF Knows
<1>6. CASE closeWithError(c) /\ size[c] = 0 /\ UNCHANGED state
  <2>1. disposed'[c] = TRUE
    BY <1>0, <1>6 DEF closeWithError, TypeOK, ReaderTypes
  <2>2. PICK r \in Response : toClient' = Append(toClient, r) /\ r.ch = c /\ r.type = "failed"
    BY <1>6, ResponseType DEF closeWithError, NoId
  <2>3. ReaderOK(c)'
    BY <1>3, <1>4, <1>6, <2>1 DEF ReaderOK
  <2>4. ClientOK(c)'
    BY <1>2, <1>3, <1>4, <1>6 DEF ClientOK
  <2>5. TurnOK(c)'
    BY <1>2, <1>5, <2>1 DEF TurnOK, CommandType
  <2>6. IdsOK'
    BY <1>2, <1>4, <1>6, IdsKept DEF Inv
  <2>7. ToClientOK'
    <3>1. ResponseOK(r)'
      BY <1>2, <1>6, <2>1, <2>2 DEF ResponseOK, AnswerType
    <3> QED BY <1>0, <1>2, <2>2, <3>1, Replies DEF AnswerType
  <2>8. WaitersOK'
    BY <1>1, <1>2, <1>4, <2>2, TakenWaiters
  <2> QED BY <1>1, <2>3, <2>4, <2>5, <2>6, <2>7, <2>8, TakenInv
<1>7. CASE /\ state' = [state EXCEPT ![c] = "START"]
           /\ toClient' = Append(toClient, response(c, readerId[c], "NO_ERROR"))
           /\ UNCHANGED disposed
  <2>1. state'[c] = "START" /\ \A d \in File : state'[d] = "INITIAL" <=> state[d] = "INITIAL"
    BY <1>0, <1>3, <1>7 DEF TypeOK, ReaderTypes
  <2>2. PICK r \in Response : toClient' = Append(toClient, r) /\ r.ch = c /\ r.type = "NO_ERROR"
                              /\ r.id = readerId[c]
    BY <1>0, <1>7, ResponseType, SMTT(20) DEF AnswerType, TypeOK, ReaderTypes
  <2>3. ReaderOK(c)'
    BY <1>3, <1>4, <1>7, <2>1 DEF ReaderOK
  <2>4. ClientOK(c)'
    BY <1>2, <1>3, <1>4, <1>7 DEF ClientOK
  <2>5. TurnOK(c)'
    BY <1>2, <1>3, <1>4, <1>5, <1>7, <2>1 DEF TurnOK, After, CommandType
  <2>6. IdsOK'
    BY <1>2, <1>4, <2>1, IdsKept DEF Inv
  <2>7. ToClientOK'
    <3>1. ResponseOK(r)'
      BY <1>2, <1>3, <1>4, <2>2 DEF ResponseOK, AnswerType, Answered, Knows, CommandType
    <3> QED BY <1>0, <1>2, <2>2, <3>1, Replies DEF AnswerType
  <2>8. WaitersOK'
    BY <1>1, <1>2, <1>4, <2>2, TakenWaiters
  <2> QED BY <1>1, <2>3, <2>4, <2>5, <2>6, <2>7, <2>8, TakenInv
<1> QED BY <1>2, <1>3, <1>6, <1>7 DEF OnStart

(* The stream so far and one chunk.                                        *)
LEMMA OneMore ==
  ASSUME NEW n \in Nat
  PROVE  /\ Chunks(n) \in Seq(Nat) /\ Len(Chunks(n)) = n
         /\ Append(Chunks(n), n + 1) = Chunks(n + 1) /\ <<1>> = Chunks(1)
<1>1. Chunks(n) \in Seq(Nat) /\ Len(Chunks(n)) = n
  BY DEF Chunks
<1>2. Chunks(n + 1) \in Seq(Nat) /\ Len(Chunks(n + 1)) = n + 1
  BY DEF Chunks
<1>3. Append(Chunks(n), n + 1) = Chunks(n + 1)
  BY <1>1, <1>2 DEF Chunks
<1>4. <<1>> = Chunks(1)
  BY DEF Chunks
<1> QED BY <1>1, <1>3, <1>4

(* APPEND: the chunk is the next one of the file.                          *)
LEMMA OnAppendInv ==
  ASSUME Bounds, Inv, ~released, TypeOK', NEW m \in Command, NEW c \in File,
         ReaderReceive, m = Head(toServer), c = m.ch, ~disposed[c], OnAppend(m)
  PROVE  Inv'
<1>0. TypeOK /\ ToClientOK
  BY DEF Inv
<1>1. TakesFrom(m, c)
  <2>1. Others(c)
    <3> SUFFICES ASSUME NEW d \in File, d # c PROVE Same(d)
      BY DEF Others
    <3>1. disposed'[d] = disposed[d]
      BY <1>0 DEF OnAppend, closeWithError, TypeOK, ReaderTypes
    <3>2. stream'[d] = stream[d] /\ streams'[d] = streams[d] /\ creating'[d] = creating[d]
      <4>1. /\ stream' = stream \/ stream' = [stream EXCEPT ![c] = <<m.k>>]
               \/ stream' = [stream EXCEPT ![c] = Append(@, m.k)]
            /\ streams' = streams \/ streams' = [streams EXCEPT ![c] = @ + 1]
            /\ creating' = creating \/ creating' = [creating EXCEPT ![c] = "pending"]
        BY DEF OnAppend
      <4>2. /\ stream \in [File -> Seq(Nat)] /\ streams \in [File -> Nat]
            /\ creating \in [File -> {"no", "pending", "refused"}]
        BY <1>0 DEF TypeOK, ReaderTypes
      <4>3. stream'[d] = stream[d]
        BY <4>1, <4>2
      <4>4. streams'[d] = streams[d]
        BY <4>1, <4>2
      <4>5. creating'[d] = creating[d]
        BY <4>1, <4>2
      <4> QED BY <4>3, <4>4, <4>5
    <3>3. UNCHANGED <<clientVars, acked, transfer, state, readerId, fileId, finishing>>
      BY DEF ReaderReceive, OnAppend
    <3> QED BY <3>1, <3>2, <3>3 DEF Same, clientVars
  <2> QED BY <2>1 DEF ReaderReceive, TakesFrom
<1>2. /\ m.type = "APPEND" /\ pc[c] = "APPEND" /\ waiting[c] /\ Before(c) /\ ~Asked(c)' /\ CommandOK(m)
      /\ m.id = readerId[c] /\ Knows(c)
      /\ UNCHANGED <<pc, size, sentChunks, pushId, waiting, newWaiters, channelOf, open, report>>
      /\ \A x \in Response : InClient(x) => ResponseOK(x)'
  BY <1>1, TakesFacts DEF OnAppend
<1>3. /\ ReaderOK(c) /\ ClientOK(c) /\ TurnOK(c)
      /\ Len(stream[c]) \in Nat /\ ~finishing[c] /\ acked[c] = Len(stream[c])
      /\ sentChunks[c] = Len(stream[c]) + 1 /\ m.k = sentChunks[c]
      /\ state[c] = IF Len(stream[c]) = 0 THEN "START" ELSE "APPEND"
  BY <1>2, Facts DEF Before, CommandOK
<1>4. UNCHANGED <<state, readerId, fileId, finishing, acked, transfer, disposed, toClient>>
  BY <1>2, <1>3 DEF OnAppend, ReaderReceive
<1>5. /\ stream'[c] = Chunks(Len(stream[c]) + 1) /\ Len(stream'[c]) = Len(stream[c]) + 1
      /\ streams'[c] = 1
      /\ creating'[c] = IF Len(stream[c]) = 0 THEN "pending" ELSE "no"
  <2>1. /\ Len(Chunks(Len(stream[c]) + 1)) = Len(stream[c]) + 1
        /\ Append(Chunks(Len(stream[c])), Len(stream[c]) + 1) = Chunks(Len(stream[c]) + 1)
        /\ <<1>> = Chunks(1)
    <3>1. Len(stream[c]) + 1 \in Nat
      BY <1>3
    <3>2. Len(Chunks(Len(stream[c]) + 1)) = Len(stream[c]) + 1
      BY <3>1, OneMore
    <3> QED BY <1>3, <3>2, OneMore
  <2>2. CASE Len(stream[c]) = 0
    <3>1. /\ stream' = [stream EXCEPT ![c] = <<1>>]
          /\ streams' = [streams EXCEPT ![c] = @ + 1]
          /\ creating' = [creating EXCEPT ![c] = "pending"]
      BY <1>2, <1>3, <2>2 DEF OnAppend, AppendCreates
    <3>2. streams[c] = 0
      BY <1>3, <2>2 DEF ReaderOK
    <3>3. stream'[c] = <<1>> /\ streams'[c] = 1 /\ creating'[c] = "pending"
      BY <1>0, <3>1, <3>2, SMTT(20) DEF TypeOK, ReaderTypes
    <3> QED BY <2>1, <2>2, <3>3
  <2>3. CASE Len(stream[c]) # 0
    <3>1. /\ stream' = [stream EXCEPT ![c] = Append(@, Len(stream[c]) + 1)]
          /\ UNCHANGED <<streams, creating>>
      BY <1>2, <1>3, <2>3 DEF OnAppend, AppendCreates
    <3>2. streams[c] = 1 /\ creating[c] = "no" /\ stream[c] = Chunks(Len(stream[c]))
      <4>1. Len(stream[c]) > 0
        BY <1>3, <2>3
      <4>2. creating[c] \in {"no", "pending", "refused"}
        BY <1>0 DEF TypeOK, ReaderTypes
      <4> QED BY <1>3, <2>3, <4>1, <4>2 DEF ReaderOK
    <3>3. stream'[c] = Append(stream[c], Len(stream[c]) + 1)
      BY <1>0, <3>1 DEF TypeOK, ReaderTypes
    <3> QED BY <2>1, <2>3, <3>1, <3>2, <3>3
  <2> QED BY <2>2, <2>3
<1>6. ReaderOK(c)'
  <2>1. state[c] = "START" <=> Len(stream[c]) = 0
    BY <1>3
  <2>2. Len(stream[c]) = 0 => transfer[c] = "none"
    BY <1>3 DEF ReaderOK
  <2>3. Len(stream[c]) > 0 => transfer[c] # "none"
    BY <1>3, <2>1 DEF ReaderOK
  <2>4. transfer[c] \notin {"ended", "failed"}
    BY <1>3, <1>0 DEF ReaderOK
  <2> QED BY <1>3, <1>4, <1>5, <2>1, <2>2, <2>3, <2>4, SMTT(20) DEF ReaderOK
<1>7. ClientOK(c)'
  BY <1>2, <1>3, <1>4 DEF ClientOK
<1>8. Knows(c)'
  BY <1>2, <1>4 DEF Knows
<1>9. TurnOK(c)'
  BY <1>2, <1>3, <1>4, <1>5, <1>8 DEF TurnOK, After, CommandType
<1>10. IdsOK'
  BY <1>2, <1>4, IdsKept DEF Inv
<1>11. ToClientOK'
  BY <1>0, <1>2, <1>4, QueuesKept
<1>12. WaitersOK'
  BY <1>1, <1>2, <1>4, TakenWaiters
<1> QED BY <1>1, <1>6, <1>7, <1>9, <1>10, <1>11, <1>12, TakenInv

(* FINISH: all chunks are there; it waits for createStream or ends the     *)
(* stream.                                                                 *)
LEMMA OnFinishInv ==
  ASSUME Bounds, Inv, ~released, TypeOK', NEW m \in Command, NEW c \in File,
         ReaderReceive, m = Head(toServer), c = m.ch, ~disposed[c], OnFinish(m)
  PROVE  Inv'
<1>0. TypeOK /\ ToClientOK
  BY DEF Inv
<1>1. TakesFrom(m, c)
  BY <1>0, ZenonT(30) DEF ReaderReceive, OnFinish, Finish, closeWithError, Others, Same, TakesFrom, clientVars,
              TypeOK, ReaderTypes
<1>2. /\ m.type = "FINISH" /\ pc[c] = "FINISH" /\ waiting[c] /\ Before(c) /\ ~Asked(c)'
      /\ m.id = readerId[c] /\ Knows(c)
      /\ UNCHANGED <<pc, size, sentChunks, pushId, waiting, newWaiters, channelOf, open, report>>
      /\ \A x \in Response : InClient(x) => ResponseOK(x)'
  BY <1>1, TakesFacts DEF OnFinish
<1>3. /\ ReaderOK(c) /\ ClientOK(c) /\ TurnOK(c)
      /\ Len(stream[c]) \in Nat /\ ~finishing[c] /\ acked[c] = Len(stream[c])
      /\ Len(stream[c]) = size[c] /\ state[c] \in {"START", "APPEND"}
  BY <1>2, Facts DEF Before
<1>4. Len(stream[c]) > 0
  BY <1>2, <1>3, Facts DEF ClientOK
<1>5. /\ UNCHANGED <<readerId, fileId, creating, stream, streams, acked, transfer, disposed, toClient>>
      /\ \/ creating[c] # "no" /\ finishing' = [finishing EXCEPT ![c] = TRUE] /\ state' = state
         \/ creating[c] = "no" /\ finishing' = finishing /\ state' = [state EXCEPT ![c] = "FINISH"]
  <2>1. creating[c] = "no" => state[c] = "APPEND"
    BY <1>3, <1>4 DEF ReaderOK
  <2> QED BY <1>2, <2>1 DEF OnFinish, ReaderReceive, FinishMustWait, Finish
<1>6. \/ creating[c] # "no" /\ finishing'[c] = TRUE /\ state'[c] = state[c]
      \/ creating[c] = "no" /\ finishing'[c] = finishing[c] /\ state'[c] = "FINISH"
  BY <1>0, <1>5 DEF TypeOK, ReaderTypes
<1>7. \A d \in File : state'[d] = "INITIAL" <=> state[d] = "INITIAL"
  BY <1>0, <1>3, <1>5 DEF TypeOK, ReaderTypes
<1>8. ReaderOK(c)'
  <2>1. CASE creating[c] # "no" /\ finishing'[c] = TRUE /\ state'[c] = state[c]
    BY <1>2, <1>3, <1>4, <1>5, <2>1 DEF ReaderOK
  <2>2. CASE creating[c] = "no" /\ finishing'[c] = finishing[c] /\ state'[c] = "FINISH"
    BY <1>2, <1>3, <1>4, <1>5, <2>2 DEF ReaderOK
  <2> QED BY <1>6, <2>1, <2>2
<1>9. ClientOK(c)'
  BY <1>2, <1>3, <1>5 DEF ClientOK
<1>10. Knows(c)'
  BY <1>2, <1>5 DEF Knows
<1>11. TurnOK(c)'
  BY <1>2, <1>3, <1>5, <1>6, <1>10 DEF TurnOK, After, CommandType
<1>12. IdsOK'
  BY <1>2, <1>5, <1>7, IdsKept DEF Inv
<1>13. ToClientOK'
  BY <1>0, <1>2, <1>5, QueuesKept
<1>14. WaitersOK'
  BY <1>1, <1>2, <1>5, TakenWaiters
<1> QED BY <1>1, <1>8, <1>9, <1>11, <1>12, <1>13, <1>14, TakenInv

LEMMA ReaderReceiveInv ==
  ASSUME Bounds, Inv, ReaderReceive
  PROVE  Inv'
<1>1. TypeOK /\ TypeOK' /\ ~released
  BY ReaderReceiveTypes DEF Inv, Silence, ReaderReceive
<1>2. PICK m \in Command :
        /\ m = Head(toServer)
        /\ \/ ~disposed[m.ch] /\ (OnNew(m) \/ OnStart(m) \/ OnAppend(m) \/ OnFinish(m))
           \/ /\ disposed[m.ch]
              /\ UNCHANGED <<state, readerId, disposed, creating, finishing, stream, streams,
                             fileId, toClient>>
  BY <1>1, Tailed DEF ReaderReceive, TypeOK
<1>3. PICK c \in File : c = m.ch
  BY DEF Command
<1> QED BY <1>1, <1>2, <1>3, DroppedInv, OnNewInv, OnStartInv, OnAppendInv, OnFinishInv

-----------------------------------------------------------------------------
(* adb and the stream of channel c.                                        *)

(* What such a step leaves alone.                                          *)
Serves(c) ==
  /\ UNCHANGED <<clientVars, toServer, readerId, fileId>>
  /\ Others(c)
  /\ state'[c] = "INITIAL" <=> state[c] = "INITIAL"
  /\ disposed[c] => disposed'[c]
  /\ Answered(c) => Answered(c)'
  /\ transfer[c] = "failed" => transfer'[c] = "failed"

LEMMA ServesFacts ==
  ASSUME Inv, NEW c \in File, Serves(c)
  PROVE  /\ UNCHANGED <<pc, size, sentChunks, pushId, waiting, newWaiters, channelOf, open, report, released>>
         /\ \A d \in File : Asked(d)' <=> Asked(d)
         /\ \A x \in Response : ResponseOK(x) => ResponseOK(x)'
<1>1. UNCHANGED <<pc, size, sentChunks, pushId, waiting, newWaiters, channelOf, open, report, released>>
  BY DEF Serves, clientVars
<1>2. \A d \in File : Asked(d)' <=> Asked(d)
  BY QueuesKept DEF Inv, Serves
<1>3. ASSUME NEW x \in Response, ResponseOK(x) PROVE ResponseOK(x)'
  <2>1. x.ch \in File
    BY DEF Response
  <2>2. CASE x.ch # c
    BY <1>2, <1>3, <2>1, <2>2, OthersKept DEF Serves
  <2>3. CASE x.ch = c
    BY <1>1, <1>2, <1>3, <2>1, <2>3 DEF ResponseOK, Serves
  <2> QED BY <2>2, <2>3
<1> QED BY <1>1, <1>2, <1>3

LEMMA ServesInv ==
  ASSUME Inv, NEW c \in File, Serves(c), TypeOK', ReaderOK(c)', ClientOK(c)',
         ~released => TurnOK(c)' /\ ToClientOK' /\ Shifts(toClient, toClient', 0, "NEW_PUSH_ID"),
         released => toClient' = toClient
  PROVE  Inv'
<1>1. /\ UNCHANGED <<pc, size, sentChunks, pushId, waiting, newWaiters, channelOf, open, report, released>>
      /\ \A d \in File : Asked(d)' <=> Asked(d)
      /\ UNCHANGED <<toServer, readerId, fileId>> /\ Others(c)
  BY ServesFacts DEF Serves
<1>2. \A d \in File : ReaderOK(d)' /\ ClientOK(d)'
  BY <1>1, OthersKept DEF Inv
<1>3. IdsOK'
  <2>1. \A d \in File : state'[d] = "INITIAL" <=> state[d] = "INITIAL"
    BY <1>1 DEF Serves, Others, Same
  <2> QED BY <1>1, <2>1, IdsKept DEF Inv
<1>4. CASE released
  <2>1. Silence
    BY <1>4 DEF Inv
  <2>2. \A d \in File : disposed[d] => disposed'[d]
    BY <1>1 DEF Serves, Others, Same
  <2>3. Silence'
    BY <1>1, <1>4, <2>1, <2>2 DEF Silence
  <2> QED BY <1>1, <1>2, <1>3, <1>4, <2>3 DEF Inv
<1>5. CASE ~released
  <2>1. \A d \in File : TurnOK(d)'
    BY <1>1, <1>5, OthersKept DEF Inv
  <2>2. ToServerOK'
    <3>1. \A x \in Command : CommandOK(x) => CommandOK(x)'
      BY <1>1 DEF CommandOK
    <3> QED BY <1>1, <1>5, <3>1, QueuesKept DEF Inv
  <2>3. WaitersOK'
    <3>1. TypeOK /\ WaitersOK
      BY <1>5 DEF Inv
    <3>2. Shifts(toServer, toServer', 0, "NEW")
      BY <1>1, <3>1, ShiftsSame DEF TypeOK
    <3> QED BY <1>1, <1>5, <3>1, <3>2, WaitersKept
  <2> QED BY <1>1, <1>2, <1>3, <1>5, <2>1, <2>2, <2>3 DEF Inv
<1> QED BY <1>4, <1>5

(* What is known where a step of adb has something to do.                  *)
LEMMA AdbFacts ==
  ASSUME Inv, NEW c \in File
  PROVE  /\ ReaderOK(c) /\ ClientOK(c) /\ (~released => TurnOK(c))
         /\ Len(stream[c]) \in Nat /\ acked[c] \in Nat /\ size[c] \in Nat
         /\ Len(stream[c]) > 0 => pc[c] # "idle"
         /\ Len(stream[c]) > 0 /\ ~disposed[c] =>
              ~released /\ pc[c] \in CommandType \ {"NEW"} /\ Knows(c)
<1>1. /\ ReaderOK(c) /\ ClientOK(c) /\ (~released => TurnOK(c))
      /\ Len(stream[c]) \in Nat /\ acked[c] \in Nat /\ size[c] \in Nat
      /\ pc[c] \in CommandType \cup {"idle", "end"}
  BY Facts
<1>2. Len(stream[c]) > 0 => pc[c] # "idle"
  BY <1>1 DEF ReaderOK, ClientOK
<1>3. ASSUME Len(stream[c]) > 0, ~disposed[c]
      PROVE  ~released /\ pc[c] \in CommandType \ {"NEW"} /\ Knows(c)
  <2>1. ~released
    BY <1>2, <1>3 DEF Inv, Silence
  <2>2. pc[c] # "end" /\ pc[c] \in CommandType
    BY <1>1, <1>2, <1>3, <2>1 DEF TurnOK
  <2>3. Before(c) \/ After(c)
    BY <1>1, <1>3, <2>1, <2>2 DEF TurnOK
  <2>4. pc[c] # "NEW"
    BY <1>1, <1>3, <2>3 DEF Before, After, ReaderOK
  <2>5. Knows(c)
    BY <1>1, <2>1, <2>2, <2>4 DEF TurnOK, CommandType
  <2> QED BY <2>1, <2>2, <2>4, <2>5
<1> QED BY <1>1, <1>2, <1>3

(* createStream returns.                                                   *)
LEMMA CreatedInv ==
  ASSUME Bounds, Inv, NEW c \in File, Created(c)
  PROVE  Inv'
<1>0. TypeOK /\ TypeOK'
  BY AdbTypes DEF Inv
<1>1. /\ creating[c] = "pending"
      /\ UNCHANGED <<readerId, disposed, stream, acked, streams, fileId, clientVars, toServer, toClient>>
  BY DEF Created
<1>2. UNCHANGED <<pc, size, sentChunks, pushId, waiting, newWaiters, channelOf, open, report, released>>
  BY <1>1 DEF clientVars
<1>3. /\ creating'[c] = "no" /\ finishing'[c] = FALSE /\ transfer'[c] = "active"
      /\ state'[c] = IF finishing[c] THEN "FINISH" ELSE "APPEND"
      /\ Others(c)
  BY <1>0, <1>1, <1>2 DEF Created, TypeOK, ReaderTypes, Others, Same
<1>4. /\ ReaderOK(c) /\ ClientOK(c) /\ (~released => TurnOK(c)) /\ Len(stream[c]) \in Nat
      /\ Len(stream[c]) > 0 => pc[c] # "idle"
  BY AdbFacts
<1>5. state[c] = "START" /\ transfer[c] = "none" /\ Len(stream[c]) > 0 /\ finishing[c] \in BOOLEAN
  BY <1>0, <1>1, <1>4 DEF ReaderOK, TypeOK, ReaderTypes
<1>6. Serves(c)
  BY <1>1, <1>2, <1>3, <1>5 DEF Serves, Answered
<1>7. ReaderOK(c)'
  <2>1. CASE finishing[c]
    BY <1>1, <1>2, <1>3, <1>4, <1>5, <2>1 DEF ReaderOK
  <2>2. CASE ~finishing[c]
    BY <1>1, <1>2, <1>3, <1>4, <1>5, <2>2 DEF ReaderOK
  <2> QED BY <2>1, <2>2
<1>8. ClientOK(c)'
  BY <1>1, <1>2, <1>3, <1>4, <1>5 DEF ClientOK
<1>9. /\ \A d \in File : Asked(d)' <=> Asked(d)
      /\ \A x \in Response : ResponseOK(x) => ResponseOK(x)'
  BY <1>6, ServesFacts
<1>10. ASSUME ~released
       PROVE  TurnOK(c)' /\ ToClientOK' /\ Shifts(toClient, toClient', 0, "NEW_PUSH_ID")
  <2>1. TurnOK(c) /\ ToClientOK
    BY <1>4, <1>10 DEF Inv
  <2>2. Before(c) => Before(c)'
    BY <1>1, <1>2, <1>3, <1>4, <1>5 DEF Before
  <2>3. After(c) => After(c)'
    BY <1>1, <1>2, <1>3, <1>4, <1>5 DEF After
  <2>4. (Knows(c) => Knows(c)') /\ (Answered(c) => Answered(c)')
    BY <1>1, <1>2, <1>3, <1>5 DEF Knows, Answered
  <2>5. TurnOK(c)'
    BY <1>1, <1>2, <1>9, <2>1, <2>2, <2>3, <2>4 DEF TurnOK
  <2>6. ToClientOK'
    BY <1>0, <1>1, <1>9, <2>1, QueuesKept DEF ToClientOK
  <2> QED BY <1>0, <1>1, <2>5, <2>6, ShiftsSame DEF TypeOK
<1> QED BY <1>0, <1>1, <1>6, <1>7, <1>8, <1>10, ServesInv

(* createStream throws.                                                    *)
LEMMA RefusedInv ==
  ASSUME Bounds, Inv, NEW c \in File, Refused(c)
  PROVE  Inv'
<1>0. TypeOK /\ TypeOK'
  BY AdbTypes DEF Inv
<1>1. /\ creating[c] = "pending"
      /\ UNCHANGED <<state, readerId, disposed, finishing, stream, acked, streams, transfer,
                     fileId, clientVars, toServer, toClient>>
  BY DEF Refused
<1>2. UNCHANGED <<pc, size, sentChunks, pushId, waiting, newWaiters, channelOf, open, report, released>>
  BY <1>1 DEF clientVars
<1>3. creating'[c] = "refused" /\ Others(c)
  BY <1>0, <1>1, <1>2 DEF Refused, TypeOK, ReaderTypes, Others, Same
<1>4. ReaderOK(c) /\ ClientOK(c) /\ (~released => TurnOK(c))
  BY AdbFacts
<1>6. Serves(c)
  BY <1>1, <1>2, <1>3 DEF Serves, Answered
<1>7. ReaderOK(c)'
  BY <1>1, <1>2, <1>3, <1>4 DEF ReaderOK
<1>8. ClientOK(c)'
  BY <1>1, <1>2, <1>3, <1>4 DEF ClientOK
<1>9. /\ \A d \in File : Asked(d)' <=> Asked(d)
      /\ \A x \in Response : ResponseOK(x) => ResponseOK(x)'
  BY <1>6, ServesFacts
<1>10. ASSUME ~released
       PROVE  TurnOK(c)' /\ ToClientOK' /\ Shifts(toClient, toClient', 0, "NEW_PUSH_ID")
  <2>1. TurnOK(c) /\ ToClientOK
    BY <1>4, <1>10 DEF Inv
  <2>2. (Before(c)' <=> Before(c)) /\ (After(c)' <=> After(c))
    BY <1>1, <1>2 DEF Before, After
  <2>3. (Knows(c)' <=> Knows(c)) /\ (Answered(c)' <=> Answered(c))
    BY <1>1, <1>2 DEF Knows, Answered
  <2>4. TurnOK(c)'
    BY <1>1, <1>2, <1>9, <2>1, <2>2, <2>3 DEF TurnOK
  <2>5. ToClientOK'
    BY <1>0, <1>1, <1>9, <2>1, QueuesKept DEF ToClientOK
  <2> QED BY <1>0, <1>1, <2>4, <2>5, ShiftsSame DEF TypeOK
<1> QED BY <1>0, <1>1, <1>6, <1>7, <1>8, <1>10, ServesInv

(* A chunk is acknowledged: pushFile waits for exactly that.               *)
LEMMA ReadInv ==
  ASSUME Bounds, Inv, NEW c \in File, Read(c)
  PROVE  Inv'
<1>0. TypeOK /\ TypeOK'
  BY AdbTypes DEF Inv
<1>1. /\ ~disposed[c] /\ state[c] # "FINISH" /\ acked[c] < Len(stream[c])
      /\ transfer[c] = "active" \/ Len(stream[c]) = size[c]
      /\ toClient' = Append(toClient, response(c, readerId[c], "NO_ERROR"))
      /\ UNCHANGED <<state, readerId, disposed, creating, finishing, stream, streams,
                     transfer, fileId, clientVars, toServer>>
  BY DEF Read, MayRead, FitsBuffer
<1>2. UNCHANGED <<pc, size, sentChunks, pushId, waiting, newWaiters, channelOf, open, report, released>>
  BY <1>1 DEF clientVars
<1>3. acked'[c] = acked[c] + 1 /\ Others(c)
  BY <1>0, <1>1, <1>2 DEF Read, TypeOK, ReaderTypes, Others, Same
<1>4. /\ ReaderOK(c) /\ ClientOK(c) /\ Len(stream[c]) \in Nat /\ acked[c] \in Nat
      /\ Len(stream[c]) > 0 /\ acked[c] + 1 = Len(stream[c])
  BY <1>1, AdbFacts DEF ReaderOK
<1>5. ~released /\ pc[c] \in CommandType \ {"NEW"} /\ Knows(c) /\ TurnOK(c)
  BY <1>1, <1>4, AdbFacts
<1>6. ~Asked(c) /\ After(c)
  BY <1>1, <1>4, <1>5 DEF TurnOK, Before
<1>7. pc[c] # "FINISH" /\ ~Answered(c) /\ waiting[c]
  BY <1>1, <1>4, <1>5, <1>6 DEF After, ReaderOK, Answered, TurnOK
<1>8. Serves(c)
  BY <1>1, <1>2, <1>3, <1>7 DEF Serves
<1>9. ReaderOK(c)'
  BY <1>1, <1>2, <1>3, <1>4 DEF ReaderOK
<1>10. ClientOK(c)'
  BY <1>1, <1>2, <1>3, <1>4 DEF ClientOK
<1>11. /\ \A d \in File : Asked(d)' <=> Asked(d)
       /\ \A x \in Response : ResponseOK(x) => ResponseOK(x)'
  BY <1>8, ServesFacts
<1>12. TurnOK(c)'
  <2>1. After(c)' /\ Knows(c)'
    BY <1>1, <1>2, <1>5, <1>6 DEF After, Knows
  <2> QED BY <1>1, <1>2, <1>5, <1>6, <1>7, <1>11, <2>1 DEF TurnOK
<1>13. PICK r \in Response : toClient' = Append(toClient, r) /\ r.ch = c /\ r.type = "NO_ERROR"
                             /\ r.id = readerId[c]
  BY <1>0, <1>1, ResponseType DEF AnswerType, TypeOK, ReaderTypes
<1>14. ToClientOK'
  <2>1. ResponseOK(r)'
    BY <1>1, <1>2, <1>3, <1>4, <1>5, <1>6, <1>7, <1>11, <1>13 DEF ResponseOK, AnswerType, Answered, Knows
  <2>2. \A i \in 1..Len(toClient) : toClient[i].type \in AnswerType => toClient[i].ch # c
    BY <1>5, <1>7, NoAnswer
  <2>3. ToClientOK
    BY <1>5 DEF Inv
  <2>4. \A x \in Response : InClient(x) => ResponseOK(x)'
    BY <1>11, <2>3 DEF ToClientOK
  <2> QED BY <1>0, <1>13, <2>1, <2>2, <2>3, <2>4, Replies
<1>15. Shifts(toClient, toClient', 0, "NEW_PUSH_ID")
  BY <1>0, <1>13, ShiftsAppend DEF TypeOK
<1> QED BY <1>0, <1>5, <1>8, <1>9, <1>10, <1>12, <1>14, <1>15, ServesInv

(* Two messages are sent.                                                  *)
LEMMA AppendedTwo ==
  ASSUME NEW S, NEW s \in Seq(S), NEW a \in S, NEW b \in S
  PROVE  s \o <<a, b>> = Append(Append(s, a), b)
<1>1. Append(s, a) \in Seq(S) /\ Len(s) \in Nat
  BY AppendProperties, LenProperties
<1>2. <<a>> \in Seq(S) /\ <<b>> \in Seq(S) /\ <<a>> \o <<b>> = <<a, b>>
  <2>1. <<a>> \in Seq(S) /\ <<b>> \in Seq(S)
    OBVIOUS
  <2>2. <<a>> \o <<b>> = Append(<<a>>, b)
    BY <2>1, AppendIsConcat
  <2>3. Append(<<a>>, b) = <<a, b>>
    <3> DEFINE t == Append(<<a>>, b)
    <3>1. /\ t \in Seq(S) /\ Len(t) = Len(<<a>>) + 1 /\ t[Len(<<a>>) + 1] = b
          /\ \A i \in 1..Len(<<a>>) : t[i] = <<a>>[i]
      BY <2>1, Appended
    <3>2. Len(t) = 2 /\ t[1] = a /\ t[2] = b
      BY <3>1
    <3> HIDE DEF t
    <3>3. t \in [1..2 -> S]
      BY <3>1, <3>2
    <3>4. t = <<a, b>>
      BY <3>2, <3>3
    <3> QED BY <3>4 DEF t
  <2> QED BY <2>1, <2>2, <2>3
<1>3. s \o <<a>> = Append(s, a) /\ Append(s, a) \o <<b>> = Append(Append(s, a), b)
  BY <1>1, AppendIsConcat
<1>4. (s \o <<a>>) \o <<b>> = s \o (<<a>> \o <<b>>)
  BY <1>2, ConcatAssociative
<1> QED BY <1>2, <1>3, <1>4

LEMMA RepliesTwo ==
  ASSUME TypeOK, ToClientOK, NEW a \in Response, NEW b \in Response,
         toClient' = toClient \o <<a, b>>, b.type \notin AnswerType,
         ResponseOK(a)', ResponseOK(b)',
         \A i \in 1..Len(toClient) : toClient[i].type \in AnswerType => toClient[i].ch # a.ch,
         \A x \in Response : InClient(x) => ResponseOK(x)'
  PROVE  ToClientOK'
<1> DEFINE n == Len(toClient)
<1>1. toClient' = Append(Append(toClient, a), b) /\ Append(toClient, a) \in Seq(Response)
  <2>1. toClient \in Seq(Response)
    BY DEF TypeOK
  <2>2. toClient \o <<a, b>> = Append(Append(toClient, a), b)
    BY <2>1, AppendedTwo
  <2>3. Append(toClient, a) \in Seq(Response)
    BY <2>1, Appended
  <2> QED BY <2>2, <2>3
<1>2. /\ n \in Nat /\ Len(toClient') = n + 2
      /\ toClient'[n + 1] = a /\ toClient'[n + 2] = b
      /\ \A i \in 1..n : toClient'[i] = toClient[i]
  <2>1. /\ n \in Nat /\ Len(Append(toClient, a)) = n + 1 /\ Append(toClient, a)[n + 1] = a
        /\ \A i \in 1..n : Append(toClient, a)[i] = toClient[i]
    BY Appended, LenProperties DEF TypeOK
  <2>2. /\ Len(toClient') = Len(Append(toClient, a)) + 1
        /\ toClient'[Len(Append(toClient, a)) + 1] = b
        /\ \A i \in 1..Len(Append(toClient, a)) : toClient'[i] = Append(toClient, a)[i]
    BY <1>1, Appended
  <2> HIDE DEF n
  <2> QED BY <2>1, <2>2
<1> HIDE DEF n
<1>3. \A k \in 1..Len(toClient') : k \in 1..n \/ k = n + 1 \/ k = n + 2
  BY <1>2
<1>4. ASSUME NEW x \in Response, InClient(x)' PROVE ResponseOK(x)'
  <2>1. x = a \/ x = b \/ InClient(x)
    BY <1>2, <1>3, <1>4 DEF InClient, n
  <2> QED BY <2>1
<1>5. \A k \in 1..Len(toClient') : toClient'[k].type \in AnswerType =>
        (k \in 1..n /\ toClient'[k] = toClient[k] /\ toClient'[k].ch # a.ch) \/ (k = n + 1 /\ toClient'[k] = a)
  BY <1>2, <1>3 DEF n
<1>6. \A i, j \in 1..Len(toClient') :
        toClient'[i].type \in AnswerType /\ toClient'[j].type \in AnswerType
        /\ toClient'[i].ch = toClient'[j].ch => i = j
  BY <1>5 DEF ToClientOK, n
<1> QED BY <1>4, <1>6 DEF ToClientOK

LEMMA ShiftsTwo ==
  ASSUME TypeOK, NEW a \in Response, NEW b \in Response, NEW T,
         toClient' = toClient \o <<a, b>>, a.type # T, b.type # T
  PROVE  Shifts(toClient, toClient', 0, T)
<1> DEFINE n == Len(toClient)
           s == Append(toClient, a)
<1>1. toClient' = Append(s, b) /\ s \in Seq(Response)
  BY AppendedTwo, Appended DEF TypeOK
<1>2. Shifts(toClient, s, 0, T)
  BY ShiftsAppend DEF TypeOK
<1>3. Shifts(s, Append(s, b), 0, T)
  <2> HIDE DEF s
  <2> QED BY <1>1, ShiftsAppend
<1>4. n \in Nat /\ Len(s) = n + 1 /\ Len(toClient') = n + 2
  <2>1. n \in Nat /\ Len(s) = n + 1
    BY Appended, LenProperties DEF TypeOK
  <2>2. Len(toClient') = Len(s) + 1
    <3> HIDE DEF s
    <3> QED BY <1>1, Appended
  <2> HIDE DEF s, n
  <2> QED BY <2>1, <2>2
<1>5. Shifts(s, toClient', 0, T)
  BY <1>1, <1>3
<1> HIDE DEF s
<1>6. \A k \in 1..Len(toClient) : toClient[k].type = T => k - 0 \in 1..Len(toClient') /\ toClient'[k - 0] = toClient[k]
  BY <1>2, <1>4, <1>5 DEF Shifts, n
<1>7. \A k \in 1..Len(toClient') : toClient'[k].type = T => k + 0 \in 1..Len(toClient) /\ toClient[k + 0] = toClient'[k]
  BY <1>2, <1>4, <1>5 DEF Shifts, n
<1> QED BY <1>4, <1>6, <1>7 DEF Shifts, n

(* adb has written the file: the reader answers FINISH and closes.         *)
LEMMA PushEndInv ==
  ASSUME Bounds, Inv, NEW c \in File, PushEnd(c)
  PROVE  Inv'
<1>0. TypeOK /\ TypeOK'
  BY AdbTypes DEF Inv
<1>1. /\ transfer[c] = "active" /\ state[c] = "FINISH"
      /\ disposed[c] => toClient' = toClient
      /\ ~disposed[c] => toClient' = toClient \o <<response(c, readerId[c], "NO_ERROR"),
                                                   response(c, NoId, "closed")>>
      /\ UNCHANGED <<state, readerId, creating, finishing, stream, acked, streams, fileId,
                     clientVars, toServer>>
  BY DEF PushEnd
<1>2. UNCHANGED <<pc, size, sentChunks, pushId, waiting, newWaiters, channelOf, open, report, released>>
  BY <1>1 DEF clientVars
<1>3. transfer'[c] = "ended" /\ disposed'[c] = TRUE /\ Others(c)
  <2>1. CASE disposed[c]
    BY <1>0, <1>1, <1>2, <2>1 DEF PushEnd, TypeOK, ReaderTypes, Others, Same
  <2>2. CASE ~disposed[c]
    BY <1>0, <1>1, <1>2, <2>2 DEF PushEnd, TypeOK, ReaderTypes, Others, Same
  <2> QED BY <2>1, <2>2
<1>4. /\ ReaderOK(c) /\ ClientOK(c) /\ (~released => TurnOK(c)) /\ Len(stream[c]) \in Nat
      /\ Len(stream[c]) > 0 /\ acked[c] = Len(stream[c])
      /\ pc[c] # "idle"
  BY <1>1, AdbFacts DEF ReaderOK
<1>5. Serves(c)
  BY <1>1, <1>2, <1>3 DEF Serves, Answered
<1>6. ReaderOK(c)'
  BY <1>1, <1>2, <1>3, <1>4 DEF ReaderOK
<1>7. ClientOK(c)'
  BY <1>1, <1>2, <1>3, <1>4 DEF ClientOK
<1>8. /\ \A d \in File : Asked(d)' <=> Asked(d)
      /\ \A x \in Response : ResponseOK(x) => ResponseOK(x)'
  BY <1>5, ServesFacts
<1>9. (Answered(c) => Answered(c)') /\ (Knows(c) => Knows(c)')
  BY <1>1, <1>2, <1>5 DEF Serves, Knows
<1>10. CASE disposed[c]
  <2>1. ASSUME ~released
        PROVE  TurnOK(c)' /\ ToClientOK' /\ Shifts(toClient, toClient', 0, "NEW_PUSH_ID")
    <3>1. TurnOK(c) /\ ToClientOK
      BY <1>4, <2>1 DEF Inv
    <3>2. TurnOK(c)'
      BY <1>1, <1>2, <1>3, <1>8, <1>9, <1>10, <3>1 DEF TurnOK
    <3>3. ToClientOK'
      BY <1>0, <1>1, <1>8, <1>10, <3>1, QueuesKept DEF ToClientOK
    <3> QED BY <1>0, <1>1, <1>10, <3>2, <3>3, ShiftsSame DEF TypeOK
  <2> QED BY <1>0, <1>1, <1>5, <1>6, <1>7, <1>10, <2>1, ServesInv
<1>11. CASE ~disposed[c]
  <2>1. ~released /\ pc[c] \in CommandType \ {"NEW"} /\ Knows(c) /\ TurnOK(c)
    BY <1>4, <1>11, AdbFacts
  <2>2. ~Asked(c) /\ pc[c] = "FINISH"
    BY <1>1, <1>11, <2>1 DEF TurnOK, Before, After, CommandType
  <2>3. ~Answered(c) /\ waiting[c]
    BY <1>1, <2>1, <2>2 DEF Answered, TurnOK
  <2>4. TurnOK(c)'
    BY <1>2, <1>3, <1>9, <2>1, <2>2, <2>3 DEF TurnOK, CommandType
  <2>5. PICK r \in Response : r = response(c, readerId[c], "NO_ERROR") /\ r.ch = c /\ r.type = "NO_ERROR"
                              /\ r.id = readerId[c]
    BY <1>0, ResponseType DEF AnswerType, TypeOK, ReaderTypes
  <2>6. PICK q \in Response : q = response(c, NoId, "closed") /\ q.ch = c /\ q.type = "closed"
    BY ResponseType DEF NoId
  <2>7. toClient' = toClient \o <<r, q>>
    BY <1>1, <1>11, <2>5, <2>6
  <2>8. ToClientOK'
    <3>1. ResponseOK(r)'
      BY <1>1, <1>2, <1>3, <1>8, <2>1, <2>2, <2>3, <2>5 DEF ResponseOK, AnswerType, Answered, Knows, CommandType
    <3>2. ResponseOK(q)' /\ q.type \notin AnswerType
      BY <1>3, <2>6 DEF ResponseOK, AnswerType
    <3>3. \A i \in 1..Len(toClient) : toClient[i].type \in AnswerType => toClient[i].ch # r.ch
      BY <2>1, <2>3, <2>5, NoAnswer
    <3>4. ToClientOK
      BY <2>1 DEF Inv
    <3>5. \A x \in Response : InClient(x) => ResponseOK(x)'
      BY <1>8, <3>4 DEF ToClientOK
    <3> QED BY <1>0, <2>7, <3>1, <3>2, <3>3, <3>4, <3>5, RepliesTwo
  <2>9. Shifts(toClient, toClient', 0, "NEW_PUSH_ID")
    BY <1>0, <2>5, <2>6, <2>7, ShiftsTwo
  <2> QED BY <1>0, <1>5, <1>6, <1>7, <2>1, <2>4, <2>8, <2>9, ServesInv
<1> QED BY <1>10, <1>11

(* adb gives up: the channel is closed as failed.                          *)
LEMMA PushErrorInv ==
  ASSUME Bounds, Inv, NEW c \in File, PushError(c)
  PROVE  Inv'
<1>0. TypeOK /\ TypeOK'
  BY AdbTypes DEF Inv
<1>1. /\ transfer[c] = "active"
      /\ disposed[c] => toClient' = toClient
      /\ ~disposed[c] => toClient' = Append(toClient, response(c, NoId, "failed"))
      /\ UNCHANGED <<state, readerId, creating, finishing, stream, acked, streams, fileId,
                     clientVars, toServer>>
  BY DEF PushError, closeWithError
<1>2. UNCHANGED <<pc, size, sentChunks, pushId, waiting, newWaiters, channelOf, open, report, released>>
  BY <1>1 DEF clientVars
<1>3. transfer'[c] = "failed" /\ disposed'[c] = TRUE /\ Others(c)
  <2>1. CASE disposed[c]
    BY <1>0, <1>1, <1>2, <2>1 DEF PushError, TypeOK, ReaderTypes, Others, Same
  <2>2. CASE ~disposed[c]
    BY <1>0, <1>1, <1>2, <2>2 DEF PushError, closeWithError, TypeOK, ReaderTypes, Others, Same
  <2> QED BY <2>1, <2>2
<1>4. /\ ReaderOK(c) /\ ClientOK(c) /\ (~released => TurnOK(c)) /\ Len(stream[c]) \in Nat
      /\ Len(stream[c]) > 0 /\ pc[c] # "idle"
  BY <1>1, AdbFacts DEF ReaderOK
<1>5. Serves(c)
  BY <1>1, <1>2, <1>3 DEF Serves, Answered
<1>6. ReaderOK(c)'
  BY <1>1, <1>2, <1>3, <1>4 DEF ReaderOK
<1>7. ClientOK(c)'
  BY <1>1, <1>2, <1>3, <1>4 DEF ClientOK
<1>8. /\ \A d \in File : Asked(d)' <=> Asked(d)
      /\ \A x \in Response : ResponseOK(x) => ResponseOK(x)'
  BY <1>5, ServesFacts
<1>9. (Answered(c) => Answered(c)') /\ (Knows(c) => Knows(c)')
  BY <1>1, <1>2, <1>5 DEF Serves, Knows
<1>10. CASE disposed[c]
  <2>1. ASSUME ~released
        PROVE  TurnOK(c)' /\ ToClientOK' /\ Shifts(toClient, toClient', 0, "NEW_PUSH_ID")
    <3>1. TurnOK(c) /\ ToClientOK
      BY <1>4, <2>1 DEF Inv
    <3>2. TurnOK(c)'
      BY <1>1, <1>2, <1>3, <1>8, <1>9, <1>10, <3>1 DEF TurnOK
    <3>3. ToClientOK'
      BY <1>0, <1>1, <1>8, <1>10, <3>1, QueuesKept DEF ToClientOK
    <3> QED BY <1>0, <1>1, <1>10, <3>2, <3>3, ShiftsSame DEF TypeOK
  <2> QED BY <1>0, <1>1, <1>5, <1>6, <1>7, <1>10, <2>1, ServesInv
<1>11. CASE ~disposed[c]
  <2>1. ~released /\ pc[c] \in CommandType \ {"NEW"} /\ Knows(c) /\ TurnOK(c)
    BY <1>4, <1>11, AdbFacts
  <2>2. PICK q \in Response : toClient' = Append(toClient, q) /\ q.ch = c /\ q.type = "failed"
    BY <1>1, <1>11, ResponseType DEF NoId
  <2>3. TurnOK(c)'
    BY <1>2, <1>3, <1>9, <2>1 DEF TurnOK, CommandType
  <2>4. ToClientOK'
    <3>1. ResponseOK(q)' /\ q.type \notin AnswerType
      BY <1>3, <2>2 DEF ResponseOK, AnswerType
    <3>2. ToClientOK
      BY <2>1 DEF Inv
    <3>3. \A x \in Response : InClient(x) => ResponseOK(x)'
      BY <1>8, <3>2 DEF ToClientOK
    <3> QED BY <1>0, <2>2, <3>1, <3>2, <3>3, Replies
  <2>5. Shifts(toClient, toClient', 0, "NEW_PUSH_ID")
    BY <1>0, <2>2, ShiftsAppend DEF TypeOK
  <2> QED BY <1>0, <1>5, <1>6, <1>7, <2>1, <2>3, <2>4, <2>5, ServesInv
<1> QED BY <1>10, <1>11

-----------------------------------------------------------------------------
(* The invariant holds, and with it the properties.                        *)

LEMMA StutterInv == ASSUME Inv, TypeOK', UNCHANGED vars PROVE Inv'
<1>1. UNCHANGED <<pc, size, sentChunks, pushId, waiting, newWaiters, channelOf, open, report, released,
                  state, readerId, disposed, creating, finishing, stream, acked, streams,
                  transfer, fileId, toServer, toClient>>
  BY DEF vars, clientVars, readerVars
<1>2. \A d \in File : Same(d)
  BY <1>1 DEF Same
<1>3. TypeOK /\ \A d \in File : Asked(d)' <=> Asked(d)
  BY <1>1, QueuesKept DEF Inv
<1>4. \A d \in File : ReaderOK(d)' /\ ClientOK(d)'
  BY <1>2, SameKept DEF Inv
<1>5. IdsOK'
  BY <1>1, IdsKept DEF Inv
<1>6. CASE released
  <2>1. Silence
    BY <1>6 DEF Inv
  <2>2. Silence'
    BY <1>1, <2>1 DEF Silence
  <2> QED BY <1>1, <1>4, <1>5, <1>6, <2>2 DEF Inv
<1>7. CASE ~released
  <2>1. \A d \in File : TurnOK(d)'
    BY <1>1, <1>2, <1>3, <1>7, SameKept DEF Inv
  <2>2. \A x \in Command : CommandOK(x) => CommandOK(x)'
    BY <1>1 DEF CommandOK
  <2>3. \A x \in Response : ResponseOK(x) => ResponseOK(x)'
    <3> SUFFICES ASSUME NEW x \in Response, ResponseOK(x) PROVE ResponseOK(x)'
      OBVIOUS
    <3>1. PICK d \in File : d = x.ch
      BY DEF Response
    <3> QED BY <1>2, <1>3, <3>1, SameKept
  <2>4. ToServerOK' /\ ToClientOK'
    BY <1>1, <1>3, <1>7, <2>2, <2>3, QueuesKept DEF Inv, ToClientOK
  <2>5. WaitersOK'
    <3>1. WaitersOK
      BY <1>7 DEF Inv
    <3>2. Shifts(toServer, toServer', 0, "NEW") /\ Shifts(toClient, toClient', 0, "NEW_PUSH_ID")
      BY <1>1, <1>3, ShiftsSame DEF TypeOK
    <3> QED BY <1>1, <1>3, <3>1, <3>2, WaitersKept
  <2> QED BY <1>1, <1>4, <1>5, <1>7, <2>1, <2>4, <2>5 DEF Inv
<1> QED BY <1>6, <1>7

LEMMA StepInv == ASSUME Bounds, Inv, [Next]_vars PROVE Inv'
<1>1. CASE UNCHANGED vars
  <2>1. TypeOK'
    BY StepTypes DEF Inv
  <2> QED BY <1>1, <2>1, StutterInv
<1>2. ASSUME NEW f \in File, (\E n \in 0..MaxSize : pushFile(f, n)) \/ Continue(f) PROVE Inv'
  BY <1>2, PushFileInv, ContinueInv
<1>3. CASE ClientReceive \/ ConnectionLost \/ ReaderReceive
  BY <1>3, ClientReceiveInv, ConnectionLostInv, ReaderReceiveInv
<1>4. ASSUME NEW c \in File, Created(c) \/ Refused(c) \/ Read(c) \/ PushEnd(c) \/ PushError(c) PROVE Inv'
  BY <1>4, CreatedInv, RefusedInv, ReadInv, PushEndInv, PushErrorInv
<1> QED BY <1>1, <1>2, <1>3, <1>4 DEF Next

LEMMA InvHolds == ASSUME Bounds PROVE Spec => []Inv
<1>1. Init => Inv
  BY InitInv
<1>2. Inv /\ [Next]_vars => Inv'
  BY StepInv
<1> QED BY <1>1, <1>2, PTL DEF Spec

(* Every variable of the pushes keeps its type: a message names a file and *)
(* an id, and nothing but numbered chunks is streamed to adb.              *)
THEOREM TypeCorrect == ASSUME Bounds PROVE Spec => []TypeOK
<1>1. Inv => TypeOK
  BY DEF Inv
<1> QED BY <1>1, InvHolds, PTL

(* FilePushHandler reports success! for a file only when adb has confirmed *)
(* one transfer of all its chunks, in order and none twice, however many   *)
(* files are pushed at a time.                                             *)
THEOREM SuccessIsWritten == ASSUME Bounds PROVE Spec => []SuccessMeansWritten
<1>1. Inv => SuccessMeansWritten
  <2> SUFFICES ASSUME Inv, NEW f \in File, report[f] = "success"
               PROVE  /\ transfer[f] = "ended" /\ streams[f] = 1
                      /\ stream[f] = [i \in 1..size[f] |-> i]
    BY DEF SuccessMeansWritten
  <2>1. ReaderOK(f) /\ ClientOK(f) /\ Len(stream[f]) \in Nat
    BY Facts
  <2>2. transfer[f] = "ended" /\ state[f] = "FINISH" /\ Len(stream[f]) > 0
    BY <2>1 DEF ReaderOK, ClientOK
  <2> QED BY <2>1, <2>2 DEF ReaderOK, Chunks
<1> QED BY <1>1, InvHolds, PTL

(* A push is reported as failed only if the file is empty or adb failed,   *)
(* also when FINISH overtakes the end of the first APPEND.                 *)
THEOREM ErrorIsCaused == ASSUME Bounds PROVE Spec => []ErrorHasCause
<1>1. Inv => ErrorHasCause
  BY DEF Inv, ClientOK, ErrorHasCause
<1> QED BY <1>1, InvHolds, PTL
=============================================================================
