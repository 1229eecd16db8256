------------------------------ MODULE FilePush ------------------------------
(***************************************************************************)
(* Dropping files onto the file listing of a device: FilePushHandler and   *)
(* AdbkitFilePushStream in the browser, FilePushReader on the server.      *)
(*                                                                         *)
(* Every file gets a channel of its own (module Channel gives what that    *)
(* promises); all channels share one socket, so that each direction is one *)
(* sequence of messages.  A push is a conversation NEW, START, APPEND...,  *)
(* FINISH in which the client sends a command only once the previous one   *)
(* was answered; FilePushReader.onMessage is async and handles a message   *)
(* while an earlier one may still await createStream.                      *)
(*                                                                         *)
(* External: adb (client.push and the PushTransfer it returns) and the     *)
(* Readable it drains.  A chunk smaller than the Readable's buffer is      *)
(* acknowledged as soon as it is pushed, any other one when adb reads it;  *)
(* Blob.stream() hands out a small chunk only at the end of a file.        *)
(* CANCEL is left out: no client of this repository sends it.              *)
(* Bounds: each file is dropped once; it has at most MaxSize chunks.       *)
(* FirstId is one of the ids 1..MaxId.                                     *)
(***************************************************************************)
EXTENDS Integers, Sequences, FiniteSets

CONSTANTS File,        \* the files; also names the channel of its push
          MaxSize,     \* chunks in the largest file
          FirstId,     \* FilePushReader.fileId when the run begins
          MaxId,       \* FilePushReader.maxId
          MaxInResponse \* largest id that createResponse can encode (Int16)

VARIABLES
  \* FilePushHandler, AdbkitFilePushStream
  pc,         \* the command whose answer pushFile awaits
  size,       \* chunks of each dropped file
  sentChunks, \* chunks sent
  pushId,     \* the id pushFile was given
  waiting,    \* pushFile has a resolver in responseWaiter
  newWaiters, \* responseWaiter.get(REQUEST_NEW_PUSH_ID)
  channelOf,  \* channels: push id -> channel, as a set of pairs
  open,       \* the client's end of a channel is not closed
  report,     \* the last update with finished: true
  released,   \* FilePushHandler.release was called
  \* FilePushReader
  state, readerId, disposed,
  creating,   \* createStream of a channel: "no", "pending", "refused"
  finishing,  \* FINISH awaits createStreamPromiseMap
  stream,     \* chunks pushed into readStream
  acked,      \* times read() has sent NO_ERROR
  streams,    \* number of ReadStreams created
  transfer,   \* the PushTransfer: "none", "active", "ended", "failed"
  fileId,
  \* the socket
  toServer, toClient

clientVars == <<pc, size, sentChunks, pushId, waiting, newWaiters, channelOf, open,
                report, released>>
readerVars == <<state, readerId, disposed, creating, finishing, stream, acked, streams,
                transfer, fileId>>
vars == <<clientVars, readerVars, toServer, toClient>>

NoId == 0

(* What is known of the constants: fileId runs through 1..MaxId, and an id *)
(* is not given to a second push: either the ids are not used up, or they  *)
(* start anew but all fit into a response and there are enough of them.    *)
Bounds ==
  /\ IsFiniteSet(File)
  /\ MaxSize \in Nat /\ MaxId \in Nat /\ MaxInResponse \in Nat /\ FirstId \in 1..MaxId
  /\ \/ FirstId + Cardinality(File) <= MaxId
     \/ Cardinality(File) <= MaxId /\ MaxId <= MaxInResponse

Init ==
  /\ pc = [f \in File |-> "idle"]
  /\ size = [f \in File |-> 0]
  /\ sentChunks = [f \in File |-> 0]
  /\ pushId = [f \in File |-> NoId]
  /\ waiting = [f \in File |-> FALSE]
  /\ newWaiters = <<>>
  /\ channelOf = {}
  /\ open = [c \in File |-> FALSE]
  /\ report = [f \in File |-> "none"]
  /\ released = FALSE
  /\ state = [c \in File |-> "INITIAL"]
  /\ readerId = [c \in File |-> NoId]
  /\ disposed = [c \in File |-> FALSE]
  /\ creating = [c \in File |-> "no"]
  /\ finishing = [c \in File |-> FALSE]
  /\ stream = [c \in File |-> <<>>]
  /\ acked = [c \in File |-> 0]
  /\ streams = [c \in File |-> 0]
  /\ transfer = [c \in File |-> "none"]
  /\ fileId = FirstId
  /\ toServer = <<>>
  /\ toClient = <<>>

-----------------------------------------------------------------------------
(* Client.                                                                 *)

command(c, type, id, k) == [ch |-> c, type |-> type, id |-> id, k |-> k]

(* onFilesDrop, then pushFile up to its first await: a channel is created  *)
(* and NEW is sent on it.                                                  *)
pushFile(f, n) ==
  /\ ~released
  /\ pc[f] = "idle"
  /\ pc' = [pc EXCEPT ![f] = "NEW"]
  /\ size' = [size EXCEPT ![f] = n]
  /\ open' = [open EXCEPT ![f] = TRUE]
  /\ newWaiters' = Append(newWaiters, f)
  /\ waiting' = [waiting EXCEPT ![f] = TRUE]
  /\ toServer' = Append(toServer, command(f, "NEW", NoId, 0))
  /\ UNCHANGED <<sentChunks, pushId, channelOf, report, released,
                 readerVars, toClient>>

(* A command of pushFile f on the channel of its id: sendEventStart,       *)
(* sendEventAppend and sendEventFinish with the waitForResponse beside     *)
(* them.  send throws on a closed channel, which ends pushFile.            *)
Ask(f, type, k) ==
  \E c \in File :
    /\ <<pushId[f], c>> \in channelOf
    /\ IF open[c]
       THEN /\ toServer' = Append(toServer, command(c, type, pushId[f], k))
            /\ pc' = [pc EXCEPT ![f] = type]
            /\ waiting' = [waiting EXCEPT ![f] = TRUE]
       ELSE /\ pc' = [pc EXCEPT ![f] = "end"]
            /\ UNCHANGED <<toServer, waiting>>

(* pushFile goes on once its response is there, and the piece of the file  *)
(* it reads meanwhile.                                                     *)
Continue(f) ==
  /\ pc[f] \in {"NEW", "START", "APPEND", "FINISH"}
  /\ ~waiting[f]
  /\ \/ /\ pc[f] = "NEW"
        /\ Ask(f, "START", size[f])
        /\ UNCHANGED <<sentChunks, report>>
     \/ /\ pc[f] \in {"START", "APPEND"}
        /\ sentChunks[f] < size[f]
        /\ Ask(f, "APPEND", sentChunks[f] + 1)
        /\ sentChunks' = [sentChunks EXCEPT ![f] = @ + 1]
        /\ UNCHANGED report
     \/ /\ pc[f] = "APPEND"
        /\ sentChunks[f] = size[f]
        /\ Ask(f, "FINISH", 0)
        /\ UNCHANGED <<sentChunks, report>>
     \/ /\ pc[f] = "FINISH"
        /\ pc' = [pc EXCEPT ![f] = "end"]
        /\ report' = IF released THEN report ELSE [report EXCEPT ![f] = "success"]
        /\ UNCHANGED <<sentChunks, waiting, toServer>>
  /\ UNCHANGED <<size, pushId, newWaiters, channelOf, open, released,
                 readerVars, toClient>>

(* onStreamResponse, NEW_PUSH_ID: the oldest resolver of                   *)
(* REQUEST_NEW_PUSH_ID gets the id, the others stay.                       *)
popped == [waiter |-> newWaiters[Len(newWaiters)],        \* mutant
           others |-> SubSeq(newWaiters, 1, Len(newWaiters) - 1)]
shifted == [waiter |-> Head(newWaiters), others |-> Tail(newWaiters)]

ResponseNew(m) ==
  /\ m.type = "NEW_PUSH_ID"
  /\ open[m.ch]
  /\ channelOf' = channelOf \cup {<<m.id, m.ch>>}
  /\ IF newWaiters = <<>>
     THEN UNCHANGED <<pushId, waiting, newWaiters>>
     ELSE /\ pushId' = [pushId EXCEPT ![shifted.waiter] = m.id]
          /\ waiting' = [waiting EXCEPT ![shifted.waiter] = FALSE]
          /\ newWaiters' = shifted.others
  /\ UNCHANGED <<open, report>>

(* onStreamResponse, NO_ERROR: the resolver of the id.                     *)
ResponseOk(m) ==
  /\ m.type = "NO_ERROR"
  /\ open[m.ch]
  /\ waiting' = [f \in File |-> waiting[f] /\ pushId[f] # m.id]
  /\ UNCHANGED <<pushId, newWaiters, channelOf, open, report>>

(* The channel is closed by the server.  Only an unclean close is          *)
(* reported; the resolver of pushFile stays in responseWaiter.             *)
ChannelClosed(m) ==
  /\ m.type \in {"closed", "failed"}
  /\ open' = [open EXCEPT ![m.ch] = FALSE]
  /\ report' = IF m.type = "failed" /\ open[m.ch]
               THEN [report EXCEPT ![m.ch] = "error"] ELSE report
  /\ UNCHANGED <<pushId, waiting, newWaiters, channelOf>>

(* A message on a channel whose end is closed here is not dispatched.      *)
Undispatched(m) ==
  /\ m.type \in {"NEW_PUSH_ID", "NO_ERROR"}
  /\ ~open[m.ch]
  /\ UNCHANGED <<pushId, waiting, newWaiters, channelOf, open, report>>

ClientReceive ==
  /\ toClient # <<>>
  /\ toClient' = Tail(toClient)
  /\ LET m == Head(toClient) IN
       ResponseNew(m) \/ ResponseOk(m) \/ ChannelClosed(m) \/ Undispatched(m)
  /\ UNCHANGED <<pc, size, sentChunks, released, readerVars, toServer>>

(* The listing's connection is lost: FileListingClient.onSocketClose       *)
(* releases the handler, which stops listening before it closes channels.  *)
(* Each reader whose channel is open is released through onClose.          *)
ConnectionLost ==
  /\ ~released
  /\ released' = TRUE
  /\ open' = [c \in File |-> FALSE]
  /\ toServer' = <<>>
  /\ toClient' = <<>>
  /\ disposed' = [c \in File |-> disposed[c] \/ pc[c] # "idle"]
  /\ UNCHANGED <<pc, size, sentChunks, pushId, waiting, newWaiters, channelOf, report,
                 state, readerId, creating, finishing, stream, acked,
                 streams, transfer, fileId>>

-----------------------------------------------------------------------------
(* FilePushReader of channel c.                                            *)

getNextId == IF fileId + 1 > MaxId THEN 1 ELSE fileId + 1

response(c, id, type) == [ch |-> c, type |-> type, id |-> id]

(* closeWithError: 4000 - code, never clean; the reader stops listening.    *)
closeWithErrorCleanly(c) ==                               \* mutant
  /\ disposed' = [disposed EXCEPT ![c] = TRUE]
  /\ toClient' = Append(toClient, response(c, NoId, "closed"))
closeWithError(c) ==
  /\ disposed' = [disposed EXCEPT ![c] = TRUE]
  /\ toClient' = Append(toClient, response(c, NoId, "failed"))

(* NEW: writeInt16BE throws on an id that does not fit.                    *)
OnNew(m) ==
  /\ m.type = "NEW"
  /\ IF state[m.ch] # "INITIAL"
     THEN closeWithError(m.ch) /\ UNCHANGED <<state, readerId, fileId>>
     ELSE /\ state' = [state EXCEPT ![m.ch] = "NEW"]
          /\ fileId' = getNextId
          /\ readerId' = [readerId EXCEPT ![m.ch] = getNextId]
          /\ toClient' = IF getNextId <= MaxInResponse
                         THEN Append(toClient, response(m.ch, getNextId, "NEW_PUSH_ID"))
                         ELSE toClient
          /\ UNCHANGED disposed
  /\ UNCHANGED <<creating, finishing, stream, streams>>

OnStart(m) ==
  /\ m.type = "START"
  /\ IF m.id # readerId[m.ch] \/ state[m.ch] # "NEW" \/ m.k = 0
     THEN closeWithError(m.ch) /\ UNCHANGED state
     ELSE /\ state' = [state EXCEPT ![m.ch] = "START"]
          /\ toClient' = Append(toClient, response(m.ch, m.id, "NO_ERROR"))
          /\ UNCHANGED disposed
  /\ UNCHANGED <<readerId, fileId, creating, finishing, stream, streams>>

(* APPEND: the first chunk creates the stream, which is then awaited.      *)
AppendCreates(c) == state[c] = "START"

OnAppend(m) ==
  /\ m.type = "APPEND"
  /\ \/ /\ m.id = readerId[m.ch] /\ AppendCreates(m.ch)
        /\ stream' = [stream EXCEPT ![m.ch] = <<m.k>>]
        /\ streams' = [streams EXCEPT ![m.ch] = @ + 1]
        /\ creating' = [creating EXCEPT ![m.ch] = "pending"]
        /\ UNCHANGED <<disposed, toClient>>
     \/ /\ m.id = readerId[m.ch] /\ ~AppendCreates(m.ch) /\ state[m.ch] = "APPEND"
        /\ stream' = [stream EXCEPT ![m.ch] = Append(@, m.k)]
        /\ UNCHANGED <<streams, creating, disposed, toClient>>
     \/ /\ m.id # readerId[m.ch] \/ state[m.ch] \notin {"START", "APPEND"}
        /\ closeWithError(m.ch)
        /\ UNCHANGED <<stream, streams, creating>>
  /\ UNCHANGED <<state, readerId, fileId, finishing>>

(* FINISH, from where it goes on after createStreamPromiseMap.             *)
Finish(c) ==
  IF state[c] # "APPEND"
  THEN closeWithError(c) /\ UNCHANGED state
  ELSE state' = [state EXCEPT ![c] = "FINISH"] /\ UNCHANGED <<disposed, toClient>>

FinishMustWaitNever(c) == FALSE                           \* mutant
FinishMustWait(c) == creating[c] # "no"

OnFinish(m) ==
  /\ m.type = "FINISH"
  /\ IF m.id # readerId[m.ch]
     THEN closeWithError(m.ch) /\ UNCHANGED <<state, finishing>>
     ELSE IF FinishMustWait(m.ch)
     THEN /\ finishing' = [finishing EXCEPT ![m.ch] = TRUE]
          /\ UNCHANGED <<state, disposed, toClient>>
     ELSE Finish(m.ch) /\ UNCHANGED finishing
  /\ UNCHANGED <<readerId, fileId, creating, stream, streams>>

(* A disposed reader has removed its message listener.                     *)
ReaderReceive ==
  /\ toServer # <<>>
  /\ toServer' = Tail(toServer)
  /\ LET m == Head(toServer) IN
       \/ /\ ~disposed[m.ch]
          /\ OnNew(m) \/ OnStart(m) \/ OnAppend(m) \/ OnFinish(m)
       \/ /\ disposed[m.ch]
          /\ UNCHANGED <<state, readerId, disposed, creating, finishing, stream, streams,
                         fileId, toClient>>
  /\ UNCHANGED <<clientVars, acked, transfer>>

(* client.push has resolved: createStream returns, then the handlers that  *)
(* await it go on.  None of them looks whether the reader was disposed.    *)
Created(c) ==
  /\ creating[c] = "pending"
  /\ creating' = [creating EXCEPT ![c] = "no"]
  /\ finishing' = [finishing EXCEPT ![c] = FALSE]
  /\ state' = [state EXCEPT ![c] = IF finishing[c] THEN "FINISH" ELSE "APPEND"]
  /\ transfer' = [transfer EXCEPT ![c] = "active"]
  /\ UNCHANGED <<readerId, disposed, stream, acked, streams, fileId, clientVars,
                 toServer, toClient>>

(* client.push is rejected: createStream throws out of onMessage.          *)
Refused(c) ==
  /\ creating[c] = "pending"
  /\ creating' = [creating EXCEPT ![c] = "refused"]
  /\ UNCHANGED <<state, readerId, disposed, finishing, stream, acked, streams, transfer,
                 fileId, clientVars, toServer, toClient>>

(* read(): the Readable wants more.  A chunk that fits its buffer is not   *)
(* waited for; in Blob.stream() only the last one of a file may.           *)
FitsBuffer(c) == Len(stream[c]) = size[c]

MayRead(c) == acked[c] < Len(stream[c])

Read(c) ==
  /\ ~disposed[c]
  /\ stream[c] # <<>>
  /\ state[c] # "FINISH"
  /\ MayRead(c)
  /\ transfer[c] = "active" \/ FitsBuffer(c)
  /\ acked' = [acked EXCEPT ![c] = @ + 1]
  /\ toClient' = Append(toClient, response(c, readerId[c], "NO_ERROR"))
  /\ UNCHANGED <<state, readerId, disposed, creating, finishing, stream, streams,
                 transfer, fileId, clientVars, toServer>>

(* onPushEnd: adb confirms a transfer whose stream has ended.  release     *)
(* closes the channel, after the response.                                 *)
PushEnd(c) ==
  /\ transfer[c] = "active"
  /\ state[c] = "FINISH"
  /\ transfer' = [transfer EXCEPT ![c] = "ended"]
  /\ IF disposed[c] THEN UNCHANGED <<disposed, toClient>>
     ELSE /\ disposed' = [disposed EXCEPT ![c] = TRUE]
          /\ toClient' = toClient \o <<response(c, readerId[c], "NO_ERROR"),
                                       response(c, NoId, "closed")>>
  /\ UNCHANGED <<state, readerId, creating, finishing, stream, acked, streams, fileId,
                 clientVars, toServer>>

(* onPushError, or an error of the adb client.                             *)
PushError(c) ==
  /\ transfer[c] = "active"
  /\ transfer' = [transfer EXCEPT ![c] = "failed"]
  /\ IF disposed[c] THEN UNCHANGED <<disposed, toClient>> ELSE closeWithError(c)
  /\ UNCHANGED <<state, readerId, creating, finishing, stream, acked, streams, fileId,
                 clientVars, toServer>>

Next ==
  \/ \E f \in File : (\E n \in 0..MaxSize : pushFile(f, n)) \/ Continue(f)
  \/ ClientReceive \/ ConnectionLost \/ ReaderReceive
  \/ \E c \in File : Created(c) \/ Refused(c) \/ Read(c) \/ PushEnd(c) \/ PushError(c)

(***************************************************************************)
(* Messages in flight arrive, promises are run, and adb gives an answer to *)
(* every call and reads what it is given.                                  *)
(***************************************************************************)
Fairness ==
  /\ WF_vars(ClientReceive) /\ WF_vars(ReaderReceive)
  /\ \A f \in File : WF_vars(Continue(f))
  /\ \A c \in File : /\ WF_vars(Created(c) \/ Refused(c))
                     /\ WF_vars(Read(c))
                     /\ WF_vars(PushEnd(c) \/ PushError(c))

Spec == Init /\ [][Next]_vars /\ Fairness

-----------------------------------------------------------------------------
(* Properties.                                                             *)

(* FilePushHandler reports success! for a file only when adb has confirmed *)
(* one transfer of all its chunks, in order and none twice: neither the    *)
(* ids handed out to concurrent pushes nor the NO_ERROR that means "read"  *)
(* while appending and "written" after FINISH are mixed up.                *)
SuccessMeansWritten ==
  \A f \in File : report[f] = "success" =>
    /\ transfer[f] = "ended"
    /\ streams[f] = 1
    /\ stream[f] = [i \in 1..size[f] |-> i]

(* A push is reported as failed only if the file is empty or adb failed:   *)
(* the handlers that await createStream never find the reader in a state   *)
(* they reject, also when FINISH overtakes the end of the first APPEND.    *)
ErrorHasCause ==
  \A f \in File : report[f] = "error" => size[f] = 0 \/ transfer[f] = "failed"

(* The NEW of a push is answered with its id once the reader has left      *)
(* INITIAL: maxId's comment lets ids run to 2^32 - 1.                      *)
NewIsAnswered ==
  \A c \in File : state[c] # "INITIAL" /\ ~released =>
    \/ <<readerId[c], c>> \in channelOf
    \/ \E i \in DOMAIN toClient : /\ toClient[i].ch = c
                                  /\ toClient[i].type = "NEW_PUSH_ID"

(* Every dropped file is reported as success or error unless the           *)
(* connection is lost or adb refused to start the transfer (nothing        *)
(* handles that rejection).                                                *)
Settled ==
  \A f \in File : pc[f] # "idle" ~>
    (report[f] # "none" \/ released \/ creating[f] = "refused")
=============================================================================
