--------------------------- MODULE WebsocketProxy ---------------------------
(***************************************************************************)
(* A WebsocketProxy of the server: what the client sends on ws goes to a   *)
(* WebSocket the proxy opens to a remote (scrcpy on the device behind an   *)
(* adb forward, devtools, or ws-qvh), and back.  What arrives before the   *)
(* remote is open waits in storage.                                        *)
(*                                                                         *)
(* WebsocketProxyOverAdb calls init once adb has forwarded a port,         *)
(* createProxy calls it at once; Init chooses.  A WebSocket is external:   *)
(* what is sent on an open one is written in order, send on a closing one  *)
(* is ignored, an error is followed by close.                              *)
(* Bounds: MaxSends messages of the client, one of which (blank) may be an *)
(* empty text; MaxReplies of the remote.                                   *)
(***************************************************************************)
EXTENDS Naturals, Sequences

SeqExt == INSTANCE SequencesExt

CONSTANTS MaxSends, MaxReplies

ASSUME BoundsAssumption == MaxSends \in Nat /\ MaxReplies \in Nat

VARIABLES
  ws,           \* readyState of the client's socket
  code,         \* the code ws was closed with by the proxy, 0 if it was not
  remote,       \* "forwarding", "failed", or readyState of the remote socket
  remoteSocket, \* the field is set
  storage,
  released,
  blank,        \* the message of the client that is an empty text, or 0
  sent,         \* messages the client has sent: 1..sent
  written,      \* messages written to the remote
  dropped,      \* the empty message, once flush has dropped it, or 0
  replies,      \* messages the remote has sent: 1..replies
  returned      \* messages written to the client

vars == <<ws, code, remote, remoteSocket, storage, released, blank, sent, written, dropped,
          replies, returned>>

Init ==
  /\ ws = "OPEN" /\ code = 0
  /\ remote \in {"forwarding", "CONNECTING"}
  /\ remoteSocket = FALSE
  /\ storage = <<>>
  /\ released = FALSE
  /\ blank \in 0..MaxSends
  /\ sent = 0 /\ written = <<>> /\ dropped = 0
  /\ replies = 0 /\ returned = <<>>

(* ws.close(c), called by the proxy. *)
close(c) ==
  IF ws = "OPEN" THEN ws' = "CLOSING" /\ code' = c ELSE UNCHANGED <<ws, code>>

(* flush, once remoteSocket is set: what has data is sent.  storage is     *)
(* empty after it.                                                         *)
cleared == <<>>

flushDrops(msgs, r) ==                                    \* mutant
  /\ UNCHANGED <<written, dropped>>
  /\ remote' = IF r THEN "CLOSING" ELSE "OPEN"
flushKeepsOpen(msgs, r) ==                                \* mutant
  /\ written' = written \o msgs /\ remote' = "OPEN" /\ UNCHANGED dropped
flush(msgs, r) ==
  /\ written' = IF remote \in {"CONNECTING", "OPEN"} THEN written \o SeqExt!RemoveFirst(msgs, blank)
                ELSE written
  /\ dropped' = IF SeqExt!Contains(msgs, blank) THEN blank ELSE dropped
  /\ remote' = IF r /\ remote # "CLOSED" THEN "CLOSING"
               ELSE IF remote = "CONNECTING" THEN "OPEN" ELSE remote

(* AdbUtils.forward has returned a port: init. *)
Forwarded ==
  /\ remote = "forwarding"
  /\ remote' = "CONNECTING"
  /\ UNCHANGED <<ws, code, remoteSocket, storage, released, blank, sent, written, dropped, replies,
                 returned>>

(* forward or init is rejected. *)
NotStarted ==
  /\ remote = "forwarding"
  /\ remote' = "failed"
  /\ close(4005)
  /\ UNCHANGED <<remoteSocket, storage, released, blank, sent, written, dropped, replies, returned>>

(* remoteSocket.onopen, also after the client has gone. *)
RemoteOpen ==
  /\ remote = "CONNECTING"
  /\ remoteSocket' = TRUE
  /\ flush(storage, released)
  /\ storage' = cleared
  /\ UNCHANGED <<ws, code, released, blank, sent, replies, returned>>

(* onSocketMessage: the client sends until it has seen the close.          *)
StoresNever == FALSE                                      \* mutant
Stores == ~remoteSocket

ClientSends ==
  /\ ws # "CLOSED"
  /\ sent < MaxSends
  /\ sent' = sent + 1
  /\ IF Stores
     THEN storage' = Append(storage, sent') /\ UNCHANGED written
     ELSE /\ written' = IF remote = "OPEN" THEN Append(written, sent') ELSE written
          /\ UNCHANGED storage
  /\ UNCHANGED <<ws, code, remote, remoteSocket, released, blank, dropped, replies, returned>>

(* The close event of ws: release, which closes a remote that is open.     *)
(* What waits in storage is dropped.                                       *)
ClientGone ==
  /\ ws # "CLOSED"
  /\ ws' = "CLOSED"
  /\ released' = TRUE
  /\ storage' = cleared
  /\ IF remoteSocket THEN flush(storage, TRUE) ELSE UNCHANGED <<remote, written, dropped>>
  /\ UNCHANGED <<code, remoteSocket, blank, sent, replies, returned>>

(* remoteSocket.onmessage *)
Replies ==
  /\ remote \in {"OPEN", "CLOSING"} /\ remoteSocket
  /\ replies < MaxReplies
  /\ replies' = replies + 1
  /\ returned' = IF ws = "OPEN" THEN Append(returned, replies') ELSE returned
  /\ UNCHANGED <<ws, code, remote, remoteSocket, storage, released, blank, sent, written, dropped>>

(* remoteSocket.onclose *)
RemoteClosed(wasClean) ==
  /\ remote \in {"OPEN", "CLOSING"}
  /\ remote' = "CLOSED"
  /\ close(IF wasClean THEN 1000 ELSE 4010)
  /\ UNCHANGED <<remoteSocket, storage, released, blank, sent, written, dropped, replies, returned>>

(* remoteSocket.onerror, and the onclose behind it. *)
RemoteFails ==
  /\ remote \in {"CONNECTING", "OPEN", "CLOSING"}
  /\ remote' = "CLOSED"
  /\ close(4011)
  /\ UNCHANGED <<remoteSocket, storage, released, blank, sent, written, dropped, replies, returned>>

Next ==
  \/ Forwarded \/ NotStarted \/ RemoteOpen \/ ClientSends \/ ClientGone \/ Replies
  \/ \E wasClean \in BOOLEAN : RemoteClosed(wasClean)
  \/ RemoteFails

(* adb and the network answer; a socket that is closing gets its close     *)
(* event.  Nobody has to close a socket that works.                        *)
Fairness ==
  /\ WF_vars(Forwarded \/ NotStarted)
  /\ WF_vars(remote = "CONNECTING" /\ (RemoteOpen \/ RemoteFails))
  /\ WF_vars(remote = "CLOSING" /\ \E wasClean \in BOOLEAN : RemoteClosed(wasClean))
  /\ WF_vars(ws = "CLOSING" /\ ClientGone)

Spec == Init /\ [][Next]_vars /\ Fairness

-----------------------------------------------------------------------------
(* Properties.                                                             *)

State == {"CONNECTING", "OPEN", "CLOSING", "CLOSED"}

TypeOK ==
  /\ ws \in State \ {"CONNECTING"}
  /\ code \in {0, 1000, 4005, 4010, 4011}
  /\ remote \in State \cup {"forwarding", "failed"}
  /\ remoteSocket \in BOOLEAN
  /\ storage \in Seq(1..MaxSends)
  /\ released \in BOOLEAN
  /\ blank \in 0..MaxSends /\ sent \in 0..MaxSends
  /\ written \in Seq(1..MaxSends) /\ dropped \in {0, blank}
  /\ replies \in 0..MaxReplies
  /\ returned \in Seq(1..MaxReplies)
  /\ remoteSocket => storage = <<>>

(* The i-th message that is due to the remote: an empty text is one, unless*)
(* it had to wait.                                                         *)
Due(i) == IF dropped # 0 /\ i >= dropped THEN i + 1 ELSE i

(* Until one of the two ends goes away, each message of the client is      *)
(* either written to the remote or still in storage, once and in order,    *)
(* but for an empty text that flush has dropped: flush cannot interleave   *)
(* with messages that arrive meanwhile.                                    *)
NothingLost ==
  ~released /\ remote \in {"forwarding", "CONNECTING", "OPEN"} =>
    written \o storage = [i \in 1..(IF dropped = 0 THEN sent ELSE sent - 1) |-> Due(i)]

(* What the remote got is a prefix of what the client sent (without the    *)
(* empty text flush has dropped), and what the client got a prefix of what *)
(* the remote sent, whoever closed when.                                   *)
Prefixes ==
  /\ written = [i \in 1..Len(written) |-> Due(i)]
  /\ returned = [i \in 1..Len(returned) |-> i]

(* A client that goes, also while adb still forwards or the remote still   *)
(* connects, leaves no socket to the remote behind; and a remote that      *)
(* cannot be reached, fails or ends closes the client.                     *)
NeitherOutlives ==
  /\ ws = "CLOSED" ~> remote \in {"failed", "CLOSED"}
  /\ remote \in {"failed", "CLOSED"} ~> ws = "CLOSED"
=============================================================================
