------------------------------ MODULE MCClients ------------------------------
(***************************************************************************)
(* Parts that each own one connection of a page, checked side by side in   *)
(* one run.  Connections share nothing, so a behaviour runs one part and   *)
(* leaves the others where they do nothing:                                *)
(*   "proxy" a WebSocket proxied to a remote (WebsocketProxy);             *)
(*   "wda"   driving an iOS device (WdaProxyClient);                       *)
(*   "shell" a remote shell (RemoteShell);                                 *)
(*   "video" the player behind a stream (MsePlayer).                       *)
(***************************************************************************)
EXTENDS WebsocketProxy

CONSTANTS MaxGestures, MaxCuts, MaxOutput, Limit, Removed, MaxFrames, MaxStops

VARIABLES part,
          wdaWs, reconnect, stopped, commands, wait, hasSession, screenWidth, gestures,
          toServer, toClient, wda, serving, runner, lost, ignored, cuts,
          shellWs, term, buffer, timer, terminated, output, shown, closedByExit, crashed,
          playing, converter, pending, removing, buffered, listening, known, late, stale,
          waitUntilSegmentRemoved, blocks, frames, pushed, appended, stops, overtaken, cut, left

wdaVars == <<wdaWs, reconnect, stopped, commands, wait, hasSession, screenWidth, gestures,
             toServer, toClient, wda, serving, runner, lost, ignored, cuts>>
shellVars == <<shellWs, term, buffer, timer, terminated, output, shown, closedByExit, crashed>>
videoVars == <<playing, converter, pending, removing, buffered, listening, known, late, stale,
               waitUntilSegmentRemoved, blocks, frames, pushed, appended, stops, overtaken, cut,
               left>>

Wda == INSTANCE WdaProxyClient WITH ws <- wdaWs
Shell == INSTANCE RemoteShell WITH ws <- shellWs, sent <- shown
Video == INSTANCE MsePlayer

(* Fairness would make these two go on: elsewhere they are over.           *)
ProxyOver ==
  /\ ws = "CLOSED" /\ code = 0 /\ remote = "failed" /\ remoteSocket = FALSE
  /\ storage = <<>> /\ released = TRUE /\ blank = 0 /\ sent = 0 /\ written = <<>>
  /\ dropped = 0
  /\ replies = 0 /\ returned = <<>>
WdaOver ==
  /\ wdaWs = "CLOSED" /\ reconnect = FALSE /\ stopped = TRUE /\ commands = <<>>
  /\ wait = {} /\ hasSession = FALSE /\ screenWidth = 0
  /\ gestures = [g \in 1..MaxGestures |-> "none"] /\ toServer = <<>> /\ toClient = <<>>
  /\ wda = FALSE /\ serving = {} /\ runner = "STOPPED"
  /\ lost = {} /\ ignored = {} /\ cuts = 0

MCInit ==
  /\ part \in {"proxy", "wda", "shell", "video"}
  /\ IF part = "proxy" THEN Init ELSE ProxyOver
  /\ IF part = "wda" THEN Wda!Init ELSE WdaOver
  /\ Shell!Init /\ Video!Init

MCNext ==
  /\ UNCHANGED part
  /\ \/ part = "proxy" /\ Next /\ UNCHANGED <<wdaVars, shellVars, videoVars>>
     \/ part = "wda" /\ Wda!Next /\ UNCHANGED <<vars, shellVars, videoVars>>
     \/ part = "shell" /\ Shell!Next /\ UNCHANGED <<vars, wdaVars, videoVars>>
     \/ part = "video" /\ Video!Next /\ UNCHANGED <<vars, wdaVars, shellVars>>

MCSpec ==
  /\ MCInit
  /\ [][MCNext]_<<part, vars, wdaVars, shellVars, videoVars>>
  /\ Fairness /\ Wda!Fairness /\ Shell!Fairness /\ Video!Fairness

-----------------------------------------------------------------------------
(* RequestsSettle of WdaProxyClient: a request for an iOS device is        *)
(* answered or abandoned in one of the ways named there.                   *)
RequestsSettle == Wda!RequestsSettle

(* ShellEnds of RemoteShell: the page gets all output of a shell that ends.*)
ShellEnds == Shell!ShellEnds

(* FramesInOrder of MsePlayer: frames reach the decoder in order, also     *)
(* after they were held back.                                              *)
FramesInOrder == Video!FramesInOrder

(* VideoGoesOn of MsePlayer: what is held back is shown in the end.        *)
VideoGoesOn == Video!VideoGoesOn
=============================================================================
