--------------------------- MODULE WdaProxyClient ---------------------------
(***************************************************************************)
(* The connection through which the page of an iOS device drives it: the   *)
(* client (WdaProxyClient), its queue and the promises it waits for, over  *)
(* a channel that it opens again two seconds after each close; and the     *)
(* middleware (WebDriverAgentProxy), which belongs to one connection and   *)
(* answers in any order.                                                   *)
(*                                                                         *)
(* Requests are unique, as the numbers of getNextId are: "run" is that of  *)
(* runWebDriverAgent, which a page sends once; <<"width", g>> and          *)
(* <<"gesture", g>> are those of its g-th click or scroll, the first of    *)
(* which has to ask for the width of the screen.                           *)
(* External: the user; the runner (module WdaRunner), which starts, fails  *)
(* to start and loses its process, and may have been started by another    *)
(* page; the device, which does what it is asked or refuses.  What a       *)
(* channel promises is in module Channel.                                  *)
(* Bounds: MaxGestures gestures; MaxCuts closes of the connection by       *)
(* others and changes of the runner nobody here asked for.                 *)
(***************************************************************************)
EXTENDS Naturals, Sequences

CONSTANTS MaxGestures, MaxCuts

VARIABLES
  ws,            \* readyState of the channel, CLOSED when there is none
  reconnect,     \* the timer of onSocketClose
  stopped, commands, wait, hasSession, screenWidth,
  gestures,      \* where performClick or performScroll of each is
  toServer, toClient,
  wda,           \* the middleware has a runner
  serving,       \* requests it awaits, each with what it will answer
  runner,        \* state of the runner
  lost, ignored, \* history: sent on a connection that closed; unanswered for want of a runner
  cuts

clientVars == <<reconnect, stopped, hasSession, screenWidth>>
historyVars == <<lost, ignored, cuts>>
vars == <<ws, clientVars, commands, wait, gestures, toServer, toClient,
          wda, serving, runner, historyVars>>

Gesture == 1..MaxGestures
run == <<"run", 0>>
widthOf(g) == <<"width", g>>
gesture(g) == <<"gesture", g>>

Init ==
  /\ ws = "CONNECTING" /\ reconnect = FALSE /\ stopped = FALSE
  /\ commands = <<>> /\ wait = {}
  /\ hasSession = FALSE /\ screenWidth = 0
  /\ gestures = [g \in Gesture |-> "none"]
  /\ toServer = <<>> /\ toClient = <<>>
  /\ wda = FALSE /\ serving = {} /\ runner \in {"STOPPED", "STARTING", "STARTED"}
  /\ lost = {} /\ ignored = {} /\ cuts = 0

-----------------------------------------------------------------------------
(* The client.                                                             *)

(* sendMessage, with sendCommand *)
sendMessage(m, waiting) ==
  /\ wait' = waiting \cup {m}
  /\ IF ws = "OPEN" THEN toServer' = Append(toServer, m) /\ UNCHANGED commands
     ELSE commands' = Append(commands, m) /\ UNCHANGED toServer

runWebDriverAgent ==
  /\ run \notin wait /\ run \notin lost /\ ~hasSession
  /\ sendMessage(run, wait)
  /\ UNCHANGED <<ws, clientVars, gestures, toClient, wda, serving, runner, historyVars>>

(* performClick, performScroll *)
perform(g) ==
  /\ gestures[g] = "none" /\ \A h \in 1..(g - 1) : gestures[h] # "none"
  /\ IF ~hasSession
     THEN /\ gestures' = [gestures EXCEPT ![g] = "failed"]
          /\ UNCHANGED <<commands, wait, toServer>>
     ELSE /\ gestures' = [gestures EXCEPT ![g] = IF screenWidth = 0 THEN "width" ELSE "sent"]
          /\ sendMessage(IF screenWidth = 0 THEN widthOf(g) ELSE gesture(g), wait)
  /\ UNCHANGED <<ws, clientVars, toClient, wda, serving, runner, lost, ignored, cuts>>

onSocketOpen ==
  /\ ws = "CONNECTING" /\ ws' = "OPEN"
  /\ toServer' = commands /\ commands' = <<>>
  /\ UNCHANGED <<clientVars, wait, gestures, toClient, wda, serving, runner,
                 historyVars>>

(* Both ends: what is on its way is lost, release() gives the runner back. *)
Disconnected ==
  /\ ws' = "CLOSED"
  /\ lost' = lost \cup {m \in wait : \A i \in 1..Len(commands) : commands[i] # m}
  /\ toServer' = <<>> /\ toClient' = <<>>
  /\ wda' = FALSE /\ serving' = {}
  /\ UNCHANGED <<commands, wait, hasSession, screenWidth, gestures, runner, ignored>>

onSocketClose ==
  /\ ws # "CLOSED" /\ cuts < MaxCuts /\ cuts' = cuts + 1
  /\ Disconnected
  /\ reconnect' = ~stopped /\ UNCHANGED stopped

(* The timer does not ask whether the client was stopped meanwhile.        *)
openNewConnection ==
  /\ reconnect /\ reconnect' = FALSE
  /\ ws' = "CONNECTING"
  /\ UNCHANGED <<stopped, commands, wait, hasSession, screenWidth, gestures, toServer, toClient,
                 wda, serving, runner, historyVars>>

(* Only a channel that is open is closed. *)
stop ==
  /\ ~stopped /\ stopped' = TRUE
  /\ IF ws = "OPEN" THEN Disconnected
     ELSE UNCHANGED <<ws, commands, wait, hasSession, screenWidth, gestures, toServer, toClient,
                      wda, serving, runner, lost, ignored>>
  /\ UNCHANGED <<reconnect, cuts>>

(* onSocketMessage, and what the promise's owner does: a gesture that has  *)
(* the width, 0 though it may be, is sent; any number is a valid response. *)
Resolve(m, response) ==
  CASE m = run ->
         /\ hasSession' = TRUE /\ wait' = wait \ {m}
         /\ UNCHANGED <<screenWidth, gestures, commands, toServer>>
    [] m[1] = "width" /\ response \in Nat ->
         /\ screenWidth' = response
         /\ gestures' = [gestures EXCEPT ![m[2]] = "sent"]
         /\ sendMessage(gesture(m[2]), wait \ {m})
         /\ UNCHANGED hasSession
    [] OTHER ->
         /\ gestures' = [gestures EXCEPT ![m[2]] = IF m[1] = "width" THEN "failed" ELSE "done"]
         /\ wait' = wait \ {m}
         /\ UNCHANGED <<hasSession, screenWidth, commands, toServer>>

onSocketMessage ==
  /\ ws = "OPEN" /\ toClient # <<>> /\ toClient' = Tail(toClient)
  /\ LET m == Head(toClient) IN
       IF m.id \in wait THEN Resolve(m.id, m.response)
       ELSE UNCHANGED <<hasSession, screenWidth, gestures, wait, commands, toServer>>
  /\ UNCHANGED <<ws, reconnect, stopped, wda, serving, runner, historyVars>>

-----------------------------------------------------------------------------
(* The middleware and its runner.                                          *)

NoAnswer == 99   \* undefined, or an error
reply(m, response) == [id |-> m, response |-> response]

(* Every change of status is sent as an answer to RUN_WDA.                 *)
onStatusChange == IF wda' THEN Append(toClient, reply(run, NoAnswer)) ELSE toClient

(* RUN_WDA: start() tells STARTING at once, or nothing while another call  *)
(* is starting.                                                            *)
runWda ==
  /\ toServer # <<>> /\ Head(toServer) = run
  /\ toServer' = Tail(toServer)
  /\ wda' = TRUE
  /\ runner' = IF runner = "STOPPED" THEN "STARTING" ELSE runner
  /\ toClient' = IF runner = "STARTING" THEN toClient ELSE onStatusChange
  /\ UNCHANGED <<ws, clientVars, commands, wait, gestures, serving, historyVars>>

(* REQUEST_WDA: without a runner it is dropped; without a driver the       *)
(* answer is undefined; the driver answers, with a width of 0 when it has  *)
(* found no size, or throws.                                               *)
requestWda ==
  /\ toServer # <<>> /\ Head(toServer) # run
  /\ toServer' = Tail(toServer)
  /\ LET m == Head(toServer) IN
       IF ~wda THEN ignored' = ignored \cup {m} /\ UNCHANGED serving
       ELSE /\ \E response \in {0, 1, NoAnswer} :
                 /\ runner # "STARTED" => response = NoAnswer
                 /\ m[1] = "gesture" => response = NoAnswer
                 /\ serving' = serving \cup {reply(m, response)}
            /\ UNCHANGED ignored
  /\ UNCHANGED <<ws, clientVars, commands, wait, gestures, toClient, wda, runner, lost, cuts>>

answeredWhenDone(m) == m.response # NoAnswer                  \* mutant
answered(m) == TRUE

(* then and catch of requestWda *)
Answer(m) ==
  /\ m \in serving /\ serving' = serving \ {m}
  /\ toClient' = IF answered(m) THEN Append(toClient, m) ELSE toClient
  /\ UNCHANGED <<ws, clientVars, commands, wait, gestures, toServer, wda, runner,
                 historyVars>>

(* start() ends.  When it fails nobody is told, and when no server could   *)
(* be started starting stays set for good.                                 *)
StartEnds ==
  /\ runner = "STARTING" /\ UNCHANGED wda
  /\ \/ runner' = "STARTED" /\ toClient' = onStatusChange
     \/ runner' \in {"STOPPED", "STUCK"} /\ UNCHANGED toClient
  /\ UNCHANGED <<ws, clientVars, commands, wait, gestures, toServer, serving,
                 historyVars>>

(* The process exits: STOPPED, and STARTING again since it is held.        *)
Exit ==
  /\ wda /\ runner = "STARTED" /\ cuts < MaxCuts /\ cuts' = cuts + 1
  /\ UNCHANGED wda
  /\ runner' = "STARTING"
  /\ toClient' = toClient \o <<reply(run, NoAnswer), reply(run, NoAnswer)>>
  /\ UNCHANGED <<ws, clientVars, commands, wait, gestures, toServer, serving, lost, ignored>>

(* While this middleware does not hold the runner others start it, it      *)
(* exits, and the timer of its last release ends it.                       *)
Others ==
  /\ ~wda /\ cuts < MaxCuts /\ cuts' = cuts + 1
  /\ runner' \in {"STOPPED", "STARTING", "STARTED"} \ {runner}
  /\ UNCHANGED <<ws, clientVars, commands, wait, gestures, toServer, toClient, wda, serving,
                 lost, ignored>>

Next ==
  \/ runWebDriverAgent \/ (\E g \in Gesture : perform(g)) \/ stop
  \/ onSocketOpen \/ onSocketClose \/ openNewConnection \/ onSocketMessage
  \/ runWda \/ requestWda \/ (\E m \in serving : Answer(m))
  \/ StartEnds \/ Exit \/ Others

(* Timers, connections, messages and the driver go on; start() ends.       *)
Fairness ==
  /\ WF_vars(onSocketOpen) /\ WF_vars(openNewConnection) /\ WF_vars(onSocketMessage)
  /\ WF_vars(runWda) /\ WF_vars(requestWda) /\ WF_vars(\E m \in serving : Answer(m))
  /\ WF_vars(StartEnds)

Spec == Init /\ [][Next]_vars /\ Fairness

-----------------------------------------------------------------------------
(* What is asked is answered, also when it was asked while there was no    *)
(* connection or the process has exited meanwhile, but for a request that  *)
(* was on a connection when that closed (nothing rejects its promise), one *)
(* that meets a middleware without a runner (RUN_WDA is not sent again     *)
(* after a reconnection), a RUN_WDA that met a start() that failed or is   *)
(* stuck, and what a client that was stopped without a connection queues.  *)
Abandoned(m) ==
  \/ m \in lost \cup ignored
  \/ m = run /\ wda /\ runner \in {"STOPPED", "STUCK"}
  \/ stopped /\ ws = "CLOSED"
RequestsSettle ==
  \A m \in {run} \cup {widthOf(g) : g \in Gesture} \cup {gesture(g) : g \in Gesture} :
    m \in wait ~> m \notin wait \/ Abandoned(m)
=============================================================================
