------------------------------ MODULE CastXAdb ------------------------------
(***************************************************************************)
(* castX in adb mode: pages ask it to start scrcpy on a phone, and         *)
(* Config.AdbConnect, which every page is told of, says whether one runs.  *)
(* The flag is set by the goroutine of the request, after the one that     *)
(* runs scrcpy was started, and cleared by that one, without a lock.       *)
(*                                                                         *)
(* External: adb and the phone, whose scrcpy may end at any time.  The     *)
(* receiver (module ScrcpyReceiver) broadcasts the size of a new video.    *)
(* Bounds: MaxSessions sessions, each tried once, with a resize at most.   *)
(***************************************************************************)
EXTENDS Integers, SequencesExt

CONSTANT MaxSessions

VARIABLES
  adbConnect, \* Config.AdbConnect
  caller,     \* the function that starts session s
  job,        \* the goroutine of adbConnectOk for s, with the scrcpy it runs
  resized,    \* the sessions whose video has been announced
  overtaken,  \* history: s ended before its AdbConnect was set
  infos,      \* values of adbConnect in infoNotify messages under way to a page
  shown,      \* the value the page shows
  reordered   \* history: a message has arrived before an earlier one

pageVars == <<infos, shown, reordered>>
vars == <<adbConnect, caller, job, resized, overtaken, pageVars>>

Session == 1..MaxSessions

Init ==
  /\ adbConnect = FALSE
  /\ caller = [s \in Session |-> "none"]
  /\ job = [s \in Session |-> "none"]
  /\ resized = {} /\ overtaken = {}
  /\ infos = <<>> /\ shown = FALSE /\ reordered = FALSE

(* Broadcast: the message is made at once, and written to each connection  *)
(* by a goroutine of its own.                                              *)
Broadcast(value) ==
  /\ infos' = Append(infos, value)
  /\ UNCHANGED <<shown, reordered>>

BroadcastInfo == Broadcast(adbConnect')

-----------------------------------------------------------------------------
Connect(s) ==
  /\ caller[s] = "none" /\ \A t \in 1..(s - 1) : caller[t] # "none"
  /\ caller' = [caller EXCEPT ![s] = "connecting"]
  /\ UNCHANGED <<adbConnect, job, resized, overtaken, pageVars>>

(* connectAdb is ignored while there is a connection; a page that hands    *)
(* over its USB device is not.                                             *)
ConnectWifi(s) == ~adbConnect /\ Connect(s)
ConnectUsb(s) == Connect(s)

ConnectFails(s) ==
  /\ caller[s] = "connecting"
  /\ caller' = [caller EXCEPT ![s] = "failed"]
  /\ UNCHANGED <<adbConnect, job, resized, overtaken, pageVars>>

(* adbConnectOk up to its go statement.                                    *)
AdbConnectOk(s) ==
  /\ caller[s] = "connecting"
  /\ caller' = [caller EXCEPT ![s] = "started"]
  /\ job' = [job EXCEPT ![s] = "running"]
  /\ UNCHANGED <<adbConnect, resized, overtaken, pageVars>>

AdbConnectSet(s) ==
  /\ caller[s] = "started"
  /\ caller' = [caller EXCEPT ![s] = "set"]
  /\ adbConnect' = TRUE
  /\ BroadcastInfo
  /\ UNCHANGED <<job, resized, overtaken>>

(* readHeader of the video connection: UpdateConfig.                       *)
UpdateConfig(s) ==
  /\ job[s] = "running" /\ s \notin resized
  /\ resized' = resized \cup {s}
  /\ UNCHANGED <<adbConnect, caller, job, overtaken>>
  /\ BroadcastInfo

flagKept == adbConnect                                        \* mutant
flagAtEnd == FALSE

(* ShellCmd returns; the deferred function.                                *)
SessionEnds(s) ==
  /\ job[s] = "running"
  /\ job' = [job EXCEPT ![s] = "ended"]
  /\ adbConnect' = flagAtEnd
  /\ overtaken' = IF caller[s] = "started" THEN overtaken \cup {s} ELSE overtaken
  /\ BroadcastInfo
  /\ UNCHANGED <<caller, resized>>

InfoArrives(i) ==
  /\ i \in 1..Len(infos)
  /\ shown' = infos[i]
  /\ infos' = RemoveAt(infos, i)
  /\ reordered' = (reordered \/ i # 1)
  /\ UNCHANGED <<adbConnect, caller, job, resized, overtaken>>

Next ==
  \/ \E s \in Session : \/ ConnectWifi(s) \/ ConnectUsb(s) \/ ConnectFails(s)
                        \/ AdbConnectOk(s) \/ AdbConnectSet(s)
                        \/ UpdateConfig(s) \/ SessionEnds(s)
  \/ \E i \in 1..Len(infos) : InfoArrives(i)

(* Goroutines go on, connections deliver; the phone need do nothing.       *)
Fairness ==
  /\ \A s \in Session : WF_vars(AdbConnectSet(s))
  /\ WF_vars(\E i \in 1..Len(infos) : InfoArrives(i))

Spec == Init /\ [][Next]_vars /\ Fairness

-----------------------------------------------------------------------------
(* The page shows a connection while the only session runs, and none once  *)
(* all have ended.  Three things can keep it wrong for good, and nothing   *)
(* else: messages that overtake each other, the flag being set after its   *)
(* session has ended, and two sessions, of which the first to end clears   *)
(* the flag of the other.                                                  *)
PageFollows ==
  /\ \A s \in Session :
       job[s] = "running" ~> \/ shown \/ job[s] = "ended" \/ reordered
                             \/ \E t \in Session \ {s} : job[t] # "none"
  /\ (\A s \in Session : job[s] # "running") ~>
       \/ ~shown \/ reordered \/ overtaken # {}
       \/ \E s \in Session : job[s] = "running"
=============================================================================
