----------------------------- MODULE MCRunners -----------------------------
(***************************************************************************)
(* The two kinds of runners of an iOS device, checked side by side in one  *)
(* run.  They share nothing, so a behaviour runs one of three parts:       *)
(*   "calls"    WebDriverAgent, one runner, calls of start() that overlap; *)
(*   "replaced" WebDriverAgent, a second runner while the first shuts down;*)
(*   "qvh"      the ws-qvh process.                                        *)
(* The parts that do not run stay in their initial state, where nothing is *)
(* due and their fairness asks for nothing.                                *)
(***************************************************************************)
EXTENDS WdaRunner

CONSTANTS MaxChannels, FewRequests

ASSUME ChannelsAssumption == MaxChannels \in Nat \ {0}

VARIABLES part,
          instance2, servers2, runners2, holds2, watching2, mjpeg2,
          qvhInstance, qvhRunners, qvhChannels

vars2 == <<instance2, servers2, runners2, holds2, watching2, mjpeg2>>
qvhVars == <<qvhInstance, qvhRunners, qvhChannels>>

Replaced == INSTANCE WdaRunner WITH
  Requests <- FewRequests, MaxRunners <- 2, MaxCalls <- 1, instance <- instance2,
  servers <- servers2, runners <- runners2, holds <- holds2, watching <- watching2,
  mjpeg <- mjpeg2
Qvh == INSTANCE QvhackRunner WITH
  instance <- qvhInstance, runners <- qvhRunners, channels <- qvhChannels

MCInit ==
  /\ part \in {"calls", "replaced", "qvh"}
  /\ Init /\ Replaced!Init /\ Qvh!Init

MCNext ==
  /\ UNCHANGED part
  /\ \/ part = "calls" /\ Next /\ UNCHANGED <<vars2, qvhVars>>
     \/ part = "replaced" /\ Replaced!Next /\ UNCHANGED <<vars, qvhVars>>
     \/ part = "qvh" /\ Qvh!Next /\ UNCHANGED <<vars, vars2>>

MCSpec ==
  /\ MCInit /\ [][MCNext]_<<part, vars, vars2, qvhVars>>
  /\ Fairness /\ Replaced!Fairness /\ Qvh!Fairness

-----------------------------------------------------------------------------
(* HeldIsKept of QvhackRunner: a shutdown timer takes no runner from a     *)
(* channel that holds it, as long as no QVHStreamProxy has released twice. *)
StreamIsKept == Qvh!HeldIsKept

(* A WebDriverAgent that is held and starts or has stopped is started      *)
(* again, or a start fails, or its holders leave; and the one that         *)
(* replaces another is kept while it is held (HeldIsKept of WdaRunner).    *)
Recovery == HeldRecovers /\ Replaced!HeldRecovers /\ []Replaced!HeldIsKept

(* What nobody holds any more is shut down and forgotten.                  *)
IdleEnds == IdleForgotten /\ Replaced!IdleForgotten /\ Qvh!IdleStops
=============================================================================
