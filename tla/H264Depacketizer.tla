-------------------------- MODULE H264Depacketizer --------------------------
(***************************************************************************)
(* The H.264 receiver of castX (webrtcReceive.go): it puts NAL units       *)
(* together from RTP packets of three kinds, a unit of its own, a fragment *)
(* of one (FU-A), or several units (STAP-A), and hands parameter sets and  *)
(* slices to its caller.                                                   *)
(*                                                                         *)
(* External: the sender packs units in one of these ways, and the network  *)
(* loses packets but keeps their order.  The units of a key frame have the *)
(* same timestamp as the frame behind it.                                  *)
(* Bounds: MaxUnits units or aggregates, of at most MaxParts parts.        *)
(***************************************************************************)
EXTENDS Integers, SequencesExt

CONSTANTS MaxUnits, MaxParts

VARIABLES
  now,            \* what is being sent: number, form, kind, parts, timestamp
  next,           \* the part sent next, behind the last when all are sent
  clean,          \* history: nothing of it was lost so far
  fragmentBuffer, \* the parts put together, empty when nil
  lastTimestamp,
  written,        \* the units handed to receiveCall, with their timestamp
  expected        \* history: those sent that arrived without a loss

vars == <<now, next, clean, fragmentBuffer, lastTimestamp, written, expected>>

Form == {"single", "FU-A", "STAP-A"}
Kind == {"slice", "parameters", "other"}
NoUnit == [id |-> 0, form |-> "single", kind |-> "other", parts |-> 1, ts |-> 0]
Unit == {u \in [id : 1..MaxUnits, form : Form, kind : Kind, parts : 1..MaxParts,
                ts : 0..MaxUnits] : (u.form = "single") = (u.parts = 1)}

(* A part: the unit it is of, by number and kind, and its place there.     *)
Part(u, i) == [id |-> u.id, kind |-> u.kind, place |-> i]

Init ==
  /\ now = NoUnit /\ next = 2 /\ clean = TRUE
  /\ fragmentBuffer = <<>> /\ lastTimestamp = 0
  /\ written = <<>> /\ expected = <<>>

Send ==
  /\ next > now.parts /\ now.id < MaxUnits
  /\ \E u \in Unit : /\ u.id = now.id + 1 /\ u.ts \in {now.ts, now.ts + 1}
                     /\ now' = u
  /\ next' = 1 /\ clean' = TRUE
  /\ UNCHANGED <<fragmentBuffer, lastTimestamp, written, expected>>

(* The place behind the packet that is sent next.                          *)
Behind == IF now.form = "FU-A" THEN next + 1 ELSE now.parts + 1

Lose ==
  /\ next <= now.parts
  /\ next' = Behind /\ clean' = FALSE
  /\ UNCHANGED <<now, fragmentBuffer, lastTimestamp, written, expected>>

-----------------------------------------------------------------------------
(* writeNALU looks at the first byte: the header, or any byte of the data  *)
(* when the beginning is missing.  Units of other kinds are dropped.       *)
writeNALU(nal) ==
  LET out == Append(written, [nal |-> nal, ts |-> now.ts]) IN
  \/ nal[1].place > 1 /\ written' \in {written, out}
  \/ /\ nal[1].place = 1
     /\ written' = IF nal[1].kind = "other" THEN written ELSE out

ProcessSingle ==
  /\ next <= now.parts /\ now.form = "single"
  /\ writeNALU(<<Part(now, 1)>>)
  /\ next' = Behind
  /\ expected' = IF now.kind = "other" THEN expected
                 ELSE Append(expected, [nal |-> <<Part(now, 1)>>, ts |-> now.ts])
  /\ UNCHANGED <<now, clean, fragmentBuffer, lastTimestamp>>

startKept(p) == Append(fragmentBuffer, p)                     \* mutant
startFragment(p) == <<p>>

(* The parts put together once p has arrived.                              *)
Gathered(p) ==
  IF p.place = 1 THEN startFragment(p)
  ELSE IF now.ts = lastTimestamp THEN Append(fragmentBuffer, p)
  ELSE fragmentBuffer

processFUA ==
  LET p == Part(now, next) IN
  /\ next <= now.parts /\ now.form = "FU-A"
  /\ lastTimestamp' = IF next = 1 THEN now.ts ELSE lastTimestamp
  /\ IF next = now.parts /\ Gathered(p) # <<>>
     THEN writeNALU(Gathered(p)) /\ fragmentBuffer' = <<>>
     ELSE fragmentBuffer' = Gathered(p) /\ UNCHANGED written
  /\ next' = Behind
  /\ expected' =
       IF next = now.parts /\ clean /\ now.kind # "other"
       THEN Append(expected, [nal |-> [i \in 1..now.parts |-> Part(now, i)], ts |-> now.ts])
       ELSE expected
  /\ UNCHANGED <<now, clean>>

processSTAPA ==
  LET units == [i \in 1..now.parts |-> [nal |-> <<Part(now, i)>>, ts |-> now.ts]] IN
  /\ next <= now.parts /\ now.form = "STAP-A"
  /\ written' = IF now.kind = "other" THEN written ELSE written \o units
  /\ expected' = IF now.kind = "other" THEN expected ELSE expected \o units
  /\ next' = Behind
  /\ UNCHANGED <<now, clean, fragmentBuffer, lastTimestamp>>

Next == Send \/ Lose \/ ProcessSingle \/ processFUA \/ processSTAPA

Spec == Init /\ [][Next]_vars

-----------------------------------------------------------------------------
(* Whatever was lost before, between and behind them, the units that       *)
(* arrived without a loss are handed on exactly, each once (those expected *)
(* differ in their numbers or places), and in their order; only others, put*)
(* together from what was left of damaged ones, come between.              *)
CompleteUnitsAreExact ==
  /\ Range(expected) \subseteq Range(written)
  /\ \A i, j \in DOMAIN written :
       i < j /\ {written[i], written[j]} \subseteq Range(expected)
         => \E k, l \in DOMAIN expected :
              k < l /\ expected[k] = written[i] /\ expected[l] = written[j]
=============================================================================
