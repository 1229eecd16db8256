------------------------------- MODULE Channel -------------------------------
(***************************************************************************)
(* What one multiplexed channel promises to the two programs that hold its *)
(* ends: each end is begun and given up at most once, the server's never   *)
(* before the client's, and what an end that is live receives is exactly   *)
(* what the other end sent, in order and without gaps.  Messages may be    *)
(* lost only off the tail.                                                 *)
(***************************************************************************)
EXTENDS Integers, Sequences

VARIABLES phase,  \* of each end: "none", "live", "gone"
          sent,   \* number of messages each end has sent
          got     \* messages delivered to each end, as numbers 1, 2, ...

Ends == {"client", "server"}
Opposite(e) == IF e = "client" THEN "server" ELSE "client"

Init ==
  /\ phase = [e \in Ends |-> "none"]
  /\ sent = [e \in Ends |-> 0]
  /\ got = [e \in Ends |-> <<>>]

Begin(e) ==
  /\ phase[e] = "none"
  /\ e = "server" => phase["client"] # "none"
  /\ phase' = [phase EXCEPT ![e] = "live"]
  /\ UNCHANGED <<sent, got>>

Send(e) ==
  /\ phase[e] # "none"
  /\ sent' = [sent EXCEPT ![e] = @ + 1]
  /\ UNCHANGED <<phase, got>>

Deliver(e) ==
  /\ phase[e] = "live"
  /\ Len(got[e]) < sent[Opposite(e)]
  /\ got' = [got EXCEPT ![e] = Append(@, Len(@) + 1)]
  /\ UNCHANGED <<phase, sent>>

End(e) ==
  /\ phase[e] = "live"
  /\ phase' = [phase EXCEPT ![e] = "gone"]
  /\ UNCHANGED <<sent, got>>

Next == \E e \in Ends : Begin(e) \/ Send(e) \/ Deliver(e) \/ End(e)

Step == [Next]_<<phase, sent, got>>

Spec == Init /\ [][Step]_<<phase, sent, got>>
=============================================================================
