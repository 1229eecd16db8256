---------------------------- MODULE MCMultiplexer ----------------------------
(* Multiplexer on small instances. *)
EXTENDS Multiplexer

(* Two messages of the client on the second channel, which may be created  *)
(* before or after the socket opens, can wait in storage; the server sends *)
(* one on the first.                                                       *)
FewSends ==
  [p \in Peer |-> [id \in Id |-> IF p = "client" /\ id = 2 THEN 2
                                 ELSE IF p = "server" /\ id = 1 THEN 1 ELSE 0]]
SendOne == [p \in Peer |-> [id \in Id |-> 1]]
=============================================================================
