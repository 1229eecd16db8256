----------------------------- MODULE MCFilePush -----------------------------
(* FilePush with two files dropped at once. *)
EXTENDS FilePush

CONSTANTS a, b

TwoFiles == {a, b}

(* What the theorems suppose of the files and ids; TLC evaluates it. *)
ASSUME PushBounds == Bounds
=============================================================================
