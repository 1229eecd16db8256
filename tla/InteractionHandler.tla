------------------------- MODULE InteractionHandler -------------------------
(***************************************************************************)
(* What both interaction handlers of a page (Featured and Simple) use to   *)
(* turn mouse and touch events into messages for the device: the repair of *)
(* sequences that would not be DOWN, MOVE..., UP, and the second pointer   *)
(* that Ctrl adds to the mouse.                                            *)
(*                                                                         *)
(* A position is abstracted to whether it is inside the video (touch.      *)
(* invalid in the code).  Drawing is left out.                             *)
(***************************************************************************)
EXTENDS Naturals, SequencesExt

Message(action, pointer) == [action |-> action, pointer |-> pointer]

(* A handler's storage, as the set of pointers with a DOWN, and what is    *)
(* sent to the device.                                                     *)
Result(stored, messages) == [stored |-> stored, messages |-> messages]

(* pressed: originalEvent is a TouchEvent, or has a mouse button pressed.  *)
validateMessage(action, p, stored, pressed) ==
  LET known == p \in stored IN
  CASE action = "UP" /\ known -> Result(stored \ {p}, <<Message("UP", p)>>)
    [] action = "DOWN" /\ ~known -> Result(stored \cup {p}, <<Message("DOWN", p)>>)
    [] action = "MOVE" /\ known -> Result(stored, <<Message("MOVE", p)>>)
    [] action = "MOVE" /\ ~known /\ pressed ->
         Result(stored \cup {p}, <<Message("DOWN", p)>>)
    [] OTHER -> Result(stored, <<>>)

(* getTouch: the mode of the second pointer after a mouse event or, from   *)
(* onKey, a key event.                                                     *)
getTouch(multi, ctrl, shift) ==
  CASE ~ctrl -> "off"
    [] ctrl /\ multi = "off" /\ shift -> "shift"
    [] ctrl /\ multi = "off" /\ ~shift -> "center"
    [] OTHER -> multi

(* Where the second pointer may be when the mode was before and is after:  *)
(* mirrored at the centre it counts as inside when the first one does; a   *)
(* point set with Shift is both at first, then the two move apart.         *)
Opposite(before, after, inside) ==
  IF before = "shift" /\ after = "shift" THEN BOOLEAN ELSE {inside}

(* An UP of one pointer lifts what is left of the other.                   *)
raiseNoOthers(r) == r                                         \* mutant
raiseOthers(r) ==
  IF \E i \in DOMAIN r.messages : r.messages[i].action = "UP"
  THEN Result({}, r.messages \o SetToSeq({Message("UP", p) : p \in r.stored}))
  ELSE r

(* buildTouchEvent: a mouse event at a position that is inside the video   *)
(* or not, with the second pointer unless opposite is {}.  An invalid      *)
(* position sends nothing and keeps what is stored.                        *)
buildTouchEvent(action, inside, opposite, stored, pressed) ==
  LET One(valid, p, s) == IF valid THEN validateMessage(action, p, s, pressed)
                          ELSE Result(s, <<>>)
      first == One(inside, 0, stored)
      second == One(TRUE \in opposite, 1, first.stored)
  IN  raiseOthers(Result(second.stored, first.messages \o second.messages))
=============================================================================
