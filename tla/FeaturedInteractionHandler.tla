--------------------- MODULE FeaturedInteractionHandler ---------------------
(***************************************************************************)
(* The handler of mouse and touch events over the screen of an Android     *)
(* device, and what the device holds down as a consequence.                *)
(*                                                                         *)
(* External: the user's fingers and mouse.  The browser gives a touch the  *)
(* target it began on.  A touch event with several changedTouches does     *)
(* what an event for each of them does, so that events carry one touch.    *)
(* It may list touches of other targets, which handles no message but maps *)
(* their identifiers (Carried).                                            *)
(* Wheel events are left out: they touch neither storage nor pointers, and *)
(* a new position of a pointer is a MOVE like any other.                   *)
(* Mouse and touch number their pointers independently of each other, and  *)
(* the device does not tell them apart; held keeps them apart, which means *)
(* that a user has one of the two in use at a time.                        *)
(***************************************************************************)
EXTENDS InteractionHandler, FiniteSetsExt

CONSTANT Finger   \* the identifiers the browser gives to touches

VARIABLES
  listening,    \* "no" while the player has no screenInfo, "yes", "released"
  fingers,      \* target of the touch with each identifier: "none", "tag", "other"
  ids,          \* idToPointerMap; pointerToIdMap is its inverse
  storedTouch,  \* storedFromTouchEvent
  mouse,        \* "out" of the tag, "over" it, or over it with a lastPosition
  buttons,      \* mouse buttons pressed
  multi,        \* multiTouchActive and multiTouchShift
  storedMouse,  \* storedFromMouseEvent
  held,         \* pointers the device holds down, from the touch and the mouse
  confused,     \* the device was sent what does not fit them
  strayed       \* see Strays

touchVars == <<fingers, ids, storedTouch>>
mouseVars == <<mouse, buttons, multi, storedMouse, strayed>>
vars == <<listening, touchVars, mouseVars, held, confused>>

Pointer == 0..Cardinality(Finger)
MaxButtons == 2

Init ==
  /\ listening = "no"
  /\ fingers = [f \in Finger |-> "none"]
  /\ ids = [f \in {} |-> 0]
  /\ storedTouch = {} /\ storedMouse = {}
  /\ mouse = "out" /\ buttons = 0 /\ multi = "off" /\ strayed = FALSE
  /\ held = [source \in {"touch", "mouse"} |-> {}]
  /\ confused = FALSE

-----------------------------------------------------------------------------
(* The device: DOWN only for a pointer that is up, MOVE and UP only for    *)
(* one that is down.                                                       *)
Fits(down, m) == (m.action = "DOWN") # (m.pointer \in down)
Hold(down, m) ==
  CASE m.action = "DOWN" -> down \cup {m.pointer}
    [] m.action = "UP" -> down \ {m.pointer}
    [] OTHER -> down

sendMessages(source, messages) ==
  LET down[i \in 0..Len(messages)] ==
        IF i = 0 THEN held[source] ELSE Hold(down[i - 1], messages[i])
  IN  /\ held' = [held EXCEPT ![source] = down[Len(messages)]]
      /\ confused' = (confused \/ \E i \in DOMAIN messages : ~Fits(down[i - 1], messages[i]))

(* player.setScreenInfo *)
SetScreenInfo ==
  /\ listening = "no" /\ listening' = "yes"
  /\ UNCHANGED <<touchVars, mouseVars, held, confused>>

(* The stream ends.  What is held is forgotten, but not lifted.            *)
release ==
  /\ listening # "released" /\ listening' = "released"
  /\ storedMouse' = {}
  /\ UNCHANGED <<touchVars, mouse, buttons, multi, strayed, held, confused>>

-----------------------------------------------------------------------------
(* Touches.                                                                *)

FreePointer == Min({p \in Pointer : \A f \in DOMAIN ids : ids[f] # p})
PointerOf(f) == IF f \in DOMAIN ids THEN ids[f] ELSE FreePointer

(* An identifier that is not known is mapped also when its touch ends.     *)
getPointerId(action, f) ==
  ids' = IF f \in DOMAIN ids /\ action = "UP"
         THEN [g \in DOMAIN ids \ {f} |-> ids[g]]
         ELSE [g \in DOMAIN ids \cup {f} |-> IF g = f THEN PointerOf(f) ELSE ids[g]]

(* A touch that leaves the video is lifted, and begins anew when it is     *)
(* back.                                                                   *)
liftOutside(p) ==
  Result(storedTouch \ {p}, IF p \in storedTouch THEN <<Message("UP", p)>> ELSE <<>>)

(* onInteraction and formatTouchEvent for a touch of the tag.              *)
formatTouchEvent(action, f, inside) ==
  /\ IF listening = "yes"
     THEN LET r == IF inside THEN validateMessage(action, PointerOf(f), storedTouch, TRUE)
                   ELSE liftOutside(PointerOf(f))
          IN  /\ getPointerId(action, f)
              /\ storedTouch' = r.stored
              /\ sendMessages("touch", r.messages)
     ELSE UNCHANGED <<ids, storedTouch, held, confused>>
  /\ UNCHANGED <<listening, mouseVars>>

TouchStart(f) ==
  /\ fingers[f] = "none"
  /\ \/ /\ fingers' = [fingers EXCEPT ![f] = "tag"]
        /\ \E inside \in BOOLEAN : formatTouchEvent("DOWN", f, inside)
     \/ /\ fingers' = [fingers EXCEPT ![f] = "other"]
        /\ UNCHANGED <<listening, ids, storedTouch, mouseVars, held, confused>>

TouchMove(f) ==
  /\ fingers[f] = "tag"
  /\ \E inside \in BOOLEAN : formatTouchEvent("MOVE", f, inside)
  /\ UNCHANGED fingers

(* touchend and touchcancel *)
TouchEnd(f) ==
  /\ fingers[f] # "none"
  /\ fingers' = [fingers EXCEPT ![f] = "none"]
  /\ \/ /\ fingers[f] = "tag"
        /\ \E inside \in BOOLEAN : formatTouchEvent("UP", f, inside)
     \/ /\ fingers[f] = "other"
        /\ UNCHANGED <<listening, ids, storedTouch, mouseVars, held, confused>>

(* A touch of another target, listed in an event of the tag.               *)
Carried(f) ==
  /\ listening = "yes" /\ fingers[f] = "other" /\ \E g \in Finger : fingers[g] = "tag"
  /\ \E action \in {"DOWN", "MOVE"} : getPointerId(action, f)
  /\ UNCHANGED <<listening, fingers, storedTouch, mouseVars, held, confused>>

-----------------------------------------------------------------------------
(* The mouse.                                                              *)

(* History: the button was released outside the video, or the second       *)
(* pointer went down while the first one was outside.                      *)
Strays(action, inside, ctrl, b) ==
  /\ ~inside
  /\ \/ action = "UP" /\ b = 0
     \/ ctrl /\ (action = "UP" \/ b > 0)

(* onInteraction for an event of the tag with the buttons b.               *)
onInteraction(action, inside, b) ==
  \/ /\ listening = "yes"
     /\ mouse' = "seen"
     /\ \E ctrl, shift \in BOOLEAN :
          /\ multi' = getTouch(multi, ctrl, shift)
          /\ \E second \in Opposite(multi, multi', inside) :
               LET r == buildTouchEvent(action, inside, {second} \cap {ctrl}, storedMouse, b > 0)
               IN  /\ storedMouse' = r.stored
                   /\ sendMessages("mouse", r.messages)
                   /\ strayed' = (r.stored # {} /\ (strayed \/ Strays(action, inside, ctrl, b)))
  \/ /\ listening # "yes"
     /\ UNCHANGED <<mouse, multi, storedMouse, held, confused, strayed>>

MouseDown ==
  /\ buttons < MaxButtons /\ buttons' = buttons + 1
  /\ IF mouse = "out" THEN UNCHANGED <<mouse, multi, storedMouse, held, confused, strayed>>
     ELSE \E inside \in BOOLEAN : onInteraction("DOWN", inside, buttons')
  /\ UNCHANGED <<listening, touchVars>>

MouseUp ==
  /\ buttons > 0 /\ buttons' = buttons - 1
  /\ IF mouse = "out" THEN UNCHANGED <<mouse, multi, storedMouse, held, confused, strayed>>
     ELSE \E inside \in BOOLEAN : onInteraction("UP", inside, buttons')
  /\ UNCHANGED <<listening, touchVars>>

MouseMove ==
  /\ mouse # "out"
  /\ \E inside \in BOOLEAN : onInteraction("MOVE", inside, buttons)
  /\ UNCHANGED <<listening, touchVars, buttons>>

onMouseEnter ==
  /\ listening # "released" /\ mouse = "out" /\ mouse' = "over"
  /\ UNCHANGED <<listening, touchVars, buttons, multi, storedMouse, strayed, held, confused>>

onMouseLeave ==
  /\ listening # "released" /\ mouse # "out" /\ mouse' = "out"
  /\ storedMouse' = {} /\ strayed' = FALSE
  /\ sendMessages("mouse", SetToSeq({Message("UP", p) : p \in storedMouse}))
  /\ UNCHANGED <<listening, touchVars, buttons, multi>>

(* A key at the last position of the mouse, to draw the second pointer:    *)
(* it works on a storage of its own.                                       *)
onKey ==
  /\ mouse = "seen" /\ listening = "yes"
  /\ \E ctrl, shift \in BOOLEAN : multi' = getTouch(multi, ctrl, shift)
  /\ UNCHANGED <<listening, touchVars, mouse, buttons, storedMouse, strayed, held, confused>>

Next ==
  \/ SetScreenInfo \/ release
  \/ \E f \in Finger : TouchStart(f) \/ TouchMove(f) \/ TouchEnd(f) \/ Carried(f)
  \/ MouseDown \/ MouseUp \/ MouseMove \/ onMouseEnter \/ onMouseLeave \/ onKey

Spec == Init /\ [][Next]_vars

-----------------------------------------------------------------------------
(* What the device holds down belongs to a finger that is on the screen or *)
(* to a mouse that is over it with a button pressed, one pointer for each  *)
(* finger, and it is never sent a DOWN for what is down, nor a MOVE or an  *)
(* UP for what is not: whatever leaves the video or the element, begins    *)
(* elsewhere, or lets Ctrl go between the DOWN and the UP.                 *)
(* The exceptions are what Strays names: buildTouchEvent ignores a button  *)
(* released over the element but outside the video, and lifts the second   *)
(* pointer only when it lifts the first.  A handler that is released lifts *)
(* nothing.                                                                *)
FingersFollow ==
  listening # "released" =>
  /\ ~confused
  /\ held.touch \subseteq {ids[f] : f \in {g \in DOMAIN ids : fingers[g] = "tag"}}
  /\ \A f, g \in DOMAIN ids : ids[f] = ids[g] => f = g
  /\ held.mouse # {} => mouse # "out" /\ (buttons > 0 \/ strayed)
=============================================================================
