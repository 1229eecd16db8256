---------------------- MODULE SimpleInteractionHandler ----------------------
(***************************************************************************)
(* The handler of the mouse over the screen of an iOS device: it collects  *)
(* a gesture from the press to the release and asks WebDriverAgent for a   *)
(* click or a scroll between the two positions.                            *)
(*                                                                         *)
(* External: the mouse.  A press is that of a first button; positions are  *)
(* named by the press in which they were taken, 0 is undefined.            *)
(* Bound: MaxPresses presses.                                              *)
(***************************************************************************)
EXTENDS InteractionHandler

CONSTANT MaxPresses

VARIABLES
  screenInfo,     \* the player knows the size of the screen
  buttons,        \* mouse buttons pressed
  multi,          \* multiTouchActive and multiTouchShift
  storage,        \* pointers with a DOWN
  startPosition, endPosition,
  press,          \* presses so far
  clean,          \* history: a press of one button began inside with an empty storage,
                  \* and went on without Ctrl and without another button
  meddled,        \* history: Ctrl was held since nothing of a gesture was kept
  performed       \* the press in which the gesture of the last event began

vars == <<screenInfo, buttons, multi, storage, startPosition, endPosition,
          press, clean, meddled, performed>>

MaxButtons == 2

Init ==
  /\ screenInfo = FALSE
  /\ buttons = 0 /\ multi = "off" /\ storage = {}
  /\ startPosition = 0 /\ endPosition = 0
  /\ press = 0 /\ clean = FALSE /\ meddled = FALSE /\ performed = 0

-----------------------------------------------------------------------------
(* A single message moves the gesture on.                                  *)
start(action, n) == IF n = 1 /\ action = "DOWN" THEN press' ELSE startPosition
end(action, n) ==
  IF n = 1 /\ action # "DOWN" /\ startPosition # 0 THEN press' ELSE endPosition

(* The end of onInteraction; a click or a scroll is asked for first.       *)
finishNoReset(action, n) ==                                   \* mutant
  /\ performed' = IF action = "UP" /\ n = 1 /\ end(action, n) # 0
                  THEN start(action, n) ELSE 0
  /\ startPosition' = start(action, n)
  /\ endPosition' = end(action, n)
finish(action, n) ==
  LET ends == action = "UP" IN
  /\ performed' = IF ends /\ n = 1 /\ end(action, n) # 0 THEN start(action, n) ELSE 0
  /\ startPosition' = IF ends THEN 0 ELSE start(action, n)
  /\ endPosition' = IF ends THEN 0 ELSE end(action, n)

(* An event of the tag.  More than one message ends it with a return, also *)
(* when a button was released.                                             *)
onTag(action, inside) ==
  \E ctrl, shift \in BOOLEAN :
    /\ multi' = getTouch(multi, ctrl, shift)
    /\ \E second \in Opposite(multi, multi', inside) :
         LET r == buildTouchEvent(action, inside, {second} \cap {ctrl}, storage, buttons' > 0)
             n == Len(r.messages)
         IN  /\ storage' = r.stored
             /\ IF n > 1
                THEN performed' = 0 /\ UNCHANGED <<startPosition, endPosition>>
                ELSE finish(action, n)
    /\ clean' = (~ctrl /\ buttons' < 2 /\ IF action = "DOWN" /\ press' # press
                          THEN inside /\ storage = {} ELSE clean)
    /\ meddled' = (ctrl \/ (meddled /\ (startPosition # 0 \/ 1 \in storage)))

(* An event of another element; nothing is stored, and nothing lifted.     *)
offTag(action) ==
  /\ finish(action, 0)
  /\ clean' = (clean /\ action = "MOVE")
  /\ UNCHANGED <<multi, storage, meddled>>

onInteraction(action) ==
  \/ screenInfo /\ \E inside \in BOOLEAN : onTag(action, inside)
  \/ /\ ~screenInfo
     /\ UNCHANGED <<multi, storage, startPosition, endPosition, clean, meddled, performed>>
  \/ offTag(action)

MouseDown ==
  /\ buttons < MaxButtons /\ buttons' = buttons + 1
  /\ press' = IF buttons = 0 THEN press + 1 ELSE press
  /\ press' <= MaxPresses
  /\ onInteraction("DOWN")
  /\ UNCHANGED screenInfo

MouseUp ==
  /\ buttons > 0 /\ buttons' = buttons - 1
  /\ UNCHANGED <<screenInfo, press>>
  /\ onInteraction("UP")

MouseMove ==
  /\ UNCHANGED <<screenInfo, buttons, press>>
  /\ onInteraction("MOVE")

SetScreenInfo ==
  /\ ~screenInfo /\ screenInfo' = TRUE
  /\ UNCHANGED <<buttons, multi, storage, startPosition, endPosition, press, clean, meddled, performed>>

Next == MouseDown \/ MouseUp \/ MouseMove \/ SetScreenInfo

Spec == Init /\ [][Next]_vars

-----------------------------------------------------------------------------
(* A click or scroll is between two positions of one press, unless Ctrl    *)
(* was held meanwhile (the positions of an event with two messages are     *)
(* kept for a later press).  A press and release over the video without    *)
(* Ctrl or a second button are performed, if no pointer was left in        *)
(* storage by a release elsewhere: then the press is taken for a repeated  *)
(* DOWN.                                                                   *)
GesturesAreOwn ==
  /\ [](performed \in {0, press} \/ meddled)
  /\ [][buttons = 1 /\ buttons' = 0 /\ clean /\ storage # storage' => performed' = press]_vars
=============================================================================
