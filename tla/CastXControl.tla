---------------------------- MODULE CastXControl ----------------------------
(***************************************************************************)
(* castX in adb mode: how pages (control.js) control the phone.  A page    *)
(* sends what its pointers and buttons do over its WebSocket; the server   *)
(* has a goroutine per page that handles one message after the other, and  *)
(* all of them write to the one control connection, for the same pointer   *)
(* and the same keys.  A key is written in five pieces (SendKeyCode), the  *)
(* power of the screen in two, and nothing keeps another page's message    *)
(* from coming between them, upon which scrcpy reads nothing right any     *)
(* more.                                                                   *)
(*                                                                         *)
(* Whether a pointer was moved is the user's choice at its release; events *)
(* of a mouse and of fingers bubble as the browser lets them.  Positions   *)
(* and pressure are left out, and so are keys by number, for which no page *)
(* has a button.  The pages have logged in.                                *)
(* External: users, the browser, scrcpy, which may end and be started and  *)
(* connect anew (module ScrcpyReceiver).                                   *)
(* Bounds: MaxActs presses, moves, keys of all pages; MaxControls control  *)
(* connections.                                                            *)
(***************************************************************************)
EXTENDS Naturals, SequencesExt

CONSTANTS Page, MaxActs, MaxControls

VARIABLES
  pressed,        \* pointers that went down on the video of a page and are still down
  isPointerDown,  \* of control.js
  toServer,       \* messages on the socket of each page
  gone,           \* pages that are closed
  todo,           \* what controlCall of each page's goroutine has yet to send
  using,          \* the control connection it sends them to
  writing,        \* it has written a part of the first of these
  controlConn,    \* number of the control connection, 0 is nil
  down,           \* what the phone holds down
  garbled,        \* history: a message was written in between the pieces of another
  lost,           \* history: a page was closed before it had sent its UP, or lost messages
  acts

pageVars == <<pressed, isPointerDown, gone, lost, acts>>
serverVars == <<todo, using, writing>>
phoneVars == <<controlConn, down, garbled>>
vars == <<pageVars, toServer, serverVars, phoneVars>>

Pointer == {"mouse", "finger", "second finger"}

Init ==
  /\ pressed = [p \in Page |-> {}] /\ isPointerDown = [p \in Page |-> FALSE]
  /\ toServer = [p \in Page |-> <<>>] /\ gone = {}
  /\ todo = [p \in Page |-> <<>>] /\ using = [p \in Page |-> 0] /\ writing = {}
  /\ controlConn = 0 /\ down = {} /\ garbled = FALSE /\ lost = FALSE /\ acts = 0

-----------------------------------------------------------------------------
(* A page.                                                                 *)

(* mouseClick and keyboardClick *)
mouseClick(p, messages) == toServer' = [toServer EXCEPT ![p] = @ \o messages]

Act(p) == p \notin gone /\ acts < MaxActs /\ acts' = acts + 1

(* A finger fires pointerdown and touchstart, and panstart runs for both.  *)
panstart(p, pointer) ==
  /\ Act(p) /\ pointer \notin pressed[p]
  /\ "mouse" \in {pointer} \cup pressed[p] => pressed[p] = {}
  /\ pressed' = [pressed EXCEPT ![p] = @ \cup {pointer}]
  /\ isPointerDown' = [isPointerDown EXCEPT ![p] = TRUE]
  /\ mouseClick(p, IF pointer = "mouse" THEN <<"panstart">> ELSE <<"panstart", "panstart">>)
  /\ UNCHANGED <<gone, lost, serverVars, phoneVars>>

pointermove(p) ==
  /\ Act(p) /\ isPointerDown[p]
  /\ mouseClick(p, <<"pan">>)
  /\ UNCHANGED <<pressed, isPointerDown, gone, lost, serverVars, phoneVars>>

(* clickUp: a pointer that did not move, or that was not pressed here, has *)
(* clicked.                                                                *)
clickUp(p) ==
  /\ \E moved \in BOOLEAN : mouseClick(p, IF moved /\ isPointerDown[p] THEN <<"panend">> ELSE <<"left">>)
  /\ isPointerDown' = [isPointerDown EXCEPT ![p] = FALSE]

(* Over the video, where the browser keeps sending the events of a finger; *)
(* touchend comes when pointerup has reset isPointerDown.                  *)
pointerup(p, pointer) ==
  /\ p \notin gone /\ pointer \in pressed[p]
  /\ pressed' = [pressed EXCEPT ![p] = @ \ {pointer}]
  /\ clickUp(p)
  /\ UNCHANGED <<gone, lost, acts, serverVars, phoneVars>>

(* A mouse released elsewhere; the page with a canvas listens to the box   *)
(* around it.                                                              *)
ReleaseOutside(p) ==
  /\ p \notin gone /\ "mouse" \in pressed[p]
  /\ pressed' = [pressed EXCEPT ![p] = {}]
  /\ \/ isPointerDown[p] /\ clickUp(p)
     \/ UNCHANGED <<isPointerDown, toServer>>
  /\ UNCHANGED <<gone, lost, acts, serverVars, phoneVars>>

(* A mouse pressed elsewhere is released over the video. *)
DragIn(p) ==
  /\ Act(p) /\ pressed[p] = {}
  /\ clickUp(p)
  /\ UNCHANGED <<pressed, gone, lost, serverVars, phoneVars>>

(* The buttons, with that of sendDisplayPower. *)
keyboardClick(p) ==
  /\ Act(p) /\ pressed[p] = {}
  /\ \E code \in {"home", "back", "displayPower"} : mouseClick(p, <<code>>)
  /\ UNCHANGED <<pressed, isPointerDown, gone, lost, serverVars, phoneVars>>

(* The page is closed, or its connection is cut with what is on its way.   *)
Leave(p) ==
  /\ p \notin gone /\ gone' = gone \cup {p}
  /\ \E n \in 0..Len(toServer[p]) :
       /\ toServer' = [toServer EXCEPT ![p] = SubSeq(@, 1, n)]
       /\ lost' = (lost \/ isPointerDown[p] \/ n < Len(toServer[p]))
  /\ pressed' = [pressed EXCEPT ![p] = {}]
  /\ isPointerDown' = [isPointerDown EXCEPT ![p] = FALSE]
  /\ UNCHANGED <<acts, serverVars, phoneVars>>

-----------------------------------------------------------------------------
(* The server.  An event is an action on the pointer or on a key.          *)

Down(what) == [what |-> what, action |-> "down"]
Up(what) == [what |-> what, action |-> "up"]
Move == [what |-> "pointer", action |-> "move"]
DisplayPower == [what |-> "power", action |-> "set"]

leftDown == <<Down("pointer")>>                               \* mutant
left == <<Down("pointer"), Up("pointer")>>

(* controlCall.  The UP of "back" is that of HOME.                         *)
controlCall(message) ==
  CASE message = "left" -> left
    [] message = "panstart" -> <<Down("pointer")>>
    [] message = "pan" -> <<Move>>
    [] message = "panend" -> <<Up("pointer")>>
    [] message = "home" -> <<Down("home"), Up("home")>>
    [] message = "back" -> <<Down("back"), Up("home")>>
    [] message = "displayPower" -> <<DisplayPower>>

(* The message is dropped while there is no control connection.            *)
handleControl(p) ==
  /\ todo[p] = <<>> /\ toServer[p] # <<>>
  /\ toServer' = [toServer EXCEPT ![p] = Tail(@)]
  /\ todo' = [todo EXCEPT ![p] = IF controlConn = 0 THEN <<>> ELSE controlCall(Head(toServer[p]))]
  /\ using' = [using EXCEPT ![p] = controlConn]
  /\ UNCHANGED <<writing, pageVars, phoneVars>>

(* The goroutine of p writes to a control connection in which another one  *)
(* has not finished.  A connection that has been replaced is dead.         *)
Write(p) ==
  garbled' = (garbled \/ (using[p] = controlConn /\ \E q \in writing \ {p} : using[q] = controlConn))

Inject(p) ==
  LET e == Head(todo[p]) IN
  /\ todo' = [todo EXCEPT ![p] = Tail(@)]
  /\ down' = CASE using[p] # controlConn \/ e.action \in {"move", "set"} -> down
               [] using[p] = controlConn /\ e.action = "down" -> down \cup {e.what}
               [] using[p] = controlConn /\ e.action = "up" -> down \ {e.what}

SendKTouchEvent(p) ==
  /\ todo[p] # <<>> /\ Head(todo[p]).what = "pointer"
  /\ Inject(p) /\ Write(p)
  /\ UNCHANGED <<using, writing, controlConn, toServer, pageVars>>

(* The first of the five writes, and the last; with SendDisplayPower.      *)
SendKeyCode(p) ==
  /\ todo[p] # <<>> /\ Head(todo[p]).what # "pointer" /\ p \notin writing
  /\ writing' = writing \cup {p} /\ Write(p)
  /\ UNCHANGED <<todo, using, controlConn, down, toServer, pageVars>>

SendKeyCodeEnds(p) ==
  /\ p \in writing /\ writing' = writing \ {p}
  /\ Inject(p) /\ Write(p)
  /\ UNCHANGED <<using, controlConn, toServer, pageVars>>

(* A scrcpy has started, after the one before it ended, and connected. *)
SetControlConnectCall ==
  /\ controlConn < MaxControls /\ controlConn' = controlConn + 1
  /\ down' = {} /\ garbled' = FALSE
  /\ UNCHANGED <<pageVars, toServer, serverVars>>

Next ==
  \/ \E p \in Page :
       \/ \E pointer \in Pointer : panstart(p, pointer) \/ pointerup(p, pointer)
       \/ pointermove(p) \/ ReleaseOutside(p) \/ DragIn(p) \/ keyboardClick(p) \/ Leave(p)
       \/ handleControl(p) \/ SendKTouchEvent(p) \/ SendKeyCode(p) \/ SendKeyCodeEnds(p)
  \/ SetControlConnectCall

Spec == Init /\ [][Next]_vars

-----------------------------------------------------------------------------
(* Once everything is sent and handled, the phone does not hold the one    *)
(* pointer down that all pages and fingers share, whichever DOWN and UP    *)
(* met, nor HOME.  What may leave them down is a page that still believes  *)
(* in a pointer which was released elsewhere, a page that was closed while *)
(* it had one, and a torn message.  BACK stays down: its UP is not sent.   *)
Quiet == \A p \in Page : pressed[p] = {} /\ toServer[p] = <<>> /\ todo[p] = <<>>
AllLifted ==
  Quiet /\ ~garbled /\ ~lost /\ (\A p \in Page : ~isPointerDown[p]) => down \subseteq {"back"}
=============================================================================
