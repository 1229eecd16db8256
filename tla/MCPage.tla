------------------------------- MODULE MCPage -------------------------------
(***************************************************************************)
(* Parts of a page, checked side by side in one run.  They share nothing   *)
(* but the page, so a behaviour runs one of them and leaves the others in  *)
(* their initial state, where their fairness asks for nothing:             *)
(*   "stream"  the pages that watch a display (StreamClient);              *)
(*   "touch"   touch and mouse on Android (FeaturedInteractionHandler);    *)
(*   "gesture" the mouse on iOS (SimpleInteractionHandler);                *)
(*   "listing" the list of files (FileListing).                            *)
(***************************************************************************)
EXTENDS FileListing

CONSTANTS Finger, MaxPresses, Client, Window, Stored, Needs, MaxRequests

ASSUME FingerAssumption == IsFiniteSet(Finger)

VARIABLES part,
          listening, fingers, ids, storedTouch, mouse, buttons, multi, storedMouse,
          held, confused, strayed,
          screenKnown, pressed, second, storage, startPosition, endPosition,
          press, clean, meddled, performed,
          conn, events, requests, inbox, settings, screenInfo, state, fitToScreen,
          joinedStream, halted, device, joined, asked

touchVars == <<listening, fingers, ids, storedTouch, mouse, buttons, multi, storedMouse,
               held, confused, strayed>>
gestureVars == <<screenKnown, pressed, second, storage, startPosition, endPosition,
                 press, clean, meddled, performed>>
streamVars == <<conn, events, requests, inbox, settings, screenInfo, state, fitToScreen,
                joinedStream, halted, device, joined, asked>>

(* Two windows, neither of which fits into the other. *)
MCWindow == <<<<1, 2>>, <<2, 1>>>>
MCStored == <<[bounds |-> <<1, 2>>, rate |-> 1], [bounds |-> <<2, 2>>, rate |-> 2]>>

(* A directory with a file and a link, which lists as an empty directory.  *)
MCChild == [top |-> {"l", "f"}, l |-> {}]
MCParent == [p \in {"top", "l", "f", "nowhere"} |-> "top"]

Touch == INSTANCE FeaturedInteractionHandler
Gesture == INSTANCE SimpleInteractionHandler
             WITH screenInfo <- screenKnown, buttons <- pressed, multi <- second
Stream == INSTANCE StreamClient

MCInit ==
  /\ part \in {"stream", "touch", "gesture", "listing"}
  /\ Init /\ Touch!Init /\ Gesture!Init /\ Stream!Init
  /\ part # "stream" => fitToScreen = [c \in Client |-> FALSE]
  /\ part # "listing" => path = tempPath

MCNext ==
  /\ UNCHANGED part
  /\ \/ part = "stream" /\ Stream!Next /\ UNCHANGED <<touchVars, gestureVars, vars>>
     \/ part = "touch" /\ Touch!Next /\ UNCHANGED <<streamVars, gestureVars, vars>>
     \/ part = "gesture" /\ Gesture!Next /\ UNCHANGED <<streamVars, touchVars, vars>>
     \/ part = "listing" /\ Next /\ UNCHANGED <<streamVars, touchVars, gestureVars>>

MCSpec ==
  /\ MCInit /\ [][MCNext]_<<part, vars, touchVars, gestureVars, streamVars>>
  /\ Fairness /\ Stream!Fairness

-----------------------------------------------------------------------------
(* FingersFollow of FeaturedInteractionHandler: what the device holds down *)
(* is what fingers and the mouse do.                                       *)
FingersFollow == Touch!FingersFollow

(* GesturesAreOwn of SimpleInteractionHandler: a gesture is between two    *)
(* positions of one press.                                                 *)
GesturesAreOwn == Gesture!GesturesAreOwn

(* SettingsSettle of StreamClient: pages that share the settings of one    *)
(* display agree in the end, and stop asking.                              *)
SettingsSettle == Stream!SettingsSettle
=============================================================================
