---------------------------- MODULE StreamClient ----------------------------
(***************************************************************************)
(* The pages that watch one display of an Android device                   *)
(* (StreamClientScrcpy, StreamReceiver and the state of a player).  They   *)
(* share the encoder: each asks for the video settings it wants, and the   *)
(* device tells all of them the settings and the screen there are now,     *)
(* upon which they may ask again.                                          *)
(*                                                                         *)
(* Settings are bounds and a rate, which stands for all else; a screenInfo *)
(* is the size of the video and who measured it.  The storage, the         *)
(* statistics and the drawing of pictures are left out.                    *)
(* External: the user; the device, which has a square screen, answers      *)
(* every request with an info to all pages, and sends video to those that  *)
(* have sent one, when there is no info on the way; a new stream begins    *)
(* with an SPS, which has the size.                                        *)
(* Bounds: a page connects once; MaxRequests requests of the user.         *)
(***************************************************************************)
EXTENDS Naturals, Sequences, FiniteSets

CONSTANTS
  Client,
  Window,        \* getMaxSize of each page
  Stored,        \* the settings each page starts with
  Needs,         \* pages whose player needs a screenInfo before it plays
  MaxRequests

VARIABLES
  conn,          \* readyState of the socket of each page
  events,        \* of the page: messages that wait for the socket to open
  requests,      \* on their way to the device
  inbox,         \* on their way to the page
  settings, screenInfo, state,   \* of the player
  fitToScreen, joinedStream,
  halted,        \* history: the user stopped the page, or its decoder failed
  device, joined, asked                    \* settings in use, pages that get video, requests so far

playerVars == <<settings, screenInfo, state>>
wireVars == <<conn, events, requests>>
deviceVars == <<device, joined>>
vars == <<conn, events, requests, inbox, settings, screenInfo, state,
          fitToScreen, joinedStream, halted, device, joined, asked>>

-----------------------------------------------------------------------------
None == [bounds |-> <<0, 0>>, rate |-> 0]
NoScreen == [size |-> 0, by |-> "none"]

Least(a, b) == IF a < b THEN a ELSE b
intersect(a, b) == <<Least(a[1], b[1]), Least(a[2], b[2])>>
createVideoSettingsWithBounds(old, newBounds) == [old EXCEPT !.bounds = newBounds]

(* Settings of a page that may have to fit its window. *)
Own(c, s) == IF fitToScreen[c] THEN createVideoSettingsWithBounds(s, Window[c]) ELSE s

(* Side of the video of a square screen within the bounds. *)
VideoSize(s) == Least(s.bounds[1], s.bounds[2])

Info == [settings |-> device, size |-> VideoSize(device), count |-> Cardinality(joined)]

Init ==
  /\ conn = [c \in Client |-> "new"]
  /\ events = [c \in Client |-> <<>>] /\ requests = [c \in Client |-> <<>>]
  /\ inbox = [c \in Client |-> <<>>]
  /\ settings = [c \in Client |-> None] /\ screenInfo = [c \in Client |-> NoScreen]
  /\ state = [c \in Client |-> "stopped"]
  /\ fitToScreen \in [Client -> BOOLEAN]
  /\ joinedStream = [c \in Client |-> FALSE]
  /\ halted = [c \in Client |-> FALSE]
  /\ device = None /\ joined = {} /\ asked = 0

-----------------------------------------------------------------------------
(* The page starts, and later its socket opens.                            *)

startStream(c) ==
  /\ conn[c] = "new" /\ conn' = [conn EXCEPT ![c] = "connecting"]
  /\ settings' = [settings EXCEPT ![c] = Own(c, Stored[c])]
  /\ state' = [state EXCEPT ![c] = "paused"]
  /\ UNCHANGED <<events, requests, inbox, screenInfo, fitToScreen, joinedStream,
                 halted, deviceVars, asked>>

onSocketOpen(c) ==
  /\ conn[c] = "connecting" /\ conn' = [conn EXCEPT ![c] = "open"]
  /\ requests' = [requests EXCEPT ![c] = events[c]]
  /\ events' = [events EXCEPT ![c] = <<>>]
  /\ inbox' = [inbox EXCEPT ![c] = <<Info>>]
  /\ UNCHANGED <<playerVars, fitToScreen, joinedStream, halted, deviceVars, asked>>

sendEvent(c, s) ==
  /\ requests' = IF conn[c] = "open" THEN [requests EXCEPT ![c] = Append(@, s)] ELSE requests
  /\ events' = IF conn[c] = "open" THEN events ELSE [events EXCEPT ![c] = Append(@, s)]

sendNewVideoSetting(c) ==
  /\ conn[c] \in {"connecting", "open"} /\ ~halted[c]
  /\ asked < MaxRequests /\ asked' = asked + 1
  /\ \E d \in Client : sendEvent(c, Stored[d])
  /\ UNCHANGED <<conn, inbox, playerVars, fitToScreen, joinedStream, halted, deviceVars>>

(* stop of the player and of the receiver.  A socket that is not open yet  *)
(* is not closed, and opens.  One that is closed still receives.           *)
stop(c) ==
  /\ conn[c] \in {"connecting", "open"} /\ ~halted[c]
  /\ halted' = [halted EXCEPT ![c] = TRUE]
  /\ state' = [state EXCEPT ![c] = "stopped"]
  /\ conn' = IF conn[c] = "open" THEN [conn EXCEPT ![c] = "closing"] ELSE conn
  /\ events' = [events EXCEPT ![c] = <<>>]
  /\ UNCHANGED <<requests, inbox, settings, screenInfo, fitToScreen, joinedStream,
                 deviceVars, asked>>

(* The error callback of a WebCodecs decoder. *)
DecoderError(c) ==
  /\ c \notin Needs /\ state[c] = "playing"
  /\ state' = [state EXCEPT ![c] = "stopped"] /\ halted' = [halted EXCEPT ![c] = TRUE]
  /\ UNCHANGED <<wireVars, inbox, settings, screenInfo, fitToScreen, joinedStream,
                 deviceVars, asked>>

(* The socket is closed, by the page or by the other side; the page is     *)
(* forgotten.                                                              *)
onSocketClose(c) ==
  /\ conn[c] \in {"connecting", "open", "closing"}
  /\ conn' = [conn EXCEPT ![c] = "closed"]
  /\ requests' = [requests EXCEPT ![c] = <<>>] /\ inbox' = [inbox EXCEPT ![c] = <<>>]
  /\ events' = [events EXCEPT ![c] = <<>>]
  /\ joined' = joined \ {c}
  /\ settings' = [settings EXCEPT ![c] = None] /\ screenInfo' = [screenInfo EXCEPT ![c] = NoScreen]
  /\ state' = [state EXCEPT ![c] = "stopped"]
  /\ joinedStream' = [joinedStream EXCEPT ![c] = FALSE] /\ halted' = [halted EXCEPT ![c] = FALSE]
  /\ UNCHANGED <<fitToScreen, device, asked>>

-----------------------------------------------------------------------------
(* The page receives.                                                      *)

play(c, screen) == IF c \in Needs /\ screen = NoScreen THEN "paused" ELSE "playing"
Resumed(c) == IF state[c] = "paused" THEN play(c, screenInfo[c]) ELSE state[c]

(* What a page wants of the display, whose video has the given settings    *)
(* and size: all of its own when it is alone or has smaller bounds.        *)
Wanted(c, info) ==
  LET own == Own(c, settings[c])
      b == own.bounds
      min == IF info.count = 0 \/ b[1] < info.size \/ b[2] < info.size
             THEN own ELSE info.settings
  IN  createVideoSettingsWithBounds(min, intersect(b, min.bounds))

(* Only the first info with a screen is answered. *)
AnswerOwn(c, info) == Own(c, settings[c])                     \* mutant
Answer(c, info) == IF screenInfo[c] = NoScreen THEN Wanted(c, info) ELSE info.settings

onDisplayInfo(c, info) ==
  LET screen == [size |-> info.size, by |-> "device"] IN
  IF info.settings = None
  THEN /\ settings' = [settings EXCEPT ![c] = Own(c, settings[c])]
       /\ state' = [state EXCEPT ![c] = Resumed(c)]
       /\ joinedStream' = [joinedStream EXCEPT ![c] = TRUE]
       /\ sendEvent(c, Own(c, settings[c]))
       /\ UNCHANGED screenInfo
  ELSE /\ screenInfo' = [screenInfo EXCEPT ![c] = screen]
       /\ state' = [state EXCEPT ![c] =
            IF screenInfo[c] # screen /\ c \in Needs THEN "paused" ELSE Resumed(c)]
       /\ settings' = [settings EXCEPT ![c] = info.settings]
       /\ joinedStream' = [joinedStream EXCEPT ![c] = TRUE]
       /\ IF Answer(c, info) # info.settings \/ ~joinedStream[c]
          THEN sendEvent(c, Answer(c, info)) ELSE UNCHANGED <<requests, events>>

onSocketMessage(c) ==
  /\ conn[c] \in {"open", "closing"} /\ inbox[c] # <<>>
  /\ onDisplayInfo(c, Head(inbox[c]))
  /\ inbox' = [inbox EXCEPT ![c] = Tail(@)]
  /\ UNCHANGED <<conn, fitToScreen, halted, deviceVars, asked>>

(* A unit of video.  A WebCodecs player takes the size from an SPS.        *)
onVideo(c) ==
  /\ conn[c] = "open" /\ c \in joined /\ inbox[c] = <<>>
  /\ state' = [state EXCEPT ![c] = Resumed(c)]
  /\ \/ UNCHANGED screenInfo
     \/ /\ c \notin Needs /\ Resumed(c) = "playing"
        /\ screenInfo' = [screenInfo EXCEPT ![c] = [size |-> VideoSize(device), by |-> "player"]]
  /\ UNCHANGED <<wireVars, inbox, settings, fitToScreen, joinedStream, halted, deviceVars, asked>>

-----------------------------------------------------------------------------
(* The device takes a request.                                             *)
SetVideoSettings(c) ==
  /\ requests[c] # <<>>
  /\ joined' = joined \cup {c} /\ device' = Head(requests[c])
  /\ inbox' = [d \in Client |-> IF conn[d] \in {"open", "closing"}
                                THEN Append(inbox[d], Info') ELSE inbox[d]]
  /\ requests' = [requests EXCEPT ![c] = Tail(@)]
  /\ UNCHANGED <<conn, events, playerVars, fitToScreen, joinedStream, halted, asked>>

Next == \E c \in Client :
  \/ startStream(c) \/ onSocketOpen(c) \/ onSocketClose(c)
  \/ sendNewVideoSetting(c) \/ stop(c) \/ DecoderError(c)
  \/ onSocketMessage(c) \/ onVideo(c) \/ SetVideoSettings(c)

(* What is sent arrives, the device answers, and the video goes on.        *)
Fairness == \A c \in Client :
  /\ WF_vars(onSocketMessage(c)) /\ WF_vars(SetVideoSettings(c)) /\ WF_vars(onVideo(c))

Spec == Init /\ [][Next]_vars /\ Fairness

-----------------------------------------------------------------------------
(* Pages with different windows and settings do not go on correcting each  *)
(* other: in the end every page that is connected has the settings and the *)
(* size of the video that the device uses, and plays it, unless its user   *)
(* stopped it or its decoder failed.                                       *)
Follows(c) ==
  /\ settings[c] = device
  /\ screenInfo[c].size = VideoSize(device)
  /\ state[c] = "playing" \/ halted[c]
SettingsSettle == \A c \in Client : <>[](conn[c] = "open" => Follows(c))
=============================================================================
