------------------------------ MODULE MsePlayer ------------------------------
(***************************************************************************)
(* The player that feeds a video element through a MediaSource: MsePlayer, *)
(* its converter (of h264-converter) and the source buffer, which is       *)
(* emptied of its oldest part whenever Limit blocks have been gathered, a  *)
(* block for each key frame.  While that waits for the buffer, frames are  *)
(* kept in a queue.                                                        *)
(*                                                                         *)
(* Frames are numbered as they are pushed; frames of a stream the player   *)
(* does not play are left out.  Limit and Removed are 10 and 5 in the      *)
(* code.  Jumps to the end of the buffer, statistics and sizes are left    *)
(* out; jumpToEnd is never registered.                                     *)
(* External: the converter, which appends one frame after the other, also  *)
(* after the player has stopped it; the source buffer, which finishes each *)
(* append and removal with updateend.  Once the element has another        *)
(* converter, that of the buffer replaced may come or not, and remove()    *)
(* throws there; it may throw where the buffer is empty, or where blocks   *)
(* of an earlier source are left.                                          *)
(* Bounds: MaxFrames frames, MaxStops stops.                               *)
(***************************************************************************)
EXTENDS Naturals, SequencesExt

CONSTANTS Limit, Removed, MaxFrames, MaxStops

VARIABLES
  playing,      \* the state is PLAYING
  converter,    \* the player has one
  pending,      \* frames the converter has not appended to the buffer yet
  removing,     \* the buffer removes a part
  buffered,     \* the element has data of this converter
  listening,    \* cleanSourceBuffer listens to its source buffer
  known,        \* the player's sourceBuffer is that of this converter
  late,         \* buffers replaced that were updating while it listened
  stale,        \* how many of the blocks are those of an earlier source
  waitUntilSegmentRemoved, blocks, frames,
  pushed,       \* frames so far
  appended,     \* frames handed to a converter, in this order
  stops,
  overtaken,    \* history: a key frame was appended while others were queued
  cut,          \* history: the converter was stopped while frames were held back
  left          \* history: a removal failed, or found no converter, and left the queue

bufferVars == <<converter, pending, removing, buffered, listening, known, late, stale>>
playerVars == <<playing, waitUntilSegmentRemoved, blocks, frames>>
historyVars == <<pushed, appended, stops, overtaken, cut, left>>
vars == <<bufferVars, playerVars, historyVars>>

Init ==
  /\ playing = FALSE /\ converter = FALSE
  /\ pending = 0 /\ removing = FALSE /\ buffered = FALSE /\ listening = FALSE
  /\ known = FALSE /\ late = 0 /\ stale = 0
  /\ waitUntilSegmentRemoved = FALSE /\ blocks = 0 /\ frames = <<>>
  /\ pushed = 0 /\ appended = <<>> /\ stops = 0
  /\ overtaken = FALSE /\ cut = FALSE /\ left = FALSE

(* What checkForIFrame works on; waiting is waitUntilSegmentRemoved.       *)
Fields(waiting, n) ==
  [waiting |-> waiting, blocks |-> n, listening |-> FALSE, given |-> <<>>, kept |-> <<>>]

give(r, frame) == [r EXCEPT !.given = Append(@, frame)]

checkForIFrame(r, frame) ==
  LET block == frame.key /\ buffered
      full == block /\ r.blocks + 1 > Limit
      counted == IF block THEN [r EXCEPT !.blocks = @ + 1] ELSE r
  IN  IF ~converter THEN [r EXCEPT !.kept = Append(@, frame)]
      ELSE IF full THEN give([counted EXCEPT !.waiting = TRUE, !.listening = TRUE], frame)
      ELSE IF r.waiting THEN [counted EXCEPT !.kept = Append(@, frame)]
      ELSE give(counted, frame)

(* The loop of cleanSourceBuffer: it ends with the first frame that is     *)
(* held back.                                                              *)
drainNothing(r, queue) == [r EXCEPT !.kept = queue]           \* mutant
drainFromEnd(r, queue) == FoldLeft(checkForIFrame, r, Reverse(queue))   \* mutant
drain(r, queue) ==
  LET after[i \in 0..Len(queue)] ==
        IF i = 0 THEN r
        ELSE IF after[i - 1].kept # <<>> THEN [after[i - 1] EXCEPT !.kept = Append(@, queue[i])]
        ELSE checkForIFrame(after[i - 1], queue[i])
  IN  after[Len(queue)]

Given(r) ==
  /\ appended' = appended \o [i \in DOMAIN r.given |-> r.given[i].number]
  /\ waitUntilSegmentRemoved' = r.waiting /\ blocks' = r.blocks

updating == removing \/ pending > 0

-----------------------------------------------------------------------------
(* play: a new converter gives the element a new source. *)
play ==
  /\ ~playing /\ playing' = TRUE
  /\ late' = IF listening /\ updating THEN late + 1 ELSE late
  /\ converter' = TRUE /\ pending' = 0 /\ removing' = FALSE /\ buffered' = FALSE
  /\ listening' = FALSE /\ known' = FALSE /\ stale' = blocks
  /\ UNCHANGED <<waitUntilSegmentRemoved, blocks, frames, historyVars>>

pushFrame ==
  /\ playing /\ pushed < MaxFrames /\ pushed' = pushed + 1
  /\ \E key \in BOOLEAN :
       LET frame == [number |-> pushed + 1, key |-> key]
           r == checkForIFrame(Fields(waitUntilSegmentRemoved, blocks), frame)
       IN  /\ Given(r)
           /\ pending' = pending + Len(r.given)
           /\ frames' = frames \o r.kept
           /\ listening' = (listening \/ r.listening)
           /\ overtaken' = (overtaken \/ (r.listening /\ frames # <<>>))
  /\ known' = TRUE
  /\ UNCHANGED <<playing, converter, removing, buffered, late, stale, stops, cut, left>>

(* remove() works and the queue is drained: its frames are appended when   *)
(* the removal is done.  Without a converter they stay where they are.     *)
Removal ==
  LET r == drain(Fields(FALSE, blocks - Removed), frames) IN
  /\ known
  /\ Given(r)
  /\ pending' = Len(r.given) /\ frames' = r.kept
  /\ listening' = r.listening /\ removing' = TRUE
  /\ left' = (left \/ (~converter /\ frames # <<>>))

(* remove() throws: the blocks are gone, and nobody waits for the queue.   *)
RemovalFails ==
  /\ ~known \/ ~buffered' \/ stale > 0
  /\ waitUntilSegmentRemoved' = FALSE /\ blocks' = blocks - Removed
  /\ pending' = 0 /\ listening' = FALSE /\ removing' = FALSE
  /\ left' = (left \/ frames # <<>>)
  /\ UNCHANGED <<frames, appended>>

(* cleanSourceBuffer, once the buffer is not updating. *)
cleanSourceBuffer ==
  /\ blocks >= Limit
  /\ stale' = IF stale > Removed THEN stale - Removed ELSE 0
  /\ Removal \/ RemovalFails

(* updateend of the source buffer.  The converter appends its next frame   *)
(* before cleanSourceBuffer is called, which then finds it updating.  A    *)
(* removal may leave nothing in the buffer.                                *)
updateend ==
  /\ updating
  /\ buffered' \in IF removing THEN {buffered, FALSE} ELSE {TRUE}
  /\ LET n == IF removing THEN pending ELSE pending - 1 IN
       IF listening /\ n = 0 /\ blocks >= Limit THEN cleanSourceBuffer
       ELSE /\ pending' = n /\ removing' = FALSE
            /\ UNCHANGED <<listening, stale, waitUntilSegmentRemoved, blocks, frames,
                           appended, left>>
  /\ UNCHANGED <<playing, converter, known, late, pushed, stops, overtaken, cut>>

(* updateend of a buffer that was replaced while cleanSourceBuffer         *)
(* listened to it.  It looks at the player's sourceBuffer, which may be    *)
(* updating, may not be there yet, or may be another one replaced.         *)
lateUpdateend ==
  /\ late > 0 /\ late' = late - 1
  /\ \/ /\ ~(known /\ updating) /\ buffered' = buffered /\ cleanSourceBuffer
     \/ /\ updating \/ ~known \/ ~buffered \/ blocks < Limit
        /\ UNCHANGED <<pending, removing, buffered, listening, stale,
                       waitUntilSegmentRemoved, blocks, frames, appended, left>>
  /\ UNCHANGED <<playing, converter, known, pushed, stops, overtaken, cut>>

(* pause, stop, or the stop of setVideoSettings when maxFps has changed.   *)
(* The source buffer goes on with what the converter has.                  *)
stop ==
  /\ playing /\ playing' = FALSE
  /\ stops < MaxStops /\ stops' = stops + 1
  /\ converter' = FALSE
  /\ cut' = (cut \/ waitUntilSegmentRemoved)
  /\ UNCHANGED <<pending, removing, buffered, listening, known, late, stale,
                 waitUntilSegmentRemoved, blocks, frames, pushed, appended, overtaken, left>>

Next == play \/ pushFrame \/ updateend \/ lateUpdateend \/ stop

(* Frames may stop coming; the source buffer in use goes on, one that was  *)
(* replaced need not.                                                      *)
Fairness == WF_vars(updateend)

Spec == Init /\ [][Next]_vars /\ Fairness

-----------------------------------------------------------------------------
(* Frames reach the decoder in the order in which they came, whichever     *)
(* were held back, drained in part and left over by a converter that was   *)
(* stopped.  Two cases put them out of order: a key frame appended while   *)
(* others were queued, and a removal that failed, or that ended without a  *)
(* converter, and left the queue to nobody (left), so that the frames      *)
(* after it overtake it.                                                   *)
FramesInOrder ==
  ~overtaken /\ ~left => \A i \in 1..(Len(appended) - 1) : appended[i] < appended[i + 1]

(* What is held back is shown in the end.  Otherwise the player is         *)
(* stopped; or it was stopped while it held frames back (cut), when        *)
(* waitUntilSegmentRemoved is not reset and the next converter may wait    *)
(* for an updateend that never comes; or a removal after a stop left the   *)
(* queue (left), which only another removal drains.                        *)
VideoGoesOn == frames # <<>> ~> frames = <<>> \/ ~playing \/ cut \/ left
=============================================================================
