---------------------------- MODULE MemoryWriter ----------------------------
(***************************************************************************)
(* MemoryWriter of castX: ffmpeg writes an H.264 stream in chunks of any   *)
(* size, and a goroutine cuts it at the start codes 00 00 00 01 and hands  *)
(* the pieces to WebRTC.  The lock is held by Write, by the search for a   *)
(* code and by the cut, but not from the search to the cut.                *)
(*                                                                         *)
(* Bounds: MaxBytes bytes in chunks of at most MaxChunk; a byte is 0, 1 or *)
(* 2, which stands for any other.                                          *)
(***************************************************************************)
EXTENDS Integers, SequencesExt

CONSTANTS MaxBytes, MaxChunk

VARIABLES
  buffer,  \* MemoryWriter.buffer
  found,   \* what findStartCode returned, counted from 0; -2 before it is called
  sent,    \* the pieces given to SendWebrtc
  written  \* history: all the bytes written

vars == <<buffer, found, sent, written>>

Byte == 0..2
StartCode == <<0, 0, 0, 1>>
Chunk == UNION {[1..n -> Byte] : n \in 1..MaxChunk}

(* The places of the start codes in s, counted from 1.                     *)
Codes(s) == {i \in 1..(Len(s) - 3) : SubSeq(s, i, i + 3) = StartCode}

Init == buffer = <<>> /\ found = -2 /\ sent = <<>> /\ written = <<>>

Write(p) ==
  /\ Len(written) + Len(p) <= MaxBytes
  /\ buffer' = buffer \o p
  /\ written' = written \o p
  /\ UNCHANGED <<found, sent>>

(* findStartCode: bytes.Index.                                             *)
FindStartCode ==
  /\ found = -2
  /\ \E i \in Codes(buffer) \cup {0} :
       /\ \A j \in Codes(buffer) : i # 0 /\ i <= j
       /\ found' = i - 1
  /\ UNCHANGED <<buffer, sent, written>>

updata1(i) == SubSeq(buffer, i, Len(buffer))                  \* mutant
updata(i) == SubSeq(buffer, i + 1, Len(buffer))

(* processBuffer and toWebrtc after the search: sleep, skip a code at the  *)
(* front, or cut the piece in front of the code and send it.               *)
ProcessBuffer ==
  /\ found # -2
  /\ \/ found = -1 /\ UNCHANGED <<buffer, sent>>
     \/ found = 0 /\ buffer' = updata(4) /\ UNCHANGED sent
     \/ /\ found > 0
        /\ buffer' = updata(found)
        /\ sent' = Append(sent, SubSeq(buffer, 1, found))
  /\ found' = -2
  /\ UNCHANGED written

Next == (\E p \in Chunk : Write(p)) \/ FindStartCode \/ ProcessBuffer

Spec == Init /\ [][Next]_vars

-----------------------------------------------------------------------------
(* The piece of what was written that the code at e ends: from behind the  *)
(* code before it, or from the beginning.                                  *)
Piece(e) ==
  LET starts == {1} \cup {i + 4 : i \in {j \in Codes(written) : j < e}}
  IN  SubSeq(written, CHOOSE s \in starts : \A t \in starts : t <= s, e - 1)

(* The codes that end a piece, which may not be empty, and the number of   *)
(* that piece.                                                             *)
Ends == {e \in Codes(written) : Piece(e) # <<>>}
Number(e) == Cardinality({d \in Ends : d <= e})

(* However the stream is cut into chunks, the pieces sent are those between*)
(* its start codes, each once and in order; and once no code is left in the*)
(* buffer, all of them.                                                    *)
NalsAreExact ==
  /\ Len(sent) <= Cardinality(Ends)
  /\ \A e \in Ends : Number(e) <= Len(sent) => sent[Number(e)] = Piece(e)
  /\ Codes(buffer) = {} => Len(sent) = Cardinality(Ends)
=============================================================================
