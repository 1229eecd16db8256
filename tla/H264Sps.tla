------------------------------ MODULE H264Sps ------------------------------
(***************************************************************************)
(* castX takes the size of the phone's screen from the sequence parameter  *)
(* sets of its video: handleVideo parses each (ParseSPS, a bit reader and  *)
(* the Exp-Golomb codes) and, connected by adb, tells all pages when the   *)
(* width has changed.                                                      *)
(*                                                                         *)
(* A parameter set is a record; Encode writes it as H.264 (7.3.2.1.1) asks,*)
(* from seq_parameter_set_id on, as a sequence of bits.  Before it come    *)
(* four bytes: the header of the NAL unit, profile_idc, flags and level,   *)
(* of which only nal_ref_idc and whether the profile is a high one matter. *)
(* The VUI, which comes after all that is used, is left out, and so are    *)
(* the aspect ratio that is read (nobody uses it) and emulation prevention *)
(* bytes, which the reader does not take out.                              *)
(* External: H.264.                                                        *)
(* Bound: the sets in Sps, macroblocks are Mb pixels wide and high.        *)
(***************************************************************************)
EXTENDS Integers, SequencesExt

CONSTANTS Sps, Mb

VARIABLES
  sps,       \* the last parameter set
  screen,    \* ScreenWidth and ScreenHeight of Config
  sameWidth  \* the last set had the width that was known

vars == <<sps, screen, sameWidth>>

-----------------------------------------------------------------------------
(* H.264.                                                                  *)

(* The binary digits of n + 1, behind a 0 for each but the first.          *)
UE(n) ==
  LET digits[m \in 1..(n + 1)] ==
        IF m = 1 THEN <<1>> ELSE Append(digits[m \div 2], m % 2)
  IN  [i \in 1..(Len(digits[n + 1]) - 1) |-> 0] \o digits[n + 1]
SE(n) == UE(IF n > 0 THEN 2 * n - 1 ELSE -2 * n)

Zeros(n) == [i \in 1..n |-> 0]

(* A flag for each scaling list.  "default": the first list is present, and*)
(* says with a delta of -8 that the default one is used.                   *)
Lists(s) == IF s.chroma = 3 THEN 12 ELSE 8
EncodedScaling(s) ==
  CASE s.scaling = "none" -> <<0>>
    [] s.scaling = "flat" -> <<1>> \o Zeros(Lists(s))
    [] s.scaling = "default" -> <<1, 1>> \o SE(-8) \o Zeros(Lists(s) - 1)

EncodedOrder(s) ==
  CASE s.order = 0 -> UE(0) \o UE(4)
    [] s.order = 1 -> UE(1) \o <<0>> \o SE(s.offset) \o SE(0) \o UE(2) \o SE(s.offset) \o SE(-1)
    [] s.order = 2 -> UE(2)

EncodedHigh(s) ==
  IF ~s.high THEN <<>>
  ELSE UE(s.chroma) \o (IF s.chroma = 3 THEN <<0>> ELSE <<>>) \o UE(0) \o UE(0) \o <<0>>
       \o EncodedScaling(s)

EncodedCrop(s) ==
  IF s.crop = 0 THEN <<0>> ELSE <<1>> \o UE(0) \o UE(0) \o UE(0) \o UE(s.crop)

Data(s) ==
  UE(0) \o EncodedHigh(s) \o UE(0) \o EncodedOrder(s) \o UE(1) \o <<0>>
  \o UE(s.width - 1) \o UE(s.height - 1) \o <<s.frames>>
  \o (IF s.frames = 0 THEN <<0>> ELSE <<>>) \o <<1>> \o EncodedCrop(s)

(* No VUI, the bit at the end, and zeros up to the next byte. *)
Trailer(n) == <<0, 1>> \o Zeros((8 - ((n + 2) % 8)) % 8)
Encode(s) == Data(s) \o Trailer(Len(Data(s)))
FirstByte(s) == 32 * s.ref + 7

(* The size of the coded pictures; of what is shown, without what is cut   *)
(* off at the bottom: two lines a unit, four of fields (4:2:0).            *)
CodedSize(s) == <<Mb * s.width, Mb * s.height * (2 - s.frames)>>
ShownSize(s) == <<CodedSize(s)[1], CodedSize(s)[2] - 2 * (2 - s.frames) * s.crop>>

-----------------------------------------------------------------------------
(* BitReader.  Bits that are not there are read as 0, since nobody looks   *)
(* at the errors.                                                          *)
Bits(bits, p, q) ==
  LET v[i \in (p - 1)..q] == IF i < p THEN 0 ELSE 2 * v[i - 1] + bits[i]
  IN  v[q]
End(bits) == [value |-> 0, next |-> Len(bits) + 1]

ReadBit(bits, p) ==
  IF p > Len(bits) THEN End(bits) ELSE [value |-> bits[p], next |-> p + 1]

ReadExpGolomb(bits, p) ==
  LET ones == {i \in p..Len(bits) : bits[i] = 1} IN
  IF ones = {} THEN End(bits)
  ELSE LET one == CHOOSE i \in ones : \A j \in ones : i <= j
           last == one + (one - p)
       IN  IF last > Len(bits) THEN End(bits)
           ELSE [value |-> Bits(bits, one, last) - 1, next |-> last + 1]

ReadSignedExpGolomb(bits, p) ==
  LET r == ReadExpGolomb(bits, p) IN
  [r EXCEPT !.value = IF p > Len(bits) THEN 0
                      ELSE IF @ % 2 = 0 THEN -(@ \div 2) - 1 ELSE (@ + 1) \div 2]

SkipBit(bits, p) == ReadBit(bits, p).next
SkipCode(bits, p) == ReadExpGolomb(bits, p).next

(* nextScale depends on the last one: 8 of the 16 or 64 deltas of a list   *)
(* are read.                                                               *)
skipScalingList(bits, p) ==
  FoldLeft(LAMBDA r, j :
             IF r.nextScale = 0 THEN r
             ELSE LET delta == ReadSignedExpGolomb(bits, r.next)
                      scale == (r.lastScale + delta.value + 256) % 256
                  IN  [next |-> delta.next, nextScale |-> scale,
                       lastScale |-> IF scale = 0 THEN r.lastScale ELSE scale],
           [next |-> p, lastScale |-> 8, nextScale |-> 8], [j \in 1..8 |-> j]).next

skipScalingLists(bits, p) ==
  LET after[i \in 0..8] ==
        IF i = 0 THEN p
        ELSE LET flag == ReadBit(bits, after[i - 1])
             IN  IF flag.value = 1 THEN skipScalingList(bits, flag.next) ELSE flag.next
  IN  after[8]

(* The fields of a high profile, and those of pic_order_cnt_type.          *)
skipHigh(bits, p) ==
  LET chromaFormat == ReadExpGolomb(bits, p)
      depths == IF chromaFormat.value = 3 THEN SkipBit(bits, chromaFormat.next)
                ELSE chromaFormat.next
      scalingPresent == ReadBit(bits, SkipBit(bits, SkipCode(bits, SkipCode(bits, depths))))
  IN  IF scalingPresent.value = 1 THEN skipScalingLists(bits, scalingPresent.next)
      ELSE scalingPresent.next

offsetsButOne(count) == IF count = 0 THEN 0 ELSE count - 1    \* mutant
offsets(count) == count

skipOrder(bits, p) ==
  LET pocType == ReadExpGolomb(bits, p)
      count == ReadExpGolomb(bits, SkipCode(bits, SkipCode(bits, SkipBit(bits, pocType.next))))
      after[i \in 0..offsets(count.value)] ==
        IF i = 0 THEN count.next ELSE SkipCode(bits, after[i - 1])
  IN  CASE pocType.value = 0 -> SkipCode(bits, pocType.next)
        [] pocType.value = 1 -> after[offsets(count.value)]
        [] OTHER -> pocType.next

(* What is shorter than eight bytes or begins with another byte is refused *)
(* with an empty size; handleVideo does not look at the error.             *)
Refused(first, bits) == 4 + Len(bits) \div 8 < 8 \/ first \notin {103, 39}

ParseSize(high, bits) ==
  LET id == SkipCode(bits, 1)
      frameNum == IF high THEN skipHigh(bits, id) ELSE id
      order == skipOrder(bits, SkipCode(bits, frameNum))
      width == ReadExpGolomb(bits, SkipBit(bits, SkipCode(bits, order)))
      height == ReadExpGolomb(bits, width.next)
      frameMbsOnly == ReadBit(bits, height.next)
  IN  <<(width.value + 1) * Mb,
        (height.value + 1) * Mb * (IF frameMbsOnly.value = 0 THEN 2 ELSE 1)>>

ParseSPS(first, high, bits) ==
  IF Refused(first, bits) THEN <<0, 0>> ELSE ParseSize(high, bits)

-----------------------------------------------------------------------------
None == [high |-> FALSE]
Init == sps = None /\ screen = <<0, 0>> /\ sameWidth = FALSE

(* handleVideo, for a packet with parameter sets, with UpdateConfig.       *)
handleVideo ==
  \E s \in Sps :
    LET size == ParseSPS(FirstByte(s), s.high, Encode(s)) IN
    /\ sps' = s
    /\ sameWidth' = (size[1] = screen[1])
    /\ screen' = IF size[1] # screen[1] THEN size ELSE screen

Next == handleVideo
Spec == Init /\ [][Next]_vars

-----------------------------------------------------------------------------
(* What pages are told is the size of the coded pictures, whichever parts  *)
(* of a parameter set are there, but for a height that changes without the *)
(* width and for sets that are not read right: with a scaling list, or     *)
(* with flags for the twelve lists of chroma_format_idc 3, of which eight  *)
(* are read; of less than eight bytes, or with nal_ref_idc 2 in the first, *)
(* for which pages are told a size of 0.                                   *)
ReadRight(s) ==
  /\ s.high => s.scaling = "none" \/ (s.scaling = "flat" /\ s.chroma # 3)
  /\ s.ref \in {1, 3} /\ Len(Encode(s)) >= 8 * 4
Read == sps # None /\ ReadRight(sps)
SizeIsRead ==
  Read => /\ screen[1] = CodedSize(sps)[1]
          /\ screen[2] = CodedSize(sps)[2] \/ sameWidth

(* The comments of ParseSPS and SPSInfo: the size is parsed exactly, in    *)
(* pixels.                                                                 *)
SizeIsExact == Read => screen = ShownSize(sps) \/ sameWidth
=============================================================================
