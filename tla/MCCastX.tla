------------------------------ MODULE MCCastX ------------------------------
(***************************************************************************)
(* The parts of castX, and go-scrcpy, checked side by side in one run.     *)
(* The parts of castX meet only in the start of a session, so a behaviour  *)
(* runs one of them and leaves the others in their initial state, where    *)
(* their fairness asks for nothing:                                        *)
(*   "receiver" the accept loop and its connections (ScrcpyReceiver);      *)
(*   "adb"      the sessions as pages see them (CastXAdb);                 *)
(*   "nal"      the cutting of a stream into NAL units (MemoryWriter);     *)
(*   "rtp"      NAL units from RTP packets (H264Depacketizer);             *)
(*   "sps"      the size of the video (H264Sps);                           *)
(*   "control"  what pages make the phone do (CastXControl);               *)
(*   "signals"  go-scrcpy with candidates but no input (GoScrcpy);         *)
(*   "inputs"   go-scrcpy with input but no candidates.                    *)
(***************************************************************************)
EXTENDS ScrcpyReceiver

CONSTANTS MaxBytes, MaxChunk, MaxUnits, MaxParts, MaxSockets, MaxInputs, Sps, Mb,
          Page, MaxActs, MaxControls

ASSUME SocketsAssumption == MaxSockets \in Nat \ {0}
ASSUME BoundsAssumption == {MaxChunk, MaxUnits, MaxParts} \subseteq Nat
(* The codes of a parameter set fit the 32 bits of ReadExpGolomb. *)
ASSUME SpsAssumption ==
  /\ Mb \in Nat
  /\ Sps \subseteq [ref : 1..3, high : BOOLEAN, chroma : 0..3, scaling : {"none", "flat", "default"},
                   order : 0..2, offset : -(2^30)..2^30, width : 1..2^30, height : 1..2^30,
                   frames : {0, 1}, crop : 0..2^30]

VARIABLES part,
          adbConnect, caller, adbJob, resized, overtaken, infos, shown, reordered,
          buffer, found, sent, written,
          now, next, clean, fragmentBuffer, lastTimestamp, nals, expected,
          sps, screen, sameWidth,
          ws, pc, connected, readyState, setup, peers, overwritten, clicks, typing, inputs,
          toServer, toPage, clients, panicked, server, controlConn, down, strayed,
          pressed, isPointerDown, controls, gone, todo, using, writing,
          connection, held, garbled, lost, acts

adbVars == <<adbConnect, caller, adbJob, resized, overtaken, infos, shown, reordered>>
nalVars == <<buffer, found, sent, written>>
rtpVars == <<now, next, clean, fragmentBuffer, lastTimestamp, nals, expected>>
spsVars == <<sps, screen, sameWidth>>
goVars == <<ws, pc, connected, readyState, setup, peers, overwritten, clicks, typing, inputs,
            toServer, toPage, clients, panicked, server, controlConn, down, strayed>>
controlVars == <<pressed, isPointerDown, controls, gone, todo, using, writing,
                 connection, held, garbled, lost, acts>>

(* Sets with and without each part, and two widths; short ones, and the    *)
(* three first bytes.                                                      *)
MCSps ==
  LET Sets == [ref : 1..3, high : BOOLEAN, chroma : {1, 3}, scaling : {"none", "flat", "default"},
               order : 0..2, offset : {0, -2, 3}, width : {1, 68}, height : {1, 150},
               frames : {0, 1}, crop : {0, 4}]
  IN  {s \in Sets : /\ s.high \/ (s.chroma = 1 /\ s.scaling = "none")
                    /\ s.order = 1 <=> s.offset # 0
                    /\ s.scaling = "default" => s.width = 1 /\ s.order = 0
                    /\ s.crop # 0 => s.chroma = 1 /\ s.order = 0
                    /\ s.height = 1 => s.width = 1 /\ ~s.high /\ s.crop = 0
                    /\ s.ref # 3 => s.order = 2 /\ s.crop = 0}

Adb == INSTANCE CastXAdb WITH job <- adbJob
Nal == INSTANCE MemoryWriter
Rtp == INSTANCE H264Depacketizer WITH written <- nals
Size == INSTANCE H264Sps
Control == INSTANCE CastXControl
             WITH toServer <- controls, controlConn <- connection, down <- held
Signals == INSTANCE GoScrcpy WITH MaxInputs <- 0, Trickles <- TRUE
Inputs == INSTANCE GoScrcpy WITH Trickles <- FALSE

MCInit ==
  /\ part \in {"receiver", "adb", "nal", "rtp", "sps", "control", "signals", "inputs"}
  /\ Init /\ Adb!Init /\ Nal!Init /\ Rtp!Init /\ Size!Init
  /\ Control!Init /\ Signals!Init

MCNext ==
  /\ UNCHANGED part
  /\ \/ /\ part = "receiver" /\ Next
        /\ UNCHANGED <<adbVars, nalVars, rtpVars, spsVars, controlVars, goVars>>
     \/ /\ part = "adb" /\ Adb!Next
        /\ UNCHANGED <<vars, nalVars, rtpVars, spsVars, controlVars, goVars>>
     \/ /\ part = "nal" /\ Nal!Next
        /\ UNCHANGED <<vars, adbVars, rtpVars, spsVars, controlVars, goVars>>
     \/ /\ part = "rtp" /\ Rtp!Next
        /\ UNCHANGED <<vars, adbVars, nalVars, spsVars, controlVars, goVars>>
     \/ /\ part = "sps" /\ Size!Next
        /\ UNCHANGED <<vars, adbVars, nalVars, rtpVars, controlVars, goVars>>
     \/ /\ part = "control" /\ Control!Next
        /\ UNCHANGED <<vars, adbVars, nalVars, rtpVars, spsVars, goVars>>
     \/ /\ part = "signals" /\ Signals!Next
        /\ UNCHANGED <<vars, adbVars, nalVars, rtpVars, spsVars, controlVars>>
     \/ /\ part = "inputs" /\ Inputs!Next
        /\ UNCHANGED <<vars, adbVars, nalVars, rtpVars, spsVars, controlVars>>

MCSpec ==
  /\ MCInit
  /\ [][MCNext]_<<part, vars, adbVars, nalVars, rtpVars, spsVars, controlVars, goVars>>
  /\ Adb!Fairness

-----------------------------------------------------------------------------
(* PageFollows of CastXAdb: what a page shows of the session is right, but *)
(* for the three races named there.                                        *)
PageFollows == Adb!PageFollows

(* NalsAreExact of MemoryWriter: however the stream is cut into chunks, the*)
(* units sent are those between its start codes.                           *)
NalsAreExact == Nal!NalsAreExact

(* CompleteUnitsAreExact of H264Depacketizer: a loss damages no unit but   *)
(* the one it hits.                                                        *)
CompleteUnitsAreExact == Rtp!CompleteUnitsAreExact

(* SizeIsRead of H264Sps: the size told is that of the coded pictures, but *)
(* for the cases named there.                                              *)
SizeIsRead == Size!SizeIsRead

(* SizeIsExact of H264Sps: the size told is exact, as its comment says.    *)
SizeIsExact == Size!SizeIsExact

(* SignalsFit of GoScrcpy: answers and candidates reach the peer connection*)
(* they are for.                                                           *)
SignalsFit == Signals!SignalsFit

(* AllLifted of GoScrcpy and of CastXControl: what was pressed is released.*)
AllLifted == Inputs!AllLifted /\ Control!AllLifted
=============================================================================
