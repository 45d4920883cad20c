---------------------------- MODULE VideoPackets ----------------------------
(***************************************************************************)
(* The bytes of sendVideo in rtmplibrary.cpp: how the SPS and the PPS are  *)
(* cut out of the encoder's first array, and what the bodies of the RTMP   *)
(* packets hold.  RtmpSession has the order of these steps and what other  *)
(* threads do to them; here one thread sends one array after the other,    *)
(* over memory that goes on behind each.  Sent bodies are read as the FLV  *)
(* video tags they are.                                                    *)
(***************************************************************************)
EXTENDS Naturals, Sequences, FiniteSetsExt

CONSTANTS
  SpsUnits, PpsUnits, Slices,  (* the NAL units of the encoder             *)
  Beyond                       (* what may follow an array in memory       *)

StartCode == <<0, 0, 0, 1>>
SPS == 103  \* 0x67
PPS == 104  \* 0x68
IDR == 101  \* 0x65

(* H.264: a unit holds no start code, and does not end in a zero.          *)
IsUnit(u) ==
  /\ u # <<>> /\ u[Len(u)] # 0
  /\ \A i \in 1..Len(u) - 2 : ~(u[i] = 0 /\ u[i+1] = 0 /\ u[i+2] <= 1)

ShortMax == 32767     \* sps_len and pps_len are int16_t
IntMax == 2147483647  \* bodySize, nine bytes more than a frame, is an int

ASSUME UnitAssumption ==
  /\ SpsUnits \cup PpsUnits \cup Slices \cup Beyond \subseteq Seq(0..255)
  /\ \A u \in SpsUnits \cup PpsUnits : Len(u) <= ShortMax
  /\ \A u \in Slices : Len(u) + 9 <= IntMax
  /\ \A u \in SpsUnits \cup PpsUnits \cup Slices : IsUnit(u)
  /\ \A u \in SpsUnits : Len(u) >= 4 /\ u[1] = SPS
  /\ \A u \in PpsUnits : u[1] = PPS
  /\ \A u \in Slices : u[1] \notin {SPS, PPS}
  /\ \A m \in Beyond : Len(m) = 4

VARIABLES
  sps, pps,    (* of the Live; empty for a null pointer                    *)
  array,       (* history: what sendVideo was called with                  *)
  bodies,      (* history: the bodies of the packets it sent               *)
  configured   (* history: the SPS and the PPS of the first encoder        *)

packetVars == <<sps, pps, array, bodies, configured>>

PacketInit ==
  sps = <<>> /\ pps = <<>> /\ array = <<>> /\ bodies = <<>> /\ configured = <<>>

-----------------------------------------------------------------------------
(* The loop of saveSPS_PPS over the indexes 0..len-1, which looks four     *)
(* bytes ahead of each: the first PPS ends it, the last SPS before counts. *)
UnitsAt(type, a, beyond) ==
  {i \in 0..Len(a) - 1 : SubSeq(a \o beyond, i + 1, i + 5) = Append(StartCode, type)}

SpsIndex(a, beyond) ==
  LET found  == UnitsAt(SPS, a, beyond)
      ends   == UnitsAt(PPS, a, beyond)
      before == IF ends = {} THEN found ELSE {i \in found : i < Min(ends)}
  IN  IF before = {} THEN 0 ELSE Max(before) + 4

PpsIndex(a, beyond) ==
  LET found == UnitsAt(PPS, a, beyond) IN IF found = {} THEN 0 ELSE Min(found) + 4

(* Mutant: the start code between the two is counted to the SPS.           *)
SpsLengthWhole(a, beyond) == PpsIndex(a, beyond) - SpsIndex(a, beyond)

SpsLength(a, beyond) == PpsIndex(a, beyond) - SpsIndex(a, beyond) - 4

SaveSpsPps(a, beyond) ==
  IF SpsIndex(a, beyond) > 0 /\ PpsIndex(a, beyond) > 0
  THEN /\ sps' = SubSeq(a, SpsIndex(a, beyond) + 1,
                        SpsIndex(a, beyond) + SpsLength(a, beyond))
       /\ pps' = SubSeq(a, PpsIndex(a, beyond) + 1, Len(a))
  ELSE UNCHANGED <<sps, pps>>

(* n in two and in four bytes, the high ones first.                        *)
Bytes16(n) == <<(n \div 256) % 256, n % 256>>
Bytes32(n) == <<(n \div 16777216) % 256, (n \div 65536) % 256>> \o Bytes16(n)

(* createSpsPpsPacket.                                                     *)
SpsPpsBody ==
  <<23, 0, 0, 0, 0, 1, sps[2], sps[3], sps[4], 255, 225>>
    \o Bytes16(Len(sps)) \o sps \o <<1>> \o Bytes16(Len(pps)) \o pps

(* createVideoPacket: the first four bytes of the array are left out.      *)
FrameBody(isIFrame, a) ==
  <<IF isIFrame THEN 23 ELSE 39, 1, 0, 0, 0>>
    \o Bytes32(Len(a) - 4) \o SubSeq(a, 5, Len(a))

(* sendVideo.  An I frame without SPS is an undefined access, which        *)
(* RtmpSession has.                                                        *)
SendVideoArray(a, beyond) ==
  /\ array' = a
  /\ \/ /\ a[5] = SPS /\ (sps = <<>> \/ pps = <<>>)
        /\ SaveSpsPps(a, beyond) /\ bodies' = <<>>
     \/ /\ a[5] = IDR /\ sps # <<>>
        /\ bodies' = <<SpsPpsBody, FrameBody(TRUE, a)>> /\ UNCHANGED <<sps, pps>>
     \/ /\ a[5] # IDR /\ ~(a[5] = SPS /\ (sps = <<>> \/ pps = <<>>))
        /\ bodies' = <<FrameBody(FALSE, a)>> /\ UNCHANGED <<sps, pps>>

EncoderConfig ==
  \E s \in SpsUnits, p \in PpsUnits, beyond \in Beyond :
    /\ configured = <<>> /\ configured' = <<s, p>>
    /\ SendVideoArray(StartCode \o s \o StartCode \o p, beyond)

(* The encoder of a second live gives its own SPS and PPS.                 *)
NextEncoderConfig ==
  \E s \in SpsUnits, p \in PpsUnits, beyond \in Beyond :
    /\ configured # <<>> /\ UNCHANGED configured
    /\ SendVideoArray(StartCode \o s \o StartCode \o p, beyond)

EncoderFrame ==
  \E u \in Slices, beyond \in Beyond :
    SendVideoArray(StartCode \o u, beyond) /\ UNCHANGED configured

PacketNext == EncoderConfig \/ NextEncoderConfig \/ EncoderFrame

PacketSpec == PacketInit /\ [][PacketNext]_packetVars

-----------------------------------------------------------------------------
(* What a player reads in the bodies.                                      *)

Read16(b, at) == b[at] * 256 + b[at + 1]
Read32(b, at) == Read16(b, at) * 65536 + Read16(b, at + 2)

ReadConfig(body) ==
  LET spsEnd == 13 + Read16(body, 12)
      ppsEnd == spsEnd + 3 + Read16(body, spsEnd + 2)
  IN  [sps |-> SubSeq(body, 14, spsEnd), pps |-> SubSeq(body, spsEnd + 4, ppsEnd),
       size |-> ppsEnd]

ReadFrame(body) ==
  LET end == 9 + Read32(body, 6)
  IN  [isIFrame |-> body[1] = 23, unit |-> SubSeq(body, 10, end), size |-> end]

(* A player gets the units of the encoder byte for byte, each body being   *)
(* filled to its end: the frame it was called with, and before an I frame  *)
(* the SPS and PPS of the first encoder, whatever lies in memory behind the*)
(* array that saveSPS_PPS overruns and however long the units are          *)
(* (rtmplibrary.cpp 167-194, 274-365).                                     *)
PlayerReadsUnits ==
  bodies # <<>> =>
    LET frame == bodies[Len(bodies)]
    IN  /\ ReadFrame(frame) = [isIFrame |-> array[5] = IDR, size |-> Len(frame),
                               unit |-> SubSeq(array, 5, Len(array))]
        /\ array[5] = IDR =>
             ReadConfig(bodies[1]) = [sps |-> configured[1], pps |-> configured[2],
                                      size |-> Len(bodies[1])]

=============================================================================
