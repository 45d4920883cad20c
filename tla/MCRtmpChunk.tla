---------------------------- MODULE MCRtmpChunk ----------------------------
(***************************************************************************)
(* RtmpChunk for TLC: timestamps of 3 bits, of which 4 announces an        *)
(* extended one, and chunks of two bytes.                                  *)
(***************************************************************************)
EXTENDS RtmpChunk, TLC

Packet(ch, hdr, type, size, ts) ==
  [ch |-> ch, hdr |-> hdr, type |-> type, size |-> size, ts |-> ts]

(* Invokes with compressed headers, of one chunk and two, whose timestamps *)
(* repeat, grow by an extended difference and wrap; between their chunks,  *)
(* a video packet as rtmplibrary.cpp sends it.                             *)
MixedOffers ==
  {Packet(3, "medium", "invoke", 1, 3), Packet(3, "medium", "invoke", 1, 7),
   Packet(3, "medium", "invoke", 3, 7), Packet(3, "large", "invoke", 1, 5),
   Packet(4, "large", "video", 3, 5)}

ThreeAndOne == (3 :> 3) @@ (4 :> 1)

=============================================================================
