------------------------------ MODULE RtmpChunk ------------------------------
(***************************************************************************)
(* The chunk stream of librtmp: RTMP_SendPacket and WriteN on one side,    *)
(* RTMP_ReadPacket, which the peer runs too, on the other, and the TCP     *)
(* connection between them.                                                *)
(*                                                                         *)
(* A cell of the wire is a chunk header with the fields it encodes, or one *)
(* byte of a body.  For the history both hold the message they are part of *)
(* and the place in its body, which the peer does not see in a header.     *)
(* WriteN hands a chunk to the socket in pieces of any size, and no lock   *)
(* keeps two threads apart (rtmplibrary.cpp 398-403).                      *)
(***************************************************************************)
EXTENDS Integers, Sequences

CONSTANTS
  Threads,    (* the threads that call RTMP_SendPacket on one handle       *)
  Channels,   (* the channels they use: 4 carries video, 5 audio, 3 invokes*)
  Offers,     (* the packets they send: a bound for TLC                    *)
  ChunkSize,  (* m_outChunkSize here, m_inChunkSize of the peer            *)
  Full,       (* 0xffffff: the largest 24-bit timestamp, which announces   *)
              (* an extended one                                           *)
  Modulus,    (* 2^32: timestamps are uint32_t                             *)
  MaxSends,   (* packets sent per channel: a bound for TLC                 *)
  NONE        (* a null pointer                                            *)

ASSUME ChunkAssumption ==
  /\ ChunkSize \in Nat \ {0} /\ Modulus \in Nat \ {0} /\ MaxSends \in [Channels -> Nat]
  /\ Full \in 0..Modulus - 1
  /\ Offers \subseteq [ch : Channels, type : STRING, size : Nat \ {0},
                       ts : 0..Modulus - 1, hdr : {"large", "medium"}]

(* A message that is sent; a packet as the peer stores it, and as it       *)
(* delivers it.                                                            *)
Message == [ch : Channels, type : STRING, size : Nat \ {0}, ts : 0..Modulus - 1,
            timed : BOOLEAN, no : Nat \ {0}]
Octet   == [kind : {"byte"}, ch : Channels, no : Nat, at : Nat]
Partial == [type : STRING, size : Nat, ts : 0..Modulus - 1, abs : BOOLEAN, body : Seq(Octet)]
Whole   == [type : STRING, size : Nat, body : Seq(Octet), ts : 0..Modulus - 1]

(* A null pointer points to nothing.                                       *)
ASSUME NullAssumption == NONE \notin Message \cup Partial \cup Whole

VARIABLES
  out,       (* m_vecChannelsOut: the packet each channel sent last        *)
  sending,   (* the packet each thread is sending: its message, the rest of*)
             (* the chunk being written, whether a part of that is out, and*)
             (* the bytes of the body after it                             *)
  wire,      (* the cells between the socket and the peer                  *)
  open,      (* the connection was not closed by a failed write            *)
  in,        (* the peer's m_vecChannelsIn                                 *)
  clock,     (* the peer's m_channelTimestamp                              *)
  sent,      (* history: packets started per channel                       *)
  inflight,  (* history: the messages started and not delivered            *)
  received,  (* history: the message delivered last, per channel           *)
  crossed    (* a thread wrote while a chunk of another was partly out, or *)
             (* started a packet on a channel where another had not        *)
             (* finished one: the peer may lose its place in the stream,   *)
             (* nothing is promised, and the model stops                   *)

writerVars == <<out, sending, open, sent>>
readerVars == <<in, clock, received>>
chunkVars  == <<writerVars, wire, readerVars, inflight, crossed>>

Idle  == [msg |-> NONE, chunk |-> <<>>, begun |-> FALSE, rest |-> <<>>]
Blank == [type |-> "none", size |-> 0, ts |-> 0, abs |-> FALSE, body |-> <<>>]
Least(a, b) == IF a < b THEN a ELSE b
Busy(t) == sending[t].msg # NONE

ChunkInit ==
  /\ out = [c \in Channels |-> NONE] /\ in = [c \in Channels |-> NONE]
  /\ sending = [t \in Threads |-> Idle]
  /\ wire = <<>> /\ open = TRUE
  /\ clock = [c \in Channels |-> 0] /\ sent = [c \in Channels |-> 0]
  /\ inflight = [c \in Channels |-> <<>>]
  /\ received = [c \in Channels |-> NONE]
  /\ crossed = FALSE

-----------------------------------------------------------------------------
(* The writer.                                                             *)

(* Mutant: packets of equal type and time are taken for repeated ones.     *)
FormatUnsized(m) ==
  LET p == out[m.ch]
  IN  IF p = NONE \/ m.hdr = "large" THEN m.hdr
      ELSE IF p.type # m.type THEN "medium"
      ELSE IF p.ts # m.ts THEN "small" ELSE "minimum"

(* The header type: a full one is kept, another is compressed by what the  *)
(* packet has in common with the previous one of the channel.              *)
Format(m) ==
  LET p == out[m.ch]
  IN  IF p = NONE \/ m.hdr = "large" THEN m.hdr
      ELSE IF p.size # m.size \/ p.type # m.type THEN "medium"
      ELSE IF p.ts # m.ts THEN "small" ELSE "minimum"

(* The timestamp field: relative unless the header is full.                *)
Stamp(m) ==
  IF out[m.ch] = NONE \/ m.hdr = "large" THEN m.ts
  ELSE (m.ts - out[m.ch].ts) % Modulus

(* The 24-bit field, and the 32-bit field that follows when it is full.    *)
Fields(t) == [time |-> Least(t, Full), ext |-> IF t >= Full THEN t ELSE 0]

Header(m, no) ==
  LET f == Fields(Stamp(m))
  IN  [kind |-> "head", fmt |-> Format(m), ch |-> m.ch, time |-> f.time,
       ext |-> f.ext, size |-> m.size, type |-> m.type, no |-> no, at |-> 1]

Continuation(m, at) ==
  [kind |-> "head", fmt |-> "minimum", ch |-> m.ch, no |-> m.no, at |-> at]

Body(m) == [i \in 1..m.size |-> [kind |-> "byte", ch |-> m.ch, no |-> m.no, at |-> i]]

Take(s, n) == SubSeq(s, 1, Least(n, Len(s)))
Drop(s, n) == SubSeq(s, n + 1, Len(s))

(* The peer can know the time: no packet since the last full header of the *)
(* channel left the timestamp out.                                         *)
Timed(m) ==
  \/ out[m.ch] = NONE \/ m.hdr = "large"
  \/ out[m.ch].timed /\ Format(m) # "minimum"

(* RTMP_SendPacket up to its first WriteN.                                 *)
Start(t, offer) ==
  LET c == offer.ch
      m == [ch |-> c, type |-> offer.type, size |-> offer.size, ts |-> offer.ts,
            timed |-> Timed(offer), no |-> sent[c] + 1]
  IN  /\ open /\ ~crossed /\ ~Busy(t) /\ sent[c] < MaxSends[c]
      /\ sending' = [sending EXCEPT ![t] =
           [msg |-> m, chunk |-> <<Header(offer, m.no)>> \o Take(Body(m), ChunkSize),
            begun |-> FALSE, rest |-> Drop(Body(m), ChunkSize)]]
      /\ sent' = [sent EXCEPT ![c] = @ + 1]
      /\ inflight' = [inflight EXCEPT ![c] = Append(@, m)]
      /\ crossed' = \E u \in Threads : Busy(u) /\ sending[u].msg.ch = c
      /\ UNCHANGED <<out, open, wire, readerVars>>

(* Mutant: the next chunk begins one byte late.                            *)
AfterChunkSkipping(s) ==
  LET at == s.msg.size - Len(s.rest) + 1
  IN  [s EXCEPT !.chunk = <<Continuation(s.msg, at)>> \o Take(Drop(s.rest, 1), ChunkSize),
                !.begun = FALSE, !.rest = Drop(Drop(s.rest, 1), ChunkSize)]

(* The next round of the loop, when a chunk is out and bytes are left.     *)
AfterChunk(s) ==
  LET at == s.msg.size - Len(s.rest) + 1
  IN  [s EXCEPT !.chunk = <<Continuation(s.msg, at)>> \o Take(s.rest, ChunkSize),
                !.begun = FALSE, !.rest = Drop(s.rest, ChunkSize)]

(* One send of WriteN takes a prefix of the chunk.  After the last chunk   *)
(* RTMP_SendPacket keeps the packet as the previous one of its channel.    *)
Write(t) ==
  LET s == sending[t] IN
  /\ open /\ ~crossed /\ Busy(t)
  /\ \E k \in 1..Len(s.chunk) :
       /\ wire' = wire \o Take(s.chunk, k)
       /\ \/ /\ k < Len(s.chunk)
             /\ sending' = [sending EXCEPT ![t].chunk = Drop(@, k), ![t].begun = TRUE]
             /\ UNCHANGED out
          \/ /\ k = Len(s.chunk) /\ s.rest # <<>>
             /\ sending' = [sending EXCEPT ![t] = AfterChunk(s)]
             /\ UNCHANGED out
          \/ /\ k = Len(s.chunk) /\ s.rest = <<>>
             /\ sending' = [sending EXCEPT ![t] = Idle]
             /\ out' = [out EXCEPT ![s.msg.ch] = s.msg]
  /\ crossed' = \E u \in Threads \ {t} : sending[u].begun
  /\ UNCHANGED <<open, sent, inflight, readerVars>>

(* A send fails: WriteN calls RTMP_Close, which forgets the channels, and  *)
(* RTMP_SendPacket returns FALSE.  What is on the wire may still arrive.   *)
WriteFails(t) ==
  /\ open /\ ~crossed /\ Busy(t)
  /\ open' = FALSE
  /\ sending' = [u \in Threads |-> Idle]
  /\ out' = [c \in Channels |-> NONE]
  /\ UNCHANGED <<sent, wire, inflight, readerVars, crossed>>

-----------------------------------------------------------------------------
(* The reader.                                                             *)

(* The packet a header describes: a full header starts from nothing, the   *)
(* others from the channel's stored packet, of which they replace what     *)
(* they encode.  A timestamp field that is full has an extended one.       *)
Parsed(h) ==
  LET p    == IF h.fmt = "large" \/ in[h.ch] = NONE THEN Blank ELSE in[h.ch]
      time == IF h.time = Full THEN h.ext ELSE h.time
  IN  CASE h.fmt = "large"   -> [p EXCEPT !.type = h.type, !.size = h.size,
                                 !.ts = time, !.abs = TRUE]
        [] h.fmt = "medium"  -> [p EXCEPT !.type = h.type, !.size = h.size,
                                 !.ts = time, !.body = <<>>]
        [] h.fmt = "small"   -> [p EXCEPT !.ts = time]
        [] h.fmt = "minimum" -> p

Absolute(p, c) == IF p.abs THEN p.ts ELSE (p.ts + clock[c]) % Modulus

(* What stays of a complete packet as reference for the next one.          *)
Stored(p) == [p EXCEPT !.body = <<>>, !.abs = FALSE]

(* A header where the peer expects one, and the whole chunk is there:      *)
(* ReadN waits until it is.                                                *)
ReadChunk ==
  /\ ~crossed /\ wire # <<>> /\ Head(wire).kind = "head"
  /\ LET h    == Head(wire)
         p    == Parsed(h)
         n    == Least(ChunkSize, p.size - Len(p.body))
         q    == [p EXCEPT !.body = @ \o Take(Tail(wire), n)]
         done == Len(q.body) = q.size
     IN  /\ Len(wire) > n
         /\ wire' = Drop(wire, 1 + n)
         /\ in' = [in EXCEPT ![h.ch] = IF done THEN Stored(q) ELSE q]
         /\ IF done
            THEN /\ clock' = [clock EXCEPT ![h.ch] = Absolute(q, h.ch)]
                 /\ received' = [received EXCEPT ![h.ch] =
                      [type |-> q.type, size |-> q.size, body |-> q.body,
                       ts |-> Absolute(q, h.ch)]]
                 /\ inflight' = [inflight EXCEPT ![h.ch] =
                      IF @ = <<>> THEN @ ELSE Tail(@)]
            ELSE UNCHANGED <<clock, received, inflight>>
  /\ UNCHANGED <<writerVars, crossed>>

ChunkNext ==
  \/ \E t \in Threads : (\E offer \in Offers : Start(t, offer)) \/ Write(t) \/ WriteFails(t)
  \/ ReadChunk

ChunkSpec == ChunkInit /\ [][ChunkNext]_chunkVars

(* The socket accepts bytes as the peer reads them, and the peer reads.    *)
FairChunkSpec ==
  ChunkSpec /\ (\A t \in Threads : WF_chunkVars(Write(t))) /\ WF_chunkVars(ReadChunk)

-----------------------------------------------------------------------------
(* The packet that a body was written for, or 0 when it is not whole.      *)
Origin(r, c) ==
  LET whole == {n \in 1..MaxSends[c] :
                  r.body = Body([ch |-> c, no |-> n, size |-> r.size])}
  IN  IF whole = {} THEN 0 ELSE CHOOSE n \in whole : TRUE

(* The chunk stream keeps the promise of the message streams: whole, in    *)
(* order, unaltered, per channel.  A timestamp survives the difference, the*)
(* 24-bit field, its extension and the peer's sum, until a packet repeats  *)
(* size, type and time of the one before it: the writer leaves the field   *)
(* out because nothing changed, the reader adds the last difference once   *)
(* more, and the channel is off until its next full header                 *)
(* (rtmp.c 3189-3212, 2923-2954, 3004-3014).                               *)
Streams == INSTANCE MessageStreams WITH
  Times    <- 0..Modulus - 1,
  Messages <- [what : [type : STRING, size : Nat, no : Nat],
               ts : 0..Modulus - 1, timed : BOOLEAN],
  queue    <- [c \in Channels |->
                 [i \in 1..Len(inflight[c]) |->
                    LET m == inflight[c][i]
                    IN  [what  |-> [type |-> m.type, size |-> m.size, no |-> m.no],
                         ts    |-> m.ts,
                         timed |-> m.timed]]],
  last     <- [c \in Channels |->
                 IF received[c] = NONE THEN NONE
                 ELSE [what |-> [type |-> received[c].type, size |-> received[c].size,
                                 no |-> Origin(received[c], c)],
                       ts   |-> received[c].ts]]
StreamsSpec == Streams!Spec

(* A message that was started arrives, unless a write fails or threads     *)
(* cross (rtmp.c 1368-1400, 3299-3341, 2957-3021).                         *)
MessagesArrive ==
  \A c \in Channels : inflight[c] # <<>> ~> (inflight[c] = <<>> \/ ~open \/ crossed)

=============================================================================
