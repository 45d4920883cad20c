-------------------------- MODULE RtmpChunkProofs --------------------------
(***************************************************************************)
(* Proofs about RtmpChunk, for any threads, channels, packets, chunk size  *)
(* and clock: the chunk stream implements the message streams.  All that   *)
(* is said of a wire, of messages and of what a thread holds is said by    *)
(* operators with these as parameters, so that it can be said of the next  *)
(* state too.                                                              *)
(***************************************************************************)
EXTENDS RtmpChunk, WellFoundedInduction, TLAPS

Formats == {"large", "medium", "small", "minimum"}
Cell == Octet
  \cup [kind : {"head"}, fmt : Formats, ch : Channels, time : Nat, ext : Nat, size : Nat,
        type : STRING, no : Nat, at : Nat]
  \cup [kind : {"head"}, fmt : {"minimum"}, ch : Channels, no : Nat, at : Nat]

Byte(c, n, a) == [kind |-> "byte", ch |-> c, no |-> n, at |-> a]

(* The messages under way by channel and number: what a header belongs to, *)
(* and how many bytes follow it.                                           *)
Delivered(c) == sent[c] - Len(inflight[c])
Known(c)     == Delivered(c) + 1 .. sent[c]
book == [c \in Channels |-> [n \in Known(c) |-> inflight[c][n - Delivered(c)]]]

Of(B, h)   == B[h.ch][h.no]
Span(B, h) == Least(ChunkSize, Of(B, h).size - h.at + 1)

-----------------------------------------------------------------------------
(* What a header leaves out is taken from the packet before: from the one  *)
(* the writer remembers, or from the one the peer does.                    *)
Base(type, size, ts, timed) == [type |-> type, size |-> size, ts |-> ts, timed |-> timed]
MessageBase(m)   == Base(m.type, m.size, m.ts, m.timed)
WriterBase(p)    == IF p = NONE THEN Base("none", 0, 0, TRUE) ELSE MessageBase(p)
ReaderBase(p, k) == IF p = NONE THEN Base("none", 0, k, TRUE) ELSE Base(p.type, p.size, k, TRUE)

(* Base b will do where the header was written for base o.                 *)
Serves(b, o) == b.type = o.type /\ b.size = o.size /\ (o.timed => b.timed /\ b.ts = o.ts)

TimeOf(h) == IF h.time = Full THEN h.ext ELSE h.time

(* After base b, header h tells the message m.                             *)
Tells(h, m, b) ==
  /\ h.fmt \in Formats
  /\ h.fmt \in {"large", "medium"} => h.type = m.type /\ h.size = m.size
  /\ h.fmt \in {"small", "minimum"} => b.type = m.type /\ b.size = m.size
  /\ h.fmt # "minimum" => TimeOf(h) \in 0..Modulus - 1
  /\ h.fmt = "large" => TimeOf(h) = m.ts
  /\ m.timed /\ h.fmt # "large" =>
       h.fmt # "minimum" /\ b.timed /\ (b.ts + TimeOf(h)) % Modulus = m.ts

-----------------------------------------------------------------------------
(* A place on a channel: the message and the byte that come next, and the  *)
(* base for the header of a message that begins there.  It is where the    *)
(* peer is, or where the chunk of a header ends.                           *)
Place(no, at, base) == [no |-> no, at |-> at, base |-> base]

ReaderPlace(p, d, k) ==
  Place(d + 1, IF p = NONE THEN 1 ELSE Len(p.body) + 1, ReaderBase(p, k))

HeadPlace(B, h) ==
  IF h.at + Span(B, h) > Of(B, h).size THEN Place(h.no + 1, 1, MessageBase(Of(B, h)))
  ELSE Place(h.no, h.at + Span(B, h), MessageBase(Of(B, h)))

Better(p, q)  == p.no = q.no /\ p.at = q.at /\ (p.at = 1 => Serves(p.base, q.base))
NotAfter(p, h) == p.no < h.no \/ (p.no = h.no /\ p.at <= h.at)

Fits(B, h, p) ==
  /\ h.no = p.no /\ h.at = p.at
  /\ h.at = 1 => Tells(h, Of(B, h), p.base)
  /\ h.at # 1 => h.fmt = "minimum"

(* The bytes of its message up to the end of the chunk a thread writes.    *)
Upto(s)   == s.msg.size - Len(s.rest)
InHand(s) == IF s.begun THEN Len(s.chunk) ELSE Len(s.chunk) - 1

(* After the chunk a thread goes on at place p.                            *)
Follows(s, p) ==
  /\ s.rest = <<>> =>
       p.no = s.msg.no + 1 /\ p.at = 1 /\ Serves(p.base, MessageBase(s.msg))
  /\ s.rest # <<>> => p.no = s.msg.no /\ p.at = Upto(s) + 1

Continues(B, s, p) ==
  /\ ~s.begun => Fits(B, s.chunk[1], p)
  /\ s.begun => Follows(s, p)

On(s, c) == s.msg # NONE /\ s.msg.ch = c

(* What is written next on the channel belongs at place p.                 *)
Ends(B, sg, k, o, c, p) ==
  /\ \A t \in Threads : On(sg[t], c) => Continues(B, sg[t], p)
  /\ (\A t \in Threads : ~On(sg[t], c)) =>
       p.no = k + 1 /\ p.at = 1 /\ Serves(p.base, WriterBase(o))

(* The place of a channel after the first n cells of a wire.               *)
HeadsTo(w, c, n)   == {i \in 1..n : w[i].kind = "head" /\ w[i].ch = c}
IsLast(w, c, n, i) == i \in HeadsTo(w, c, n) /\ \A k \in HeadsTo(w, c, n) : k <= i
PlaceAt(B, w, c, r, n) ==
  IF HeadsTo(w, c, n) = {} THEN r ELSE HeadPlace(B, w[CHOOSE i \in 1..n : IsLast(w, c, n, i)])

(* Every header of the channel comes where the one before it ends, the     *)
(* first where the peer is.                                                *)
Chain(B, w, c, r, n) ==
  \A i \in HeadsTo(w, c, n) : Fits(B, w[i], PlaceAt(B, w, c, r, i - 1))

-----------------------------------------------------------------------------
(* The invariant.                                                          *)

MessagesOK ==
  /\ inflight \in [Channels -> Seq(Message)] /\ sent \in [Channels -> Nat]
  /\ out \in [Channels -> Message \cup {NONE}]
  /\ \A c \in Channels :
       /\ Len(inflight[c]) <= sent[c] /\ sent[c] <= MaxSends[c]
       /\ \A i \in 1..Len(inflight[c]) :
            inflight[c][i].ch = c /\ inflight[c][i].no = Delivered(c) + i

(* A thread sends the last message of its channel and holds the bytes that *)
(* are not out, those of a begun chunk without header.                     *)
IsSending(B, K, s) ==
  LET m == s.msg IN
  /\ s = [msg |-> m, chunk |-> s.chunk, begun |-> s.begun, rest |-> s.rest]
  /\ m \in Message /\ s.begun \in BOOLEAN
  /\ s.chunk \in Seq(Cell) /\ s.rest \in Seq(Octet)
  /\ m.no = K[m.ch] /\ m.no \in DOMAIN B[m.ch] /\ m = B[m.ch][m.no]
  /\ InHand(s) \in 1..Upto(s)
  /\ \A k \in 1..Len(s.rest) : s.rest[k] = Byte(m.ch, m.no, Upto(s) + k)
  /\ \A k \in 1..Len(s.chunk) : s.begun \/ k > 1 =>
       s.chunk[k] = Byte(m.ch, m.no, Upto(s) - Len(s.chunk) + k)
  /\ ~s.begun =>
       /\ s.chunk[1].kind = "head" /\ s.chunk[1].ch = m.ch /\ s.chunk[1].no = m.no
       /\ s.chunk[1].at = Upto(s) - InHand(s) + 1
       /\ Span(B, s.chunk[1]) = InHand(s)

SendersOK ==
  /\ sending = [t \in Threads |-> sending[t]]
  /\ \A t \in Threads : IF Busy(t) THEN open /\ IsSending(book, sent, sending[t])
                        ELSE sending[t] = Idle
  /\ \A t, u \in Threads : t # u =>
       /\ Busy(t) /\ Busy(u) => sending[t].msg.ch # sending[u].msg.ch
       /\ ~(sending[t].begun /\ sending[u].begun)

(* A header is followed by the bytes it announces, as far as they are out. *)
IsHead(B, h) ==
  /\ h.kind = "head" /\ h.ch \in Channels
  /\ h.no \in DOMAIN B[h.ch] /\ h.at \in 1..Of(B, h).size

IsChunk(B, w, i) ==
  /\ IsHead(B, w[i])
  /\ \A k \in 1..Span(B, w[i]) :
       i + k <= Len(w) => w[i + k] = Byte(w[i].ch, w[i].no, w[i].at + k - 1)
  /\ i + Span(B, w[i]) < Len(w) => w[i + Span(B, w[i]) + 1].kind = "head"

IsWire(B, w) ==
  /\ w \in Seq(Cell)
  /\ w # <<>> => w[1].kind = "head"
  /\ \A i \in 1..Len(w) : w[i].kind = "head" => IsChunk(B, w, i)

(* A chunk is cut only at the end of the wire, by the thread that goes on  *)
(* with it or by the end of the connection.                                *)
IsWhole(B, w, i) == i + Span(B, w[i]) <= Len(w)

IsCutFor(B, w, s, i) ==
  /\ w[i].kind = "head" /\ w[i].ch = s.msg.ch /\ w[i].no = s.msg.no
  /\ w[i].at + Span(B, w[i]) = Upto(s) + 1
  /\ i + Span(B, w[i]) = Len(w) + InHand(s)

CutsOK ==
  /\ open /\ (\A t \in Threads : ~sending[t].begun) =>
       \A i \in 1..Len(wire) : wire[i].kind = "head" => IsWhole(book, wire, i)
  /\ \A t \in Threads : sending[t].begun =>
       \E i \in 1..Len(wire) : IsCutFor(book, wire, sending[t], i)

(* On each channel every header comes where the one before it ends, the    *)
(* first where the peer is, and the writers go on where the last ends.     *)
peer == [c \in Channels |-> ReaderPlace(in[c], Delivered(c), clock[c])]

ChannelsOK ==
  \A c \in Channels :
    /\ Chain(book, wire, c, peer[c], Len(wire))
    /\ open => Ends(book, sending, sent[c], out[c], c,
                    PlaceAt(book, wire, c, peer[c], Len(wire)))

(* A later header of a channel is behind an earlier one.                   *)
InOrder(B, w, c) ==
  \A i, j \in HeadsTo(w, c, Len(w)) : i < j => NotAfter(HeadPlace(B, w[i]), w[j])

OrderOK == \A c \in Channels : InOrder(book, wire, c)

(* The peer has the first bytes of the message it receives.                *)
AbsoluteOf(p, k) == IF p.abs THEN p.ts ELSE (p.ts + k) % Modulus

Receives(p, m, c, k) ==
  /\ Len(p.body) < m.size /\ p.size = m.size /\ p.type = m.type
  /\ \A i \in 1..Len(p.body) : p.body[i] = Byte(c, m.no, i)
  /\ m.timed => AbsoluteOf(p, k) = m.ts

ReaderOK ==
  /\ in \in [Channels -> Partial \cup {NONE}]
  /\ received \in [Channels -> Whole \cup {NONE}]
  /\ clock \in [Channels -> 0..Modulus - 1]
  /\ \A c \in Channels : in[c] # NONE =>
       /\ in[c].body = <<>> => ~in[c].abs
       /\ in[c].body # <<>> => /\ inflight[c] # <<>>
                               /\ Receives(in[c], book[c][Delivered(c) + 1], c, clock[c])

ChunkInv ==
  MessagesOK /\ SendersOK /\ IsWire(book, wire) /\ CutsOK /\ ChannelsOK /\ OrderOK /\ ReaderOK

-----------------------------------------------------------------------------
(* Sequences and numbers.                                                  *)

LEMMA MaxExists ==
  ASSUME NEW n \in Nat, NEW T \in SUBSET (1..n), T # {}
  PROVE  \E m \in T : \A k \in T : k <= m
<1> DEFINE U == {n - k : k \in T}
<1>1. \A k \in T : k \in 1..n /\ n - k \in Nat
  OBVIOUS
<1>2. U \subseteq Nat /\ U # {}
  BY <1>1
<1>3. \E z \in U : \A v \in U : ~(<<v, z>> \in OpToRel(<, Nat))
  <2>1. IsWellFoundedOn(OpToRel(<, Nat), Nat)
    BY NatLessThanWellFounded, Zenon
  <2> QED
    BY <1>2, <2>1, WFMin, Zenon
<1>4. \A v, z \in U : v < z => <<v, z>> \in OpToRel(<, Nat)
  BY <1>2 DEF OpToRel
<1>5. PICK z \in U : \A v \in U : ~(v < z)
  BY <1>3, <1>4, Zenon
<1>6. PICK m \in T : z = n - m
  BY <1>5
<1>7. ASSUME NEW k \in T PROVE k <= m
  <2>1. n - k \in U
    OBVIOUS
  <2>2. ~(n - k < n - m)
    BY <1>5, <1>6, <2>1
  <2> QED
    BY <1>1, <2>2
<1> QED
  BY <1>7

LEMMA Sizes == ChunkSize \in Nat \ {0} /\ Modulus \in Nat \ {0} /\ Full \in Nat
BY ChunkAssumption

LEMMA TakeSeq ==
  ASSUME NEW S, NEW s \in Seq(S), NEW n \in Nat
  PROVE  /\ Take(s, n) \in Seq(S) /\ Len(Take(s, n)) = Least(n, Len(s))
         /\ Len(Take(s, n)) \in Nat
         /\ \A i \in 1..Len(Take(s, n)) : Take(s, n)[i] = s[i]
BY DEF Take, Least

LEMMA DropSeq ==
  ASSUME NEW S, NEW s \in Seq(S), NEW n \in Nat
  PROVE  /\ Drop(s, n) \in Seq(S) /\ Len(Drop(s, n)) = Len(s) - Least(n, Len(s))
         /\ Len(Drop(s, n)) \in Nat
         /\ \A i \in 1..Len(Drop(s, n)) : Drop(s, n)[i] = s[n + i]
<1>1. Len(s) \in Nat
  OBVIOUS
<1>2. CASE n < Len(s)
  <2>1. n + 1 \in 1..Len(s) /\ Drop(s, n) = SubSeq(s, n + 1, Len(s))
    BY <1>1, <1>2 DEF Drop
  <2>2. /\ Drop(s, n) \in Seq(S) /\ Len(Drop(s, n)) = Len(s) - n
        /\ \A i \in 1..Len(s) - n : Drop(s, n)[i] = s[n + i]
    BY <1>1, <1>2, <2>1
  <2> QED
    BY <1>1, <1>2, <2>2 DEF Least
<1>3. CASE ~(n < Len(s))
  <2>1. Drop(s, n) = <<>>
    BY <1>1, <1>3 DEF Drop
  <2> QED
    BY <1>1, <1>3, <2>1 DEF Least
<1> QED
  BY <1>2, <1>3

LEMMA CatSeq ==
  ASSUME NEW S, NEW s \in Seq(S), NEW u \in Seq(S)
  PROVE  /\ s \o u \in Seq(S) /\ Len(s \o u) = Len(s) + Len(u)
         /\ Len(s) \in Nat /\ Len(u) \in Nat
         /\ \A i \in 1..Len(s) : (s \o u)[i] = s[i]
         /\ \A i \in 1..Len(u) : (s \o u)[Len(s) + i] = u[i]
OBVIOUS

LEMMA NoneLeft ==
  ASSUME NEW S, NEW s \in Seq(S)
  PROVE  s = <<>> <=> Len(s) = 0
OBVIOUS

(* Two sequences of the same length and elements are one.                  *)
LEMMA SameSeq ==
  ASSUME NEW S, NEW s \in Seq(S), NEW u \in Seq(S), Len(s) = Len(u),
         \A i \in 1..Len(s) : s[i] = u[i]
  PROVE  s = u
OBVIOUS

(* A difference of timestamps, added to the first, gives the second, as    *)
(* both are below the modulus.                                             *)
LEMMA TimesAdd ==
  ASSUME NEW a \in 0..Modulus - 1, NEW b \in 0..Modulus - 1, NEW d, d = (a - b) % Modulus
  PROVE  /\ d \in 0..Modulus - 1
         /\ (b + d) % Modulus = a
         /\ (b + a) % Modulus \in 0..Modulus - 1
<1>0. Modulus \in Nat \ {0}
  BY Sizes
<1>1. \A x \in Int : x % Modulus \in 0..Modulus - 1
  BY <1>0
<1>2. \A x \in 0..Modulus - 1 : x % Modulus = x /\ (x + Modulus) % Modulus = x
                                  /\ (x - Modulus) % Modulus = x
  BY <1>0
<1>3. CASE a >= b
  <2>1. d = a - b
    <3>1. a - b \in 0..Modulus - 1
      BY <1>0, <1>3
    <3> QED
      BY <1>2, <3>1
  <2> QED
    BY <1>1, <1>2, <2>1
<1>4. CASE a < b
  <2>1. d = a - b + Modulus
    <3>1. a - b + Modulus \in 0..Modulus - 1
      BY <1>0, <1>4
    <3>2. (a - b + Modulus) - Modulus = a - b
      BY <1>0
    <3> QED
      BY <1>2, <3>1, <3>2
  <2>2. b + (a - b + Modulus) = a + Modulus
    BY <1>0
  <2> QED
    BY <1>1, <1>2, <2>1, <2>2
<1> QED
  BY <1>3, <1>4

LEMMA TimesAddOne ==
  ASSUME NEW a \in 0..Modulus - 1
  PROVE  (0 + a) % Modulus = a
BY Sizes

-----------------------------------------------------------------------------
(* Headers, places and messages.                                           *)

IsBook(B) ==
  \A c \in Channels : \A n \in DOMAIN B[c] :
    n \in Nat /\ B[c][n] \in Message /\ B[c][n].ch = c /\ B[c][n].no = n

LEMMA BookKnown ==
  ASSUME MessagesOK
  PROVE  /\ IsBook(book)
         /\ \A c \in Channels : /\ Delivered(c) \in Nat /\ sent[c] \in Nat
                                /\ DOMAIN book[c] = Known(c)
                                /\ \A n \in Known(c) : book[c][n] = inflight[c][n - Delivered(c)]
<1>1. \A c \in Channels : /\ Len(inflight[c]) \in Nat /\ sent[c] \in Nat
                          /\ Delivered(c) \in Nat
  BY DEF MessagesOK, Delivered
<1>2. \A c \in Channels : /\ DOMAIN book[c] = Known(c)
                          /\ \A n \in Known(c) : book[c][n] = inflight[c][n - Delivered(c)]
  BY DEF book
<1>3. ASSUME NEW c \in Channels, NEW n \in Known(c)
      PROVE  n \in Nat /\ book[c][n] \in Message /\ book[c][n].ch = c /\ book[c][n].no = n
  <2>1. n \in Nat /\ n - Delivered(c) \in 1..Len(inflight[c])
    BY <1>1, <1>3 DEF Known, Delivered
  <2>2. inflight[c][n - Delivered(c)] \in Message
    BY <2>1 DEF MessagesOK
  <2>3. inflight[c][n - Delivered(c)].ch = c
        /\ inflight[c][n - Delivered(c)].no = Delivered(c) + (n - Delivered(c))
    BY <2>1 DEF MessagesOK
  <2>4. book[c][n] = inflight[c][n - Delivered(c)]
    BY <1>2, <1>3
  <2>5. Delivered(c) + (n - Delivered(c)) = n
    BY <1>1, <2>1
  <2> QED
    BY <2>1, <2>2, <2>3, <2>4, <2>5
<1> QED
  BY <1>1, <1>2, <1>3 DEF IsBook

LEMMA BookKept == MessagesOK => IsBook(book)
BY BookKnown

LEMMA HeadFacts ==
  ASSUME NEW B, IsBook(B), NEW h, IsHead(B, h)
  PROVE  /\ Of(B, h) \in Message /\ Of(B, h).size \in Nat \ {0}
         /\ Of(B, h).no = h.no /\ Of(B, h).ch = h.ch
         /\ h.ch \in Channels /\ h.no \in Nat /\ h.at \in Nat \ {0}
         /\ Span(B, h) \in Nat \ {0} /\ Span(B, h) <= ChunkSize
         /\ h.at + Span(B, h) <= Of(B, h).size + 1
<1>1. h.ch \in Channels /\ h.no \in DOMAIN B[h.ch] /\ h.at \in 1..Of(B, h).size
  BY DEF IsHead
<1>2. /\ Of(B, h) \in Message /\ Of(B, h).no = h.no /\ Of(B, h).ch = h.ch /\ h.no \in Nat
  BY <1>1 DEF IsBook, Of
<1>3. Of(B, h).size \in Nat \ {0}
  BY <1>2 DEF Message
<1>4. h.at \in Nat \ {0} /\ Of(B, h).size - h.at + 1 \in Nat \ {0}
  BY <1>1, <1>3
<1>5. ChunkSize \in Nat \ {0}
  BY Sizes
<1>6. Span(B, h) = ChunkSize \/ Span(B, h) = Of(B, h).size - h.at + 1
  BY DEF Span, Least
<1>7. Span(B, h) <= ChunkSize /\ Span(B, h) <= Of(B, h).size - h.at + 1
  BY <1>4, <1>5 DEF Span, Least
<1> QED
  BY <1>1, <1>2, <1>3, <1>4, <1>5, <1>6, <1>7

LEMMA HeadPlaceFacts ==
  ASSUME NEW B, IsBook(B), NEW h, IsHead(B, h)
  PROVE  LET p == HeadPlace(B, h) IN
         /\ p.no \in Nat /\ p.at \in Nat \ {0}
         /\ p.base = MessageBase(Of(B, h))
         /\ h.at + Span(B, h) = Of(B, h).size + 1 => p.no = h.no + 1 /\ p.at = 1
         /\ h.at + Span(B, h) # Of(B, h).size + 1 =>
              p.no = h.no /\ p.at = h.at + Span(B, h) /\ p.at > 1
         /\ p.no > h.no \/ (p.no = h.no /\ p.at > h.at)
<1>1. /\ Of(B, h).size \in Nat /\ h.no \in Nat /\ h.at \in Nat \ {0}
      /\ Span(B, h) \in Nat \ {0} /\ h.at + Span(B, h) <= Of(B, h).size + 1
  BY HeadFacts
<1>2. h.at + Span(B, h) > Of(B, h).size <=> h.at + Span(B, h) = Of(B, h).size + 1
  BY <1>1
<1> QED
  BY <1>1, <1>2 DEF HeadPlace, Place

(* The header and its chunk depend on the messages of its channel only.    *)
LEMMA SameMessage ==
  ASSUME NEW B1, NEW B2, NEW h, Of(B1, h) = Of(B2, h)
  PROVE  Span(B1, h) = Span(B2, h) /\ HeadPlace(B1, h) = HeadPlace(B2, h)
BY DEF Span, HeadPlace

LEMMA ServesAll ==
  /\ \A b : Serves(b, b)
  /\ \A a, b, o : Serves(a, b) /\ Serves(b, o) => Serves(a, o)
BY DEF Serves

LEMMA TellsBetter ==
  ASSUME NEW h, NEW m, NEW b, NEW o, Tells(h, m, o), Serves(b, o)
  PROVE  Tells(h, m, b)
BY DEF Tells, Serves

LEMMA FitsBetter ==
  ASSUME NEW B, NEW h, NEW p, NEW q, Fits(B, h, q), Better(p, q)
  PROVE  Fits(B, h, p)
BY TellsBetter DEF Fits, Better

LEMMA FollowsBetter ==
  ASSUME NEW s, NEW p, NEW q, Follows(s, q), Better(p, q)
  PROVE  Follows(s, p)
BY ServesAll DEF Follows, Better

LEMMA EndsBetter ==
  ASSUME NEW B, NEW sg, NEW k, NEW o, NEW c, NEW p, NEW q, Ends(B, sg, k, o, c, q),
         Better(p, q)
  PROVE  Ends(B, sg, k, o, c, p)
<1>1. \A t \in Threads : Continues(B, sg[t], q) => Continues(B, sg[t], p)
  BY FitsBetter, FollowsBetter DEF Continues
<1>2. q.at = 1 /\ Serves(q.base, WriterBase(o)) => p.at = 1 /\ Serves(p.base, WriterBase(o))
  BY ServesAll DEF Better
<1> QED
  BY <1>1, <1>2 DEF Ends, Better

LEMMA BetterSelf == \A p : Better(p, p)
BY ServesAll DEF Better

-----------------------------------------------------------------------------
(* The place after the first cells of a wire.                              *)

LEMMA NoHeads ==
  ASSUME NEW B, NEW w, NEW c, NEW r, NEW n, HeadsTo(w, c, n) = {}
  PROVE  PlaceAt(B, w, c, r, n) = r
BY DEF PlaceAt

LEMMA LastHead ==
  ASSUME NEW B, NEW w, NEW c, NEW r, NEW n \in Nat, NEW i, IsLast(w, c, n, i)
  PROVE  PlaceAt(B, w, c, r, n) = HeadPlace(B, w[i])
<1>1. HeadsTo(w, c, n) # {} /\ i \in 1..n
  BY DEF IsLast, HeadsTo
<1>2. ASSUME NEW j \in 1..n, IsLast(w, c, n, j) PROVE j = i
  <2>1. i <= j /\ j <= i
    BY <1>2 DEF IsLast
  <2> QED
    BY <1>1, <2>1
<1>3. (CHOOSE j \in 1..n : IsLast(w, c, n, j)) = i
  BY <1>1, <1>2
<1> QED
  BY <1>1, <1>3 DEF PlaceAt

LEMMA SomeLast ==
  ASSUME NEW w, NEW c, NEW n \in Nat, HeadsTo(w, c, n) # {}
  PROVE  \E i \in 1..n : IsLast(w, c, n, i)
<1>1. HeadsTo(w, c, n) \in SUBSET (1..n)
  BY DEF HeadsTo
<1> QED
  BY <1>1, MaxExists DEF IsLast

(* Cells without a header of the channel leave its place.                  *)
LEMMA PlaceStays ==
  ASSUME NEW B, NEW w, NEW c, NEW r, NEW n \in Nat, NEW m \in Nat, n <= m,
         \A i \in n + 1..m : ~(w[i].kind = "head" /\ w[i].ch = c)
  PROVE  PlaceAt(B, w, c, r, m) = PlaceAt(B, w, c, r, n)
<1>1. HeadsTo(w, c, m) = HeadsTo(w, c, n)
  BY DEF HeadsTo
<1>2. CASE HeadsTo(w, c, n) = {}
  BY <1>1, <1>2, NoHeads
<1>3. CASE HeadsTo(w, c, n) # {}
  <2>1. PICK i \in 1..n : IsLast(w, c, n, i)
    BY <1>3, SomeLast
  <2>2. IsLast(w, c, m, i)
    BY <1>1, <2>1 DEF IsLast
  <2> QED
    BY <2>1, <2>2, LastHead
<1> QED
  BY <1>2, <1>3

(* The place after the first cells of a wire is that of another wire whose *)
(* cells are the same behind its first s.                                  *)
LEMMA PlaceMoves ==
  ASSUME NEW B1, NEW w1, NEW r1, NEW B2, NEW w2, NEW r2, NEW c, NEW s \in Nat, NEW n \in Nat,
         \A i \in 1..n : w2[i] = w1[s + i],
         \A i \in HeadsTo(w2, c, n) : HeadPlace(B2, w2[i]) = HeadPlace(B1, w1[s + i]),
         Better(r2, PlaceAt(B1, w1, c, r1, s))
  PROVE  Better(PlaceAt(B2, w2, c, r2, n), PlaceAt(B1, w1, c, r1, s + n))
<1>1. CASE HeadsTo(w2, c, n) = {}
  <2>1. \A i \in s + 1..s + n : ~(w1[i].kind = "head" /\ w1[i].ch = c)
    <3>1. SUFFICES ASSUME NEW i \in s + 1..s + n, w1[i].kind = "head", w1[i].ch = c
                   PROVE  FALSE
      OBVIOUS
    <3>2. i - s \in 1..n /\ s + (i - s) = i
      OBVIOUS
    <3>3. w2[i - s] = w1[i]
      BY <3>2
    <3> QED
      BY <1>1, <3>1, <3>2, <3>3 DEF HeadsTo
  <2>2. PlaceAt(B1, w1, c, r1, s + n) = PlaceAt(B1, w1, c, r1, s)
    BY <2>1, PlaceStays
  <2> QED
    BY <1>1, <2>2, NoHeads
<1>2. CASE HeadsTo(w2, c, n) # {}
  <2>1. PICK i \in 1..n : IsLast(w2, c, n, i)
    BY <1>2, SomeLast
  <2>2. s + i \in HeadsTo(w1, c, s + n)
    BY <2>1 DEF IsLast, HeadsTo
  <2>3. ASSUME NEW k \in HeadsTo(w1, c, s + n) PROVE k <= s + i
    <3>1. CASE k <= s
      BY <2>1, <3>1 DEF HeadsTo
    <3>2. CASE k > s
      <4>1. k - s \in 1..n /\ s + (k - s) = k
        BY <3>2 DEF HeadsTo
      <4>2. w2[k - s] = w1[k]
        BY <4>1
      <4>3. k - s \in HeadsTo(w2, c, n)
        BY <4>1, <4>2 DEF HeadsTo
      <4>4. k - s <= i
        BY <2>1, <4>3 DEF IsLast
      <4> QED
        BY <4>1, <4>4
    <3> QED
      BY <3>1, <3>2 DEF HeadsTo
  <2>4. IsLast(w1, c, s + n, s + i)
    BY <2>2, <2>3 DEF IsLast
  <2>5. PlaceAt(B1, w1, c, r1, s + n) = HeadPlace(B1, w1[s + i])
    BY <2>4, LastHead
  <2>6. PlaceAt(B2, w2, c, r2, n) = HeadPlace(B2, w2[i])
    BY <2>1, LastHead
  <2>7. i \in HeadsTo(w2, c, n)
    BY <2>1 DEF IsLast
  <2> QED
    BY <2>5, <2>6, <2>7, BetterSelf
<1> QED
  BY <1>1, <1>2

(* A wire that begins with another has its places.                         *)
LEMMA PlacePrefix ==
  ASSUME NEW B1, NEW w1, NEW B2, NEW w2, NEW r, NEW c, NEW n \in Nat,
         \A i \in 1..n : w2[i] = w1[i],
         \A i \in HeadsTo(w2, c, n) : Of(B2, w2[i]) = Of(B1, w1[i])
  PROVE  PlaceAt(B2, w2, c, r, n) = PlaceAt(B1, w1, c, r, n)
<1>1. HeadsTo(w2, c, n) = HeadsTo(w1, c, n)
  BY DEF HeadsTo
<1>2. CASE HeadsTo(w1, c, n) = {}
  BY <1>1, <1>2, NoHeads
<1>3. CASE HeadsTo(w1, c, n) # {}
  <2>1. PICK i \in 1..n : IsLast(w1, c, n, i)
    BY <1>3, SomeLast
  <2>2. IsLast(w2, c, n, i)
    BY <1>1, <2>1 DEF IsLast
  <2>3. i \in HeadsTo(w2, c, n) /\ w2[i] = w1[i]
    BY <1>1, <2>1 DEF IsLast
  <2>4. HeadPlace(B2, w2[i]) = HeadPlace(B1, w1[i])
    BY <2>3, SameMessage
  <2> QED
    BY <2>1, <2>2, <2>4, LastHead
<1> QED
  BY <1>2, <1>3

-----------------------------------------------------------------------------
(* What stays when messages are added to the book.                         *)

Extends(B2, B1) ==
  \A c \in Channels : \A n \in DOMAIN B1[c] : n \in DOMAIN B2[c] /\ B2[c][n] = B1[c][n]

LEMMA ExtendedHead ==
  ASSUME NEW B1, NEW B2, Extends(B2, B1), NEW h, IsHead(B1, h)
  PROVE  /\ Of(B2, h) = Of(B1, h) /\ IsHead(B2, h)
         /\ Span(B2, h) = Span(B1, h) /\ HeadPlace(B2, h) = HeadPlace(B1, h)
<1>1. Of(B2, h) = Of(B1, h)
  BY DEF Extends, IsHead, Of
<1> QED
  BY <1>1, SameMessage DEF Extends, IsHead

LEMMA ExtendedWire ==
  ASSUME NEW B1, NEW B2, Extends(B2, B1), NEW w, IsWire(B1, w)
  PROVE  IsWire(B2, w)
<1>1. ASSUME NEW i \in 1..Len(w), w[i].kind = "head" PROVE IsChunk(B2, w, i)
  <2>1. IsChunk(B1, w, i)
    BY <1>1 DEF IsWire
  <2>2. IsHead(B2, w[i]) /\ Span(B2, w[i]) = Span(B1, w[i])
    BY <2>1, ExtendedHead DEF IsChunk
  <2> QED
    BY <2>1, <2>2 DEF IsChunk
<1> QED
  BY <1>1 DEF IsWire

LEMMA WireHead ==
  ASSUME NEW B, NEW w, IsWire(B, w), NEW i \in 1..Len(w), w[i].kind = "head"
  PROVE  IsHead(B, w[i]) /\ IsChunk(B, w, i)
BY DEF IsWire, IsChunk

LEMMA SameFits ==
  ASSUME NEW B1, NEW B2, NEW h, NEW p, Fits(B1, h, p), Of(B2, h) = Of(B1, h)
  PROVE  Fits(B2, h, p)
BY DEF Fits

(* Headers that a wire has in common with another one fit there too.       *)
SamePrefix(w2, w1, n)      == \A i \in 1..n : w2[i] = w1[i]
SameHeads(B2, B1, w, c, n) == \A i \in HeadsTo(w, c, n) : Of(B2, w[i]) = Of(B1, w[i])

LEMMA ChainPrefix ==
  ASSUME NEW B1, NEW w1, NEW B2, NEW w2, NEW r, NEW c, NEW n \in Nat,
         SamePrefix(w2, w1, n), SameHeads(B2, B1, w1, c, n), Chain(B1, w1, c, r, n)
  PROVE  /\ Chain(B2, w2, c, r, n)
         /\ PlaceAt(B2, w2, c, r, n) = PlaceAt(B1, w1, c, r, n)
<1>1. HeadsTo(w2, c, n) = HeadsTo(w1, c, n) /\ \A i \in 1..n : w2[i] = w1[i]
  BY DEF HeadsTo, SamePrefix
<1>2. \A i \in HeadsTo(w2, c, n) : Of(B2, w2[i]) = Of(B1, w1[i]) /\ w2[i] = w1[i]
  BY <1>1 DEF HeadsTo, SameHeads
<1>3. ASSUME NEW i \in HeadsTo(w2, c, n)
      PROVE  Fits(B2, w2[i], PlaceAt(B2, w2, c, r, i - 1))
  <2>1. i \in 1..n /\ i - 1 \in Nat
    BY DEF HeadsTo
  <2>2. \A k \in 1..i - 1 : w2[k] = w1[k]
    BY <1>1, <2>1
  <2>3. \A k \in HeadsTo(w2, c, i - 1) : Of(B2, w2[k]) = Of(B1, w1[k])
    BY <1>2, <2>1 DEF HeadsTo
  <2>4. PlaceAt(B2, w2, c, r, i - 1) = PlaceAt(B1, w1, c, r, i - 1)
    BY <2>1, <2>2, <2>3, PlacePrefix
  <2>5. Fits(B1, w1[i], PlaceAt(B1, w1, c, r, i - 1))
    BY <1>1, <1>3 DEF Chain
  <2>6. Of(B2, w1[i]) = Of(B1, w1[i]) /\ w2[i] = w1[i]
    BY <1>1, <1>2, <1>3
  <2> QED
    BY <2>4, <2>5, <2>6, SameFits
<1>4. PlaceAt(B2, w2, c, r, n) = PlaceAt(B1, w1, c, r, n)
  BY <1>1, <1>2, PlacePrefix
<1> QED
  BY <1>3, <1>4 DEF Chain

LEMMA ExtendedSender ==
  ASSUME NEW B1, NEW B2, Extends(B2, B1), NEW K1, NEW K2, NEW s, IsSending(B1, K1, s),
         IsBook(B1), K2[s.msg.ch] = K1[s.msg.ch]
  PROVE  IsSending(B2, K2, s)
<1>1. s.msg \in Message /\ s.msg.ch \in Channels
  BY DEF IsSending, Message
<1>2. /\ s.msg.no \in DOMAIN B2[s.msg.ch] /\ B2[s.msg.ch][s.msg.no] = B1[s.msg.ch][s.msg.no]
  BY <1>1 DEF Extends, IsSending
<1>3. ~s.begun => Span(B2, s.chunk[1]) = Span(B1, s.chunk[1])
  BY <1>2, SameMessage DEF IsSending, Of
<1> QED
  BY <1>2, <1>3 DEF IsSending

LEMMA SenderFacts ==
  ASSUME NEW B, NEW K, NEW s, IsSending(B, K, s)
  PROVE  /\ s.msg \in Message /\ s.msg.ch \in Channels /\ s.msg.size \in Nat \ {0}
         /\ s.msg.no \in Nat /\ s.msg # NONE
         /\ Len(s.chunk) \in Nat \ {0} /\ Len(s.rest) \in Nat
         /\ Upto(s) \in Nat \ {0} /\ Upto(s) + Len(s.rest) = s.msg.size
         /\ InHand(s) \in Nat \ {0} /\ InHand(s) <= Upto(s)
         /\ s.begun => InHand(s) = Len(s.chunk)
         /\ ~s.begun => InHand(s) = Len(s.chunk) - 1
         /\ s.rest = <<>> <=> Len(s.rest) = 0
<1>1. s.msg \in Message /\ s.chunk \in Seq(Cell) /\ s.rest \in Seq(Octet)
      /\ InHand(s) \in 1..Upto(s)
  BY DEF IsSending
<1>2. /\ s.msg.ch \in Channels /\ s.msg.size \in Nat \ {0} /\ s.msg.no \in Nat
      /\ s.msg # NONE
  BY <1>1, NullAssumption DEF Message
<1>3. Len(s.chunk) \in Nat /\ Len(s.rest) \in Nat /\ (s.rest = <<>> <=> Len(s.rest) = 0)
  BY <1>1
<1>4. Upto(s) \in Int /\ Upto(s) + Len(s.rest) = s.msg.size
  BY <1>2, <1>3 DEF Upto
<1>5. InHand(s) \in Int /\ (s.begun => InHand(s) = Len(s.chunk))
      /\ (~s.begun => InHand(s) = Len(s.chunk) - 1)
  BY <1>3 DEF InHand
<1> QED
  BY <1>1, <1>2, <1>3, <1>4, <1>5

(* A not begun chunk starts with a header of the message.                  *)
LEMMA SenderHead ==
  ASSUME NEW B, IsBook(B), NEW K, NEW s, IsSending(B, K, s), ~s.begun
  PROVE  /\ IsHead(B, s.chunk[1]) /\ Of(B, s.chunk[1]) = s.msg
         /\ s.chunk[1].ch = s.msg.ch /\ s.chunk[1].no = s.msg.no
         /\ s.chunk[1].at + Span(B, s.chunk[1]) = Upto(s) + 1
         /\ Span(B, s.chunk[1]) = Len(s.chunk) - 1 /\ Span(B, s.chunk[1]) = InHand(s)
<1>1. /\ s.msg.ch \in Channels /\ Upto(s) \in Nat \ {0} /\ InHand(s) \in Nat \ {0}
      /\ InHand(s) = Len(s.chunk) - 1 /\ InHand(s) <= Upto(s)
      /\ Len(s.rest) \in Nat /\ s.msg.size \in Nat /\ Upto(s) + Len(s.rest) = s.msg.size
  BY SenderFacts
<1>2. /\ s.chunk[1].kind = "head" /\ s.chunk[1].ch = s.msg.ch /\ s.chunk[1].no = s.msg.no
      /\ s.chunk[1].at = Upto(s) - InHand(s) + 1
      /\ Span(B, s.chunk[1]) = InHand(s)
      /\ s.msg.no \in DOMAIN B[s.msg.ch] /\ s.msg = B[s.msg.ch][s.msg.no]
  BY DEF IsSending
<1>3. Of(B, s.chunk[1]) = s.msg
  BY <1>2 DEF Of
<1>4. s.chunk[1].at \in 1..s.msg.size
  <2>1. \A u, k, r, z \in Nat : k > 0 /\ k <= u /\ u + r = z => u - k + 1 \in 1..z
    OBVIOUS
  <2>2. InHand(s) \in Nat /\ InHand(s) > 0 /\ InHand(s) <= Upto(s)
    <3>1. InHand(s) \in Nat \ {0} /\ InHand(s) <= Upto(s)
      BY SenderFacts
    <3> QED
      BY <3>1
  <2>4. Upto(s) \in Nat /\ Len(s.rest) \in Nat /\ s.msg.size \in Nat
        /\ Upto(s) + Len(s.rest) = s.msg.size
    <3>1. Upto(s) \in Nat \ {0} /\ Len(s.rest) \in Nat /\ s.msg.size \in Nat \ {0}
          /\ Upto(s) + Len(s.rest) = s.msg.size
      BY SenderFacts
    <3> QED
      BY <3>1
  <2>3. Upto(s) - InHand(s) + 1 \in 1..s.msg.size
    BY <2>1, <2>2, <2>4
  <2> QED
    BY <1>2, <2>3
<1> QED
  BY <1>1, <1>2, <1>3, <1>4 DEF IsHead

-----------------------------------------------------------------------------
(* The writer starts a packet.                                             *)

LEMMA BodySeq ==
  ASSUME NEW m, m.ch \in Channels, m.no \in Nat, m.size \in Nat
  PROVE  /\ Body(m) \in Seq(Octet) /\ Len(Body(m)) = m.size
         /\ \A i \in 1..m.size : Body(m)[i] = Byte(m.ch, m.no, i)
<1>1. \A i \in 1..m.size : [kind |-> "byte", ch |-> m.ch, no |-> m.no, at |-> i] \in Octet
  BY DEF Octet
<1> QED
  BY <1>1 DEF Body, Byte

LEMMA OctetsAreCells ==
  /\ Octet \subseteq Cell
  /\ \A s \in Seq(Octet) : s \in Seq(Cell)
<1>1. Octet \subseteq Cell
  BY DEF Cell
<1> QED
  BY <1>1

(* The header tells the packet to a peer that knows what the writer does.  *)
LEMMA HeaderTells ==
  ASSUME MessagesOK, NEW o \in Offers, NEW n \in Nat, NEW m,
         m.type = o.type, m.size = o.size, m.ts = o.ts, m.timed = Timed(o)
  PROVE  LET h == Header(o, n) IN
         /\ Tells(h, m, WriterBase(out[o.ch])) /\ h \in Cell
         /\ h.kind = "head" /\ h.ch = o.ch /\ h.no = n /\ h.at = 1
<1> DEFINE h == Header(o, n)
           p == out[o.ch]
<1>1. /\ o.ch \in Channels /\ o.type \in STRING /\ o.size \in Nat \ {0}
      /\ o.ts \in 0..Modulus - 1 /\ o.hdr \in {"large", "medium"}
  BY ChunkAssumption
<1>2. p = NONE \/ (p.ts \in 0..Modulus - 1 /\ p.timed \in BOOLEAN)
  BY <1>1 DEF MessagesOK, Message
<1>3. Stamp(o) \in 0..Modulus - 1
      /\ (p # NONE /\ o.hdr # "large" => (p.ts + Stamp(o)) % Modulus = o.ts)
      /\ (p = NONE \/ o.hdr = "large" => Stamp(o) = o.ts)
  <2>1. CASE p = NONE \/ o.hdr = "large"
    BY <1>1, <2>1 DEF Stamp
  <2>2. CASE ~(p = NONE \/ o.hdr = "large")
    <3>1. Stamp(o) = (o.ts - p.ts) % Modulus
      BY <2>2 DEF Stamp
    <3>2. o.ts \in 0..Modulus - 1 /\ p.ts \in 0..Modulus - 1
      BY <1>1, <1>2, <2>2
    <3>3. \A a, b \in 0..Modulus - 1 : \A d : d = (a - b) % Modulus =>
            d \in 0..Modulus - 1 /\ (b + d) % Modulus = a
      BY TimesAdd, Zenon
    <3>4. Stamp(o) \in 0..Modulus - 1 /\ (p.ts + Stamp(o)) % Modulus = o.ts
      BY <3>1, <3>2, <3>3, Zenon
    <3> QED
      BY <2>2, <3>4
  <2> QED
    BY <2>1, <2>2
<1>4. /\ Fields(Stamp(o)).time \in Nat /\ Fields(Stamp(o)).ext \in Nat
      /\ (IF Fields(Stamp(o)).time = Full THEN Fields(Stamp(o)).ext
          ELSE Fields(Stamp(o)).time) = Stamp(o)
  BY <1>3, Sizes DEF Fields, Least
<1>5. /\ h.kind = "head" /\ h.fmt = Format(o) /\ h.ch = o.ch /\ h.no = n /\ h.at = 1
      /\ h.time = Fields(Stamp(o)).time /\ h.ext = Fields(Stamp(o)).ext
      /\ h.size = o.size /\ h.type = o.type
  BY DEF Header
<1>6. TimeOf(h) = Stamp(o)
  BY <1>4, <1>5 DEF TimeOf
<1>7. Format(o) \in Formats
  BY <1>1 DEF Format, Formats
<1>8. h \in Cell
  BY <1>1, <1>4, <1>7 DEF Header, Cell
<1>9. Tells(h, m, WriterBase(p))
  <2>1. CASE p = NONE
    <3>1. Format(o) = o.hdr /\ Timed(o) /\ WriterBase(p) = Base("none", 0, 0, TRUE)
      BY <2>1 DEF Format, Timed, WriterBase
    <3>2. (0 + Stamp(o)) % Modulus = o.ts
      BY <1>1, <1>3, <2>1, TimesAddOne
    <3> QED
      BY <1>1, <1>3, <1>5, <1>6, <1>7, <2>1, <3>1, <3>2 DEF Tells, Base
  <2>2. CASE p # NONE
    <3>1. WriterBase(p) = Base(p.type, p.size, p.ts, p.timed)
      BY <2>2 DEF WriterBase, MessageBase
    <3>2. /\ Format(o) = "large" <=> o.hdr = "large"
          /\ Format(o) \in {"small", "minimum"} => p.type = o.type /\ p.size = o.size
          /\ Timed(o) /\ Format(o) # "large" => p.timed /\ Format(o) # "minimum"
      BY <1>1, <2>2 DEF Format, Timed
    <3> QED
      BY <1>1, <1>3, <1>5, <1>6, <1>7, <2>2, <3>1, <3>2 DEF Tells, Base
  <2> QED
    BY <2>1, <2>2
<1> QED
  BY <1>5, <1>8, <1>9

(* The message of the packet that is started, and what it changes.         *)
Started(o) ==
  [ch |-> o.ch, type |-> o.type, size |-> o.size, ts |-> o.ts,
   timed |-> Timed(o), no |-> sent[o.ch] + 1]

LEMMA TimedIsBoolean ==
  ASSUME MessagesOK, NEW o \in Offers
  PROVE  Timed(o) \in BOOLEAN
<1>1. o.ch \in Channels
  BY ChunkAssumption
<1>2. out[o.ch] = NONE \/ out[o.ch].timed \in BOOLEAN
  BY <1>1 DEF MessagesOK, Message
<1> QED
  BY <1>2 DEF Timed

LEMMA StartsMessage ==
  ASSUME MessagesOK, NEW t \in Threads, NEW o \in Offers, Start(t, o)
  PROVE  /\ o.ch \in Channels /\ Started(o) \in Message
         /\ MessagesOK' /\ Extends(book', book)
         /\ \A c \in Channels : Delivered(c)' = Delivered(c) /\ (c # o.ch => sent'[c] = sent[c])
         /\ sent'[o.ch] = sent[o.ch] + 1
         /\ sent'[o.ch] \in DOMAIN book'[o.ch] /\ book'[o.ch][sent'[o.ch]] = Started(o)
<1> DEFINE m == Started(o)
<1>1. /\ o.ch \in Channels /\ o.type \in STRING /\ o.size \in Nat \ {0}
      /\ o.ts \in 0..Modulus - 1
  BY ChunkAssumption
<1>2. m \in Message
  <2>1. sent[o.ch] \in Nat
    BY <1>1 DEF MessagesOK
  <2>2. sent[o.ch] + 1 \in Nat \ {0}
    BY <2>1
  <2>3. Timed(o) \in BOOLEAN
    BY TimedIsBoolean
  <2> QED
    BY <1>1, <2>2, <2>3 DEF Started, Message
<1>3. /\ sent' = [sent EXCEPT ![o.ch] = @ + 1] /\ sent[o.ch] < MaxSends[o.ch]
      /\ inflight' = [inflight EXCEPT ![o.ch] = Append(@, m)]
      /\ UNCHANGED out
  BY DEF Start, Started
<1>4. \A c \in Channels : inflight[c] \in Seq(Message) /\ sent[c] \in Nat
                          /\ Len(inflight[c]) \in Nat /\ MaxSends[c] \in Nat
  BY ChunkAssumption DEF MessagesOK
<1>5. /\ inflight'[o.ch] = Append(inflight[o.ch], m) /\ sent'[o.ch] = sent[o.ch] + 1
      /\ \A c \in Channels : c # o.ch => inflight'[c] = inflight[c] /\ sent'[c] = sent[c]
  BY <1>1, <1>3 DEF MessagesOK
<1>6. /\ Len(inflight'[o.ch]) = Len(inflight[o.ch]) + 1
      /\ \A i \in 1..Len(inflight[o.ch]) : inflight'[o.ch][i] = inflight[o.ch][i]
      /\ inflight'[o.ch][Len(inflight[o.ch]) + 1] = m
  BY <1>1, <1>2, <1>4, <1>5
<1>7. ASSUME NEW c \in Channels PROVE Delivered(c)' = Delivered(c)
  <2>1. /\ sent[c] \in Nat /\ Len(inflight[c]) \in Nat
        /\ Delivered(c)' = sent'[c] - Len(inflight'[c])
    BY <1>4 DEF Delivered
  <2>2. CASE c # o.ch
    BY <1>5, <2>2 DEF Delivered
  <2>3. CASE c = o.ch
    <3>1. sent'[c] = sent[c] + 1 /\ Len(inflight'[c]) = Len(inflight[c]) + 1
      BY <1>5, <1>6, <2>3
    <3> QED
      BY <2>1, <3>1 DEF Delivered
  <2> QED
    BY <2>2, <2>3
<1>8. MessagesOK'
  <2>1. inflight' \in [Channels -> Seq(Message)] /\ sent' \in [Channels -> Nat]
    BY <1>1, <1>2, <1>3, <1>4 DEF MessagesOK
  <2>2. ASSUME NEW c \in Channels
        PROVE  /\ Len(inflight'[c]) <= sent'[c] /\ sent'[c] <= MaxSends[c]
               /\ \A i \in 1..Len(inflight'[c]) :
                    inflight'[c][i].ch = c /\ inflight'[c][i].no = Delivered(c) + i
    <3>1. CASE c # o.ch
      BY <1>5, <3>1 DEF MessagesOK
    <3>2. CASE c = o.ch
      <4>1. /\ Len(inflight[c]) <= sent[c]
            /\ \A i \in 1..Len(inflight[c]) :
                 inflight[c][i].ch = c /\ inflight[c][i].no = Delivered(c) + i
        BY DEF MessagesOK
      <4>2. m.ch = c /\ m.no = Delivered(c) + (Len(inflight[c]) + 1)
        BY <1>1, <1>4, <3>2 DEF Started, Delivered
      <4>3. Len(inflight'[c]) <= sent'[c] /\ sent'[c] <= MaxSends[c]
        BY <1>1, <1>3, <1>4, <1>5, <1>6, <3>2, <4>1
      <4>4. ASSUME NEW i \in 1..Len(inflight'[c])
            PROVE  inflight'[c][i].ch = c /\ inflight'[c][i].no = Delivered(c) + i
        <5>1. CASE i \in 1..Len(inflight[c])
          BY <1>6, <3>2, <4>1, <5>1
        <5>2. CASE i = Len(inflight[c]) + 1
          BY <1>6, <3>2, <4>2, <5>2
        <5> QED
          BY <1>4, <1>6, <3>2, <5>1, <5>2
      <4> QED
        BY <4>3, <4>4
    <3> QED
      BY <3>1, <3>2
  <2> QED
    BY <1>3, <1>7, <2>1, <2>2 DEF MessagesOK
<1>9. ASSUME NEW c \in Channels, NEW n \in DOMAIN book[c]
      PROVE  n \in DOMAIN book'[c] /\ book'[c][n] = book[c][n]
  <2>1. n \in Known(c) /\ book[c][n] = inflight[c][n - Delivered(c)]
    BY BookKnown
  <2>2. n \in Known(c)' /\ n - Delivered(c) \in 1..Len(inflight[c])
    <3>1. /\ sent[c] \in Nat /\ Len(inflight[c]) \in Nat /\ n \in Delivered(c) + 1 .. sent[c]
          /\ Delivered(c) = sent[c] - Len(inflight[c])
      BY <1>4, <2>1 DEF Known, Delivered
    <3>2. sent'[c] = sent[c] \/ sent'[c] = sent[c] + 1
      BY <1>5
    <3>3. Known(c)' = Delivered(c) + 1 .. sent'[c]
      BY <1>7 DEF Known
    <3> QED
      BY <3>1, <3>2, <3>3
  <2>3. n \in DOMAIN book'[c] /\ book'[c][n] = inflight'[c][n - Delivered(c)]
    BY <1>7, <2>2 DEF book
  <2>4. inflight'[c][n - Delivered(c)] = inflight[c][n - Delivered(c)]
    BY <1>5, <1>6, <2>2
  <2> QED
    BY <2>1, <2>3, <2>4
<1>10. sent'[o.ch] \in DOMAIN book'[o.ch] /\ book'[o.ch][sent'[o.ch]] = m
  <2>1. sent'[o.ch] \in Known(o.ch)' /\ sent'[o.ch] - Delivered(o.ch) = Len(inflight[o.ch]) + 1
    <3>1. /\ sent[o.ch] \in Nat /\ Len(inflight[o.ch]) \in Nat
          /\ Delivered(o.ch) = sent[o.ch] - Len(inflight[o.ch])
          /\ Len(inflight[o.ch]) <= sent[o.ch]
      BY <1>1, <1>4 DEF Delivered, MessagesOK
    <3>2. sent'[o.ch] = sent[o.ch] + 1
      BY <1>5
    <3>3. Known(o.ch)' = Delivered(o.ch) + 1 .. sent'[o.ch]
      BY <1>1, <1>7 DEF Known
    <3> QED
      BY <3>1, <3>2, <3>3
  <2>2. /\ sent'[o.ch] \in DOMAIN book'[o.ch]
        /\ book'[o.ch][sent'[o.ch]] = inflight'[o.ch][sent'[o.ch] - Delivered(o.ch)]
    BY <1>1, <1>7, <2>1 DEF book
  <2> QED
    BY <1>6, <2>1, <2>2
<1> QED
  BY <1>1, <1>2, <1>5, <1>7, <1>8, <1>9, <1>10 DEF Extends

-----------------------------------------------------------------------------
(* A thread that has cut its next chunk from the bytes b that are left.    *)
IsNewest(B, K, m) ==
  m \in Message /\ m.no = K[m.ch] /\ m.no \in DOMAIN B[m.ch] /\ m = B[m.ch][m.no]

IsTail(m, b) ==
  /\ b \in Seq(Octet) /\ Len(b) \in 1..m.size
  /\ \A i \in 1..Len(b) : b[i] = Byte(m.ch, m.no, m.size - Len(b) + i)

IsHeadAt(h, m, at) ==
  h \in Cell /\ h.kind = "head" /\ h.ch = m.ch /\ h.no = m.no /\ h.at = at

HasCut(s, m, h, b) ==
  s = [msg |-> m, chunk |-> <<h>> \o Take(b, ChunkSize), begun |-> FALSE,
       rest |-> Drop(b, ChunkSize)]

LEMMA FreshChunk ==
  ASSUME NEW B, NEW K, NEW m, NEW b, NEW h, NEW s, IsNewest(B, K, m), IsTail(m, b),
         IsHeadAt(h, m, m.size - Len(b) + 1), HasCut(s, m, h, b)
  PROVE  IsSending(B, K, s) /\ s.chunk[1] = h
<1> DEFINE k == Least(ChunkSize, Len(b))
<1>0. /\ m \in Message /\ m.no = K[m.ch] /\ m.no \in DOMAIN B[m.ch] /\ m = B[m.ch][m.no]
      /\ b \in Seq(Octet) /\ Len(b) \in 1..m.size
      /\ \A i \in 1..Len(b) : b[i] = Byte(m.ch, m.no, m.size - Len(b) + i)
      /\ h \in Cell /\ h.kind = "head" /\ h.ch = m.ch /\ h.no = m.no
      /\ h.at = m.size - Len(b) + 1 /\ s.msg = m /\ s.begun = FALSE
      /\ s.chunk = <<h>> \o Take(b, ChunkSize) /\ s.rest = Drop(b, ChunkSize)
  BY DEF IsNewest, IsTail, IsHeadAt, HasCut
<1>00. s = [msg |-> s.msg, chunk |-> s.chunk, begun |-> s.begun, rest |-> s.rest]
  BY DEF HasCut
<1>1. /\ k \in Nat /\ k > 0 /\ k <= Len(b) /\ Len(b) \in Nat
      /\ k = ChunkSize \/ k = Len(b)
      /\ ChunkSize \in Nat /\ m.size \in Nat /\ Len(b) <= m.size
  BY <1>0, Sizes DEF Least, Message
<1>2. /\ Take(b, ChunkSize) \in Seq(Octet) /\ Len(Take(b, ChunkSize)) = k
      /\ \A i \in 1..k : Take(b, ChunkSize)[i] = b[i]
  BY <1>0, <1>1, TakeSeq
<1>3. /\ s.rest \in Seq(Octet) /\ Len(s.rest) = Len(b) - k
      /\ \A i \in 1..Len(b) - k : s.rest[i] = b[ChunkSize + i]
  <2>1. /\ Drop(b, ChunkSize) \in Seq(Octet)
        /\ Len(Drop(b, ChunkSize)) = Len(b) - Least(ChunkSize, Len(b))
        /\ \A i \in 1..Len(Drop(b, ChunkSize)) : Drop(b, ChunkSize)[i] = b[ChunkSize + i]
    <3>1. ChunkSize \in Nat
      BY <1>1
    <3> QED
      BY <1>0, <3>1, DropSeq, Zenon
  <2> QED
    BY <1>0, <2>1
<1>4. <<h>> \in Seq(Cell) /\ Len(<<h>>) = 1 /\ <<h>>[1] = h
  BY <1>0
<1>5. Take(b, ChunkSize) \in Seq(Cell)
  BY <1>2, OctetsAreCells
<1>6. /\ s.chunk \in Seq(Cell) /\ Len(s.chunk) = 1 + k /\ s.chunk[1] = h
      /\ \A i \in 1..k : s.chunk[1 + i] = b[i]
  <2>1. /\ <<h>> \o Take(b, ChunkSize) \in Seq(Cell)
        /\ Len(<<h>> \o Take(b, ChunkSize)) = Len(<<h>>) + Len(Take(b, ChunkSize))
        /\ \A i \in 1..Len(<<h>>) : (<<h>> \o Take(b, ChunkSize))[i] = <<h>>[i]
        /\ \A i \in 1..Len(Take(b, ChunkSize)) :
             (<<h>> \o Take(b, ChunkSize))[Len(<<h>>) + i] = Take(b, ChunkSize)[i]
    BY <1>4, <1>5, CatSeq
  <2> QED
    BY <1>0, <1>1, <1>2, <1>4, <2>1
<1>7. Upto(s) = m.size - (Len(b) - k) /\ InHand(s) = k
  BY <1>0, <1>1, <1>3, <1>6 DEF Upto, InHand
<1>8. ASSUME NEW i \in 1..Len(s.rest)
      PROVE  s.rest[i] = Byte(m.ch, m.no, Upto(s) + i)
  <2>1. k = ChunkSize /\ ChunkSize + i \in 1..Len(b)
    BY <1>1, <1>3
  <2>2. m.size - Len(b) + (ChunkSize + i) = Upto(s) + i
    BY <1>1, <1>3, <1>7, <2>1
  <2>3. b[ChunkSize + i] = Byte(m.ch, m.no, m.size - Len(b) + (ChunkSize + i))
    BY <1>0, <2>1
  <2> QED
    BY <1>3, <2>2, <2>3
<1>9. ASSUME NEW i \in 1..Len(s.chunk), i > 1
      PROVE  s.chunk[i] = Byte(m.ch, m.no, Upto(s) - Len(s.chunk) + i)
  <2>1. i - 1 \in 1..k /\ i - 1 \in 1..Len(b) /\ 1 + (i - 1) = i
    BY <1>1, <1>6, <1>9
  <2>2. m.size - Len(b) + (i - 1) = Upto(s) - Len(s.chunk) + i
    <3>1. \A z, x, y \in Nat : \A j \in Int :
            z - x + (j - 1) = z - (x - y) - (1 + y) + j
      OBVIOUS
    <3>2. i \in Int
      BY <1>1, <1>6
    <3>3. /\ m.size \in Nat /\ Len(b) \in Nat /\ k \in Nat
          /\ Len(s.chunk) = 1 + k /\ Upto(s) = m.size - (Len(b) - k)
      BY <1>1, <1>6, <1>7
    <3> QED
      BY <3>1, <3>2, <3>3
  <2>3. b[i - 1] = Byte(m.ch, m.no, m.size - Len(b) + (i - 1))
    BY <1>0, <2>1
  <2>4. s.chunk[i] = b[i - 1]
    BY <1>6, <2>1
  <2> QED
    BY <2>2, <2>3, <2>4
<1>10. InHand(s) \in 1..Upto(s) /\ Upto(s) - InHand(s) + 1 = h.at
  BY <1>0, <1>1, <1>7
<1>11. Span(B, h) = InHand(s)
  <2>1. Of(B, h) = m
    BY <1>0 DEF Of
  <2>2. \A x, y \in Nat : x - (x - y + 1) + 1 = y
    OBVIOUS
  <2>3. m.size - h.at + 1 = Len(b)
    BY <1>0, <1>1, <2>2
  <2> QED
    BY <1>7, <2>1, <2>3 DEF Span
<1> QED
  BY <1>0, <1>00, <1>3, <1>6, <1>8, <1>9, <1>10, <1>11 DEF IsSending

(* The part of the reader does not change with the writer's steps.         *)
LEMMA ReaderStays ==
  ASSUME MessagesOK, ReaderOK, UNCHANGED readerVars, Extends(book', book),
         \A c \in Channels : Delivered(c)' = Delivered(c),
         \A c \in Channels : inflight[c] # <<>> => inflight'[c] # <<>>
  PROVE  ReaderOK' /\ peer' = peer
<1>1. in' = in /\ clock' = clock /\ received' = received
  BY DEF readerVars
<1>2. ASSUME NEW c \in Channels, inflight[c] # <<>>
      PROVE  book'[c][Delivered(c) + 1] = book[c][Delivered(c) + 1]
  <2>1. Delivered(c) + 1 \in Known(c) /\ DOMAIN book[c] = Known(c)
    <3>1. Len(inflight[c]) \in Nat \ {0} /\ sent[c] \in Nat
      BY <1>2 DEF MessagesOK
    <3> QED
      BY <3>1, BookKnown DEF Known, Delivered
  <2> QED
    BY <2>1 DEF Extends
<1>3. ASSUME NEW c \in Channels, in'[c] # NONE
      PROVE  /\ in'[c].body = <<>> => ~in'[c].abs
             /\ in'[c].body # <<>> =>
                  /\ inflight'[c] # <<>>
                  /\ Receives(in'[c], book'[c][Delivered(c)' + 1], c, clock'[c])
  BY <1>1, <1>2, <1>3 DEF ReaderOK
<1>4. ReaderOK'
  BY <1>1, <1>3 DEF ReaderOK
<1>5. peer' = peer
  BY <1>1 DEF peer
<1> QED
  BY <1>4, <1>5

(* What is said of headers of the wire holds when messages are added.      *)
LEMMA WireStays ==
  ASSUME IsWire(book, wire), wire' = wire, Extends(book', book), OrderOK
  PROVE  /\ IsWire(book', wire') /\ OrderOK'
         /\ \A i \in 1..Len(wire) : wire[i].kind = "head" =>
              /\ Of(book', wire[i]) = Of(book, wire[i])
              /\ Span(book', wire[i]) = Span(book, wire[i])
<1>1. ASSUME NEW i \in 1..Len(wire), wire[i].kind = "head"
      PROVE  /\ Of(book', wire[i]) = Of(book, wire[i])
             /\ Span(book', wire[i]) = Span(book, wire[i])
             /\ HeadPlace(book', wire[i]) = HeadPlace(book, wire[i])
  BY <1>1, WireHead, ExtendedHead
<1>2. OrderOK'
  <2>1. ASSUME NEW c \in Channels, NEW i \in HeadsTo(wire, c, Len(wire)),
               NEW j \in HeadsTo(wire, c, Len(wire)), i < j
        PROVE  NotAfter(HeadPlace(book', wire[i]), wire[j])
    <3>1. NotAfter(HeadPlace(book, wire[i]), wire[j])
      BY <2>1 DEF OrderOK, InOrder
    <3>2. HeadPlace(book', wire[i]) = HeadPlace(book, wire[i])
      BY <1>1 DEF HeadsTo
    <3> QED
      BY <3>1, <3>2
  <2> QED
    BY <2>1 DEF OrderOK, InOrder
<1>3. IsWire(book', wire)
  BY ExtendedWire
<1> QED
  BY <1>1, <1>2, <1>3

LEMMA StartSends ==
  ASSUME ChunkInv, NEW t \in Threads, NEW o \in Offers, Start(t, o)
  PROVE  /\ sending'[t].msg = Started(o) /\ sending'[t].begun = FALSE
         /\ sending'[t].chunk[1] = Header(o, Started(o).no)
         /\ IsSending(book', sent', sending'[t])
         /\ \A u \in Threads \ {t} : sending'[u] = sending[u]
         /\ sending' = [u \in Threads |-> sending'[u]]
<1> DEFINE m == Started(o)
           h == Header(o, m.no)
           s == [msg |-> m, chunk |-> <<h>> \o Take(Body(m), ChunkSize), begun |-> FALSE,
                 rest |-> Drop(Body(m), ChunkSize)]
<1>1. MessagesOK /\ SendersOK
  BY DEF ChunkInv
<1>2. /\ o.ch \in Channels /\ m \in Message /\ sent'[o.ch] = sent[o.ch] + 1
      /\ sent'[o.ch] \in DOMAIN book'[o.ch] /\ book'[o.ch][sent'[o.ch]] = m
  BY <1>1, StartsMessage
<1>3. m.ch = o.ch /\ m.no = sent[o.ch] + 1
  BY DEF Started
<1>4. /\ sending' = [sending EXCEPT ![t] = s]
      /\ sending = [u \in Threads |-> sending[u]]
  BY <1>1 DEF Start, Started, SendersOK
<1>5. /\ sending'[t] = s /\ \A u \in Threads \ {t} : sending'[u] = sending[u]
      /\ sending' = [u \in Threads |-> sending'[u]]
  BY <1>4
<1>6. /\ m.no \in Nat \ {0} /\ m.size \in Nat \ {0}
      /\ m.ch \in Channels
  BY <1>2 DEF Message
<1>7. /\ Body(m) \in Seq(Octet) /\ Len(Body(m)) = m.size
      /\ \A i \in 1..m.size : Body(m)[i] = Byte(m.ch, m.no, i)
  <2>1. m.no \in Nat /\ m.size \in Nat
    BY <1>6
  <2> QED
    BY <1>6, <2>1, BodySeq
<1>8. h \in Cell /\ h.kind = "head" /\ h.ch = m.ch /\ h.no = m.no /\ h.at = 1
  <2>1. m.no \in Nat
    BY <1>6
  <2>2. m.type = o.type /\ m.size = o.size /\ m.ts = o.ts /\ m.timed = Timed(o)
    BY DEF Started
  <2> HIDE DEF m
  <2> QED
    BY <1>1, <1>3, <2>1, <2>2, HeaderTells
<1>9. IsSending(book', sent', s) /\ s.chunk[1] = h
  <2>1. m.no = sent'[m.ch] /\ m.no \in DOMAIN book'[m.ch] /\ m = book'[m.ch][m.no]
    BY <1>2, <1>3
  <2>2. Len(Body(m)) \in 1..m.size /\ h.at = m.size - Len(Body(m)) + 1
    BY <1>6, <1>7, <1>8
  <2>3. \A i \in 1..Len(Body(m)) : Body(m)[i] = Byte(m.ch, m.no, m.size - Len(Body(m)) + i)
    BY <1>6, <1>7
  <2>5. IsNewest(book', sent', m) /\ IsTail(m, Body(m))
    BY <1>2, <1>7, <2>1, <2>2, <2>3 DEF IsNewest, IsTail
  <2>6. IsHeadAt(h, m, m.size - Len(Body(m)) + 1) /\ HasCut(s, m, h, Body(m))
    BY <1>8, <2>2 DEF IsHeadAt, HasCut
  <2> HIDE DEF m, h, s
  <2> QED
    BY <2>5, <2>6, FreshChunk
<1> QED
  BY <1>5, <1>9

LEMMA StartKeeps ==
  ASSUME ChunkInv, NEW t \in Threads, NEW o \in Offers, Start(t, o), ~crossed'
  PROVE  ChunkInv'
<1> DEFINE c0 == o.ch
<1>1. /\ MessagesOK /\ SendersOK /\ IsWire(book, wire) /\ CutsOK /\ ChannelsOK /\ OrderOK
      /\ ReaderOK
  BY DEF ChunkInv
<1>2. /\ open /\ ~Busy(t) /\ wire' = wire /\ open' = open /\ out' = out
      /\ UNCHANGED readerVars /\ crossed' = \E u \in Threads : Busy(u) /\ sending[u].msg.ch = c0
  BY DEF Start
<1>3. /\ c0 \in Channels /\ Started(o) \in Message /\ MessagesOK' /\ Extends(book', book)
      /\ \A c \in Channels : Delivered(c)' = Delivered(c) /\ (c # c0 => sent'[c] = sent[c])
      /\ sent'[c0] = sent[c0] + 1
  BY <1>1, StartsMessage
<1>4. /\ sending'[t].msg = Started(o) /\ sending'[t].begun = FALSE
      /\ sending'[t].chunk[1] = Header(o, Started(o).no)
      /\ IsSending(book', sent', sending'[t])
      /\ \A u \in Threads \ {t} : sending'[u] = sending[u]
      /\ sending' = [u \in Threads |-> sending'[u]]
  BY StartSends
<1>5. \A u \in Threads : ~On(sending[u], c0)
  BY <1>2 DEF On, Busy
<1>6. Started(o).ch = c0 /\ Started(o) # NONE /\ Started(o).no = sent[c0] + 1
  BY <1>3, NullAssumption DEF Started
<1>7. \A u \in Threads : sending[u].begun = TRUE => u # t
  BY <1>1, <1>2 DEF SendersOK, Idle
<1>8. IsBook(book) /\ IsBook(book)'
  BY <1>1, <1>3, BookKept, PTL
<1>9. ASSUME NEW u \in Threads, Busy(u)
      PROVE  /\ u # t /\ sending'[u] = sending[u] /\ IsSending(book, sent, sending[u])
             /\ IsSending(book', sent', sending[u])
             /\ sending[u].msg.ch # c0
  <2>1. IsSending(book, sent, sending[u]) /\ u # t
    BY <1>1, <1>2, <1>9 DEF SendersOK
  <2>2. sending[u].msg.ch \in Channels /\ sending[u].msg.ch # c0
    BY <1>5, <1>9, <2>1, SenderFacts DEF On, Busy
  <2>3. sent'[sending[u].msg.ch] = sent[sending[u].msg.ch]
    BY <1>3, <2>2
  <2> QED
    BY <1>3, <1>4, <1>8, <2>1, <2>2, <2>3, ExtendedSender
<1>10. SendersOK'
  <2>1. ASSUME NEW u \in Threads
        PROVE  IF Busy(u)' THEN open' /\ IsSending(book', sent', sending'[u])
               ELSE sending'[u] = Idle
    <3>1. CASE u = t
      BY <1>2, <1>4, <3>1, <1>6 DEF Busy
    <3>2. CASE u # t
      <4>1. sending'[u] = sending[u]
        BY <1>4, <3>2
      <4>2. CASE Busy(u)
        BY <1>2, <1>9, <4>1, <4>2 DEF Busy
      <4>3. CASE ~Busy(u)
        BY <1>1, <4>1, <4>3 DEF Busy, SendersOK
      <4> QED
        BY <4>2, <4>3
    <3> QED
      BY <3>1, <3>2
  <2>2. ASSUME NEW u \in Threads, NEW v \in Threads, u # v
        PROVE  /\ Busy(u)' /\ Busy(v)' => sending'[u].msg.ch # sending'[v].msg.ch
               /\ ~(sending'[u].begun /\ sending'[v].begun)
    <3>1. \A x \in Threads \ {t} : /\ Busy(x)' <=> Busy(x)
                                   /\ Busy(x) => sending'[x].msg.ch # c0
                                   /\ sending'[x] = sending[x]
      BY <1>4, <1>9 DEF Busy
    <3>2. CASE u # t /\ v # t
      BY <1>1, <2>2, <3>1, <3>2 DEF SendersOK
    <3>3. CASE u = t \/ v = t
      BY <1>4, <1>6, <2>2, <3>1, <3>3
    <3> QED
      BY <3>2, <3>3
  <2> QED
    BY <1>4, <2>1, <2>2 DEF SendersOK
<1>11. /\ IsWire(book', wire') /\ OrderOK'
       /\ \A i \in 1..Len(wire) : wire[i].kind = "head" =>
            /\ Of(book', wire[i]) = Of(book, wire[i])
            /\ Span(book', wire[i]) = Span(book, wire[i])
  BY <1>1, <1>2, <1>3, WireStays
<1>12. CutsOK'
  <2>1. ASSUME open, \A u \in Threads : ~sending'[u].begun,
               NEW i \in 1..Len(wire), wire[i].kind = "head"
        PROVE  IsWhole(book', wire, i)
    <3>1. \A u \in Threads : ~sending[u].begun
      BY <1>4, <1>7, <2>1
    <3>2. IsWhole(book, wire, i)
      BY <1>1, <2>1, <3>1 DEF CutsOK
    <3> QED
      BY <1>11, <2>1, <3>2 DEF IsWhole
  <2>2. ASSUME NEW u \in Threads, sending'[u].begun
        PROVE  \E i \in 1..Len(wire) : IsCutFor(book', wire, sending'[u], i)
    <3>1. u # t /\ sending'[u] = sending[u]
      BY <1>4, <2>2
    <3>2. PICK i \in 1..Len(wire) : IsCutFor(book, wire, sending[u], i)
      BY <1>1, <2>2, <3>1 DEF CutsOK
    <3>3. Span(book', wire[i]) = Span(book, wire[i])
      BY <1>11, <3>2 DEF IsCutFor
    <3> QED
      BY <3>1, <3>2, <3>3 DEF IsCutFor
  <2> QED
    BY <1>2, <2>1, <2>2 DEF CutsOK
<1>13. ReaderOK' /\ peer' = peer
  <2>1. ASSUME NEW c \in Channels, inflight[c] # <<>> PROVE inflight'[c] # <<>>
    <3>1. Len(inflight[c]) \in Nat \ {0} /\ sent[c] \in Nat
      BY <1>1, <2>1 DEF MessagesOK
    <3>2. sent[c] - Len(inflight[c]) = sent'[c] - Len(inflight'[c])
      BY <1>3 DEF Delivered
    <3>3. sent'[c] = sent[c] \/ sent'[c] = sent[c] + 1
      BY <1>3
    <3>4. inflight'[c] \in Seq(Message) /\ Len(inflight'[c]) \in Nat
      BY <1>3 DEF MessagesOK
    <3>5. Len(inflight'[c]) # 0
      BY <3>1, <3>2, <3>3, <3>4
    <3> QED
      BY <3>4, <3>5
  <2> QED
    BY <1>1, <1>2, <1>3, <2>1, ReaderStays
<1>14. ChannelsOK'
  <2>1. SUFFICES ASSUME NEW c \in Channels
        PROVE  /\ Chain(book', wire, c, peer[c], Len(wire))
               /\ Ends(book', sending', sent'[c], out[c], c,
                       PlaceAt(book', wire, c, peer[c], Len(wire)))
    BY <1>2, <1>13, <2>1 DEF ChannelsOK
  <2> DEFINE p == PlaceAt(book, wire, c, peer[c], Len(wire))
  <2>2. /\ Chain(book', wire, c, peer[c], Len(wire))
        /\ PlaceAt(book', wire, c, peer[c], Len(wire)) = p
    <3>1. Len(wire) \in Nat
      BY <1>1 DEF IsWire
    <3>2. SamePrefix(wire, wire, Len(wire)) /\ SameHeads(book', book, wire, c, Len(wire))
      BY <1>11 DEF HeadsTo, SameHeads, SamePrefix
    <3>3. Chain(book, wire, c, peer[c], Len(wire))
      BY <1>1 DEF ChannelsOK
    <3> QED
      BY <3>1, <3>2, <3>3, ChainPrefix
  <2>3. Ends(book, sending, sent[c], out[c], c, p)
    BY <1>1, <1>2 DEF ChannelsOK
  <2> HIDE DEF p
  <2>4. CASE c # c0
    <3>1. ~On(sending'[t], c) /\ ~On(sending[t], c)
      BY <1>2, <1>4, <1>6, <2>4 DEF On, Busy
    <3>2. \A u \in Threads : On(sending'[u], c) <=> On(sending[u], c)
      BY <1>4, <3>1
    <3>3. ASSUME NEW u \in Threads, On(sending'[u], c)
          PROVE  Continues(book', sending'[u], p)
      <4>1. On(sending[u], c) /\ u # t /\ Busy(u) /\ sending'[u] = sending[u]
        BY <1>4, <3>1, <3>2, <3>3 DEF On, Busy
      <4>2. Continues(book, sending[u], p)
        BY <2>3, <4>1 DEF Ends
      <4>3. ~sending[u].begun => Of(book, sending[u].chunk[1]) = sending[u].msg
                                 /\ Of(book', sending[u].chunk[1]) = sending[u].msg
        BY <1>8, <1>9, <4>1, SenderHead
      <4> QED
        BY <4>1, <4>2, <4>3, SameFits DEF Continues
    <3>4. sent'[c] = sent[c]
      BY <1>3, <2>4
    <3> QED
      BY <2>2, <2>3, <3>2, <3>3, <3>4 DEF Ends
  <2>5. CASE c = c0
    <3>1. p.no = sent[c] + 1 /\ p.at = 1 /\ Serves(p.base, WriterBase(out[c]))
      BY <1>5, <2>3, <2>5 DEF Ends
    <3>2. \A u \in Threads : On(sending'[u], c) <=> u = t
      BY <1>4, <1>5, <1>6, <2>5 DEF On
    <3>3. Fits(book', Header(o, Started(o).no), p)
      <4> DEFINE h == Header(o, Started(o).no)
      <4>1. Tells(h, Started(o), WriterBase(out[c])) /\ h.no = Started(o).no /\ h.at = 1
        <5>1. Started(o).no \in Nat
          BY <1>3 DEF Message
        <5>2. /\ Started(o).type = o.type /\ Started(o).size = o.size /\ Started(o).ts = o.ts
              /\ Started(o).timed = Timed(o)
          BY DEF Started
        <5> QED
          BY <1>1, <2>5, <5>1, <5>2, HeaderTells
      <4>2. Of(book', h) = Started(o)
        BY <1>4, <1>8, SenderHead
      <4>3. Tells(h, Started(o), p.base)
        BY <3>1, <4>1, TellsBetter
      <4> QED
        BY <1>6, <2>5, <3>1, <4>1, <4>2, <4>3 DEF Fits
    <3>4. Continues(book', sending'[t], p)
      BY <1>4, <3>3 DEF Continues
    <3> QED
      BY <2>2, <3>2, <3>4 DEF Ends
  <2> QED
    BY <2>4, <2>5
<1> QED
  BY <1>3, <1>10, <1>11, <1>12, <1>13, <1>14 DEF ChunkInv

-----------------------------------------------------------------------------
(* The writer puts the first k cells of its chunk on the wire.             *)

LEMMA BytesBehind ==
  ASSUME NEW B, NEW w, IsWire(B, w), NEW i \in 1..Len(w), w[i].kind = "head",
         NEW j \in 1..Len(w), i < j, j <= i + Span(B, w[i]), Span(B, w[i]) \in Nat
  PROVE  w[j] = Byte(w[i].ch, w[i].no, w[i].at + (j - i) - 1) /\ w[j].kind # "head"
<1>1. IsChunk(B, w, i)
  BY WireHead
<1>2. Len(w) \in Nat
  BY DEF IsWire
<1>3. j - i \in 1..Span(B, w[i]) /\ i + (j - i) = j
  BY <1>2
<1>4. i + (j - i) <= Len(w) =>
        w[i + (j - i)] = Byte(w[i].ch, w[i].no, w[i].at + (j - i) - 1)
  BY <1>1, <1>3 DEF IsChunk
<1>5. w[j] = Byte(w[i].ch, w[i].no, w[i].at + (j - i) - 1)
  BY <1>2, <1>3, <1>4
<1>6. w[j].kind = "byte"
  BY <1>5 DEF Byte
<1> QED
  BY <1>5, <1>6

LEMMA HeadsApart ==
  ASSUME NEW B, IsBook(B), NEW w, IsWire(B, w), NEW i \in 1..Len(w), w[i].kind = "head",
         NEW j \in 1..Len(w), w[j].kind = "head", i < j
  PROVE  i + Span(B, w[i]) < j
<1>1. Span(B, w[i]) \in Nat
  <2>1. Span(B, w[i]) \in Nat \ {0}
    BY WireHead, HeadFacts
  <2> QED
    BY <2>1
<1>2. ~(j <= i + Span(B, w[i]))
  BY <1>1, BytesBehind
<1> QED
  BY <1>1, <1>2

(* The chunk of a thread in a wire: it ends with cell e, and every other   *)
(* chunk is before it.                                                     *)
IsNewestChunk(B, w, s, e, j) ==
  /\ w[j].kind = "head" /\ w[j].ch = s.msg.ch /\ w[j].no = s.msg.no
  /\ w[j].at + Span(B, w[j]) = Upto(s) + 1
  /\ j + Span(B, w[j]) = e
  /\ \A i \in 1..Len(w) : w[i].kind = "head" => i = j \/ i + Span(B, w[i]) < j

MayGo(B, w, s) ==
  /\ s.begun => \E i \in 1..Len(w) : IsCutFor(B, w, s, i)
  /\ ~s.begun => \A i \in 1..Len(w) : w[i].kind = "head" => IsWhole(B, w, i)

Puts(w2, w, s, k) ==
  /\ w2 \in Seq(Cell) /\ Len(w2) = Len(w) + k /\ SamePrefix(w2, w, Len(w))
  /\ \A a \in 1..k : w2[Len(w) + a] = s.chunk[a]

NewHeads(w2, w, s) ==
  \A i \in Len(w) + 1..Len(w2) : w2[i].kind = "head" => i = Len(w) + 1 /\ ~s.begun

LEMMA PutsPart ==
  ASSUME NEW w \in Seq(Cell), NEW s, s.chunk \in Seq(Cell), NEW k \in 1..Len(s.chunk)
  PROVE  Puts(w \o Take(s.chunk, k), w, s, k)
<1>1. k \in Nat /\ Least(k, Len(s.chunk)) = k
  BY DEF Least
<1>2. /\ Take(s.chunk, k) \in Seq(Cell) /\ Len(Take(s.chunk, k)) = k
      /\ \A a \in 1..k : Take(s.chunk, k)[a] = s.chunk[a]
  BY <1>1, TakeSeq
<1>3. /\ w \o Take(s.chunk, k) \in Seq(Cell) /\ Len(w \o Take(s.chunk, k)) = Len(w) + k
      /\ \A i \in 1..Len(w) : (w \o Take(s.chunk, k))[i] = w[i]
      /\ \A i \in 1..k : (w \o Take(s.chunk, k))[Len(w) + i] = Take(s.chunk, k)[i]
  <2> DEFINE v == Take(s.chunk, k)
  <2>1. v \in Seq(Cell) /\ Len(v) = k
    BY <1>2
  <2> HIDE DEF v
  <2>2. /\ w \o v \in Seq(Cell) /\ Len(w \o v) = Len(w) + Len(v)
        /\ \A i \in 1..Len(w) : (w \o v)[i] = w[i]
        /\ \A i \in 1..Len(v) : (w \o v)[Len(w) + i] = v[i]
    <3>1. \A x, y \in Seq(Cell) :
            /\ x \o y \in Seq(Cell) /\ Len(x \o y) = Len(x) + Len(y)
            /\ \A i \in 1..Len(x) : (x \o y)[i] = x[i]
            /\ \A i \in 1..Len(y) : (x \o y)[Len(x) + i] = y[i]
      BY CatSeq
    <3> QED
      BY <2>1, <3>1
  <2>3. /\ w \o v \in Seq(Cell) /\ Len(w \o v) = Len(w) + k
        /\ \A i \in 1..Len(w) : (w \o v)[i] = w[i]
        /\ \A i \in 1..k : (w \o v)[Len(w) + i] = v[i]
    BY <2>1, <2>2
  <2> QED
    BY <2>3 DEF v
<1> QED
  BY <1>2, <1>3 DEF Puts, SamePrefix

(* The bytes a thread puts on the wire.                                    *)
LEMMA PutBytes ==
  ASSUME NEW B, NEW K, NEW s, IsSending(B, K, s), NEW k \in 1..Len(s.chunk),
         NEW w \in Seq(Cell), NEW w2, Puts(w2, w, s, k),
         NEW a \in 1..k, s.begun \/ a > 1
  PROVE  w2[Len(w) + a] = Byte(s.msg.ch, s.msg.no, Upto(s) - Len(s.chunk) + a)
<1>1. s.chunk \in Seq(Cell)
  BY DEF IsSending
<1>2. a \in 1..Len(s.chunk)
  BY <1>1
<1> QED
  BY <1>2 DEF IsSending, Puts

LEMMA PutHeads ==
  ASSUME NEW B, NEW K, NEW s, IsSending(B, K, s), NEW k \in 1..Len(s.chunk),
         NEW w \in Seq(Cell), NEW w2, Puts(w2, w, s, k)
  PROVE  NewHeads(w2, w, s)
<1>1. SUFFICES ASSUME NEW i \in Len(w) + 1..Len(w2), w2[i].kind = "head"
               PROVE  i = Len(w) + 1 /\ ~s.begun
  BY DEF NewHeads
<1>2. Len(w) \in Nat /\ k \in Nat /\ Len(w2) = Len(w) + k
  BY DEF Puts, IsSending
<1>3. i - Len(w) \in 1..k /\ Len(w) + (i - Len(w)) = i
  BY <1>2
<1>4. s.begun \/ i - Len(w) > 1 => w2[i].kind = "byte"
  <2>1. \A c, n, a : Byte(c, n, a).kind = "byte"
    BY DEF Byte
  <2>2. ASSUME NEW a \in 1..k, Len(w) + a = i, s.begun \/ a > 1 PROVE w2[i].kind = "byte"
    <3>1. w2[Len(w) + a] = Byte(s.msg.ch, s.msg.no, Upto(s) - Len(s.chunk) + a)
      BY <2>2, PutBytes
    <3> QED
      BY <2>1, <2>2, <3>1
  <2> QED
    BY <1>3, <2>2
<1>5. ~s.begun /\ ~(i - Len(w) > 1)
  BY <1>1, <1>4
<1>6. \A x \in Nat : \A y \in Int : y - x \in 1..k /\ ~(y - x > 1) /\ x + (y - x) = y => y = x + 1
  BY <1>2
<1>7. i \in Int
  BY <1>2
<1> QED
  BY <1>2, <1>3, <1>5, <1>7, <1>6, Zenon

LEMMA WriteBegins ==
  ASSUME NEW B, IsBook(B), NEW K, NEW s, IsSending(B, K, s), NEW k \in 1..Len(s.chunk),
         NEW w, IsWire(B, w), NEW w2, Puts(w2, w, s, k), MayGo(B, w, s), ~s.begun
  PROVE  /\ IsWire(B, w2) /\ Len(w) + 1 \in 1..Len(w2) /\ w2[Len(w) + 1] = s.chunk[1]
         /\ IsNewestChunk(B, w2, s, Len(w) + Len(s.chunk), Len(w) + 1)
<1> DEFINE j == Len(w) + 1
           h == s.chunk[1]
<1>1. /\ w \in Seq(Cell) /\ Len(w) \in Nat /\ k \in Nat /\ k >= 1 /\ k <= Len(s.chunk)
      /\ Len(s.chunk) \in Nat
  BY DEF IsWire, IsSending
<1>2. /\ w2 \in Seq(Cell) /\ Len(w2) = Len(w) + k
      /\ \A i \in 1..Len(w) : w2[i] = w[i]
      /\ w2[j] = h
  BY <1>1 DEF Puts, SamePrefix
<1>3. /\ IsHead(B, h) /\ h.ch = s.msg.ch /\ h.no = s.msg.no
      /\ h.at + Span(B, h) = Upto(s) + 1 /\ Span(B, h) = Len(s.chunk) - 1
      /\ h.at \in Nat
  <2>1. IsHead(B, h)
    BY SenderHead
  <2>2. h.at \in Nat \ {0}
    BY <2>1, HeadFacts
  <2> QED
    BY <2>1, <2>2, SenderHead
<1> DEFINE n == Span(B, h)
           N == Len(w)
           L == Len(s.chunk)
           U == Upto(s)
           A == h.at
<1>n. /\ n \in Nat /\ N \in Nat /\ L \in Nat /\ U \in Nat /\ A \in Nat /\ k \in Nat
      /\ n = L - 1 /\ A + n = U + 1 /\ k >= 1 /\ k <= L /\ Len(w2) = N + k
  <2>1. Upto(s) \in Nat \ {0}
    BY SenderFacts
  <2>2. Len(s.chunk) \in Nat \ {0}
    BY SenderFacts
  <2>3. n = L - 1 /\ n \in Nat
    BY <1>3, <2>2
  <2> QED
    BY <1>1, <1>2, <1>3, <2>1, <2>2, <2>3
<1>4. \A i \in 1..Len(w2) : w2[i].kind = "head" => i \in 1..Len(w) \/ i = j
  <2>1. NewHeads(w2, w, s)
    BY <1>1, PutHeads
  <2> QED
    BY <1>1, <1>2, <2>1 DEF NewHeads
<1>5. ASSUME NEW i \in 1..Len(w), w[i].kind = "head"
      PROVE  IsChunk(B, w2, i) /\ i + Span(B, w2[i]) < j /\ w2[i] = w[i]
  <2>1. IsChunk(B, w, i) /\ IsHead(B, w[i]) /\ w2[i] = w[i]
    BY <1>2, <1>5, WireHead
  <2>2. Span(B, w[i]) \in Nat
    <3>1. Span(B, w[i]) \in Nat \ {0}
      BY <2>1, HeadFacts
    <3> QED
      BY <3>1
  <2>3. i + Span(B, w[i]) <= Len(w)
    BY <1>5 DEF MayGo, IsWhole
  <2>4. ASSUME NEW a \in 1..Span(B, w[i])
        PROVE  w2[i + a] = Byte(w[i].ch, w[i].no, w[i].at + a - 1)
    <3>1. i + a \in 1..Len(w)
      BY <1>1, <2>2, <2>3
    <3>2. w[i + a] = Byte(w[i].ch, w[i].no, w[i].at + a - 1)
      BY <2>1, <3>1 DEF IsChunk
    <3> QED
      BY <1>2, <3>1, <3>2
  <2>5. w2[i + Span(B, w[i]) + 1].kind = "head"
    <3>1. CASE i + Span(B, w[i]) = Len(w)
      BY <1>2, <1>3, <3>1 DEF IsHead
    <3>2. CASE i + Span(B, w[i]) < Len(w)
      <4>1. w[i + Span(B, w[i]) + 1].kind = "head" /\ i + Span(B, w[i]) + 1 \in 1..Len(w)
        BY <1>1, <2>1, <2>2, <3>2 DEF IsChunk
      <4> QED
        BY <1>2, <4>1
    <3> QED
      BY <1>1, <2>2, <2>3, <3>1, <3>2
  <2>6. IsChunk(B, w2, i)
    BY <2>1, <2>4, <2>5 DEF IsChunk
  <2> QED
    BY <1>1, <2>1, <2>2, <2>3, <2>6
<1>6. IsChunk(B, w2, j)
  <2>1. ASSUME NEW a \in 1..n, j + a <= Len(w2)
        PROVE  w2[j + a] = Byte(h.ch, h.no, h.at + a - 1)
    <3> HIDE DEF n, N, L, U, A
    <3>1. a + 1 \in 1..k /\ a + 1 > 1 /\ N + (a + 1) = N + 1 + a
      BY <1>n, <2>1 DEF N
    <3>2. w2[N + (a + 1)] = Byte(s.msg.ch, s.msg.no, U - L + (a + 1))
      BY <1>1, <3>1, PutBytes DEF N, L, U
    <3>3. U - L + (a + 1) = A + a - 1
      BY <1>n
    <3>4. w2[N + 1 + a] = Byte(s.msg.ch, s.msg.no, A + a - 1)
      BY <3>1, <3>2, <3>3
    <3> QED
      BY <1>3, <3>4 DEF N, A
  <2>2. ~(j + n < Len(w2))
    <3>1. ~(N + 1 + n < N + k)
      <4> HIDE DEF n, N, L, U, A
      <4> QED
        BY <1>n
    <3> QED
      BY <1>n, <3>1
  <2> QED
    BY <1>2, <1>3, <2>1, <2>2 DEF IsChunk
<1>7. IsWire(B, w2)
  <2>1. w2[1].kind = "head"
    <3>1. CASE Len(w) = 0
      BY <1>2, <1>3, <3>1 DEF IsHead
    <3>2. CASE Len(w) # 0
      BY <1>1, <1>2, <3>2 DEF IsWire
    <3> QED
      BY <3>1, <3>2
  <2>2. ASSUME NEW i \in 1..Len(w2), w2[i].kind = "head" PROVE IsChunk(B, w2, i)
    BY <1>2, <1>4, <1>5, <1>6, <2>2
  <2> QED
    BY <1>2, <2>1, <2>2 DEF IsWire
<1>8. IsNewestChunk(B, w2, s, Len(w) + Len(s.chunk), j)
  <2>1. \A i \in 1..Len(w2) : w2[i].kind = "head" => i = j \/ i + Span(B, w2[i]) < j
    BY <1>2, <1>4, <1>5
  <2>2. N + 1 + n = N + L
    <3> HIDE DEF n, N, L, U, A
    <3> QED
      BY <1>n
  <2>3. h.kind = "head"
    BY <1>3 DEF IsHead
  <2> QED
    BY <1>2, <1>3, <2>1, <2>2, <2>3 DEF IsNewestChunk
<1> QED
  BY <1>1, <1>2, <1>7, <1>8

LEMMA WriteGoesOn ==
  ASSUME NEW B, IsBook(B), NEW K, NEW s, IsSending(B, K, s), NEW k \in 1..Len(s.chunk),
         NEW w, IsWire(B, w), NEW w2, Puts(w2, w, s, k), MayGo(B, w, s), s.begun
  PROVE  /\ IsWire(B, w2)
         /\ \E j \in 1..Len(w) : IsNewestChunk(B, w2, s, Len(w) + Len(s.chunk), j)
<1>1. PICK j \in 1..Len(w) : IsCutFor(B, w, s, j)
  BY DEF MayGo
<1> DEFINE h == w[j]
           n == Span(B, h)
           N == Len(w)
           L == Len(s.chunk)
           U == Upto(s)
           A == h.at
<1>2. /\ h.kind = "head" /\ h.ch = s.msg.ch /\ h.no = s.msg.no
      /\ A + n = U + 1 /\ j + n = N + L
  BY <1>1, SenderFacts DEF IsCutFor
<1>3. /\ w \in Seq(Cell) /\ w2 \in Seq(Cell) /\ Len(w2) = N + k
      /\ \A i \in 1..N : w2[i] = w[i]
  BY DEF Puts, SamePrefix, IsWire
<1>4. /\ n \in Nat /\ N \in Nat /\ L \in Nat /\ U \in Nat /\ A \in Nat /\ k \in Nat
      /\ k >= 1 /\ k <= L /\ j \in Nat /\ j >= 1 /\ j <= N
  <2>1. Upto(s) \in Nat \ {0} /\ Len(s.chunk) \in Nat \ {0}
    BY SenderFacts
  <2>2. IsHead(B, h)
    BY <1>2, WireHead
  <2>3. n \in Nat \ {0} /\ A \in Nat \ {0}
    BY <2>2, HeadFacts
  <2>4. N \in Nat
    BY <1>3
  <2> QED
    BY <2>1, <2>3, <2>4
<1>5. \A i \in 1..Len(w2) : w2[i].kind = "head" => i \in 1..N
  <2>1. \A i \in N + 1..Len(w2) : w2[i].kind # "head"
    <3>1. NewHeads(w2, w, s)
      BY <1>3, PutHeads
    <3> QED
      BY <3>1 DEF NewHeads
  <2> HIDE DEF N
  <2> QED
    BY <1>3, <1>4, <2>1
<1>6. ASSUME NEW i \in 1..N, w[i].kind = "head", i # j
      PROVE  /\ i + Span(B, w[i]) < j /\ w2[i] = w[i] /\ IsChunk(B, w2, i)
  <2>1. i < j
    <3>1. CASE i > j
      <4>1. i <= j + n
        <5> HIDE DEF N, n, L
        <5> QED
          BY <1>2, <1>4
      <4> QED
        BY <1>2, <1>4, <1>6, <3>1, <4>1, BytesBehind
    <3> QED
      BY <1>4, <1>6, <3>1
  <2>2. i + Span(B, w[i]) < j
    BY <1>2, <1>6, <2>1, HeadsApart
  <2>3. w2[i] = w[i] /\ IsChunk(B, w, i) /\ IsHead(B, w[i])
    BY <1>3, <1>6, WireHead
  <2> DEFINE z == Span(B, w[i])
  <2>4. z \in Nat
    <3>1. z \in Nat \ {0}
      BY <2>3, HeadFacts
    <3> QED
      BY <3>1
  <2>5. ASSUME NEW a \in 1..z PROVE w2[i + a] = Byte(w[i].ch, w[i].no, w[i].at + a - 1)
    <3>1. i + a \in 1..N
      <4> HIDE DEF z, N
      <4> QED
        BY <1>4, <2>2, <2>4 DEF z
    <3>2. w[i + a] = Byte(w[i].ch, w[i].no, w[i].at + a - 1)
      BY <2>3, <3>1 DEF IsChunk
    <3> QED
      BY <1>3, <3>1, <3>2
  <2>6. w2[i + z + 1].kind = "head"
    <3>1. i + z + 1 \in 1..N /\ i + z < N
      <4> HIDE DEF z, N
      <4> QED
        BY <1>4, <2>2, <2>4 DEF z
    <3>2. w[i + z + 1].kind = "head"
      BY <2>3, <3>1 DEF IsChunk
    <3> QED
      BY <1>3, <3>1, <3>2
  <2>7. IsChunk(B, w2, i)
    BY <2>3, <2>5, <2>6 DEF IsChunk
  <2> QED
    BY <2>2, <2>3, <2>7
<1>7. IsChunk(B, w2, j)
  <2>1. w2[j] = h /\ IsChunk(B, w, j) /\ IsHead(B, h)
    BY <1>2, <1>3, WireHead
  <2>2. ASSUME NEW a \in 1..n, j + a <= Len(w2)
        PROVE  w2[j + a] = Byte(h.ch, h.no, h.at + a - 1)
    <3>1. CASE j + a <= N
      <4>1. j + a \in 1..N
        <5> HIDE DEF N, n
        <5> QED
          BY <1>4, <3>1
      <4>2. w[j + a] = Byte(h.ch, h.no, h.at + a - 1)
        BY <2>1, <4>1 DEF IsChunk
      <4> QED
        BY <1>3, <4>1, <4>2
    <3>2. CASE ~(j + a <= N)
      <4> DEFINE b == j + a - N
      <4>1. b \in 1..k /\ N + b = j + a /\ U - L + b = A + a - 1
        <5> HIDE DEF N, n, L, U, A
        <5> QED
          BY <1>2, <1>3, <1>4, <2>2, <3>2
      <4> HIDE DEF b
      <4>2. w2[N + b] = Byte(s.msg.ch, s.msg.no, U - L + b)
        BY <1>3, <4>1, PutBytes
      <4>3. w2[j + a] = Byte(s.msg.ch, s.msg.no, A + a - 1)
        BY <4>1, <4>2
      <4> QED
        BY <1>2, <4>3
    <3> QED
      BY <3>1, <3>2
  <2>3. ~(j + n < Len(w2))
    <3> HIDE DEF N, n, L
    <3> QED
      BY <1>2, <1>3, <1>4
  <2> QED
    BY <2>1, <2>2, <2>3 DEF IsChunk
<1>8. IsWire(B, w2)
  <2>1. w2[1].kind = "head"
    <3>1. 1 \in 1..N /\ w # <<>>
      BY <1>3, <1>4
    <3> QED
      BY <1>3, <3>1 DEF IsWire
  <2>2. ASSUME NEW i \in 1..Len(w2), w2[i].kind = "head" PROVE IsChunk(B, w2, i)
    <3>1. i \in 1..N /\ w[i].kind = "head"
      BY <1>3, <1>5, <2>2
    <3> QED
      BY <1>6, <1>7, <3>1
  <2> QED
    BY <1>3, <2>1, <2>2 DEF IsWire
<1>9. IsNewestChunk(B, w2, s, N + L, j)
  <2>1. ASSUME NEW i \in 1..Len(w2), w2[i].kind = "head"
        PROVE  i = j \/ i + Span(B, w2[i]) < j
    <3>1. i \in 1..N /\ w2[i] = w[i]
      BY <1>3, <1>5, <2>1
    <3> QED
      BY <1>6, <2>1, <3>1
  <2>2. w2[j] = h
    BY <1>3
  <2> QED
    BY <1>2, <2>1, <2>2 DEF IsNewestChunk
<1> QED
  BY <1>8, <1>9

(* What a thread holds after the first k cells of its chunk: the rest of   *)
(* the chunk, or the next chunk.                                           *)
Cut(s, k) == [s EXCEPT !.chunk = Drop(@, k), !.begun = TRUE]

IsRecord(s) == s = [msg |-> s.msg, chunk |-> s.chunk, begun |-> s.begun, rest |-> s.rest]

LEMMA SenderRecord ==
  ASSUME NEW s, IsRecord(s), NEW x, NEW y, NEW z
  PROVE  /\ [s EXCEPT !.chunk = x, !.begun = y]
            = [msg |-> s.msg, chunk |-> x, begun |-> y, rest |-> s.rest]
         /\ [s EXCEPT !.chunk = x, !.begun = y, !.rest = z]
            = [msg |-> s.msg, chunk |-> x, begun |-> y, rest |-> z]
<1>1. PICK m, c, b, r : s = [msg |-> m, chunk |-> c, begun |-> b, rest |-> r]
  BY DEF IsRecord
<1>2. s.msg = m /\ s.rest = r
  BY <1>1
<1>3. [s EXCEPT !.chunk = x, !.begun = y]
      = [msg |-> m, chunk |-> x, begun |-> y, rest |-> r]
  <2>1. PICK u : u = [s EXCEPT !.chunk = x]
    OBVIOUS
  <2>2. u = [msg |-> m, chunk |-> x, begun |-> b, rest |-> r]
    BY <1>1, <2>1
  <2>3. [u EXCEPT !.begun = y] = [msg |-> m, chunk |-> x, begun |-> y, rest |-> r]
    BY <2>2
  <2>4. [s EXCEPT !.chunk = x, !.begun = y] = [[s EXCEPT !.chunk = x] EXCEPT !.begun = y]
    OBVIOUS
  <2> QED
    BY <2>1, <2>3, <2>4
<1>4. [s EXCEPT !.chunk = x, !.begun = y, !.rest = z]
      = [msg |-> m, chunk |-> x, begun |-> y, rest |-> z]
  <2>1. PICK u : u = [s EXCEPT !.chunk = x, !.begun = y]
    OBVIOUS
  <2>2. u = [msg |-> m, chunk |-> x, begun |-> y, rest |-> r]
    BY <1>3, <2>1
  <2>3. [u EXCEPT !.rest = z] = [msg |-> m, chunk |-> x, begun |-> y, rest |-> z]
    BY <2>2
  <2>4. [s EXCEPT !.chunk = x, !.begun = y, !.rest = z]
        = [[s EXCEPT !.chunk = x, !.begun = y] EXCEPT !.rest = z]
    OBVIOUS
  <2> QED
    BY <2>1, <2>3, <2>4
<1> QED
  BY <1>2, <1>3, <1>4

LEMMA CutSends ==
  ASSUME NEW B, NEW K, NEW s, IsSending(B, K, s), NEW k \in 1..Len(s.chunk),
         k < Len(s.chunk)
  PROVE  /\ IsSending(B, K, Cut(s, k)) /\ Cut(s, k).begun = TRUE
         /\ Cut(s, k).msg = s.msg /\ Cut(s, k).rest = s.rest
         /\ Upto(Cut(s, k)) = Upto(s) /\ InHand(Cut(s, k)) = Len(s.chunk) - k
<1> DEFINE r == Cut(s, k)
           L == Len(s.chunk)
           U == Upto(s)
<1>0. IsRecord(s)
  BY DEF IsSending, IsRecord
<1>1. /\ r = [msg |-> r.msg, chunk |-> r.chunk, begun |-> r.begun, rest |-> r.rest]
      /\ r.msg = s.msg /\ r.rest = s.rest /\ r.begun = TRUE
      /\ r.chunk = Drop(s.chunk, k)
  <2>1. Cut(s, k) = [s EXCEPT !.chunk = Drop(s.chunk, k), !.begun = TRUE]
    BY DEF Cut
  <2>2. PICK d : d = Drop(s.chunk, k)
    OBVIOUS
  <2>3. Cut(s, k) = [msg |-> s.msg, chunk |-> d, begun |-> TRUE, rest |-> s.rest]
    BY <1>0, <2>1, <2>2, SenderRecord
  <2> QED
    BY <2>2, <2>3
<1>2. /\ L \in Nat /\ U \in Nat /\ k \in Nat /\ k >= 1 /\ k < L
      /\ InHand(s) \in Nat /\ InHand(s) <= U
      /\ L - k <= InHand(s)
  <2>1. Len(s.chunk) \in Nat \ {0} /\ Upto(s) \in Nat \ {0}
    BY SenderFacts
  <2>2. InHand(s) \in Nat \ {0} /\ InHand(s) <= Upto(s)
    BY SenderFacts
  <2>3. InHand(s) = L \/ InHand(s) = L - 1
    BY DEF InHand
  <2> HIDE DEF L, U
  <2>4. L \in Nat /\ U \in Nat /\ k \in 1..L /\ k < L /\ InHand(s) \in Nat /\ InHand(s) <= U
    BY <2>1, <2>2 DEF L, U
  <2> QED
    BY <2>3, <2>4
<1>3. /\ r.chunk \in Seq(Cell) /\ Len(r.chunk) = L - k
      /\ \A i \in 1..Len(r.chunk) : r.chunk[i] = s.chunk[k + i]
  <2>1. s.chunk \in Seq(Cell) /\ k \in Nat
    BY <1>2 DEF IsSending
  <2>2. /\ Drop(s.chunk, k) \in Seq(Cell) /\ Len(Drop(s.chunk, k)) = L - Least(k, L)
        /\ \A i \in 1..Len(Drop(s.chunk, k)) : Drop(s.chunk, k)[i] = s.chunk[k + i]
    BY <2>1, DropSeq, Zenon
  <2>3. Least(k, L) = k
    BY <1>2 DEF Least
  <2> QED
    BY <1>1, <2>2, <2>3
<1>4. Upto(r) = U /\ InHand(r) = L - k
  BY <1>1, <1>3 DEF Upto, InHand
<1>5. InHand(r) \in 1..Upto(r)
  <2> HIDE DEF L, U, r
  <2> QED
    BY <1>2, <1>4
<1>6. ASSUME NEW i \in 1..Len(r.chunk)
      PROVE  r.chunk[i] = Byte(r.msg.ch, r.msg.no, Upto(r) - Len(r.chunk) + i)
  <2> DEFINE R == Len(r.chunk)
  <2>1. k + i \in 1..L /\ k + i > 1 /\ U - L + (k + i) = U - R + i
    <3>1. R = L - k /\ i \in 1..R
      BY <1>3
    <3> HIDE DEF L, U, R
    <3> QED
      BY <1>2, <3>1
  <2>2. s.chunk[k + i] = Byte(s.msg.ch, s.msg.no, U - L + (k + i))
    BY <2>1 DEF IsSending
  <2> QED
    BY <1>1, <1>3, <1>4, <2>1, <2>2
<1>7. IsSending(B, K, r)
  <2>1. /\ r.msg \in Message /\ r.begun \in BOOLEAN /\ r.begun = TRUE
        /\ r.chunk \in Seq(Cell) /\ r.rest \in Seq(Octet)
        /\ r.msg.no = K[r.msg.ch] /\ r.msg.no \in DOMAIN B[r.msg.ch]
        /\ r.msg = B[r.msg.ch][r.msg.no]
    BY <1>1, <1>3 DEF IsSending
  <2>2. \A i \in 1..Len(r.rest) : r.rest[i] = Byte(r.msg.ch, r.msg.no, Upto(r) + i)
    BY <1>1, <1>4 DEF IsSending
  <2>3. r = [msg |-> r.msg, chunk |-> r.chunk, begun |-> r.begun, rest |-> r.rest]
    BY <1>1
  <2> HIDE DEF r
  <2> QED
    BY <1>5, <1>6, <2>1, <2>2, <2>3 DEF IsSending
<1> QED
  BY <1>1, <1>4, <1>7

LEMMA AfterSends ==
  ASSUME NEW B, NEW K, NEW s, IsSending(B, K, s), s.rest # <<>>
  PROVE  /\ IsSending(B, K, AfterChunk(s)) /\ AfterChunk(s).begun = FALSE
         /\ AfterChunk(s).msg = s.msg
         /\ AfterChunk(s).chunk[1] = Continuation(s.msg, Upto(s) + 1)
<1> DEFINE r == AfterChunk(s)
           m == s.msg
           h == Continuation(m, Upto(s) + 1)
<1>0. IsRecord(s)
  BY DEF IsSending, IsRecord
<1>1. HasCut(r, m, h, s.rest)
  <2>1. m.size - Len(s.rest) + 1 = Upto(s) + 1
    BY DEF Upto
  <2>2. PICK x, z : x = <<h>> \o Take(s.rest, ChunkSize) /\ z = Drop(s.rest, ChunkSize)
    OBVIOUS
  <2>3. r = [s EXCEPT !.chunk = x, !.begun = FALSE, !.rest = z]
    BY <2>1, <2>2 DEF AfterChunk
  <2>4. r = [msg |-> m, chunk |-> x, begun |-> FALSE, rest |-> z]
    BY <1>0, <2>3, SenderRecord
  <2> QED
    BY <2>2, <2>4 DEF HasCut
<1>2. IsNewest(B, K, m)
  BY DEF IsNewest, IsSending
<1>3. /\ Len(s.rest) \in Nat /\ Len(s.rest) # 0 /\ Upto(s) \in Nat /\ m.size \in Nat
      /\ Upto(s) + Len(s.rest) = m.size
  <2>1. /\ Upto(s) \in Nat \ {0} /\ m.size \in Nat \ {0} /\ Len(s.rest) \in Nat
        /\ Upto(s) + Len(s.rest) = m.size
    BY SenderFacts
  <2>2. Len(s.rest) # 0
    BY SenderFacts
  <2> QED
    BY <2>1, <2>2
<1>4. IsTail(m, s.rest)
  <2> DEFINE R == Len(s.rest)
             U == Upto(s)
             Z == m.size
  <2>1. R \in 1..Z /\ Z - R = U
    <3>1. R \in Nat /\ R # 0 /\ U \in Nat /\ Z \in Nat /\ U + R = Z
      BY <1>3
    <3> HIDE DEF R, U, Z
    <3> QED
      BY <3>1
  <2>2. /\ s.rest \in Seq(Octet)
        /\ \A i \in 1..R : s.rest[i] = Byte(m.ch, m.no, U + i)
    BY DEF IsSending
  <2> QED
    BY <2>1, <2>2 DEF IsTail
<1>5. IsHeadAt(h, m, m.size - Len(s.rest) + 1)
  <2>1. m.size - Len(s.rest) + 1 = Upto(s) + 1 /\ Upto(s) + 1 \in Nat
    BY <1>3 DEF Upto
  <2>2. m.ch \in Channels /\ m.no \in Nat
    BY SenderFacts
  <2>3. h \in Cell
    BY <2>1, <2>2 DEF Continuation, Cell
  <2> QED
    BY <2>1, <2>3 DEF IsHeadAt, Continuation
<1>6. IsSending(B, K, r) /\ r.chunk[1] = h
  BY <1>1, <1>2, <1>4, <1>5, FreshChunk
<1> QED
  BY <1>1, <1>6 DEF HasCut

(* After the chunk that begins with its header a thread goes on where that *)
(* chunk ends.                                                             *)
LEMMA HeadFollows ==
  ASSUME NEW B, IsBook(B), NEW K, NEW s, IsSending(B, K, s), ~s.begun
  PROVE  Follows(s, HeadPlace(B, s.chunk[1]))
<1> DEFINE h == s.chunk[1]
           p == HeadPlace(B, h)
           n == Span(B, h)
           U == Upto(s)
           R == Len(s.rest)
           Z == s.msg.size
<1>1. /\ IsHead(B, h) /\ Of(B, h) = s.msg /\ h.no = s.msg.no /\ h.at + n = U + 1
  BY SenderHead
<1>2. /\ p.base = MessageBase(s.msg)
      /\ h.at + n = Z + 1 => p.no = s.msg.no + 1 /\ p.at = 1
      /\ h.at + n # Z + 1 => p.no = s.msg.no /\ p.at = h.at + n
  BY <1>1, HeadPlaceFacts
<1>3. U \in Nat /\ R \in Nat /\ Z \in Nat /\ U + R = Z /\ (s.rest = <<>> <=> R = 0)
  <2>1. U \in Nat \ {0} /\ R \in Nat /\ Z \in Nat \ {0}
    BY SenderFacts
  <2>2. U + R = Z /\ (s.rest = <<>> <=> R = 0)
    BY SenderFacts
  <2> HIDE DEF U, R, Z
  <2> QED
    BY <2>1, <2>2
<1>4. (s.rest = <<>> <=> U + 1 = Z + 1)
  <2> HIDE DEF U, R, Z
  <2> QED
    BY <1>3
<1> QED
  BY <1>1, <1>2, <1>4, ServesAll DEF Follows

LEMMA WriteChannel ==
  ASSUME NEW B, IsBook(B), NEW K, NEW s, IsSending(B, K, s), NEW k \in 1..Len(s.chunk),
         NEW w, IsWire(B, w), NEW w2, Puts(w2, w, s, k), MayGo(B, w, s),
         NEW c \in Channels, NEW r, Chain(B, w, c, r, Len(w)),
         On(s, c) => Continues(B, s, PlaceAt(B, w, c, r, Len(w)))
  PROVE  /\ Chain(B, w2, c, r, Len(w2))
         /\ On(s, c) => Follows(s, PlaceAt(B, w2, c, r, Len(w2)))
         /\ ~On(s, c) => PlaceAt(B, w2, c, r, Len(w2)) = PlaceAt(B, w, c, r, Len(w))
<1> DEFINE N == Len(w)
           M == Len(w2)
           p == PlaceAt(B, w, c, r, N)
<1>1. /\ w \in Seq(Cell) /\ N \in Nat /\ M \in Nat /\ k \in Nat /\ k >= 1 /\ M = N + k
      /\ s.msg # NONE
  <2>1. Len(s.chunk) \in Nat \ {0} /\ s.msg # NONE
    BY SenderFacts
  <2> QED
    BY <2>1 DEF Puts, IsWire
<1>2. NewHeads(w2, w, s) /\ SamePrefix(w2, w, N) /\ w2[N + 1] = s.chunk[1]
  BY <1>1, PutHeads DEF Puts
<1>3. Chain(B, w2, c, r, N) /\ PlaceAt(B, w2, c, r, N) = p
  <2>1. SameHeads(B, B, w, c, N)
    BY DEF SameHeads
  <2> QED
    BY <1>1, <1>2, <2>1, ChainPrefix
<1>4. ~s.begun => s.chunk[1].ch = s.msg.ch
  BY SenderHead
<1>5. CASE s.begun \/ ~On(s, c)
  <2>1. \A i \in N + 1..M : ~(w2[i].kind = "head" /\ w2[i].ch = c)
    BY <1>1, <1>2, <1>4, <1>5 DEF NewHeads, On
  <2>2. PlaceAt(B, w2, c, r, M) = PlaceAt(B, w2, c, r, N)
    <3> HIDE DEF N, M
    <3> QED
      BY <1>1, <2>1, PlaceStays
  <2>3. HeadsTo(w2, c, M) = HeadsTo(w2, c, N)
    <3> HIDE DEF N, M
    <3> QED
      BY <1>1, <2>1 DEF HeadsTo
  <2>4. Chain(B, w2, c, r, M)
    BY <1>3, <2>3 DEF Chain
  <2>5. On(s, c) => Follows(s, p)
    BY <1>5 DEF Continues
  <2> QED
    BY <1>3, <2>2, <2>4, <2>5
<1>6. CASE ~s.begun /\ On(s, c)
  <2>1. /\ w2[N + 1].kind = "head" /\ w2[N + 1].ch = c /\ N + 1 \in 1..M
        /\ N + 1 - 1 = N
    <3>1. s.chunk[1].kind = "head"
      BY <1>6 DEF IsSending
    <3> QED
      BY <1>1, <1>2, <1>4, <1>6, <3>1 DEF On
  <2>2. \A i \in HeadsTo(w2, c, M) : i \in HeadsTo(w2, c, N) \/ i = N + 1
    <3> HIDE DEF N, M
    <3> QED
      BY <1>1, <1>2 DEF HeadsTo, NewHeads, N, M
  <2>3. N + 1 \in HeadsTo(w2, c, M)
    BY <2>1 DEF HeadsTo
  <2>4. IsLast(w2, c, M, N + 1)
    <3>1. \A i \in HeadsTo(w2, c, N) : i <= N + 1
      BY <1>1 DEF HeadsTo
    <3> HIDE DEF N, M
    <3> QED
      BY <1>1, <2>2, <2>3, <3>1 DEF IsLast
  <2>5. PlaceAt(B, w2, c, r, M) = HeadPlace(B, s.chunk[1])
    BY <1>1, <1>2, <2>4, LastHead
  <2>6. Fits(B, s.chunk[1], p)
    BY <1>6 DEF Continues
  <2>7. ASSUME NEW i \in HeadsTo(w2, c, M)
        PROVE  Fits(B, w2[i], PlaceAt(B, w2, c, r, i - 1))
    <3>1. CASE i \in HeadsTo(w2, c, N)
      BY <1>3, <3>1 DEF Chain
    <3>2. CASE i = N + 1
      <4>1. i - 1 = N /\ w2[i] = s.chunk[1]
        BY <1>2, <2>1, <3>2
      <4>2. PlaceAt(B, w2, c, r, i - 1) = p
        BY <1>3, <4>1
      <4> QED
        BY <2>6, <4>1, <4>2
    <3> QED
      BY <2>2, <3>1, <3>2
  <2>8. Follows(s, HeadPlace(B, s.chunk[1]))
    BY <1>6, HeadFollows
  <2> QED
    BY <1>6, <2>5, <2>7, <2>8 DEF Chain
<1> QED
  BY <1>5, <1>6

LEMMA WriteOrder ==
  ASSUME NEW B, IsBook(B), NEW K, NEW s, IsSending(B, K, s), NEW k \in 1..Len(s.chunk),
         NEW w, IsWire(B, w), NEW w2, Puts(w2, w, s, k), MayGo(B, w, s),
         NEW c \in Channels, NEW r, InOrder(B, w, c),
         On(s, c) => Continues(B, s, PlaceAt(B, w, c, r, Len(w)))
  PROVE  InOrder(B, w2, c)
<1> DEFINE N == Len(w)
           M == Len(w2)
<1>1. w \in Seq(Cell) /\ N \in Nat /\ M \in Nat /\ k \in Nat /\ M = N + k
  BY DEF Puts, IsWire
<1>2. /\ \A i \in N + 1..M : w2[i].kind = "head" =>
           i = N + 1 /\ ~s.begun /\ w2[i] = s.chunk[1]
      /\ \A i \in 1..N : w2[i] = w[i]
  <2>1. NewHeads(w2, w, s) /\ SamePrefix(w2, w, N) /\ w2[N + 1] = s.chunk[1]
    BY <1>1, PutHeads DEF Puts
  <2> QED
    BY <2>1 DEF NewHeads, SamePrefix
<1>3. SUFFICES ASSUME NEW i \in HeadsTo(w2, c, M), NEW j \in HeadsTo(w2, c, M), i < j
               PROVE  NotAfter(HeadPlace(B, w2[i]), w2[j])
  BY DEF InOrder
<1>4. i \in 1..N /\ w2[i] = w[i] /\ i \in HeadsTo(w, c, N)
  <2>1. i \in 1..M /\ j \in 1..M /\ w2[j].kind = "head" /\ w2[i].kind = "head" /\ w2[i].ch = c
    BY DEF HeadsTo
  <2>2. i \in 1..N
    <3>1. j \in N + 1..M => j = N + 1
      BY <1>2, <2>1
    <3> HIDE DEF N, M
    <3> QED
      BY <1>1, <1>3, <2>1, <3>1
  <2> QED
    BY <1>2, <2>1, <2>2 DEF HeadsTo
<1>5. CASE j \in 1..N
  <2>1. w2[j] = w[j] /\ j \in HeadsTo(w, c, N)
    BY <1>2, <1>5 DEF HeadsTo
  <2> QED
    BY <1>3, <1>4, <2>1 DEF InOrder
<1>6. CASE j \notin 1..N
  <2>1. ~s.begun /\ w2[j] = s.chunk[1] /\ w2[j].ch = c /\ w2[j].kind = "head"
    <3>1. j \in 1..M /\ w2[j].kind = "head" /\ w2[j].ch = c
      BY DEF HeadsTo
    <3>2. j \in N + 1..M
      <4> HIDE DEF N, M
      <4> QED
        BY <1>1, <1>6, <3>1
    <3> QED
      BY <1>2, <3>1, <3>2
  <2>2. On(s, c)
    BY <2>1, SenderHead, SenderFacts DEF On
  <2>3. Fits(B, s.chunk[1], PlaceAt(B, w, c, r, N))
    BY <2>1, <2>2 DEF Continues
  <2>4. PICK l \in 1..N : IsLast(w, c, N, l)
    BY <1>1, <1>4, SomeLast
  <2>5. s.chunk[1].no = HeadPlace(B, w[l]).no /\ s.chunk[1].at = HeadPlace(B, w[l]).at
    BY <1>1, <2>3, <2>4, LastHead DEF Fits
  <2>6. l \in HeadsTo(w, c, N) /\ i <= l
    BY <1>4, <2>4 DEF IsLast
  <2>7. IsHead(B, w[i]) /\ IsHead(B, w[l])
    BY <1>4, <2>6, WireHead DEF HeadsTo
  <2> DEFINE a == HeadPlace(B, w[i])
             b == HeadPlace(B, w[l])
             h == w[l]
  <2>8. /\ a.no \in Nat /\ a.at \in Nat /\ b.no \in Nat /\ b.at \in Nat
        /\ b.no > h.no \/ (b.no = h.no /\ b.at > h.at)
    <3>1. /\ a.no \in Nat /\ a.at \in Nat \ {0} /\ b.no \in Nat /\ b.at \in Nat \ {0}
          /\ b.no > h.no \/ (b.no = h.no /\ b.at > h.at)
      BY <2>7, HeadPlaceFacts
    <3> QED
      BY <3>1
  <2>9. h.no \in Nat /\ h.at \in Nat
    <3>1. h.no \in Nat /\ h.at \in Nat \ {0}
      BY <2>7, HeadFacts
    <3> QED
      BY <3>1
  <2>10. CASE i = l
    BY <1>4, <2>1, <2>5, <2>8, <2>10 DEF NotAfter
  <2>11. CASE i # l
    <3>1. i < l
      BY <1>4, <2>4, <2>6, <2>11
    <3>2. NotAfter(a, h)
      BY <1>4, <2>6, <3>1 DEF InOrder
    <3>3. a.no < h.no \/ (a.no = h.no /\ a.at <= h.at)
      BY <3>2 DEF NotAfter
    <3>4. a.no < b.no \/ (a.no = b.no /\ a.at <= b.at)
      <4> HIDE DEF a, b, h
      <4> QED
        BY <2>8, <2>9, <3>3
    <3> QED
      BY <1>4, <2>1, <2>5, <3>4 DEF NotAfter
  <2> QED
    BY <2>10, <2>11
<1> QED
  BY <1>5, <1>6

(* What a write does to the thread and to the packet its channel keeps.    *)
Went(s, k, r, o, o2) ==
  \/ k < Len(s.chunk) /\ r = Cut(s, k) /\ o2 = o
  \/ k = Len(s.chunk) /\ s.rest # <<>> /\ r = AfterChunk(s) /\ o2 = o
  \/ k = Len(s.chunk) /\ s.rest = <<>> /\ r = Idle /\ o2 = [o EXCEPT ![s.msg.ch] = s.msg]

LEMMA ExceptTwice ==
  ASSUME NEW f, f = [u \in Threads |-> f[u]], NEW t \in Threads, NEW d
  PROVE  /\ [f EXCEPT ![t].chunk = d, ![t].begun = TRUE][t]
            = [f[t] EXCEPT !.chunk = d, !.begun = TRUE]
         /\ \A u \in Threads \ {t} :
              [f EXCEPT ![t].chunk = d, ![t].begun = TRUE][u] = f[u]
         /\ [f EXCEPT ![t].chunk = d, ![t].begun = TRUE]
            = [u \in Threads |-> [f EXCEPT ![t].chunk = d, ![t].begun = TRUE][u]]
OBVIOUS

LEMMA WriteFacts ==
  ASSUME ChunkInv, NEW t \in Threads, Write(t), ~crossed'
  PROVE  /\ open /\ open' /\ Busy(t)
         /\ UNCHANGED <<sent, inflight, readerVars>>
         /\ book' = book /\ \A c \in Channels : Delivered(c)' = Delivered(c)
         /\ IsBook(book) /\ IsSending(book, sent, sending[t])
         /\ MayGo(book, wire, sending[t])
         /\ \A u \in Threads \ {t} : ~sending[u].begun /\ sending'[u] = sending[u]
         /\ sending' = [u \in Threads |-> sending'[u]]
         /\ \E k \in 1..Len(sending[t].chunk) :
              /\ Puts(wire', wire, sending[t], k)
              /\ Went(sending[t], k, sending'[t], out, out')
<1> DEFINE s == sending[t]
<1>1. MessagesOK /\ SendersOK /\ IsWire(book, wire) /\ CutsOK
  BY DEF ChunkInv
<1>2. /\ open /\ Busy(t) /\ open' = open
      /\ crossed' = \E u \in Threads \ {t} : sending[u].begun
      /\ UNCHANGED <<sent, inflight, readerVars>>
  BY DEF Write
<1>3. \A u \in Threads \ {t} : ~sending[u].begun
  BY <1>2
<1>4. IsSending(book, sent, s) /\ sending = [u \in Threads |-> sending[u]]
  BY <1>1, <1>2 DEF SendersOK
<1>5. MayGo(book, wire, s)
  <2>1. s.begun \in BOOLEAN
    BY <1>4 DEF IsSending
  <2>2. CASE s.begun
    BY <1>1, <2>2 DEF CutsOK, MayGo
  <2>3. CASE ~s.begun
    <3>1. \A u \in Threads : ~sending[u].begun
      BY <1>3, <2>3
    <3> QED
      BY <1>1, <1>2, <2>3, <3>1 DEF CutsOK, MayGo
  <2> QED
    BY <2>2, <2>3
<1>6. book' = book /\ \A c \in Channels : Delivered(c)' = Delivered(c)
  BY <1>2 DEF book, Delivered, Known
<1>7. /\ \A u \in Threads \ {t} : sending'[u] = sending[u]
      /\ sending' = [u \in Threads |-> sending'[u]]
      /\ \E k \in 1..Len(s.chunk) :
           Puts(wire', wire, s, k) /\ Went(s, k, sending'[t], out, out')
  <2>1. PICK k \in 1..Len(s.chunk) :
          /\ wire' = wire \o Take(s.chunk, k)
          /\ \/ /\ k < Len(s.chunk)
                /\ sending' = [sending EXCEPT ![t].chunk = Drop(@, k), ![t].begun = TRUE]
                /\ UNCHANGED out
             \/ /\ k = Len(s.chunk) /\ s.rest # <<>>
                /\ sending' = [sending EXCEPT ![t] = AfterChunk(s)]
                /\ UNCHANGED out
             \/ /\ k = Len(s.chunk) /\ s.rest = <<>>
                /\ sending' = [sending EXCEPT ![t] = Idle]
                /\ out' = [out EXCEPT ![s.msg.ch] = s.msg]
    BY DEF Write
  <2>2. Puts(wire', wire, s, k)
    BY <1>1, <1>4, <2>1, PutsPart DEF IsWire, IsSending
  <2>3. CASE /\ k < Len(s.chunk)
             /\ sending' = [sending EXCEPT ![t].chunk = Drop(@, k), ![t].begun = TRUE]
             /\ UNCHANGED out
    <3>1. PICK d : d = Drop(s.chunk, k)
      OBVIOUS
    <3>2. sending' = [sending EXCEPT ![t].chunk = d, ![t].begun = TRUE]
      BY <2>3, <3>1
    <3>3. /\ sending'[t] = [s EXCEPT !.chunk = d, !.begun = TRUE]
          /\ \A u \in Threads \ {t} : sending'[u] = sending[u]
          /\ sending' = [u \in Threads |-> sending'[u]]
      BY <1>4, <3>2, ExceptTwice
    <3>4. sending'[t] = Cut(s, k)
      BY <3>1, <3>3 DEF Cut
    <3> QED
      BY <2>2, <2>3, <3>3, <3>4 DEF Went
  <2>4. CASE /\ k = Len(s.chunk) /\ s.rest # <<>>
             /\ sending' = [sending EXCEPT ![t] = AfterChunk(s)]
             /\ UNCHANGED out
    BY <1>4, <2>2, <2>4 DEF Went
  <2>5. CASE /\ k = Len(s.chunk) /\ s.rest = <<>>
             /\ sending' = [sending EXCEPT ![t] = Idle]
             /\ out' = [out EXCEPT ![s.msg.ch] = s.msg]
    BY <1>4, <2>2, <2>5 DEF Went
  <2> QED
    BY <2>1, <2>3, <2>4, <2>5
<1>8. IsBook(book)
  BY <1>1, BookKept
<1> QED
  BY <1>2, <1>3, <1>4, <1>5, <1>6, <1>7, <1>8

(* The chunk on the wire after a write.                                    *)
LEMMA WriteChunk ==
  ASSUME NEW B, IsBook(B), NEW K, NEW s, IsSending(B, K, s), NEW k \in 1..Len(s.chunk),
         NEW w, IsWire(B, w), NEW w2, Puts(w2, w, s, k), MayGo(B, w, s)
  PROVE  /\ IsWire(B, w2)
         /\ \E j \in 1..Len(w2) : IsNewestChunk(B, w2, s, Len(w) + Len(s.chunk), j)
<1>1. CASE s.begun
  <2>1. IsWire(B, w2)
    BY <1>1, WriteGoesOn
  <2>2. PICK j \in 1..Len(w) : IsNewestChunk(B, w2, s, Len(w) + Len(s.chunk), j)
    BY <1>1, WriteGoesOn
  <2>3. j \in 1..Len(w2)
    BY DEF Puts, IsWire
  <2> QED
    BY <2>1, <2>2, <2>3
<1>2. CASE ~s.begun
  BY <1>2, WriteBegins
<1> QED
  BY <1>1, <1>2

LEMMA WriteKeeps ==
  ASSUME ChunkInv, NEW t \in Threads, Write(t), ~crossed'
  PROVE  ChunkInv'
<1> DEFINE s == sending[t]
           r == sending'[t]
           m == s.msg
<1>1. /\ MessagesOK /\ SendersOK /\ IsWire(book, wire) /\ CutsOK /\ ChannelsOK /\ OrderOK
      /\ ReaderOK
  BY DEF ChunkInv
<1>2. /\ open /\ open' /\ Busy(t)
      /\ UNCHANGED <<sent, inflight, readerVars>>
      /\ book' = book /\ \A c \in Channels : Delivered(c)' = Delivered(c)
      /\ IsBook(book) /\ IsSending(book, sent, s)
      /\ MayGo(book, wire, s)
      /\ \A u \in Threads \ {t} : ~sending[u].begun /\ sending'[u] = sending[u]
      /\ sending' = [u \in Threads |-> sending'[u]]
  BY WriteFacts
<1>3. PICK k \in 1..Len(s.chunk) :
        Puts(wire', wire, s, k) /\ Went(s, k, r, out, out')
  BY WriteFacts
<1>4. m \in Message /\ m.ch \in Channels /\ m # NONE /\ m.no = sent[m.ch]
  <2>1. IsSending(book, sent, s)
    BY <1>2
  <2>2. m \in Message /\ m.no = sent[m.ch]
    BY <2>1 DEF IsSending
  <2> QED
    BY <2>1, <2>2, SenderFacts
<1>5. \/ /\ k < Len(s.chunk) /\ r = Cut(s, k) /\ out' = out
         /\ IsSending(book, sent, r) /\ r.begun = TRUE
         /\ r.msg = m /\ r.rest = s.rest
         /\ Upto(r) = Upto(s) /\ InHand(r) = Len(s.chunk) - k
      \/ /\ k = Len(s.chunk) /\ s.rest # <<>> /\ r = AfterChunk(s) /\ out' = out
         /\ IsSending(book, sent, r) /\ r.begun = FALSE /\ r.msg = m
         /\ r.chunk[1] = Continuation(m, Upto(s) + 1)
      \/ /\ k = Len(s.chunk) /\ s.rest = <<>> /\ r = Idle
         /\ out' = [out EXCEPT ![m.ch] = m]
         /\ r.begun = FALSE /\ r.msg = NONE
  <2>1. IsSending(book, sent, s)
    BY <1>2
  <2>2. CASE k < Len(s.chunk) /\ r = Cut(s, k) /\ out' = out
    <3>1. /\ IsSending(book, sent, Cut(s, k)) /\ Cut(s, k).begun = TRUE
          /\ Cut(s, k).msg = m /\ Cut(s, k).rest = s.rest
          /\ Upto(Cut(s, k)) = Upto(s) /\ InHand(Cut(s, k)) = Len(s.chunk) - k
      <4>1. k < Len(s.chunk)
        BY <2>2
      <4> HIDE DEF s, r
      <4> QED
        BY <2>1, <4>1, CutSends
    <3> HIDE DEF s, r
    <3> QED
      BY <2>2, <3>1
  <2>3. CASE k = Len(s.chunk) /\ s.rest # <<>> /\ r = AfterChunk(s) /\ out' = out
    <3>1. /\ IsSending(book, sent, AfterChunk(s)) /\ AfterChunk(s).begun = FALSE
          /\ AfterChunk(s).msg = m
          /\ AfterChunk(s).chunk[1] = Continuation(m, Upto(s) + 1)
      BY <2>1, <2>3, AfterSends, Zenon
    <3> HIDE DEF s, r
    <3> QED
      BY <2>3, <3>1
  <2>4. CASE k = Len(s.chunk) /\ s.rest = <<>> /\ r = Idle /\ out' = [out EXCEPT ![m.ch] = m]
    BY <2>4 DEF Idle
  <2> QED
    BY <1>3, <2>2, <2>3, <2>4 DEF Went
<1>6. MessagesOK'
  <2>1. out' \in [Channels -> Message \cup {NONE}]
    BY <1>1, <1>4, <1>5 DEF MessagesOK
  <2> QED
    BY <1>1, <1>2, <2>1 DEF MessagesOK
<1>7. \A u \in Threads \ {t} : Busy(u)' <=> Busy(u)
  BY <1>2 DEF Busy
<1>8. SendersOK'
  <2>1. ASSUME NEW u \in Threads
        PROVE  IF Busy(u)' THEN open' /\ IsSending(book', sent', sending'[u])
               ELSE sending'[u] = Idle
    <3>1. CASE u = t
      BY <1>2, <1>5, <3>1 DEF Busy
    <3>2. CASE u # t
      BY <1>1, <1>2, <1>7, <3>2 DEF SendersOK
    <3> QED
      BY <3>1, <3>2
  <2>2. ASSUME NEW u \in Threads, NEW v \in Threads, u # v
        PROVE  /\ Busy(u)' /\ Busy(v)' => sending'[u].msg.ch # sending'[v].msg.ch
               /\ ~(sending'[u].begun /\ sending'[v].begun)
    <3>1. Busy(t)' => sending'[t].msg.ch = s.msg.ch
      BY <1>5 DEF Busy
    <3>2. /\ Busy(u) /\ Busy(v) => sending[u].msg.ch # sending[v].msg.ch
          /\ ~(sending[u].begun /\ sending[v].begun)
      BY <1>1, <2>2 DEF SendersOK
    <3>3. CASE u # t /\ v # t
      BY <1>2, <1>7, <3>2, <3>3
    <3>4. CASE u = t
      BY <1>2, <1>7, <2>2, <3>1, <3>2, <3>4
    <3>5. CASE v = t
      BY <1>2, <1>7, <2>2, <3>1, <3>2, <3>5
    <3> QED
      BY <3>3, <3>4, <3>5
  <2> QED
    BY <1>2, <2>1, <2>2 DEF SendersOK
<1>9. PICK j \in 1..Len(wire') :
        IsNewestChunk(book, wire', s, Len(wire) + Len(s.chunk), j)
  BY <1>1, <1>2, <1>3, WriteChunk
<1>10. IsWire(book', wire')
  BY <1>1, <1>2, <1>3, WriteChunk
<1> DEFINE N == Len(wire)
           L == Len(s.chunk)
           M == Len(wire')
<1>11. N \in Nat /\ L \in Nat /\ k \in Nat /\ k <= L /\ M = N + k
  <2>1. Len(s.chunk) \in Nat \ {0}
    BY <1>2, SenderFacts
  <2> QED
    BY <1>1, <1>3, <2>1 DEF Puts, IsWire
<1>12. \A u \in Threads : sending'[u].begun => u = t
  BY <1>2
<1>13. CutsOK'
  <2>1. ASSUME r.begun PROVE IsCutFor(book, wire', r, j)
    <3>1. k < Len(s.chunk) /\ r.msg = m /\ Upto(r) = Upto(s) /\ InHand(r) = L - k
      BY <1>5, <2>1
    <3>2. N + L = M + InHand(r)
      <4> HIDE DEF N, L, M, r
      <4> QED
        BY <1>11, <3>1
    <3> QED
      BY <1>9, <3>1, <3>2 DEF IsNewestChunk, IsCutFor
  <2>2. ASSUME ~r.begun, NEW i \in 1..M, wire'[i].kind = "head"
        PROVE  IsWhole(book, wire', i)
    <3>1. k = Len(s.chunk)
      BY <1>5, <2>2
    <3>2. N + L = M
      BY <1>11, <3>1
    <3>3. i = j \/ i + Span(book, wire'[i]) < j
      BY <1>9, <2>2 DEF IsNewestChunk
    <3>4. j + Span(book, wire'[j]) = M
      BY <1>9, <3>2 DEF IsNewestChunk
    <3>5. j <= M /\ j \in Nat
      BY <1>11
    <3>6. i + Span(book, wire'[i]) <= M
      <4> DEFINE n == Span(book, wire'[i])
      <4>1. n \in Nat
        <5>1. IsHead(book, wire'[i])
          BY <1>2, <1>10, <2>2, WireHead
        <5>2. n \in Nat \ {0}
          BY <1>2, <5>1, HeadFacts
        <5> QED
          BY <5>2
      <4>2. M \in Nat /\ i \in Nat
        BY <1>11
      <4> HIDE DEF n, M
      <4> QED
        BY <3>3, <3>4, <3>5, <4>1, <4>2 DEF n
    <3> QED
      BY <3>6 DEF IsWhole
  <2> QED
    BY <1>2, <1>9, <1>12, <2>1, <2>2 DEF CutsOK
<1>14. ReaderOK' /\ peer' = peer
  <2>1. Extends(book', book)
    BY <1>2 DEF Extends
  <2> QED
    BY <1>1, <1>2, <2>1, ReaderStays
<1>15. ASSUME NEW c \in Channels
       PROVE  On(s, c) => Continues(book, s, PlaceAt(book, wire, c, peer[c], Len(wire)))
  BY <1>1, <1>2, <1>15 DEF ChannelsOK, Ends
<1>16. OrderOK'
  <2>1. ASSUME NEW c \in Channels PROVE InOrder(book, wire', c)
    <3>1. InOrder(book, wire, c)
      BY <1>1 DEF OrderOK
    <3> QED
      BY <1>1, <1>2, <1>3, <1>15, <3>1, WriteOrder
  <2> QED
    BY <1>2, <2>1 DEF OrderOK
<1>17. ChannelsOK'
  <2>1. SUFFICES ASSUME NEW c \in Channels
        PROVE  /\ Chain(book, wire', c, peer[c], Len(wire'))
               /\ Ends(book, sending', sent[c], out'[c], c,
                       PlaceAt(book, wire', c, peer[c], Len(wire')))
    BY <1>2, <1>14, <2>1 DEF ChannelsOK
  <2> DEFINE p == PlaceAt(book, wire, c, peer[c], Len(wire))
             q == PlaceAt(book, wire', c, peer[c], Len(wire'))
  <2>2. /\ Chain(book, wire', c, peer[c], Len(wire'))
        /\ On(s, c) => Follows(s, q)
        /\ ~On(s, c) => q = p
    <3>1. Chain(book, wire, c, peer[c], Len(wire))
      BY <1>1 DEF ChannelsOK
    <3>2. On(s, c) => Continues(book, s, PlaceAt(book, wire, c, peer[c], Len(wire)))
      BY <1>15
    <3> QED
      BY <1>1, <1>2, <1>3, <3>1, <3>2, WriteChannel
  <2>3. Ends(book, sending, sent[c], out[c], c, p)
    BY <1>1, <1>2 DEF ChannelsOK
  <2> HIDE DEF p, q
  <2>4. CASE ~On(s, c)
    <3>1. ~On(r, c) /\ out'[c] = out[c]
      BY <1>1, <1>4, <1>5, <2>4 DEF On, MessagesOK
    <3>2. \A u \in Threads : (On(sending'[u], c) <=> On(sending[u], c))
                             /\ (On(sending[u], c) => sending'[u] = sending[u])
      BY <1>2, <2>4, <3>1
    <3>3. Ends(book, sending', sent[c], out'[c], c, p)
      BY <2>3, <3>1, <3>2 DEF Ends
    <3> QED
      BY <2>2, <2>4, <3>3 DEF q
  <2>5. CASE On(s, c)
    <3>1. m.ch = c
      BY <2>5 DEF On
    <3>2. \A u \in Threads \ {t} : ~On(sending'[u], c)
      BY <1>1, <1>2, <3>1 DEF On, Busy, SendersOK
    <3>3. Follows(s, q)
      BY <2>2, <2>5
    <3>4. CASE k < Len(s.chunk)
      <4>1. r.begun = TRUE /\ r.msg = m /\ r.rest = s.rest /\ Upto(r) = Upto(s)
        BY <1>5, <3>4
      <4>2. Follows(r, q)
        BY <3>3, <4>1 DEF Follows
      <4>3. On(r, c) /\ Continues(book, r, q)
        BY <2>5, <4>1, <4>2 DEF On, Continues
      <4> QED
        BY <2>2, <3>2, <4>3 DEF Ends, q
    <3>5. CASE k = Len(s.chunk) /\ s.rest # <<>>
      <4>1. r.begun = FALSE /\ r.msg = m /\ r.chunk[1] = Continuation(m, Upto(s) + 1)
        BY <1>5, <1>11, <3>5
      <4>2. q.no = m.no /\ q.at = Upto(s) + 1
        BY <3>3, <3>5 DEF Follows
      <4>3. Upto(s) + 1 # 1
        <5>1. Upto(s) \in Nat \ {0}
          BY <1>2, SenderFacts
        <5> QED
          BY <5>1
      <4>4. Fits(book, r.chunk[1], q)
        BY <4>1, <4>2, <4>3 DEF Fits, Continuation
      <4>5. On(r, c) /\ Continues(book, r, q)
        BY <2>5, <4>1, <4>4 DEF On, Continues
      <4> QED
        BY <2>2, <3>2, <4>5 DEF Ends, q
    <3>6. CASE k = Len(s.chunk) /\ s.rest = <<>>
      <4>1. r.msg = NONE /\ out'[c] = m
        BY <1>1, <1>5, <1>11, <3>1, <3>6 DEF MessagesOK
      <4>2. q.no = sent[c] + 1 /\ q.at = 1 /\ Serves(q.base, MessageBase(m))
        BY <1>4, <3>1, <3>3, <3>6 DEF Follows
      <4>3. Serves(q.base, WriterBase(out'[c]))
        BY <1>4, <4>1, <4>2 DEF WriterBase
      <4>4. \A u \in Threads : ~On(sending'[u], c)
        BY <3>2, <4>1 DEF On
      <4> QED
        BY <2>2, <4>2, <4>3, <4>4 DEF Ends, q
    <3> QED
      BY <1>5, <3>4, <3>5, <3>6
  <2> QED
    BY <2>4, <2>5 DEF q
<1> QED
  BY <1>6, <1>8, <1>10, <1>13, <1>14, <1>16, <1>17 DEF ChunkInv

LEMMA WriteFailsKeeps ==
  ASSUME ChunkInv, NEW t \in Threads, WriteFails(t)
  PROVE  ChunkInv'
<1>1. /\ MessagesOK /\ SendersOK /\ IsWire(book, wire) /\ CutsOK /\ ChannelsOK /\ OrderOK
      /\ ReaderOK
  BY DEF ChunkInv
<1>2. /\ open' = FALSE /\ sending' = [u \in Threads |-> Idle]
      /\ out' = [c \in Channels |-> NONE]
      /\ UNCHANGED <<sent, wire, inflight, readerVars>>
  BY DEF WriteFails
<1>3. book' = book /\ \A c \in Channels : Delivered(c)' = Delivered(c)
  BY <1>2 DEF book, Delivered, Known
<1>4. MessagesOK'
  BY <1>1, <1>2, <1>3 DEF MessagesOK
<1>5. \A u \in Threads : sending'[u] = Idle /\ ~Busy(u)' /\ ~sending'[u].begun
  BY <1>2 DEF Idle, Busy
<1>6. SendersOK'
  BY <1>2, <1>5 DEF SendersOK
<1>7. CutsOK'
  BY <1>2, <1>5 DEF CutsOK
<1>8. ReaderOK' /\ peer' = peer
  <2>1. Extends(book', book)
    BY <1>3 DEF Extends
  <2> QED
    BY <1>1, <1>2, <1>3, <2>1, ReaderStays
<1>9. ChannelsOK'
  BY <1>1, <1>2, <1>3, <1>8 DEF ChannelsOK
<1>10. OrderOK' /\ IsWire(book', wire')
  BY <1>1, <1>2, <1>3 DEF OrderOK
<1> QED
  BY <1>4, <1>6, <1>7, <1>8, <1>9, <1>10 DEF ChunkInv

-----------------------------------------------------------------------------
(* The peer reads a chunk.                                                 *)

BookOK ==
  /\ IsBook(book)
  /\ \A c \in Channels : /\ Delivered(c) \in Nat /\ sent[c] \in Nat
                         /\ DOMAIN book[c] = Known(c)
                         /\ \A n \in Known(c) : book[c][n] = inflight[c][n - Delivered(c)]

LEMMA BookAlways == MessagesOK => BookOK
BY BookKnown DEF BookOK

(* The first header is the one the peer expects.                           *)
LEMMA FirstHead ==
  ASSUME ChunkInv, wire # <<>>, NEW h, h = wire[1]
  PROVE  /\ 1 \in 1..Len(wire) /\ h.kind = "head" /\ IsHead(book, h) /\ IsChunk(book, wire, 1)
         /\ Fits(book, h, peer[h.ch]) /\ h.ch \in Channels
         /\ inflight[h.ch] # <<>> /\ h.no = Delivered(h.ch) + 1
         /\ Of(book, h) = book[h.ch][Delivered(h.ch) + 1]
         /\ Of(book, h) = inflight[h.ch][1]
<1>1. MessagesOK /\ IsWire(book, wire) /\ ChannelsOK
  BY DEF ChunkInv
<1>2. wire \in Seq(Cell) /\ Len(wire) \in Nat /\ 1 \in 1..Len(wire)
  BY <1>1 DEF IsWire
<1>3. h.kind = "head" /\ IsHead(book, h) /\ IsChunk(book, wire, 1)
  BY <1>1, <1>2 DEF IsWire, IsChunk
<1>4. h.ch \in Channels /\ h.no \in DOMAIN book[h.ch]
  BY <1>3 DEF IsHead
<1>5. 1 \in HeadsTo(wire, h.ch, Len(wire)) /\ HeadsTo(wire, h.ch, 1 - 1) = {}
  BY <1>2, <1>3 DEF HeadsTo
<1>6. Fits(book, h, peer[h.ch])
  <2>1. PlaceAt(book, wire, h.ch, peer[h.ch], 1 - 1) = peer[h.ch]
    BY <1>5, NoHeads
  <2>2. Chain(book, wire, h.ch, peer[h.ch], Len(wire))
    BY <1>1, <1>4 DEF ChannelsOK
  <2> QED
    BY <1>5, <2>1, <2>2 DEF Chain
<1>7. peer[h.ch].no = Delivered(h.ch) + 1
  BY <1>4 DEF peer, ReaderPlace, Place
<1>8. h.no = Delivered(h.ch) + 1
  BY <1>6, <1>7 DEF Fits
<1>9. /\ Delivered(h.ch) \in Nat /\ h.no \in Known(h.ch)
      /\ book[h.ch][h.no] = inflight[h.ch][h.no - Delivered(h.ch)]
  BY <1>1, <1>4, BookAlways DEF BookOK
<1>10. h.no - Delivered(h.ch) = 1
  BY <1>8, <1>9
<1>11. inflight[h.ch] # <<>>
  <2>1. Len(inflight[h.ch]) \in Nat /\ sent[h.ch] \in Nat
    BY <1>1, <1>4 DEF MessagesOK
  <2>2. Delivered(h.ch) + 1 \in Delivered(h.ch) + 1 .. sent[h.ch]
    BY <1>8, <1>9 DEF Known
  <2>3. Len(inflight[h.ch]) # 0
    BY <1>9, <2>1, <2>2 DEF Delivered
  <2> QED
    BY <2>3
<1> QED
  BY <1>2, <1>3, <1>4, <1>6, <1>8, <1>9, <1>10, <1>11 DEF Of

(* Changes of fields of a stored packet, and of a blank one.  The empty    *)
(* sequence has a name where provers confuse it with a tuple.              *)
LEMMA EmptyBody == \E e \in Seq(Octet) : e = <<>>
<1>1. <<>> \in Seq(Octet)
  OBVIOUS
<1> QED
  BY <1>1, Zenon

IsFull(y, x, type, size, ts) ==
  y = [x EXCEPT !.type = type, !.size = size, !.ts = ts, !.abs = TRUE]
IsMedium(y, x, type, size, ts) ==
  y = [x EXCEPT !.type = type, !.size = size, !.ts = ts, !.body = <<>>]

FieldsAre(y, type, size, ts, abs, body) ==
  y \in Partial /\ y.type = type /\ y.size = size /\ y.ts = ts /\ y.abs = abs /\ y.body = body

LEMMA FullFields ==
  ASSUME NEW x, x \in Partial \/ x = Blank, NEW type \in STRING, NEW size \in Nat,
         NEW ts \in 0..Modulus - 1, NEW y, IsFull(y, x, type, size, ts)
  PROVE  FieldsAre(y, type, size, ts, TRUE, x.body)
<1>1. CASE x \in Partial
  BY <1>1 DEF Partial, IsFull, FieldsAre
<1>2. CASE x = Blank
  <2>1. PICK e \in Seq(Octet) : e = <<>>
    BY EmptyBody
  <2>2. x = [type |-> "none", size |-> 0, ts |-> 0, abs |-> FALSE, body |-> e]
    BY <1>2, <2>1, Zenon DEF Blank
  <2> QED
    BY <2>2 DEF Partial, IsFull, FieldsAre
<1> QED
  BY <1>1, <1>2

LEMMA MediumFields ==
  ASSUME NEW x, x \in Partial \/ x = Blank, NEW type \in STRING, NEW size \in Nat,
         NEW ts \in 0..Modulus - 1, NEW y, IsMedium(y, x, type, size, ts)
  PROVE  FieldsAre(y, type, size, ts, x.abs, <<>>)
<1>1. PICK e \in Seq(Octet) : e = <<>>
  BY EmptyBody
<1>2. y = [x EXCEPT !.type = type, !.size = size, !.ts = ts, !.body = e]
  BY <1>1 DEF IsMedium
<1>3. /\ y \in Partial /\ y.type = type /\ y.size = size /\ y.ts = ts
      /\ y.abs = x.abs /\ y.body = e
  <2>1. CASE x \in Partial
    BY <1>2, <2>1 DEF Partial
  <2>2. CASE x = Blank
    <3>1. x = [type |-> "none", size |-> 0, ts |-> 0, abs |-> FALSE, body |-> e]
      BY <1>1, <2>2, Zenon DEF Blank
    <3> QED
      BY <1>2, <3>1 DEF Partial
  <2> QED
    BY <2>1, <2>2
<1> QED
  BY <1>1, <1>3 DEF FieldsAre

LEMMA TimeField ==
  ASSUME NEW x \in Partial, NEW ts \in 0..Modulus - 1, NEW y, y = [x EXCEPT !.ts = ts]
  PROVE  /\ y \in Partial /\ y.type = x.type /\ y.size = x.size /\ y.ts = ts
         /\ y.abs = x.abs /\ y.body = x.body
BY DEF Partial

IsBody(y, x, body) == y = [x EXCEPT !.body = body]

LEMMA BodyField ==
  ASSUME NEW x \in Partial, NEW body \in Seq(Octet), NEW y, IsBody(y, x, body)
  PROVE  FieldsAre(y, x.type, x.size, x.ts, x.abs, body)
BY DEF Partial, IsBody, FieldsAre

LEMMA StoredFields ==
  ASSUME NEW x \in Partial
  PROVE  LET y == Stored(x) IN
         /\ y \in Partial /\ y.type = x.type /\ y.size = x.size /\ y.ts = x.ts
         /\ y.abs = FALSE /\ y.body = <<>>
<1>1. PICK e \in Seq(Octet) : e = <<>>
  BY EmptyBody
<1>2. Stored(x) = [x EXCEPT !.body = e, !.abs = FALSE]
  BY <1>1 DEF Stored
<1>3. PICK y : y = [x EXCEPT !.body = e, !.abs = FALSE]
  OBVIOUS
<1>4. /\ y \in Partial /\ y.type = x.type /\ y.size = x.size /\ y.ts = x.ts
      /\ y.abs = FALSE /\ y.body = e
  BY <1>3 DEF Partial
<1> QED
  BY <1>1, <1>2, <1>3, <1>4

(* What the peer makes of a header is the message, with the bytes it has   *)
(* of it.                                                                  *)
IsParsed(p, m, c, k, at) ==
  /\ p \in Partial /\ p.type = m.type /\ p.size = m.size
  /\ Len(p.body) = at - 1
  /\ \A i \in 1..at - 1 : p.body[i] = Byte(c, m.no, i)
  /\ m.timed => AbsoluteOf(p, k) = m.ts

LEMMA ParsedNew ==
  ASSUME ChunkInv, NEW h, NEW m \in Message, h.ch \in Channels, h.at = 1,
         Tells(h, m, ReaderBase(in[h.ch], clock[h.ch])),
         in[h.ch] # NONE => in[h.ch].body = <<>>,
         NEW p, p = Parsed(h)
  PROVE  IsParsed(p, m, h.ch, clock[h.ch], h.at)
<1> DEFINE x == in[h.ch]
           k == clock[h.ch]
           b == ReaderBase(x, k)
           z == IF h.fmt = "large" \/ x = NONE THEN Blank ELSE x
<1>1. /\ m.type \in STRING /\ m.size \in Nat \ {0} /\ m.ts \in 0..Modulus - 1
      /\ m.timed \in BOOLEAN
  BY DEF Message
<1>2. k \in 0..Modulus - 1 /\ (x # NONE => x \in Partial /\ x.body = <<>> /\ ~x.abs)
  BY DEF ChunkInv, ReaderOK
<1>3. /\ b.ts = k /\ b.timed = TRUE
      /\ x = NONE => b.size = 0
      /\ x # NONE => b.type = x.type /\ b.size = x.size
  BY DEF ReaderBase, Base
<1>4. Tells(h, m, b)
  OBVIOUS
<1>5. (z \in Partial \/ z = Blank) /\ z.body = <<>> /\ z.abs = FALSE
  <2>1. Blank.body = <<>> /\ Blank.abs = FALSE
    BY DEF Blank
  <2>2. x # NONE => x.abs = FALSE
    BY <1>2 DEF Partial
  <2> QED
    BY <1>2, <2>1, <2>2
<1>6. h.fmt # "minimum" => TimeOf(h) \in 0..Modulus - 1
  BY <1>4 DEF Tells
<1> HIDE DEF z
<1>7. /\ p \in Partial /\ p.type = m.type /\ p.size = m.size /\ p.body = <<>>
      /\ m.timed => AbsoluteOf(p, k) = m.ts
  <2>1. CASE h.fmt = "large"
    <3>1. /\ h.type = m.type /\ h.size = m.size /\ TimeOf(h) = m.ts
      BY <1>4, <2>1 DEF Tells
    <3>2. p = [z EXCEPT !.type = h.type, !.size = h.size, !.ts = TimeOf(h), !.abs = TRUE]
      BY <2>1 DEF Parsed, TimeOf, z
    <3>3. IsFull(p, z, m.type, m.size, m.ts)
      BY <3>1, <3>2 DEF IsFull
    <3>4. m.size \in Nat
      BY <1>1
    <3>5. /\ p \in Partial /\ p.type = m.type /\ p.size = m.size /\ p.ts = m.ts
          /\ p.abs = TRUE /\ p.body = z.body
      <4>1. z \in Partial \/ z = Blank
        BY <1>5
      <4>2. m.type \in STRING
        BY <1>1
      <4>3. m.ts \in 0..Modulus - 1
        BY <1>1
      <4> QED
        <5>1. FieldsAre(p, m.type, m.size, m.ts, TRUE, z.body)
          BY <3>3, <3>4, <4>1, <4>2, <4>3, FullFields, Zenon
        <5> QED
          BY <5>1 DEF FieldsAre
    <3> QED
      BY <1>5, <3>5 DEF AbsoluteOf
  <2>2. CASE h.fmt = "medium"
    <3>1. /\ h.type = m.type /\ h.size = m.size
          /\ m.timed => (k + TimeOf(h)) % Modulus = m.ts
      BY <1>3, <1>4, <2>2 DEF Tells
    <3>2. p = [z EXCEPT !.type = h.type, !.size = h.size, !.ts = TimeOf(h), !.body = <<>>]
      BY <2>2 DEF Parsed, TimeOf, z
    <3>3. TimeOf(h) \in 0..Modulus - 1
      BY <1>6, <2>2
    <3>6. IsMedium(p, z, m.type, m.size, TimeOf(h))
      BY <3>1, <3>2 DEF IsMedium
    <3>7. m.size \in Nat
      BY <1>1
    <3>4. /\ p \in Partial /\ p.type = m.type /\ p.size = m.size /\ p.ts = TimeOf(h)
          /\ p.abs = z.abs /\ p.body = <<>>
      <4>1. z \in Partial \/ z = Blank
        BY <1>5
      <4>2. m.type \in STRING
        BY <1>1
      <4>3. IsMedium(p, z, m.type, m.size, TimeOf(h)) /\ TimeOf(h) \in 0..Modulus - 1
        BY <3>3, <3>6
      <4> QED
        <5>1. FieldsAre(p, m.type, m.size, TimeOf(h), z.abs, <<>>)
          BY <3>7, <4>1, <4>2, <4>3, MediumFields, Zenon
        <5> QED
          BY <5>1 DEF FieldsAre
    <3>5. k + TimeOf(h) = TimeOf(h) + k
      BY <1>2, <3>3, Sizes
    <3> QED
      BY <1>5, <3>1, <3>4, <3>5 DEF AbsoluteOf
  <2>3. CASE h.fmt = "small"
    <3>1. /\ b.type = m.type /\ b.size = m.size
          /\ m.timed => (k + TimeOf(h)) % Modulus = m.ts
      BY <1>3, <1>4, <2>3 DEF Tells
    <3>2. x # NONE
      BY <1>1, <1>3, <3>1
    <3>3. p = [x EXCEPT !.ts = TimeOf(h)]
      BY <2>3, <3>2 DEF Parsed, TimeOf
    <3>4. TimeOf(h) \in 0..Modulus - 1
      BY <1>6, <2>3
    <3>5. /\ p \in Partial /\ p.type = x.type /\ p.size = x.size /\ p.ts = TimeOf(h)
          /\ p.abs = x.abs /\ p.body = x.body
      BY <1>2, <3>2, <3>3, <3>4, TimeField
    <3>6. k + TimeOf(h) = TimeOf(h) + k
      BY <1>2, <3>4, Sizes
    <3> QED
      BY <1>2, <1>3, <3>1, <3>2, <3>5, <3>6 DEF AbsoluteOf
  <2>4. CASE h.fmt = "minimum"
    <3>1. b.type = m.type /\ b.size = m.size /\ ~m.timed
      BY <1>4, <2>4 DEF Tells
    <3>2. x # NONE
      BY <1>1, <1>3, <3>1
    <3>3. p = x
      BY <2>4, <3>2 DEF Parsed
    <3> QED
      BY <1>2, <1>3, <3>1, <3>2, <3>3
  <2>5. h.fmt \in {"large", "medium", "small", "minimum"}
    BY <1>4 DEF Tells, Formats
  <2> QED
    BY <2>1, <2>2, <2>3, <2>4, <2>5
<1>8. Len(p.body) = h.at - 1 /\ 1..h.at - 1 = {}
  BY <1>7
<1> QED
  BY <1>7, <1>8 DEF IsParsed

LEMMA ParsedFacts ==
  ASSUME ChunkInv, wire # <<>>, NEW h, h = wire[1], NEW p, p = Parsed(h)
  PROVE  IsParsed(p, Of(book, h), h.ch, clock[h.ch], h.at)
<1> DEFINE x == in[h.ch]
           m == Of(book, h)
<1>1. /\ h.ch \in Channels /\ Fits(book, h, peer[h.ch]) /\ IsHead(book, h)
      /\ m = book[h.ch][Delivered(h.ch) + 1]
  BY FirstHead
<1>2. m \in Message /\ h.at \in Nat \ {0}
  BY <1>1, BookKept, HeadFacts DEF ChunkInv
<1>3. /\ x # NONE => x \in Partial
      /\ x # NONE /\ x.body # <<>> => Receives(x, m, h.ch, clock[h.ch])
  BY <1>1 DEF ChunkInv, ReaderOK
<1>4. /\ h.at = IF x = NONE THEN 1 ELSE Len(x.body) + 1
      /\ h.at = 1 => Tells(h, m, ReaderBase(x, clock[h.ch]))
      /\ h.at # 1 => h.fmt = "minimum"
  BY <1>1 DEF Fits, peer, ReaderPlace, Place
<1>5. x # NONE => x.body \in Seq(Octet) /\ Len(x.body) \in Nat
  BY <1>3 DEF Partial
<1>6. CASE h.at = 1
  <2>1. x # NONE => x.body = <<>>
    <3>1. x # NONE => Len(x.body) = 0
      BY <1>4, <1>5, <1>6
    <3> QED
      BY <1>5, <3>1, NoneLeft
  <2> QED
    BY <1>1, <1>2, <1>4, <1>6, <2>1, ParsedNew
<1>7. CASE h.at # 1
  <2>1. x # NONE /\ h.fmt = "minimum" /\ h.at = Len(x.body) + 1
    BY <1>4, <1>7
  <2>2. Len(x.body) # 0 /\ Len(x.body) = h.at - 1
    BY <1>5, <1>7, <2>1
  <2>3. Receives(x, m, h.ch, clock[h.ch])
    BY <1>3, <1>5, <2>1, <2>2, NoneLeft
  <2>4. p = x
    BY <2>1 DEF Parsed
  <2>5. 1..Len(x.body) = 1..h.at - 1
    BY <2>2
  <2> QED
    BY <1>3, <2>1, <2>2, <2>3, <2>4, <2>5 DEF Receives, IsParsed
<1> QED
  BY <1>6, <1>7

(* The body of the chunk, and what the peer has after it.                  *)
LEMMA SeqOver ==
  ASSUME NEW S, NEW T, NEW s \in Seq(S), \A i \in 1..Len(s) : s[i] \in T
  PROVE  s \in Seq(T)
OBVIOUS

BytesFollow(w, c, no, at, n) == \A k \in 1..n : w[1 + k] = Byte(c, no, at + k - 1)
IsPart(u, c, no, at, n) ==
  u \in Seq(Octet) /\ Len(u) = n /\ \A k \in 1..n : u[k] = Byte(c, no, at + k - 1)

LEMMA ChunkBody ==
  ASSUME NEW B, NEW w \in Seq(Cell), NEW c \in Channels, NEW no \in Nat, NEW at \in Nat \ {0},
         NEW n \in Nat \ {0}, Len(w) > n, BytesFollow(w, c, no, at, n),
         NEW u, u = Take(Tail(w), n)
  PROVE  IsPart(u, c, no, at, n)
<1>1. /\ Tail(w) \in Seq(Cell) /\ Len(Tail(w)) = Len(w) - 1 /\ Len(w) \in Nat
      /\ \A k \in 1..Len(w) - 1 : Tail(w)[k] = w[1 + k]
  OBVIOUS
<1>2. Least(n, Len(Tail(w))) = n /\ n \in Nat
  <2> DEFINE L == Len(w)
  <2>1. L \in Nat /\ L > n /\ Len(Tail(w)) = L - 1
    BY <1>1
  <2> HIDE DEF L
  <2> QED
    BY <2>1 DEF Least
<1>3. u \in Seq(Cell) /\ Len(u) = n /\ \A k \in 1..n : u[k] = Tail(w)[k]
  <2>1. PICK v \in Seq(Cell) : v = Tail(w)
    BY <1>1
  <2>2. /\ Take(v, n) \in Seq(Cell) /\ Len(Take(v, n)) = Least(n, Len(v))
        /\ \A i \in 1..Len(Take(v, n)) : Take(v, n)[i] = v[i]
    BY <1>2, TakeSeq
  <2> QED
    BY <1>2, <2>1, <2>2
<1>4. \A k \in 1..n : u[k] = Byte(c, no, at + k - 1)
  <2>1. \A k \in 1..n : k \in 1..Len(w) - 1
    BY <1>1
  <2> QED
    BY <1>1, <1>3, <2>1 DEF BytesFollow
<1>5. \A k \in 1..Len(u) : u[k] \in Octet
  <2> SUFFICES ASSUME NEW k \in 1..Len(u)
               PROVE  u[k] \in Octet
    OBVIOUS
  <2>1. at + k - 1 \in Nat /\ k \in 1..n
    BY <1>3
  <2>2. Byte(c, no, at + k - 1) \in Octet
    BY <2>1 DEF Byte, Octet
  <2> QED
    BY <1>4, <2>1, <2>2
<1> QED
  BY <1>3, <1>4, <1>5, SeqOver DEF IsPart

LEMMA MoreParsed ==
  ASSUME NEW p, NEW m, m.size \in Nat, m.no \in Nat, NEW c \in Channels, NEW k,
         NEW at \in Nat \ {0}, IsParsed(p, m, c, k, at),
         NEW n \in Nat \ {0}, NEW u, IsPart(u, c, m.no, at, n),
         NEW q, IsBody(q, p, p.body \o u), NEW e, e = at + n
  PROVE  IsParsed(q, m, c, k, e)
<1>1. /\ p \in Partial /\ p.type = m.type /\ p.size = m.size /\ Len(p.body) = at - 1
      /\ \A i \in 1..at - 1 : p.body[i] = Byte(c, m.no, i)
      /\ m.timed => AbsoluteOf(p, k) = m.ts
  BY DEF IsParsed
<1>2. /\ p.body \in Seq(Octet) /\ u \in Seq(Octet) /\ Len(u) = n
      /\ \A i \in 1..n : u[i] = Byte(c, m.no, at + i - 1)
  BY <1>1 DEF Partial, IsPart
<1>3. PICK b : b = p.body \o u
  OBVIOUS
<1>4. b \in Seq(Octet) /\ IsBody(q, p, b)
  BY <1>2, <1>3
<1>5. /\ q \in Partial /\ q.type = p.type /\ q.size = p.size /\ q.ts = p.ts
      /\ q.abs = p.abs /\ q.body = b
  <2>1. FieldsAre(q, p.type, p.size, p.ts, p.abs, b)
    BY <1>1, <1>4, BodyField, Zenon
  <2> QED
    BY <2>1 DEF FieldsAre
<1>6. /\ Len(b) = Len(p.body) + Len(u)
      /\ \A i \in 1..Len(p.body) : b[i] = p.body[i]
      /\ \A i \in 1..Len(u) : b[Len(p.body) + i] = u[i]
  <2>1. \A x, y \in Seq(Octet) :
          /\ Len(x \o y) = Len(x) + Len(y)
          /\ \A i \in 1..Len(x) : (x \o y)[i] = x[i]
          /\ \A i \in 1..Len(y) : (x \o y)[Len(x) + i] = y[i]
    BY CatSeq
  <2> QED
    BY <1>2, <1>3, <2>1
<1>0. at \in Nat /\ at >= 1 /\ n \in Nat
  OBVIOUS
<1>7. Len(b) = at + n - 1
  BY <1>0, <1>1, <1>2, <1>6
<1>8. ASSUME NEW i \in 1..at + n - 1
      PROVE  b[i] = Byte(c, m.no, i)
  <2>1. CASE i <= at - 1
    <3>1. i \in 1..at - 1
      BY <2>1
    <3> QED
      BY <1>1, <1>6, <3>1
  <2>2. CASE ~(i <= at - 1)
    <3>1. /\ i - (at - 1) \in 1..n /\ (at - 1) + (i - (at - 1)) = i
          /\ at + (i - (at - 1)) - 1 = i
      BY <1>0, <2>2
    <3>2. b[(at - 1) + (i - (at - 1))] = u[i - (at - 1)]
      BY <1>1, <1>2, <1>6, <3>1
    <3>3. u[i - (at - 1)] = Byte(c, m.no, at + (i - (at - 1)) - 1)
      BY <1>2, <3>1
    <3> QED
      BY <3>1, <3>2, <3>3
  <2> QED
    BY <2>1, <2>2
<1>9. m.timed => AbsoluteOf(q, k) = m.ts
  BY <1>1, <1>5 DEF AbsoluteOf
<1>10. /\ q \in Partial /\ q.type = m.type /\ q.size = m.size
       /\ Len(q.body) = e - 1
       /\ \A i \in 1..e - 1 : q.body[i] = Byte(c, m.no, i)
  <2>1. q \in Partial /\ q.type = m.type /\ q.size = m.size
    BY <1>1, <1>5
  <2>2. Len(q.body) = e - 1
    BY <1>5, <1>7
  <2>3. 1..e - 1 = 1..at + n - 1
    OBVIOUS
  <2> QED
    BY <1>5, <1>8, <2>1, <2>2, <2>3
<1> QED
  BY <1>9, <1>10, Zenon DEF IsParsed

(* A step of the peer: it takes the first header h and n bytes off the     *)
(* wire and has packet q then.                                             *)
IsRead(h, n, q) ==
  /\ h = wire[1] /\ n = Span(book, h) /\ n \in Nat \ {0} /\ Len(wire) > n
  /\ wire' = Drop(wire, 1 + n)
  /\ IsParsed(q, Of(book, h), h.ch, clock[h.ch], h.at + n)
  /\ in' = [in EXCEPT ![h.ch] = IF h.at + n = Of(book, h).size + 1 THEN Stored(q) ELSE q]
  /\ IF h.at + n = Of(book, h).size + 1
     THEN /\ clock' = [clock EXCEPT ![h.ch] = AbsoluteOf(q, clock[h.ch])]
          /\ received' = [received EXCEPT ![h.ch] =
               [type |-> q.type, size |-> q.size, body |-> q.body,
                ts |-> AbsoluteOf(q, clock[h.ch])]]
          /\ inflight' = [inflight EXCEPT ![h.ch] = Tail(@)]
     ELSE UNCHANGED <<clock, received, inflight>>
  /\ UNCHANGED <<writerVars, crossed>>

(* What it takes is the chunk that the first header announces.             *)
LEMMA FirstSpan ==
  ASSUME ChunkInv, wire # <<>>, NEW h, h = wire[1], NEW p, p = Parsed(h)
  PROVE  Least(ChunkSize, p.size - Len(p.body)) = Span(book, h)
<1> DEFINE m == Of(book, h)
<1>1. m \in Message /\ m.size \in Nat /\ h.at \in Nat
  BY FirstHead, BookKept, HeadFacts DEF ChunkInv
<1>2. p.size = m.size /\ Len(p.body) = h.at - 1
  BY ParsedFacts DEF IsParsed
<1>3. p.size - Len(p.body) = m.size - h.at + 1
  BY <1>1, <1>2
<1> QED
  BY <1>3 DEF Span

LEMMA ReadsChunk ==
  ASSUME ChunkInv, ReadChunk
  PROVE  \E h, n, q : IsRead(h, n, q)
<1> DEFINE h == wire[1]
           p == Parsed(h)
           m == Of(book, h)
           n == Least(ChunkSize, p.size - Len(p.body))
           u == Take(Tail(wire), n)
           q == [p EXCEPT !.body = @ \o u]
<1>1. wire # <<>> /\ wire \in Seq(Cell) /\ Head(wire) = h
  BY DEF ReadChunk, ChunkInv, IsWire
<1>2. /\ IsHead(book, h) /\ IsChunk(book, wire, 1) /\ h.ch \in Channels
      /\ inflight[h.ch] # <<>>
  BY <1>1, FirstHead
<1>3. /\ m \in Message /\ m.size \in Nat \ {0} /\ m.no = h.no /\ h.no \in Nat
      /\ h.at \in Nat \ {0} /\ Span(book, h) \in Nat \ {0}
      /\ h.at + Span(book, h) <= m.size + 1
  BY <1>2, BookKept, HeadFacts DEF ChunkInv
<1>4. IsParsed(p, m, h.ch, clock[h.ch], h.at)
  BY <1>1, ParsedFacts
<1>5. n = Span(book, h)
  BY <1>1, FirstSpan
<1>6. Len(wire) > n
  BY <1>1 DEF ReadChunk
<1> HIDE DEF n, p, m, h, u, q
<1>7. IsPart(u, h.ch, m.no, h.at, n)
  <2>1. BytesFollow(wire, h.ch, m.no, h.at, n)
    <3>1. ASSUME NEW k \in 1..n
          PROVE  1 + k <= Len(wire)
      BY <1>1, <1>3, <1>5, <1>6
    <3> QED
      BY <1>2, <1>3, <1>5, <3>1 DEF IsChunk, h, BytesFollow
  <2>2. u = Take(Tail(wire), n)
    BY DEF u
  <2>3. m.no \in Nat /\ n \in Nat \ {0}
    BY <1>3, <1>5
  <2> QED
    BY <1>1, <1>2, <1>3, <1>6, <2>1, <2>2, <2>3, ChunkBody, Zenon
<1>8. IsParsed(q, m, h.ch, clock[h.ch], h.at + n)
  <2>1. m.size \in Nat /\ m.no \in Nat /\ n \in Nat \ {0}
    BY <1>3, <1>5
  <2>2. IsBody(q, p, p.body \o u)
    BY DEF q, IsBody
  <2> QED
    BY <1>2, <1>3, <1>4, <1>7, <2>1, <2>2, MoreParsed, Zenon
<1>9. Len(q.body) = q.size <=> h.at + n = m.size + 1
  <2>1. Len(q.body) = (h.at + n) - 1 /\ q.size = m.size
    BY <1>8, Zenon DEF IsParsed
  <2>2. h.at \in Nat /\ n \in Nat /\ m.size \in Nat
    BY <1>3, <1>5
  <2> QED
    BY <2>1, <2>2
<1>10. Absolute(q, h.ch) = AbsoluteOf(q, clock[h.ch])
  BY DEF Absolute, AbsoluteOf
<1>11. /\ wire' = Drop(wire, 1 + n)
       /\ in' = [in EXCEPT ![h.ch] = IF Len(q.body) = q.size THEN Stored(q) ELSE q]
       /\ IF Len(q.body) = q.size
          THEN /\ clock' = [clock EXCEPT ![h.ch] = Absolute(q, h.ch)]
               /\ received' = [received EXCEPT ![h.ch] =
                    [type |-> q.type, size |-> q.size, body |-> q.body,
                     ts |-> Absolute(q, h.ch)]]
               /\ inflight' = [inflight EXCEPT ![h.ch] = IF @ = <<>> THEN @ ELSE Tail(@)]
          ELSE UNCHANGED <<clock, received, inflight>>
       /\ UNCHANGED <<writerVars, crossed>>
  BY <1>1 DEF ReadChunk, q, u, n, p
<1>12. IsRead(h, n, q)
  <2>1. h = wire[1] /\ n \in Nat \ {0}
    BY <1>3, <1>5 DEF h
  <2> QED
    BY <1>2, <1>5, <1>6, <1>8, <1>9, <1>10, <1>11, <2>1 DEF IsRead, m
<1> QED
  BY <1>12

(* The message is delivered with the last chunk.                           *)
Ending(h, n) == h.at + n = Of(book, h).size + 1

(* The messages of book B1 behind number K[c] of channel c are in B2.      *)
Keeps(B2, B1, K) ==
  \A c \in Channels : \A k \in DOMAIN B1[c] :
    k > K[c] => k \in DOMAIN B2[c] /\ B2[c][k] = B1[c][k]

delivered == [c \in Channels |-> Delivered(c)]

LEMMA ReadFirst ==
  ASSUME ChunkInv, NEW h, NEW n, NEW q, IsRead(h, n, q)
  PROVE  /\ wire # <<>> /\ h.kind = "head" /\ IsHead(book, h) /\ IsChunk(book, wire, 1)
         /\ h.ch \in Channels /\ h.no = Delivered(h.ch) + 1 /\ h.no \in Nat
         /\ inflight[h.ch] # <<>> /\ Of(book, h) = inflight[h.ch][1]
         /\ Of(book, h) = book[h.ch][Delivered(h.ch) + 1]
         /\ Of(book, h) \in Message /\ Of(book, h).no = h.no /\ Of(book, h).ch = h.ch
         /\ Of(book, h).size \in Nat \ {0}
         /\ h.at \in Nat \ {0} /\ n = Span(book, h) /\ n \in Nat \ {0}
<1>1. wire # <<>> /\ h = wire[1] /\ n = Span(book, h)
  <2>1. wire \in Seq(Cell) /\ Len(wire) > n /\ n \in Nat
    BY DEF IsRead, ChunkInv, IsWire
  <2>2. Len(wire) # 0
    BY <2>1
  <2> QED
    BY <2>1, <2>2, NoneLeft DEF IsRead
<1>2. IsBook(book)
  BY BookKept DEF ChunkInv
<1> QED
  BY <1>1, <1>2, FirstHead, HeadFacts

LEMMA ReadMessages ==
  ASSUME ChunkInv, NEW h, NEW n, NEW q, IsRead(h, n, q)
  PROVE  /\ MessagesOK'
         /\ sent' = sent /\ out' = out
         /\ \A d \in Channels : d # h.ch => inflight'[d] = inflight[d]
         /\ Ending(h, n) => /\ inflight'[h.ch] = Tail(inflight[h.ch])
                            /\ Delivered(h.ch)' = Delivered(h.ch) + 1
         /\ ~Ending(h, n) => inflight' = inflight
<1> DEFINE c == h.ch
<1>1. /\ inflight \in [Channels -> Seq(Message)] /\ sent \in [Channels -> Nat]
      /\ out \in [Channels -> Message \cup {NONE}]
  BY DEF ChunkInv, MessagesOK
<1>2. /\ c \in Channels /\ inflight[c] # <<>>
  BY ReadFirst
<1>3. sent' = sent /\ out' = out
  BY DEF IsRead, writerVars
<1>4. CASE Ending(h, n)
  <2>1. inflight' = [inflight EXCEPT ![c] = Tail(@)]
    BY <1>4 DEF IsRead, Ending
  <2>2. PICK f \in Seq(Message) : f = inflight[c] /\ f # <<>>
    BY <1>1, <1>2
  <2>3. /\ Tail(f) \in Seq(Message) /\ Len(Tail(f)) = Len(f) - 1 /\ Len(f) \in Nat \ {0}
        /\ \A i \in 1..Len(f) - 1 : Tail(f)[i] = f[i + 1]
    BY <2>2
  <2>4. inflight'[c] = Tail(f) /\ \A d \in Channels : d # c => inflight'[d] = inflight[d]
    BY <1>1, <1>2, <2>1, <2>2
  <2>5. inflight' \in [Channels -> Seq(Message)]
    BY <1>1, <2>1, <2>2, <2>3
  <2>6. sent[c] \in Nat /\ Delivered(c) = sent[c] - Len(f) /\ Delivered(c) \in Nat
    BY <1>1, <1>2, <2>2, BookAlways DEF Delivered, BookOK, ChunkInv
  <2>7. Delivered(c)' = Delivered(c) + 1
    <3>1. Delivered(c)' = sent[c] - (Len(f) - 1)
      BY <1>3, <2>3, <2>4 DEF Delivered
    <3>2. Len(f) \in Nat
      BY <2>3
    <3> QED
      BY <2>6, <3>1, <3>2
  <2>8. \A d \in Channels : d # c => Delivered(d)' = Delivered(d)
    BY <1>3, <2>4 DEF Delivered
  <2>9. ASSUME NEW d \in Channels
        PROVE  /\ Len(inflight'[d]) <= sent'[d] /\ sent'[d] <= MaxSends[d]
               /\ \A i \in 1..Len(inflight'[d]) :
                    inflight'[d][i].ch = d /\ inflight'[d][i].no = Delivered(d)' + i
    <3>1. /\ Len(inflight[d]) <= sent[d] /\ sent[d] <= MaxSends[d]
          /\ \A i \in 1..Len(inflight[d]) :
               inflight[d][i].ch = d /\ inflight[d][i].no = Delivered(d) + i
      BY DEF ChunkInv, MessagesOK
    <3>2. CASE d # c
      BY <1>3, <2>4, <2>8, <3>1, <3>2
    <3>3. CASE d = c
      <4>1. /\ Len(f) <= sent[c] /\ sent[c] <= MaxSends[c]
            /\ \A i \in 1..Len(f) : f[i].ch = c /\ f[i].no = Delivered(c) + i
        BY <2>2, <3>1, <3>3
      <4>2. Len(f) \in Nat /\ Len(f) # 0
        BY <2>3
      <4>3. Len(f) - 1 <= sent[c]
        BY <2>6, <4>1, <4>2
      <4>4. ASSUME NEW i \in 1..Len(f) - 1
            PROVE  Tail(f)[i].ch = c /\ Tail(f)[i].no = Delivered(c)' + i
        <5>1. i + 1 \in 1..Len(f) /\ Delivered(c) + (i + 1) = (Delivered(c) + 1) + i
          <6> DEFINE N == Len(f)
                     D == Delivered(c)
          <6>1. N \in Nat /\ D \in Nat /\ i \in 1..N - 1
            BY <2>6, <4>2
          <6> HIDE DEF N, D
          <6>2. i + 1 \in 1..N /\ D + (i + 1) = (D + 1) + i
            BY <6>1
          <6> QED
            BY <6>2 DEF N, D
        <5> QED
          BY <2>3, <2>7, <4>1, <5>1
      <4> QED
        BY <1>3, <2>3, <2>4, <3>3, <4>1, <4>3, <4>4
    <3> QED
      BY <3>2, <3>3
  <2>10. MessagesOK'
    BY <1>1, <1>3, <2>5, <2>9 DEF MessagesOK
  <2> QED
    BY <1>3, <1>4, <2>2, <2>4, <2>7, <2>10
<1>5. CASE ~Ending(h, n)
  <2>1. inflight' = inflight
    BY <1>5 DEF IsRead, Ending
  <2>2. \A d \in Channels : Delivered(d)' = Delivered(d)
    BY <1>3, <2>1 DEF Delivered
  <2>3. MessagesOK'
    BY <1>3, <2>1, <2>2 DEF ChunkInv, MessagesOK
  <2> QED
    BY <1>3, <1>5, <2>1, <2>3
<1> QED
  BY <1>4, <1>5

LEMMA ReadBook ==
  ASSUME ChunkInv, NEW h, NEW n, NEW q, IsRead(h, n, q)
  PROVE  /\ IsBook(book) /\ IsBook(book') /\ Keeps(book', book, delivered')
         /\ \A d \in Channels : \A k \in DOMAIN book[d] : d # h.ch => k > delivered'[d]
         /\ \A d \in Channels : d # h.ch => delivered'[d] = Delivered(d)
         /\ delivered'[h.ch] = IF Ending(h, n) THEN h.no ELSE h.no - 1
         /\ \A d \in Channels : DOMAIN book'[d] = delivered'[d] + 1 .. sent[d]
<1> DEFINE c == h.ch
<1>1. /\ MessagesOK' /\ sent' = sent
      /\ \A d \in Channels : d # c => inflight'[d] = inflight[d]
      /\ Ending(h, n) => Delivered(c)' = Delivered(c) + 1 /\ inflight'[c] = Tail(inflight[c])
      /\ ~Ending(h, n) => inflight' = inflight
  BY ReadMessages
<1>2. BookOK /\ BookOK'
  <2>1. BookOK'
    BY <1>1, BookAlways, PTL
  <2> QED
    BY <2>1, BookAlways DEF ChunkInv
<1>3. /\ \A d \in Channels : d # c => Delivered(d)' = Delivered(d)
      /\ ~Ending(h, n) => Delivered(c)' = Delivered(c)
  BY <1>1 DEF Delivered
<1>4. c \in Channels /\ h.no = Delivered(c) + 1 /\ Delivered(c) \in Nat
  BY <1>2, ReadFirst DEF BookOK
<1>5. \A d \in Channels : delivered'[d] = Delivered(d)'
  BY DEF delivered
<1>6. delivered'[c] = IF Ending(h, n) THEN h.no ELSE h.no - 1
  BY <1>1, <1>3, <1>4, <1>5
<1>7. ASSUME NEW d \in Channels
      PROVE  /\ DOMAIN book[d] = Delivered(d) + 1 .. sent[d] /\ Delivered(d) \in Nat
             /\ sent[d] \in Nat
             /\ DOMAIN book'[d] = delivered'[d] + 1 .. sent[d] /\ delivered'[d] \in Nat
             /\ \A k \in DOMAIN book[d] : book[d][k] = inflight[d][k - Delivered(d)]
             /\ \A k \in DOMAIN book'[d] : book'[d][k] = inflight'[d][k - delivered'[d]]
  <2>1. /\ DOMAIN book[d] = Delivered(d) + 1 .. sent[d] /\ Delivered(d) \in Nat
        /\ sent[d] \in Nat
        /\ \A k \in DOMAIN book[d] : book[d][k] = inflight[d][k - Delivered(d)]
    BY <1>2 DEF BookOK, Known
  <2>2. /\ DOMAIN book'[d] = Delivered(d)' + 1 .. sent'[d] /\ Delivered(d)' \in Nat
        /\ \A k \in DOMAIN book'[d] : book'[d][k] = inflight'[d][k - Delivered(d)']
    BY <1>2 DEF BookOK, Known
  <2> QED
    BY <1>1, <1>5, <2>1, <2>2
<1>8. ASSUME NEW d \in Channels, NEW k \in DOMAIN book[d], k > delivered'[d]
      PROVE  k \in DOMAIN book'[d] /\ book'[d][k] = book[d][k]
  <2>1. k \in DOMAIN book'[d] /\ k \in Delivered(d) + 1 .. sent[d]
    BY <1>7, <1>8
  <2>2. CASE d # c \/ ~Ending(h, n)
    <3>1. inflight'[d] = inflight[d] /\ delivered'[d] = Delivered(d)
      BY <1>1, <1>3, <1>5, <2>2
    <3> QED
      BY <1>7, <2>1, <3>1
  <2>3. CASE d = c /\ Ending(h, n)
    <3>1. PICK f \in Seq(Message) : f = inflight[c] /\ f # <<>> /\ inflight'[c] = Tail(f)
      BY <1>1, <1>4, <2>3, ReadFirst DEF ChunkInv, MessagesOK
    <3>2. \A i \in 1..Len(f) - 1 : Tail(f)[i] = f[i + 1]
      BY <3>1
    <3>3. Delivered(c) = sent[c] - Len(f) /\ Len(f) \in Nat
      BY <3>1 DEF Delivered
    <3>4. delivered'[c] = Delivered(c) + 1
      BY <1>4, <1>6, <2>3
    <3>5. /\ k - delivered'[c] \in 1..Len(f) - 1
          /\ (k - delivered'[c]) + 1 = k - Delivered(c)
      <4> DEFINE N == Len(f)
                 D == Delivered(c)
                 S == sent[c]
      <4>1. N \in Nat /\ D \in Nat /\ D = S - N /\ S \in Nat
        BY <1>4, <1>7, <3>3
      <4>2. delivered'[c] = D + 1 /\ k > D + 1 /\ k \in D + 1 .. S
        BY <1>8, <2>1, <2>3, <3>4
      <4> HIDE DEF N, D, S
      <4>3. k - (D + 1) \in 1..N - 1 /\ (k - (D + 1)) + 1 = k - D
        <5>1. k > D + 1 /\ k \in Int /\ k <= S
          BY <4>1, <4>2
        <5> QED
          BY <4>1, <5>1
      <4> QED
        <5>1. k - delivered'[c] = k - (D + 1)
          BY <4>2, Zenon
        <5>2. /\ k - delivered'[c] \in 1..N - 1
              /\ (k - delivered'[c]) + 1 = k - D
          BY <4>3, <5>1
        <5> QED
          BY <5>2, Zenon DEF N, D
    <3>6. book'[c][k] = Tail(f)[k - delivered'[c]]
      <4>1. k \in DOMAIN book'[c] /\ inflight'[c] = Tail(f)
        BY <2>1, <2>3, <3>1
      <4> QED
        BY <1>4, <1>7, <4>1
    <3>7. book[c][k] = f[k - Delivered(c)]
      BY <1>7, <2>1, <2>3, <3>1
    <3> QED
      BY <2>1, <2>3, <3>2, <3>5, <3>6, <3>7
  <2> QED
    BY <2>2, <2>3
<1>9. \A d \in Channels : \A k \in DOMAIN book[d] : d # c => k > delivered'[d]
  BY <1>3, <1>5, <1>7
<1> QED
  BY <1>2, <1>3, <1>5, <1>6, <1>7, <1>8, <1>9 DEF BookOK, Keeps

(* What the peer has after it.                                             *)
LEMMA AbsoluteRange ==
  ASSUME NEW q \in Partial, NEW k \in 0..Modulus - 1
  PROVE  AbsoluteOf(q, k) \in 0..Modulus - 1
<1>1. q.ts \in 0..Modulus - 1
  BY DEF Partial
<1>2. PICK d : d = (k - q.ts) % Modulus
  OBVIOUS
<1>3. (q.ts + k) % Modulus \in 0..Modulus - 1
  BY <1>1, <1>2, TimesAdd, Zenon
<1> QED
  BY <1>1, <1>3 DEF AbsoluteOf

LEMMA ReadsOn ==
  ASSUME NEW q, NEW m, NEW c, NEW k, NEW e \in Nat, IsParsed(q, m, c, k, e), e > 1,
         m.size \in Nat, e <= m.size
  PROVE  Receives(q, m, c, k) /\ q.body # <<>> /\ Len(q.body) = e - 1
<1>1. /\ q.size = m.size /\ q.type = m.type /\ Len(q.body) = e - 1
      /\ \A i \in 1..e - 1 : q.body[i] = Byte(c, m.no, i)
      /\ m.timed => AbsoluteOf(q, k) = m.ts
  BY DEF IsParsed
<1>2. e - 1 < m.size /\ e - 1 # 0
  OBVIOUS
<1>3. Len(q.body) < m.size /\ Len(q.body) # 0
  BY <1>1, <1>2
<1>4. q.body # <<>>
  <2>1. Len(<<>>) = 0
    OBVIOUS
  <2> QED
    BY <1>3, <2>1, Zenon
<1>5. \A i \in 1..Len(q.body) : q.body[i] = Byte(c, m.no, i)
  BY <1>1
<1> QED
  BY <1>1, <1>3, <1>4, <1>5 DEF Receives

LEMMA ReadReader ==
  ASSUME ChunkInv, NEW h, NEW n, NEW q, IsRead(h, n, q)
  PROVE  ReaderOK'
<1> DEFINE c == h.ch
           m == Of(book, h)
           e == h.at + n
<1>1. /\ c \in Channels /\ m \in Message /\ m.size \in Nat \ {0} /\ m.ch = c
      /\ h.no = Delivered(c) + 1 /\ inflight[c] # <<>> /\ m = book[c][Delivered(c) + 1]
      /\ h.at \in Nat \ {0} /\ n \in Nat \ {0} /\ n = Span(book, h)
  BY ReadFirst
<1>2. e \in Nat /\ e > 1 /\ m.size \in Nat /\ e <= m.size + 1
  <2>1. h.at \in Nat /\ h.at >= 1 /\ n \in Nat /\ n >= 1 /\ m.size \in Nat
    BY <1>1
  <2>2. h.at + n <= m.size + 1
    BY <1>1, BookKept, ReadFirst, HeadFacts DEF ChunkInv
  <2> QED
    BY <2>1, <2>2
<1>3. /\ in \in [Channels -> Partial \cup {NONE}]
      /\ received \in [Channels -> Whole \cup {NONE}]
      /\ clock \in [Channels -> 0..Modulus - 1]
      /\ \A d \in Channels : in[d] # NONE =>
           /\ in[d].body = <<>> => ~in[d].abs
           /\ in[d].body # <<>> => /\ inflight[d] # <<>>
                                   /\ Receives(in[d], book[d][Delivered(d) + 1], d, clock[d])
  BY DEF ChunkInv, ReaderOK
<1>4. IsParsed(q, m, c, clock[c], e)
  BY DEF IsRead
<1>5. q \in Partial
  BY <1>4 DEF IsParsed
<1>6. /\ sent' = sent
      /\ \A d \in Channels : d # c => inflight'[d] = inflight[d]
      /\ ~Ending(h, n) => inflight' = inflight
  BY ReadMessages
<1>7. ASSUME NEW d \in Channels, inflight[d] # <<>>, d # c \/ ~Ending(h, n)
      PROVE  inflight'[d] # <<>> /\ book'[d][Delivered(d)' + 1] = book[d][Delivered(d) + 1]
  <2>1. inflight'[d] = inflight[d] /\ Delivered(d)' = Delivered(d)
    BY <1>6, <1>7 DEF Delivered
  <2>2. /\ DOMAIN book[d] = Delivered(d) + 1 .. sent[d] /\ Delivered(d) \in Nat
        /\ sent[d] \in Nat
    BY BookAlways DEF BookOK, ChunkInv, Known
  <2>3. /\ Len(inflight[d]) # 0 /\ Len(inflight[d]) \in Nat
        /\ Delivered(d) = sent[d] - Len(inflight[d])
    BY <1>7, NoneLeft DEF ChunkInv, MessagesOK, Delivered
  <2>4. Delivered(d) + 1 \in DOMAIN book[d]
    BY <2>2, <2>3
  <2>5. Delivered(d) + 1 > delivered'[d]
    BY <2>1, <2>2 DEF delivered
  <2>6. Keeps(book', book, delivered')
    BY ReadBook
  <2>7. book'[d][Delivered(d) + 1] = book[d][Delivered(d) + 1]
    BY <2>4, <2>5, <2>6 DEF Keeps
  <2> QED
    BY <1>7, <2>1, <2>7
<1>8. CASE Ending(h, n)
  <2>1. /\ in' = [in EXCEPT ![c] = Stored(q)]
        /\ clock' = [clock EXCEPT ![c] = AbsoluteOf(q, clock[c])]
        /\ received' = [received EXCEPT ![c] =
             [type |-> q.type, size |-> q.size, body |-> q.body,
              ts |-> AbsoluteOf(q, clock[c])]]
    BY <1>8 DEF IsRead, Ending
  <2>2. AbsoluteOf(q, clock[c]) \in 0..Modulus - 1
    BY <1>1, <1>3, <1>5, AbsoluteRange
  <2>3. Stored(q) \in Partial /\ Stored(q).body = <<>> /\ Stored(q).abs = FALSE
    BY <1>5, StoredFields
  <2>4. [type |-> q.type, size |-> q.size, body |-> q.body, ts |-> AbsoluteOf(q, clock[c])]
           \in Whole
    <3>1. q.type \in STRING /\ q.size \in Nat /\ q.body \in Seq(Octet)
      BY <1>5 DEF Partial
    <3> QED
      BY <2>2, <3>1 DEF Whole
  <2>5. /\ in' \in [Channels -> Partial \cup {NONE}]
        /\ received' \in [Channels -> Whole \cup {NONE}]
        /\ clock' \in [Channels -> 0..Modulus - 1]
        /\ in'[c] = Stored(q) /\ \A d \in Channels : d # c => in'[d] = in[d] /\ clock'[d] = clock[d]
    BY <1>1, <1>3, <2>1, <2>2, <2>3, <2>4
  <2>6. ASSUME NEW d \in Channels, in'[d] # NONE
        PROVE  /\ in'[d].body = <<>> => ~in'[d].abs
               /\ in'[d].body # <<>> =>
                    /\ inflight'[d] # <<>>
                    /\ Receives(in'[d], book'[d][Delivered(d)' + 1], d, clock'[d])
    <3>1. CASE d = c
      BY <2>3, <2>5, <3>1
    <3>2. CASE d # c
      <4>1. in'[d] = in[d] /\ clock'[d] = clock[d]
        BY <2>5, <3>2
      <4> QED
        BY <1>3, <1>7, <2>6, <3>2, <4>1
    <3> QED
      BY <3>1, <3>2
  <2> QED
    BY <2>5, <2>6 DEF ReaderOK
<1>9. CASE ~Ending(h, n)
  <2>1. in' = [in EXCEPT ![c] = q] /\ clock' = clock /\ received' = received
    BY <1>9 DEF IsRead, Ending
  <2>2. /\ in' \in [Channels -> Partial \cup {NONE}] /\ in'[c] = q
        /\ \A d \in Channels : d # c => in'[d] = in[d]
    BY <1>1, <1>3, <1>5, <2>1
  <2>3. Receives(q, m, c, clock[c]) /\ q.body # <<>>
    <3>1. e <= m.size
      BY <1>2, <1>9 DEF Ending
    <3>2. m.size \in Nat
      BY <1>2
    <3> QED
      BY <1>2, <1>4, <3>1, <3>2, ReadsOn
  <2>4. ASSUME NEW d \in Channels, in'[d] # NONE
        PROVE  /\ in'[d].body = <<>> => ~in'[d].abs
               /\ in'[d].body # <<>> =>
                    /\ inflight'[d] # <<>>
                    /\ Receives(in'[d], book'[d][Delivered(d)' + 1], d, clock'[d])
    <3>1. CASE d = c
      <4>1. inflight'[d] # <<>> /\ book'[d][Delivered(d)' + 1] = m
        BY <1>1, <1>7, <1>9, <3>1
      <4> QED
        BY <2>1, <2>2, <2>3, <3>1, <4>1
    <3>2. CASE d # c
      <4>1. in'[d] = in[d] /\ clock'[d] = clock[d]
        BY <2>1, <2>2, <3>2
      <4> QED
        BY <1>3, <1>7, <2>4, <3>2, <4>1
    <3> QED
      BY <3>1, <3>2
  <2> QED
    BY <1>3, <2>1, <2>2, <2>4 DEF ReaderOK
<1> QED
  BY <1>8, <1>9

LEMMA ReadPlace ==
  ASSUME ChunkInv, NEW h, NEW n, NEW q, IsRead(h, n, q)
  PROVE  /\ Better(peer'[h.ch], HeadPlace(book, h))
         /\ \A d \in Channels : d # h.ch => peer'[d] = peer[d]
<1> DEFINE c == h.ch
           m == Of(book, h)
           e == h.at + n
<1>1. /\ c \in Channels /\ m.size \in Nat \ {0} /\ h.no = Delivered(c) + 1
      /\ h.at \in Nat \ {0} /\ n \in Nat \ {0} /\ n = Span(book, h)
      /\ IsHead(book, h) /\ IsBook(book) /\ h.no \in Nat
  BY ReadFirst, BookKept DEF ChunkInv
<1>2. e \in Nat /\ e > 1
  <2>1. h.at \in Nat /\ h.at >= 1 /\ n \in Nat /\ n >= 1
    BY <1>1
  <2> QED
    BY <2>1
<1>3. IsParsed(q, m, c, clock[c], e) /\ q \in Partial /\ q # NONE
  BY NullAssumption DEF IsRead, IsParsed
<1>4. /\ \A d \in Channels : d # c => inflight'[d] = inflight[d]
      /\ sent' = sent
      /\ Ending(h, n) => Delivered(c)' = Delivered(c) + 1
      /\ ~Ending(h, n) => inflight' = inflight
  BY ReadMessages
<1>5. \A d \in Channels : d # c => peer'[d] = peer[d]
  <2> SUFFICES ASSUME NEW d \in Channels, d # c
               PROVE  peer'[d] = peer[d]
    OBVIOUS
  <2>1. in'[d] = in[d] /\ clock'[d] = clock[d]
    BY <1>1 DEF IsRead, ChunkInv, ReaderOK
  <2>2. Delivered(d)' = Delivered(d)
    BY <1>4 DEF Delivered
  <2> QED
    BY <2>1, <2>2 DEF peer
<1>6. in \in [Channels -> Partial \cup {NONE}] /\ clock \in [Channels -> 0..Modulus - 1]
  BY DEF ChunkInv, ReaderOK
<1>7. /\ HeadPlace(book, h).base = MessageBase(m)
      /\ e = m.size + 1 => HeadPlace(book, h).no = h.no + 1 /\ HeadPlace(book, h).at = 1
      /\ e # m.size + 1 => HeadPlace(book, h).no = h.no /\ HeadPlace(book, h).at = e
  BY <1>1, HeadPlaceFacts
<1>8. /\ q.size = m.size /\ q.type = m.type /\ Len(q.body) = e - 1
      /\ m.timed => AbsoluteOf(q, clock[c]) = m.ts
  BY <1>3 DEF IsParsed
<1>9. peer'[c] = ReaderPlace(in'[c], Delivered(c)', clock'[c])
  BY <1>1 DEF peer
<1>10. CASE Ending(h, n)
  <2>1. in' = [in EXCEPT ![c] = Stored(q)] /\ clock' = [clock EXCEPT ![c] = AbsoluteOf(q, clock[c])]
    BY <1>10 DEF IsRead, Ending
  <2>2. in'[c] = Stored(q) /\ clock'[c] = AbsoluteOf(q, clock[c])
    BY <1>1, <1>6, <2>1
  <2>3. /\ Stored(q) \in Partial /\ Stored(q).body = <<>> /\ Stored(q).type = q.type
        /\ Stored(q).size = q.size
    BY <1>3, StoredFields
  <2>4. Stored(q) # NONE /\ Len(Stored(q).body) + 1 = 1
    BY <2>3, NullAssumption
  <2>5. /\ peer'[c].no = Delivered(c) + 1 + 1 /\ peer'[c].at = 1
        /\ peer'[c].base = Base(q.type, q.size, AbsoluteOf(q, clock[c]), TRUE)
    BY <1>4, <1>9, <1>10, <2>2, <2>3, <2>4 DEF ReaderPlace, Place, ReaderBase
  <2>6. e = m.size + 1
    BY <1>10 DEF Ending
  <2>7. Serves(peer'[c].base, MessageBase(m))
    BY <1>8, <2>5 DEF Serves, Base, MessageBase
  <2> QED
    BY <1>1, <1>5, <1>7, <2>5, <2>6, <2>7 DEF Better
<1>11. CASE ~Ending(h, n)
  <2>1. in' = [in EXCEPT ![c] = q] /\ inflight' = inflight
    BY <1>4, <1>11 DEF IsRead, Ending
  <2>2. in'[c] = q /\ Delivered(c)' = Delivered(c)
    BY <1>1, <1>4, <1>6, <2>1 DEF Delivered
  <2>3. peer'[c].no = h.no /\ peer'[c].at = e
    <3>1. Len(q.body) + 1 = e
      BY <1>2, <1>8
    <3> QED
      BY <1>1, <1>3, <1>9, <2>2, <3>1 DEF ReaderPlace, Place
  <2>4. e # m.size + 1 /\ e # 1
    BY <1>2, <1>11 DEF Ending
  <2> QED
    BY <1>5, <1>7, <2>3, <2>4 DEF Better
<1> QED
  BY <1>10, <1>11

(* What is left of a wire behind its first s cells.                        *)
Drops(w2, w1, s) ==
  /\ w2 \in Seq(Cell) /\ s \in Nat /\ Len(w1) = s + Len(w2)
  /\ \A i \in 1..Len(w2) : w2[i] = w1[s + i]

Stays(B2, B1, w2) ==
  \A i \in 1..Len(w2) : w2[i].kind = "head" =>
    Of(B2, w2[i]) = Of(B1, w2[i]) /\ w2[i].no \in DOMAIN B2[w2[i].ch]

LEMMA DropsAt ==
  ASSUME NEW w2, NEW w1, NEW s, Drops(w2, w1, s), NEW i \in 1..Len(w2)
  PROVE  s + i \in 1..Len(w1) /\ w2[i] = w1[s + i]
<1>1. Len(w2) \in Nat /\ s \in Nat /\ Len(w1) = s + Len(w2) /\ w2[i] = w1[s + i]
  BY DEF Drops
<1> QED
  BY <1>1

LEMMA DropsWire ==
  ASSUME NEW B1, IsBook(B1), NEW B2, NEW w1, IsWire(B1, w1), NEW w2, NEW s, Drops(w2, w1, s),
         Stays(B2, B1, w2), w2 # <<>> => w2[1].kind = "head"
  PROVE  IsWire(B2, w2)
<1>1. w2 \in Seq(Cell) /\ Len(w2) \in Nat /\ Len(w1) = s + Len(w2) /\ s \in Nat
  BY DEF Drops
<1>2. ASSUME NEW i \in 1..Len(w2), w2[i].kind = "head"
      PROVE  IsChunk(B2, w2, i)
  <2> DEFINE j == s + i
             h == w2[i]
  <2>1. j \in 1..Len(w1) /\ h = w1[j]
    BY <1>2, DropsAt
  <2>2. IsHead(B1, h) /\ IsChunk(B1, w1, j)
    BY <1>2, <2>1, WireHead
  <2>3. Of(B2, h) = Of(B1, h) /\ h.no \in DOMAIN B2[h.ch]
    BY <1>2 DEF Stays
  <2>4. Span(B2, h) = Span(B1, h) /\ Span(B1, h) \in Nat
    BY <2>2, <2>3, SameMessage, HeadFacts
  <2>5. IsHead(B2, h)
    BY <2>2, <2>3 DEF IsHead
  <2>6. /\ \A k \in 1..Span(B1, h) : j + k <= Len(w1) => w1[j + k] = Byte(h.ch, h.no, h.at + k - 1)
        /\ j + Span(B1, h) < Len(w1) => w1[j + Span(B1, h) + 1].kind = "head"
    BY <2>1, <2>2 DEF IsChunk
  <2> HIDE DEF h
  <2>7. ASSUME NEW k \in 1..Span(B1, h), i + k <= Len(w2)
        PROVE  w2[i + k] = Byte(h.ch, h.no, h.at + k - 1)
    <3>1. k \in Nat /\ k >= 1 /\ i \in Nat /\ i >= 1
      BY <2>4
    <3>2. i + k \in 1..Len(w2)
      BY <1>1, <2>7, <3>1
    <3>3. w2[i + k] = w1[s + (i + k)] /\ s + (i + k) \in 1..Len(w1)
      BY <3>2, DropsAt
    <3>4. s + (i + k) = j + k /\ j + k <= Len(w1)
      BY <1>1, <3>1, <3>3
    <3> QED
      BY <2>6, <3>3, <3>4
  <2>8. ASSUME i + Span(B1, h) < Len(w2)
        PROVE  w2[i + Span(B1, h) + 1].kind = "head"
    <3> DEFINE z == Span(B1, h)
               L == Len(w2)
               K == Len(w1)
    <3>1. z \in Nat /\ i \in Nat /\ L \in Nat /\ s \in Nat /\ K = s + L /\ i + z < L /\ i >= 1
      BY <1>1, <2>4, <2>8
    <3>2. j + z < K => w1[j + z + 1].kind = "head"
      BY <2>6
    <3>3. \A k \in 1..L : w2[k] = w1[s + k]
      BY DropsAt
    <3> HIDE DEF z, L, K
    <3>4. i + z + 1 \in 1..L /\ s + (i + z + 1) = j + z + 1 /\ j + z < K
      BY <3>1
    <3>5. w2[i + z + 1] = w1[j + z + 1]
      BY <3>3, <3>4
    <3> QED
      BY <3>2, <3>4, <3>5 DEF z
  <2> QED
    BY <2>4, <2>5, <2>7, <2>8 DEF IsChunk, h
<1> QED
  BY <1>1, <1>2 DEF IsWire

LEMMA DropsHeads ==
  ASSUME NEW w2, NEW w1, NEW s, Drops(w2, w1, s), NEW c, NEW i \in HeadsTo(w2, c, Len(w2))
  PROVE  /\ s + i \in HeadsTo(w1, c, Len(w1)) /\ w2[i] = w1[s + i]
         /\ i \in 1..Len(w2) /\ w2[i].kind = "head" /\ w2[i].ch = c
BY DropsAt DEF HeadsTo

LEMMA DropsOrder ==
  ASSUME NEW B1, NEW B2, NEW w1, NEW w2, NEW s, Drops(w2, w1, s), Stays(B2, B1, w2),
         NEW c, InOrder(B1, w1, c)
  PROVE  InOrder(B2, w2, c)
<1> SUFFICES ASSUME NEW i \in HeadsTo(w2, c, Len(w2)), NEW j \in HeadsTo(w2, c, Len(w2)), i < j
             PROVE  NotAfter(HeadPlace(B2, w2[i]), w2[j])
  BY DEF InOrder
<1>1. /\ s + i \in HeadsTo(w1, c, Len(w1)) /\ w2[i] = w1[s + i]
      /\ i \in 1..Len(w2) /\ w2[i].kind = "head"
  BY DropsHeads
<1>2. s + j \in HeadsTo(w1, c, Len(w1)) /\ w2[j] = w1[s + j] /\ j \in 1..Len(w2)
  BY DropsHeads
<1>3. s + i < s + j
  <2>1. s \in Nat /\ Len(w2) \in Nat
    BY DEF Drops
  <2>2. i \in Nat /\ j \in Nat /\ i < j
    BY <1>1, <1>2, <2>1
  <2> QED
    BY <2>1, <2>2
<1>4. NotAfter(HeadPlace(B1, w1[s + i]), w1[s + j])
  BY <1>1, <1>2, <1>3 DEF InOrder
<1>5. HeadPlace(B2, w2[i]) = HeadPlace(B1, w2[i])
  BY <1>1, SameMessage DEF Stays
<1> QED
  BY <1>1, <1>2, <1>4, <1>5

LEMMA DropsChain ==
  ASSUME NEW B1, NEW B2, NEW w1, NEW w2, NEW s, Drops(w2, w1, s), Stays(B2, B1, w2),
         NEW c, NEW r1, NEW r2, Chain(B1, w1, c, r1, Len(w1)),
         Better(r2, PlaceAt(B1, w1, c, r1, s))
  PROVE  /\ Chain(B2, w2, c, r2, Len(w2))
         /\ Better(PlaceAt(B2, w2, c, r2, Len(w2)), PlaceAt(B1, w1, c, r1, Len(w1)))
<1>1. s \in Nat /\ Len(w2) \in Nat /\ Len(w1) = s + Len(w2)
  BY DEF Drops
<1>2. ASSUME NEW n \in Nat, n <= Len(w2)
      PROVE  Better(PlaceAt(B2, w2, c, r2, n), PlaceAt(B1, w1, c, r1, s + n))
  <2>1. \A i \in 1..n : i \in 1..Len(w2) /\ w2[i] = w1[s + i]
    <3>1. \A i \in 1..n : i \in 1..Len(w2)
      BY <1>1, <1>2
    <3> QED
      BY <3>1, DropsAt
  <2>2. \A i \in HeadsTo(w2, c, n) : HeadPlace(B2, w2[i]) = HeadPlace(B1, w1[s + i])
    <3> SUFFICES ASSUME NEW i \in HeadsTo(w2, c, n)
                 PROVE  HeadPlace(B2, w2[i]) = HeadPlace(B1, w1[s + i])
      OBVIOUS
    <3>1. i \in 1..n /\ w2[i].kind = "head"
      BY DEF HeadsTo
    <3>2. Of(B2, w2[i]) = Of(B1, w2[i])
      BY <2>1, <3>1 DEF Stays
    <3> QED
      BY <2>1, <3>1, <3>2, SameMessage
  <2> QED
    BY <1>1, <2>1, <2>2, PlaceMoves
<1>3. ASSUME NEW i \in HeadsTo(w2, c, Len(w2))
      PROVE  Fits(B2, w2[i], PlaceAt(B2, w2, c, r2, i - 1))
  <2>1. /\ s + i \in HeadsTo(w1, c, Len(w1)) /\ w2[i] = w1[s + i]
        /\ i \in 1..Len(w2) /\ w2[i].kind = "head"
    BY DropsHeads
  <2>2. i - 1 \in Nat /\ i - 1 <= Len(w2) /\ s + i - 1 = s + (i - 1)
    <3> DEFINE L == Len(w2)
    <3>1. s \in Nat /\ L \in Nat /\ i \in 1..L
      BY <1>1, <2>1
    <3> HIDE DEF L
    <3>2. i - 1 \in Nat /\ i - 1 <= L /\ s + i - 1 = s + (i - 1)
      BY <3>1
    <3> QED
      BY <3>2 DEF L
  <2>3. PICK k \in HeadsTo(w1, c, Len(w1)) : k = s + i
    BY <2>1
  <2>8. Fits(B1, w1[k], PlaceAt(B1, w1, c, r1, k - 1))
    BY DEF Chain
  <2>9. w1[k] = w2[i] /\ k - 1 = s + (i - 1)
    <3>1. s \in Nat /\ i \in Int
      BY <1>1, <2>1
    <3>2. k - 1 = s + (i - 1)
      BY <2>3, <3>1
    <3> QED
      BY <2>1, <2>3, <3>2
  <2>4. Fits(B1, w2[i], PlaceAt(B1, w1, c, r1, s + (i - 1)))
    BY <2>8, <2>9
  <2>5. Better(PlaceAt(B2, w2, c, r2, i - 1), PlaceAt(B1, w1, c, r1, s + (i - 1)))
    BY <1>2, <2>2
  <2>6. Fits(B1, w2[i], PlaceAt(B2, w2, c, r2, i - 1))
    BY <2>4, <2>5, FitsBetter
  <2>7. Of(B2, w2[i]) = Of(B1, w2[i])
    BY <2>1 DEF Stays
  <2> QED
    BY <2>6, <2>7, SameFits
<1>4. Better(PlaceAt(B2, w2, c, r2, Len(w2)), PlaceAt(B1, w1, c, r1, Len(w1)))
  <2>1. Len(w2) <= Len(w2)
    BY <1>1
  <2> QED
    BY <1>1, <1>2, <2>1
<1> QED
  BY <1>3, <1>4 DEF Chain

LEMMA ReadWire ==
  ASSUME ChunkInv, NEW h, NEW n, NEW q, IsRead(h, n, q)
  PROVE  /\ Drops(wire', wire, 1 + n) /\ Stays(book', book, wire')
         /\ IsWire(book', wire') /\ OrderOK'
         /\ 1 \in 1..Len(wire) /\ wire[1] = h
<1> DEFINE c == h.ch
<1>1. /\ wire # <<>> /\ h.kind = "head" /\ IsHead(book, h) /\ IsChunk(book, wire, 1)
      /\ c \in Channels /\ h.no \in Nat /\ n = Span(book, h) /\ n \in Nat \ {0}
  BY ReadFirst
<1>2. /\ IsWire(book, wire) /\ wire \in Seq(Cell) /\ OrderOK /\ IsBook(book)
  BY BookKept DEF ChunkInv, IsWire
<1>3. wire[1] = h /\ Len(wire) > n /\ wire' = Drop(wire, 1 + n)
  BY DEF IsRead
<1>4. /\ wire' \in Seq(Cell) /\ Len(wire') \in Nat /\ Len(wire) \in Nat
      /\ Len(wire) = (1 + n) + Len(wire')
      /\ \A i \in 1..Len(wire') : wire'[i] = wire[(1 + n) + i]
  <2>1. PICK z \in Nat : z = 1 + n
    BY <1>1
  <2>2. /\ Drop(wire, z) \in Seq(Cell) /\ Len(Drop(wire, z)) = Len(wire) - Least(z, Len(wire))
        /\ Len(Drop(wire, z)) \in Nat
        /\ \A i \in 1..Len(Drop(wire, z)) : Drop(wire, z)[i] = wire[z + i]
    BY <1>2, DropSeq, Zenon
  <2>3. Len(wire') = Len(wire) - Least(z, Len(wire))
    BY <1>3, <2>1, <2>2
  <2>4. Len(wire) = z + Len(wire')
    <3> DEFINE N == Len(wire)
               M == Len(wire')
    <3>1. N \in Nat /\ z \in Nat /\ N >= z /\ M = N - Least(z, N)
      BY <1>1, <1>2, <1>3, <2>1, <2>3
    <3> HIDE DEF N, M
    <3>2. N = z + M
      BY <3>1 DEF Least
    <3> QED
      BY <3>2 DEF N, M
  <2> QED
    BY <1>2, <1>3, <2>1, <2>2, <2>4
<1>5. Drops(wire', wire, 1 + n)
  <2>1. 1 + n \in Nat
    BY <1>1
  <2> QED
    BY <1>4, <2>1 DEF Drops
<1>6. 1 \in 1..Len(wire)
  BY <1>1, <1>3, <1>4
<1>7. /\ Keeps(book', book, delivered')
      /\ \A d \in Channels : \A k \in DOMAIN book[d] : d # c => k > delivered'[d]
      /\ delivered'[c] = IF Ending(h, n) THEN h.no ELSE h.no - 1
      /\ \A d \in Channels : DOMAIN book[d] = Delivered(d) + 1 .. sent[d]
      /\ h.no = Delivered(c) + 1
  BY ReadBook, ReadFirst, BookAlways DEF ChunkInv, BookOK, Known
<1>8. Stays(book', book, wire')
  <2> SUFFICES ASSUME NEW i \in 1..Len(wire'), wire'[i].kind = "head"
               PROVE  /\ Of(book', wire'[i]) = Of(book, wire'[i])
                      /\ wire'[i].no \in DOMAIN book'[wire'[i].ch]
    BY DEF Stays
  <2> DEFINE j == (1 + n) + i
             g == wire'[i]
  <2>1. j \in 1..Len(wire) /\ g = wire[j]
    BY <1>5, DropsAt
  <2>2. IsHead(book, g)
    BY <1>2, <2>1, WireHead
  <2>3. g.ch \in Channels /\ g.no \in DOMAIN book[g.ch]
    BY <2>2 DEF IsHead
  <2>4. g.no > delivered'[g.ch]
    <3>1. CASE g.ch # c
      BY <1>7, <2>3, <3>1
    <3>2. CASE g.ch = c
      <4>1. 1 \in HeadsTo(wire, c, Len(wire)) /\ j \in HeadsTo(wire, c, Len(wire))
        BY <1>1, <1>3, <1>6, <2>1, <3>2 DEF HeadsTo
      <4>2. 1 < j
        BY <1>1
      <4>3. NotAfter(HeadPlace(book, wire[1]), wire[j])
        BY <1>1, <1>2, <4>1, <4>2 DEF OrderOK, InOrder
      <4>4. NotAfter(HeadPlace(book, h), g)
        BY <1>3, <2>1, <4>3
      <4>5. /\ g.no \in Nat /\ h.no \in Nat
            /\ Ending(h, n) => HeadPlace(book, h).no = h.no + 1
            /\ ~Ending(h, n) => HeadPlace(book, h).no = h.no
        <5>1. g.no \in Nat
          BY <1>2, <2>2, HeadFacts
        <5> QED
          BY <1>1, <1>2, <5>1, HeadPlaceFacts DEF Ending
      <4>6. HeadPlace(book, h).no <= g.no
        <5>1. HeadPlace(book, h).no \in Nat
          BY <4>5
        <5> QED
          BY <4>4, <4>5, <5>1 DEF NotAfter
      <4>7. CASE Ending(h, n)
        BY <1>7, <3>2, <4>5, <4>6, <4>7
      <4>8. CASE ~Ending(h, n)
        BY <1>7, <3>2, <4>5, <4>6, <4>8
      <4> QED
        BY <4>7, <4>8
    <3> QED
      BY <3>1, <3>2
  <2> QED
    BY <1>7, <2>3, <2>4 DEF Keeps, Of
<1>9. wire' # <<>> => wire'[1].kind = "head"
  <2> SUFFICES ASSUME wire' # <<>>
               PROVE  wire'[1].kind = "head"
    OBVIOUS
  <2>1. Len(wire') # 0 /\ Len(wire') \in Nat
    BY <1>4, NoneLeft
  <2>2. 1 \in 1..Len(wire')
    BY <2>1
  <2>3. 1 + Span(book, wire[1]) < Len(wire)
    <3> DEFINE N == Len(wire)
               M == Len(wire')
    <3>1. N = (1 + n) + M /\ M \in Nat /\ M # 0 /\ n \in Nat
      BY <1>1, <1>4, <2>1
    <3> HIDE DEF N, M
    <3>2. 1 + n < N
      BY <3>1
    <3> QED
      BY <1>1, <1>3, <3>2 DEF N
  <2>4. wire[1 + Span(book, wire[1]) + 1].kind = "head"
    BY <1>1, <2>3 DEF IsChunk
  <2>5. wire'[1] = wire[(1 + n) + 1]
    BY <1>4, <2>2
  <2> QED
    BY <1>1, <1>3, <2>4, <2>5
<1>10. IsWire(book', wire')
  BY <1>2, <1>5, <1>8, <1>9, DropsWire
<1>11. OrderOK'
  <2>1. \A d \in Channels : InOrder(book', wire', d)
    BY <1>2, <1>5, <1>8, DropsOrder DEF OrderOK
  <2> QED
    BY <2>1 DEF OrderOK
<1> QED
  BY <1>3, <1>5, <1>6, <1>8, <1>10, <1>11

(* The threads keep what they send: its message is not delivered before it *)
(* is out.                                                                 *)
LEMMA SameSender ==
  ASSUME NEW B1, NEW B2, NEW K, NEW s, IsSending(B1, K, s),
         s.msg.no \in DOMAIN B2[s.msg.ch], B2[s.msg.ch][s.msg.no] = B1[s.msg.ch][s.msg.no]
  PROVE  IsSending(B2, K, s)
<1>1. s.msg = B1[s.msg.ch][s.msg.no]
  BY DEF IsSending
<1>2. ~s.begun => Of(B2, s.chunk[1]) = Of(B1, s.chunk[1])
  BY DEF IsSending, Of
<1>3. ~s.begun => Span(B2, s.chunk[1]) = Span(B1, s.chunk[1])
  BY <1>2, SameMessage
<1> QED
  BY <1>1, <1>3 DEF IsSending

(* What is behind the first header on its channel is of a later message    *)
(* when that header ends its own.                                          *)
LEMMA BehindFirst ==
  ASSUME ChunkInv, NEW h, NEW n, NEW q, IsRead(h, n, q), Ending(h, n),
         NEW i \in 1..Len(wire), i # 1, wire[i].kind = "head", wire[i].ch = h.ch
  PROVE  wire[i].no > h.no /\ HeadPlace(book, wire[i]).no > h.no
<1>1. /\ h.kind = "head" /\ IsHead(book, h) /\ h.ch \in Channels /\ h.no \in Nat
      /\ n = Span(book, h) /\ 1 \in 1..Len(wire) /\ wire[1] = h
      /\ IsWire(book, wire) /\ IsBook(book) /\ InOrder(book, wire, h.ch)
  BY ReadFirst, ReadWire, BookKept DEF ChunkInv, OrderOK
<1>2. 1 < i /\ 1 \in HeadsTo(wire, h.ch, Len(wire)) /\ i \in HeadsTo(wire, h.ch, Len(wire))
  BY <1>1 DEF HeadsTo
<1>3. NotAfter(HeadPlace(book, h), wire[i])
  BY <1>1, <1>2 DEF InOrder
<1>4. HeadPlace(book, h).no = h.no + 1
  BY <1>1, HeadPlaceFacts DEF Ending
<1>5. IsHead(book, wire[i])
  BY <1>1, WireHead
<1>6. wire[i].no \in Nat /\ HeadPlace(book, wire[i]).no \in Nat
      /\ (HeadPlace(book, wire[i]).no > wire[i].no \/ HeadPlace(book, wire[i]).no = wire[i].no)
  BY <1>1, <1>5, HeadFacts, HeadPlaceFacts
<1>7. wire[i].no > h.no
  BY <1>1, <1>3, <1>4, <1>6 DEF NotAfter
<1> QED
  BY <1>1, <1>6, <1>7

LEMMA BusyLater ==
  ASSUME ChunkInv, NEW h, NEW n, NEW q, IsRead(h, n, q), NEW t \in Threads, Busy(t)
  PROVE  sending[t].msg.no > delivered'[sending[t].msg.ch]
<1> DEFINE s == sending[t]
           c == h.ch
<1>1. /\ IsSending(book, sent, s) /\ open /\ CutsOK /\ ChannelsOK
  BY DEF ChunkInv, SendersOK
<1>2. /\ s.msg.ch \in Channels /\ s.msg.no \in DOMAIN book[s.msg.ch] /\ s.msg.no \in Nat
      /\ InHand(s) \in Nat /\ InHand(s) # 0
  <2>1. s.msg.ch \in Channels /\ s.msg.no \in Nat /\ InHand(s) \in Nat \ {0}
    BY <1>1, SenderFacts
  <2>2. s.msg.no \in DOMAIN book[s.msg.ch]
    BY <1>1 DEF IsSending
  <2> QED
    BY <2>1, <2>2
<1>3. /\ \A d \in Channels : \A k \in DOMAIN book[d] : d # c => k > delivered'[d]
      /\ delivered'[c] = IF Ending(h, n) THEN h.no ELSE h.no - 1
      /\ \A d \in Channels : DOMAIN book[d] = Delivered(d) + 1 .. sent[d]
      /\ h.no = Delivered(c) + 1 /\ h.no \in Nat /\ Delivered(c) \in Nat /\ sent[c] \in Nat
      /\ c \in Channels
  BY ReadBook, ReadFirst, BookAlways DEF ChunkInv, BookOK, Known
<1>4. CASE s.msg.ch # c
  BY <1>2, <1>3, <1>4
<1>5. CASE s.msg.ch = c /\ ~Ending(h, n)
  <2>1. s.msg.no \in Delivered(c) + 1 .. sent[c]
    BY <1>2, <1>3, <1>5
  <2>2. delivered'[c] = Delivered(c)
    BY <1>3, <1>5
  <2> QED
    BY <1>3, <1>5, <2>1, <2>2
<1>6. CASE s.msg.ch = c /\ Ending(h, n)
  <2>0. /\ 1 \in 1..Len(wire) /\ wire[1] = h /\ h.kind = "head" /\ n = Span(book, h)
        /\ Len(wire) \in Nat /\ n \in Nat /\ Len(wire) > n /\ IsHead(book, h) /\ IsBook(book)
    <3>1. 1 \in 1..Len(wire) /\ wire[1] = h
      BY ReadWire
    <3>2. h.kind = "head" /\ n = Span(book, h) /\ n \in Nat \ {0} /\ IsHead(book, h)
      BY ReadFirst
    <3>3. wire \in Seq(Cell) /\ IsBook(book)
      BY BookKept DEF ChunkInv, IsWire
    <3>4. Len(wire) > n
      BY DEF IsRead
    <3> QED
      BY <3>1, <3>2, <3>3, <3>4
  <2>1. CASE s.begun
    <3>1. PICK i \in 1..Len(wire) : IsCutFor(book, wire, s, i)
      BY <1>1, <2>1 DEF CutsOK
    <3>2. /\ wire[i].kind = "head" /\ wire[i].ch = c /\ wire[i].no = s.msg.no
          /\ i + Span(book, wire[i]) = Len(wire) + InHand(s)
      BY <1>6, <3>1 DEF IsCutFor
    <3>3. i # 1
      <4> SUFFICES ASSUME i = 1
                   PROVE  FALSE
        OBVIOUS
      <4>1. 1 + n = Len(wire) + InHand(s)
        BY <2>0, <3>2
      <4> DEFINE N == Len(wire)
                 H == InHand(s)
      <4>2. N \in Nat /\ H \in Nat /\ H # 0 /\ n \in Nat /\ N > n /\ 1 + n = N + H
        BY <1>2, <2>0, <4>1
      <4> HIDE DEF N, H
      <4> QED
        BY <4>2
    <3> QED
      BY <1>3, <1>6, <3>2, <3>3, BehindFirst
  <2>2. CASE ~s.begun
    <3> DEFINE p == PlaceAt(book, wire, c, peer[c], Len(wire))
    <3>1. Ends(book, sending, sent[c], out[c], c, p)
      BY <1>1, <1>3 DEF ChannelsOK
    <3>2. Fits(book, s.chunk[1], p)
      BY <1>6, <2>2, <3>1 DEF Ends, Continues, On, Busy
    <3>3. s.msg.no = p.no
      BY <1>1, <2>2, <3>2 DEF Fits, IsSending
    <3>4. 1 \in HeadsTo(wire, c, Len(wire))
      BY <2>0 DEF HeadsTo
    <3>5. PICK i \in 1..Len(wire) : IsLast(wire, c, Len(wire), i)
      BY <2>0, <3>4, SomeLast
    <3>6. p = HeadPlace(book, wire[i]) /\ wire[i].kind = "head" /\ wire[i].ch = c
      BY <2>0, <3>5, LastHead DEF IsLast, HeadsTo
    <3>7. p.no > h.no
      <4>1. CASE i = 1
        <5>1. HeadPlace(book, h).no = h.no + 1
          BY <1>6, <2>0, HeadPlaceFacts DEF Ending
        <5> QED
          BY <1>3, <2>0, <3>6, <4>1, <5>1
      <4>2. CASE i # 1
        BY <1>6, <3>6, <4>2, BehindFirst
      <4> QED
        BY <4>1, <4>2
    <3> QED
      BY <1>3, <1>6, <3>3, <3>7
  <2> QED
    BY <2>1, <2>2
<1> QED
  BY <1>4, <1>5, <1>6

LEMMA ReadSenders ==
  ASSUME ChunkInv, NEW h, NEW n, NEW q, IsRead(h, n, q)
  PROVE  /\ SendersOK' /\ UNCHANGED <<open, sending, sent, out>>
         /\ \A t \in Threads : Busy(t) =>
              IsSending(book, sent, sending[t]) /\ IsSending(book', sent, sending[t])
<1>1. UNCHANGED <<open, sending, sent, out>>
  BY DEF IsRead, writerVars
<1>2. SendersOK /\ Keeps(book', book, delivered')
  BY ReadBook DEF ChunkInv
<1>3. ASSUME NEW t \in Threads, Busy(t)
      PROVE  IsSending(book, sent, sending[t]) /\ IsSending(book', sent, sending[t])
  <2> DEFINE m == sending[t].msg
  <2>1. IsSending(book, sent, sending[t])
    BY <1>2, <1>3 DEF SendersOK
  <2>2. m.ch \in Channels /\ m.no \in DOMAIN book[m.ch]
    BY <2>1, SenderFacts DEF IsSending
  <2>3. m.no > delivered'[m.ch]
    BY <1>3, BusyLater
  <2>4. m.no \in DOMAIN book'[m.ch] /\ book'[m.ch][m.no] = book[m.ch][m.no]
    BY <1>2, <2>2, <2>3 DEF Keeps
  <2> QED
    BY <2>1, <2>4, SameSender
<1>4. \A t \in Threads : Busy(t)' <=> Busy(t)
  BY <1>1 DEF Busy
<1>5. SendersOK'
  BY <1>1, <1>2, <1>3, <1>4 DEF SendersOK
<1> QED
  BY <1>1, <1>3, <1>5

LEMMA ReadCuts ==
  ASSUME ChunkInv, NEW h, NEW n, NEW q, IsRead(h, n, q)
  PROVE  CutsOK'
<1>1. /\ Drops(wire', wire, 1 + n) /\ Stays(book', book, wire')
      /\ 1 \in 1..Len(wire) /\ wire[1] = h
  BY ReadWire
<1>2. /\ h.kind = "head" /\ n = Span(book, h) /\ n \in Nat \ {0}
  BY ReadFirst
<1>3. /\ IsWire(book, wire) /\ IsBook(book) /\ CutsOK /\ SendersOK
  BY BookKept DEF ChunkInv
<1>4. /\ Len(wire) \in Nat /\ Len(wire') \in Nat /\ Len(wire) = (1 + n) + Len(wire')
      /\ n \in Nat
  BY <1>1, <1>2, <1>3 DEF Drops, IsWire
<1>5. open' = open /\ sending' = sending
  BY ReadSenders
<1>6. ASSUME NEW i \in 1..Len(wire'), wire'[i].kind = "head"
      PROVE  /\ (1 + n) + i \in 1..Len(wire) /\ wire'[i] = wire[(1 + n) + i]
             /\ Span(book', wire'[i]) = Span(book, wire'[i])
             /\ Span(book, wire'[i]) \in Nat
  <2>1. (1 + n) + i \in 1..Len(wire) /\ wire'[i] = wire[(1 + n) + i]
    BY <1>1, DropsAt
  <2>2. Of(book', wire'[i]) = Of(book, wire'[i])
    BY <1>1, <1>6 DEF Stays
  <2>3. IsHead(book, wire'[i])
    BY <1>3, <1>6, <2>1, WireHead
  <2> QED
    BY <1>3, <2>1, <2>2, <2>3, SameMessage, HeadFacts
<1>7. ASSUME open, \A t \in Threads : ~sending[t].begun, NEW i \in 1..Len(wire'),
             wire'[i].kind = "head"
      PROVE  IsWhole(book', wire', i)
  <2> DEFINE z == Span(book, wire'[i])
             N == Len(wire)
             M == Len(wire')
  <2>1. IsWhole(book, wire, (1 + n) + i)
    BY <1>3, <1>6, <1>7 DEF CutsOK
  <2>2. /\ ((1 + n) + i) + z <= N /\ z \in Nat /\ N = (1 + n) + M /\ M \in Nat /\ n \in Nat
        /\ i \in Nat
    BY <1>4, <1>6, <1>7, <2>1 DEF IsWhole
  <2> HIDE DEF z, N, M
  <2>3. i + z <= M
    BY <2>2
  <2> QED
    BY <1>6, <1>7, <2>3 DEF IsWhole, z, M
<1>8. ASSUME NEW t \in Threads, sending[t].begun
      PROVE  \E i \in 1..Len(wire') : IsCutFor(book', wire', sending[t], i)
  <2> DEFINE s == sending[t]
             N == Len(wire)
             M == Len(wire')
             H == InHand(s)
             U == Upto(s)
  <2>1. IsSending(book, sent, s)
    BY <1>3, <1>8 DEF SendersOK, Idle
  <2>2. H \in Nat /\ H # 0
    BY <2>1, SenderFacts
  <2>3. PICK j \in 1..N : IsCutFor(book, wire, s, j)
    BY <1>3, <1>8 DEF CutsOK
  <2> DEFINE z == Span(book, wire[j])
  <2>4. /\ wire[j].kind = "head" /\ wire[j].ch = s.msg.ch /\ wire[j].no = s.msg.no
        /\ wire[j].at + z = U + 1 /\ j + z = N + H
    BY <2>3 DEF IsCutFor
  <2>5. /\ N = (1 + n) + M /\ M \in Nat /\ N \in Nat /\ n \in Nat /\ j \in Nat /\ j >= 1 /\ j <= N
    BY <1>4
  <2>6. j # 1
    <3> SUFFICES ASSUME j = 1
                 PROVE  FALSE
      OBVIOUS
    <3>1. 1 + n = N + H
      BY <1>1, <1>2, <2>4
    <3> HIDE DEF N, M, H
    <3> QED
      BY <2>2, <2>5, <3>1
  <2>7. 1 + n < j
    <3>1. 1 < j
      BY <2>5, <2>6
    <3>2. 1 + Span(book, wire[1]) < j
      BY <1>1, <1>2, <1>3, <2>4, <3>1, HeadsApart
    <3> QED
      BY <1>1, <1>2, <3>2
  <2>8. PICK i \in 1..M : j = (1 + n) + i
    <3> HIDE DEF N, M
    <3>1. j - (1 + n) \in 1..M /\ j = (1 + n) + (j - (1 + n))
      BY <2>5, <2>7
    <3> QED
      BY <3>1
  <2>9. wire'[i] = wire[j]
    BY <1>1, <2>8, DropsAt
  <2>10. Span(book', wire'[i]) = z /\ z \in Nat
    BY <1>6, <2>4, <2>8, <2>9
  <2>11. i + z = M + H
    <3>1. i \in Nat
      BY <2>5, <2>8
    <3> HIDE DEF N, M, H, z
    <3> QED
      BY <2>2, <2>4, <2>5, <2>8, <2>10, <3>1
  <2> QED
    BY <2>4, <2>8, <2>9, <2>10, <2>11 DEF IsCutFor
<1> QED
  BY <1>5, <1>7, <1>8 DEF CutsOK

LEMMA ReadChannels ==
  ASSUME ChunkInv, NEW h, NEW n, NEW q, IsRead(h, n, q)
  PROVE  ChannelsOK'
<1>1. /\ Drops(wire', wire, 1 + n) /\ Stays(book', book, wire')
      /\ 1 \in 1..Len(wire) /\ wire[1] = h
  BY ReadWire
<1>2. /\ h.kind = "head" /\ n = Span(book, h) /\ n \in Nat \ {0} /\ h.ch \in Channels
  BY ReadFirst
<1>3. /\ IsWire(book, wire) /\ ChannelsOK /\ IsBook(book) /\ IsBook(book')
  BY ReadBook DEF ChunkInv
<1>4. /\ UNCHANGED <<open, sending, sent, out>>
      /\ \A t \in Threads : Busy(t) =>
           IsSending(book, sent, sending[t]) /\ IsSending(book', sent, sending[t])
  BY ReadSenders
<1>5. /\ Better(peer'[h.ch], HeadPlace(book, h))
      /\ \A d \in Channels : d # h.ch => peer'[d] = peer[d]
  BY ReadPlace
<1>6. /\ Len(wire) \in Nat /\ Len(wire') \in Nat /\ Len(wire) = (1 + n) + Len(wire')
      /\ n \in Nat /\ 1 + n \in Nat /\ 1 + n <= Len(wire)
  BY <1>1, <1>2, <1>3 DEF Drops, IsWire
<1>7. \A i \in 2..1 + n : wire[i].kind # "head"
  <2> SUFFICES ASSUME NEW i \in 2..1 + n
               PROVE  wire[i].kind # "head"
    OBVIOUS
  <2>1. i \in 1..Len(wire) /\ 1 < i /\ i <= 1 + n
    BY <1>6
  <2>2. Span(book, wire[1]) \in Nat /\ i <= 1 + Span(book, wire[1])
    BY <1>1, <1>2, <1>6, <2>1
  <2> QED
    BY <1>1, <1>2, <1>3, <2>1, <2>2, BytesBehind
<1>8. ASSUME NEW c \in Channels
      PROVE  Better(peer'[c], PlaceAt(book, wire, c, peer[c], 1 + n))
  <2>1. \A i \in HeadsTo(wire, c, 1 + n) : i = 1
    BY <1>6, <1>7 DEF HeadsTo
  <2>2. CASE c = h.ch
    <3>1. IsLast(wire, c, 1 + n, 1)
      <4>1. 1 \in HeadsTo(wire, c, 1 + n)
        BY <1>1, <1>2, <1>6, <2>2 DEF HeadsTo
      <4> QED
        BY <2>1, <4>1 DEF IsLast
    <3>2. PlaceAt(book, wire, c, peer[c], 1 + n) = HeadPlace(book, wire[1])
      BY <1>6, <3>1, LastHead
    <3> QED
      BY <1>1, <1>5, <2>2, <3>2
  <2>3. CASE c # h.ch
    <3>1. HeadsTo(wire, c, 1 + n) = {}
      BY <1>1, <2>1, <2>3 DEF HeadsTo
    <3>2. PlaceAt(book, wire, c, peer[c], 1 + n) = peer[c]
      BY <3>1, NoHeads
    <3> QED
      BY <1>5, <2>3, <3>2, BetterSelf
  <2> QED
    BY <2>2, <2>3
<1>9. ASSUME NEW c \in Channels
      PROVE  /\ Chain(book', wire', c, peer'[c], Len(wire'))
             /\ open => Ends(book', sending, sent[c], out[c], c,
                             PlaceAt(book', wire', c, peer'[c], Len(wire')))
  <2> DEFINE p1 == PlaceAt(book, wire, c, peer[c], Len(wire))
             p2 == PlaceAt(book', wire', c, peer'[c], Len(wire'))
  <2>1. /\ Chain(book, wire, c, peer[c], Len(wire))
        /\ open => Ends(book, sending, sent[c], out[c], c, p1)
    BY <1>3 DEF ChannelsOK
  <2>2. Chain(book', wire', c, peer'[c], Len(wire')) /\ Better(p2, p1)
    <3>1. PICK z : z = 1 + n
      OBVIOUS
    <3>2. Drops(wire', wire, z) /\ Better(peer'[c], PlaceAt(book, wire, c, peer[c], z))
      BY <1>1, <1>8, <3>1
    <3> QED
      BY <1>1, <2>1, <3>2, DropsChain
  <2> HIDE DEF p1, p2
  <2>3. ASSUME open
        PROVE  Ends(book', sending, sent[c], out[c], c, p2)
    <3>1. Ends(book, sending, sent[c], out[c], c, p1)
      BY <2>1, <2>3
    <3>2. Ends(book, sending, sent[c], out[c], c, p2)
      BY <2>2, <3>1, EndsBetter
    <3>3. ASSUME NEW t \in Threads, On(sending[t], c)
          PROVE  Continues(book', sending[t], p2)
      <4>1. Continues(book, sending[t], p2)
        BY <3>2, <3>3 DEF Ends
      <4>2. IsSending(book, sent, sending[t]) /\ IsSending(book', sent, sending[t])
        BY <1>4, <3>3 DEF On, Busy
      <4>3. ~sending[t].begun => Of(book', sending[t].chunk[1]) = Of(book, sending[t].chunk[1])
        BY <1>3, <4>2, SenderHead
      <4> QED
        BY <4>1, <4>3, SameFits DEF Continues
    <3> QED
      BY <3>2, <3>3 DEF Ends
  <2> QED
    BY <2>2, <2>3 DEF p2
<1> QED
  BY <1>4, <1>9 DEF ChannelsOK

LEMMA ReadKeeps ==
  ASSUME ChunkInv, ReadChunk
  PROVE  ChunkInv'
<1>1. PICK h, n, q : IsRead(h, n, q)
  BY ReadsChunk
<1>2. MessagesOK'
  BY <1>1, ReadMessages
<1>3. SendersOK'
  BY <1>1, ReadSenders
<1>4. IsWire(book', wire') /\ OrderOK'
  BY <1>1, ReadWire
<1>5. CutsOK'
  BY <1>1, ReadCuts
<1>6. ChannelsOK'
  BY <1>1, ReadChannels
<1>7. ReaderOK'
  BY <1>1, ReadReader
<1> QED
  BY <1>2, <1>3, <1>4, <1>5, <1>6, <1>7 DEF ChunkInv

-----------------------------------------------------------------------------
(* The invariant holds until the model stops, for a start that crosses     *)
(* another one.                                                            *)

LEMMA ChunkStarts == ChunkInit => ChunkInv
<1> SUFFICES ASSUME ChunkInit
             PROVE  ChunkInv
  OBVIOUS
<1>1. /\ inflight = [c \in Channels |-> <<>>] /\ sent = [c \in Channels |-> 0]
      /\ out = [c \in Channels |-> NONE] /\ in = [c \in Channels |-> NONE]
      /\ clock = [c \in Channels |-> 0] /\ received = [c \in Channels |-> NONE]
      /\ sending = [t \in Threads |-> Idle] /\ wire = <<>>
  BY DEF ChunkInit
<1>2. \A c \in Channels : /\ inflight[c] = <<>> /\ Len(inflight[c]) = 0 /\ sent[c] = 0
                          /\ Delivered(c) = 0 /\ MaxSends[c] \in Nat
  BY <1>1, ChunkAssumption DEF Delivered
<1>3. MessagesOK
  <2>1. inflight \in [Channels -> Seq(Message)]
    <3>1. <<>> \in Seq(Message)
      OBVIOUS
    <3> QED
      BY <1>1, <3>1, Zenon
  <2> QED
    BY <1>1, <1>2, <2>1 DEF MessagesOK
<1>4. \A t \in Threads : sending[t] = Idle /\ ~Busy(t) /\ ~sending[t].begun
  BY <1>1 DEF Busy, Idle
<1>5. SendersOK
  <2>1. sending = [t \in Threads |-> sending[t]]
    BY <1>1
  <2> QED
    BY <1>4, <2>1 DEF SendersOK
<1>6. Len(wire) = 0 /\ 1..Len(wire) = {} /\ IsWire(book, wire)
  <2>1. <<>> \in Seq(Cell) /\ Len(<<>>) = 0
    OBVIOUS
  <2>2. 1..Len(wire) = {}
    BY <1>1, <2>1
  <2> QED
    BY <1>1, <2>1, <2>2 DEF IsWire
<1>7. CutsOK
  BY <1>4, <1>6 DEF CutsOK
<1>8. \A c \in Channels : HeadsTo(wire, c, Len(wire)) = {}
  BY <1>6 DEF HeadsTo
<1>9. ASSUME NEW c \in Channels
      PROVE  /\ Chain(book, wire, c, peer[c], Len(wire))
             /\ Ends(book, sending, sent[c], out[c], c,
                     PlaceAt(book, wire, c, peer[c], Len(wire)))
  <2>1. PlaceAt(book, wire, c, peer[c], Len(wire)) = peer[c]
    BY <1>8, NoHeads
  <2>2. /\ peer[c].no = 0 + 1 /\ peer[c].at = 1
        /\ peer[c].base = Base("none", 0, 0, TRUE)
    BY <1>1, <1>2 DEF peer, ReaderPlace, Place, ReaderBase
  <2>3. WriterBase(out[c]) = Base("none", 0, 0, TRUE)
    BY <1>1 DEF WriterBase
  <2>4. \A t \in Threads : ~On(sending[t], c)
    BY <1>4 DEF On, Busy
  <2> QED
    BY <1>2, <1>8, <2>1, <2>2, <2>3, <2>4, ServesAll DEF Chain, Ends
<1>10. ChannelsOK
  BY <1>9 DEF ChannelsOK
<1>11. OrderOK
  BY <1>8 DEF OrderOK, InOrder
<1>12. ReaderOK
  <2>1. 0 \in 0..Modulus - 1
    BY Sizes
  <2> QED
    BY <1>1, <2>1 DEF ReaderOK
<1> QED
  BY <1>3, <1>5, <1>6, <1>7, <1>10, <1>11, <1>12 DEF ChunkInv

LEMMA ChunkStutters ==
  ASSUME ChunkInv, UNCHANGED chunkVars
  PROVE  ChunkInv'
<1>1. UNCHANGED <<out, sending, open, sent, wire, in, clock, received, inflight>>
  BY DEF chunkVars, writerVars, readerVars
<1>2. \A c \in Channels : Delivered(c)' = Delivered(c)
  BY <1>1 DEF Delivered
<1>3. book' = book /\ peer' = peer
  BY <1>1, <1>2 DEF book, peer, Known
<1>4. MessagesOK' /\ ReaderOK'
  BY <1>1, <1>2, <1>3 DEF ChunkInv, MessagesOK, ReaderOK
<1>5. SendersOK' /\ CutsOK'
  BY <1>1, <1>3 DEF ChunkInv, SendersOK, CutsOK, Busy
<1>6. ChannelsOK' /\ OrderOK' /\ IsWire(book', wire')
  BY <1>1, <1>3 DEF ChunkInv, ChannelsOK, OrderOK
<1> QED
  BY <1>4, <1>5, <1>6 DEF ChunkInv

(* Whatever the threads and the peer do, unless a thread crossed another:  *)
(* the bytes on the wire, those the threads still hold and those the peer  *)
(* has make up the messages of each channel in their order, and every      *)
(* header can be understood where it will be read.                         *)
THEOREM ChunkInvariant == ChunkSpec => [](crossed \/ ChunkInv)
<1>1. ChunkInit => crossed \/ ChunkInv
  BY ChunkStarts
<1>2. (crossed \/ ChunkInv) /\ [ChunkNext]_chunkVars => (crossed \/ ChunkInv)'
  <2> SUFFICES ASSUME crossed \/ ChunkInv, [ChunkNext]_chunkVars, ~crossed'
               PROVE  ChunkInv'
    OBVIOUS
  <2>1. ASSUME NEW t \in Threads, NEW o \in Offers, Start(t, o)
        PROVE  ChunkInv'
    <3>1. ChunkInv
      BY <2>1 DEF Start
    <3> QED
      BY <2>1, <3>1, StartKeeps
  <2>2. ASSUME NEW t \in Threads, Write(t)
        PROVE  ChunkInv'
    <3>1. ChunkInv
      BY <2>2 DEF Write
    <3> QED
      BY <2>2, <3>1, WriteKeeps
  <2>3. ASSUME NEW t \in Threads, WriteFails(t)
        PROVE  ChunkInv'
    <3>1. ChunkInv
      BY <2>3 DEF WriteFails
    <3> QED
      BY <2>3, <3>1, WriteFailsKeeps
  <2>4. CASE ReadChunk
    <3>1. ChunkInv
      BY <2>4 DEF ReadChunk
    <3> QED
      BY <2>4, <3>1, ReadKeeps
  <2>5. CASE UNCHANGED chunkVars
    <3>1. ChunkInv
      BY <2>5 DEF chunkVars
    <3> QED
      BY <2>5, <3>1, ChunkStutters
  <2> QED
    BY <2>1, <2>2, <2>3, <2>4, <2>5 DEF ChunkNext
<1> QED
  BY <1>1, <1>2, PTL DEF ChunkSpec

(* The peer finds a whole chunk on the wire.                               *)
ChunkWaits ==
  /\ wire # <<>> /\ Head(wire).kind = "head"
  /\ LET p == Parsed(Head(wire)) IN Len(wire) > Least(ChunkSize, p.size - Len(p.body))

NothingSticks ==
  open /\ ~crossed =>
    \/ \E t \in Threads : Busy(t) /\ sending[t].chunk # <<>>
    \/ ChunkWaits
    \/ \A c \in Channels : inflight[c] = <<>>

LEMMA ChunkInvSticks == crossed \/ ChunkInv => NothingSticks
<1> SUFFICES ASSUME ChunkInv, open, \A t \in Threads : Busy(t) => sending[t].chunk = <<>>
             PROVE  ChunkWaits \/ \A c \in Channels : inflight[c] = <<>>
  BY DEF NothingSticks
<1>1. MessagesOK /\ SendersOK /\ IsWire(book, wire) /\ CutsOK /\ ChannelsOK
  BY DEF ChunkInv
<1>2. ASSUME NEW t \in Threads PROVE ~sending[t].begun /\ sending[t].msg = NONE
  <2>1. ~Busy(t)
    <3> SUFFICES ASSUME Busy(t) PROVE FALSE
      OBVIOUS
    <3>1. IsSending(book, sent, sending[t])
      BY <1>1 DEF SendersOK
    <3>2. sending[t].chunk = <<>> /\ InHand(sending[t]) \in 1..Upto(sending[t])
      BY <3>1 DEF IsSending
    <3> QED
      BY <3>2 DEF InHand
  <2>2. sending[t] = Idle
    BY <1>1, <2>1 DEF SendersOK
  <2> QED
    BY <2>2 DEF Idle
<1>3. wire \in Seq(Cell) /\ Len(wire) \in Nat
  BY <1>1 DEF IsWire
<1>4. CASE wire = <<>>
  <2> SUFFICES ASSUME NEW c \in Channels PROVE inflight[c] = <<>>
    OBVIOUS
  <2>1. PlaceAt(book, wire, c, peer[c], Len(wire)) = peer[c]
    <3>1. Len(wire) = 0
      BY <1>4
    <3>2. HeadsTo(wire, c, Len(wire)) = {}
      BY <3>1 DEF HeadsTo
    <3> QED
      BY <3>2, NoHeads
  <2>2. ASSUME NEW t \in Threads PROVE ~On(sending[t], c)
    BY <1>2 DEF On
  <2>3. Ends(book, sending, sent[c], out[c], c, peer[c])
    BY <1>1, <2>1 DEF ChannelsOK
  <2>4. peer[c].no = sent[c] + 1
    BY <2>2, <2>3 DEF Ends
  <2>5. peer[c].no = Delivered(c) + 1
    BY DEF peer, ReaderPlace, Place
  <2>6. inflight[c] \in Seq(Message) /\ Len(inflight[c]) \in Nat /\ sent[c] \in Nat
    BY <1>1 DEF MessagesOK
  <2>7. Len(inflight[c]) = 0
    BY <2>4, <2>5, <2>6 DEF Delivered
  <2> QED
    BY <2>6, <2>7
<1>5. CASE wire # <<>>
  <2>1. PICK h : h = wire[1]
    OBVIOUS
  <2>2. PICK p : p = Parsed(h)
    OBVIOUS
  <2>3. 1 \in 1..Len(wire) /\ h.kind = "head" /\ Head(wire) = h
    BY <1>3, <1>5, <2>1, FirstHead
  <2>4. Least(ChunkSize, p.size - Len(p.body)) = Span(book, h)
    BY <1>5, <2>1, <2>2, FirstSpan
  <2>5. IsWhole(book, wire, 1)
    BY <1>1, <1>2, <2>1, <2>3 DEF CutsOK
  <2>6. Span(book, h) \in Nat
    BY <1>5, <2>1, FirstHead, BookKept, HeadFacts DEF ChunkInv
  <2>7. Len(wire) > Least(ChunkSize, p.size - Len(p.body))
    BY <1>3, <2>1, <2>4, <2>5, <2>6 DEF IsWhole
  <2> QED
    BY <1>5, <2>2, <2>3, <2>7 DEF ChunkWaits
<1> QED
  BY <1>4, <1>5

(* A message under way never sticks while the connection holds: a thread   *)
(* has bytes of it to write, or the peer has a whole chunk to read, which  *)
(* is what MessagesArrive needs of every state.                            *)
THEOREM NothingSticksTheorem == ChunkSpec => []NothingSticks
BY ChunkInvariant, ChunkInvSticks, PTL

-----------------------------------------------------------------------------
(* The chunk stream implements the message streams.                        *)

Items == [what : [type : STRING, size : Nat, no : Nat], ts : 0..Modulus - 1, timed : BOOLEAN]

Item(m) == [what |-> [type |-> m.type, size |-> m.size, no |-> m.no],
            ts |-> m.ts, timed |-> m.timed]

ItemsOf(s) == [i \in 1..Len(s) |-> Item(s[i])]
QueueOf(f) == [c \in Channels |-> ItemsOf(f[c])]

Arrived(r, c) ==
  [what |-> [type |-> r.type, size |-> r.size, no |-> Origin(r, c)], ts |-> r.ts]
LastOf(r) == [c \in Channels |-> IF r[c] = NONE THEN NONE ELSE Arrived(r[c], c)]

LEMMA ItemOf ==
  ASSUME NEW m \in Message
  PROVE  Item(m) \in Items
BY DEF Item, Items, Message

LEMMA ItemsSeq ==
  ASSUME NEW s \in Seq(Message)
  PROVE  /\ ItemsOf(s) \in Seq(Items) /\ Len(ItemsOf(s)) = Len(s)
         /\ \A i \in 1..Len(s) : ItemsOf(s)[i] = Item(s[i])
<1>1. \A i \in 1..Len(s) : Item(s[i]) \in Items
  BY ItemOf
<1> QED
  BY <1>1 DEF ItemsOf

LEMMA ItemsAppend ==
  ASSUME NEW s \in Seq(Message), NEW m \in Message
  PROVE  ItemsOf(Append(s, m)) = Append(ItemsOf(s), Item(m))
<1> DEFINE u == Append(s, m)
           a == ItemsOf(u)
           b == Append(ItemsOf(s), Item(m))
<1>1. u \in Seq(Message) /\ Len(u) = Len(s) + 1 /\ Len(s) \in Nat
  OBVIOUS
<1>2. \A i \in 1..Len(s) : u[i] = s[i]
  OBVIOUS
<1>3. u[Len(s) + 1] = m
  OBVIOUS
<1>4. /\ ItemsOf(s) \in Seq(Items) /\ Len(ItemsOf(s)) = Len(s)
      /\ \A i \in 1..Len(s) : ItemsOf(s)[i] = Item(s[i])
  BY ItemsSeq
<1>5. a \in Seq(Items) /\ Len(a) = Len(u) /\ \A i \in 1..Len(u) : a[i] = Item(u[i])
  BY <1>1, ItemsSeq
<1>6. PICK v \in Seq(Items) : v = ItemsOf(s)
  BY <1>4
<1>7. /\ Append(v, Item(m)) \in Seq(Items) /\ Len(Append(v, Item(m))) = Len(v) + 1
      /\ \A i \in 1..Len(v) : Append(v, Item(m))[i] = v[i]
      /\ Append(v, Item(m))[Len(v) + 1] = Item(m)
  BY ItemOf
<1>8. /\ b \in Seq(Items) /\ Len(b) = Len(s) + 1
      /\ \A i \in 1..Len(s) : b[i] = Item(s[i])
      /\ b[Len(s) + 1] = Item(m)
  BY <1>4, <1>6, <1>7
<1> HIDE DEF a, b, u
<1>9. ASSUME NEW i \in 1..Len(a)
      PROVE  a[i] = b[i]
  <2>1. i \in 1..Len(s) \/ i = Len(s) + 1
    BY <1>1, <1>5
  <2>2. a[i] = Item(u[i])
    BY <1>5
  <2>3. CASE i \in 1..Len(s)
    BY <1>2, <1>8, <2>2, <2>3 DEF u
  <2>4. CASE i = Len(s) + 1
    BY <1>3, <1>8, <2>2, <2>4 DEF u
  <2> QED
    BY <2>1, <2>3, <2>4
<1>10. Len(a) = Len(b)
  BY <1>1, <1>5, <1>8
<1>11. a = b
  BY <1>5, <1>8, <1>9, <1>10, SameSeq
<1> QED
  BY <1>11 DEF a, b, u

LEMMA ItemsTail ==
  ASSUME NEW s \in Seq(Message), s # <<>>
  PROVE  /\ ItemsOf(Tail(s)) = Tail(ItemsOf(s)) /\ ItemsOf(s) # <<>>
         /\ Head(ItemsOf(s)) = Item(s[1])
<1> DEFINE u == Tail(s)
           a == ItemsOf(u)
           b == Tail(ItemsOf(s))
<1>1. /\ u \in Seq(Message) /\ Len(u) = Len(s) - 1 /\ Len(s) \in Nat /\ Len(s) # 0
      /\ \A i \in 1..Len(s) - 1 : u[i] = s[i + 1]
  OBVIOUS
<1>2. /\ ItemsOf(s) \in Seq(Items) /\ Len(ItemsOf(s)) = Len(s)
      /\ \A i \in 1..Len(s) : ItemsOf(s)[i] = Item(s[i])
  BY ItemsSeq
<1>3. a \in Seq(Items) /\ Len(a) = Len(u) /\ \A i \in 1..Len(u) : a[i] = Item(u[i])
  BY <1>1, ItemsSeq
<1>4. PICK v \in Seq(Items) : v = ItemsOf(s)
  BY <1>2
<1>5. v # <<>> /\ Len(v) = Len(s)
  BY <1>1, <1>2, <1>4, NoneLeft
<1>6. /\ Tail(v) \in Seq(Items) /\ Len(Tail(v)) = Len(v) - 1
      /\ \A i \in 1..Len(v) - 1 : Tail(v)[i] = v[i + 1]
      /\ Head(v) = v[1]
  BY <1>5
<1>7. b \in Seq(Items) /\ Len(b) = Len(s) - 1 /\ \A i \in 1..Len(s) - 1 : b[i] = Item(s[i + 1])
  <2>1. \A i \in 1..Len(s) - 1 : i + 1 \in 1..Len(s)
    BY <1>1
  <2> QED
    BY <1>2, <1>4, <1>5, <1>6, <2>1
<1> HIDE DEF a, b, u
<1>8. ASSUME NEW i \in 1..Len(a)
      PROVE  a[i] = b[i]
  <2>1. i \in 1..Len(s) - 1 /\ i \in 1..Len(u)
    BY <1>1, <1>3
  <2> QED
    BY <1>1, <1>3, <1>7, <2>1
<1>9. a = b
  BY <1>1, <1>3, <1>7, <1>8, SameSeq
<1>10. Head(ItemsOf(s)) = Item(s[1])
  <2>1. 1 \in 1..Len(s)
    BY <1>1
  <2> QED
    BY <1>2, <1>4, <1>6, <2>1
<1> QED
  BY <1>4, <1>5, <1>9, <1>10 DEF a, b, u

Adds(g, f, c, m) == g = [f EXCEPT ![c] = Append(@, m)]
Given(g, f, c, m) ==
  /\ QueueOf(g) = [QueueOf(f) EXCEPT ![c] = Append(@, Item(m))]
  /\ Len(QueueOf(g)[c]) = Len(QueueOf(f)[c]) + 1
  /\ QueueOf(g)[c][Len(QueueOf(g)[c])] = Item(m)

LEMMA QueueGiven ==
  ASSUME NEW f \in [Channels -> Seq(Message)], NEW c \in Channels, NEW m \in Message,
         NEW g, Adds(g, f, c, m)
  PROVE  Given(g, f, c, m)
<1>1. g[c] = Append(f[c], m) /\ \A d \in Channels : d # c => g[d] = f[d]
  BY DEF Adds
<1>2. /\ QueueOf(f)[c] = ItemsOf(f[c])
      /\ QueueOf(g)[c] = Append(ItemsOf(f[c]), Item(m))
      /\ \A d \in Channels : d # c => QueueOf(g)[d] = QueueOf(f)[d]
  BY <1>1, ItemsAppend DEF QueueOf
<1>3. QueueOf(g) = [QueueOf(f) EXCEPT ![c] = Append(@, Item(m))]
  <2>1. /\ QueueOf(f) = [d \in Channels |-> QueueOf(f)[d]]
        /\ QueueOf(g) = [d \in Channels |-> QueueOf(g)[d]]
    BY DEF QueueOf
  <2> QED
    BY <1>2, <2>1
<1>4. PICK v \in Seq(Items) : v = ItemsOf(f[c])
  BY ItemsSeq
<1>5. Len(Append(v, Item(m))) = Len(v) + 1 /\ Append(v, Item(m))[Len(v) + 1] = Item(m)
  BY ItemOf
<1> QED
  BY <1>2, <1>3, <1>4, <1>5 DEF Given

LEMMA QueueTaken ==
  ASSUME NEW f \in [Channels -> Seq(Message)], NEW c \in Channels, f[c] # <<>>,
         NEW g, g = [f EXCEPT ![c] = Tail(@)]
  PROVE  /\ QueueOf(g) = [QueueOf(f) EXCEPT ![c] = Tail(@)]
         /\ QueueOf(f)[c] # <<>> /\ Head(QueueOf(f)[c]) = Item(f[c][1])
<1>1. g[c] = Tail(f[c]) /\ \A d \in Channels : d # c => g[d] = f[d]
  OBVIOUS
<1>2. /\ ItemsOf(Tail(f[c])) = Tail(ItemsOf(f[c])) /\ ItemsOf(f[c]) # <<>>
      /\ Head(ItemsOf(f[c])) = Item(f[c][1])
  BY ItemsTail
<1>3. /\ QueueOf(f)[c] = ItemsOf(f[c])
      /\ QueueOf(g)[c] = Tail(ItemsOf(f[c]))
      /\ \A d \in Channels : d # c => QueueOf(g)[d] = QueueOf(f)[d]
  BY <1>1, <1>2 DEF QueueOf
<1>4. QueueOf(g) = [QueueOf(f) EXCEPT ![c] = Tail(@)]
  <2>1. /\ QueueOf(f) = [d \in Channels |-> QueueOf(f)[d]]
        /\ QueueOf(g) = [d \in Channels |-> QueueOf(g)[d]]
    BY DEF QueueOf
  <2> QED
    BY <1>3, <2>1
<1> QED
  BY <1>2, <1>3, <1>4

(* The body of a message tells which one it is.                            *)
LEMMA OriginOf ==
  ASSUME NEW c \in Channels, NEW no \in 1..MaxSends[c], MaxSends[c] \in Nat,
         NEW r, r.size \in Nat \ {0}, r.body \in Seq(Octet), Len(r.body) = r.size,
         \A i \in 1..r.size : r.body[i] = Byte(c, no, i)
  PROVE  Origin(r, c) = no
<1> DEFINE b(n) == Body([ch |-> c, no |-> n, size |-> r.size])
           whole == {n \in 1..MaxSends[c] : r.body = b(n)}
<1>1. ASSUME NEW n \in 1..MaxSends[c]
      PROVE  /\ b(n) \in Seq(Octet) /\ Len(b(n)) = r.size
             /\ \A i \in 1..r.size : b(n)[i] = Byte(c, n, i)
  <2>1. PICK m : m = [ch |-> c, no |-> n, size |-> r.size]
    OBVIOUS
  <2>2. m.ch = c /\ m.no = n /\ m.size = r.size
    BY <2>1
  <2>3. m.ch \in Channels /\ m.no \in Nat /\ m.size \in Nat
    BY <2>2
  <2>4. /\ Body(m) \in Seq(Octet) /\ Len(Body(m)) = m.size
        /\ \A i \in 1..m.size : Body(m)[i] = Byte(m.ch, m.no, i)
    BY <2>3, BodySeq
  <2> QED
    BY <2>1, <2>2, <2>4
<1> HIDE DEF b
<1>2. r.body = b(no)
  <2>1. \A i \in 1..Len(r.body) : r.body[i] = b(no)[i]
    BY <1>1
  <2>2. Len(r.body) = Len(b(no)) /\ b(no) \in Seq(Octet)
    BY <1>1
  <2> QED
    BY <2>1, <2>2, SameSeq
<1>3. \A n \in whole : n = no
  <2> SUFFICES ASSUME NEW n \in 1..MaxSends[c], r.body = b(n)
               PROVE  n = no
    OBVIOUS
  <2>1. 1 \in 1..r.size
    OBVIOUS
  <2>2. Byte(c, n, 1) = Byte(c, no, 1)
    BY <1>1, <2>1
  <2>3. Byte(c, n, 1).no = n /\ Byte(c, no, 1).no = no
    BY DEF Byte
  <2> QED
    BY <2>2, <2>3
<1>4. whole = {no}
  BY <1>2, <1>3
<1>5. Origin(r, c) = IF whole = {} THEN 0 ELSE CHOOSE n \in whole : TRUE
  BY DEF Origin, b
<1> HIDE DEF whole
<1>6. (CHOOSE n \in whole : TRUE) \in whole
  BY <1>4
<1> QED
  BY <1>4, <1>5, <1>6

LEMMA StreamsStart == ChunkInit => Streams!Init
<1> SUFFICES ASSUME ChunkInit
             PROVE  Streams!Init
  OBVIOUS
<1>1. inflight = [c \in Channels |-> <<>>] /\ received = [c \in Channels |-> NONE]
  BY DEF ChunkInit
<1>2. QueueOf(inflight) = [c \in Channels |-> <<>>]
  <2>1. ItemsOf(<<>>) = <<>>
    <3>1. <<>> \in Seq(Message) /\ Len(<<>>) = 0
      OBVIOUS
    <3>2. ItemsOf(<<>>) \in Seq(Items) /\ Len(ItemsOf(<<>>)) = Len(<<>>)
      BY <3>1, ItemsSeq
    <3> QED
      BY <3>1, <3>2, NoneLeft
  <2> QED
    BY <1>1, <2>1 DEF QueueOf
<1>3. LastOf(received) = [c \in Channels |-> NONE]
  BY <1>1 DEF LastOf
<1> QED
  BY <1>2, <1>3 DEF Streams!Init, QueueOf, LastOf, ItemsOf, Item, Arrived

LEMMA StreamsStays ==
  ASSUME inflight' = inflight, received' = received
  PROVE  UNCHANGED Streams!vars
BY DEF Streams!vars, Origin

LEMMA StreamsGive ==
  ASSUME ChunkInv, NEW t \in Threads, NEW o \in Offers, Start(t, o)
  PROVE  o.ch \in Channels /\ Streams!Give(o.ch)
<1> DEFINE c == o.ch
           m == Started(o)
<1>1. c \in Channels /\ m \in Message
  BY StartsMessage DEF ChunkInv
<1>2. inflight \in [Channels -> Seq(Message)]
  BY DEF ChunkInv, MessagesOK
<1>3. inflight' = [inflight EXCEPT ![c] = Append(@, m)] /\ received' = received
  BY DEF Start, Started, readerVars
<1> HIDE DEF m
<1>4. /\ QueueOf(inflight') = [QueueOf(inflight) EXCEPT ![c] = Append(@, Item(m))]
      /\ Len(QueueOf(inflight')[c]) = Len(QueueOf(inflight)[c]) + 1
      /\ QueueOf(inflight')[c][Len(QueueOf(inflight')[c])] = Item(m)
  <2>1. Adds(inflight', inflight, c, m)
    BY <1>3 DEF Adds
  <2>2. Given(inflight', inflight, c, m)
    BY <1>1, <1>2, <2>1, QueueGiven
  <2> QED
    BY <2>2 DEF Given
<1>5. Item(m) \in Items
  BY <1>1, ItemOf
<1>6. LastOf(received') = LastOf(received)
  BY <1>3
<1>7. /\ Len(QueueOf(inflight')[c]) = Len(QueueOf(inflight)[c]) + 1
      /\ QueueOf(inflight')[c][Len(QueueOf(inflight')[c])] \in Items
      /\ QueueOf(inflight') =
           [QueueOf(inflight) EXCEPT
              ![c] = Append(@, QueueOf(inflight')[c][Len(QueueOf(inflight')[c])])]
      /\ LastOf(received') = LastOf(received)
  BY <1>4, <1>5, <1>6
<1> QED
  BY <1>1, <1>7 DEF Streams!Give, QueueOf, LastOf, ItemsOf, Item, Arrived, Items, Origin

LEMMA StreamsDeliver ==
  ASSUME ChunkInv, NEW h, NEW n, NEW q, IsRead(h, n, q), Ending(h, n)
  PROVE  h.ch \in Channels /\ Streams!Deliver(h.ch)
<1> DEFINE c == h.ch
           m == inflight[c][1]
           r == [type |-> q.type, size |-> q.size, body |-> q.body,
                 ts |-> AbsoluteOf(q, clock[c])]
<1>1. /\ c \in Channels /\ m \in Message /\ inflight[c] # <<>> /\ Of(book, h) = m
      /\ m.no = h.no /\ m.size \in Nat \ {0} /\ h.no \in Nat /\ h.no = Delivered(c) + 1
      /\ h.at \in Nat \ {0} /\ n \in Nat \ {0} /\ IsHead(book, h)
  BY ReadFirst
<1>2. /\ inflight \in [Channels -> Seq(Message)] /\ received \in [Channels -> Whole \cup {NONE}]
      /\ clock[c] \in 0..Modulus - 1
  BY <1>1 DEF ChunkInv, MessagesOK, ReaderOK
<1>3. received' = [received EXCEPT ![c] = r] /\ inflight' = [inflight EXCEPT ![c] = Tail(@)]
  BY DEF IsRead, Ending
<1>4. IsParsed(q, m, c, clock[c], h.at + n) /\ h.at + n = m.size + 1
  BY <1>1 DEF IsRead, Ending
<1> HIDE DEF m
<1>5. /\ q \in Partial /\ q.type = m.type /\ q.size = m.size /\ Len(q.body) = m.size
      /\ \A i \in 1..m.size : q.body[i] = Byte(c, m.no, i)
      /\ m.timed => AbsoluteOf(q, clock[c]) = m.ts
  <2>1. PICK e : e = m.size + 1
    OBVIOUS
  <2>2. e - 1 = m.size
    <3>1. m.size \in Nat
      BY <1>1
    <3> QED
      BY <2>1, <3>1
  <2>3. IsParsed(q, m, c, clock[c], e)
    BY <1>4, <2>1
  <2>4. /\ q \in Partial /\ q.type = m.type /\ q.size = m.size /\ Len(q.body) = e - 1
        /\ \A i \in 1..e - 1 : q.body[i] = Byte(c, m.no, i)
        /\ m.timed => AbsoluteOf(q, clock[c]) = m.ts
    BY <2>3 DEF IsParsed
  <2> QED
    BY <2>2, <2>4
<1>6. r.type = m.type /\ r.size = m.size /\ r.body = q.body /\ r.ts = AbsoluteOf(q, clock[c])
  BY <1>5
<1>7. r.ts \in 0..Modulus - 1 /\ r.body \in Seq(Octet)
  BY <1>2, <1>5, <1>6, AbsoluteRange DEF Partial
<1>8. r # NONE
  <2>1. r \in Whole
    <3>1. q.type \in STRING /\ q.size \in Nat /\ q.body \in Seq(Octet)
      BY <1>5 DEF Partial
    <3> QED
      BY <1>6, <1>7, <3>1 DEF Whole
  <2> QED
    BY <2>1, NullAssumption
<1> HIDE DEF r
<1>9. Origin(r, c) = m.no
  <2>1. m.no \in 1..MaxSends[c] /\ MaxSends[c] \in Nat
    <3>1. h.no \in DOMAIN book[c] /\ IsBook(book)
      BY <1>1, BookKept DEF IsHead, ChunkInv
    <3>2. /\ DOMAIN book[c] = Delivered(c) + 1 .. sent[c] /\ Delivered(c) \in Nat
          /\ sent[c] \in Nat /\ sent[c] <= MaxSends[c] /\ MaxSends[c] \in Nat
      BY <1>1, ChunkAssumption, BookAlways DEF ChunkInv, BookOK, Known, MessagesOK
    <3> QED
      BY <1>1, <3>1, <3>2
  <2>2. r.size \in Nat \ {0} /\ Len(r.body) = r.size
        /\ \A i \in 1..r.size : r.body[i] = Byte(c, m.no, i)
    BY <1>1, <1>5, <1>6
  <2> QED
    BY <1>1, <1>7, <2>1, <2>2, OriginOf
<1>10. Arrived(r, c) = [what |-> Item(m).what, ts |-> r.ts]
  BY <1>6, <1>9 DEF Arrived, Item
<1>11. LastOf(received') = [LastOf(received) EXCEPT ![c] = [what |-> Item(m).what, ts |-> r.ts]]
  <2>1. received'[c] = r /\ \A d \in Channels : d # c => received'[d] = received[d]
    BY <1>1, <1>2, <1>3
  <2>2. /\ LastOf(received')[c] = Arrived(r, c)
        /\ \A d \in Channels : d # c => LastOf(received')[d] = LastOf(received)[d]
    BY <1>1, <1>8, <2>1 DEF LastOf
  <2>3. /\ LastOf(received) = [d \in Channels |-> LastOf(received)[d]]
        /\ LastOf(received') = [d \in Channels |-> LastOf(received')[d]]
    BY DEF LastOf
  <2> QED
    BY <1>10, <2>2, <2>3
<1>12. /\ QueueOf(inflight') = [QueueOf(inflight) EXCEPT ![c] = Tail(@)]
       /\ QueueOf(inflight)[c] # <<>> /\ Head(QueueOf(inflight)[c]) = Item(m)
  BY <1>1, <1>2, <1>3, QueueTaken DEF m
<1>13. Item(m).timed => r.ts = Item(m).ts
  BY <1>5, <1>6 DEF Item
<1>14. /\ QueueOf(inflight)[c] # <<>>
       /\ \E t \in 0..Modulus - 1 :
            /\ Head(QueueOf(inflight)[c]).timed => t = Head(QueueOf(inflight)[c]).ts
            /\ LastOf(received') =
                 [LastOf(received) EXCEPT
                     ![c] = [what |-> Head(QueueOf(inflight)[c]).what, ts |-> t]]
       /\ QueueOf(inflight') = [QueueOf(inflight) EXCEPT ![c] = Tail(@)]
  BY <1>7, <1>11, <1>12, <1>13
<1> QED
  BY <1>1, <1>14 DEF Streams!Deliver, QueueOf, LastOf, ItemsOf, Item, Arrived, Origin

(* On every channel the peer delivers whole messages, in the order they    *)
(* were sent and each once, with the bytes that were sent and, where the   *)
(* packet was timed, the time it was sent with.                            *)
THEOREM ChunkImplementsStreams == ChunkSpec => StreamsSpec
<1>1. ChunkInit => Streams!Init
  BY StreamsStart
<1>2. (crossed \/ ChunkInv) /\ [ChunkNext]_chunkVars => [Streams!Next]_(Streams!vars)
  <2> SUFFICES ASSUME crossed \/ ChunkInv, [ChunkNext]_chunkVars
               PROVE  [Streams!Next]_(Streams!vars)
    OBVIOUS
  <2>1. ASSUME NEW t \in Threads, NEW o \in Offers, Start(t, o)
        PROVE  Streams!Next
    <3>1. ChunkInv
      BY <2>1 DEF Start
    <3> QED
      BY <2>1, <3>1, StreamsGive DEF Streams!Next
  <2>2. ASSUME NEW t \in Threads, Write(t) \/ WriteFails(t)
        PROVE  UNCHANGED Streams!vars
    <3>1. inflight' = inflight /\ received' = received
      BY <2>2 DEF Write, WriteFails, readerVars
    <3> QED
      BY <3>1, StreamsStays
  <2>3. CASE ReadChunk
    <3>1. ChunkInv
      BY <2>3 DEF ReadChunk
    <3>2. PICK h, n, q : IsRead(h, n, q)
      BY <2>3, <3>1, ReadsChunk
    <3>3. CASE Ending(h, n)
      BY <3>1, <3>2, <3>3, StreamsDeliver DEF Streams!Next
    <3>4. CASE ~Ending(h, n)
      <4>1. inflight' = inflight /\ received' = received
        BY <3>2, <3>4 DEF IsRead, Ending
      <4> QED
        BY <4>1, StreamsStays
    <3> QED
      BY <3>3, <3>4
  <2>4. CASE UNCHANGED chunkVars
    <3>1. inflight' = inflight /\ received' = received
      BY <2>4 DEF chunkVars, readerVars
    <3> QED
      BY <3>1, StreamsStays
  <2> QED
    BY <2>1, <2>2, <2>3, <2>4 DEF ChunkNext
<1> QED
  BY <1>1, <1>2, ChunkInvariant, PTL DEF ChunkSpec, StreamsSpec, Streams!Spec

=============================================================================
