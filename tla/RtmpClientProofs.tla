--------------------------- MODULE RtmpClientProofs ---------------------------
(***************************************************************************)
(* Proofs about RtmpClient, for any streams a server grants, any chatter   *)
(* of a server and any number of media packets.                            *)
(*                                                                         *)
(* ClientInv ties the handle to what is under way.  The commands written   *)
(* and not yet read are the next of the dialog, each with the answer it    *)
(* needs given (Line); a call that is remembered is the one whose number   *)
(* its answer bears (Matched); the handle knows a stream exactly as far as *)
(* the dialog went (Sane, Spoken).                                         *)
(*                                                                         *)
(* A step of the client writes several commands, of which each may fail.   *)
(* So the proof follows the handles in between: Pen(s, n) says that s is   *)
(* open and has written up to place n, Lost(s) that a write took it away,  *)
(* Good(s, ph) that it may end the step with the thread in ph.             *)
(***************************************************************************)
EXTENDS RtmpClient, TLAPS

Names == {"connect", "createStream", "publish"}
Cmds  == {"C0C1", "C2", "connect", "releaseStream", "FCPublish", "createStream", "publish",
          "media", "spsPps", "FCUnpublish", "deleteStream", "_checkbw", "pong", "bwresult"}
Kinds == {"S0S1", "S2", "result", "error", "start", "failed", "badName", "close", "ping",
          "onBWDone", "onbwcheck"}

Messages == [cmd : Cmds, txn : Nat, id : Int]
Packets  == [kind : Kinds, txn : Nat, id : Nat]
Handles  == [sock : {"none", "open", "dead"}, stream : Int, playing : BOOLEAN,
             calls : Seq([name : Names, txn : Nat]), invokes : Nat, bw : Nat,
             out : Seq(Messages), recursion : BOOLEAN]

ClientTypeOK ==
  /\ h \in Handles /\ h.out = <<>>
  /\ phase \in {"none", "idle", "S0S1", "S2", "stream", "open", "failed", "closed"}
  /\ media \in Nat /\ peer \in BOOLEAN
  /\ toServer \in Seq(Messages) /\ toClient \in Seq(Packets)
  /\ chat \in Nat /\ heard \in 0..10 /\ granted \in SUBSET Dialog!Answers
  /\ streams \in SUBSET StreamIds /\ gaveUp \in BOOLEAN

(* Place a comes before place b: only media is repeated.                   *)
Before(a, b) == a < b \/ (a = 8 /\ b = 8)

(* A frame names a granted stream, and SPS and PPS are sent only once the  *)
(* server agreed to the publishing.                                        *)
Founded(m) ==
  /\ m.cmd = "media" => m.id \in streams
  /\ m.cmd = "spsPps" => "published" \in granted

(* The commands of q are in the order of the dialog, behind what the       *)
(* server heard, and none is ahead of the answer it needs.                 *)
Line(q) ==
  /\ \A i \in DOMAIN q :
       /\ Place(q[i]) > 0 => Before(heard, Place(q[i]))
       /\ Place(q[i]) = 0 => heard > 0
       /\ Dialog!Needs(q[i].cmd) \subseteq granted
       /\ Founded(q[i])
  /\ \A i, j \in DOMAIN q :
       i < j /\ Place(q[i]) > 0 /\ Place(q[j]) > 0 => Before(Place(q[i]), Place(q[j]))

(* With q the dialog reaches place n, and leaves out nothing but media.    *)
Upto(n, q) ==
  /\ heard <= n /\ \A i \in DOMAIN q : Place(q[i]) <= n
  /\ \A k \in 1..n : k # 8 => heard >= k \/ \E i \in DOMAIN q : Place(q[i]) = k

(* The packet p answers the command of that name.                          *)
Fits(name, p) ==
  /\ name = "connect" => "connected" \in granted
  /\ name = "createStream" => "stream" \in granted /\ p.id \in streams
  /\ name = "publish" => "published" \in granted

(* Every number is used once: under the number of a remembered call there  *)
(* is only its command, and after that only its answer.                    *)
Matched(s, q) ==
  s.sock = "open" =>
    /\ \A i \in DOMAIN q : q[i].txn <= s.invokes
    /\ \A i \in DOMAIN toClient : toClient[i].txn <= s.invokes
    /\ \A c \in DOMAIN s.calls :
         /\ s.calls[c].txn \in 1..s.invokes
         /\ \A i \in DOMAIN q : q[i].txn = s.calls[c].txn => q[i].cmd = s.calls[c].name
         /\ \A i \in DOMAIN toClient :
              toClient[i].kind = "result" /\ toClient[i].txn = s.calls[c].txn =>
                Fits(s.calls[c].name, toClient[i])

(* One call at most is awaited, that of publish exactly while there is a   *)
(* stream, and the stream is one the server granted.                       *)
Sane(s) ==
  /\ Len(s.calls) <= 1
  /\ s.sock = "none" => s.stream = NoStream /\ ~s.playing /\ s.calls = <<>>
  /\ s.recursion <=> s.sock = "dead"
  /\ s.recursion => ~peer /\ streams # {}
  /\ s.sock = "open" =>
       /\ s.stream \in streams \cup {NoStream}
       /\ s.playing => s.stream \in streams /\ "published" \in granted
       /\ heard >= 7 => s.stream \in streams
       /\ \A c \in DOMAIN s.calls : s.calls[c].name = "publish" <=> s.stream \in streams

(* An open handle whose commands reach place n.                            *)
Reached(s, ph, n) ==
  /\ n <= 8
  /\ s.stream \in streams <=> n >= 7
  /\ \A c \in DOMAIN s.calls :
       /\ s.calls[c].name = "connect" => n = 3
       /\ s.calls[c].name = "createStream" => n = 6
  /\ ph = "S0S1" => n = 1
  /\ ph = "S2" => n = 2

(* As long as the connection works, no command is missing: a closed handle *)
(* never asked to publish, or said that the stream ends.                   *)
Spoken(s, ph, q) ==
  peer =>
    \E n \in 0..10 :
      /\ Upto(n, q)
      /\ s.sock = "open" => Reached(s, ph, n)
      /\ s.sock = "none" /\ ~gaveUp => n <= 6 \/ n = 10

(* What the thread's place says of the handle.                             *)
Phases(s, ph) ==
  /\ ph \in {"S0S1", "S2"} =>
       s.sock = "open" /\ s.stream = NoStream /\ s.calls = <<>> /\ ~s.playing
  /\ ph = "stream" => s.sock # "none"
  /\ ph = "open" /\ s.sock = "open" => s.playing
  /\ ph = "closed" => s.sock # "open"

(* Nothing is said before the connection, or over a broken one.            *)
Fresh ==
  /\ phase \in {"none", "idle"} =>
       h.sock = "none" /\ h.invokes = 0 /\ heard = 0 /\ toServer = <<>> /\ toClient = <<>>
  /\ ~peer => toServer = <<>>

(* What the packets under way say of the server.                           *)
Known ==
  /\ heard > 0 => {"S0S1", "S2"} \subseteq granted
  /\ granted # {} \/ toClient # <<>> => heard > 0
  /\ \A i \in DOMAIN toClient :
       /\ toClient[i].kind = "start" => heard >= 7 /\ "published" \in granted
       /\ toClient[i].kind = "failed" => gaveUp

ClientInv ==
  /\ ClientTypeOK /\ Line(toServer) /\ Matched(h, toServer) /\ Sane(h)
  /\ Spoken(h, phase, toServer) /\ Phases(h, phase) /\ Fresh /\ Known

-----------------------------------------------------------------------------
(* Places.                                                                 *)

LEMMA PlaceFacts ==
  ASSUME NEW m
  PROVE  /\ Place(m) \in 0..10
         /\ m.cmd = "C0C1" <=> Place(m) = 1
         /\ m.cmd = "C2" <=> Place(m) = 2
         /\ m.cmd = "connect" <=> Place(m) = 3
         /\ m.cmd = "releaseStream" <=> Place(m) = 4
         /\ m.cmd = "FCPublish" <=> Place(m) = 5
         /\ m.cmd = "createStream" <=> Place(m) = 6
         /\ m.cmd = "publish" <=> Place(m) = 7
         /\ m.cmd \in {"media", "spsPps"} <=> Place(m) = 8
         /\ m.cmd = "FCUnpublish" <=> Place(m) = 9
         /\ m.cmd = "deleteStream" <=> Place(m) = 10
<1>1. /\ DOMAIN Dialog!Steps = 1..10
      /\ Dialog!Steps[1] = "C0C1" /\ Dialog!Steps[2] = "C2" /\ Dialog!Steps[3] = "connect"
      /\ Dialog!Steps[4] = "releaseStream" /\ Dialog!Steps[5] = "FCPublish"
      /\ Dialog!Steps[6] = "createStream" /\ Dialog!Steps[7] = "publish"
      /\ Dialog!Steps[8] = "media" /\ Dialog!Steps[9] = "FCUnpublish"
      /\ Dialog!Steps[10] = "deleteStream"
  BY DEF Dialog!Steps
<1>2. \A n \in 1..10 : Dialog!Steps[n] = StepOf(m) => Place(m) = n
  <2> SUFFICES ASSUME NEW n \in 1..10, Dialog!Steps[n] = StepOf(m)
               PROVE  Place(m) = n
    OBVIOUS
  <2>1. \A k \in 1..10 : Dialog!Steps[k] = StepOf(m) => k = n
    BY <1>1
  <2> QED
    BY <1>1, <2>1 DEF Place
<1>3. (\A n \in 1..10 : Dialog!Steps[n] # StepOf(m)) => Place(m) = 0
  BY <1>1 DEF Place
<1>4. StepOf(m) = IF m.cmd = "spsPps" THEN "media" ELSE m.cmd
  BY DEF StepOf
<1> QED
  BY <1>1, <1>2, <1>3, <1>4

-----------------------------------------------------------------------------
(* RTMP_Close is over: the handle is as RTMP_Init left it.                 *)
Shut(v) ==
  v.sock = "none" /\ v.stream = NoStream /\ ~v.playing /\ v.calls = <<>> /\ ~v.recursion

(* A write that failed closed the handle, or left it to a recursion.       *)
Fails(s, v) ==
  /\ ~(s.sock = "open" /\ peer)
  /\ \/ Shut(v) /\ v.out = s.out
     \/ /\ s.sock # "none" /\ s.stream > 0
        /\ v.sock = "dead" /\ v.recursion /\ v.calls = s.calls

LEMMA ResetOf ==
  ASSUME NEW s \in Handles, ~s.recursion
  PROVE  Reset(s) \in Handles /\ Shut(Reset(s)) /\ Reset(s).out = s.out
<1>1. <<>> \in Seq([name : Names, txn : Nat]) /\ NoStream \in Int
  BY DEF NoStream
<1>2. Reset(s) \in Handles
  BY <1>1 DEF Reset, Handles
<1>3. Reset(s).sock = "none" /\ Reset(s).stream = NoStream /\ Reset(s).calls = <<>>
  BY DEF Reset, Handles
<1>4. ~Reset(s).playing
  BY DEF Reset, Handles
<1>5. Reset(s).recursion = s.recursion /\ Reset(s).out = s.out
  BY DEF Reset, Handles
<1> QED
  BY <1>2, <1>3, <1>4, <1>5 DEF Shut

LEMMA WriteOf ==
  ASSUME NEW s \in Handles, ~s.recursion, NEW m \in Messages, NEW v \in WriteN(s, m)
  PROVE  v \in Handles /\ (Fails(s, v) \/ (s.sock = "open" /\ v = Written(s, m)))
<1>0. Append(s.out, m) \in Seq(Messages)
  BY DEF Handles
<1>1. Written(s, m) \in Handles
  BY <1>0 DEF Written, Handles
<1>2. WriteFailed(s) \in Handles
  BY ResetOf DEF WriteFailed, Handles
<1>3. ~(s.sock = "open" /\ peer) => Fails(s, WriteFailed(s))
  <2>1. CASE s.sock # "none" /\ s.stream > 0
    BY <2>1 DEF WriteFailed, Fails, Handles
  <2>2. CASE ~(s.sock # "none" /\ s.stream > 0)
    BY <2>2, ResetOf DEF WriteFailed, Fails
  <2> QED
    BY <2>1, <2>2
<1>4. \/ s.sock = "open" /\ v = Written(s, m)
      \/ ~(s.sock = "open" /\ peer) /\ v = WriteFailed(s)
  BY DEF WriteN
<1> QED
  BY <1>1, <1>2, <1>3, <1>4

(* The command an invoke writes, and what it leaves.                       *)
Numbered(s, name, id) == [cmd |-> name, txn |-> s.invokes + 1, id |-> id]

Invoked(s, name, id) ==
  [s EXCEPT !.invokes = s.invokes + 1, !.out = Append(s.out, Numbered(s, name, id))]

Queued(s, name, id) ==
  [Invoked(s, name, id) EXCEPT
     !.calls = Append(s.calls, [name |-> name, txn |-> s.invokes + 1])]

LEMMA NumberedOf ==
  ASSUME NEW s \in Handles, NEW name \in Cmds, NEW id \in Int
  PROVE  /\ Numbered(s, name, id) \in Messages
         /\ Numbered(s, name, id).cmd = name /\ Numbered(s, name, id).txn = s.invokes + 1
         /\ Numbered(s, name, id).id = id
<1>1. s.invokes + 1 \in Nat
  BY DEF Handles
<1> QED
  BY <1>1 DEF Numbered, Messages

LEMMA InvokedOf ==
  ASSUME NEW s \in Handles, NEW name \in Cmds, NEW id \in Int
  PROVE  LET v == Invoked(s, name, id)
         IN  /\ v \in Handles
             /\ v.sock = s.sock /\ v.stream = s.stream /\ v.playing = s.playing
             /\ v.recursion = s.recursion /\ v.invokes = s.invokes + 1
             /\ v.out = Append(s.out, Numbered(s, name, id)) /\ v.calls = s.calls
<1>1. s.invokes + 1 \in Nat
  BY DEF Handles
<1>2. Append(s.out, Numbered(s, name, id)) \in Seq(Messages)
  <2>1. Numbered(s, name, id) \in Messages
    BY NumberedOf
  <2> QED
    BY <2>1 DEF Handles
<1>3. Invoked(s, name, id) \in Handles
  BY <1>1, <1>2 DEF Invoked, Handles
<1> QED
  BY <1>3 DEF Invoked, Handles

LEMMA QueuedOf ==
  ASSUME NEW s \in Handles, NEW name \in Names, NEW id \in Int
  PROVE  LET v == Queued(s, name, id)
         IN  /\ v \in Handles
             /\ v.sock = s.sock /\ v.stream = s.stream /\ v.playing = s.playing
             /\ v.recursion = s.recursion /\ v.invokes = s.invokes + 1
             /\ v.out = Append(s.out, Numbered(s, name, id))
             /\ v.calls = Append(s.calls, [name |-> name, txn |-> s.invokes + 1])
<1> DEFINE u == Invoked(s, name, id)
           c == [name |-> name, txn |-> s.invokes + 1]
<1>1. name \in Cmds
  BY DEF Names, Cmds
<1>2. s.invokes + 1 \in Nat
  BY DEF Handles
<1>3. Append(s.calls, c) \in Seq([name : Names, txn : Nat])
  BY <1>2 DEF Handles
<1>4. /\ u \in Handles /\ u.sock = s.sock /\ u.stream = s.stream /\ u.playing = s.playing
      /\ u.recursion = s.recursion /\ u.invokes = s.invokes + 1
      /\ u.out = Append(s.out, Numbered(s, name, id))
  BY <1>1, InvokedOf
<1>5. Queued(s, name, id) = [u EXCEPT !.calls = Append(s.calls, c)]
  BY DEF Queued
<1> HIDE DEF u, c
<1>6. Queued(s, name, id) \in Handles
  BY <1>3, <1>4, <1>5 DEF Handles
<1> QED
  BY <1>4, <1>5, <1>6 DEF Handles, c

LEMMA InvokeOf ==
  ASSUME NEW s \in Handles, ~s.recursion, NEW name \in Cmds, NEW id \in Int,
         NEW queue \in BOOLEAN, NEW v \in Invoke(s, name, id, queue)
  PROVE  \/ Fails(s, v) /\ v \in Handles
         \/ s.sock = "open" /\ v = IF queue THEN Queued(s, name, id) ELSE Invoked(s, name, id)
<1> DEFINE m == Numbered(s, name, id)
           u == [s EXCEPT !.invokes = s.invokes + 1]
           Kept(w) == IF w.recursion THEN w
                      ELSE IF queue /\ Len(w.out) > Len(u.out)
                           THEN [w EXCEPT !.calls = Append(@, [name |-> name,
                                                               txn |-> s.invokes + 1])]
                           ELSE w
<1>1. u \in Handles /\ m \in Messages
  <2>1. s.invokes + 1 \in Nat
    BY DEF Handles
  <2>2. u \in Handles
    BY <2>1 DEF Handles
  <2>3. m \in Messages
    BY NumberedOf
  <2> QED
    BY <2>2, <2>3
<1>2. PICK w \in WriteN(u, m) : v = Kept(w)
  BY DEF Invoke, Then, Numbered
<1>3. w \in Handles /\ (Fails(u, w) \/ (u.sock = "open" /\ w = Written(u, m)))
  <2> HIDE DEF u, m
  <2>1. ~u.recursion
    BY DEF u, Handles
  <2> QED
    BY <1>1, <1>2, <2>1, WriteOf
<1>4. CASE Fails(u, w)
  <2>1. ~(s.sock = "open" /\ peer)
    BY <1>4 DEF Fails, Handles
  <2>2. CASE Shut(w) /\ w.out = u.out
    <3>1. u.out = s.out
      BY DEF Handles
    <3>2. v = w
      BY <1>2, <2>2 DEF Shut, Handles
    <3> QED
      BY <1>3, <2>1, <2>2, <3>1, <3>2 DEF Fails
  <2>3. CASE w.sock = "dead" /\ w.recursion
    <3>1. v = w
      BY <1>2, <2>3
    <3>2. s.sock # "none" /\ s.stream > 0 /\ w.calls = s.calls
      BY <1>4, <2>3 DEF Fails, Shut, Handles
    <3> QED
      BY <1>3, <2>1, <2>3, <3>1, <3>2 DEF Fails
  <2> QED
    BY <1>4, <2>2, <2>3 DEF Fails
<1>5. CASE u.sock = "open" /\ w = Written(u, m)
  <2>1. w.out = Append(s.out, m) /\ Len(w.out) = Len(s.out) + 1 /\ w.calls = s.calls
        /\ ~w.recursion /\ Len(u.out) = Len(s.out) /\ s.sock = "open"
    BY <1>1, <1>5 DEF Written, Handles
  <2>2. w = Invoked(s, name, id)
    BY <1>5 DEF Written, Invoked, Handles
  <2>3. v = IF queue THEN [w EXCEPT !.calls = Append(s.calls, [name |-> name,
                                                               txn |-> s.invokes + 1])] ELSE w
    BY <1>2, <2>1 DEF Handles
  <2> QED
    BY <2>1, <2>2, <2>3 DEF Queued
<1> QED
  BY <1>3, <1>4, <1>5

LEMMA ToldOf ==
  ASSUME NEW s \in Handles, ~s.recursion, NEW name \in Cmds, NEW id \in Int,
         NEW v \in Invoke(s, name, id, FALSE)
  PROVE  \/ Fails(s, v) /\ v \in Handles
         \/ s.sock = "open" /\ v = Invoked(s, name, id)
<1>1. FALSE \in BOOLEAN
  OBVIOUS
<1> QED
  BY <1>1, InvokeOf, Zenon

LEMMA AskedOf ==
  ASSUME NEW s \in Handles, ~s.recursion, NEW name \in Cmds, NEW id \in Int,
         NEW v \in Invoke(s, name, id, TRUE)
  PROVE  \/ Fails(s, v) /\ v \in Handles
         \/ s.sock = "open" /\ v = Queued(s, name, id)
<1>1. TRUE \in BOOLEAN
  OBVIOUS
<1> QED
  BY <1>1, InvokeOf, Zenon

(* A handle that is closed, or lost in the recursion.                      *)
Gone(s) == s \in Handles /\ s.sock # "open" /\ Sane(s)

LEMMA ShutGone ==
  ASSUME NEW v \in Handles, Shut(v)
  PROVE  Gone(v)
  BY DEF Gone, Sane, Shut

LEMMA DeadGone ==
  ASSUME NEW s \in Handles, Sane(s), s.sock # "dead", s.stream > 0, ~(s.sock = "open" /\ peer),
         NEW v \in Handles, v.sock = "dead", v.recursion, v.calls = s.calls
  PROVE  Gone(v)
<1>1. s.sock = "open"
  BY DEF Sane, NoStream, Handles
<1>2. s.stream \in streams
  BY <1>1 DEF Sane, NoStream
<1> QED
  BY <1>1, <1>2 DEF Gone, Sane

LEMMA FailsGone ==
  ASSUME NEW s \in Handles, Sane(s), ~s.recursion, NEW v \in Handles, Fails(s, v)
  PROVE  Gone(v)
  BY ShutGone, DeadGone DEF Fails, Sane

(* RTMP_Close.                                                             *)
LEMMA CloseOf ==
  ASSUME NEW s \in Handles, ~s.recursion, s.sock # "dead", NEW v \in Close(s)
  PROVE  /\ v \in Handles
         /\ \/ (s.sock = "none" \/ s.stream <= 0) /\ Shut(v) /\ v.out = s.out
            \/ /\ s.sock = "open" /\ s.stream > 0 /\ ~peer
               /\ Shut(v) \/ (v.sock = "dead" /\ v.recursion /\ v.calls = s.calls)
            \/ /\ s.sock = "open" /\ s.stream > 0 /\ Shut(v)
               /\ \E m1, m2 \in Messages :
                    /\ m1.cmd = "FCUnpublish" /\ m2.cmd = "deleteStream"
                    /\ v.out = Append(Append(s.out, m1), m2)
<1> DEFINE Delete(u) == Invoke([u EXCEPT !.stream = 0], "deleteStream", s.stream, FALSE)
           Next(w) == IF w.recursion THEN w ELSE Reset(w)
<1>0. CASE ~(s.sock # "none" /\ s.stream > 0)
  <2>1. v = Reset(s)
    BY <1>0 DEF Close
  <2>2. v \in Handles /\ Shut(v) /\ v.out = s.out
    BY <2>1, ResetOf
  <2>3. s.sock = "none" \/ s.stream <= 0
    BY <1>0 DEF Handles
  <2> QED
    BY <2>2, <2>3
<1>1. CASE s.sock # "none" /\ s.stream > 0
  <2>0. s.sock = "open"
    BY <1>1 DEF Handles
  <2>1. PICK u \in Invoke(s, "FCUnpublish", 0, FALSE) :
          \E w \in (IF u.recursion THEN {u} ELSE Delete(u)) : v = Next(w)
    BY <1>1 DEF Close, Then
  <2>2. u \in Handles /\ (Fails(s, u) \/ u = Invoked(s, "FCUnpublish", 0))
    <3>1. "FCUnpublish" \in Cmds /\ 0 \in Int /\ FALSE \in BOOLEAN
      BY DEF Cmds
    <3> QED
      BY <3>1, InvokeOf, InvokedOf
  <2>3. CASE u.recursion
    <3>1. "FCUnpublish" \in Cmds /\ 0 \in Int
      BY DEF Cmds
    <3>2. u.sock = "dead" /\ u.calls = s.calls /\ ~peer
      BY <2>0, <2>2, <2>3, <3>1, InvokedOf DEF Fails, Shut
    <3>3. v = u
      BY <2>1, <2>3
    <3> QED
      BY <1>1, <2>0, <2>2, <2>3, <3>2, <3>3
  <2>4. CASE ~u.recursion
    <3> DEFINE d == [u EXCEPT !.stream = 0]
    <3>0. PICK w \in Delete(u) : v = Next(w)
      BY <2>1, <2>4
    <3>1. /\ d \in Handles /\ ~d.recursion /\ d.stream = 0 /\ d.out = u.out /\ d.sock = u.sock
          /\ s.stream \in Int /\ w \in Invoke(d, "deleteStream", s.stream, FALSE)
      <4>0. d \in Handles
        <5>1. u \in Handles /\ 0 \in Int
          BY <2>2
        <5> QED
          BY <5>1 DEF Handles
      <4>1. d.stream = 0 /\ d.out = u.out /\ d.sock = u.sock
        BY <2>2 DEF Handles
      <4>2. d.recursion = u.recursion /\ s.stream \in Int
        BY <2>2 DEF Handles
      <4> QED
        BY <2>4, <3>0, <4>0, <4>1, <4>2
    <3> HIDE DEF d
    <3>2. w \in Handles /\ (Fails(d, w) \/ w = Invoked(d, "deleteStream", s.stream))
      <4>1. "deleteStream" \in Cmds
        BY DEF Cmds
      <4>2. Invoked(d, "deleteStream", s.stream) \in Handles
        BY <3>1, <4>1, InvokedOf
      <4>3. (Fails(d, w) /\ w \in Handles) \/ w = Invoked(d, "deleteStream", s.stream)
        BY <3>1, <4>1, ToldOf, Zenon
      <4> QED
        BY <4>2, <4>3
    <3>3. ~w.recursion
      <4>1. "deleteStream" \in Cmds
        BY DEF Cmds
      <4> QED
        BY <3>1, <3>2, <4>1, InvokedOf DEF Fails, Shut
    <3>4. v \in Handles /\ Shut(v) /\ v.out = w.out
      BY <3>0, <3>2, <3>3, ResetOf
    <3>5. CASE ~peer
      BY <1>1, <2>0, <3>4, <3>5
    <3>6. CASE peer
      <4>1. "FCUnpublish" \in Cmds /\ "deleteStream" \in Cmds /\ 0 \in Int
        BY DEF Cmds
      <4>2. u.sock = "open" /\ u.out = Append(s.out, Numbered(s, "FCUnpublish", 0))
        BY <2>0, <2>2, <3>6, <4>1, InvokedOf DEF Fails
      <4>3. w.out = Append(u.out, Numbered(d, "deleteStream", s.stream))
        <5>1. Invoked(d, "deleteStream", s.stream).out
                = Append(d.out, Numbered(d, "deleteStream", s.stream))
          BY <3>1, <4>1, InvokedOf, Zenon
        <5>2. ~Fails(d, w)
          BY <3>1, <3>6, <4>2 DEF Fails
        <5> QED
          BY <3>1, <3>2, <5>1, <5>2
      <4>4. /\ Numbered(s, "FCUnpublish", 0) \in Messages
            /\ Numbered(d, "deleteStream", s.stream) \in Messages
            /\ Numbered(s, "FCUnpublish", 0).cmd = "FCUnpublish"
            /\ Numbered(d, "deleteStream", s.stream).cmd = "deleteStream"
        BY <3>1, <4>1, NumberedOf
      <4> QED
        BY <1>1, <2>0, <3>4, <4>2, <4>3, <4>4
    <3> QED
      BY <3>5, <3>6
  <2> QED
    BY <2>3, <2>4
<1> QED
  BY <1>0, <1>1 DEF Handles

-----------------------------------------------------------------------------
(* Messages added to the line.                                             *)

(* Place p may follow when the dialog is at place n.                       *)
Link(n, p) == p = n + 1 \/ (n = 8 /\ p = 8) \/ (n = 7 /\ p = 9)

(* The commands under way with those that s wrote in this step.            *)
Sent(s) == IF peer THEN toServer \o s.out ELSE toServer

(* An open handle whose messages so far reach place n of the dialog.       *)
Pen(s, n) ==
  /\ s \in Handles /\ s.sock = "open" /\ Line(Sent(s)) /\ Matched(s, Sent(s))
  /\ peer => Upto(n, Sent(s))

(* The place that the dialog has reached after a message.                  *)
On(n, m) == IF Place(m) = 0 THEN n ELSE Place(m)

LEMMA LineGrows ==
  ASSUME NEW q \in Seq(Messages), NEW m \in Messages, NEW n \in 0..10, heard \in 0..10,
         Line(q), Upto(n, q), Dialog!Needs(m.cmd) \subseteq granted,
         Founded(m),
         Place(m) = 0 => heard > 0, Place(m) > 0 => Link(n, Place(m))
  PROVE  Line(Append(q, m)) /\ Upto(On(n, m), Append(q, m))
<1> DEFINE r == Append(q, m)
<1>1. /\ DOMAIN r = 1..(Len(q) + 1) /\ DOMAIN q = 1..Len(q) /\ Len(q) \in Nat
      /\ r[Len(q) + 1] = m /\ \A i \in 1..Len(q) : r[i] = q[i]
  OBVIOUS
<1>2. Place(m) \in 0..10 /\ \A i \in 1..Len(q) : Place(q[i]) \in 0..10
  <2>1. Place(m) \in 0..10
    BY PlaceFacts
  <2>2. ASSUME NEW i \in 1..Len(q)
        PROVE  Place(q[i]) \in 0..10
    BY PlaceFacts
  <2> QED
    BY <2>1, <2>2
<1>3. heard <= n /\ \A i \in 1..Len(q) : Place(q[i]) <= n
  BY <1>1 DEF Upto
<1>4. Place(m) > 0 =>
        Before(heard, Place(m)) /\ \A i \in 1..Len(q) : Before(Place(q[i]), Place(m))
  <2>1. ASSUME NEW a \in 0..10, a <= n, Place(m) > 0
        PROVE  Before(a, Place(m))
    BY <1>2, <2>1 DEF Link, Before
  <2> QED
    BY <1>2, <1>3, <2>1
<1> HIDE DEF r
<1>5. \A i \in DOMAIN r :
        /\ Place(r[i]) > 0 => Before(heard, Place(r[i]))
        /\ Place(r[i]) = 0 => heard > 0
        /\ Dialog!Needs(r[i].cmd) \subseteq granted
        /\ Founded(r[i])
  <2> SUFFICES ASSUME NEW i \in 1..(Len(q) + 1)
               PROVE  /\ Place(r[i]) > 0 => Before(heard, Place(r[i]))
                      /\ Place(r[i]) = 0 => heard > 0
                      /\ Dialog!Needs(r[i].cmd) \subseteq granted
                      /\ Founded(r[i])
    BY <1>1
  <2>1. CASE i = Len(q) + 1
    BY <1>1, <1>4, <2>1
  <2>2. CASE i \in 1..Len(q)
    BY <1>1, <2>2 DEF Line
  <2> QED
    BY <1>1, <2>1, <2>2
<1>6. ASSUME NEW i \in DOMAIN r, NEW j \in DOMAIN r,
             i < j, Place(r[i]) > 0, Place(r[j]) > 0
      PROVE  Before(Place(r[i]), Place(r[j]))
  <2>1. CASE j = Len(q) + 1
    <3>1. i \in 1..Len(q) /\ r[j] = m /\ r[i] = q[i]
      BY <1>1, <1>6, <2>1
    <3> QED
      BY <1>4, <1>6, <3>1
  <2>2. CASE j \in 1..Len(q)
    <3>1. i \in 1..Len(q) /\ r[j] = q[j] /\ r[i] = q[i]
      BY <1>1, <1>6, <2>2
    <3> QED
      BY <1>1, <1>6, <2>2, <3>1 DEF Line
  <2> QED
    BY <1>1, <2>1, <2>2
<1>7. Line(r)
  BY <1>5, <1>6 DEF Line
<1>8. Upto(On(n, m), r)
  <2> DEFINE k0 == On(n, m)
  <2>1. n <= k0 /\ k0 \in 0..10 /\ Place(m) <= k0
    BY <1>2 DEF On, Link
  <2>2. heard <= k0 /\ \A i \in DOMAIN r : Place(r[i]) <= k0
    <3>1. heard <= k0
      BY <1>3, <2>1
    <3>2. ASSUME NEW i \in 1..(Len(q) + 1)
          PROVE  Place(r[i]) <= k0
      <4>1. CASE i = Len(q) + 1
        BY <1>1, <2>1, <4>1
      <4>2. CASE i \in 1..Len(q)
        BY <1>1, <1>2, <1>3, <2>1, <4>2
      <4> QED
        BY <1>1, <4>1, <4>2
    <3> QED
      BY <1>1, <3>1, <3>2
  <2>3. ASSUME NEW k \in 1..k0, k # 8
        PROVE  heard >= k \/ \E i \in DOMAIN r : Place(r[i]) = k
    <3>1. CASE k \in 1..n
      <4>1. heard >= k \/ \E i \in DOMAIN q : Place(q[i]) = k
        BY <2>3, <3>1 DEF Upto
      <4> QED
        BY <1>1, <4>1
    <3>2. CASE k > n
      <4>1. Place(m) = k
        BY <1>2, <2>1, <2>3, <3>2 DEF On, Link
      <4> QED
        BY <1>1, <4>1
    <3> QED
      BY <2>1, <3>1, <3>2
  <2> QED
    BY <2>2, <2>3 DEF Upto
<1> QED
  BY <1>7, <1>8 DEF r

(* What a handle remembers after it wrote a message.                       *)
Recalls(s, v, m) ==
  /\ v.invokes >= s.invokes /\ m.txn <= v.invokes
  /\ \/ v.calls = s.calls /\ (m.txn = 0 \/ m.txn = s.invokes + 1)
     \/ v.calls = <<[name |-> m.cmd, txn |-> m.txn]>> /\ m.txn = s.invokes + 1

LEMMA MatchedGrows ==
  ASSUME NEW q \in Seq(Messages), NEW m \in Messages, toClient \in Seq(Packets),
         NEW s \in Handles, s.sock = "open", Matched(s, q),
         NEW v \in Handles, v.sock = "open", Recalls(s, v, m)
  PROVE  Matched(v, q) /\ Matched(v, Append(q, m))
<1>0. s.invokes \in Nat /\ v.invokes \in Nat /\ m.txn \in Nat /\ s.invokes <= v.invokes
      /\ m.txn <= v.invokes
  BY DEF Handles, Messages, Recalls
<1>1. /\ \A i \in DOMAIN q : q[i].txn \in Nat /\ q[i].txn <= s.invokes
      /\ \A i \in DOMAIN toClient : toClient[i].txn \in Nat /\ toClient[i].txn <= s.invokes
  <2>1. /\ \A i \in DOMAIN q : q[i].txn <= s.invokes
        /\ \A i \in DOMAIN toClient : toClient[i].txn <= s.invokes
    BY DEF Matched
  <2>2. \A i \in DOMAIN q : q[i].txn \in Nat
    <3>1. \A i \in DOMAIN q : q[i] \in Messages
      OBVIOUS
    <3> QED
      BY <3>1 DEF Messages
  <2>3. \A i \in DOMAIN toClient : toClient[i].txn \in Nat
    <3>1. \A i \in DOMAIN toClient : toClient[i] \in Packets
      OBVIOUS
    <3> QED
      BY <3>1 DEF Packets
  <2> QED
    BY <2>1, <2>2, <2>3
<1>2. ASSUME NEW c \in DOMAIN v.calls
      PROVE  /\ v.calls[c].txn \in 1..v.invokes
             /\ m.txn = v.calls[c].txn => m.cmd = v.calls[c].name
             /\ \A i \in DOMAIN q : q[i].txn = v.calls[c].txn => q[i].cmd = v.calls[c].name
             /\ \A i \in DOMAIN toClient :
                  toClient[i].kind = "result" /\ toClient[i].txn = v.calls[c].txn =>
                    Fits(v.calls[c].name, toClient[i])
  <2>1. CASE v.calls = s.calls /\ (m.txn = 0 \/ m.txn = s.invokes + 1)
    <3>1. /\ s.calls[c].txn \in 1..s.invokes
          /\ \A i \in DOMAIN q : q[i].txn = s.calls[c].txn => q[i].cmd = s.calls[c].name
          /\ \A i \in DOMAIN toClient :
               toClient[i].kind = "result" /\ toClient[i].txn = s.calls[c].txn =>
                 Fits(s.calls[c].name, toClient[i])
      BY <2>1 DEF Matched
    <3> QED
      BY <1>0, <2>1, <3>1
  <2>2. CASE v.calls = <<[name |-> m.cmd, txn |-> m.txn]>> /\ m.txn = s.invokes + 1
    <3>1. v.calls[c].name = m.cmd /\ v.calls[c].txn = m.txn
      BY <2>2
    <3> QED
      BY <1>0, <1>1, <2>2, <3>1
  <2> QED
    BY <2>1, <2>2 DEF Recalls
<1>3. \A i \in DOMAIN q : q[i].txn <= v.invokes
  BY <1>0, <1>1
<1>4. \A i \in DOMAIN toClient : toClient[i].txn <= v.invokes
  BY <1>0, <1>1
<1>5. Matched(v, q)
  BY <1>2, <1>3, <1>4 DEF Matched
<1>6. Matched(v, Append(q, m))
  <2> DEFINE r == Append(q, m)
  <2>1. \A i \in DOMAIN r : r[i] = m \/ \E j \in DOMAIN q : r[i] = q[j]
    OBVIOUS
  <2> HIDE DEF r
  <2>2. \A i \in DOMAIN r : r[i].txn <= v.invokes
    BY <1>0, <1>3, <2>1
  <2>3. \A c \in DOMAIN v.calls : \A i \in DOMAIN r :
          r[i].txn = v.calls[c].txn => r[i].cmd = v.calls[c].name
    BY <1>2, <2>1
  <2>4. Matched(v, r)
    BY <1>2, <1>4, <2>2, <2>3 DEF Matched
  <2> QED
    BY <2>4 DEF r
<1> QED
  BY <1>5, <1>6

LEMMA SentGrows ==
  ASSUME toServer \in Seq(Messages), NEW s \in Handles, NEW v \in Handles, NEW m \in Messages,
         v.out = Append(s.out, m)
  PROVE  /\ Sent(s) \in Seq(Messages)
         /\ Sent(v) = IF peer THEN Append(Sent(s), m) ELSE Sent(s)
<1>1. s.out \in Seq(Messages)
  BY DEF Handles
<1>2. toServer \o Append(s.out, m) = Append(toServer \o s.out, m)
  BY <1>1
<1> QED
  BY <1>1, <1>2 DEF Sent

LEMMA Says ==
  ASSUME toServer \in Seq(Messages), toClient \in Seq(Packets), heard \in 0..10,
         ~peer => toServer = <<>>,
         NEW s, NEW n \in 0..10, Pen(s, n),
         NEW v \in Handles, v.sock = "open", NEW m \in Messages, v.out = Append(s.out, m),
         Recalls(s, v, m),
         Dialog!Needs(m.cmd) \subseteq granted, Founded(m),
         Place(m) = 0 => heard > 0, peer /\ Place(m) > 0 => Link(n, Place(m))
  PROVE  Pen(v, On(n, m))
<1>1. s \in Handles /\ s.sock = "open" /\ Line(Sent(s)) /\ Matched(s, Sent(s))
  BY DEF Pen
<1>2. /\ Sent(s) \in Seq(Messages)
      /\ Sent(v) = IF peer THEN Append(Sent(s), m) ELSE Sent(s)
  BY <1>1, SentGrows
<1>3. Matched(v, Sent(s)) /\ Matched(v, Append(Sent(s), m))
  BY <1>1, <1>2, MatchedGrows
<1>4. Matched(v, Sent(v))
  BY <1>2, <1>3
<1>5. CASE peer
  <2>1. Upto(n, Sent(s))
    BY <1>5 DEF Pen
  <2>2. Line(Append(Sent(s), m)) /\ Upto(On(n, m), Append(Sent(s), m))
    BY <1>1, <1>2, <1>5, <2>1, LineGrows
  <2> QED
    BY <1>2, <1>4, <1>5, <2>2 DEF Pen
<1>6. CASE ~peer
  BY <1>1, <1>2, <1>4, <1>6 DEF Pen
<1> QED
  BY <1>5, <1>6

-----------------------------------------------------------------------------
(* Writes and invokes of an open handle.                                   *)

(* The connection broke and took the handle with it.                       *)
Lost(s) == ~peer /\ Gone(s)

Alike(s, v) ==
  v.sock = s.sock /\ v.stream = s.stream /\ v.playing = s.playing /\ v.recursion = s.recursion

Ready ==
  /\ toServer \in Seq(Messages) /\ toClient \in Seq(Packets) /\ heard \in 0..10
  /\ ~peer => toServer = <<>>

LEMMA FailsLost ==
  ASSUME NEW s \in Handles, Sane(s), ~s.recursion, s.sock = "open" \/ ~peer,
         NEW v \in Handles, Fails(s, v)
  PROVE  Lost(v)
  BY FailsGone DEF Lost, Fails

LEMMA LostGoes ==
  ASSUME NEW s, Lost(s), ~s.recursion, NEW name \in Cmds, NEW id \in Int,
         NEW queue \in BOOLEAN, NEW v \in Invoke(s, name, id, queue)
  PROVE  Lost(v)
<1>1. s \in Handles /\ Sane(s) /\ s.sock # "open" /\ ~peer
  BY DEF Lost, Gone
<1>2. Fails(s, v) /\ v \in Handles
  BY <1>1, InvokeOf
<1> QED
  BY <1>1, <1>2, FailsLost

LEMMA WrittenOf ==
  ASSUME NEW s \in Handles, NEW m \in Messages
  PROVE  /\ Written(s, m) \in Handles /\ Alike(s, Written(s, m))
         /\ Written(s, m).out = Append(s.out, m) /\ Written(s, m).calls = s.calls
         /\ Written(s, m).invokes = s.invokes
<1>1. Append(s.out, m) \in Seq(Messages)
  BY DEF Handles
<1>2. Written(s, m) \in Handles
  BY <1>1 DEF Written, Handles
<1>3. Alike(s, Written(s, m))
  BY DEF Written, Handles, Alike
<1> QED
  BY <1>2, <1>3 DEF Written, Handles

(* The handle wrote, and remembers what it remembered.                     *)
Told(s, v, n) == Pen(v, n) /\ Alike(s, v) /\ v.calls = s.calls

LEMMA Writes ==
  ASSUME Ready, NEW s, NEW n \in 0..10, Pen(s, n), Sane(s),
         NEW m \in Messages, m.txn = 0,
         Dialog!Needs(m.cmd) \subseteq granted, Founded(m),
         Place(m) = 0 => heard > 0, peer /\ Place(m) > 0 => Link(n, Place(m)),
         NEW v \in WriteN(s, m)
  PROVE  Lost(v) \/ Told(s, v, On(n, m))
<1>1. s \in Handles /\ s.sock = "open" /\ ~s.recursion
  BY DEF Pen, Sane
<1>2. v \in Handles /\ (Fails(s, v) \/ v = Written(s, m))
  BY <1>1, WriteOf
<1>3. CASE Fails(s, v)
  BY <1>1, <1>2, <1>3, FailsLost
<1>4. CASE v = Written(s, m)
  <2>1. Alike(s, v) /\ v.out = Append(s.out, m) /\ v.calls = s.calls /\ v.invokes = s.invokes
    BY <1>1, <1>4, WrittenOf
  <2>2. Recalls(s, v, m)
    <3>1. s.invokes \in Nat
      BY <1>1 DEF Handles
    <3> QED
      BY <2>1, <3>1 DEF Recalls
  <2>3. v.sock = "open"
    BY <1>1, <2>1 DEF Alike
  <2>4. Pen(v, On(n, m))
    BY <1>2, <2>1, <2>2, <2>3, Says DEF Ready
  <2> QED
    BY <2>1, <2>4 DEF Told
<1> QED
  BY <1>2, <1>3, <1>4

LEMMA CommandOf ==
  ASSUME NEW name \in Cmds
  PROVE  /\ Command(name) \in Messages /\ Command(name).cmd = name /\ Command(name).txn = 0
         /\ \A m : m.cmd = name => \A n : On(n, m) = On(n, Command(name))
                                           /\ Place(m) = Place(Command(name))
<1>1. Command(name) \in Messages /\ Command(name).cmd = name /\ Command(name).txn = 0
  BY DEF Command, Messages
<1>2. ASSUME NEW m, m.cmd = name
      PROVE  Place(m) = Place(Command(name))
  BY <1>1, <1>2 DEF StepOf, Place
<1> QED
  BY <1>1, <1>2 DEF On

LEMMA Tells ==
  ASSUME Ready, NEW s, NEW n \in 0..10, Pen(s, n), Sane(s),
         NEW name \in Cmds, name \notin {"media", "spsPps"}, NEW id \in Int,
         Dialog!Needs(name) \subseteq granted, Place(Command(name)) = 0 => heard > 0,
         peer /\ Place(Command(name)) > 0 => Link(n, Place(Command(name))),
         NEW v \in Invoke(s, name, id, FALSE)
  PROVE  Lost(v) \/ Told(s, v, On(n, Command(name)))
<1>1. s \in Handles /\ s.sock = "open" /\ ~s.recursion
  BY DEF Pen, Sane
<1>2. (Fails(s, v) /\ v \in Handles) \/ v = Invoked(s, name, id)
  BY <1>1, ToldOf, Zenon
<1>3. CASE Fails(s, v) /\ v \in Handles
  BY <1>1, <1>3, FailsLost
<1>4. CASE v = Invoked(s, name, id)
  <2> DEFINE m == Numbered(s, name, id)
  <2>1. m \in Messages /\ m.cmd = name /\ m.txn = s.invokes + 1
    BY <1>1, NumberedOf
  <2>2. /\ v \in Handles /\ Alike(s, v) /\ v.out = Append(s.out, m) /\ v.calls = s.calls
        /\ v.invokes = s.invokes + 1
    BY <1>1, <1>4, InvokedOf DEF Alike
  <2>3. s.invokes \in Nat
    BY <1>1 DEF Handles
  <2> HIDE DEF m
  <2>4. Recalls(s, v, m)
    BY <2>1, <2>2, <2>3 DEF Recalls
  <2>5. On(n, m) = On(n, Command(name)) /\ Place(m) = Place(Command(name))
    BY <2>1, CommandOf
  <2>6. v.sock = "open"
    BY <1>1, <2>2 DEF Alike
  <2>7. Pen(v, On(n, m))
    BY <2>1, <2>2, <2>4, <2>5, <2>6, Says DEF Ready, Founded
  <2> QED
    BY <2>2, <2>5, <2>7 DEF Told
<1> QED
  BY <1>2, <1>3, <1>4

(* The handle wrote a command whose answer it waits for.                   *)
Asked(s, v, name) ==
  /\ Pen(v, Place(Command(name))) /\ Alike(s, v)
  /\ Len(v.calls) = 1 /\ v.calls[1].name = name

LEMMA Asks ==
  ASSUME Ready, NEW s, NEW n \in 0..10, Pen(s, n), Sane(s), s.calls = <<>>,
         NEW name \in Names, NEW id \in Int,
         Dialog!Needs(name) \subseteq granted,
         peer => Link(n, Place(Command(name))),
         NEW v \in Invoke(s, name, id, TRUE)
  PROVE  Lost(v) \/ Asked(s, v, name)
<1>0. name \in Cmds /\ Place(Command(name)) > 0 /\ name \notin {"media", "spsPps"}
  <2>1. name \in Cmds /\ name \notin {"media", "spsPps"}
    BY DEF Names, Cmds
  <2>2. Command(name).cmd = name
    BY <2>1, CommandOf
  <2>3. Command(name).cmd \in {"connect", "createStream", "publish"}
    BY <2>2 DEF Names
  <2> QED
    BY <2>1, <2>3, PlaceFacts
<1>1. s \in Handles /\ s.sock = "open" /\ ~s.recursion
  BY DEF Pen, Sane
<1>2. (Fails(s, v) /\ v \in Handles) \/ v = Queued(s, name, id)
  BY <1>0, <1>1, AskedOf, Zenon
<1>3. CASE Fails(s, v) /\ v \in Handles
  BY <1>1, <1>3, FailsLost
<1>4. CASE v = Queued(s, name, id)
  <2> DEFINE m == Numbered(s, name, id)
  <2>1. m \in Messages /\ m.cmd = name /\ m.txn = s.invokes + 1
    BY <1>0, <1>1, NumberedOf
  <2>2. /\ v \in Handles /\ Alike(s, v) /\ v.out = Append(s.out, m)
        /\ v.calls = <<[name |-> name, txn |-> s.invokes + 1]>>
        /\ v.invokes = s.invokes + 1
    <3>1. Queued(s, name, id).calls = Append(s.calls, [name |-> name, txn |-> s.invokes + 1])
      BY <1>1, QueuedOf
    <3>2. Append(<<>>, [name |-> name, txn |-> s.invokes + 1])
            = <<[name |-> name, txn |-> s.invokes + 1]>>
      OBVIOUS
    <3> QED
      BY <1>1, <1>4, <3>1, <3>2, QueuedOf DEF Alike
  <2>3. s.invokes \in Nat
    BY <1>1 DEF Handles
  <2> HIDE DEF m
  <2>4. Recalls(s, v, m)
    BY <2>1, <2>2, <2>3 DEF Recalls
  <2>5. On(n, m) = Place(Command(name)) /\ Place(m) = Place(Command(name))
    BY <1>0, <2>1, CommandOf DEF On
  <2>6. v.sock = "open"
    BY <1>1, <2>2 DEF Alike
  <2>7. Pen(v, On(n, m))
    <3>1. /\ Place(m) = 0 => heard > 0
          /\ peer /\ Place(m) > 0 => Link(n, Place(m))
      BY <1>0, <2>5
    <3>2. Dialog!Needs(m.cmd) \subseteq granted /\ Founded(m)
      BY <1>0, <2>1 DEF Founded
    <3> QED
      BY <2>1, <2>2, <2>4, <2>6, <3>1, <3>2, Says DEF Ready
  <2>8. Len(v.calls) = 1 /\ v.calls[1].name = name
    BY <2>2
  <2> QED
    BY <2>2, <2>5, <2>7, <2>8 DEF Asked
<1> QED
  BY <1>2, <1>3, <1>4

-----------------------------------------------------------------------------
(* What a step may leave of the handle.                                    *)

(* An open handle in the dialog with the server.                           *)
Held(s, n) == Pen(s, n) /\ Sane(s) /\ (peer => Reached(s, "stream", n))

(* The handle may end the step, with the thread in ph.                     *)
Good(s, ph) ==
  /\ s \in Handles /\ Sane(s) /\ Line(Sent(s)) /\ Matched(s, Sent(s))
  /\ Spoken(s, ph, Sent(s)) /\ Phases(s, ph)

LEMMA Granted ==
  ASSUME streams \subseteq StreamIds
  PROVE  NoStream \notin streams /\ \A id \in streams : id \in Nat /\ id > 0
<1>1. StreamIds \subseteq Nat \ {0}
  BY ClientAssumption
<1>2. \A id \in streams : id \in Nat /\ id # 0
  BY <1>1
<1>3. \A id \in streams : id > 0
  BY <1>2
<1> QED
  BY <1>2, <1>3 DEF NoStream

LEMMA NeedsOf ==
  /\ Dialog!Needs("C0C1") = {} /\ Dialog!Needs("C2") = {"S0S1"}
  /\ Dialog!Needs("connect") = {"S2"} /\ Dialog!Needs("releaseStream") = {"connected"}
  /\ Dialog!Needs("FCPublish") = {} /\ Dialog!Needs("createStream") = {}
  /\ Dialog!Needs("publish") = {"stream"} /\ Dialog!Needs("media") = {"published"}
  /\ Dialog!Needs("FCUnpublish") = {} /\ Dialog!Needs("deleteStream") = {}
  /\ Dialog!Needs("_checkbw") = {} /\ Dialog!Needs("pong") = {}
  /\ Dialog!Needs("bwresult") = {} /\ Dialog!Needs("spsPps") = {}
BY DEF Dialog!Needs

LEMMA PenGood ==
  ASSUME NEW s, NEW n \in 0..10, Pen(s, n), Sane(s),
         NEW ph, peer => Reached(s, ph, n), Phases(s, ph)
  PROVE  Good(s, ph)
<1>1. s \in Handles /\ s.sock = "open" /\ Line(Sent(s)) /\ Matched(s, Sent(s))
  BY DEF Pen
<1>2. Spoken(s, ph, Sent(s))
  <2>1. CASE peer
    <3>1. Upto(n, Sent(s)) /\ Reached(s, ph, n)
      BY <2>1 DEF Pen
    <3> QED
      BY <1>1, <3>1 DEF Spoken
  <2>2. CASE ~peer
    BY <2>2 DEF Spoken
  <2> QED
    BY <2>1, <2>2
<1> QED
  BY <1>1, <1>2 DEF Good

LEMMA HeldGood ==
  ASSUME NEW s, NEW n \in 0..10, Held(s, n), NEW ph, ph \notin {"S0S1", "S2"}, Phases(s, ph)
  PROVE  Good(s, ph)
<1>1. Pen(s, n) /\ Sane(s) /\ (peer => Reached(s, ph, n))
  BY DEF Held, Reached
<1> QED
  BY <1>1, PenGood

LEMMA LostGood ==
  ASSUME Line(toServer), NEW v, Lost(v), NEW ph, Phases(v, ph)
  PROVE  Good(v, ph)
<1>1. v \in Handles /\ Sane(v) /\ v.sock # "open" /\ ~peer
  BY DEF Lost, Gone
<1>2. Line(Sent(v)) /\ Matched(v, Sent(v)) /\ Spoken(v, ph, Sent(v))
  BY <1>1 DEF Sent, Matched, Spoken
<1> QED
  BY <1>1, <1>2 DEF Good

LEMMA ShutGood ==
  ASSUME NEW v \in Handles, Shut(v), Line(Sent(v)),
         NEW n \in 0..10, peer => Upto(n, Sent(v)) /\ (gaveUp \/ n <= 6 \/ n = 10),
         NEW ph, ph \notin {"S0S1", "S2", "stream"}
  PROVE  Good(v, ph)
<1>1. Sane(v) /\ v.sock = "none"
  BY DEF Sane, Shut
<1>2. Matched(v, Sent(v)) /\ Spoken(v, ph, Sent(v)) /\ Phases(v, ph)
  BY <1>1 DEF Matched, Spoken, Phases
<1> QED
  BY <1>1, <1>2 DEF Good

LEMMA CloseGood ==
  ASSUME Ready, streams \subseteq StreamIds, Line(toServer),
         NEW s, NEW n \in 0..10, Held(s, n), NEW v \in Close(s),
         NEW ph, ph \notin {"S0S1", "S2"}, ph = "stream" => v.sock # "none"
  PROVE  Good(v, ph)
<1>1. s \in Handles /\ s.sock = "open" /\ ~s.recursion /\ Sane(s)
  BY DEF Held, Pen, Sane
<1>2. Line(Sent(s)) /\ (peer => Upto(n, Sent(s)) /\ Reached(s, "stream", n))
  BY DEF Held, Pen
<1>3. v \in Handles
  BY <1>1, CloseOf
<1>4. CASE s.stream <= 0 /\ Shut(v) /\ v.out = s.out
  <2>1. Sent(v) = Sent(s)
    BY <1>4 DEF Sent
  <2>2. s.stream \notin streams
    <3>1. \A id \in streams : id > 0
      BY Granted
    <3>2. s.stream \in Int
      BY <1>1 DEF Handles
    <3> QED
      BY <1>4, <3>1, <3>2
  <2>3. peer => n <= 6
    BY <1>2, <2>2 DEF Reached
  <2> QED
    BY <1>2, <1>3, <1>4, <2>1, <2>3, ShutGood DEF Shut
<1>5. CASE s.stream > 0 /\ ~peer /\ (Shut(v) \/ (v.sock = "dead" /\ v.recursion
                                                  /\ v.calls = s.calls))
  <2>1. Lost(v)
    BY <1>1, <1>3, <1>5, ShutGone, DeadGone DEF Lost
  <2>2. Phases(v, ph)
    BY <2>1 DEF Phases, Lost, Gone
  <2> QED
    BY <2>1, <2>2, LostGood
<1>6. CASE /\ s.stream > 0 /\ Shut(v) /\ peer
           /\ \E m1, m2 \in Messages :
                /\ m1.cmd = "FCUnpublish" /\ m2.cmd = "deleteStream"
                /\ v.out = Append(Append(s.out, m1), m2)
  <2>1. PICK m1 \in Messages, m2 \in Messages :
          /\ m1.cmd = "FCUnpublish" /\ m2.cmd = "deleteStream"
          /\ v.out = Append(Append(s.out, m1), m2)
    BY <1>6
  <2> DEFINE w == Written(s, m1)
  <2>2. w \in Handles /\ w.out = Append(s.out, m1)
    BY <1>1, WrittenOf
  <2> HIDE DEF w
  <2>3. /\ Sent(s) \in Seq(Messages) /\ Sent(w) \in Seq(Messages)
        /\ Sent(w) = Append(Sent(s), m1) /\ Sent(v) = Append(Sent(w), m2)
    <3>0. toServer \in Seq(Messages)
      BY DEF Ready
    <3>1. Sent(s) \in Seq(Messages) /\ Sent(w) = Append(Sent(s), m1)
      BY <1>1, <1>6, <2>2, <3>0, SentGrows
    <3>2. v.out = Append(w.out, m2)
      BY <2>1, <2>2
    <3>3. Sent(w) \in Seq(Messages) /\ Sent(v) = Append(Sent(w), m2)
      BY <1>3, <1>6, <2>2, <3>0, <3>2, SentGrows
    <3> QED
      BY <3>1, <3>3
  <2>4. n = 7 \/ n = 8
    <3>1. s.stream \in streams
      BY <1>1, <1>6 DEF Sane, NoStream
    <3> QED
      BY <1>2, <1>6, <3>1 DEF Reached
  <2>5. Place(m1) = 9 /\ Place(m2) = 10
    BY <2>1, PlaceFacts
  <2>6. /\ Dialog!Needs(m1.cmd) \subseteq granted /\ Founded(m1)
        /\ Dialog!Needs(m2.cmd) \subseteq granted /\ Founded(m2)
    BY <2>1, NeedsOf DEF Founded
  <2>7. On(n, m1) = 9 /\ On(9, m2) = 10 /\ Link(n, 9) /\ Link(9, 10)
    BY <2>4, <2>5 DEF On, Link
  <2>8. heard \in 0..10 /\ 9 \in 0..10
    BY DEF Ready
  <2>9. Line(Sent(w)) /\ Upto(9, Sent(w))
    <3>0. /\ Place(m1) # 0 /\ Link(n, Place(m1)) /\ Sent(s) \in Seq(Messages)
          /\ Line(Sent(s)) /\ Upto(n, Sent(s))
      BY <1>2, <1>6, <2>3, <2>5, <2>7
    <3>1. Line(Append(Sent(s), m1)) /\ Upto(On(n, m1), Append(Sent(s), m1))
      BY <2>1, <2>6, <2>8, <3>0, LineGrows, Zenon
    <3> QED
      BY <2>3, <2>7, <3>1
  <2>10. Line(Sent(v)) /\ Upto(10, Sent(v))
    <3>0. Place(m2) # 0 /\ Link(9, Place(m2)) /\ Sent(w) \in Seq(Messages)
      BY <2>3, <2>5, <2>7
    <3>1. Line(Append(Sent(w), m2)) /\ Upto(On(9, m2), Append(Sent(w), m2))
      BY <2>6, <2>8, <2>9, <3>0, LineGrows, Zenon
    <3> QED
      BY <2>3, <2>7, <3>1
  <2> QED
    BY <1>3, <1>6, <2>10, ShutGood DEF Shut
<1>7. \/ s.stream <= 0 /\ Shut(v) /\ v.out = s.out
      \/ s.stream > 0 /\ ~peer /\ (Shut(v) \/ (v.sock = "dead" /\ v.recursion
                                                  /\ v.calls = s.calls))
      \/ /\ s.stream > 0 /\ Shut(v) /\ peer
         /\ \E m1, m2 \in Messages :
              /\ m1.cmd = "FCUnpublish" /\ m2.cmd = "deleteStream"
              /\ v.out = Append(Append(s.out, m1), m2)
  BY <1>1, CloseOf
<1> QED
  BY <1>4, <1>5, <1>6, <1>7

-----------------------------------------------------------------------------
LEMMA ElementOf ==
  ASSUME NEW S, NEW q \in Seq(S), NEW i \in DOMAIN q
  PROVE  q[i] \in S
OBVIOUS

LEMMA TailOf ==
  ASSUME NEW S, NEW q \in Seq(S), q # <<>>
  PROVE  /\ Tail(q) \in Seq(S) /\ Len(Tail(q)) = Len(q) - 1 /\ Len(q) > 0
         /\ \A i \in DOMAIN Tail(q) : i + 1 \in DOMAIN q /\ Tail(q)[i] = q[i + 1]
         /\ \A i \in DOMAIN Tail(q) : \E j \in DOMAIN q : Tail(q)[i] = q[j]
<1>1. Tail(q) \in Seq(S) /\ Len(Tail(q)) = Len(q) - 1 /\ Len(q) > 0
  OBVIOUS
<1>2. \A i \in 1..(Len(q) - 1) : Tail(q)[i] = q[i + 1]
  OBVIOUS
<1>3. DOMAIN Tail(q) = 1..(Len(q) - 1) /\ DOMAIN q = 1..Len(q) /\ Len(q) \in Nat
  BY <1>1
<1>4. \A i \in DOMAIN Tail(q) : i + 1 \in DOMAIN q /\ Tail(q)[i] = q[i + 1]
  BY <1>1, <1>2, <1>3
<1> QED
  BY <1>1, <1>4

(* The invariant holds when what a step leaves of the handle is good.      *)
LEMMA ClientMoves ==
  ASSUME ClientInv, NEW s, Good(s, phase'), Becomes(s), media' \in Nat,
         peer' = peer, UNCHANGED serverVars,
         toClient' = toClient \/ (toClient # <<>> /\ toClient' = Tail(toClient)),
         phase' \in {"S0S1", "S2", "stream", "open", "failed", "closed"}
  PROVE  ClientInv'
<1>0. ClientTypeOK /\ Fresh /\ Known
  BY DEF ClientInv
<1>1. /\ chat' = chat /\ heard' = heard /\ granted' = granted /\ streams' = streams
      /\ gaveUp' = gaveUp /\ peer' = peer
  BY DEF serverVars
<1>2. /\ s \in Handles /\ Sane(s) /\ Line(Sent(s)) /\ Matched(s, Sent(s))
      /\ Spoken(s, phase', Sent(s)) /\ Phases(s, phase')
  BY DEF Good
<1>3. toServer' = Sent(s) /\ h' = [s EXCEPT !.out = <<>>]
  BY DEF Becomes, Sent
<1>4. h' \in Handles /\ h'.out = <<>>
  <2>1. <<>> \in Seq(Messages)
    OBVIOUS
  <2> QED
    BY <1>2, <1>3, <2>1 DEF Handles
<1>5. /\ h'.sock = s.sock /\ h'.stream = s.stream /\ h'.playing = s.playing
      /\ h'.calls = s.calls /\ h'.invokes = s.invokes /\ h'.recursion = s.recursion
  BY <1>2, <1>3 DEF Handles
<1>6. toClient' \in Seq(Packets) /\ \A i \in DOMAIN toClient' :
                                      \E j \in DOMAIN toClient : toClient'[i] = toClient[j]
  <2>1. toClient \in Seq(Packets)
    BY <1>0 DEF ClientTypeOK
  <2>2. CASE toClient # <<>> /\ toClient' = Tail(toClient)
    <3>1. Tail(toClient) \in Seq(Packets)
      BY <2>1, <2>2
    <3>2. \A i \in DOMAIN Tail(toClient) :
            \E j \in DOMAIN toClient : Tail(toClient)[i] = toClient[j]
      BY <2>1, <2>2, TailOf
    <3> QED
      BY <2>2, <3>1, <3>2
  <2>3. CASE toClient' = toClient
    BY <2>1, <2>3
  <2> QED
    BY <2>2, <2>3
<1>7. toServer' \in Seq(Messages)
  BY <1>0, <1>2, <1>3 DEF Sent, Handles, ClientTypeOK
<1>8. ClientTypeOK'
  BY <1>0, <1>1, <1>4, <1>6, <1>7 DEF ClientTypeOK
<1>9. Line(toServer)'
  BY <1>1, <1>2, <1>3 DEF Line, Founded, StepOf, Place, Before
<1>10. Sane(h)'
  BY <1>1, <1>2, <1>5 DEF Sane
<1>11. Matched(h, toServer)'
  <2> SUFFICES ASSUME s.sock = "open"
               PROVE  Matched(h, toServer)'
    BY <1>5 DEF Matched
  <2>1. /\ \A i \in DOMAIN toServer' : toServer'[i].txn <= h'.invokes
        /\ \A i \in DOMAIN toClient : toClient[i].txn <= h'.invokes
        /\ \A c \in DOMAIN h'.calls :
             /\ h'.calls[c].txn \in 1..h'.invokes
             /\ \A i \in DOMAIN toServer' :
                  toServer'[i].txn = h'.calls[c].txn => toServer'[i].cmd = h'.calls[c].name
             /\ \A i \in DOMAIN toClient :
                  toClient[i].kind = "result" /\ toClient[i].txn = h'.calls[c].txn =>
                    Fits(h'.calls[c].name, toClient[i])
    BY <1>2, <1>3, <1>5 DEF Matched
  <2>2. \A i \in DOMAIN toClient' : toClient'[i].txn <= h'.invokes
    BY <1>6, <2>1
  <2>3. ASSUME NEW c \in DOMAIN h'.calls, NEW i \in DOMAIN toClient',
               toClient'[i].kind = "result", toClient'[i].txn = h'.calls[c].txn
        PROVE  Fits(h.calls[c].name, toClient[i])'
    <3>1. Fits(h'.calls[c].name, toClient'[i])
      BY <1>6, <2>1, <2>3
    <3> QED
      BY <1>1, <3>1 DEF Fits
  <2> QED
    BY <2>1, <2>2, <2>3 DEF Matched
<1>12. Spoken(h, phase, toServer)'
  <2> SUFFICES ASSUME peer
               PROVE  Spoken(h, phase, toServer)'
    BY <1>1 DEF Spoken
  <2>1. PICK n \in 0..10 :
          /\ Upto(n, Sent(s))
          /\ s.sock = "open" => Reached(s, phase', n)
          /\ s.sock = "none" /\ ~gaveUp => n <= 6 \/ n = 10
    BY <1>2 DEF Spoken
  <2>2. Upto(n, toServer)'
    BY <1>1, <1>3, <2>1 DEF Upto, Place
  <2>3. h'.sock = "open" => Reached(h, phase, n)'
    BY <1>1, <1>5, <2>1 DEF Reached
  <2> QED
    BY <1>1, <1>5, <2>1, <2>2, <2>3 DEF Spoken
<1>13. Phases(h, phase)'
  BY <1>2, <1>5 DEF Phases
<1>14. Fresh'
  <2>1. ~peer => toServer' = <<>>
    BY <1>0, <1>3 DEF Fresh, Sent
  <2> QED
    BY <1>1, <2>1 DEF Fresh
<1>15. Known'
  <2>1. toClient' # <<>> => toClient # <<>>
    BY <1>0 DEF ClientTypeOK
  <2>2. /\ heard > 0 => {"S0S1", "S2"} \subseteq granted
        /\ granted # {} \/ toClient # <<>> => heard > 0
        /\ \A i \in DOMAIN toClient :
             /\ toClient[i].kind = "start" => heard >= 7 /\ "published" \in granted
             /\ toClient[i].kind = "failed" => gaveUp
    BY <1>0 DEF Known
  <2>3. \A i \in DOMAIN toClient' :
          /\ toClient'[i].kind = "start" => heard >= 7 /\ "published" \in granted
          /\ toClient'[i].kind = "failed" => gaveUp
    BY <1>6, <2>2
  <2> QED
    BY <1>1, <2>1, <2>2, <2>3 DEF Known
<1> QED
  BY <1>8, <1>9, <1>10, <1>11, <1>12, <1>13, <1>14, <1>15 DEF ClientInv

-----------------------------------------------------------------------------
(* The steps of the client.                                                *)
LEMMA ReadyNow ==
  ASSUME ClientInv
  PROVE  /\ Ready /\ streams \subseteq StreamIds /\ Line(toServer) /\ Sane(h)
         /\ h \in Handles /\ h.out = <<>> /\ Sent(h) = toServer
<1>1. h \in Handles /\ h.out = <<>> /\ toServer \in Seq(Messages)
  BY DEF ClientInv, ClientTypeOK
<1>2. toServer \o <<>> = toServer
  BY <1>1
<1>3. Sent(h) = toServer
  BY <1>1, <1>2 DEF Sent
<1>4. Ready
  BY DEF ClientInv, ClientTypeOK, Fresh, Ready
<1> QED
  BY <1>1, <1>3, <1>4 DEF ClientInv, ClientTypeOK

LEMMA HeldNow ==
  ASSUME ClientInv, h.sock = "open"
  PROVE  \E n \in 0..10 : Held(h, n) /\ (peer => Reached(h, phase, n))
<1>1. /\ h \in Handles /\ Line(Sent(h)) /\ Matched(h, Sent(h)) /\ Sane(h)
      /\ Spoken(h, phase, Sent(h))
  BY ReadyNow DEF ClientInv
<1>2. CASE peer
  <2>1. PICK n \in 0..10 : Upto(n, Sent(h)) /\ Reached(h, phase, n)
    BY <1>1, <1>2 DEF Spoken
  <2>2. Reached(h, "stream", n)
    BY <2>1 DEF Reached
  <2> QED
    BY <1>1, <2>1, <2>2 DEF Held, Pen
<1>3. CASE ~peer
  <2>1. Held(h, 0)
    BY <1>1, <1>3 DEF Held, Pen
  <2> QED
    BY <1>3, <2>1
<1> QED
  BY <1>2, <1>3

LEMMA InitInv ==
  ASSUME RtmpInit
  PROVE  ClientInv
<1>1. h \in Handles /\ h.out = <<>>
  <2>1. <<>> \in Seq([name : Names, txn : Nat]) /\ <<>> \in Seq(Messages) /\ NoStream \in Int
    BY DEF NoStream
  <2> QED
    BY <2>1 DEF RtmpInit, Handles
<1>2. ClientTypeOK
  <2>1. MaxChat \in Nat
    BY ClientAssumption
  <2>2. toServer \in Seq(Messages) /\ toClient \in Seq(Packets)
    BY DEF RtmpInit
  <2>3. chat \in Nat /\ heard \in 0..10 /\ media \in Nat
    BY <2>1 DEF RtmpInit
  <2>5. peer \in BOOLEAN /\ gaveUp \in BOOLEAN
    BY Zenon DEF RtmpInit
  <2>4. granted \in SUBSET Dialog!Answers /\ streams \in SUBSET StreamIds
    BY DEF RtmpInit
  <2> QED
    BY <1>1, <2>2, <2>3, <2>4, <2>5 DEF RtmpInit, ClientTypeOK
<1>3. Line(toServer) /\ Matched(h, toServer)
  BY DEF RtmpInit, Line, Matched
<1>4. Sane(h)
  BY DEF RtmpInit, Sane
<1>5. Spoken(h, phase, toServer)
  <2>1. Upto(0, toServer)
    BY DEF RtmpInit, Upto
  <2>2. h.sock # "open"
    BY DEF RtmpInit
  <2> QED
    BY <2>1, <2>2 DEF Spoken
<1>6. Phases(h, phase) /\ Fresh /\ Known
  BY DEF RtmpInit, Phases, Fresh, Known
<1> QED
  BY <1>2, <1>3, <1>4, <1>5, <1>6 DEF ClientInv

LEMMA AllocKeeps ==
  ASSUME ClientInv, AllocHandle
  PROVE  ClientInv'
<1>1. /\ phase = "none" /\ phase' = "idle"
      /\ UNCHANGED <<h, media, peer, toServer, toClient, chat, heard, granted, streams, gaveUp>>
  BY DEF AllocHandle, serverVars
<1>2. ClientTypeOK'
  BY <1>1 DEF ClientInv, ClientTypeOK
<1>3. Line(toServer)' /\ Matched(h, toServer)' /\ Sane(h)'
  BY <1>1 DEF ClientInv, Line, Founded, StepOf, Matched, Sane, Place, Before, Fits
<1>4. Spoken(h, phase, toServer)'
  <2>1. h.sock = "none"
    BY <1>1 DEF ClientInv, Fresh
  <2>2. ASSUME NEW n \in 0..10, Upto(n, toServer)
        PROVE  Upto(n, toServer)'
    BY <1>1, <2>2 DEF Upto, Place
  <2> QED
    BY <1>1, <2>1, <2>2 DEF ClientInv, Spoken
<1>5. Phases(h, phase)'
  BY <1>1 DEF Phases
<1>6. Fresh' /\ Known'
  BY <1>1 DEF ClientInv, Fresh, Known
<1> QED
  BY <1>2, <1>3, <1>4, <1>5, <1>6 DEF ClientInv

LEMMA ConnectKeeps ==
  ASSUME ClientInv, TcpConnect
  PROVE  ClientInv'
<1>1. /\ phase = "idle" /\ media' = media /\ peer' = peer /\ toClient' = toClient
      /\ UNCHANGED serverVars
  BY DEF TcpConnect
<1>2. /\ h.sock = "none" /\ heard = 0 /\ toServer = <<>> /\ toClient = <<>>
  BY <1>1 DEF ClientInv, Fresh
<1>3. /\ h \in Handles /\ Sane(h) /\ h.out = <<>> /\ media \in Nat /\ Ready
      /\ streams \subseteq StreamIds /\ Sent(h) = toServer
  BY ReadyNow DEF ClientInv, ClientTypeOK
<1>4. Upto(0, toServer)
  BY <1>2 DEF Upto
<1>5. \E s : Good(s, phase') /\ Becomes(s) /\ phase' \in {"S0S1", "failed"}
  <2>1. CASE UNCHANGED <<h, toServer>> /\ phase' = "failed"
    <3>1. Becomes(h)
      <4>1. h = [h EXCEPT !.out = <<>>]
        BY <1>3 DEF Handles
      <4>2. toServer = Sent(h)
        BY <1>3
      <4> QED
        BY <2>1, <4>1, <4>2 DEF Becomes, Sent
    <3>2. Shut(h)
      BY <1>2, <1>3 DEF Sane, Shut
    <3>3. Line(Sent(h))
      BY <1>3 DEF ClientInv
    <3>4. Good(h, phase')
      BY <1>3, <1>4, <2>1, <3>2, <3>3, ShutGood
    <3> QED
      BY <2>1, <3>1, <3>4
  <2>2. ASSUME NEW v \in WriteN([h EXCEPT !.sock = "open"], Command("C0C1")), Becomes(v),
               phase' = IF v.sock = "open" THEN "S0S1" ELSE "failed"
        PROVE  Good(v, phase')
    <3> DEFINE s == [h EXCEPT !.sock = "open"]
    <3>1. /\ s \in Handles /\ s.sock = "open" /\ s.stream = h.stream /\ s.playing = h.playing
          /\ s.calls = h.calls /\ s.out = <<>> /\ s.recursion = h.recursion
      BY <1>3 DEF Handles
    <3>2. v \in WriteN(s, Command("C0C1"))
      BY <2>2
    <3> HIDE DEF s
    <3>3. s.stream = NoStream /\ ~s.playing /\ s.calls = <<>> /\ ~s.recursion
      BY <1>2, <1>3, <3>1 DEF Sane
    <3>4. Sane(s)
      BY <1>2, <3>1, <3>3 DEF Sane
    <3>5. Pen(s, 0)
      <4>1. Sent(s) = toServer
        BY <1>3, <3>1 DEF Sent
      <4>2. Line(toServer) /\ Matched(s, toServer)
        BY <1>2, <3>3 DEF Line, Matched
      <4> QED
        BY <1>4, <3>1, <4>1, <4>2 DEF Pen
    <3>6. "C0C1" \in Cmds
      BY DEF Cmds
    <3>7. /\ Command("C0C1") \in Messages /\ Command("C0C1").txn = 0
          /\ Command("C0C1").cmd = "C0C1"
      BY <3>6, CommandOf
    <3>8. Place(Command("C0C1")) = 1
      BY <3>7, PlaceFacts
    <3>9. Link(0, 1) /\ On(0, Command("C0C1")) = 1
      BY <3>8 DEF Link, On
    <3>10. Lost(v) \/ (Pen(v, 1) /\ Alike(s, v) /\ v.calls = s.calls)
      <4>1. Dialog!Needs(Command("C0C1").cmd) \subseteq granted
        BY <3>7, NeedsOf
      <4>2. Lost(v) \/ Told(s, v, On(0, Command("C0C1")))
        BY <1>3, <3>2, <3>4, <3>5, <3>7, <3>8, <3>9, <4>1, Writes DEF Founded
      <4> QED
        BY <3>9, <4>2 DEF Told
    <3>11. CASE Lost(v)
      <4>1. v.sock # "open"
        BY <3>11 DEF Lost, Gone
      <4>2. Phases(v, phase') /\ Line(toServer)
        BY <2>2, <4>1 DEF Phases, ClientInv
      <4> QED
        BY <3>11, <4>2, LostGood
    <3>12. CASE Pen(v, 1) /\ Alike(s, v) /\ v.calls = s.calls
      <4>1. /\ v.sock = "open" /\ v.stream = NoStream /\ ~v.playing /\ v.calls = <<>>
            /\ ~v.recursion /\ phase' = "S0S1"
        BY <2>2, <3>1, <3>3, <3>12 DEF Alike
      <4>2. Sane(v)
        BY <1>2, <4>1 DEF Sane
      <4>3. NoStream \notin streams
        BY <1>3, Granted
      <4>4. Reached(v, phase', 1) /\ Phases(v, phase')
        BY <4>1, <4>3 DEF Reached, Phases
      <4> QED
        BY <3>12, <4>2, <4>4, PenGood
    <3> QED
      BY <3>10, <3>11, <3>12
  <2>3. \/ UNCHANGED <<h, toServer>> /\ phase' = "failed"
        \/ \E v \in WriteN([h EXCEPT !.sock = "open"], Command("C0C1")) :
             Becomes(v) /\ phase' = IF v.sock = "open" THEN "S0S1" ELSE "failed"
    BY DEF TcpConnect
  <2> QED
    BY <2>1, <2>2, <2>3
<1> QED
  BY <1>1, <1>3, <1>5, ClientMoves

LEMMA LostPhase ==
  ASSUME Line(toServer), NEW v, Lost(v), NEW ph, ph \in {"open", "failed", "closed"}
  PROVE  Good(v, ph)
<1>1. v.sock # "open"
  BY DEF Lost, Gone
<1>2. Phases(v, ph)
  BY <1>1 DEF Phases
<1> QED
  BY <1>2, LostGood

LEMMA HandShakeKeeps ==
  ASSUME ClientInv, HandShake
  PROVE  ClientInv'
<1>1. /\ phase \in {"S0S1", "S2"} /\ media' = media /\ peer' = peer /\ UNCHANGED serverVars
      /\ toClient # <<>> /\ toClient' = Tail(toClient)
  BY DEF HandShake
<1>2. /\ h.sock = "open" /\ h.stream = NoStream /\ h.calls = <<>> /\ ~h.playing /\ ~h.recursion
      /\ heard > 0 /\ {"S0S1", "S2"} \subseteq granted
  BY <1>1 DEF ClientInv, Phases, Known, Sane
<1>3. /\ Ready /\ streams \subseteq StreamIds /\ Line(toServer) /\ Sane(h)
      /\ h \in Handles /\ media \in Nat
  BY ReadyNow DEF ClientInv, ClientTypeOK
<1>4. NoStream \notin streams
  BY <1>3, Granted
<1>5. PICK n \in 0..10 : Held(h, n) /\ (peer => Reached(h, phase, n))
  BY <1>2, HeldNow
<1>6. Pen(h, n)
  BY <1>5 DEF Held
<1>7. CASE phase = "S0S1"
  <2>1. PICK s \in WriteN(h, Command("C2")) :
          Becomes(s) /\ phase' = IF s.sock = "open" THEN "S2" ELSE "failed"
    BY <1>7 DEF HandShake
  <2>2. "C2" \in Cmds
    BY DEF Cmds
  <2>3. /\ Command("C2") \in Messages /\ Command("C2").txn = 0 /\ Command("C2").cmd = "C2"
    BY <2>2, CommandOf
  <2>4. Place(Command("C2")) = 2
    BY <2>3, PlaceFacts
  <2>5. (peer => Link(n, 2)) /\ On(n, Command("C2")) = 2
    BY <1>5, <1>7, <2>4 DEF Reached, Link, On
  <2>6. Dialog!Needs(Command("C2").cmd) \subseteq granted
    BY <1>2, <2>3, NeedsOf
  <2>7. Lost(s) \/ (Pen(s, 2) /\ Alike(h, s) /\ s.calls = h.calls)
    <3>1. Lost(s) \/ Told(h, s, On(n, Command("C2")))
      BY <1>3, <1>6, <2>1, <2>3, <2>4, <2>5, <2>6, Writes DEF Founded
    <3> QED
      BY <2>5, <3>1 DEF Told
  <2>8. CASE Lost(s)
    <3>1. phase' = "failed"
      BY <2>1, <2>8 DEF Lost, Gone
    <3>2. Good(s, phase')
      BY <1>3, <2>8, <3>1, LostPhase
    <3> QED
      BY <1>1, <1>3, <2>1, <3>1, <3>2, ClientMoves
  <2>9. CASE Pen(s, 2) /\ Alike(h, s) /\ s.calls = h.calls
    <3>1. /\ s.sock = "open" /\ s.stream = NoStream /\ ~s.playing /\ s.calls = <<>>
          /\ ~s.recursion /\ phase' = "S2"
      BY <1>2, <2>1, <2>9 DEF Alike
    <3>2. ~(heard >= 7)
      BY <1>2, <1>3, <1>4 DEF Sane
    <3>3. Sane(s)
      BY <3>1, <3>2 DEF Sane
    <3>4. Reached(s, phase', 2) /\ Phases(s, phase')
      BY <1>4, <3>1 DEF Reached, Phases
    <3>5. Good(s, phase')
      BY <2>9, <3>3, <3>4, PenGood
    <3> QED
      BY <1>1, <1>3, <2>1, <3>1, <3>5, ClientMoves
  <2> QED
    BY <2>7, <2>8, <2>9
<1>8. CASE phase = "S2"
  <2>1. PICK s \in Invoke(h, "connect", 0, TRUE) :
          Becomes(s) /\ phase' = IF s.sock = "open" THEN "stream" ELSE "failed"
    BY <1>8 DEF HandShake
  <2>2. "connect" \in Names /\ "connect" \in Cmds
    BY DEF Names, Cmds
  <2>3. Command("connect").cmd = "connect"
    BY <2>2, CommandOf
  <2>4. Place(Command("connect")) = 3
    BY <2>3, PlaceFacts
  <2>5. peer => Link(n, 3)
    BY <1>5, <1>8 DEF Reached, Link
  <2>6. Dialog!Needs("connect") \subseteq granted
    BY <1>2, NeedsOf
  <2>7. \/ Lost(s)
        \/ Pen(s, 3) /\ Alike(h, s) /\ Len(s.calls) = 1 /\ s.calls[1].name = "connect"
    <3>1. peer => Link(n, Place(Command("connect")))
      BY <2>4, <2>5
    <3>2. Ready /\ Sane(h) /\ h.calls = <<>> /\ 0 \in Int
      BY <1>2, <1>3
    <3>3. Lost(s) \/ Asked(h, s, "connect")
      BY <1>6, <2>1, <2>2, <2>6, <3>1, <3>2, Asks
    <3> QED
      BY <2>4, <3>3 DEF Asked
  <2>8. CASE Lost(s)
    <3>1. phase' = "failed"
      BY <2>1, <2>8 DEF Lost, Gone
    <3>2. Good(s, phase')
      BY <1>3, <2>8, <3>1, LostPhase
    <3> QED
      BY <1>1, <1>3, <2>1, <3>1, <3>2, ClientMoves
  <2>9. CASE Pen(s, 3) /\ Alike(h, s) /\ Len(s.calls) = 1 /\ s.calls[1].name = "connect"
    <3>1. /\ s.sock = "open" /\ s.stream = NoStream /\ ~s.playing
          /\ ~s.recursion /\ phase' = "stream" /\ DOMAIN s.calls = {1}
      <4>1. s.calls \in Seq([name : Names, txn : Nat])
        BY <2>9 DEF Pen, Handles
      <4> QED
        BY <1>2, <2>1, <2>9, <4>1 DEF Alike
    <3>2. ~(heard >= 7)
      BY <1>2, <1>3, <1>4 DEF Sane
    <3>3. Sane(s)
      BY <1>4, <2>9, <3>1, <3>2 DEF Sane
    <3>4. Reached(s, phase', 3) /\ Phases(s, phase')
      BY <1>4, <2>9, <3>1 DEF Reached, Phases
    <3>5. Good(s, phase')
      BY <2>9, <3>3, <3>4, PenGood
    <3> QED
      BY <1>1, <1>3, <2>1, <3>1, <3>5, ClientMoves
  <2> QED
    BY <2>7, <2>8, <2>9
<1> QED
  BY <1>1, <1>7, <1>8

(* At most one call is remembered, so that an answer found ends the list.  *)
LEMMA EraseOf ==
  ASSUME NEW S, NEW calls \in Seq(S), Len(calls) <= 1, NEW places \in SUBSET DOMAIN calls
  PROVE  /\ Erase(calls, places) \in {calls, <<>>}
         /\ places # {} => /\ Erase(calls, places) = <<>>
                           /\ Min(places) = 1 /\ 1 \in places
<1>1. CASE places = {}
  BY <1>1 DEF Erase
<1>2. CASE places # {}
  <2>0. Len(calls) \in Nat /\ DOMAIN calls = 1..Len(calls)
    OBVIOUS
  <2>1. places = {1} /\ Len(calls) = 1
    <3>1. \A i \in places : i = 1
      BY <2>0
    <3> QED
      BY <1>2, <2>0, <3>1
  <2>2. Min(places) = 1
    BY <2>1 DEF Min
  <2>3. RemoveAt(calls, 1) = <<>>
    BY <2>1 DEF RemoveAt
  <2> QED
    BY <1>2, <2>1, <2>2, <2>3 DEF Erase
<1> QED
  BY <1>1, <1>2

LEMMA PenQuiet ==
  ASSUME NEW s, NEW n \in 0..10, Pen(s, n),
         NEW v \in Handles, v.sock = "open", v.out = s.out, v.invokes = s.invokes,
         v.calls \in {s.calls, <<>>}
  PROVE  Pen(v, n)
<1>1. Sent(v) = Sent(s)
  BY DEF Sent
<1>2. Matched(v, Sent(s))
  BY DEF Pen, Matched
<1> QED
  BY <1>1, <1>2 DEF Pen

(* A handle without calls is sane when its stream is.                      *)
LEMMA SaneIdle ==
  ASSUME NEW v, v.sock = "open", ~v.recursion, v.calls = <<>>,
         v.stream \in streams \cup {NoStream},
         v.playing => v.stream \in streams /\ "published" \in granted,
         heard >= 7 => v.stream \in streams
  PROVE  Sane(v)
BY DEF Sane

LEMMA SaneAsked ==
  ASSUME NEW s, Sane(s), s.calls = <<>>, NEW name \in Names, NEW v, Asked(s, v, name),
         name = "publish" <=> s.stream \in streams
  PROVE  Sane(v) /\ DOMAIN v.calls = {1}
<1>1. /\ v.sock = "open" /\ Alike(s, v) /\ Len(v.calls) = 1 /\ v.calls[1].name = name
      /\ v.calls \in Seq([name : Names, txn : Nat])
  BY DEF Asked, Pen, Handles
<1>2. DOMAIN v.calls = {1}
  BY <1>1
<1> QED
  BY <1>1, <1>2 DEF Sane, Alike

(* HandleInvoke for _result.                                               *)
LEMMA ConnectResult ==
  ASSUME Ready, streams \subseteq StreamIds, "connected" \in granted,
         NEW u, NEW n \in 0..10, Pen(u, n), Sane(u), u.calls = <<>>, u.stream \notin streams,
         peer => n = 3, NEW p, NEW v \in ResultOf(u, "connect", p)
  PROVE  Lost(v) \/ \E k \in 0..10 : Held(v, k)
<1> DEFINE FCPublish(w)    == Invoke(w, "FCPublish", 0, FALSE)
           CreateStream(w) == Invoke(w, "createStream", 0, TRUE)
<1>1. PICK a \in Invoke(u, "releaseStream", 0, FALSE) :
        \E b \in (IF a.recursion THEN {a} ELSE FCPublish(a)) :
          v \in (IF b.recursion THEN {b} ELSE CreateStream(b))
  BY DEF ResultOf, Then
<1>2. PICK b \in (IF a.recursion THEN {a} ELSE FCPublish(a)) :
        v \in (IF b.recursion THEN {b} ELSE CreateStream(b))
  BY <1>1
<1>3. /\ "releaseStream" \in Cmds /\ "FCPublish" \in Cmds /\ "createStream" \in Cmds
      /\ "createStream" \in Names
  BY DEF Cmds, Names
<1>4. /\ Place(Command("releaseStream")) = 4 /\ Place(Command("FCPublish")) = 5
      /\ Place(Command("createStream")) = 6
  BY <1>3, CommandOf, PlaceFacts
<1>5. /\ Dialog!Needs("releaseStream") \subseteq granted
      /\ Dialog!Needs("FCPublish") \subseteq granted
      /\ Dialog!Needs("createStream") \subseteq granted
  BY NeedsOf
<1>6. /\ On(n, Command("releaseStream")) = 4 /\ Link(3, 4)
      /\ On(4, Command("FCPublish")) = 5 /\ Link(4, 5) /\ Link(5, 6)
      /\ 4 \in 0..10 /\ 5 \in 0..10 /\ 6 \in 0..10 /\ 0 \in Int
  BY <1>4 DEF On, Link
<1>7. Lost(a) \/ (Pen(a, 4) /\ Sane(a) /\ a.calls = <<>> /\ Alike(u, a))
  <2>1. peer => Link(n, Place(Command("releaseStream")))
    BY <1>4, <1>6
  <2>2. Place(Command("releaseStream")) # 0 /\ "releaseStream" \notin {"media", "spsPps"}
    BY <1>4
  <2>3. Lost(a) \/ Told(u, a, On(n, Command("releaseStream")))
    BY <1>1, <1>3, <1>5, <1>6, <2>1, <2>2, Tells
  <2> QED
    BY <1>6, <2>3 DEF Sane, Alike, Told
<1>8. Lost(b) \/ (Pen(b, 5) /\ Sane(b) /\ b.calls = <<>> /\ Alike(u, b))
  <2>1. CASE Lost(a)
    <3>1. CASE a.recursion
      BY <1>2, <2>1, <3>1
    <3>2. CASE ~a.recursion
      <4>1. b \in Invoke(a, "FCPublish", 0, FALSE) /\ FALSE \in BOOLEAN
        BY <1>2, <3>2
      <4> QED
        BY <1>3, <1>6, <2>1, <3>2, <4>1, LostGoes
    <3> QED
      BY <3>1, <3>2
  <2>2. CASE Pen(a, 4) /\ Sane(a) /\ a.calls = <<>> /\ Alike(u, a)
    <3>1. ~a.recursion
      BY <2>2 DEF Pen, Sane
    <3>2. b \in Invoke(a, "FCPublish", 0, FALSE)
      BY <1>2, <3>1
    <3>3. Link(4, Place(Command("FCPublish")))
      BY <1>4, <1>6
    <3>4. Place(Command("FCPublish")) # 0 /\ "FCPublish" \notin {"media", "spsPps"}
      BY <1>4
    <3>5. Lost(b) \/ Told(a, b, On(4, Command("FCPublish")))
      BY <1>3, <1>5, <1>6, <2>2, <3>2, <3>3, <3>4, Tells
    <3> QED
      BY <1>6, <2>2, <3>5 DEF Sane, Alike, Told
  <2> QED
    BY <1>7, <2>1, <2>2
<1>9. CASE Lost(b)
  <2>1. CASE b.recursion
    BY <1>2, <1>9, <2>1
  <2>2. CASE ~b.recursion
    <3>1. v \in Invoke(b, "createStream", 0, TRUE) /\ TRUE \in BOOLEAN
      BY <1>2, <2>2
    <3> QED
      BY <1>3, <1>6, <1>9, <2>2, <3>1, LostGoes
  <2> QED
    BY <2>1, <2>2
<1>10. CASE Pen(b, 5) /\ Sane(b) /\ b.calls = <<>> /\ Alike(u, b)
  <2>1. ~b.recursion
    BY <1>10 DEF Pen, Sane
  <2>2. v \in Invoke(b, "createStream", 0, TRUE)
    BY <1>2, <2>1
  <2>3. Link(5, Place(Command("createStream")))
    BY <1>4, <1>6
  <2>4. Lost(v) \/ Asked(b, v, "createStream")
    BY <1>3, <1>5, <1>6, <1>10, <2>2, <2>3, Asks
  <2>5. CASE Asked(b, v, "createStream")
    <3>1. b.stream \notin streams
      BY <1>10 DEF Alike
    <3>2. Sane(v) /\ DOMAIN v.calls = {1}
      BY <1>3, <1>10, <2>5, <3>1, SaneAsked
    <3>3. Pen(v, 6) /\ v.calls[1].name = "createStream" /\ v.stream \notin streams
      BY <1>4, <2>5, <3>1 DEF Asked, Alike
    <3>4. Reached(v, "stream", 6)
      BY <3>2, <3>3 DEF Reached
    <3> QED
      BY <1>6, <3>2, <3>3, <3>4 DEF Held
  <2> QED
    BY <2>4, <2>5
<1> QED
  BY <1>8, <1>9, <1>10

LEMMA CreateResult ==
  ASSUME Ready, streams \subseteq StreamIds, "stream" \in granted,
         NEW u, NEW n \in 0..10, Pen(u, n), u.calls = <<>>, ~u.recursion, ~u.playing,
         NEW p, p.id \in streams,
         peer => n = 6, NEW v \in ResultOf(u, "createStream", p)
  PROVE  Lost(v) \/ \E k \in 0..10 : Held(v, k)
<1> DEFINE w == [u EXCEPT !.stream = p.id]
<1>1. u \in Handles /\ u.sock = "open" /\ p.id \in Int
  BY Granted DEF Pen
<1>2. /\ w \in Handles /\ w.sock = "open" /\ w.out = u.out /\ w.invokes = u.invokes
      /\ w.calls = <<>> /\ ~w.recursion /\ ~w.playing /\ w.stream = p.id
  BY <1>1 DEF Handles
<1>3. v \in Invoke(w, "publish", p.id, TRUE)
  BY DEF ResultOf
<1> HIDE DEF w
<1>4. Pen(w, n)
  BY <1>2, PenQuiet
<1>5. Sane(w)
  BY <1>2, SaneIdle
<1>6. "publish" \in Names /\ "publish" \in Cmds
  BY DEF Names, Cmds
<1>7. Place(Command("publish")) = 7
  BY <1>6, CommandOf, PlaceFacts
<1>8. peer => Link(n, Place(Command("publish")))
  BY <1>7 DEF Link
<1>9. Dialog!Needs("publish") \subseteq granted
  BY NeedsOf
<1>10. Lost(v) \/ Asked(w, v, "publish")
  BY <1>1, <1>2, <1>3, <1>4, <1>5, <1>6, <1>8, <1>9, Asks
<1>11. CASE Asked(w, v, "publish")
  <2>1. Sane(v) /\ DOMAIN v.calls = {1}
    BY <1>2, <1>5, <1>6, <1>11, SaneAsked
  <2>2. Pen(v, 7) /\ v.calls[1].name = "publish" /\ v.stream \in streams
    BY <1>2, <1>7, <1>11 DEF Asked, Alike
  <2>3. Reached(v, "stream", 7)
    BY <2>1, <2>2 DEF Reached
  <2>4. 7 \in 0..10
    OBVIOUS
  <2> QED
    BY <2>1, <2>2, <2>3, <2>4 DEF Held
<1> QED
  BY <1>10, <1>11

(* A change of an open handle that writes nothing.                         *)
LEMMA HeldQuiet ==
  ASSUME NEW s, NEW n \in 0..10, Held(s, n),
         NEW v \in Handles, v.sock = "open", v.out = s.out, v.invokes = s.invokes,
         v.stream = s.stream, ~v.recursion,
         v.calls \in {s.calls, <<>>},
         v.playing = s.playing \/ (s.stream \in streams /\ "published" \in granted)
  PROVE  Held(v, n)
<1>1. Pen(s, n) /\ Sane(s) /\ s.sock = "open" /\ (peer => Reached(s, "stream", n))
  BY DEF Held, Pen
<1>2. Pen(v, n)
  BY <1>1, PenQuiet
<1>3. CASE v.calls = s.calls
  <2>1. Sane(v)
    BY <1>1, <1>3 DEF Sane
  <2>2. peer => Reached(v, "stream", n)
    BY <1>1, <1>3 DEF Reached
  <2> QED
    BY <1>2, <2>1, <2>2 DEF Held
<1>4. CASE v.calls = <<>>
  <2>1. Sane(v)
    BY <1>1, <1>4 DEF Sane
  <2>2. peer => Reached(v, "stream", n)
    BY <1>1, <1>4 DEF Reached
  <2> QED
    BY <1>2, <2>1, <2>2 DEF Held
<1> QED
  BY <1>3, <1>4

LEMMA ResultHolds ==
  ASSUME ClientInv, NEW n \in 0..10, Held(h, n), toClient # <<>>,
         NEW p, p = toClient[1], p.kind = "result", NEW v \in HandleResult(h, p)
  PROVE  Lost(v) \/ \E k \in 0..10 : Held(v, k)
<1> DEFINE hits == {i \in DOMAIN h.calls : h.calls[i].txn = p.txn}
           u == [h EXCEPT !.calls = Erase(@, hits)]
<1>1. /\ h \in Handles /\ Ready /\ streams \subseteq StreamIds /\ Sane(h) /\ h.sock = "open"
      /\ ~h.recursion /\ Pen(h, n) /\ (peer => Reached(h, "stream", n))
  BY ReadyNow DEF Held, Pen, Sane
<1>2. CASE hits = {}
  <2>1. v = h
    BY <1>2 DEF HandleResult
  <2> QED
    BY <2>1
<1>3. CASE hits # {}
  <2>1. h.calls \in Seq([name : Names, txn : Nat]) /\ Len(h.calls) <= 1
    BY <1>1 DEF Handles, Sane
  <2>2. hits \in SUBSET DOMAIN h.calls
    OBVIOUS
  <2>3. Erase(h.calls, hits) = <<>> /\ Min(hits) = 1 /\ 1 \in hits
    <3> HIDE DEF hits
    <3> QED
      BY <1>3, <2>1, <2>2, EraseOf
  <2>4. 1 \in DOMAIN h.calls /\ h.calls[1].txn = p.txn /\ h.calls[1].name \in Names
    <3>1. 1 \in DOMAIN h.calls /\ h.calls[1].txn = p.txn
      BY <2>3
    <3>2. h.calls[1] \in [name : Names, txn : Nat]
      BY <2>1, <3>1, ElementOf, Zenon
    <3> QED
      BY <3>1, <3>2
  <2>5. u = [h EXCEPT !.calls = <<>>]
    BY <2>3
  <2>6. v \in ResultOf(u, h.calls[1].name, p)
    BY <1>3, <2>3 DEF HandleResult
  <2> HIDE DEF hits, u
  <2>7. /\ u \in Handles /\ u.sock = "open" /\ u.out = h.out /\ u.invokes = h.invokes
        /\ u.stream = h.stream /\ u.playing = h.playing /\ u.recursion = h.recursion
        /\ u.calls = <<>>
    <3>1. <<>> \in Seq([name : Names, txn : Nat])
      OBVIOUS
    <3> QED
      BY <1>1, <2>5, <3>1 DEF Handles
  <2>8. Held(u, n)
    BY <1>1, <2>7, HeldQuiet
  <2>9. Pen(u, n) /\ Sane(u)
    BY <2>8 DEF Held
  <2>10. Fits(h.calls[1].name, p)
    <3>1. Matched(h, toServer) /\ 1 \in DOMAIN toClient
      BY <1>1 DEF ClientInv, Ready
    <3> QED
      BY <1>1, <2>4, <3>1 DEF Matched
  <2>11. CASE h.calls[1].name = "connect"
    <3>1. u.stream \notin streams
      <4>1. h.stream \notin streams
        BY <1>1, <2>4, <2>11 DEF Sane
      <4> QED
        BY <2>7, <4>1
    <3>2. peer => n = 3
      BY <1>1, <2>4, <2>11 DEF Reached
    <3>3. "connected" \in granted /\ v \in ResultOf(u, "connect", p)
      BY <2>6, <2>10, <2>11 DEF Fits
    <3> QED
      BY <1>1, <2>7, <2>9, <3>1, <3>2, <3>3, ConnectResult
  <2>12. CASE h.calls[1].name = "createStream"
    <3>1. ~u.playing
      BY <1>1, <2>4, <2>7, <2>12 DEF Sane
    <3>2. peer => n = 6
      BY <1>1, <2>4, <2>12 DEF Reached
    <3>3. "stream" \in granted /\ p.id \in streams /\ v \in ResultOf(u, "createStream", p)
      BY <2>6, <2>10, <2>12 DEF Fits
    <3> QED
      BY <1>1, <2>7, <2>9, <3>1, <3>2, <3>3, CreateResult
  <2>13. CASE h.calls[1].name = "publish"
    <3>1. v = [u EXCEPT !.playing = TRUE]
      BY <2>6, <2>13 DEF ResultOf
    <3>2. u.stream \in streams /\ "published" \in granted
      BY <1>1, <2>4, <2>7, <2>10, <2>13 DEF Sane, Fits
    <3>3. /\ v \in Handles /\ v.sock = "open" /\ v.out = u.out /\ v.invokes = u.invokes
          /\ v.stream = u.stream /\ ~v.recursion /\ v.calls = u.calls
      BY <1>1, <2>7, <3>1 DEF Handles
    <3>4. Held(v, n)
      BY <2>8, <3>2, <3>3, HeldQuiet
    <3> QED
      BY <3>4
  <2> QED
    BY <2>4, <2>11, <2>12, <2>13 DEF Names
<1> QED
  BY <1>2, <1>3

(* Where a round of RTMP_ConnectStream leaves the thread.                  *)
Ends(v) == IF v.playing THEN "open" ELSE IF v.sock = "none" THEN "failed" ELSE "stream"

LEMMA EndsWell ==
  ASSUME Line(toServer), NEW v, Lost(v) \/ \E k \in 0..10 : Held(v, k)
  PROVE  Good(v, Ends(v))
<1>1. Ends(v) \notin {"S0S1", "S2"} /\ Phases(v, Ends(v))
  BY DEF Ends, Phases
<1> QED
  BY <1>1, LostGood, HeldGood

LEMMA PacketHolds ==
  ASSUME ClientInv, phase = "stream", ~h.recursion, toClient # <<>>,
         NEW p, p = toClient[1], NEW v \in HandlePacket(h, p)
  PROVE  Good(v, Ends(v))
<1>1. /\ h \in Handles /\ Ready /\ streams \subseteq StreamIds /\ Sane(h) /\ Line(toServer)
      /\ h.out = <<>> /\ Sent(h) = toServer /\ h.sock = "open" /\ Known
  <2>1. h.sock # "none" /\ h.sock # "dead"
    BY ReadyNow DEF ClientInv, Phases, Sane
  <2> QED
    BY <2>1, ReadyNow DEF Handles, ClientInv
<1>2. PICK n \in 0..10 : Held(h, n)
  BY <1>1, HeldNow
<1>3. Pen(h, n)
  BY <1>2 DEF Held
<1>4. 1 \in DOMAIN toClient /\ heard > 0
  BY <1>1 DEF Ready, Known
<1>5. /\ "pong" \in Cmds /\ "_checkbw" \in Cmds /\ "bwresult" \in Cmds
  BY DEF Cmds
<1>6. /\ Place(Command("pong")) = 0 /\ Place(Command("_checkbw")) = 0
      /\ Place(Command("bwresult")) = 0
  <2>1. /\ Command("pong").cmd = "pong" /\ Command("_checkbw").cmd = "_checkbw"
        /\ Command("bwresult").cmd = "bwresult"
    BY DEF Command
  <2>2. \A m : Place(m) \in 0..10
    BY PlaceFacts
  <2>3. ASSUME NEW m, m.cmd \in {"pong", "_checkbw", "bwresult"}
        PROVE  Place(m) = 0
    BY <2>3, PlaceFacts
  <2> QED
    BY <2>1, <2>3
<1>7. CASE p.kind = "result"
  <2>1. v \in HandleResult(h, p)
    BY <1>7 DEF HandlePacket
  <2> QED
    BY <1>1, <1>2, <1>7, <2>1, ResultHolds, EndsWell
<1>8. CASE p.kind = "start"
  <2> DEFINE publishes == {i \in DOMAIN h.calls : h.calls[i].name = "publish"}
             rest == Erase(h.calls, publishes)
  <2>1. v = [h EXCEPT !.playing = TRUE, !.calls = rest]
    BY <1>8 DEF HandlePacket
  <2>2. rest \in {h.calls, <<>>}
    <3>1. publishes \in SUBSET DOMAIN h.calls
      OBVIOUS
    <3>2. h.calls \in Seq([name : Names, txn : Nat]) /\ Len(h.calls) <= 1
      BY <1>1 DEF Handles, Sane
    <3> HIDE DEF publishes
    <3> QED
      BY <3>1, <3>2, EraseOf
  <2>3. heard >= 7 /\ "published" \in granted
    BY <1>1, <1>4, <1>8 DEF Known
  <2>4. h.stream \in streams
    BY <1>1, <2>3 DEF Sane
  <2> HIDE DEF rest
  <2>5. rest \in Seq([name : Names, txn : Nat])
    <3>1. h.calls \in Seq([name : Names, txn : Nat])
      BY <1>1 DEF Handles
    <3>2. <<>> \in Seq([name : Names, txn : Nat])
      OBVIOUS
    <3> QED
      BY <2>2, <3>1, <3>2, Zenon
  <2>6. /\ v \in Handles /\ v.sock = "open" /\ v.out = h.out /\ v.invokes = h.invokes
        /\ v.stream = h.stream /\ ~v.recursion
    BY <1>1, <2>1, <2>5 DEF Handles
  <2>7. v.calls = rest
    BY <1>1, <2>1 DEF Handles
  <2>8. Held(v, n)
    BY <1>2, <2>2, <2>3, <2>4, <2>6, <2>7, HeldQuiet
  <2> QED
    BY <1>1, <2>8, EndsWell
<1>9. CASE p.kind = "failed"
  <2> DEFINE s == [h EXCEPT !.stream = NoStream]
  <2>1. v \in Close(s)
    BY <1>9 DEF HandlePacket
  <2>2. /\ s \in Handles /\ ~s.recursion /\ s.sock = "open" /\ s.stream = NoStream
        /\ s.out = <<>>
    <3>1. NoStream \in Int
      BY DEF NoStream
    <3>2. s \in Handles
      BY <1>1, <3>1 DEF Handles
    <3> QED
      BY <1>1, <3>2 DEF Handles
  <2> HIDE DEF s
  <2>3. v \in Handles /\ Shut(v) /\ v.out = <<>>
    BY <2>1, <2>2, CloseOf DEF NoStream
  <2>4. Line(Sent(v)) /\ (peer => Upto(n, Sent(v))) /\ gaveUp
    <3>1. Sent(v) = toServer
      BY <1>1, <2>3 DEF Sent
    <3>2. gaveUp
      BY <1>1, <1>4, <1>9 DEF Known
    <3> QED
      BY <1>1, <1>3, <3>1, <3>2 DEF Pen
  <2>5. Ends(v) = "failed"
    BY <2>3 DEF Ends, Shut
  <2> QED
    BY <2>3, <2>4, <2>5, ShutGood
<1>10. CASE p.kind = "close"
  <2>1. v \in Close(h)
    BY <1>10 DEF HandlePacket
  <2>2. Ends(v) \notin {"S0S1", "S2"} /\ (Ends(v) = "stream" => v.sock # "none")
    BY DEF Ends
  <2> QED
    BY <1>1, <1>2, <2>1, <2>2, CloseGood
<1>11. ASSUME NEW s, NEW k \in 0..10, Held(s, k), NEW w, Lost(w) \/ Told(s, w, k)
       PROVE  Good(w, Ends(w))
  <2>1. CASE Told(s, w, k)
    <3>1. Pen(w, k) /\ Alike(s, w) /\ w.calls = s.calls
      BY <2>1 DEF Told
    <3>2. Sane(w)
      BY <1>11, <3>1 DEF Held, Sane, Alike
    <3>3. peer => Reached(w, "stream", k)
      BY <1>11, <3>1 DEF Held, Reached, Alike
    <3>4. Held(w, k)
      BY <3>1, <3>2, <3>3 DEF Held
    <3> QED
      BY <1>1, <3>4, EndsWell
  <2> QED
    BY <1>1, <1>11, <2>1, EndsWell
<1>12. CASE p.kind = "ping"
  <2>1. v \in WriteN(h, Command("pong"))
    BY <1>12 DEF HandlePacket
  <2>2. /\ Command("pong") \in Messages /\ Command("pong").txn = 0
        /\ Command("pong").cmd = "pong"
    BY <1>5, CommandOf
  <2>3. Dialog!Needs(Command("pong").cmd) \subseteq granted /\ On(n, Command("pong")) = n
    BY <1>6, <2>2, NeedsOf DEF On
  <2>4. Lost(v) \/ Told(h, v, On(n, Command("pong")))
    <3>1. /\ Place(Command("pong")) = 0 => heard > 0
          /\ peer /\ Place(Command("pong")) > 0 => Link(n, Place(Command("pong")))
          /\ Founded(Command("pong"))
      BY <1>4, <1>6, <2>2 DEF Founded
    <3>2. Ready /\ Sane(h) /\ Pen(h, n)
      BY <1>1, <1>3
    <3> QED
      BY <2>1, <2>2, <2>3, <3>1, <3>2, Writes, Zenon
  <2> QED
    BY <1>2, <1>11, <2>3, <2>4
<1>13. CASE p.kind = "onBWDone"
  <2>1. CASE h.bw = 0
    <3>1. v \in Invoke(h, "_checkbw", 0, FALSE)
      BY <1>13, <2>1 DEF HandlePacket
    <3>2. Dialog!Needs("_checkbw") \subseteq granted /\ On(n, Command("_checkbw")) = n
      BY <1>6, NeedsOf DEF On
    <3>3. Place(Command("_checkbw")) = 0 /\ ~(Place(Command("_checkbw")) > 0)
      BY <1>6
    <3>4. Lost(v) \/ Told(h, v, On(n, Command("_checkbw")))
      <4>1. /\ Place(Command("_checkbw")) = 0 => heard > 0
            /\ peer /\ Place(Command("_checkbw")) > 0 => Link(n, Place(Command("_checkbw")))
        BY <1>4, <3>3
      <4>2. 0 \in Int /\ "_checkbw" \notin {"media", "spsPps"} /\ Ready /\ Sane(h)
        BY <1>1
      <4> QED
        BY <1>3, <1>5, <3>1, <3>2, <4>1, <4>2, Tells, Zenon
    <3> QED
      BY <1>2, <1>11, <3>2, <3>4
  <2>2. CASE h.bw # 0
    <3>1. v = h
      BY <1>13, <2>2 DEF HandlePacket
    <3> QED
      BY <1>1, <1>2, <3>1, EndsWell
  <2> QED
    BY <2>1, <2>2
<1>14. CASE p.kind = "onbwcheck"
  <2> DEFINE s == [h EXCEPT !.bw = @ + 1]
  <2>1. v \in WriteN(s, Command("bwresult"))
    BY <1>14 DEF HandlePacket
  <2>2. h.bw + 1 \in Nat
    BY <1>1 DEF Handles
  <2>3. s \in Handles
    BY <1>1, <2>2 DEF Handles
  <2>4. /\ s.sock = "open" /\ s.out = h.out /\ s.invokes = h.invokes
        /\ s.stream = h.stream /\ ~s.recursion /\ s.calls = h.calls /\ s.playing = h.playing
    BY <1>1 DEF Handles
  <2> HIDE DEF s
  <2>5. Held(s, n)
    BY <1>2, <2>3, <2>4, HeldQuiet
  <2>6. /\ Command("bwresult") \in Messages /\ Command("bwresult").txn = 0
        /\ Command("bwresult").cmd = "bwresult"
    BY <1>5, CommandOf
  <2>7. Dialog!Needs(Command("bwresult").cmd) \subseteq granted
        /\ On(n, Command("bwresult")) = n
    BY <1>6, <2>6, NeedsOf DEF On
  <2>8. Pen(s, n) /\ Sane(s)
    BY <2>5 DEF Held
  <2>9. Lost(v) \/ Told(s, v, On(n, Command("bwresult")))
    <3>1. /\ Place(Command("bwresult")) = 0 => heard > 0
          /\ peer /\ Place(Command("bwresult")) > 0 => Link(n, Place(Command("bwresult")))
          /\ Founded(Command("bwresult"))
      BY <1>4, <1>6, <2>6 DEF Founded
    <3>2. Ready /\ Sane(s) /\ Pen(s, n)
      BY <1>1, <2>8
    <3> QED
      BY <2>1, <2>6, <2>7, <3>1, <3>2, Writes, Zenon
  <2> QED
    BY <1>11, <2>5, <2>7, <2>9
<1>15. CASE p.kind \notin {"result", "start", "failed", "close", "ping", "onBWDone",
                           "onbwcheck"}
  <2>1. v = h
    BY <1>15 DEF HandlePacket
  <2> QED
    BY <1>1, <1>2, <2>1, EndsWell
<1> QED
  BY <1>7, <1>8, <1>9, <1>10, <1>12, <1>13, <1>14, <1>15

LEMMA ReadKeeps ==
  ASSUME ClientInv, ReadPacket
  PROVE  ClientInv'
<1>1. /\ phase = "stream" /\ ~h.recursion /\ toClient # <<>> /\ toClient' = Tail(toClient)
      /\ media' = media /\ peer' = peer /\ UNCHANGED serverVars
  BY DEF ReadPacket, Runs
<1>2. PICK v \in HandlePacket(h, Head(toClient)) : Becomes(v) /\ phase' = Ends(v)
  BY DEF ReadPacket, Ends
<1>3. Head(toClient) = toClient[1] /\ media \in Nat
  <2>1. toClient \in Seq(Packets) /\ media \in Nat
    BY DEF ClientInv, ClientTypeOK
  <2> QED
    BY <1>1, <2>1
<1>4. Good(v, phase')
  BY <1>1, <1>2, <1>3, PacketHolds
<1>5. phase' \in {"open", "failed", "stream"}
  BY <1>2 DEF Ends
<1> QED
  BY <1>1, <1>2, <1>3, <1>4, <1>5, ClientMoves

(* A handle that is closed already is closed again.                        *)
LEMMA NoneGood ==
  ASSUME ClientInv, h.sock = "none", NEW v \in Handles, Shut(v), v.out = <<>>,
         NEW ph \in {"open", "failed", "closed"}
  PROVE  Good(v, ph)
<1>1. Line(toServer) /\ h.out = <<>> /\ Sent(h) = toServer /\ Spoken(h, phase, toServer)
  BY ReadyNow DEF ClientInv
<1>2. Sent(v) = toServer
  BY <1>1 DEF Sent
<1>3. CASE peer
  <2>1. PICK n \in 0..10 : Upto(n, toServer) /\ (~gaveUp => n <= 6 \/ n = 10)
    BY <1>1, <1>3 DEF Spoken
  <2> QED
    BY <1>1, <1>2, <2>1, ShutGood
<1>4. CASE ~peer
  <2>1. 0 \in 0..10
    OBVIOUS
  <2> QED
    BY <1>1, <1>2, <1>4, <2>1, ShutGood
<1> QED
  BY <1>3, <1>4

LEMMA ClosedGood ==
  ASSUME ClientInv, ~h.recursion, NEW v \in Close(h), NEW ph \in {"open", "failed", "closed"}
  PROVE  Good(v, ph) /\ (ph = "closed" => v.sock # "open")
<1>1. /\ h \in Handles /\ Ready /\ streams \subseteq StreamIds /\ Sane(h) /\ Line(toServer)
      /\ h.out = <<>>
  BY ReadyNow
<1>2. h.sock = "none" \/ h.sock = "open"
  BY <1>1 DEF Sane, Handles
<1>3. CASE h.sock = "none"
  <2>1. v \in Handles /\ Shut(v) /\ v.out = h.out
    BY <1>1, <1>3, CloseOf
  <2> QED
    BY <1>1, <1>3, <2>1, NoneGood DEF Shut
<1>4. CASE h.sock = "open"
  <2>1. PICK n \in 0..10 : Held(h, n)
    BY <1>4, HeldNow
  <2>2. Good(v, ph)
    BY <1>1, <2>1, CloseGood
  <2>3. v.sock # "open"
    BY <1>1, <1>4, CloseOf DEF Shut
  <2> QED
    BY <2>2, <2>3
<1> QED
  BY <1>2, <1>3, <1>4

LEMMA FailsKeeps ==
  ASSUME ClientInv, ReadFails
  PROVE  ClientInv'
<1>1. /\ phase \in {"S0S1", "S2", "stream"} /\ ~h.recursion /\ toClient' = toClient
      /\ media' = media /\ peer' = peer /\ UNCHANGED serverVars /\ phase' = "failed"
      /\ media \in Nat
  BY DEF ReadFails, Runs, ClientInv, ClientTypeOK
<1>2. \/ phase = "stream" /\ UNCHANGED <<h, toServer>>
      \/ \E s \in Close(h) : Becomes(s)
  BY DEF ReadFails
<1>3. CASE phase = "stream" /\ UNCHANGED <<h, toServer>>
  <2>1. h \in Handles /\ h.out = <<>> /\ Sent(h) = toServer
    BY ReadyNow
  <2>2. Becomes(h)
    <3>1. h = [h EXCEPT !.out = <<>>]
      BY <2>1 DEF Handles
    <3> QED
      BY <1>3, <2>1, <3>1 DEF Becomes, Sent
  <2>3. h.sock = "open"
    <3>1. h.sock # "none" /\ h.sock # "dead"
      BY <1>1, <1>3 DEF ClientInv, Phases, Sane
    <3> QED
      BY <2>1, <3>1 DEF Handles
  <2>4. PICK n \in 0..10 : Held(h, n)
    BY <2>3, HeldNow
  <2>5. Phases(h, phase')
    BY <1>1 DEF Phases
  <2>6. Good(h, phase')
    BY <1>1, <2>4, <2>5, HeldGood
  <2> QED
    BY <1>1, <2>2, <2>6, ClientMoves
<1>4. CASE \E s \in Close(h) : Becomes(s)
  <2>1. PICK s \in Close(h) : Becomes(s)
    BY <1>4
  <2>2. Good(s, phase')
    BY <1>1, <2>1, ClosedGood
  <2> QED
    BY <1>1, <2>1, <2>2, ClientMoves
<1> QED
  BY <1>2, <1>3, <1>4

LEMMA CloseKeeps ==
  ASSUME ClientInv, CloseHandle
  PROVE  ClientInv'
<1>1. /\ ~h.recursion /\ toClient' = toClient /\ media' = media /\ peer' = peer
      /\ UNCHANGED serverVars /\ phase' = "closed" /\ media \in Nat
  BY DEF CloseHandle, Runs, ClientInv, ClientTypeOK
<1>2. PICK s \in Close(h) : Becomes(s)
  BY DEF CloseHandle
<1>3. Good(s, phase')
  BY <1>1, <1>2, ClosedGood
<1> QED
  BY <1>1, <1>2, <1>3, ClientMoves

LEMMA SendKeeps ==
  ASSUME ClientInv, NEW name \in {"media", "spsPps"}, NEW stream \in Int,
         name = "media" => stream = h.stream, Send(name, stream)
  PROVE  ClientInv'
<1> DEFINE m == [cmd |-> name, txn |-> 0, id |-> stream]
<1>1. /\ ~h.recursion /\ phase = "open" /\ phase' = "open" /\ toClient' = toClient
      /\ media' \in Nat /\ peer' = peer /\ UNCHANGED serverVars
  BY DEF Send, Runs, ClientInv, ClientTypeOK
<1>2. PICK v \in WriteN(h, m) : Becomes(v)
  BY DEF Send
<1>3. /\ h \in Handles /\ Ready /\ streams \subseteq StreamIds /\ Sane(h) /\ Line(toServer)
      /\ h.out = <<>>
  BY ReadyNow
<1>4. /\ m \in Messages /\ m.cmd \in {"media", "spsPps"} /\ m.txn = 0
      /\ m.cmd = "media" => m.id = h.stream
  <2>1. name \in Cmds
    BY DEF Cmds
  <2> QED
    BY <2>1 DEF Messages
<1> HIDE DEF m
<1>5. h.sock = "none" \/ h.sock = "open"
  BY <1>1, <1>3 DEF Sane, Handles
<1>6. CASE h.sock = "none"
  <2>1. v \in Handles /\ Shut(v) /\ v.out = <<>>
    BY <1>1, <1>2, <1>3, <1>4, <1>6, WriteOf DEF Fails
  <2>2. Good(v, phase')
    BY <1>1, <1>6, <2>1, NoneGood
  <2> QED
    BY <1>1, <1>2, <2>2, ClientMoves
<1>7. CASE h.sock = "open"
  <2>1. PICK n \in 0..10 : Held(h, n)
    BY <1>7, HeldNow
  <2>2. h.playing /\ h.stream \in streams /\ "published" \in granted
    BY <1>1, <1>3, <1>7 DEF ClientInv, Phases, Sane
  <2>3. peer => n \in {7, 8}
    BY <2>1, <2>2 DEF Held, Reached
  <2>4. Place(m) = 8
    BY <1>4, PlaceFacts
  <2>5. On(n, m) = 8 /\ (peer => Link(n, Place(m)))
    BY <2>3, <2>4 DEF On, Link
  <2>6. Dialog!Needs(m.cmd) \subseteq granted
    BY <1>4, <2>2, NeedsOf
  <2>7. Pen(h, n)
    BY <2>1 DEF Held
  <2>8. Lost(v) \/ Told(h, v, On(n, m))
    <3>1. Place(m) = 0 => heard > 0
      BY <2>4
    <3>2. Founded(m)
      BY <1>4, <2>2 DEF Founded
    <3> QED
      BY <1>2, <1>3, <1>4, <2>5, <2>6, <2>7, <3>1, <3>2, Writes
  <2>9. CASE Lost(v)
    <3>1. Good(v, phase')
      BY <1>1, <1>3, <2>9, LostPhase
    <3> QED
      BY <1>1, <1>2, <3>1, ClientMoves
  <2>10. CASE Told(h, v, 8)
    <3>1. Pen(v, 8) /\ Alike(h, v) /\ v.calls = h.calls
      BY <2>10 DEF Told
    <3>2. Sane(v)
      BY <1>3, <3>1 DEF Sane, Alike
    <3>3. peer => Reached(v, phase', 8)
      BY <1>1, <2>1, <2>2, <2>3, <3>1 DEF Held, Reached, Alike
    <3>4. Phases(v, phase')
      BY <1>1, <2>2, <3>1 DEF Phases, Alike
    <3>5. 8 \in 0..10
      OBVIOUS
    <3>6. Good(v, phase')
      BY <3>1, <3>2, <3>3, <3>4, <3>5, PenGood
    <3> QED
      BY <1>1, <1>2, <3>6, ClientMoves
  <2> QED
    BY <2>5, <2>8, <2>9, <2>10
<1> QED
  BY <1>5, <1>6, <1>7

LEMMA MediaKeeps ==
  ASSUME ClientInv, SendMedia \/ SendSpsPps
  PROVE  ClientInv'
<1>1. CASE SendMedia
  <2>1. h.stream \in Int
    BY DEF ClientInv, ClientTypeOK, Handles
  <2> QED
    BY <1>1, <2>1, SendKeeps DEF SendMedia
<1>2. CASE SendSpsPps
  <2>1. PICK stream \in Garbage : Send("spsPps", stream)
    BY <1>2 DEF SendSpsPps
  <2>2. stream \in Int
    BY ClientAssumption
  <2> QED
    BY <2>1, <2>2, SendKeeps
<1> QED
  BY <1>1, <1>2

-----------------------------------------------------------------------------
(* The steps of the server.                                                *)

(* What an answer says of the command it answers.                          *)
Suits(m, r) ==
  /\ r.sends \in Seq(Packets) /\ r.grants \subseteq Dialog!Answers
  /\ m.cmd = "C0C1" => {"S0S1", "S2"} \subseteq r.grants
  /\ \A i \in DOMAIN r.sends :
       /\ r.sends[i].txn \in {0, m.txn}
       /\ r.sends[i].id # 0 => r.sends[i].id \in StreamIds
       /\ r.sends[i].kind = "failed" => r.sends[i] = Packet("failed")
       /\ r.sends[i].kind = "start" => m.cmd = "publish" /\ "published" \in r.grants
       /\ r.sends[i].kind = "result" =>
            /\ m.cmd = "connect" => "connected" \in r.grants
            /\ m.cmd = "createStream" =>
                 "stream" \in r.grants /\ r.sends[i].id \in StreamIds
            /\ m.cmd = "publish" => "published" \in r.grants

LEMMA PacketOf ==
  ASSUME NEW k \in Kinds
  PROVE  /\ Packet(k) \in Packets /\ Packet(k).kind = k /\ Packet(k).txn = 0
         /\ Packet(k).id = 0
BY DEF Packet, Packets

LEMMA ResultMade ==
  ASSUME NEW txn \in Nat, NEW id \in Nat
  PROVE  /\ Result(txn, id) \in Packets /\ Result(txn, id).kind = "result"
         /\ Result(txn, id).txn = txn /\ Result(txn, id).id = id
BY DEF Result, Packets, Kinds

(* An answer of no packet, of one packet, of two.                          *)
LEMMA SuitsNone ==
  ASSUME NEW m, m.cmd # "C0C1"
  PROVE  Suits(m, Reply(<<>>, {}))
BY DEF Suits, Reply

LEMMA SuitsOne ==
  ASSUME NEW m, m.cmd # "C0C1", NEW p \in Packets, NEW g, g \subseteq Dialog!Answers,
         p.txn \in {0, m.txn}, p.id # 0 => p.id \in StreamIds,
         p.kind = "failed" => p = Packet("failed"),
         p.kind = "start" => m.cmd = "publish" /\ "published" \in g,
         p.kind = "result" =>
           /\ m.cmd = "connect" => "connected" \in g
           /\ m.cmd = "createStream" => "stream" \in g /\ p.id \in StreamIds
           /\ m.cmd = "publish" => "published" \in g
  PROVE  Suits(m, Reply(<<p>>, g))
<1> DEFINE r == Reply(<<p>>, g)
<1>1. r.sends = <<p>> /\ r.grants = g
  BY DEF Reply
<1>2. r.sends \in Seq(Packets) /\ \A i \in DOMAIN r.sends : r.sends[i] = p
  <2>1. <<p>> \in Seq(Packets) /\ \A i \in DOMAIN <<p>> : <<p>>[i] = p
    OBVIOUS
  <2> HIDE DEF r
  <2> QED
    BY <1>1, <2>1
<1> HIDE DEF r
<1>3. Suits(m, r)
  BY <1>1, <1>2 DEF Suits
<1> QED
  BY <1>3 DEF r

LEMMA RepliesOf ==
  ASSUME NEW m \in Messages, NEW r \in Replies(m)
  PROVE  Suits(m, r)
<1>0. /\ "S0S1" \in Kinds /\ "S2" \in Kinds /\ "error" \in Kinds /\ "failed" \in Kinds
      /\ "start" \in Kinds /\ "badName" \in Kinds /\ "onbwcheck" \in Kinds
      /\ m.txn \in Nat /\ StreamIds \subseteq Nat
  BY ClientAssumption DEF Kinds, Messages
<1>1. CASE m.cmd = "C0C1"
  <2> DEFINE a == Packet("S0S1")
             b == Packet("S2")
  <2>1. r = Reply(<<a, b>>, {"S0S1", "S2"})
    BY <1>1 DEF Replies
  <2>2. /\ a \in Packets /\ a.kind = "S0S1" /\ a.txn = 0 /\ a.id = 0
        /\ b \in Packets /\ b.kind = "S2" /\ b.txn = 0 /\ b.id = 0
    BY <1>0, PacketOf
  <2> HIDE DEF a, b
  <2>3. r.sends = <<a, b>> /\ r.grants = {"S0S1", "S2"}
    BY <2>1 DEF Reply
  <2>4. r.sends \in Seq(Packets) /\ \A i \in DOMAIN r.sends : r.sends[i] \in {a, b}
    BY <2>2, <2>3
  <2>5. r.grants \subseteq Dialog!Answers
    BY <2>3 DEF Dialog!Answers
  <2> QED
    BY <1>1, <2>2, <2>3, <2>4, <2>5 DEF Suits
<1>2. CASE m.cmd = "connect"
  <2>1. \/ r = Reply(<<Result(m.txn, 0)>>, {"connected"})
        \/ \E k \in {"error", "failed"} : r = Reply(<<Packet(k)>>, {})
    BY <1>2 DEF Replies
  <2>2. CASE r = Reply(<<Result(m.txn, 0)>>, {"connected"})
    <3>1. {"connected"} \subseteq Dialog!Answers
      BY DEF Dialog!Answers
    <3> QED
      BY <1>0, <1>2, <2>2, <3>1, ResultMade, SuitsOne
  <2>3. CASE \E k \in {"error", "failed"} : r = Reply(<<Packet(k)>>, {})
    BY <1>0, <1>2, <2>3, PacketOf, SuitsOne
  <2> QED
    BY <2>1, <2>2, <2>3
<1>3. CASE m.cmd \in {"releaseStream", "FCPublish"}
  <2>1. r = Reply(<<>>, {}) \/ r = Reply(<<Result(m.txn, 0)>>, {})
    BY <1>3 DEF Replies
  <2>2. CASE r = Reply(<<>>, {})
    BY <1>3, <2>2, SuitsNone
  <2>3. CASE r = Reply(<<Result(m.txn, 0)>>, {})
    BY <1>0, <1>3, <2>3, ResultMade, SuitsOne
  <2> QED
    BY <2>1, <2>2, <2>3
<1>4. CASE m.cmd = "createStream"
  <2>1. \/ r = Reply(<<Packet("error")>>, {})
        \/ \E id \in StreamIds : r = Reply(<<Result(m.txn, id)>>, {"stream"})
    BY <1>4 DEF Replies
  <2>2. CASE r = Reply(<<Packet("error")>>, {})
    BY <1>0, <1>4, <2>2, PacketOf, SuitsOne
  <2>3. CASE \E id \in StreamIds : r = Reply(<<Result(m.txn, id)>>, {"stream"})
    <3>1. PICK id \in StreamIds : r = Reply(<<Result(m.txn, id)>>, {"stream"})
      BY <2>3
    <3>2. {"stream"} \subseteq Dialog!Answers
      BY DEF Dialog!Answers
    <3> QED
      BY <1>0, <1>4, <3>1, <3>2, ResultMade, SuitsOne
  <2> QED
    BY <2>1, <2>2, <2>3
<1>5. CASE m.cmd = "publish"
  <2>1. \/ r = Reply(<<Packet("start")>>, {"published"})
        \/ r = Reply(<<Result(m.txn, 0)>>, {"published"})
        \/ \E k \in {"badName", "failed"} : r = Reply(<<Packet(k)>>, {})
    BY <1>5 DEF Replies
  <2>2. {"published"} \subseteq Dialog!Answers
    BY DEF Dialog!Answers
  <2>3. CASE r = Reply(<<Packet("start")>>, {"published"})
    BY <1>0, <1>5, <2>2, <2>3, PacketOf, SuitsOne
  <2>4. CASE r = Reply(<<Result(m.txn, 0)>>, {"published"})
    BY <1>0, <1>5, <2>2, <2>4, ResultMade, SuitsOne
  <2>5. CASE \E k \in {"badName", "failed"} : r = Reply(<<Packet(k)>>, {})
    BY <1>0, <1>5, <2>5, PacketOf, SuitsOne
  <2> QED
    BY <2>1, <2>3, <2>4, <2>5
<1>6. CASE m.cmd = "_checkbw"
  <2>1. r = Reply(<<Packet("onbwcheck")>>, {})
    BY <1>6 DEF Replies
  <2> QED
    BY <1>0, <1>6, <2>1, PacketOf, SuitsOne
<1>7. CASE m.cmd \notin {"C0C1", "connect", "releaseStream", "FCPublish", "createStream",
                          "publish", "_checkbw"}
  <2>1. r = Reply(<<>>, {})
    BY <1>7 DEF Replies
  <2> QED
    BY <1>7, <2>1, SuitsNone
<1> QED
  BY <1>1, <1>2, <1>3, <1>4, <1>5, <1>6, <1>7

(* The next command is the one that the dialog has next.                   *)
LEMMA HeadOf ==
  ASSUME ClientInv, peer, toServer # <<>>, NEW m, m = toServer[1]
  PROVE  /\ 1 \in DOMAIN toServer /\ m \in Messages
         /\ Dialog!Needs(StepOf(m)) \subseteq granted
         /\ Place(m) = 0 => heard > 0
         /\ Place(m) > 0 => Link(heard, Place(m))
<1>1. toServer \in Seq(Messages) /\ heard \in 0..10
  BY DEF ClientInv, ClientTypeOK
<1>2. 1 \in DOMAIN toServer /\ m \in Messages
  BY <1>1
<1>3. /\ Dialog!Needs(m.cmd) \subseteq granted /\ (Place(m) = 0 => heard > 0)
      /\ (Place(m) > 0 => Before(heard, Place(m))) /\ Founded(m)
  BY <1>2 DEF ClientInv, Line
<1>5. Dialog!Needs(StepOf(m)) \subseteq granted
  BY <1>3, NeedsOf DEF StepOf, Founded
<1>4. ASSUME Place(m) > 0
      PROVE  Link(heard, Place(m))
  <2> DEFINE p == Place(m)
  <2>1. p \in 1..10 /\ (p > heard \/ (heard = 8 /\ p = 8))
    <3>1. p \in 0..10
      BY PlaceFacts
    <3> QED
      BY <1>1, <1>3, <1>4, <3>1 DEF Before
  <2>2. PICK n \in 0..10 : Upto(n, toServer)
    BY DEF ClientInv, Spoken
  <2>3. p <= n
    BY <1>2, <2>2 DEF Upto
  <2>4. ASSUME NEW k \in 1..n, k # 8, k > heard, k < p
        PROVE  FALSE
    <3>1. PICK i \in DOMAIN toServer : Place(toServer[i]) = k
      BY <1>1, <2>2, <2>4 DEF Upto
    <3>2. i > 1
      <4>1. DOMAIN toServer = 1..Len(toServer) /\ Len(toServer) \in Nat
        BY <1>1
      <4>2. i # 1
        BY <2>1, <2>4, <3>1
      <4> QED
        BY <4>1, <4>2
    <3>3. Before(p, k)
      <4>1. Line(toServer)
        BY DEF ClientInv
      <4>2. Place(toServer[i]) > 0 /\ Place(toServer[1]) > 0 /\ 1 < i
        BY <1>4, <2>4, <3>1, <3>2
      <4>3. Before(Place(toServer[1]), Place(toServer[i]))
        BY <1>2, <3>1, <4>1, <4>2 DEF Line
      <4> QED
        BY <3>1, <4>3
    <3> QED
      BY <2>1, <2>4, <3>3 DEF Before
  <2> HIDE DEF p
  <2>5. p > heard => heard + 1 = p \/ heard + 1 = 8
    BY <1>1, <2>1, <2>3, <2>4
  <2>6. p > heard /\ heard + 1 = 8 /\ p # 8 => p = 9
    <3>1. ASSUME p > heard, heard + 1 = 8, p > 9
          PROVE  FALSE
      <4>1. 9 \in 1..n /\ 9 > heard /\ 9 < p /\ 9 # 8
        BY <1>1, <2>1, <2>3, <3>1
      <4> QED
        BY <2>4, <4>1
    <3> QED
      BY <1>1, <2>1, <3>1
  <2>7. p = heard + 1 \/ (heard = 8 /\ p = 8) \/ (heard = 7 /\ p = 9)
    BY <1>1, <2>1, <2>5, <2>6
  <2> QED
    BY <2>7 DEF Link, p
<1> QED
  BY <1>2, <1>3, <1>4, <1>5

(* Every element of t is one of q or of r.                                 *)
Made(t, q, r) ==
  \A i \in DOMAIN t : \/ \E j \in DOMAIN q : t[i] = q[j]
                     \/ \E j \in DOMAIN r : t[i] = r[j]

LEMMA ConcatOf ==
  ASSUME NEW S, NEW q \in Seq(S), NEW r \in Seq(S), NEW t, t = q \o r
  PROVE  t \in Seq(S) /\ Made(t, q, r)
<1>1. /\ t \in Seq(S) /\ Len(t) = Len(q) + Len(r) /\ Len(q) \in Nat /\ Len(r) \in Nat
      /\ DOMAIN t = 1..Len(t)
  OBVIOUS
<1>2. ASSUME NEW i \in 1..(Len(q) + Len(r))
      PROVE  (\E j \in DOMAIN q : t[i] = q[j]) \/ (\E j \in DOMAIN r : t[i] = r[j])
  <2>1. CASE i <= Len(q)
    <3>1. i \in DOMAIN q /\ t[i] = q[i]
      BY <2>1
    <3> QED
      BY <3>1
  <2>2. CASE i > Len(q)
    <3>1. i - Len(q) \in DOMAIN r /\ t[i] = r[i - Len(q)]
      BY <1>1, <2>2
    <3> QED
      BY <3>1
  <2> QED
    BY <1>1, <2>1, <2>2
<1> QED
  BY <1>1, <1>2 DEF Made

(* An open handle has a stream that the server granted, or none.           *)
LEMMA SaneGrows ==
  ASSUME Sane(h), peer, h' = h, peer' = peer, streams \subseteq streams', NoStream \notin streams',
         granted \subseteq granted', h.sock = "open" /\ heard' >= 7 => h.stream \in streams
  PROVE  Sane(h)' /\ (h.sock = "open" => (h.stream \in streams' <=> h.stream \in streams))
<1>1. h.sock = "open" => (h.stream \in streams' <=> h.stream \in streams)
  BY DEF Sane
<1> QED
  BY <1>1 DEF Sane

(* The server reads one command and answers it.                            *)
LEMMA ServerKeeps ==
  ASSUME ClientInv, ServerReads
  PROVE  ClientInv'
<1> DEFINE m == toServer[1]
<1>1. /\ peer /\ toServer # <<>> /\ toServer' = Tail(toServer)
      /\ h' = h /\ phase' = phase /\ media' = media /\ peer' = peer /\ chat' = chat
  BY DEF ServerReads, clientVars
<1>2. /\ ClientTypeOK /\ Line(toServer) /\ Matched(h, toServer) /\ Sane(h)
      /\ Spoken(h, phase, toServer) /\ Phases(h, phase) /\ Fresh /\ Known
  BY DEF ClientInv
<1>3. /\ toServer \in Seq(Messages) /\ toClient \in Seq(Packets) /\ heard \in 0..10
      /\ granted \subseteq Dialog!Answers /\ streams \subseteq StreamIds /\ gaveUp \in BOOLEAN
      /\ h \in Handles
  BY <1>2 DEF ClientTypeOK
<1>4. Head(toServer) = m
  BY <1>1, <1>3
<1>5. /\ 1 \in DOMAIN toServer /\ m \in Messages
      /\ (Place(m) = 0 => heard > 0) /\ (Place(m) > 0 => Link(heard, Place(m)))
  BY <1>1, HeadOf
<1>6. heard' = On(heard, m)
  BY <1>4 DEF ServerReads, On
<1>7. PICK r \in Replies(m) :
        /\ toClient' = toClient \o r.sends
        /\ granted' = granted \cup r.grants
        /\ streams' = streams \cup ({p.id : p \in Range(r.sends)} \ {0})
        /\ gaveUp' = (gaveUp \/ Packet("failed") \in Range(r.sends))
  BY <1>4 DEF ServerReads
<1> HIDE DEF m
<1>8. Suits(m, r)
  BY <1>5, <1>7, RepliesOf
<1>9. r.sends \in Seq(Packets) /\ \A i \in DOMAIN r.sends : r.sends[i] \in Range(r.sends)
  BY <1>8 DEF Suits, Range
<1>10. /\ heard' \in 0..10 /\ heard <= heard' /\ heard' > 0 /\ Place(m) <= heard'
       /\ (Place(m) > 0 => heard' = Place(m)) /\ Place(m) \in 0..10
  <2>1. Place(m) \in 0..10
    BY PlaceFacts
  <2> QED
    BY <1>3, <1>5, <1>6, <2>1 DEF On, Link
<1>11. /\ granted \subseteq granted' /\ r.grants \subseteq granted'
       /\ granted' \subseteq Dialog!Answers
  BY <1>3, <1>7, <1>8 DEF Suits
<1>12. /\ streams \subseteq streams' /\ streams' \subseteq StreamIds
       /\ \A i \in DOMAIN r.sends : r.sends[i].id # 0 => r.sends[i].id \in streams'
  <2>1. \A p \in Range(r.sends) : p.id # 0 => p.id \in StreamIds
    BY <1>8 DEF Suits, Range
  <2> QED
    BY <1>3, <1>7, <1>9, <2>1
<1>13. NoStream \notin streams'
  <2>1. StreamIds \subseteq Nat
    BY ClientAssumption
  <2> QED
    BY <1>12, <2>1 DEF NoStream
<1>14. /\ toClient' \in Seq(Packets)
       /\ \A i \in DOMAIN toClient' :
            \/ \E j \in DOMAIN toClient : toClient'[i] = toClient[j]
            \/ \E j \in DOMAIN r.sends : toClient'[i] = r.sends[j]
  <2>1. toClient \in Seq(Packets) /\ r.sends \in Seq(Packets)
    BY <1>3, <1>9
  <2>2. toClient' \in Seq(Packets) /\ Made(toClient', toClient, r.sends)
    BY <1>7, <2>1, ConcatOf
  <2> QED
    BY <2>2 DEF Made
<1>15. /\ toServer' \in Seq(Messages)
       /\ \A i \in DOMAIN toServer' : i + 1 \in DOMAIN toServer /\ toServer'[i] = toServer[i + 1]
       /\ \A i \in DOMAIN toServer' : \E j \in DOMAIN toServer : toServer'[i] = toServer[j]
  BY <1>1, <1>3, TailOf
<1>16. ClientTypeOK'
  <2>1. gaveUp' \in BOOLEAN
    BY <1>7
  <2> QED
    BY <1>1, <1>2, <1>10, <1>11, <1>12, <1>14, <1>15, <2>1 DEF ClientTypeOK
<1>17. Line(toServer)'
  <2>1. ASSUME NEW i \in DOMAIN toServer'
        PROVE  /\ Place(toServer'[i]) > 0 => Before(heard', Place(toServer'[i]))
               /\ Dialog!Needs(toServer'[i].cmd) \subseteq granted'
               /\ Founded(toServer[i])'
    <3>1. i + 1 \in DOMAIN toServer /\ toServer'[i] = toServer[i + 1] /\ i \in Nat /\ 1 < i + 1
      BY <1>15
    <3>2. /\ Dialog!Needs(toServer'[i].cmd) \subseteq granted'
          /\ Founded(toServer[i])'
      BY <1>2, <1>11, <1>12, <3>1 DEF Line, Founded
    <3>3. ASSUME Place(toServer'[i]) > 0
          PROVE  Before(heard', Place(toServer'[i]))
      <4>1. CASE Place(m) = 0
        BY <1>2, <1>6, <3>1, <3>3, <4>1 DEF Line, On
      <4>2. CASE Place(m) > 0
        <5>1. Place(toServer[1]) > 0
          BY <4>2 DEF m
        <5>2. Before(Place(toServer[1]), Place(toServer[i + 1]))
          BY <1>2, <1>5, <3>1, <3>3, <5>1 DEF Line
        <5> QED
          BY <1>10, <3>1, <4>2, <5>2 DEF m
      <4> QED
        BY <1>10, <4>1, <4>2
    <3> QED
      BY <3>2, <3>3
  <2>2. ASSUME NEW i \in DOMAIN toServer', NEW j \in DOMAIN toServer', i < j,
               Place(toServer'[i]) > 0, Place(toServer'[j]) > 0
        PROVE  Before(Place(toServer'[i]), Place(toServer'[j]))
    <3>1. /\ i + 1 \in DOMAIN toServer /\ toServer'[i] = toServer[i + 1]
          /\ j + 1 \in DOMAIN toServer /\ toServer'[j] = toServer[j + 1] /\ i + 1 < j + 1
      BY <1>15, <2>2
    <3> QED
      BY <1>2, <2>2, <3>1 DEF Line
  <2> QED
    BY <1>10, <2>1, <2>2 DEF Line, Founded, StepOf, Place, Before
<1>18. Matched(h, toServer)'
  <2> SUFFICES ASSUME h.sock = "open"
               PROVE  Matched(h, toServer)'
    BY <1>1 DEF Matched
  <2>1. /\ \A i \in DOMAIN toServer : toServer[i].txn <= h.invokes
        /\ \A i \in DOMAIN toClient : toClient[i].txn <= h.invokes
        /\ \A c \in DOMAIN h.calls :
             /\ h.calls[c].txn \in 1..h.invokes
             /\ \A i \in DOMAIN toServer :
                  toServer[i].txn = h.calls[c].txn => toServer[i].cmd = h.calls[c].name
             /\ \A i \in DOMAIN toClient :
                  toClient[i].kind = "result" /\ toClient[i].txn = h.calls[c].txn =>
                    Fits(h.calls[c].name, toClient[i])
    BY <1>2 DEF Matched
  <2>2. m.txn <= h.invokes /\ m.txn \in Nat /\ h.invokes \in Nat
    BY <1>3, <1>5, <2>1 DEF m, Messages, Handles
  <2>3. \A i \in DOMAIN r.sends : r.sends[i].txn \in {0, m.txn}
    BY <1>8 DEF Suits
  <2>4. \A i \in DOMAIN toClient' : toClient'[i].txn <= h.invokes
    BY <1>14, <2>1, <2>2, <2>3
  <2>5. \A i \in DOMAIN toServer' : toServer'[i].txn <= h.invokes
    BY <1>15, <2>1
  <2>7. ASSUME NEW c \in DOMAIN h.calls, NEW i \in DOMAIN toClient',
               toClient'[i].kind = "result", toClient'[i].txn = h.calls[c].txn
        PROVE  /\ h.calls[c].name = "connect" => "connected" \in granted'
               /\ h.calls[c].name = "createStream" =>
                    "stream" \in granted' /\ toClient'[i].id \in streams'
               /\ h.calls[c].name = "publish" => "published" \in granted'
    <3>1. CASE \E j \in DOMAIN toClient : toClient'[i] = toClient[j]
      <4>1. Fits(h.calls[c].name, toClient'[i])
        BY <2>1, <2>7, <3>1
      <4> QED
        BY <1>11, <1>12, <4>1 DEF Fits
    <3>2. CASE \E j \in DOMAIN r.sends : toClient'[i] = r.sends[j]
      <4>1. PICK j \in DOMAIN r.sends : toClient'[i] = r.sends[j]
        BY <3>2
      <4>2. r.sends[j].txn = m.txn
        <5>1. h.calls[c].txn > 0
          BY <2>1, <2>2
        <5> QED
          BY <2>3, <2>7, <4>1, <5>1
      <4>3. m.cmd = h.calls[c].name
        BY <1>5, <2>1, <2>7, <4>1, <4>2 DEF m
      <4>4. /\ m.cmd = "connect" => "connected" \in r.grants
            /\ m.cmd = "createStream" => "stream" \in r.grants /\ r.sends[j].id \in StreamIds
            /\ m.cmd = "publish" => "published" \in r.grants
        BY <1>8, <2>7, <4>1 DEF Suits
      <4>5. r.sends[j].id \in StreamIds => r.sends[j].id \in streams'
        <5>1. 0 \notin StreamIds
          BY ClientAssumption
        <5> QED
          BY <1>12, <5>1
      <4> QED
        BY <1>11, <4>1, <4>3, <4>4, <4>5
    <3> QED
      BY <1>14, <3>1, <3>2
  <2>8. \A c \in DOMAIN h.calls : \A i \in DOMAIN toServer' :
          toServer'[i].txn = h.calls[c].txn => toServer'[i].cmd = h.calls[c].name
    BY <1>15, <2>1
  <2> QED
    BY <1>1, <2>1, <2>4, <2>5, <2>7, <2>8 DEF Matched, Fits
<1>19. PICK n \in 0..10 :
         /\ Upto(n, toServer)
         /\ h.sock = "open" => Reached(h, phase, n)
         /\ h.sock = "none" /\ ~gaveUp => n <= 6 \/ n = 10
  BY <1>1, <1>2 DEF Spoken
<1>20. heard' <= n
  BY <1>5, <1>6, <1>19 DEF Upto, On, m
<1>21. Sane(h)' /\ (h.sock = "open" => (h.stream \in streams' <=> h.stream \in streams))
  <2>1. h.sock = "open" /\ heard' >= 7 => h.stream \in streams
    BY <1>10, <1>19, <1>20 DEF Reached
  <2> QED
    BY <1>1, <1>2, <1>11, <1>12, <1>13, <2>1, SaneGrows
<1>22. Spoken(h, phase, toServer)'
  <2>1. \A i \in DOMAIN toServer' : Place(toServer'[i]) <= n
    BY <1>15, <1>19 DEF Upto
  <2>2. ASSUME NEW k \in 1..n, k # 8
        PROVE  heard' >= k \/ \E i \in DOMAIN toServer' : Place(toServer'[i]) = k
    <3>1. CASE heard >= k
      BY <1>3, <1>10, <3>1
    <3>2. CASE \E i \in DOMAIN toServer : Place(toServer[i]) = k
      <4>1. PICK i \in DOMAIN toServer : Place(toServer[i]) = k
        BY <3>2
      <4>2. CASE i = 1
        BY <1>10, <4>1, <4>2 DEF m
      <4>3. CASE i # 1
        <5>1. i - 1 \in DOMAIN toServer'
          BY <1>1, <1>3, <4>3
        <5>2. toServer'[i - 1] = toServer[i]
          <6>1. i - 1 + 1 = i
            BY <1>3
          <6> QED
            BY <1>15, <5>1, <6>1
        <5> QED
          BY <4>1, <5>1, <5>2
      <4> QED
        BY <4>2, <4>3
    <3> QED
      BY <1>19, <2>2, <3>1, <3>2 DEF Upto
  <2>3. Upto(n, toServer)'
    BY <1>20, <2>1, <2>2 DEF Upto, Place
  <2>4. h.sock = "open" => Reached(h, phase, n)'
    BY <1>1, <1>19, <1>21 DEF Reached
  <2>5. h.sock = "none" /\ ~gaveUp' => n <= 6 \/ n = 10
    BY <1>7, <1>19
  <2> QED
    BY <1>1, <2>3, <2>4, <2>5 DEF Spoken
<1>23. Phases(h, phase)'
  BY <1>1, <1>2 DEF Phases
<1>24. Fresh'
  <2>1. phase \notin {"none", "idle"}
    BY <1>1, <1>2 DEF Fresh
  <2> QED
    BY <1>1, <2>1 DEF Fresh
<1>25. Known'
  <2>1. {"S0S1", "S2"} \subseteq granted'
    <3>1. CASE heard > 0
      BY <1>2, <1>11, <3>1 DEF Known
    <3>2. CASE heard = 0
      <4>1. Place(m) = 1
        BY <1>3, <1>5, <1>10, <3>2 DEF Link
      <4>2. m.cmd = "C0C1"
        BY <4>1, PlaceFacts
      <4> QED
        BY <1>8, <1>11, <4>2 DEF Suits
    <3> QED
      BY <1>3, <3>1, <3>2
  <2>2. ASSUME NEW i \in DOMAIN toClient'
        PROVE  /\ toClient'[i].kind = "start" => heard' >= 7 /\ "published" \in granted'
               /\ toClient'[i].kind = "failed" => gaveUp'
    <3>1. CASE \E j \in DOMAIN toClient : toClient'[i] = toClient[j]
      BY <1>2, <1>3, <1>7, <1>10, <1>11, <3>1 DEF Known
    <3>2. CASE \E j \in DOMAIN r.sends : toClient'[i] = r.sends[j]
      <4>1. PICK j \in DOMAIN r.sends : toClient'[i] = r.sends[j]
        BY <3>2
      <4>2. /\ r.sends[j].kind = "start" => m.cmd = "publish" /\ "published" \in r.grants
            /\ r.sends[j].kind = "failed" => r.sends[j] = Packet("failed")
        BY <1>8 DEF Suits
      <4>3. m.cmd = "publish" => Place(m) = 7
        BY PlaceFacts
      <4> QED
        BY <1>7, <1>9, <1>10, <1>11, <4>1, <4>2, <4>3
    <3> QED
      BY <1>14, <3>1, <3>2
  <2> QED
    BY <1>10, <2>1, <2>2 DEF Known
<1> QED
  BY <1>16, <1>17, <1>18, <1>21, <1>22, <1>23, <1>24, <1>25 DEF ClientInv

LEMMA SpokenStays ==
  ASSUME Spoken(h, phase, toServer), h' = h, phase' = phase, peer' = peer,
         toServer' = toServer, heard' = heard, streams' = streams, gaveUp => gaveUp'
  PROVE  Spoken(h, phase, toServer)'
<1> SUFFICES ASSUME peer
             PROVE  Spoken(h, phase, toServer)'
  BY DEF Spoken
<1>1. PICK n \in 0..10 :
        /\ Upto(n, toServer)
        /\ h.sock = "open" => Reached(h, phase, n)
        /\ h.sock = "none" /\ ~gaveUp => n <= 6 \/ n = 10
  BY DEF Spoken
<1>2. Upto(n, toServer)'
  BY <1>1 DEF Upto, Place
<1>3. h.sock = "open" => Reached(h, phase, n)'
  BY <1>1 DEF Reached
<1> QED
  BY <1>1, <1>2, <1>3 DEF Spoken

LEMMA ChatKeeps ==
  ASSUME ClientInv, ServerChats
  PROVE  ClientInv'
<1>1. /\ peer /\ "connected" \in granted /\ chat > 0 /\ chat' = chat - 1
      /\ h' = h /\ phase' = phase /\ media' = media /\ peer' = peer /\ toServer' = toServer
      /\ heard' = heard /\ granted' = granted /\ streams' = streams
  BY DEF ServerChats, clientVars
<1>2. PICK k \in Chatter :
        /\ toClient' = Append(toClient, Packet(k))
        /\ gaveUp' = (gaveUp \/ k \in {"failed", "close"})
  BY DEF ServerChats
<1>3. /\ ClientTypeOK /\ Line(toServer) /\ Matched(h, toServer) /\ Sane(h)
      /\ Spoken(h, phase, toServer) /\ Phases(h, phase) /\ Fresh /\ Known
  BY DEF ClientInv
<1>4. k \in {"onBWDone", "ping", "close", "failed"} /\ k \in Kinds
  BY ClientAssumption DEF Kinds
<1>5. Packet(k) \in Packets /\ Packet(k).kind = k /\ Packet(k).txn = 0
  BY <1>4, PacketOf
<1>6. /\ toClient' \in Seq(Packets)
      /\ \A i \in DOMAIN toClient' : \/ \E j \in DOMAIN toClient : toClient'[i] = toClient[j]
                                     \/ toClient'[i] = Packet(k)
  <2>1. toClient \in Seq(Packets)
    BY <1>3 DEF ClientTypeOK
  <2> QED
    BY <1>2, <1>5, <2>1
<1>7. ClientTypeOK'
  <2>1. gaveUp' \in BOOLEAN /\ chat' \in Nat
    BY <1>1, <1>2, <1>3 DEF ClientTypeOK
  <2> QED
    BY <1>1, <1>3, <1>6, <2>1 DEF ClientTypeOK
<1>8. Line(toServer)'
  BY <1>1, <1>3 DEF Line, Founded, StepOf, Place, Before
<1>9. Matched(h, toServer)'
  <2> SUFFICES ASSUME h.sock = "open"
               PROVE  Matched(h, toServer)'
    BY <1>1 DEF Matched
  <2>1. /\ \A i \in DOMAIN toServer : toServer[i].txn <= h.invokes
        /\ \A i \in DOMAIN toClient : toClient[i].txn <= h.invokes
        /\ \A c \in DOMAIN h.calls :
             /\ h.calls[c].txn \in 1..h.invokes
             /\ \A i \in DOMAIN toServer :
                  toServer[i].txn = h.calls[c].txn => toServer[i].cmd = h.calls[c].name
             /\ \A i \in DOMAIN toClient :
                  toClient[i].kind = "result" /\ toClient[i].txn = h.calls[c].txn =>
                    Fits(h.calls[c].name, toClient[i])
    BY <1>3 DEF Matched
  <2>2. \A i \in DOMAIN toClient' : toClient'[i].txn <= h.invokes
    <3>1. h.invokes \in Nat
      BY <1>3 DEF ClientTypeOK, Handles
    <3> QED
      BY <1>5, <1>6, <2>1, <3>1
  <2>3. ASSUME NEW c \in DOMAIN h.calls, NEW i \in DOMAIN toClient', toClient'[i].kind = "result",
               toClient'[i].txn = h.calls[c].txn
        PROVE  Fits(h.calls[c].name, toClient'[i])
    <3>1. toClient'[i] # Packet(k)
      BY <1>4, <1>5, <2>3
    <3> QED
      BY <1>6, <2>1, <2>3, <3>1
  <2> QED
    BY <1>1, <2>1, <2>2, <2>3 DEF Matched, Fits
<1>10. Sane(h)'
  BY <1>1, <1>3 DEF Sane
<1>11. Spoken(h, phase, toServer)'
  BY <1>1, <1>2, <1>3, SpokenStays
<1>12. Phases(h, phase)'
  BY <1>1, <1>3 DEF Phases
<1>13. heard > 0
  BY <1>1, <1>3 DEF Known
<1>14. Fresh'
  BY <1>1, <1>3, <1>13 DEF Fresh
<1>15. Known'
  <2>1. ASSUME NEW i \in DOMAIN toClient'
        PROVE  /\ toClient'[i].kind = "start" => heard' >= 7 /\ "published" \in granted'
               /\ toClient'[i].kind = "failed" => gaveUp'
    <3>1. CASE \E j \in DOMAIN toClient : toClient'[i] = toClient[j]
      BY <1>1, <1>2, <1>3, <3>1 DEF Known
    <3>2. CASE toClient'[i] = Packet(k)
      BY <1>2, <1>4, <1>5, <3>2
    <3> QED
      BY <1>6, <3>1, <3>2
  <2> QED
    BY <1>1, <1>3, <1>13, <2>1 DEF Known
<1> QED
  BY <1>7, <1>8, <1>9, <1>10, <1>11, <1>12, <1>14, <1>15 DEF ClientInv

(* The connection breaks, and what was under way is lost.                  *)
LEMMA BreakKeeps ==
  ASSUME ClientInv, ConnectionBreaks
  PROVE  ClientInv'
<1>1. /\ peer /\ h.sock = "open" /\ peer' = FALSE /\ toServer' = <<>>
      /\ h' = h /\ phase' = phase /\ media' = media /\ chat' = chat
      /\ heard' = heard /\ granted' = granted /\ streams' = streams /\ gaveUp' = gaveUp
  BY DEF ConnectionBreaks, clientVars, serverVars
<1>2. PICK n \in 0..Len(toClient) : toClient' = SubSeq(toClient, 1, n)
  BY DEF ConnectionBreaks
<1>3. /\ ClientTypeOK /\ Line(toServer) /\ Matched(h, toServer) /\ Sane(h)
      /\ Phases(h, phase) /\ Fresh /\ Known
  BY DEF ClientInv
<1>4. toClient' \in Seq(Packets) /\ \A i \in DOMAIN toClient' :
                                      \E j \in DOMAIN toClient : toClient'[i] = toClient[j]
  <2>1. toClient \in Seq(Packets)
    BY <1>3 DEF ClientTypeOK
  <2>2. SubSeq(toClient, 1, n) \in Seq(Packets)
    BY <2>1
  <2>3. ASSUME NEW i \in DOMAIN SubSeq(toClient, 1, n)
        PROVE  i \in DOMAIN toClient /\ SubSeq(toClient, 1, n)[i] = toClient[i]
    BY <2>1
  <2> QED
    BY <1>2, <2>2, <2>3
<1>5. ClientTypeOK'
  <2>1. <<>> \in Seq(Messages)
    OBVIOUS
  <2>2. peer' \in BOOLEAN
    BY <1>1
  <2> QED
    BY <1>1, <1>3, <1>4, <2>1, <2>2 DEF ClientTypeOK
<1>6. Line(toServer)'
  BY <1>1 DEF Line
<1>7. Matched(h, toServer)'
  <2>1. /\ \A i \in DOMAIN toClient : toClient[i].txn <= h.invokes
        /\ \A c \in DOMAIN h.calls :
             /\ h.calls[c].txn \in 1..h.invokes
             /\ \A i \in DOMAIN toClient :
                  toClient[i].kind = "result" /\ toClient[i].txn = h.calls[c].txn =>
                    Fits(h.calls[c].name, toClient[i])
    BY <1>1, <1>3 DEF Matched
  <2>2. \A i \in DOMAIN toClient' : toClient'[i].txn <= h.invokes
    BY <1>4, <2>1
  <2>3. \A c \in DOMAIN h.calls : \A i \in DOMAIN toClient' :
          toClient'[i].kind = "result" /\ toClient'[i].txn = h.calls[c].txn =>
            Fits(h.calls[c].name, toClient'[i])
    BY <1>4, <2>1
  <2> QED
    BY <1>1, <2>1, <2>2, <2>3 DEF Matched, Fits
<1>8. Sane(h)'
  BY <1>1, <1>3 DEF Sane
<1>9. Spoken(h, phase, toServer)'
  BY <1>1 DEF Spoken
<1>10. Phases(h, phase)'
  BY <1>1, <1>3 DEF Phases
<1>11. Fresh'
  BY <1>1, <1>3 DEF Fresh
<1>12. Known'
  <2>1. /\ heard > 0 => {"S0S1", "S2"} \subseteq granted
        /\ granted # {} \/ toClient # <<>> => heard > 0
        /\ \A i \in DOMAIN toClient :
             /\ toClient[i].kind = "start" => heard >= 7 /\ "published" \in granted
             /\ toClient[i].kind = "failed" => gaveUp
    BY <1>3 DEF Known
  <2>2. toClient' # <<>> => toClient # <<>>
    BY <1>2, <1>3 DEF ClientTypeOK
  <2>3. \A i \in DOMAIN toClient' :
          /\ toClient'[i].kind = "start" => heard >= 7 /\ "published" \in granted
          /\ toClient'[i].kind = "failed" => gaveUp
    BY <1>4, <2>1
  <2> QED
    BY <1>1, <2>1, <2>2, <2>3 DEF Known
<1> QED
  BY <1>5, <1>6, <1>7, <1>8, <1>9, <1>10, <1>11, <1>12 DEF ClientInv

LEMMA StutterKeeps ==
  ASSUME ClientInv, UNCHANGED rtmpVars
  PROVE  ClientInv'
<1>1. /\ h' = h /\ phase' = phase /\ media' = media /\ peer' = peer /\ toServer' = toServer
      /\ toClient' = toClient /\ chat' = chat /\ heard' = heard /\ granted' = granted
      /\ streams' = streams /\ gaveUp' = gaveUp
  BY DEF rtmpVars, clientVars, serverVars
<1>2. ClientTypeOK'
  BY <1>1 DEF ClientInv, ClientTypeOK
<1>3. Line(toServer)' /\ Matched(h, toServer)' /\ Sane(h)'
  BY <1>1 DEF ClientInv, Line, Founded, StepOf, Matched, Sane, Place, Before, Fits
<1>4. Spoken(h, phase, toServer)'
  BY <1>1, SpokenStays DEF ClientInv
<1>5. Phases(h, phase)' /\ Fresh' /\ Known'
  BY <1>1 DEF ClientInv, Phases, Fresh, Known
<1> QED
  BY <1>2, <1>3, <1>4, <1>5 DEF ClientInv

-----------------------------------------------------------------------------
(* The theorems.                                                           *)

(* The inductive invariant holds of every behaviour of client and server.  *)
THEOREM ClientInvariant == RtmpSpec => []ClientInv
<1>1. RtmpInit => ClientInv
  BY InitInv
<1>2. ClientInv /\ [RtmpNext]_rtmpVars => ClientInv'
  <2> SUFFICES ASSUME ClientInv, [RtmpNext]_rtmpVars
               PROVE  ClientInv'
    OBVIOUS
  <2>1. CASE AllocHandle
    BY <2>1, AllocKeeps
  <2>2. CASE TcpConnect
    BY <2>2, ConnectKeeps
  <2>3. CASE HandShake
    BY <2>3, HandShakeKeeps
  <2>4. CASE ReadPacket
    BY <2>4, ReadKeeps
  <2>5. CASE ReadFails
    BY <2>5, FailsKeeps
  <2>6. CASE SendMedia \/ SendSpsPps
    BY <2>6, MediaKeeps
  <2>7. CASE CloseHandle
    BY <2>7, CloseKeeps
  <2>8. CASE ServerReads
    BY <2>8, ServerKeeps
  <2>9. CASE ServerChats
    BY <2>9, ChatKeeps
  <2>10. CASE ConnectionBreaks
    BY <2>10, BreakKeeps
  <2>11. CASE UNCHANGED rtmpVars
    BY <2>11, StutterKeeps
  <2> QED
    BY <2>1, <2>2, <2>3, <2>4, <2>5, <2>6, <2>7, <2>8, <2>9, <2>10, <2>11
       DEF RtmpNext, ClientStep
<1> QED
  BY <1>1, <1>2, PTL DEF RtmpSpec

(* What the invariant says of the properties.                              *)
LEMMA InvOpen == ClientInv => OpenIsPublished
<1> SUFFICES ASSUME ClientInv
             PROVE  OpenIsPublished
  OBVIOUS
<1>1. phase = "open" /\ h.sock = "open" =>
        h.playing /\ h.stream \in streams /\ "published" \in granted
  BY DEF ClientInv, Phases, Sane
<1>2. \A m \in Range(toServer) : m.cmd = "media" => m.id \in streams
  BY DEF ClientInv, Line, Founded, Range
<1> QED
  BY <1>1, <1>2 DEF OpenIsPublished

(* RTMP_ConnectStream succeeds only on a stream that the server granted    *)
(* and agreed to see published, and every frame of video or sound under    *)
(* way names a granted stream, whatever the server sends unasked in        *)
(* between; of the packets of SPS and PPS nothing is claimed.              *)
THEOREM OpenTheorem == RtmpSpec => []OpenIsPublished
BY ClientInvariant, InvOpen, PTL

LEMMA InvTold == ClientInv => ServerIsTold
<1> SUFFICES ASSUME ClientInv, phase = "closed", peer, ~gaveUp, Said("publish")
             PROVE  Said("deleteStream")
  BY DEF ServerIsTold
<1>1. h \in Handles /\ toServer \in Seq(Messages) /\ heard \in 0..10
  BY DEF ClientInv, ClientTypeOK
<1>2. h.sock = "none"
  <2>1. h.sock # "open" /\ (h.sock = "dead" => ~peer)
    BY DEF ClientInv, Phases, Sane
  <2> QED
    BY <1>1, <2>1 DEF Handles
<1>3. PICK n \in 0..10 : Upto(n, toServer) /\ (n <= 6 \/ n = 10)
  BY <1>2 DEF ClientInv, Spoken
<1>4. Place(Command("publish")) = 7 /\ Place(Command("deleteStream")) = 10
  <2>1. Command("publish").cmd = "publish" /\ Command("deleteStream").cmd = "deleteStream"
    BY DEF Command
  <2> QED
    BY <2>1, PlaceFacts
<1>5. n = 10
  <2>1. CASE heard >= 7
    BY <1>1, <1>3, <2>1 DEF Upto
  <2>2. CASE \E m \in Range(toServer) : m.cmd = "publish"
    <3>1. PICK i \in DOMAIN toServer : toServer[i].cmd = "publish"
      BY <2>2 DEF Range
    <3>2. Place(toServer[i]) = 7
      BY <3>1, PlaceFacts
    <3> QED
      BY <1>3, <3>2 DEF Upto
  <2> QED
    BY <1>4, <2>1, <2>2 DEF Said
<1>6. heard >= 10 \/ \E i \in DOMAIN toServer : Place(toServer[i]) = 10
  <2>1. 10 \in 1..n /\ 10 # 8
    BY <1>5
  <2> QED
    BY <1>3, <2>1 DEF Upto
<1>7. ASSUME NEW i \in DOMAIN toServer, Place(toServer[i]) = 10
      PROVE  toServer[i].cmd = "deleteStream"
  BY <1>7, PlaceFacts
<1> QED
  BY <1>4, <1>6, <1>7 DEF Said, Range

(* A handle that asked to publish and is closed has told the server that   *)
(* the stream ends, unless the connection broke or the server ended it.    *)
THEOREM ToldTheorem == RtmpSpec => []ServerIsTold
BY ClientInvariant, InvTold, PTL

LEMMA InvRecursion == ClientInv => RecursionNeedsStream
BY DEF ClientInv, Sane, RecursionNeedsStream

(* WriteN and RTMP_Close call each other without end only on a broken      *)
(* connection whose stream was granted.                                    *)
THEOREM RecursionTheorem == RtmpSpec => []RecursionNeedsStream
BY ClientInvariant, InvRecursion, PTL

(* Only ServerReads moves the dialog, by the place of the command it reads.*)
LEMMA DialogStep ==
  ASSUME ClientInv, [RtmpNext]_rtmpVars
  PROVE  [Dialog!Next]_(Dialog!dialogVars)
<1>1. CASE ServerReads
  <2> DEFINE m == toServer[1]
  <2>1. peer /\ toServer # <<>> /\ toServer \in Seq(Messages) /\ heard \in 0..10
        /\ granted \subseteq Dialog!Answers
    BY <1>1 DEF ServerReads, ClientInv, ClientTypeOK
  <2>2. Head(toServer) = m
    BY <2>1
  <2>3. /\ m \in Messages /\ Dialog!Needs(StepOf(m)) \subseteq granted
        /\ (Place(m) > 0 => Link(heard, Place(m)))
    BY <2>1, HeadOf
  <2>4. heard' = IF Place(m) = 0 THEN heard ELSE Place(m)
    BY <1>1, <2>2 DEF ServerReads
  <2>5. PICK r \in Replies(m) : granted' = granted \cup r.grants
    BY <1>1, <2>2 DEF ServerReads
  <2>6. r.grants \subseteq Dialog!Answers
    BY <2>3, <2>5, RepliesOf DEF Suits
  <2>7. Dialog!Answer
    BY <2>1, <2>5, <2>6 DEF Dialog!Answer
  <2> HIDE DEF m
  <2>8. CASE Place(m) = 0
    BY <2>4, <2>7, <2>8 DEF Dialog!Next
  <2>9. CASE Place(m) # 0
    <3>1. Place(m) \in 1..10
      <4>1. Place(m) \in 0..10
        BY PlaceFacts
      <4> QED
        BY <2>9, <4>1
    <3>2. Len(Dialog!Steps) = 10 /\ Dialog!Steps[8] = "media"
          /\ Dialog!Steps[9] = "FCUnpublish"
      BY DEF Dialog!Steps
    <3>3. Dialog!Steps[Place(m)] = StepOf(m)
      <4>1. \E k \in DOMAIN Dialog!Steps : Dialog!Steps[k] = StepOf(m)
        BY <2>9 DEF Place
      <4> QED
        BY <4>1 DEF Place
    <3>4. Link(heard, Place(m))
      BY <2>3, <3>1
    <3>5. Dialog!Hear(Place(m))
      <4>1. \/ Place(m) = heard + 1
            \/ Dialog!Steps[Place(m)] = "media" /\ heard = Place(m)
            \/ Dialog!Steps[Place(m)] = "FCUnpublish" /\ heard = Place(m) - 2
        BY <3>2, <3>4 DEF Link
      <4> QED
        BY <2>3, <2>4, <2>9, <3>3, <4>1 DEF Dialog!Hear
    <3> QED
      BY <2>7, <3>1, <3>2, <3>5 DEF Dialog!Next
  <2> QED
    BY <2>8, <2>9
<1>2. CASE ~ServerReads
  <2>1. heard' = heard /\ granted' = granted
    BY <1>2 DEF RtmpNext, ClientStep, AllocHandle, TcpConnect, HandShake, ReadPacket, ReadFails,
                SendMedia, SendSpsPps, Send, CloseHandle, ServerChats, ConnectionBreaks, rtmpVars, serverVars
  <2> QED
    BY <2>1 DEF Dialog!dialogVars
<1> QED
  BY <1>1, <1>2

(* The client implements the dialog: the server hears the steps in their   *)
(* order, each after the answer it needs, media alone left out or repeated.*)
THEOREM ImplementsDialog == RtmpSpec => DialogSpec
<1>1. RtmpInit => Dialog!Init
  BY DEF RtmpInit, Dialog!Init
<1>2. ClientInv /\ [RtmpNext]_rtmpVars => [Dialog!Next]_(Dialog!dialogVars)
  BY DialogStep
<1> QED
  BY <1>1, <1>2, ClientInvariant, PTL DEF RtmpSpec, DialogSpec, Dialog!Spec
=============================================================================
