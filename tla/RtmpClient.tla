----------------------------- MODULE RtmpClient -----------------------------
(***************************************************************************)
(* One RTMP handle of librtmp as a publisher: RTMP_Connect,                *)
(* RTMP_ConnectStream, media and RTMP_Close on one side, a server on the   *)
(* other, two ordered byte streams between them, which may break.          *)
(*                                                                         *)
(* The code answers a packet with writes of which each may fail, and a     *)
(* failed write closes the handle on the spot and lets the caller go on.   *)
(* So the operators below map a handle to the set of handles it may become.*)
(***************************************************************************)
EXTENDS Integers, Sequences, SequencesExt

CONSTANTS
  StreamIds,  (* the streams a server grants                               *)
  Chatter,    (* the packets it sends unasked                              *)
  MaxChat,    (* how many of them: a bound for TLC                         *)
  MaxMedia,   (* media packets of a live: a bound for TLC                  *)
  Garbage     (* what a field that was never written may hold              *)

ASSUME ClientAssumption ==
  /\ StreamIds \subseteq Nat \ {0}
  /\ Chatter \subseteq {"onBWDone", "ping", "close", "failed"}
  /\ MaxChat \in Nat /\ MaxMedia \in Nat /\ Garbage \subseteq Int

VARIABLES
  h,         (* the handle: sock (m_sb.sb_socket; "dead" once a write      *)
             (* failed), stream (m_stream_id), playing (m_bPlaying), calls *)
             (* (m_methodCalls), invokes (m_numInvokes), bw                *)
             (* (m_nBWCheckCounter), out (written in this step), recursion *)
             (* (RTMP_Close and WriteN call each other without end)        *)
  phase,     (* where the thread that owns the handle is                   *)
  media,     (* media packets it sent                                      *)
  peer,      (* the connection works                                       *)
  toServer,  (* the commands under way to the server                       *)
  toClient,  (* the packets under way to the client                        *)
  chat,      (* packets the server may still send unasked                  *)
  heard, granted,  (* what the server heard and answered, see PublishDialog*)
  streams,   (* the streams it granted                                     *)
  gaveUp     (* the server declared the stream failed or the session over  *)

clientVars == <<h, phase, media>>
serverVars == <<chat, heard, granted, streams, gaveUp>>
rtmpVars   == <<clientVars, peer, toServer, toClient, serverVars>>

NoStream == -1

RtmpInit ==
  /\ h = [sock |-> "none", stream |-> NoStream, playing |-> FALSE, calls |-> <<>>,
          invokes |-> 0, bw |-> 0, out |-> <<>>, recursion |-> FALSE]
  /\ phase = "none" /\ media = 0 /\ peer = TRUE
  /\ toServer = <<>> /\ toClient = <<>>
  /\ chat = MaxChat /\ heard = 0 /\ granted = {} /\ streams = {} /\ gaveUp = FALSE

-----------------------------------------------------------------------------
(* The handle.                                                             *)

(* F on each handle of S that still runs.                                  *)
Then(S, F(_)) == UNION {IF s.recursion THEN {s} ELSE F(s) : s \in S}

(* What RTMP_Close leaves, with nothing to tell the server.                *)
Reset(s) ==
  [s EXCEPT !.sock = "none", !.stream = NoStream, !.playing = FALSE,
            !.calls = <<>>, !.invokes = 0, !.bw = 0]

(* WriteN.  A broken connection may swallow a write or fail it, and once   *)
(* one has failed the others do.  The failure calls RTMP_Close: with a     *)
(* stream that one writes FCUnpublish, fails, and calls RTMP_Close.        *)
Written(s, msg) == [s EXCEPT !.out = Append(@, msg)]

(* Mutant: RTMP_Close without the test of the stream.                      *)
WriteFailedAlways(s) ==
  IF s.sock # "none" THEN [s EXCEPT !.sock = "dead", !.recursion = TRUE] ELSE Reset(s)

WriteFailed(s) ==
  IF s.sock # "none" /\ s.stream > 0
  THEN [s EXCEPT !.sock = "dead", !.recursion = TRUE] ELSE Reset(s)

WriteN(s, msg) ==
  CASE s.sock = "open" /\ peer  -> {Written(s, msg)}
    [] s.sock = "open" /\ ~peer -> {Written(s, msg), WriteFailed(s)}
    [] OTHER                    -> {WriteFailed(s)}

Command(name) == [cmd |-> name, txn |-> 0, id |-> 0]

(* An invoke: the transaction number is drawn before the write, and the    *)
(* call is remembered after it when it is queued.                          *)
Invoke(s, name, id, queue) ==
  LET n == s.invokes + 1
      u == [s EXCEPT !.invokes = n]
      Remember(v) ==
        {IF queue /\ Len(v.out) > Len(s.out)
         THEN [v EXCEPT !.calls = Append(@, [name |-> name, txn |-> n])] ELSE v}
  IN  Then(WriteN(u, [cmd |-> name, txn |-> n, id |-> id]), Remember)

(* Mutant: the stream id is forgotten before the server was told.          *)
CloseSilently(s) == {Reset(s)}

(* RTMP_Close.                                                             *)
Close(s) ==
  LET Delete(u) == Invoke([u EXCEPT !.stream = 0], "deleteStream", s.stream, FALSE)
      Forget(u) == {Reset(u)}
  IN  IF s.sock # "none" /\ s.stream > 0
      THEN Then(Then(Invoke(s, "FCUnpublish", 0, FALSE), Delete), Forget)
      ELSE {Reset(s)}

(* The first of the calls at these places is erased.                       *)
Erase(calls, places) == IF places = {} THEN calls ELSE RemoveAt(calls, Min(places))

(* Mutant: publish goes out with the result of createStream not awaited.   *)
ResultOfEager(s, name, p) ==
  LET Publish(u) == Invoke(u, "publish", 0, TRUE)
  IN  CASE name = "connect"      -> Then(Invoke(s, "createStream", 0, TRUE), Publish)
        [] name = "createStream" -> {[s EXCEPT !.stream = p.id]}
        [] name = "publish"      -> {[s EXCEPT !.playing = TRUE]}

(* HandleInvoke for _result: the call of that number decides.              *)
ResultOf(s, name, p) ==
  LET FCPublish(u)    == Invoke(u, "FCPublish", 0, FALSE)
      CreateStream(u) == Invoke(u, "createStream", 0, TRUE)
  IN  CASE name = "connect" ->
             Then(Then(Invoke(s, "releaseStream", 0, FALSE), FCPublish), CreateStream)
        [] name = "createStream" ->
             Invoke([s EXCEPT !.stream = p.id], "publish", p.id, TRUE)
        [] name = "publish" -> {[s EXCEPT !.playing = TRUE]}

HandleResult(s, p) ==
  LET hits == {i \in DOMAIN s.calls : s.calls[i].txn = p.txn}
  IN  IF hits = {} THEN {s}
      ELSE ResultOf([s EXCEPT !.calls = Erase(@, hits)], s.calls[Min(hits)].name, p)

(* Mutant: every status is taken for a success.                            *)
HandlePacketHopeful(s, p) ==
  IF p.kind = "result" THEN HandleResult(s, p) ELSE {[s EXCEPT !.playing = TRUE]}

(* RTMP_ClientPacket with HandleInvoke and HandleCtrl: the packets that    *)
(* change the handle.  An _error and a status such as BadName do not.      *)
HandlePacket(s, p) ==
  LET publishes == {i \in DOMAIN s.calls : s.calls[i].name = "publish"}
  IN  CASE p.kind = "result"    -> HandleResult(s, p)
        [] p.kind = "start"     -> {[s EXCEPT !.playing = TRUE,
                                              !.calls = Erase(@, publishes)]}
        [] p.kind = "failed"    -> Close([s EXCEPT !.stream = NoStream])
        [] p.kind = "close"     -> Close(s)
        [] p.kind = "ping"      -> WriteN(s, Command("pong"))
        [] p.kind = "onBWDone"  -> IF s.bw = 0 THEN Invoke(s, "_checkbw", 0, FALSE)
                                   ELSE {s}
        [] p.kind = "onbwcheck" -> WriteN([s EXCEPT !.bw = @ + 1], Command("bwresult"))
        [] OTHER                -> {s}

-----------------------------------------------------------------------------
(* The thread of the client.                                               *)

(* What the step wrote is under way, unless nobody is there to get it.     *)
Becomes(s) ==
  /\ h' = [s EXCEPT !.out = <<>>]
  /\ toServer' = IF peer THEN toServer \o s.out ELSE toServer

Runs == ~h.recursion

(* RTMP_Alloc and RTMP_Init.                                               *)
AllocHandle ==
  /\ phase = "none" /\ phase' = "idle"
  /\ UNCHANGED <<h, media, peer, toServer, toClient, serverVars>>

(* RTMP_SetupURL, RTMP_EnableWrite, RTMP_Connect0, any of which may fail   *)
(* before there is a connection, and the first write of HandShake.         *)
TcpConnect ==
  /\ phase = "idle"
  /\ \/ \E s \in WriteN([h EXCEPT !.sock = "open"], Command("C0C1")) :
          Becomes(s) /\ phase' = IF s.sock = "open" THEN "S0S1" ELSE "failed"
     \/ UNCHANGED <<h, toServer>> /\ phase' = "failed"
  /\ UNCHANGED <<media, peer, toClient, serverVars>>

(* HandShake and SendConnectPacket: each answer is read, the next message  *)
(* is written, and when either fails RTMP_Connect1 closes the handle.      *)
HandShake ==
  /\ phase \in {"S0S1", "S2"} /\ toClient # <<>> /\ toClient' = Tail(toClient)
  /\ LET sends == IF phase = "S0S1" THEN WriteN(h, Command("C2"))
                  ELSE Invoke(h, "connect", 0, TRUE)
         next  == IF phase = "S0S1" THEN "S2" ELSE "stream"
     IN  \E s \in sends :
           Becomes(s) /\ phase' = IF s.sock = "open" THEN next ELSE "failed"
  /\ UNCHANGED <<media, peer, serverVars>>

(* A round of RTMP_ConnectStream, which ends when the stream plays or the  *)
(* handle was closed.                                                      *)
ReadPacket ==
  /\ Runs /\ phase = "stream" /\ toClient # <<>> /\ toClient' = Tail(toClient)
  /\ \E s \in HandlePacket(h, Head(toClient)) :
       /\ Becomes(s)
       /\ phase' = IF s.playing THEN "open" ELSE IF s.sock = "none" THEN "failed"
                   ELSE "stream"
  /\ UNCHANGED <<media, peer, serverVars>>

(* Mutant: no receive timeout.                                             *)
ReadFailsOnlyAtEnd ==
  /\ Runs /\ phase \in {"S0S1", "S2", "stream"} /\ toClient = <<>> /\ ~peer
  /\ phase' = "failed" /\ \E s \in Close(h) : Becomes(s)
  /\ UNCHANGED <<media, peer, toClient, serverVars>>

(* ReadN finds nothing: for Link.timeout seconds, after which              *)
(* RTMP_ConnectStream gives up with the handle as it is and RTMP_Connect1  *)
(* closes it; or because the connection ended, and ReadN closes it.        *)
ReadFails ==
  /\ Runs /\ phase \in {"S0S1", "S2", "stream"} /\ toClient = <<>>
  /\ phase' = "failed"
  /\ \/ phase = "stream" /\ UNCHANGED <<h, toServer>>
     \/ (phase # "stream" \/ ~peer) /\ \E s \in Close(h) : Becomes(s)
  /\ UNCHANGED <<media, peer, toClient, serverVars>>

(* RTMP_SendPacket for a media packet with that stream in its header.      *)
Send(name, stream) ==
  /\ Runs /\ phase = "open" /\ media < MaxMedia /\ media' = media + 1
  /\ \E s \in WriteN(h, [cmd |-> name, txn |-> 0, id |-> stream]) : Becomes(s)
  /\ UNCHANGED <<phase, peer, toClient, serverVars>>

(* A packet of createVideoPacket or createAudioPacket: on the stream of    *)
(* the handle.                                                             *)
SendMedia == Send("media", h.stream)

(* The packet of createSpsPpsPacket, before an I frame: m_nInfoField2 is   *)
(* never written, and goes out as malloc left it.                          *)
SendSpsPps == \E stream \in Garbage : Send("spsPps", stream)

(* RTMP_Close of the native close, or of a connect that failed.            *)
CloseHandle ==
  /\ Runs /\ phase \in {"open", "failed"} /\ phase' = "closed"
  /\ \E s \in Close(h) : Becomes(s)
  /\ UNCHANGED <<media, peer, toClient, serverVars>>

-----------------------------------------------------------------------------
(* The server, as librtmp uses it.                                         *)

Packet(kind) == [kind |-> kind, txn |-> 0, id |-> 0]
Result(txn, id) == [kind |-> "result", txn |-> txn, id |-> id]

(* A server answers a command with packets, and may grant something.       *)
Reply(sends, grants) == [sends |-> sends, grants |-> grants]

Replies(m) ==
  CASE m.cmd = "C0C1" -> {Reply(<<Packet("S0S1"), Packet("S2")>>, {"S0S1", "S2"})}
    [] m.cmd = "connect" ->
         {Reply(<<Result(m.txn, 0)>>, {"connected"})}
           \cup {Reply(<<Packet(k)>>, {}) : k \in {"error", "failed"}}
    [] m.cmd \in {"releaseStream", "FCPublish"} ->
         {Reply(<<>>, {}), Reply(<<Result(m.txn, 0)>>, {})}
    [] m.cmd = "createStream" ->
         {Reply(<<Packet("error")>>, {})}
           \cup {Reply(<<Result(m.txn, id)>>, {"stream"}) : id \in StreamIds}
    [] m.cmd = "publish" ->
         {Reply(<<p>>, {"published"}) : p \in {Packet("start"), Result(m.txn, 0)}}
           \cup {Reply(<<Packet(k)>>, {}) : k \in {"badName", "failed"}}
    [] m.cmd = "_checkbw" -> {Reply(<<Packet("onbwcheck")>>, {})}
    [] OTHER -> {Reply(<<>>, {})}

Dialog == INSTANCE PublishDialog

(* The step of the dialog that a command is: SPS and PPS are media too.    *)
StepOf(m) == IF m.cmd = "spsPps" THEN "media" ELSE m.cmd

(* The place of a command in the dialog, 0 if it has none.                 *)
Place(m) ==
  IF \E n \in DOMAIN Dialog!Steps : Dialog!Steps[n] = StepOf(m)
  THEN CHOOSE n \in DOMAIN Dialog!Steps : Dialog!Steps[n] = StepOf(m) ELSE 0

ServerReads ==
  /\ peer /\ toServer # <<>> /\ toServer' = Tail(toServer)
  /\ LET m == Head(toServer)
     IN  /\ heard' = IF Place(m) = 0 THEN heard ELSE Place(m)
         /\ \E r \in Replies(m) :
              /\ toClient' = toClient \o r.sends
              /\ granted' = granted \cup r.grants
              /\ streams' = streams \cup ({p.id : p \in Range(r.sends)} \ {0})
              /\ gaveUp' = (gaveUp \/ Packet("failed") \in Range(r.sends))
  /\ UNCHANGED <<clientVars, peer, chat>>

ServerChats ==
  /\ peer /\ "connected" \in granted /\ chat > 0
  /\ chat' = chat - 1
  /\ \E k \in Chatter :
       /\ toClient' = Append(toClient, Packet(k))
       /\ gaveUp' = (gaveUp \/ k \in {"failed", "close"})
  /\ UNCHANGED <<clientVars, peer, toServer, heard, granted, streams>>

(* The connection breaks.  What the client has not received may be lost.   *)
ConnectionBreaks ==
  /\ peer /\ h.sock = "open" /\ peer' = FALSE
  /\ \E n \in 0..Len(toClient) : toClient' = SubSeq(toClient, 1, n)
  /\ toServer' = <<>>
  /\ UNCHANGED <<clientVars, serverVars>>

ClientStep == AllocHandle \/ TcpConnect \/ HandShake \/ ReadPacket \/ ReadFails
RtmpNext ==
  \/ ClientStep \/ SendMedia \/ SendSpsPps \/ CloseHandle
  \/ ServerReads \/ ServerChats \/ ConnectionBreaks

RtmpSpec == RtmpInit /\ [][RtmpNext]_rtmpVars

(* The thread in connect runs on; nothing is assumed of the server.        *)
FairRtmpSpec == RtmpSpec /\ WF_rtmpVars(ClientStep)

-----------------------------------------------------------------------------
(* RTMP_ConnectStream succeeds only on a stream that the server granted    *)
(* and agreed to see published, and every frame of video or sound under    *)
(* way names a granted stream: no answer is taken for another, whatever    *)
(* comes in between (rtmp.c 2304-2376, 2454-2466; rtmplibrary.cpp 340,     *)
(* 377).  Of the packets of SPS and PPS nothing of the kind is true: they  *)
(* name whatever stream malloc left in them (rtmplibrary.cpp 274-284).     *)
OpenIsPublished ==
  /\ phase = "open" /\ h.sock = "open" =>
       h.playing /\ h.stream \in streams /\ "published" \in granted
  /\ \A m \in Range(toServer) : m.cmd = "media" => m.id \in streams

Said(step) ==
  \/ heard >= Place(Command(step))
  \/ \E m \in Range(toServer) : m.cmd = step

(* A handle that asked to publish tells the server that the stream ends,   *)
(* on every path to RTMP_Close, a refused publish and a timeout included,  *)
(* unless the connection broke or the server ended the matter itself       *)
(* (rtmp.c 970-1003, 2418-2428, 3381-3399; rtmplibrary.cpp 259-263).       *)
ServerIsTold ==
  phase = "closed" /\ peer /\ ~gaveUp /\ Said("publish") => Said("deleteStream")

(* WriteN and RTMP_Close call each other without end only on a broken      *)
(* connection whose stream was granted; in particular no failure of the    *)
(* handshake, of connect or of createStream gets there                     *)
(* (rtmp.c 1379-1391, 3381-3394).                                          *)
RecursionNeedsStream == h.recursion => ~peer /\ streams # {}

(* The server hears the dialog it expects, in order, with every answer     *)
(* awaited (rtmp.c 2326-2376, 3044-3081, 3381-3399).                       *)
DialogSpec == Dialog!Spec

(* A connect that has begun ends, as long as the server does not send for  *)
(* ever: a silent one is given up (rtmp.c 832-841, 1253-1300, 970-1003).   *)
ConnectEnds ==
  phase \in {"idle", "S0S1", "S2", "stream"}
    ~> phase \in {"open", "failed", "closed"} \/ h.recursion

=============================================================================
