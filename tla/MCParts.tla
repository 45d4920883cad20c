------------------------------ MODULE MCParts ------------------------------
(***************************************************************************)
(* The parts of the program that share no state, each on its own: a        *)
(* behaviour picks one part and takes the steps of that part only.         *)
(***************************************************************************)
EXTENDS SafeQueue, LiveTaskPool, FramePipeline, ServerList, ScreenShotLive,
        VideoPackets, AmfCodec, TLC

VARIABLE part

partVars ==
  <<queueVars, poolVars, pipelineVars, serverListVars, screenShotVars, packetVars,
    amfVars, part>>

(* The bounds of "clicks", where connect is clicked at any time: a         *)
(* recording from after the first connect on, without a file, and neither  *)
(* the user nor the server disconnects.  In "screen" connects come one at  *)
(* a time, and recordings and the end in any way.                          *)
OneRecording ==
  /\ records <= 1 /\ recorder = "no" /\ ~mediaMuxer
  /\ ~missed /\ ~dropped /\ ~destroyed /\ \A r \in Lives : rtmp[r] # "lost"

PartsInit ==
  /\ part \in {"queue", "pool", "pipeline", "servers", "screen", "clicks", "packets",
              "amf"}
  /\ QueueInit /\ PoolInit /\ PipelineInit /\ ServerListInit /\ ScreenInit
  /\ PacketInit /\ AmfInit
  /\ part # "queue" => work

PartsNext ==
  /\ UNCHANGED part
  /\ \/ /\ part = "queue" /\ QueueNext
        /\ UNCHANGED <<poolVars, pipelineVars, serverListVars, screenShotVars, packetVars,
                       amfVars>>
     \/ /\ part = "pool" /\ PoolNext
        /\ UNCHANGED <<queueVars, pipelineVars, serverListVars, screenShotVars, packetVars,
                       amfVars>>
     \/ /\ part = "pipeline" /\ PipelineNext
        /\ UNCHANGED <<queueVars, poolVars, serverListVars, screenShotVars, packetVars,
                       amfVars>>
     \/ /\ part = "servers" /\ ServerListNext
        /\ UNCHANGED <<queueVars, poolVars, pipelineVars, screenShotVars, packetVars,
                       amfVars>>
     \/ /\ \/ part = "screen" /\ ScreenNext /\ ~double'
           \/ part = "clicks" /\ ScreenNext /\ OneRecording'
        /\ UNCHANGED <<queueVars, poolVars, pipelineVars, serverListVars, packetVars,
                       amfVars>>
     \/ /\ part = "packets" /\ PacketNext
        /\ UNCHANGED <<queueVars, poolVars, pipelineVars, serverListVars, screenShotVars,
                       amfVars>>
     \/ /\ part = "amf" /\ AmfNext
        /\ UNCHANGED <<queueVars, poolVars, pipelineVars, serverListVars, screenShotVars,
                       packetVars>>

PartsSpec == PartsInit /\ [][PartsNext]_partVars

(* Which of the unused Lives a connect takes makes no difference, nor      *)
(* which IO thread it runs on.                                             *)
Symmetric == Permutations(Lives) \cup Permutations(Attempts)

(* The back camera comes first; the front camera has smaller pictures.     *)
Sizes == ("back" :> 2) @@ ("front" :> 1)

(* Units with zeros, ones and type bytes where a start code might seem to  *)
(* be, and units whose length takes two bytes.                             *)
Long(type)   == [i \in 1..260 |-> IF i = 1 THEN type ELSE 65]
SpsExamples  == {<<SPS, b, c, 104>> : b, c \in {0, 1, 104}} \cup {Long(SPS)}
PpsExamples  == {<<PPS>>, <<PPS, 0, 1>>, <<PPS, 1>>, Long(PPS)}
SliceExamples == {<<65>>, <<65, 0, 104>>, <<IDR, 103>>, Long(IDR)}
Memory == {<<0, 0, 0, 1>>, <<0, 0, 1, 104>>, <<0, 1, 104, 0>>, <<1, 104, 0, 0>>,
           <<1, 103, 0, 0>>, <<104, 0, 0, 0>>}

(* Values that the decoder reads, those that hide an end mark included, and *)
(* values with one it does not support ahead of other members or objects.  *)
N(b)  == Value("number", <<b, 0, 9, 0, 0, 9, 240, 63>>)
S(b)  == Value("string", <<b, 0, 0, 9>>)
O(ms) == Value("object", ms)
M(b, v) == Member(<<b>>, v)
Xml  == Value("xml", <<60, 62>>)
Flat == {N(1), S(65), Value("string", <<>>), Value("boolean", TRUE), Value("null", <<>>),
         Value("date", <<0, 0, 0, 1, 0, 9, 120, 66>>), Value("long", <<66, 67>>), Xml}
Deep == Flat
  \cup {Value(t, <<M(97, v), M(98, O(<<M(99, S(67))>>)), M(100, N(2))>>) :
           t \in {"object", "ecma"}, v \in Flat}
  \cup {Value("array", Unnamed(<<v, O(<<M(99, w)>>)>>)) : v, w \in {S(65), N(1), Xml}}
AnswerExamples ==
  {<<S(95), N(3), Value("null", <<>>), O(<<M(97, v), M(98, w)>>), last>> :
     v \in Deep, w \in {S(69), Xml, O(<<M(99, S(67))>>)}, last \in {N(4), Xml, O(<<>>)}}

(* Every size from the head of the command to the longest command.         *)
RoomExamples == 20..130

(* With and without swfUrl; the extras that "conn=" options can write.     *)
FieldExamples ==
  {<<M(97, Value("string", <<108>>)), M(116, S(110))>> \o swf \o <<M(117, S(114))>> :
     swf \in {<<>>, <<M(115, S(104))>>}}
AuthExamples  == {<<>>, <<Value("boolean", TRUE), S(107)>>}
ExtraExamples ==
  {<<>>, <<Value("boolean", TRUE), Value("null", <<>>)>>,
   <<O(<<M(97, N(1)), M(98, O(<<M(99, S(67)), M(100, N(2))>>)), M(101, Value("boolean", FALSE))>>), S(65)>>,
   <<O(<<M(97, Value("boolean", TRUE))>>), O(<<>>)>>}

=============================================================================
