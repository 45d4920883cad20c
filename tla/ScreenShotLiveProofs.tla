------------------------- MODULE ScreenShotLiveProofs -------------------------
(***************************************************************************)
(* Proofs about ScreenShotLive, for any number of connects, recordings,    *)
(* pictures and sessions.                                                  *)
(*                                                                         *)
(* ScreenInv says which native call each thread may be in (Callers), what  *)
(* the encoder emits next against what the handler thread holds (Emitted), *)
(* which session there is as long as nobody disconnected and connects came *)
(* in turn (OneSession), and how far the muxer is as long as no stop met   *)
(* the handler thread's use of it (Fresh, Apart).                          *)
(***************************************************************************)
EXTENDS ScreenShotLive, RtmpSessionProofs

ButtonsOK ==
  /\ rtmpConnectState \in BOOLEAN /\ destroyed \in BOOLEAN /\ dropped \in BOOLEAN
  /\ double \in BOOLEAN
  /\ connect \in [Attempts -> {"none", "launched", "calling"}]

RecordOK ==
  /\ isScreeningShot \in BOOLEAN /\ consuming \in BOOLEAN
  /\ recorder \in {"no", "stop", "release", "clear"}
  /\ records \in Nat /\ producers \in Nat /\ queue \in Nat /\ copies \in Nat

MuxerOK ==
  /\ mediaMuxer \in BOOLEAN /\ isMuxerStarted \in BOOLEAN /\ written \in BOOLEAN
  /\ cut \in BOOLEAN
  /\ muxer \in {"none", "new", "started", "stopped", "released"}

CopierOK ==
  /\ copier \in {"idle", "drain", "write", "create", "addTrack", "start", "mark", "offer",
                 "send", "sending"}
  /\ output \in Frames /\ encoder \in {"null", "format"} \cup Frames
  /\ missed \in BOOLEAN

ScreenTypeOK ==
  /\ SessionTypeOK
  /\ ButtonsOK /\ RecordOK /\ MuxerOK /\ CopierOK /\ thrown \in BOOLEAN

(* The IO threads only connect, the handler thread only sends video.       *)
Callers ==
  /\ \A a \in Attempts :
       call[a].pc # "idle" => connect[a] = "calling" /\ call[a].op = "connect"
  /\ call[Copier].pc # "idle" => copier = "sending" /\ call[Copier].op = "sendVideo"

(* The format comes once, before SPS and PPS, and those before a frame.    *)
Emitted ==
  /\ copier # "idle" => encoder # "null"
  /\ copier \in {"write", "offer", "send", "sending"} => encoder \in {"key", "inter"}
  /\ copier \in {"create", "addTrack", "start", "mark"} => encoder = "config"

(* SPS and PPS left the encoder and the handler thread no longer has them. *)
Handed ==
  encoder \in {"key", "inter"} /\ ~(copier \in {"write", "offer", "send"} /\ output = "config")

Pending(a) == connect[a] # "none"
Calling == \E a \in Attempts : connect[a] = "calling"

(* Until somebody disconnects or clicks connect twice, the flag says       *)
(* whether there is a session, and nobody sends beside a connect.          *)
OneSession ==
  Orderly =>
    /\ Leads /\ \A a \in Attempts : Changer(a)
    /\ \A a, b \in Attempts : Pending(a) /\ Pending(b) => a = b
    /\ \A a \in Attempts : Pending(a) => ~rtmpConnectState
    /\ copier \in {"send", "sending"} => rtmpConnectState
    /\ ~Calling =>
         IF rtmpConnectState THEN Current({"open", "lost"}) ELSE mLive = NULL
    /\ Handed /\ ~missed => rtmpConnectState /\ mLive \in told

(* There is one muxer, from the one format an encoder ever reports.        *)
Fresh ==
  /\ encoder \in {"null", "format"} \/ copier = "create" =>
       muxer = "none" /\ ~mediaMuxer /\ ~isMuxerStarted
  /\ recorder \in {"stop", "release"} => mediaMuxer

(* As long as no stop of a recording meets the handler thread at the muxer.*)
Apart ==
  ~cut =>
    /\ recorder # "no" => ~UsesMuxer
    /\ copier \in {"addTrack", "start"} => mediaMuxer /\ muxer = "new"
    /\ copier = "mark" => mediaMuxer /\ muxer = "started"
    /\ copier = "write" => isMuxerStarted
    /\ mediaMuxer /\ ~UsesMuxer => isMuxerStarted
    /\ isMuxerStarted => mediaMuxer
    /\ isMuxerStarted /\ recorder \in {"no", "stop"} => muxer = "started"
    /\ recorder = "release" => written
    /\ muxer = "released" => written
    /\ ~thrown

ScreenInv ==
  /\ ScreenTypeOK /\ SessionInv
  /\ Callers /\ Emitted /\ OneSession /\ ScreenRules
  /\ Fresh /\ Apart

LEMMA RoleFacts ==
  /\ Attempts \subseteq Threads /\ Copier \in Threads /\ Copier \notin Attempts
  /\ \A t \in Threads : t \in Attempts \/ t = Copier
  BY ScreenAssumption

-----------------------------------------------------------------------------
(* The activity is a caller of the native session.                         *)

LEMMA ScreenStepImplements ==
  ASSUME ScreenTypeOK, [ScreenNext]_screenShotVars
  PROVE  [SessionNext]_sessionVars
<1> USE RoleFacts DEF sessionVars
<1>1. CASE MainStep
  BY <1>1 DEF MainStep, Click, StartRecording, StopRecording, StopMuxer, ReleaseMuxer,
       ClearMuxer, Destroy
<1>2. ASSUME NEW a \in Attempts, Connecting(a)
      PROVE  [SessionNext]_sessionVars
  BY <1>2 DEF Connecting, SessionNext, CallIn
<1>3. ASSUME NEW a \in Attempts, Connected(a)
      PROVE  [SessionNext]_sessionVars
  BY <1>3 DEF Connected, SessionNext
<1>4. CASE Produce \/ RequestCopy
  BY <1>4 DEF Produce, RequestCopy
<1>5. CASE CopierStep
  <2>1. CASE SendOutput
    BY <2>1 DEF SendOutput, SessionNext, CallIn, ScreenTypeOK, CopierOK
  <2>2. CASE OutputSent
    BY <2>2 DEF OutputSent, SessionNext
  <2>3. CASE ~SendOutput /\ ~OutputSent
    BY <1>5, <2>3 DEF CopierStep, CopyArrives, DrainEncoder, WriteSample, CreateMuxer, AddTrack,
         StartMuxer, UseMuxer, MarkMuxer, OfferOutput
  <2> QED
    BY <2>1, <2>2, <2>3
<1>6. CASE Below
  BY <1>6 DEF Below, SessionNext
<1>7. CASE UNCHANGED screenShotVars
  BY <1>7 DEF screenShotVars
<1> QED
  BY <1>1, <1>2, <1>3, <1>4, <1>5, <1>6, <1>7 DEF ScreenNext

-----------------------------------------------------------------------------
(* Types.                                                                  *)

LEMMA ScreenTypeStep ==
  ASSUME ScreenTypeOK, Emitted, [ScreenNext]_screenShotVars
  PROVE  ScreenTypeOK'
<1>0. SessionTypeOK'
  BY ScreenStepImplements, TypeStep DEF ScreenTypeOK
<1> USE <1>0 DEF ScreenTypeOK
<1>b. UNCHANGED buttonVars => ButtonsOK'
  BY DEF ButtonsOK, buttonVars
<1>r. UNCHANGED recordVars => RecordOK'
  BY DEF RecordOK, recordVars
<1>m. UNCHANGED muxerVars => MuxerOK'
  BY DEF MuxerOK, muxerVars
<1>c. UNCHANGED copierVars => CopierOK'
  BY DEF CopierOK, copierVars
<1> USE <1>b, <1>r, <1>m, <1>c
<1>1. CASE MainStep
  <2>1. CASE Click
    BY <2>1 DEF Click, ButtonsOK
  <2>2. CASE StartRecording
    BY <2>2 DEF StartRecording, RecordOK
  <2>3. CASE StopRecording
    BY <2>3 DEF StopRecording, RecordOK, MuxerOK
  <2>4. CASE StopMuxer
    BY <2>4 DEF StopMuxer, RecordOK, MuxerOK
  <2>5. CASE ReleaseMuxer
    BY <2>5 DEF ReleaseMuxer, RecordOK, MuxerOK
  <2>6. CASE ClearMuxer
    BY <2>6 DEF ClearMuxer, RecordOK, MuxerOK
  <2>7. CASE Destroy
    BY <2>7 DEF Destroy, ButtonsOK, RecordOK
  <2> QED
    BY <1>1, <2>1, <2>2, <2>3, <2>4, <2>5, <2>6, <2>7 DEF MainStep
<1>2. ASSUME NEW a \in Attempts, Connecting(a) \/ Connected(a)
      PROVE  ScreenTypeOK'
  BY <1>2 DEF Connecting, Connected, ButtonsOK
<1>3. CASE Produce
  BY <1>3 DEF Produce, RecordOK
<1>4. CASE RequestCopy
  BY <1>4 DEF RequestCopy, RecordOK
<1>5. CASE CopierStep
  <2>1. CASE CopyArrives
    BY <2>1 DEF CopyArrives, RecordOK, CopierOK
  <2>2. CASE DrainEncoder
    BY <2>2 DEF DrainEncoder, After, Frames, Emitted, MuxerOK, CopierOK
  <2>3. CASE WriteSample
    BY <2>3 DEF WriteSample, Throw, MuxerOK, CopierOK
  <2>4. CASE CreateMuxer
    BY <2>4 DEF CreateMuxer, MuxerOK, CopierOK
  <2>5. CASE AddTrack
    BY <2>5 DEF AddTrack, UseMuxer, Throw, MuxerOK, CopierOK
  <2>6. CASE StartMuxer
    BY <2>6 DEF StartMuxer, UseMuxer, Throw, MuxerOK, CopierOK
  <2>7. CASE MarkMuxer
    BY <2>7 DEF MarkMuxer, MuxerOK, CopierOK
  <2>8. CASE OfferOutput \/ SendOutput \/ OutputSent
    BY <2>8 DEF OfferOutput, SendOutput, OutputSent, CopierOK
  <2> QED
    BY <1>5, <2>1, <2>2, <2>3, <2>4, <2>5, <2>6, <2>7, <2>8 DEF CopierStep
<1>6. CASE Below \/ UNCHANGED screenShotVars
  BY <1>6 DEF Below, screenShotVars
<1> QED
  BY <1>1, <1>2, <1>3, <1>4, <1>5, <1>6 DEF ScreenNext

-----------------------------------------------------------------------------
(* Steps that are none of the connection's: the coroutine, the handler     *)
(* thread's call and the session stay where they were.                     *)
ConnectionStep ==
  \/ Click \/ Destroy \/ OfferOutput \/ SendOutput \/ OutputSent \/ Below
  \/ \E a \in Attempts : Connecting(a) \/ Connected(a)

LEMMA OtherSteps ==
  ASSUME [ScreenNext]_screenShotVars, ~ConnectionStep
  PROVE  /\ UNCHANGED sessionVars
         /\ UNCHANGED <<rtmpConnectState, connect, dropped, double, missed>>
         /\ copier' \in {"send", "sending"} <=> copier \in {"send", "sending"}
         /\ copier' = "sending" <=> copier = "sending"
<1> USE DEF buttonVars, copierVars
<1>1. CASE StartRecording \/ StopRecording \/ StopMuxer \/ ReleaseMuxer \/ ClearMuxer
  BY <1>1 DEF StartRecording, StopRecording, StopMuxer, ReleaseMuxer, ClearMuxer
<1>2. CASE Produce \/ RequestCopy
  BY <1>2 DEF Produce, RequestCopy
<1>3. CASE CopyArrives \/ DrainEncoder \/ WriteSample \/ CreateMuxer \/ MarkMuxer
  BY <1>3 DEF CopyArrives, DrainEncoder, WriteSample, CreateMuxer, MarkMuxer, Throw
<1>4. CASE AddTrack \/ StartMuxer
  BY <1>4 DEF AddTrack, StartMuxer, UseMuxer, Throw
<1>5. CASE UNCHANGED screenShotVars
  BY <1>5 DEF screenShotVars
<1> QED
  BY <1>1, <1>2, <1>3, <1>4, <1>5 DEF ScreenNext, MainStep, CopierStep, ConnectionStep

LEMMA CallersStep ==
  ASSUME ScreenTypeOK, Callers, [ScreenNext]_screenShotVars
  PROVE  Callers'
<1>t. SessionTypeOK
  BY DEF ScreenTypeOK
<1> USE <1>t, RoleFacts DEF Callers, buttonVars, copierVars
<1>1. CASE Click \/ Destroy
  BY <1>1 DEF Click, Destroy, sessionVars, ScreenTypeOK, ButtonsOK
<1>2. ASSUME NEW a \in Attempts, Connecting(a)
      PROVE  Callers'
  BY <1>2, CallKinds DEF Connecting, CallIn, sessionVars, ScreenTypeOK, ButtonsOK
<1>3. ASSUME NEW a \in Attempts, Connected(a)
      PROVE  Callers'
  BY <1>3, ReturnCall DEF Connected, ScreenTypeOK, ButtonsOK
<1>4. CASE OfferOutput \/ SendOutput
  BY <1>4, CallKinds DEF OfferOutput, SendOutput, CallIn, sessionVars, ScreenTypeOK, CopierOK
<1>5. CASE OutputSent
  BY <1>5, ReturnCall DEF OutputSent
<1>6. CASE Below
  <2>1. CASE \E r \in Lives : PeerLost(r)
    BY <1>6, <2>1 DEF Below, PeerLost
  <2>2. ASSUME NEW t \in Threads, NativeStep(t)
        PROVE  Callers'
    BY <1>6, <2>2, NativeCall DEF Below
  <2> QED
    BY <1>6, <2>1, <2>2 DEF Below
<1>7. CASE ~ConnectionStep
  BY <1>7, OtherSteps DEF sessionVars
<1> QED
  BY <1>1, <1>2, <1>3, <1>4, <1>5, <1>6, <1>7 DEF ConnectionStep

(* SPS and PPS are not handed over behind the connection's back.           *)
LEMMA HandedLater ==
  ASSUME ScreenTypeOK, Emitted, [ScreenNext]_screenShotVars, ~ConnectionStep
  PROVE  Handed' => Handed
<1> USE DEF Handed, copierVars
<1>1. CASE StartRecording \/ StopRecording \/ StopMuxer \/ ReleaseMuxer \/ ClearMuxer
  BY <1>1 DEF StartRecording, StopRecording, StopMuxer, ReleaseMuxer, ClearMuxer
<1>2. CASE Produce \/ RequestCopy
  BY <1>2 DEF Produce, RequestCopy
<1>3. CASE CopyArrives \/ MarkMuxer
  BY <1>3 DEF CopyArrives, MarkMuxer
<1>4. CASE WriteSample
  BY <1>4 DEF WriteSample, Throw
<1>5. CASE CreateMuxer
  BY <1>5 DEF CreateMuxer
<1>6. CASE DrainEncoder
  BY <1>6 DEF DrainEncoder, After, Emitted, ScreenTypeOK, CopierOK, Frames
<1>7. CASE AddTrack \/ StartMuxer
  BY <1>7 DEF AddTrack, StartMuxer, UseMuxer, Throw
<1>8. CASE UNCHANGED screenShotVars
  BY <1>8 DEF screenShotVars
<1> QED
  BY <1>1, <1>2, <1>3, <1>4, <1>5, <1>6, <1>7, <1>8
     DEF ScreenNext, MainStep, CopierStep, ConnectionStep

LEMMA HistoryGrows ==
  ASSUME ScreenTypeOK, [ScreenNext]_screenShotVars
  PROVE  (Orderly' => Orderly) /\ (~missed' => ~missed)
<1> USE DEF buttonVars, copierVars, ScreenTypeOK, ButtonsOK, CopierOK, Orderly
<1>1. CASE Click \/ Destroy
  BY <1>1 DEF Click, Destroy
<1>2. CASE Below \/ \E a \in Attempts : Connecting(a) \/ Connected(a)
  BY <1>2 DEF Connecting, Connected, Below
<1>3. CASE OfferOutput \/ SendOutput \/ OutputSent
  BY <1>3 DEF OfferOutput, SendOutput, OutputSent
<1> QED
  BY <1>1, <1>2, <1>3, OtherSteps DEF ConnectionStep

-----------------------------------------------------------------------------
(* The encoder and the muxer.                                              *)

LEMMA EmittedStep ==
  ASSUME ScreenTypeOK, Emitted, [ScreenNext]_screenShotVars
  PROVE  Emitted'
<1> USE DEF Emitted, copierVars
<1>1. CASE CopierStep
  <2>1. CASE CopyArrives \/ WriteSample \/ CreateMuxer
    BY <2>1 DEF CopyArrives, WriteSample, CreateMuxer, Throw
  <2>2. CASE DrainEncoder
    BY <2>2 DEF DrainEncoder, After, ScreenTypeOK, CopierOK, Frames
  <2>3. CASE AddTrack \/ StartMuxer \/ MarkMuxer
    BY <2>3 DEF AddTrack, StartMuxer, UseMuxer, MarkMuxer, Throw
  <2>4. CASE OfferOutput \/ SendOutput \/ OutputSent
    BY <2>4 DEF OfferOutput, SendOutput, OutputSent
  <2> QED
    BY <1>1, <2>1, <2>2, <2>3, <2>4 DEF CopierStep
<1>2. CASE ~CopierStep
  BY <1>2 DEF ScreenNext, MainStep, Click, StartRecording, StopRecording, StopMuxer, ReleaseMuxer,
       ClearMuxer, Destroy, Connecting, Connected, Produce, RequestCopy, Below, screenShotVars
<1> QED
  BY <1>1, <1>2

LEMMA MuxerStep ==
  ASSUME ScreenTypeOK, Emitted, Fresh, Apart, [ScreenNext]_screenShotVars
  PROVE  Fresh' /\ Apart'
<1> USE DEF Fresh, Apart, UsesMuxer, recordVars, muxerVars, copierVars
<1>1. CASE MainStep
  <2>1. CASE Click \/ StartRecording \/ Destroy
    BY <2>1 DEF Click, StartRecording, Destroy
  <2>2. CASE StopRecording
    BY <2>2 DEF StopRecording, MainFree
  <2>3. CASE StopMuxer
    BY <2>3 DEF StopMuxer, Emitted
  <2>4. CASE ReleaseMuxer
    BY <2>4 DEF ReleaseMuxer, Emitted
  <2>5. CASE ClearMuxer
    BY <2>5 DEF ClearMuxer
  <2> QED
    BY <1>1, <2>1, <2>2, <2>3, <2>4, <2>5 DEF MainStep
<1>2. CASE Produce \/ RequestCopy \/ \E a \in Attempts : Connecting(a) \/ Connected(a)
  BY <1>2 DEF Connecting, Connected, Produce, RequestCopy
<1>3. CASE CopierStep
  <2>1. CASE CopyArrives
    BY <2>1 DEF CopyArrives
  <2>2. CASE DrainEncoder
    BY <2>2 DEF DrainEncoder, After, ScreenTypeOK, CopierOK, Frames
  <2>3. CASE WriteSample
    BY <2>3 DEF WriteSample, Throw, Emitted
  <2>4. CASE CreateMuxer
    <3>1. CASE copier' = "idle" /\ UNCHANGED <<mediaMuxer, muxer, cut>>
      BY <2>4, <3>1 DEF CreateMuxer, Emitted
    <3>2. CASE /\ copier' = "addTrack" /\ mediaMuxer' = TRUE /\ muxer' = "new"
               /\ cut' = (cut \/ recorder # "no")
      <4>1. /\ encoder' = "config" /\ ~isMuxerStarted' /\ UNCHANGED <<recorder, thrown, written>>
            /\ mediaMuxer' /\ (~cut' => ~cut /\ recorder = "no")
        BY <2>4, <3>2 DEF CreateMuxer, Emitted
      <4>2. Fresh'
        BY <3>2, <4>1
      <4> QED
        BY <3>2, <4>1, <4>2
    <3> QED
      BY <2>4, <3>1, <3>2 DEF CreateMuxer
  <2>5. CASE AddTrack
    BY <2>5 DEF AddTrack, UseMuxer, Throw, Emitted
  <2>6. CASE StartMuxer
    BY <2>6 DEF StartMuxer, UseMuxer, Throw, Emitted
  <2>7. CASE MarkMuxer
    BY <2>7 DEF MarkMuxer, Emitted
  <2>8. CASE OfferOutput \/ SendOutput \/ OutputSent
    BY <2>8 DEF OfferOutput, SendOutput, OutputSent
  <2> QED
    BY <1>3, <2>1, <2>2, <2>3, <2>4, <2>5, <2>6, <2>7, <2>8 DEF CopierStep
<1>4. CASE Below \/ UNCHANGED screenShotVars
  BY <1>4 DEF Below, screenShotVars
<1> QED
  BY <1>1, <1>2, <1>3, <1>4 DEF ScreenNext

-----------------------------------------------------------------------------
(* The session, and the rules of its caller.                               *)

(* As long as all is in order: the handler thread is never at the library  *)
(* beside a connect, and finds a session there.                            *)
LEMMA SendsAlone ==
  ASSUME OneSession, Orderly, rtmpConnectState
  PROVE  (\A a \in Attempts : ~Pending(a)) /\ Current({"open", "lost"}) /\ mLive # NULL
  BY DEF OneSession, Pending, Calling, Current

(* What a step leaves of the session when it changes neither it, nor a     *)
(* connect, nor what the handler thread has handed over.                   *)
LEMMA SameSession ==
  ASSUME SessionTypeOK, OneSession, UNCHANGED <<mLive, rtmp, rtmpConnectState, connect>>,
         \A l \in Lives : lives'[l].rtmp = lives[l].rtmp,
         \A a \in Attempts : call'[a] = call[a],
         told \subseteq told', Orderly' => Orderly,
         Handed' /\ ~missed' => Handed /\ ~missed,
         copier' \in {"send", "sending"} => copier \in {"send", "sending"}
  PROVE  OneSession'
<1>1. (Leads => Leads') /\ \A a \in Attempts : Changer(a) => Changer(a)'
  BY SameChanger, RoleFacts
<1>2. Current({"open", "lost"}) => Current({"open", "lost"})'
  BY SameChanger
<1> QED
  BY <1>1, <1>2 DEF OneSession, Pending, Calling

LEMMA OneSessionStep ==
  ASSUME ScreenTypeOK, ShapeOK, Callers, Emitted, OneSession, [ScreenNext]_screenShotVars
  PROVE  OneSession'
<1>t. SessionTypeOK /\ connect \in [Attempts -> {"none", "launched", "calling"}]
  BY DEF ScreenTypeOK, ButtonsOK
<1>g. (Orderly' => Orderly) /\ (~missed' => ~missed)
  BY HistoryGrows
<1> USE <1>t, <1>g, RoleFacts DEF buttonVars, copierVars
<1>1. CASE Click
  <2>1. UNCHANGED sessionVars /\ UNCHANGED <<copier, encoder, output, missed>>
    BY <1>1 DEF Click
  <2>2. CASE ~Orderly'
    BY <2>2 DEF OneSession
  <2>3. CASE Orderly'
    <3>1. PICK a \in Attempts :
            /\ Orderly /\ ~rtmpConnectState /\ ~rtmpConnectState'
            /\ \A b \in Attempts : connect[b] = "none"
            /\ connect' = [connect EXCEPT ![a] = "launched"]
      <4>1. /\ ~rtmpConnectState /\ UNCHANGED <<rtmpConnectState, dropped>>
            /\ double' = (double \/ \E b \in Attempts : connect[b] # "none")
            /\ \E a \in Attempts : connect' = [connect EXCEPT ![a] = "launched"]
        BY <1>1, <2>3 DEF Click, Orderly
      <4>2. Orderly /\ \A b \in Attempts : connect[b] = "none"
        BY <2>3, <4>1 DEF Orderly
      <4> QED
        BY <4>1, <4>2
    <3>2. Leads' /\ \A b \in Attempts : Changer(b)'
      BY <2>1, <3>1, SameChanger DEF OneSession, sessionVars
    <3>3. /\ mLive' = NULL /\ copier' \notin {"send", "sending"}
          /\ ~(Handed' /\ ~missed')
      BY <2>1, <3>1 DEF OneSession, Handed, Calling, sessionVars
    <3> QED
      BY <3>1, <3>2, <3>3 DEF OneSession, Pending
  <2> QED
    BY <2>2, <2>3
<1>2. CASE Destroy
  BY <1>2, SameSession DEF Destroy, Handed, sessionVars, history
<1>3. ASSUME NEW a \in Attempts, Connecting(a)
      PROVE  OneSession'
  <2>1. /\ UNCHANGED <<rtmpConnectState, dropped, double, copierVars>>
        /\ connect[a] = "launched"
        /\ \/ CallConnect(a) /\ connect' = [connect EXCEPT ![a] = "calling"]
           \/ connect' = [connect EXCEPT ![a] = "none"] /\ UNCHANGED sessionVars
    BY <1>3 DEF Connecting
  <2>2. Orderly => ~Calling /\ ~rtmpConnectState /\ mLive = NULL
    BY <2>1 DEF OneSession, Pending, Calling
  <2>3. CASE CallConnect(a) /\ connect' = [connect EXCEPT ![a] = "calling"]
    <3>1. /\ call'[a].pc = "alloc" /\ UNCHANGED <<mLive, lives, rtmp>>
          /\ \A u \in Threads \ {a} : call'[u] = call[u]
          /\ told \subseteq told'
      BY <2>3, CallKinds, CallKeeps DEF CallIn
    <3>2. Orderly => Leads' /\ \A b \in Attempts \ {a} : Changer(b)'
      BY <2>1, <3>1, SameChanger DEF OneSession
    <3>3. Orderly => Changer(a)'
      BY <2>2, <3>1 DEF Changer
    <3>4. connect'[a] = "calling" /\ \A b \in Attempts \ {a} : connect'[b] = connect[b]
      BY <2>3
    <3>5. Calling'
      BY <3>4 DEF Calling
    <3>6. Orderly => \A b \in Attempts : Pending(b)' => b = a
      BY <2>1, <3>4 DEF OneSession, Pending
    <3> QED
      BY <2>1, <2>2, <3>1, <3>2, <3>3, <3>5, <3>6 DEF OneSession, Handed
  <2>4. CASE connect' = [connect EXCEPT ![a] = "none"] /\ UNCHANGED sessionVars
    <3>1. Orderly => Leads' /\ \A b \in Attempts : Changer(b)'
      BY <2>4, SameChanger DEF OneSession, sessionVars
    <3>2. \A b \in Attempts : Pending(b)' => Pending(b)
      BY <2>4 DEF Pending
    <3> QED
      BY <2>1, <2>2, <2>4, <3>1, <3>2 DEF OneSession, Handed, sessionVars
  <2> QED
    BY <2>1, <2>3, <2>4
<1>4. ASSUME NEW a \in Attempts, Connected(a)
      PROVE  OneSession'
  <2>1. /\ Return(a) /\ connect[a] = "calling" /\ connect' = [connect EXCEPT ![a] = "none"]
        /\ rtmpConnectState' = (call[a].pc = "true")
        /\ UNCHANGED <<dropped, double, copierVars>>
    BY <1>4 DEF Connected
  <2>2. /\ call'[a].pc = "idle" /\ UNCHANGED <<mLive, lives, rtmp, told>>
        /\ \A u \in Threads \ {a} : call'[u] = call[u]
        /\ call[a].pc \in {"true", "false"}
    BY <2>1, ReturnCall DEF Return, history
  <2>3. Orderly => Leads' /\ \A b \in Attempts \ {a} : Changer(b)'
    BY <2>2, SameChanger DEF OneSession
  <2>4. Changer(a)'
    BY <2>2 DEF Changer
  <2>5. Orderly => IF rtmpConnectState' THEN Current({"open", "lost"})' ELSE mLive' = NULL
    BY <2>1, <2>2 DEF OneSession, Changer, Current, CurrentRtmp
  <2>6. Orderly => ~(Handed /\ ~missed) /\ copier \notin {"send", "sending"}
    BY <2>1 DEF OneSession, Pending
  <2>7. Orderly => \A b \in Attempts : ~Pending(b)'
    BY <2>1 DEF OneSession, Pending
  <2> QED
    BY <2>1, <2>2, <2>3, <2>4, <2>5, <2>6, <2>7 DEF OneSession, Handed
<1>5. CASE OfferOutput
  <2>1. /\ UNCHANGED sessionVars /\ UNCHANGED <<buttonVars, output, encoder>>
        /\ copier = "offer"
        /\ \/ rtmpConnectState /\ copier' = "send" /\ UNCHANGED missed
           \/ copier' = "idle" /\ missed' = (missed \/ output = "config")
    BY <1>5 DEF OfferOutput
  <2>2. CASE copier' = "idle" /\ missed' = (missed \/ output = "config")
    BY <2>1, <2>2, SameSession DEF Handed, sessionVars, history
  <2>3. CASE rtmpConnectState /\ copier' = "send" /\ UNCHANGED missed
    <3>1. Orderly => Leads' /\ \A a \in Attempts : Changer(a)'
      BY <2>1, SameChanger DEF OneSession, sessionVars
    <3>2. Current({"open", "lost"}) => Current({"open", "lost"})'
      BY <2>1, SameChanger DEF sessionVars
    <3> QED
      BY <2>1, <2>3, <3>1, <3>2 DEF OneSession, Handed, Pending, Calling, sessionVars, history
  <2> QED
    BY <2>1, <2>2, <2>3
<1>6. CASE SendOutput
  <2>1. /\ UNCHANGED <<rtmpConnectState, connect, dropped, double, output, encoder, missed>>
        /\ copier = "send" /\ CallSendVideo(Copier, output) /\ copier' = "sending"
    BY <1>6 DEF SendOutput
  <2>2. CallIn(Copier)
    BY <2>1 DEF CallIn, ScreenTypeOK, CopierOK
  <2>3. /\ UNCHANGED <<mLive, lives, rtmp>> /\ \A a \in Attempts : call'[a] = call[a]
        /\ told \subseteq told'
        /\ told' = told \cup {l \in Lives : l = mLive /\ output = "config"}
    <3>1. told' = told \cup {l \in Lives : l = mLive /\ output = "config"}
      BY <2>1 DEF CallSendVideo, Enter
    <3> QED
      BY <2>2, <3>1, CallKinds, CallKeeps
  <2>4. Orderly => /\ Leads' /\ (\A a \in Attempts : Changer(a)')
                   /\ Current({"open", "lost"})' /\ rtmpConnectState /\ mLive \in Lives
    BY <2>1, <2>3, SameChanger, SendsAlone DEF OneSession, SessionTypeOK
  <2>5. Orderly /\ ~missed => mLive \in told'
    BY <2>1, <2>3, <2>4 DEF OneSession, Handed, Emitted
  <2> QED
    BY <2>1, <2>3, <2>4, <2>5, SendsAlone DEF OneSession, Pending
<1>7. CASE OutputSent
  <2>1. /\ Return(Copier) /\ copier = "sending" /\ copier' = "idle"
        /\ UNCHANGED <<rtmpConnectState, connect, output, encoder, missed>>
    BY <1>7 DEF OutputSent
  <2>2. UNCHANGED <<mLive, lives, rtmp, told>> /\ \A a \in Attempts : call'[a] = call[a]
    BY <2>1, ReturnCall DEF Return, history
  <2> QED
    BY <2>1, <2>2, SameSession DEF Handed
<1>8. CASE Below
  <2>1. UNCHANGED <<rtmpConnectState, connect, dropped, double, copierVars>>
    BY <1>8 DEF Below
  <2>2. CASE \E r \in Lives : PeerLost(r)
    <3>1. PICK r \in Lives : PeerLost(r)
      BY <2>2
    <3>2. told' = told
      BY <3>1 DEF PeerLost, history
    <3> QED
      BY <2>1, <3>1, <3>2, LostChanger DEF OneSession, Handed, Pending, Calling
  <2>3. CASE NativeStep(Copier)
    <3>1. call[Copier].op = "sendVideo" /\ told' = told
      BY <2>3, NativeCall, NativeTold DEF Callers
    <3>2. /\ UNCHANGED <<mLive, rtmp>> /\ \A l \in Lives : lives'[l].rtmp = lives[l].rtmp
          /\ \A a \in Attempts : call'[a] = call[a]
      BY <2>3, <3>1, SenderNative DEF Changes
    <3> QED
      BY <2>1, <3>1, <3>2, SameSession DEF Handed
  <2>4. ASSUME NEW a \in Attempts, NativeStep(a)
        PROVE  OneSession'
    <3>1. /\ call[a].pc # "idle" /\ call[a].op = "connect" /\ connect[a] = "calling"
          /\ told' = told /\ \A u \in Threads \ {a} : call'[u] = call[u]
      BY <2>4, NativeCall, NativeTold DEF Callers
    <3>2. Orderly => Leads' /\ Changer(a)'
      BY <2>4, <3>1, ChangerNative DEF OneSession, Changes
    <3>3. Orderly => \A b \in Attempts \ {a} : Changer(b)'
      <4>1. Orderly => \A b \in Attempts \ {a} : connect[b] = "none"
        BY <3>1 DEF OneSession, Pending
      <4>2. Orderly => \A b \in Attempts \ {a} : call[b].pc = "idle"
        BY <4>1 DEF Callers
      <4> QED
        BY <3>1, <4>2 DEF Changer
    <3>4. Calling /\ Calling' /\ (Orderly => ~rtmpConnectState)
      BY <2>1, <3>1 DEF OneSession, Pending, Calling
    <3> QED
      BY <2>1, <3>1, <3>2, <3>3, <3>4 DEF OneSession, Handed, Pending
  <2> QED
    BY <1>8, <2>2, <2>3, <2>4 DEF Below
<1>9. CASE ~ConnectionStep
  <2>1. /\ UNCHANGED sessionVars /\ UNCHANGED <<rtmpConnectState, connect, missed>>
        /\ copier' \in {"send", "sending"} <=> copier \in {"send", "sending"}
    BY <1>9, OtherSteps
  <2>2. Handed' => Handed
    BY <1>9, HandedLater
  <2> QED
    BY <2>1, <2>2, SameSession DEF sessionVars, history
<1> QED
  BY <1>1, <1>2, <1>3, <1>4, <1>5, <1>6, <1>7, <1>8, <1>9 DEF ConnectionStep

LEMMA RulesStep ==
  ASSUME ScreenTypeOK, Callers, Emitted, OneSession, ScreenRules, [ScreenNext]_screenShotVars
  PROVE  ScreenRules'
<1>t. SessionTypeOK
  BY DEF ScreenTypeOK
<1> USE <1>t, RoleFacts DEF buttonVars, copierVars
<1>g. (Orderly' => Orderly) /\ (~missed' => ~missed)
  BY HistoryGrows
<1>0. CASE misuse' = misuse
  BY <1>0, <1>g DEF ScreenRules
<1>1. CASE Click \/ Destroy \/ OfferOutput
  BY <1>1, <1>0 DEF Click, Destroy, OfferOutput, sessionVars, history
<1>2. ASSUME NEW a \in Attempts, Connecting(a)
      PROVE  ScreenRules'
  <2>1. CASE CallConnect(a)
    <3>1. misuse' = misuse \cup Misused("connect", "inter") /\ connect[a] = "launched"
      BY <1>2, <2>1 DEF Connecting, CallConnect, Enter
    <3>2. Orderly => /\ ~rtmpConnectState /\ ~Calling
                     /\ \A b \in Attempts : connect[b] # "calling"
      BY <3>1 DEF OneSession, Pending, Calling
    <3>3. Orderly => mLive = NULL /\ \A u \in Threads : ~Inside(u)
      BY <3>2 DEF OneSession, Callers, Inside
    <3>4. "interleaved" \notin Misused("connect", "inter")
      BY DEF Misused
    <3>5. Orderly => Misused("connect", "inter") = {}
      BY <3>3 DEF Misused, Changes, Misuses
    <3> QED
      BY <3>1, <3>4, <3>5, <1>g DEF ScreenRules
  <2> QED
    BY <1>2, <2>1, <1>0 DEF Connecting, sessionVars, history
<1>3. CASE OutputSent \/ \E a \in Attempts : Connected(a)
  BY <1>3, <1>0, ReturnCall DEF Connected, OutputSent
<1>4. CASE SendOutput
  <2>1. /\ misuse' = misuse \cup Misused("sendVideo", output) /\ copier = "send"
        /\ call[Copier].pc = "idle"
    BY <1>4 DEF SendOutput, CallSendVideo, Enter
  <2>2. \A u \in Threads : Inside(u) => call[u].op = "connect"
    BY <2>1 DEF Callers, Inside
  <2>3. "interleaved" \notin Misused("sendVideo", output)
    BY <2>2 DEF Misused
  <2>4. Orderly => rtmpConnectState
    BY <2>1 DEF OneSession
  <2>5. Orderly => mLive # NULL /\ \A u \in Threads : ~Inside(u)
    BY <2>1, <2>4, SendsAlone DEF Callers, Inside, Pending
  <2>6. Orderly => Misused("sendVideo", output) \subseteq {"unconfigured"}
    BY <2>5 DEF Misused, Changes, Misuses
  <2>7. Orderly /\ ~missed => output # "key" \/ mLive \in told
    BY <2>1 DEF OneSession, Handed, Emitted
  <2>8. Orderly /\ ~missed => Misused("sendVideo", output) = {}
    BY <2>6, <2>7, MisusedKinds
  <2> QED
    BY <2>1, <2>3, <2>6, <2>8, <1>g DEF ScreenRules
<1>5. CASE Below
  BY <1>5, <1>0, NativeCall DEF Below, PeerLost, history
<1>6. CASE ~ConnectionStep
  BY <1>6, <1>0, OtherSteps DEF sessionVars, history
<1> QED
  BY <1>1, <1>2, <1>3, <1>4, <1>5, <1>6 DEF ConnectionStep

-----------------------------------------------------------------------------
(* The invariant of the activity, and what follows from it.                *)

LEMMA ScreenStart == ScreenInit => ScreenInv
<1> SUFFICES ASSUME ScreenInit
             PROVE  ScreenInv
  OBVIOUS
<1>1. SessionInv
  BY SessionStart DEF ScreenInit
<1>2. ScreenTypeOK
  BY <1>1 DEF ScreenInit, SessionInv, ScreenTypeOK, ButtonsOK, RecordOK, MuxerOK, CopierOK, Frames
<1>3. \A t \in Threads : call[t] = Idle
  BY DEF ScreenInit, SessionInit
<1>4. Callers /\ Emitted
  BY <1>3, RoleFacts DEF ScreenInit, Idle, Callers, Emitted
<1>5. OneSession
  BY <1>3, RoleFacts DEF ScreenInit, SessionInit, Idle, OneSession, Leads, Changer, Handed,
     Pending, Calling
<1>6. ScreenRules /\ Fresh /\ Apart
  BY DEF ScreenInit, SessionInit, ScreenRules, Fresh, Apart
<1> QED
  BY <1>1, <1>2, <1>4, <1>5, <1>6 DEF ScreenInv

LEMMA ScreenStep == ScreenInv /\ [ScreenNext]_screenShotVars => ScreenInv'
<1> SUFFICES ASSUME ScreenInv, [ScreenNext]_screenShotVars
             PROVE  ScreenInv'
  OBVIOUS
<1> USE DEF ScreenInv
<1>1. ScreenTypeOK' /\ Callers' /\ Emitted'
  BY ScreenTypeStep, CallersStep, EmittedStep
<1>2. SessionInv' /\ ShapeOK
  BY ScreenStepImplements, SessionStep DEF SessionInv
<1>3. OneSession' /\ ScreenRules'
  BY <1>2, OneSessionStep, RulesStep
<1>4. Fresh' /\ Apart'
  BY MuxerStep
<1> QED
  BY <1>1, <1>2, <1>3, <1>4

(* The inductive invariant holds of every behaviour of the activity.       *)
THEOREM ScreenInvariant == ScreenSpec => []ScreenInv
  BY ScreenStart, ScreenStep, PTL DEF ScreenSpec

(* The activity uses the native session only as RtmpSession allows, so     *)
(* what is proved of the session holds below it: its connects and sends    *)
(* are steps of the session, everything else leaves it alone.              *)
THEOREM ScreenImplementsSession == ScreenSpec => SessionSpec
<1>1. ScreenInit => SessionInit
  BY DEF ScreenInit
<1>2. ScreenInv /\ [ScreenNext]_screenShotVars => [SessionNext]_sessionVars
  BY ScreenStepImplements DEF ScreenInv
<1> QED
  BY <1>1, <1>2, ScreenInvariant, PTL DEF ScreenSpec, SessionSpec

(* For any number of connects, pictures, recordings and sessions: until    *)
(* somebody disconnects, or clicks connect while a connect is pending, the *)
(* activity breaks no rule of the native session but that of an I frame    *)
(* after SPS and PPS, and that one only when these came before the         *)
(* connection.  Video has one sender, always.                              *)
THEOREM ScreenRulesTheorem == ScreenSpec => []ScreenRules
<1>1. ScreenInv => ScreenRules
  BY DEF ScreenInv
<1> QED
  BY <1>1, ScreenInvariant, PTL

(* Unless a stop overlaps the handler thread's use of the muxer, no thread *)
(* meets a muxer that is missing, stopped or released, for any number of   *)
(* recordings.                                                             *)
THEOREM MuxerTheorem == ScreenSpec => []MuxerIsSafe
<1>1. ScreenInv => MuxerIsSafe
  BY DEF ScreenInv, Apart, MuxerIsSafe
<1> QED
  BY <1>1, ScreenInvariant, PTL

(* The undefined accesses the activity can cause in the native library.    *)
ScreenAccesses ==
  /\ Orderly => fault \notin {"freed_rtmp", "null_live", "null_rtmp"}
  /\ Orderly /\ ~missed => fault \in {"none", "recursion"}

(* Until somebody disconnects or clicks connect twice the native library   *)
(* meets no freed handle and no null pointer but that of the SPS, and not  *)
(* that one either when SPS and PPS came after the connection:             *)
(* disconnecting by a flag alone, a second connect beside a pending one,   *)
(* and recording first, are all that leads to one.                         *)
THEOREM ScreenAccessTheorem == ScreenSpec => []ScreenAccesses
<1>1. ScreenInv => ScreenAccesses
  <2> SUFFICES ASSUME ScreenInv
               PROVE  ScreenAccesses
    OBVIOUS
  <2>1. /\ Orderly => Kept({"overlap", "unopened", "interleaved"})
        /\ Orderly /\ ~missed => Kept({"unconfigured"})
    BY DEF ScreenInv, ScreenRules, Kept
  <2>2. /\ Kept({"overlap", "unopened", "interleaved"}) =>
               fault \notin {"freed_rtmp", "null_live", "null_rtmp"}
        /\ Kept({"overlap", "unopened", "interleaved"}) /\ Kept({"unconfigured"}) =>
               fault # "null_sps"
    BY DEF ScreenInv, SessionInv, FreedHandleNeedsOverlap, NullNeedsUnopened,
       NullSpsNeedsUnconfigured, Kept
  <2>3. fault \in Faults \cup {"none"}
    BY DEF ScreenInv, ScreenTypeOK, SessionTypeOK
  <2> QED
    BY <2>1, <2>2, <2>3 DEF ScreenAccesses, Faults
<1> QED
  BY <1>1, ScreenInvariant, PTL

(* What the server sees, and what stays open, until then.                  *)
ScreenConnections ==
  Orderly =>
    /\ \A r \in Lives : rtmp[r] \notin {"unused", "freed"} => mLive # NULL /\ CurrentRtmp = r
    /\ \A t \in Threads :
         /\ At(t, "sendVideo", "sendFrame") /\ call[t].frame = "key"
         /\ rtmp[call[t].r] \in {"connected", "open"}
         => wire[call[t].r] = "header"

(* Until somebody disconnects or clicks connect twice there is one         *)
(* connection, that of mLive, and on it each I frame comes behind SPS and  *)
(* PPS.                                                                    *)
THEOREM ScreenConnectionTheorem == ScreenSpec => []ScreenConnections
<1>1. ScreenInv => ScreenConnections
  <2> SUFFICES ASSUME ScreenInv, Orderly
               PROVE  ScreenConnections
    BY DEF ScreenConnections
  <2>1. Kept({"overlap", "reconnect"}) /\ Kept({"overlap", "interleaved"})
    BY DEF ScreenInv, ScreenRules, Kept
  <2>2. NoHandleLeaks /\ KeyFollowsHeader
    BY DEF ScreenInv, SessionInv
  <2> QED
    BY <2>1, <2>2 DEF NoHandleLeaks, KeyFollowsHeader, ScreenConnections
<1> QED
  BY <1>1, ScreenInvariant, PTL

=============================================================================
