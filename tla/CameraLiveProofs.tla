-------------------------- MODULE CameraLiveProofs --------------------------
(***************************************************************************)
(* Proofs about CameraLive, for any number of connect attempts, audio      *)
(* tasks and sessions and for every set of schedules.                      *)
(*                                                                         *)
(* The safety properties follow from CameraInv.  It says which call each   *)
(* thread of the activity may be in (Callers), what holds as long as a     *)
(* schedule was avoided (ScheduleInv), what connect and close leave behind *)
(* when they run one after the other (SoloSession), and what the encoder   *)
(* emits next against what the session was told (CodecInv, ToldInv).  Who  *)
(* owns an encoder, and that none is left, have invariants of their own    *)
(* (EncoderInv, ReleasedInv).                                              *)
(***************************************************************************)
EXTENDS CameraLive, RtmpSessionProofs

-----------------------------------------------------------------------------
(* The activity is a caller of the native session: what it does to it is a *)
(* step of RtmpSession or nothing.                                         *)

LEMMA CameraStepImplements ==
  ASSUME CameraTypeOK, [CameraNext]_cameraVars
  PROVE  [SessionNext]_sessionVars
<1> USE Roles DEF sessionVars
<1>1. CASE MainStep
  <2>1. CASE ClickDisconnect
    BY <2>1 DEF ClickDisconnect, SessionNext, CallIn
  <2>2. CASE Disconnected
    BY <2>2 DEF Disconnected, SessionNext
  <2>3. CASE StartLive
    BY <2>3 DEF StartLive
  <2>4. CASE StopLive
    BY <2>4 DEF StopLive
  <2>5. CASE DestroyBegin
    BY <2>5 DEF DestroyBegin
  <2>6. CASE DestroyRelease
    BY <2>6 DEF DestroyRelease, Crash, SessionNext, CallIn
  <2>7. CASE DestroyEnd
    BY <2>7 DEF DestroyEnd, SessionNext
  <2> QED
    BY <1>1, <2>1, <2>2, <2>3, <2>4, <2>5, <2>6, <2>7 DEF MainStep
<1>2. ASSUME NEW a \in Attempts, AttemptStep(a)
      PROVE  [SessionNext]_sessionVars
  <2>1. CASE ClickConnect(a)
    BY <2>1 DEF ClickConnect
  <2>2. CASE Launch(a)
    BY <2>2 DEF Launch
  <2>3. CASE IoConnect(a)
    BY <2>3 DEF IoConnect, SessionNext, CallIn
  <2>4. CASE IoConnected(a)
    BY <2>4 DEF IoConnected, SessionNext
  <2>5. CASE Finish(a)
    BY <2>5 DEF Finish
  <2>6. CASE TimerFires(a)
    BY <2>6 DEF TimerFires, Crash
  <2> QED
    BY <1>2, <2>1, <2>2, <2>3, <2>4, <2>5, <2>6 DEF AttemptStep
<1>3. CASE ConsumerStep
  <2>1. CASE TakeFrame
    BY <2>1 DEF TakeFrame
  <2>2. CASE Encode
    BY <2>2 DEF Encode
  <2>3. CASE Drain
    BY <2>3 DEF Drain, Crash
  <2>4. CASE Offer
    BY <2>4 DEF Offer
  <2>5. CASE SendVideo
    BY <2>5 DEF SendVideo, SessionNext, CallIn, CameraTypeOK
  <2>6. CASE VideoSent
    BY <2>6 DEF VideoSent, SessionNext
  <2>7. CASE GiveBack
    BY <2>7 DEF GiveBack, Crash
  <2>8. CASE ReleaseCodec
    BY <2>8 DEF ReleaseCodec, Crash
  <2> QED
    BY <1>3, <2>1, <2>2, <2>3, <2>4, <2>5, <2>6, <2>7, <2>8 DEF ConsumerStep
<1>4. ASSUME NEW s \in AudioTasks, AudioStep(s)
      PROVE  [SessionNext]_sessionVars
  <2>1. CASE AudioHeader(s)
    BY <2>1 DEF AudioHeader, SessionNext, CallIn
  <2>2. CASE AudioReturn(s)
    BY <2>2 DEF AudioReturn, SessionNext
  <2>3. CASE AudioRead(s)
    BY <2>3 DEF AudioRead
  <2>4. CASE AudioDrain(s)
    BY <2>4 DEF AudioDrain
  <2>5. CASE AudioSend(s)
    BY <2>5 DEF AudioSend, SessionNext, CallIn
  <2> QED
    BY <1>4, <2>1, <2>2, <2>3, <2>4, <2>5 DEF AudioStep
<1>5. ASSUME NEW t \in Threads, Native(t)
      PROVE  [SessionNext]_sessionVars
  BY <1>5 DEF Native, SessionNext
<1>6. CASE Peer
  BY <1>6 DEF Peer, SessionNext
<1>7. CASE UNCHANGED cameraVars
  BY <1>7 DEF cameraVars
<1> QED
  BY <1>1, <1>2, <1>3, <1>4, <1>5, <1>6, <1>7 DEF CameraNext

-----------------------------------------------------------------------------
(* Types.  What Drain reads from an encoder is a frame because a consumer  *)
(* that holds a live encoder holds the one in the field.                   *)

HeldIsCurrent == codecHeld = "live" => videoCodec # "null"

LEMMA CameraTypeStep ==
  ASSUME CameraTypeOK, HeldIsCurrent, [CameraNext]_cameraVars
  PROVE  CameraTypeOK' /\ HeldIsCurrent'
<1>0. SessionTypeOK'
  BY CameraStepImplements, TypeStep DEF CameraTypeOK
<1>h. \A h \in Held : Released(h) \in Held
  BY DEF Held, Released
<1> USE <1>0, <1>h DEF CameraTypeOK, HeldIsCurrent, ui, connecting, video, sound
<1>n. ASSUME NEW hs \in SUBSET AllHazards, Note(hs)
      PROVE  hazards' \in SUBSET AllHazards
  BY <1>n DEF Note
<1>1. CASE MainStep
  <2>1. CASE ClickDisconnect
    BY <2>1, <1>n DEF ClickDisconnect, ReleaseAudio, AllHazards
  <2>2. CASE Disconnected
    <3>1. /\ rtmpConnectState' = FALSE /\ main' = "idle"
          /\ UNCHANGED <<isLiving, isDestroy, connecting, video, sound, crash, hazards>>
      BY <2>2 DEF Disconnected
    <3> QED
      BY <3>1
  <2>3. CASE StartLive
    <3>1. hazards' \in SUBSET AllHazards
      BY <2>3, <1>n DEF StartLive, AllHazards
    <3>2. /\ audio' \in [AudioTasks -> {"none", "queued", "header", "loop", "output", "send",
                                        "sending"}]
          /\ audioOn' \in BOOLEAN
      BY <2>3 DEF StartLive
    <3>3. isLiving' = TRUE
          /\ UNCHANGED <<sessionVars, rtmpConnectState, isDestroy, main, connecting, video,
                         audioHeld, crash>>
      BY <2>3 DEF StartLive
    <3> QED
      BY <3>1, <3>2, <3>3
  <2>4. CASE StopLive
    <3>1. audioOn' = FALSE /\ audio' = audio /\ audioHeld' \in [AudioTasks -> Held]
      BY <2>4 DEF StopLive, ReleaseAudio
    <3>2. /\ isLiving' = FALSE
          /\ UNCHANGED <<sessionVars, rtmpConnectState, isDestroy, main, connecting, video,
                         crash, hazards>>
      BY <2>4 DEF StopLive
    <3>3. SessionTypeOK' /\ HeldIsCurrent'
      BY <3>2
    <3>4. /\ isLiving' \in BOOLEAN /\ audioOn' \in BOOLEAN
          /\ audio' \in [AudioTasks ->
                          {"none", "queued", "header", "loop", "output", "send", "sending"}]
          /\ audioHeld' \in [AudioTasks -> Held]
      BY <3>1, <3>2
    <3> QED
      BY <3>2, <3>3, <3>4
  <2>5. CASE DestroyBegin
    <3>1. hazards' \in SUBSET AllHazards
      BY <2>5, <1>n DEF DestroyBegin, BesideDestroy
    <3>2. codecTorn' \in Held
      BY <2>5 DEF DestroyBegin, Held
    <3>3. /\ isDestroy' = TRUE /\ isLiving' = FALSE /\ main' = "destroying"
          /\ UNCHANGED <<sessionVars, rtmpConnectState, connecting, consumer, frame,
                         videoCodec, codecHeld, sound, crash>>
      BY <2>5 DEF DestroyBegin
    <3> QED
      BY <3>1, <3>2, <3>3
  <2>6. CASE DestroyRelease
    <3>1. CASE Crash("codec")
      BY <3>1 DEF Crash
    <3>2. CASE ~Crash("codec")
      <4>1. /\ ReleaseAudio /\ main' = "closing" /\ codecTorn' = "none"
            /\ Note({h \in {"torn"} : WorkerInside})
            /\ \/ videoCodec' = "null" /\ codecHeld' = Released(codecHeld)
               \/ UNCHANGED <<videoCodec, codecHeld>>
            /\ UNCHANGED <<rtmpConnectState, isLiving, isDestroy, connecting, consumer,
                           frame, crash>>
        BY <2>6, <3>2 DEF DestroyRelease
      <4>2. hazards' \in SUBSET AllHazards
        BY <4>1, <1>n DEF AllHazards
      <4>3. codecHeld' \in Held /\ codecTorn' \in Held
            /\ (codecHeld' = "live" => videoCodec' # "null")
        BY <4>1 DEF Held, Released
      <4>4. audioOn' \in BOOLEAN /\ audio' = audio /\ audioHeld' \in [AudioTasks -> Held]
        BY <4>1 DEF ReleaseAudio
      <4> QED
        BY <4>1, <4>2, <4>3, <4>4
    <3> QED
      BY <3>1, <3>2
  <2>7. CASE DestroyEnd
    BY <2>7 DEF DestroyEnd
  <2> QED
    BY <1>1, <2>1, <2>2, <2>3, <2>4, <2>5, <2>6, <2>7 DEF MainStep
<1>2. ASSUME NEW a \in Attempts, AttemptStep(a)
      PROVE  CameraTypeOK' /\ HeldIsCurrent'
  <2>1. CASE ClickConnect(a)
    BY <2>1, <1>n DEF ClickConnect, AllHazards
  <2>2. CASE Launch(a)
    <3>1. /\ attempt' = [attempt EXCEPT ![a] = IF isDestroy THEN "none" ELSE "dispatched"]
          /\ timer' \in [Attempts -> BOOLEAN]
          /\ UNCHANGED <<sessionVars, ui, dialog, video, sound, crash, hazards>>
      BY <2>2 DEF Launch
    <3> QED
      BY <3>1
  <2>3. CASE IoConnect(a)
    BY <2>3 DEF IoConnect
  <2>4. CASE IoConnected(a)
    BY <2>4 DEF IoConnected
  <2>5. CASE Finish(a)
    BY <2>5 DEF Finish
  <2>6. CASE TimerFires(a)
    <3>1. CASE Crash("bad_token")
      BY <3>1 DEF Crash
    <3>2. CASE ~Crash("bad_token")
      <4>1. /\ timer' = [timer EXCEPT ![a] = FALSE]
            /\ dialog' = dialog \/ dialog' = [dialog EXCEPT ![a] = "shown"]
            /\ UNCHANGED <<sessionVars, ui, attempt, video, sound, crash, hazards>>
        BY <2>6, <3>2 DEF TimerFires
      <4> QED
        BY <4>1
    <3> QED
      BY <3>1, <3>2
  <2> QED
    BY <1>2, <2>1, <2>2, <2>3, <2>4, <2>5, <2>6 DEF AttemptStep
<1>3. CASE ConsumerStep
  <2> USE DEF NextFrame, Crash, Frames, Held
  <2>s. NoteShared => hazards' \in SUBSET AllHazards
    BY <1>n DEF NoteShared, AllHazards
  <2>1. CASE TakeFrame
    <3>1. hazards' \in SUBSET AllHazards
      BY <2>1, <2>s DEF TakeFrame
    <3> QED
      BY <2>1, <3>1 DEF TakeFrame
  <2>2. CASE Encode
    <3>1. hazards' \in SUBSET AllHazards
      BY <2>2, <2>s DEF Encode
    <3> QED
      BY <2>2, <3>1 DEF Encode
  <2>3. CASE Drain
    BY <2>3 DEF Drain, After
  <2>4. CASE Offer
    BY <2>4 DEF Offer
  <2>5. CASE SendVideo
    BY <2>5 DEF SendVideo
  <2>6. CASE VideoSent
    BY <2>6 DEF VideoSent
  <2>7. CASE GiveBack
    BY <2>7 DEF GiveBack
  <2>8. CASE ReleaseCodec
    BY <2>8 DEF ReleaseCodec
  <2> QED
    BY <1>3, <2>1, <2>2, <2>3, <2>4, <2>5, <2>6, <2>7, <2>8 DEF ConsumerStep
<1>4. ASSUME NEW s \in AudioTasks, AudioStep(s)
      PROVE  CameraTypeOK' /\ HeldIsCurrent'
  <2> USE DEF Audio
  <2>1. CASE AudioHeader(s)
    BY <2>1 DEF AudioHeader
  <2>2. CASE AudioReturn(s)
    BY <2>2 DEF AudioReturn
  <2>3. CASE AudioRead(s)
    BY <2>3 DEF AudioRead, Held
  <2>4. CASE AudioDrain(s)
    BY <2>4 DEF AudioDrain, Held
  <2>5. CASE AudioSend(s)
    BY <2>5 DEF AudioSend
  <2> QED
    BY <1>4, <2>1, <2>2, <2>3, <2>4, <2>5 DEF AudioStep
<1>5. CASE (\E t \in Threads : Native(t)) \/ Peer \/ UNCHANGED cameraVars
  BY <1>5 DEF Native, Peer, appVars, cameraVars
<1> QED
  BY <1>1, <1>2, <1>3, <1>4, <1>5 DEF CameraNext

LEMMA CameraTypeInit == CameraInit => CameraTypeOK /\ HeldIsCurrent
<1>1. SessionInit => SessionTypeOK
  BY DEF SessionInit, SessionTypeOK, Call, Idle, Ops, Pcs, Frames, RtmpStates
<1> QED
  BY <1>1 DEF CameraInit, CameraTypeOK, HeldIsCurrent, Held, Frames, AllHazards

(* Every variable of the activity keeps its type.                          *)
THEOREM CameraTypeCorrect == CameraSpec => [](CameraTypeOK /\ HeldIsCurrent)
<1>1. CameraTypeOK /\ HeldIsCurrent /\ [CameraNext]_cameraVars
      => (CameraTypeOK /\ HeldIsCurrent)'
  BY CameraTypeStep
<1> QED
  BY <1>1, CameraTypeInit, PTL DEF CameraSpec

(* CameraLive implements RtmpSession: whatever RtmpSession promises to any *)
(* caller, it promises to the activity.                                    *)
THEOREM CameraImplementsSession == CameraSpec => SessionSpec
<1>1. CameraInit => SessionInit
  BY DEF CameraInit
<1>2. CameraTypeOK /\ [CameraNext]_cameraVars => [SessionNext]_sessionVars
  BY CameraStepImplements
<1> QED
  BY <1>1, <1>2, CameraTypeCorrect, PTL DEF CameraSpec, SessionSpec
-----------------------------------------------------------------------------
(* The progress dialog: as long as the activity is there, a dialog object  *)
(* that is not null belongs to a connect that is not finished.             *)

DialogInv == ~isDestroy => \A a \in Attempts : dialog[a] # "null" => Pending(a)

LEMMA DialogStep ==
  ASSUME CameraTypeOK, DialogInv, [CameraNext]_cameraVars
  PROVE  DialogInv'
<1> USE DEF CameraTypeOK, DialogInv, Pending, ui, connecting
<1>1. CASE UNCHANGED <<isDestroy, attempt, dialog>>
  BY <1>1
<1>2. CASE MainStep
  <2>1. UNCHANGED <<attempt, dialog>> /\ (isDestroy' = isDestroy \/ isDestroy')
    BY <1>2 DEF MainStep, ClickDisconnect, Disconnected, StartLive, StopLive, DestroyBegin,
         DestroyRelease, DestroyEnd, Crash
  <2> QED
    BY <2>1
<1>3. ASSUME NEW a \in Attempts, AttemptStep(a)
      PROVE  DialogInv'
  <2>1. CASE ClickConnect(a)
    BY <2>1 DEF ClickConnect
  <2>2. CASE Launch(a)
    BY <2>2 DEF Launch
  <2>3. CASE IoConnect(a)
    BY <2>3 DEF IoConnect
  <2>4. CASE IoConnected(a)
    BY <2>4 DEF IoConnected
  <2>5. CASE Finish(a)
    BY <2>5 DEF Finish
  <2>6. CASE TimerFires(a)
    BY <2>6 DEF TimerFires, Crash
  <2> QED
    BY <1>3, <2>1, <2>2, <2>3, <2>4, <2>5, <2>6 DEF AttemptStep
<1>4. CASE ConsumerStep
  BY <1>4, <1>1 DEF ConsumerStep, TakeFrame, Encode, Drain, Offer,
       SendVideo, VideoSent, GiveBack, ReleaseCodec, Crash
<1>5. ASSUME NEW s \in AudioTasks, AudioStep(s)
      PROVE  DialogInv'
  BY <1>5, <1>1 DEF AudioStep, AudioHeader, AudioReturn, AudioRead, AudioDrain, AudioSend
<1>6. CASE (\E t \in Threads : Native(t)) \/ Peer \/ UNCHANGED cameraVars
  BY <1>6, <1>1 DEF Native, Peer, appVars, cameraVars
<1> QED
  BY <1>2, <1>3, <1>4, <1>5, <1>6 DEF CameraNext

(* However many connects are pending at once, a dialog that is shown has a *)
(* coroutine that will dismiss it.                                         *)
THEOREM DialogTheorem == CameraSpec => []DialogHasOwner
<1>1. CameraInit => DialogInv
  BY DEF CameraInit, DialogInv
<1>2. CameraTypeOK /\ DialogInv /\ [CameraNext]_cameraVars => DialogInv'
  BY DialogStep
<1>3. DialogInv => DialogHasOwner
  BY DEF DialogInv, DialogHasOwner
<1> QED
  BY <1>1, <1>2, <1>3, CameraTypeCorrect, PTL DEF CameraSpec

-----------------------------------------------------------------------------
(* Histories only grow.                                                    *)
LEMMA HazardsGrow ==
  ASSUME [CameraNext]_cameraVars
  PROVE  hazards \subseteq hazards'
<1> USE DEF Note, NoteShared
<1>1. CASE MainStep
  BY <1>1 DEF MainStep, ClickDisconnect, Disconnected, StartLive, StopLive, DestroyBegin,
       DestroyRelease, DestroyEnd, Crash
<1>2. ASSUME NEW a \in Attempts, AttemptStep(a)
      PROVE  hazards \subseteq hazards'
  BY <1>2 DEF AttemptStep, ClickConnect, Launch, IoConnect, IoConnected, Finish, TimerFires,
       Crash
<1>3. CASE ConsumerStep
  BY <1>3 DEF ConsumerStep, TakeFrame, Encode, Drain, Offer, SendVideo, VideoSent, GiveBack,
       ReleaseCodec, Crash
<1>4. ASSUME NEW s \in AudioTasks, AudioStep(s)
      PROVE  hazards \subseteq hazards'
  BY <1>4 DEF AudioStep, AudioHeader, AudioReturn, AudioRead, AudioDrain, AudioSend
<1>5. CASE (\E t \in Threads : Native(t)) \/ Peer \/ UNCHANGED cameraVars
  BY <1>5 DEF Native, Peer, appVars, cameraVars
<1> QED
  BY <1>1, <1>2, <1>3, <1>4, <1>5 DEF CameraNext

-----------------------------------------------------------------------------
(* The video encoder: only onDestroy takes it from the consumer, and only  *)
(* one that both hold.                                                     *)

Shared == "shared" \in hazards

EncoderInv ==
  /\ main \in {"destroying", "closing", "dead"} => isDestroy
  /\ codecTorn # "none" => isDestroy
  /\ codecHeld = "live" /\ codecTorn = "live" => Shared
  /\ codecHeld = "released" => isDestroy /\ Shared
  /\ codecTorn = "released" => Shared
  /\ crash = "codec" => isDestroy /\ Shared

LEMMA EncoderStep ==
  ASSUME EncoderInv, [CameraNext]_cameraVars
  PROVE  EncoderInv'
<1>h. Shared => Shared'
  BY HazardsGrow DEF Shared
<1> USE <1>h DEF EncoderInv, Released, ui, video
<1>1. CASE MainStep
  <2>1. CASE DestroyBegin
    <3>1. codecHeld = "live" => Shared'
      BY <2>1 DEF DestroyBegin, BesideDestroy, Note, AllHazards, Shared
    <3> QED
      BY <2>1, <3>1 DEF DestroyBegin
  <2>2. CASE DestroyRelease
    <3>1. CASE codecTorn = "released" /\ Crash("codec")
      BY <3>1 DEF Crash
    <3>2. CASE ~(codecTorn = "released" /\ Crash("codec"))
      <4>1. /\ isDestroy' = isDestroy /\ crash' = crash /\ codecTorn' = "none"
            /\ main = "destroying"
            /\ \/ codecTorn = "live" /\ codecHeld' = Released(codecHeld)
               \/ codecHeld' = codecHeld
        BY <2>2, <3>2 DEF DestroyRelease
      <4> QED
        BY <4>1
    <3> QED
      BY <3>1, <3>2
  <2>3. CASE MainStep /\ ~DestroyBegin /\ ~DestroyRelease
    BY <2>3 DEF MainStep, ClickDisconnect, Disconnected, StartLive, StopLive, DestroyEnd
  <2> QED
    BY <1>1, <2>1, <2>2, <2>3
<1>2. ASSUME NEW a \in Attempts, AttemptStep(a)
      PROVE  EncoderInv'
  BY <1>2 DEF AttemptStep, ClickConnect, Launch, IoConnect, IoConnected, Finish, TimerFires,
       Crash
<1>3. CASE ConsumerStep
  <2>1. CASE TakeFrame \/ Encode
    <3>1. NoteShared
      BY <2>1 DEF TakeFrame, Encode
    <3>2. codecHeld' = "live" /\ codecTorn = "live" => Shared'
      BY <3>1 DEF NoteShared, Note, Shared
    <3>3. codecHeld' \in {codecHeld, "none", "live"} /\ UNCHANGED <<ui, codecTorn, crash>>
      BY <2>1 DEF TakeFrame, Encode, NextFrame
    <3> QED
      BY <3>2, <3>3
  <2>2. CASE ConsumerStep /\ ~TakeFrame /\ ~Encode
    BY <2>2 DEF ConsumerStep, Drain, Offer, SendVideo, VideoSent, GiveBack, ReleaseCodec,
         Crash, NextFrame
  <2> QED
    BY <1>3, <2>1, <2>2
<1>4. ASSUME NEW s \in AudioTasks, AudioStep(s)
      PROVE  EncoderInv'
  BY <1>4 DEF AudioStep, AudioHeader, AudioReturn, AudioRead, AudioDrain, AudioSend
<1>5. CASE (\E t \in Threads : Native(t)) \/ Peer \/ UNCHANGED cameraVars
  BY <1>5 DEF Native, Peer, appVars, cameraVars
<1> QED
  BY <1>1, <1>2, <1>3, <1>4, <1>5 DEF CameraNext

(* The video encoder is never used after release, nor released twice, but  *)
(* for an onDestroy that held it together with the consumer.               *)
THEOREM EncoderTheorem == CameraSpec => []EncoderOwned
<1>1. CameraInit => EncoderInv
  BY DEF CameraInit, EncoderInv
<1>2. EncoderInv /\ [CameraNext]_cameraVars => EncoderInv'
  BY EncoderStep
<1>3. EncoderInv => EncoderOwned
  BY DEF EncoderInv, EncoderOwned, Excluded, Shared
<1> QED
  BY <1>1, <1>2, <1>3, PTL DEF CameraSpec
-----------------------------------------------------------------------------
(* The sender of video: no thread but the consumer is ever inside          *)
(* sendVideo, and the consumer is not when it calls it.                    *)

SenderInv ==
  /\ \A t \in Threads \ {Consumer} : call[t].op # "sendVideo"
  /\ call[Consumer].pc # "idle" => consumer = "sending"
  /\ VideoHasOneSender

(* A thread enters the library elsewhere than in sendVideo.                *)
LEMMA EnterOther ==
  ASSUME SessionTypeOK, NEW t \in Threads, t # Consumer, NEW op \in Ops, NEW pc \in Pcs,
         op # "sendVideo", Enter(t, op, pc, "inter"), SenderInv, consumer' = consumer
  PROVE  SenderInv'
<1>1. /\ call'[t].op = op
      /\ \A u \in Threads \ {t} : call'[u] = call[u]
  BY DEF Enter, SessionTypeOK, Call, Idle
<1>2. "interleaved" \notin misuse'
  BY DEF Enter, Misused, SenderInv, VideoHasOneSender
<1> QED
  BY <1>1, <1>2, Roles DEF SenderInv, VideoHasOneSender

LEMMA CallOther ==
  ASSUME SessionTypeOK, NEW t \in Threads, t # Consumer, SenderInv, consumer' = consumer,
         CallConnect(t) \/ CallClose(t) \/ CallSendAudio(t)
  PROVE  SenderInv'
<1> USE DEF Ops, Pcs
<1>1. CASE CallConnect(t)
  BY <1>1, EnterOther DEF CallConnect
<1>2. CASE CallClose(t)
  BY <1>2, EnterOther DEF CallClose
<1>3. CASE CallSendAudio(t)
  BY <1>3, EnterOther DEF CallSendAudio
<1> QED
  BY <1>1, <1>2, <1>3

LEMMA ReturnOther ==
  ASSUME SessionTypeOK, NEW t \in Threads, SenderInv, Return(t),
         consumer' = consumer \/ t = Consumer
  PROVE  SenderInv'
  BY ReturnCall, Roles DEF SenderInv, VideoHasOneSender

LEMMA SenderStep ==
  ASSUME CameraTypeOK, SenderInv, [CameraNext]_cameraVars
  PROVE  SenderInv'
<1>t. SessionTypeOK
  BY DEF CameraTypeOK
<1>r. /\ Main \in Threads /\ Consumer \in Threads /\ Attempts \subseteq Threads
      /\ AudioTasks \subseteq Threads
      /\ Main # Consumer /\ Consumer \notin Attempts /\ Consumer \notin AudioTasks
  BY Roles
<1>0. CASE UNCHANGED <<sessionVars, consumer>>
  BY <1>0 DEF sessionVars, SenderInv, VideoHasOneSender
<1> USE DEF video
<1>1. CASE MainStep
  <2>1. CASE ClickDisconnect
    BY <2>1, <1>t, <1>r, CallOther DEF ClickDisconnect
  <2>2. CASE Disconnected \/ DestroyEnd
    BY <2>2, <1>t, <1>r, ReturnOther DEF Disconnected, DestroyEnd
  <2>3. CASE StartLive \/ StopLive \/ DestroyBegin
    BY <2>3, <1>0 DEF StartLive, StopLive, DestroyBegin
  <2>4. CASE DestroyRelease
    BY <2>4, <1>t, <1>r, <1>0, CallOther DEF DestroyRelease, Crash
  <2> QED
    BY <1>1, <2>1, <2>2, <2>3, <2>4 DEF MainStep
<1>2. ASSUME NEW a \in Attempts, AttemptStep(a)
      PROVE  SenderInv'
  <2>1. CASE IoConnect(a)
    BY <2>1, <1>t, <1>r, <1>0, CallOther DEF IoConnect
  <2>2. CASE IoConnected(a)
    BY <2>2, <1>t, <1>r, ReturnOther DEF IoConnected
  <2>3. CASE ClickConnect(a) \/ Launch(a) \/ Finish(a) \/ TimerFires(a)
    BY <2>3, <1>0 DEF ClickConnect, Launch, Finish, TimerFires, Crash
  <2> QED
    BY <1>2, <2>1, <2>2, <2>3 DEF AttemptStep
<1>3. CASE ConsumerStep
  <2>1. CASE SendVideo
    <3>1. call[Consumer].pc = "idle"
      BY <2>1 DEF SendVideo, CallSendVideo, Enter
    <3>2. "interleaved" \notin misuse'
      BY <2>1, <3>1 DEF SendVideo, CallSendVideo, Enter, Misused, Inside, SenderInv,
           VideoHasOneSender
    <3>3. \A t \in Threads \ {Consumer} : call'[t] = call[t]
      BY <2>1, <1>t, <1>r DEF SendVideo, CallSendVideo, Enter, SessionTypeOK
    <3> QED
      BY <2>1, <3>2, <3>3 DEF SendVideo, SenderInv, VideoHasOneSender
  <2>2. CASE VideoSent
    BY <2>2, <1>t, <1>r, ReturnOther DEF VideoSent
  <2>3. CASE ~SendVideo /\ ~VideoSent
    <3>1. UNCHANGED sessionVars /\ (consumer' = consumer \/ consumer # "sending")
      BY <1>3, <2>3 DEF ConsumerStep, TakeFrame, Encode, Drain, Offer, GiveBack, ReleaseCodec,
           Crash
    <3> QED
      BY <3>1 DEF sessionVars, SenderInv, VideoHasOneSender
  <2> QED
    BY <2>1, <2>2, <2>3
<1>4. ASSUME NEW s \in AudioTasks, AudioStep(s)
      PROVE  SenderInv'
  <2>1. CASE AudioHeader(s) \/ AudioSend(s)
    BY <2>1, <1>t, <1>r, CallOther DEF AudioHeader, AudioSend
  <2>2. CASE AudioReturn(s)
    BY <2>2, <1>t, <1>r, ReturnOther DEF AudioReturn
  <2>3. CASE AudioRead(s) \/ AudioDrain(s)
    BY <2>3, <1>0 DEF AudioRead, AudioDrain
  <2> QED
    BY <1>4, <2>1, <2>2, <2>3 DEF AudioStep
<1>5. ASSUME NEW t \in Threads, Native(t)
      PROVE  SenderInv'
  BY <1>5, <1>t, <1>r, NativeCall DEF Native, appVars, SenderInv, VideoHasOneSender
<1>6. CASE Peer
  BY <1>6 DEF Peer, PeerLost, appVars, history, SenderInv, VideoHasOneSender
<1>7. CASE UNCHANGED cameraVars
  BY <1>7, <1>0 DEF cameraVars, appVars
<1> QED
  BY <1>1, <1>2, <1>3, <1>4, <1>5, <1>6, <1>7 DEF CameraNext

(* sendVideo has one caller at a time, whatever the schedule, also while   *)
(* the activity is being torn down.                                        *)
THEOREM SenderTheorem == CameraSpec => []VideoHasOneSender
<1>1. CameraInit => SenderInv
  BY Roles DEF CameraInit, SessionInit, Idle, SenderInv, VideoHasOneSender
<1>2. CameraTypeOK /\ SenderInv /\ [CameraNext]_cameraVars => SenderInv'
  BY SenderStep
<1>3. SenderInv => VideoHasOneSender
  BY DEF SenderInv
<1> QED
  BY <1>1, <1>2, <1>3, CameraTypeCorrect, PTL DEF CameraSpec

-----------------------------------------------------------------------------
(* The rules of the native session, and what rtmpConnectState is worth.    *)

(* Where each thread of the activity is tells which call it may be in.     *)
Flags ==
  /\ isDestroy <=> main \in {"destroying", "closing", "dead"}
  /\ main # "idle" => ~isLiving

Callers ==
  /\ call[Main].op = "close"
  /\ main \notin {"disconnecting", "closing"} => call[Main].pc = "idle"
  /\ \A a \in Attempts :
       call[a].pc # "idle" => attempt[a] = "connecting" /\ call[a].op = "connect"
  /\ call[Consumer].pc # "idle" => consumer = "sending" /\ call[Consumer].op = "sendVideo"
  /\ \A s \in AudioTasks :
       call[s].pc # "idle" => audio[s] \in {"header", "sending"} /\ call[s].op = "sendAudio"

LEMMA RoleFacts ==
  /\ Main \in Threads /\ Consumer \in Threads /\ Main # Consumer
  /\ Attempts \subseteq Threads /\ AudioTasks \subseteq Threads
  /\ Main \notin Attempts /\ Main \notin AudioTasks
  /\ Consumer \notin Attempts /\ Consumer \notin AudioTasks
  /\ Attempts \cap AudioTasks = {}
  /\ \A t \in Threads : t = Main \/ t = Consumer \/ t \in Attempts \/ t \in AudioTasks
  BY Roles

LEMMA FlagsStep ==
  ASSUME CameraTypeOK, Flags, [CameraNext]_cameraVars
  PROVE  Flags'
<1> USE DEF Flags, ui, CameraTypeOK
<1>1. CASE MainStep
  BY <1>1 DEF MainStep, Clickable, ClickDisconnect, Disconnected, StartLive, StopLive, DestroyBegin,
       DestroyRelease, DestroyEnd, Crash
<1>2. ASSUME NEW a \in Attempts, AttemptStep(a)
      PROVE  Flags'
  BY <1>2 DEF AttemptStep, ClickConnect, Launch, IoConnect, IoConnected, Finish, TimerFires,
       Crash
<1>3. CASE ConsumerStep
  BY <1>3 DEF ConsumerStep, TakeFrame, Encode, Drain, Offer, SendVideo, VideoSent, GiveBack,
       ReleaseCodec, Crash
<1>4. ASSUME NEW s \in AudioTasks, AudioStep(s)
      PROVE  Flags'
  BY <1>4 DEF AudioStep, AudioHeader, AudioReturn, AudioRead, AudioDrain, AudioSend
<1>5. CASE (\E t \in Threads : Native(t)) \/ Peer \/ UNCHANGED cameraVars
  BY <1>5 DEF Native, Peer, appVars, cameraVars
<1> QED
  BY <1>1, <1>2, <1>3, <1>4, <1>5 DEF CameraNext

LEMMA CallersStep ==
  ASSUME CameraTypeOK, Callers, [CameraNext]_cameraVars
  PROVE  Callers'
<1>t. SessionTypeOK
  BY DEF CameraTypeOK
<1> USE RoleFacts, <1>t
<1>0. CASE UNCHANGED <<call, main, attempt, consumer, audio>>
  BY <1>0 DEF Callers
<1> USE DEF ui, connecting, video, sound
<1>1. CASE MainStep
  <2>1. CASE ClickDisconnect
    BY <2>1, CallKinds DEF ClickDisconnect, CallIn, Callers, ReleaseAudio
  <2>2. CASE Disconnected \/ DestroyEnd
    BY <2>2, ReturnCall DEF Disconnected, DestroyEnd, Callers
  <2>3. CASE StartLive
    BY <2>3 DEF StartLive, Callers, sessionVars, CameraTypeOK
  <2>4. CASE StopLive
    BY <2>4, <1>0 DEF StopLive, sessionVars, ReleaseAudio
  <2>5. CASE DestroyBegin
    BY <2>5 DEF DestroyBegin, sessionVars, Callers
  <2>6. CASE DestroyRelease
    BY <2>6, <1>0, CallKinds DEF DestroyRelease, CallIn, Crash, sessionVars, Callers, ReleaseAudio
  <2> QED
    BY <1>1, <2>1, <2>2, <2>3, <2>4, <2>5, <2>6 DEF MainStep
<1>2. ASSUME NEW a \in Attempts, AttemptStep(a)
      PROVE  Callers'
  <2>1. CASE IoConnect(a)
    BY <2>1, CallKinds DEF IoConnect, CallIn, Callers, sessionVars, CameraTypeOK
  <2>2. CASE IoConnected(a)
    BY <2>2, ReturnCall DEF IoConnected, Callers, CameraTypeOK
  <2>3. CASE ClickConnect(a) \/ Launch(a) \/ Finish(a)
    BY <2>3 DEF ClickConnect, Launch, Finish, Callers, sessionVars, CameraTypeOK, Pending
  <2>4. CASE TimerFires(a)
    BY <2>4, <1>0 DEF TimerFires, Crash, sessionVars
  <2> QED
    BY <1>2, <2>1, <2>2, <2>3, <2>4 DEF AttemptStep
<1>3. CASE ConsumerStep
  <2>1. CASE SendVideo
    BY <2>1, CallKinds DEF SendVideo, CallIn, Callers, CameraTypeOK
  <2>2. CASE VideoSent
    BY <2>2, ReturnCall DEF VideoSent, Callers
  <2>3. CASE ~SendVideo /\ ~VideoSent
    <3>1. UNCHANGED <<call, main, attempt, audio>> /\ (consumer' = consumer \/ consumer # "sending")
      BY <1>3, <2>3 DEF ConsumerStep, TakeFrame, Encode, Drain, Offer, GiveBack, ReleaseCodec,
           Crash, sessionVars
    <3> QED
      BY <3>1 DEF Callers
  <2> QED
    BY <2>1, <2>2, <2>3
<1>4. ASSUME NEW s \in AudioTasks, AudioStep(s)
      PROVE  Callers'
  <2> USE DEF Audio, CameraTypeOK
  <2>1. CASE AudioHeader(s) \/ AudioSend(s)
    BY <2>1, CallKinds DEF AudioHeader, AudioSend, CallIn, Callers
  <2>2. CASE AudioReturn(s)
    BY <2>2, ReturnCall DEF AudioReturn, Callers
  <2>3. CASE AudioRead(s) \/ AudioDrain(s)
    BY <2>3 DEF AudioRead, AudioDrain, Callers, sessionVars
  <2> QED
    BY <1>4, <2>1, <2>2, <2>3 DEF AudioStep
<1>5. ASSUME NEW t \in Threads, Native(t)
      PROVE  Callers'
  <2>1. /\ call[t].pc # "idle" /\ call'[t].op = call[t].op
        /\ \A u \in Threads \ {t} : call'[u] = call[u]
    BY <1>5, NativeCall DEF Native
  <2>2. UNCHANGED <<main, attempt, consumer, audio>>
    BY <1>5 DEF Native, appVars
  <2> QED
    BY <2>1, <2>2 DEF Callers
<1>6. CASE Peer
  BY <1>6, <1>0 DEF Peer, PeerLost, appVars
<1>7. CASE UNCHANGED cameraVars
  BY <1>7, <1>0 DEF cameraVars, appVars, sessionVars
<1> QED
  BY <1>1, <1>2, <1>3, <1>4, <1>5, <1>6, <1>7 DEF CameraNext

-----------------------------------------------------------------------------
(* What the schedules the code excludes rule out.                          *)
OnePending ==
  Excluded({"double"}) => \A a, b \in Attempts : Pending(a) /\ Pending(b) => a = b

NoOrphan ==
  isDestroy /\ Excluded({"orphaned"}) => \A a \in Attempts : ~Pending(a)

(* There is one connect at a time and close does not run beside it.        *)
Solo == Excluded({"double"}) /\ (isDestroy => Excluded({"orphaned"}))

Asking ==
  Solo => \A a \in Attempts :
            attempt[a] \in {"launched", "dispatched", "connecting"} =>
              ~rtmpConnectState /\ main = "idle"

Living == Excluded({"double"}) /\ isLiving => rtmpConnectState

Workers ==
  /\ Excluded({"torn"}) /\ main # "idle" => ~WorkerInside
  /\ Excluded({"torn", "double"}) /\ WorkerInside => rtmpConnectState

ScheduleInv == OnePending /\ NoOrphan /\ Asking /\ Living /\ Workers

LEMMA ScheduleStep ==
  ASSUME CameraTypeOK, Flags, ScheduleInv, [CameraNext]_cameraVars
  PROVE  ScheduleInv'
<1>h. \A hs : Excluded(hs)' => Excluded(hs)
  BY HazardsGrow DEF Excluded
<1>e. /\ Excluded({"torn", "double"}) <=> Excluded({"torn"}) /\ Excluded({"double"})
      /\ Excluded({"torn", "double"})' <=> Excluded({"torn"})' /\ Excluded({"double"})'
  BY DEF Excluded
<1> USE <1>h, <1>e, RoleFacts
    DEF ScheduleInv, OnePending, NoOrphan, Asking, Living, Workers, Solo, Pending, Flags, ui,
        CameraTypeOK
<1>0. CASE UNCHANGED <<attempt, consumer, audio, rtmpConnectState, isLiving, isDestroy, main>>
  BY <1>0 DEF WorkerInside
<1>1. CASE MainStep
  <2>1. CASE ClickDisconnect
    <3>1. UNCHANGED <<attempt, consumer, audio, rtmpConnectState, isDestroy>> /\ isLiving' = FALSE
          /\ rtmpConnectState /\ main = "idle"
      BY <2>1 DEF ClickDisconnect, connecting, video, ReleaseAudio, Clickable
    <3>2. Excluded({"torn"})' => ~WorkerInside
      BY <2>1 DEF ClickDisconnect, Note, Excluded
    <3> QED
      BY <3>1, <3>2 DEF WorkerInside
  <2>2. CASE Disconnected
    <3>1. UNCHANGED <<attempt, consumer, audio, isLiving, isDestroy>> /\ rtmpConnectState' = FALSE
          /\ main = "disconnecting" /\ main' = "idle"
      BY <2>2 DEF Disconnected, connecting, video, sound
    <3> QED
      BY <3>1 DEF WorkerInside
  <2>3. CASE StartLive
    <3>1. UNCHANGED <<attempt, consumer, rtmpConnectState, isDestroy, main>> /\ isLiving' = TRUE
          /\ rtmpConnectState /\ main = "idle"
      BY <2>3 DEF StartLive, connecting, video, Clickable
    <3> QED
      BY <3>1
  <2>4. CASE StopLive
    <3>1. UNCHANGED <<attempt, consumer, audio, rtmpConnectState, isDestroy, main>>
          /\ isLiving' = FALSE
      BY <2>4 DEF StopLive, connecting, video, ReleaseAudio
    <3> QED
      BY <3>1 DEF WorkerInside
  <2>5. CASE DestroyBegin
    <3>1. UNCHANGED <<attempt, consumer, audio, rtmpConnectState>> /\ isLiving' = FALSE
          /\ main = "idle" /\ main' = "destroying" /\ isDestroy'
      BY <2>5 DEF DestroyBegin, connecting, sound
    <3>2. Excluded({"torn"})' => ~WorkerInside
      BY <2>5 DEF DestroyBegin, BesideDestroy, AllHazards, Note, Excluded
    <3>3. Excluded({"orphaned"})' => \A a \in Attempts : ~Pending(a)
      BY <2>5 DEF DestroyBegin, BesideDestroy, AllHazards, Note, Excluded
    <3> QED
      BY <3>1, <3>2, <3>3 DEF WorkerInside
  <2>6. CASE DestroyRelease
    <3>1. UNCHANGED <<attempt, consumer, audio, rtmpConnectState, isLiving, isDestroy>>
          /\ main = "destroying" /\ main' \in {"destroying", "closing"}
      BY <2>6 DEF DestroyRelease, Crash, connecting, video, sound, ReleaseAudio
    <3> QED
      BY <3>1 DEF WorkerInside
  <2>7. CASE DestroyEnd
    <3>1. UNCHANGED <<attempt, consumer, audio, rtmpConnectState, isLiving, isDestroy>>
          /\ main = "closing" /\ main' = "dead"
      BY <2>7 DEF DestroyEnd, connecting, video, sound
    <3> QED
      BY <3>1 DEF WorkerInside
  <2> QED
    BY <1>1, <2>1, <2>2, <2>3, <2>4, <2>5, <2>6, <2>7 DEF MainStep
<1>2. ASSUME NEW a \in Attempts, AttemptStep(a)
      PROVE  ScheduleInv'
  <2>0. UNCHANGED <<consumer, audio, isLiving, isDestroy, main>>
    BY <1>2 DEF AttemptStep, ClickConnect, Launch, IoConnect, IoConnected, Finish, TimerFires,
         Crash, video, sound
  <2> USE <2>0
  <2>1. CASE ClickConnect(a)
    <3>1. /\ rtmpConnectState' = rtmpConnectState /\ ~rtmpConnectState /\ main = "idle"
          /\ attempt' = [attempt EXCEPT ![a] = "launched"]
      BY <2>1 DEF ClickConnect, Clickable
    <3>2. Excluded({"double"})' => \A b \in Attempts : ~Pending(b)
      BY <2>1 DEF ClickConnect, Note, Excluded
    <3> QED
      BY <3>1, <3>2 DEF WorkerInside
  <2>2. CASE Launch(a) \/ IoConnect(a) \/ Finish(a)
    <3>1. rtmpConnectState' = rtmpConnectState
          /\ \E to \in {"none", "dispatched", "connecting"} :
               /\ attempt' = [attempt EXCEPT ![a] = to]
               /\ to # "none" => attempt[a] \in {"launched", "dispatched"}
               /\ attempt[a] # "none"
      BY <2>2 DEF Launch, IoConnect, Finish
    <3> QED
      BY <3>1 DEF WorkerInside
  <2>3. CASE IoConnected(a)
    <3>1. /\ attempt[a] = "connecting"
          /\ attempt' = [attempt EXCEPT ![a] = IF isDestroy THEN "none" ELSE "answered"]
          /\ rtmpConnectState' \in BOOLEAN
      BY <2>3 DEF IoConnected
    <3>2. Solo => ~rtmpConnectState /\ main = "idle"
      BY <3>1
    <3> QED
      BY <3>1, <3>2 DEF WorkerInside
  <2>4. CASE TimerFires(a)
    BY <2>4, <1>0 DEF TimerFires, Crash, connecting
  <2> QED
    BY <1>2, <2>1, <2>2, <2>3, <2>4 DEF AttemptStep
<1>3. CASE ConsumerStep
  <2>1. UNCHANGED <<attempt, audio, rtmpConnectState, isLiving, isDestroy, main>>
    BY <1>3 DEF ConsumerStep, TakeFrame, Encode, Drain, Offer, SendVideo, VideoSent, GiveBack,
         ReleaseCodec, Crash, connecting, sound
  <2>2. WorkerInside' => WorkerInside \/ isLiving
    BY <1>3, <2>1 DEF ConsumerStep, TakeFrame, Encode, Drain, Offer, SendVideo, VideoSent, GiveBack,
         ReleaseCodec, Crash, NextFrame, WorkerInside, video
  <2> QED
    BY <2>1, <2>2
<1>4. ASSUME NEW s \in AudioTasks, AudioStep(s)
      PROVE  ScheduleInv'
  <2>1. UNCHANGED <<attempt, consumer, rtmpConnectState, isLiving, isDestroy, main>>
    BY <1>4 DEF AudioStep, AudioHeader, AudioReturn, AudioRead, AudioDrain, AudioSend,
         connecting, video
  <2>2. WorkerInside' => WorkerInside \/ isLiving
    BY <1>4, <2>1 DEF AudioStep, AudioHeader, AudioReturn, AudioRead, AudioDrain, AudioSend, Audio,
         WorkerInside
  <2> QED
    BY <2>1, <2>2
<1>5. CASE (\E t \in Threads : Native(t)) \/ Peer \/ UNCHANGED cameraVars
  BY <1>5, <1>0 DEF Native, Peer, appVars, cameraVars, connecting, video, sound
<1> QED
  BY <1>1, <1>2, <1>3, <1>4, <1>5 DEF CameraNext

-----------------------------------------------------------------------------
(* The session itself, while one connect runs at a time and no close runs  *)
(* beside it.                                                              *)
Connecting == \E a \in Attempts : attempt[a] = "connecting"

(* Between two such calls.                                                 *)
Between ==
  /\ main = "idle" /\ ~Connecting =>
       IF rtmpConnectState THEN Current({"open", "lost"}) ELSE mLive = NULL
  /\ main = "dead" => mLive = NULL

SoloSession ==
  Solo => Leads /\ Changer(Main) /\ (\A a \in Attempts : Changer(a)) /\ Between

(* A step that leaves the connection, the coroutines and the main thread   *)
(* where they were.                                                        *)
LEMMA SameSolo ==
  ASSUME SessionTypeOK, Solo' => Solo, SoloSession,
         UNCHANGED <<mLive, rtmp, rtmpConnectState, attempt, main>>,
         \A l \in Lives : lives'[l].rtmp = lives[l].rtmp,
         call'[Main] = call[Main], \A a \in Attempts : call'[a] = call[a]
  PROVE  SoloSession'
<1>1. Leads => Leads'
  BY SameChanger, RoleFacts
<1>2. /\ Changer(Main) => Changer(Main)'
      /\ \A a \in Attempts : Changer(a) => Changer(a)'
  BY SameChanger, RoleFacts
<1>3. Between => Between'
  BY SameChanger, RoleFacts DEF Between, Connecting
<1> QED
  BY <1>1, <1>2, <1>3 DEF SoloSession

LEMMA SoloShrinks ==
  ASSUME CameraTypeOK, Flags, [CameraNext]_cameraVars
  PROVE  Solo' => Solo
<1>1. hazards \subseteq hazards'
  BY HazardsGrow
<1>2. isDestroy => isDestroy'
  <2> USE DEF ui
  <2>1. CASE MainStep
    BY <2>1 DEF MainStep, ClickDisconnect, Disconnected, StartLive, StopLive, DestroyBegin,
         DestroyRelease, DestroyEnd, Crash
  <2>2. ASSUME NEW a \in Attempts, AttemptStep(a)
        PROVE  isDestroy' = isDestroy
    BY <2>2 DEF AttemptStep, ClickConnect, Launch, IoConnect, IoConnected, Finish, TimerFires,
         Crash
  <2>3. CASE ConsumerStep
    BY <2>3 DEF ConsumerStep, TakeFrame, Encode, Drain, Offer, SendVideo, VideoSent, GiveBack,
         ReleaseCodec, Crash
  <2>4. ASSUME NEW s \in AudioTasks, AudioStep(s)
        PROVE  isDestroy' = isDestroy
    BY <2>4 DEF AudioStep, AudioHeader, AudioReturn, AudioRead, AudioDrain, AudioSend
  <2>5. CASE (\E t \in Threads : Native(t)) \/ Peer \/ UNCHANGED cameraVars
    BY <2>5 DEF Native, Peer, appVars, cameraVars
  <2> QED
    BY <2>1, <2>2, <2>3, <2>4, <2>5 DEF CameraNext
<1> QED
  BY <1>1, <1>2 DEF Solo, Excluded

LEMMA SoloStep ==
  ASSUME CameraTypeOK, ShapeOK, Flags, Callers, ScheduleInv, SoloSession,
         [CameraNext]_cameraVars
  PROVE  SoloSession'
<1>t. SessionTypeOK /\ SessionTypeOK' /\ (Solo' => Solo)
  BY CameraStepImplements, TypeStep, SoloShrinks DEF CameraTypeOK
<1> USE <1>t, RoleFacts
<1>0. CASE UNCHANGED <<mLive, lives, rtmp, call, rtmpConnectState, attempt, main>>
  BY <1>0, SameSolo
<1>1. CASE MainStep
  <2>1. CASE ClickDisconnect
    <3>1. /\ CallClose(Main) /\ main' = "disconnecting"
          /\ UNCHANGED <<rtmpConnectState, attempt>>
      BY <2>1 DEF ClickDisconnect, connecting
    <3>2. /\ call'[Main].pc = "teardown" /\ UNCHANGED <<mLive, lives, rtmp>>
          /\ \A a \in Attempts : call'[a] = call[a]
      BY <3>1, CallKinds DEF CallIn
    <3>3. (Leads => Leads') /\ \A a \in Attempts : Changer(a) => Changer(a)'
      BY <3>2, SameChanger
    <3> QED
      BY <3>1, <3>2, <3>3 DEF SoloSession, Changer, Between
  <2>2. CASE Disconnected \/ DestroyEnd
    <3>1. /\ Return(Main) /\ UNCHANGED attempt /\ main \in {"disconnecting", "closing"}
          /\ \/ main' = "idle" /\ rtmpConnectState' = FALSE
             \/ main' = "dead"
      BY <2>2 DEF Disconnected, DestroyEnd, connecting
    <3>2. /\ call'[Main].pc = "idle" /\ UNCHANGED <<mLive, lives, rtmp>>
          /\ \A a \in Attempts : call'[a] = call[a]
      BY <3>1, ReturnCall DEF Return
    <3>3. (Leads => Leads') /\ \A a \in Attempts : Changer(a) => Changer(a)'
      BY <3>2, SameChanger
    <3>4. call[Main].pc = "false"
      BY <3>1 DEF Return, Callers, ShapeOK
    <3>5. Solo => mLive' = NULL
      BY <3>2, <3>4 DEF SoloSession, Changer
    <3>6. Changer(Main)'
      BY <3>2 DEF Changer
    <3>7. Solo' => Between'
      BY <3>1, <3>5 DEF Between
    <3> QED
      BY <3>3, <3>6, <3>7 DEF SoloSession
  <2>3. CASE StartLive \/ StopLive
    BY <2>3, <1>0 DEF StartLive, StopLive, sessionVars, connecting
  <2>4. CASE DestroyBegin
    <3>1. /\ UNCHANGED sessionVars /\ main' = "destroying"
      BY <2>4 DEF DestroyBegin
    <3>2. (Leads => Leads') /\ (Changer(Main) => Changer(Main)')
          /\ \A a \in Attempts : Changer(a) => Changer(a)'
      BY <3>1, SameChanger DEF sessionVars
    <3> QED
      BY <3>1, <3>2 DEF SoloSession, Between
  <2>5. CASE DestroyRelease
    <3>1. CASE Crash("codec")
      BY <3>1, <1>0 DEF Crash, sessionVars, ui, connecting
    <3>2. CASE ~Crash("codec")
      <4>1. CallClose(Main) /\ main' = "closing"
        BY <2>5, <3>2 DEF DestroyRelease
      <4>2. /\ call'[Main].pc = "teardown" /\ UNCHANGED <<mLive, lives, rtmp>>
            /\ \A a \in Attempts : call'[a] = call[a]
        BY <4>1, CallKinds DEF CallIn
      <4>3. (Leads => Leads') /\ \A a \in Attempts : Changer(a) => Changer(a)'
        BY <4>2, SameChanger
      <4> QED
        BY <4>1, <4>2, <4>3 DEF SoloSession, Changer, Between
    <3> QED
      BY <3>1, <3>2
  <2> QED
    BY <1>1, <2>1, <2>2, <2>3, <2>4, <2>5 DEF MainStep
<1>2. ASSUME NEW a \in Attempts, AttemptStep(a)
      PROVE  SoloSession'
  <2>0. attempt \in [Attempts -> {"none", "launched", "dispatched", "connecting", "answered"}]
    BY DEF CameraTypeOK
  <2>1. CASE ClickConnect(a) \/ Launch(a) \/ Finish(a) \/ (IoConnect(a) /\ UNCHANGED sessionVars)
    <3>1. /\ UNCHANGED sessionVars /\ UNCHANGED <<rtmpConnectState, main>>
          /\ attempt[a] # "connecting"
          /\ \E to : attempt' = [attempt EXCEPT ![a] = to] /\ to # "connecting"
      <4>1. CASE ClickConnect(a) \/ Launch(a) \/ Finish(a)
        BY <4>1 DEF ClickConnect, Launch, Finish, ui, Pending
      <4>2. CASE IoConnect(a) /\ UNCHANGED sessionVars
        BY <4>2, CallKinds DEF IoConnect, ui, CallIn, sessionVars
      <4> QED
        BY <2>1, <4>1, <4>2
    <3>2. Connecting' <=> Connecting
      BY <2>0, <3>1 DEF Connecting
    <3>3. /\ (Leads => Leads') /\ (Changer(Main) => Changer(Main)')
          /\ \A b \in Attempts : Changer(b) => Changer(b)'
          /\ \A S : Current(S) => Current(S)'
      BY <3>1, SameChanger DEF sessionVars
    <3> QED
      BY <3>1, <3>2, <3>3 DEF SoloSession, Between, sessionVars
  <2>2. CASE IoConnect(a) /\ ~UNCHANGED sessionVars
    <3>1. /\ CallConnect(a) /\ attempt' = [attempt EXCEPT ![a] = "connecting"]
          /\ attempt[a] = "dispatched" /\ UNCHANGED <<rtmpConnectState, main>>
      BY <2>2 DEF IoConnect, ui
    <3>2. /\ call'[a].pc = "alloc" /\ UNCHANGED <<mLive, lives, rtmp>>
          /\ \A u \in Threads \ {a} : call'[u] = call[u]
      BY <3>1, CallKinds DEF CallIn
    <3>3. /\ (Leads => Leads') /\ (Changer(Main) => Changer(Main)')
          /\ \A b \in Attempts \ {a} : Changer(b) => Changer(b)'
      BY <3>2, SameChanger
    <3>4. Solo => mLive = NULL /\ main = "idle"
      <4>1. Solo => ~rtmpConnectState /\ main = "idle"
        BY <3>1 DEF ScheduleInv, Asking
      <4>2. Solo => ~Connecting
        BY <3>1 DEF ScheduleInv, OnePending, Solo, Connecting, Pending
      <4> QED
        BY <4>1, <4>2 DEF SoloSession, Between
    <3>5. Connecting'
      BY <2>0, <3>1 DEF Connecting
    <3> QED
      BY <3>1, <3>2, <3>3, <3>4, <3>5 DEF SoloSession, Between, Changer
  <2>3. CASE IoConnected(a)
    <3>1. /\ Return(a) /\ attempt[a] = "connecting" /\ main' = main
          /\ rtmpConnectState' = (call[a].pc = "true")
      BY <2>3 DEF IoConnected
    <3>2. /\ call'[a].pc = "idle" /\ UNCHANGED <<mLive, lives, rtmp>>
          /\ \A u \in Threads \ {a} : call'[u] = call[u]
          /\ call[a].pc \in {"true", "false"}
      BY <3>1, ReturnCall DEF Return
    <3>3. /\ (Leads => Leads') /\ (Changer(Main) => Changer(Main)')
          /\ \A b \in Attempts \ {a} : Changer(b) => Changer(b)'
      BY <3>2, SameChanger
    <3>4. Solo => main = "idle"
      BY <3>1 DEF ScheduleInv, Asking
    <3>5. Current({"open", "lost"})' = Current({"open", "lost"})
      BY <3>2 DEF Current, CurrentRtmp
    <3> QED
      BY <3>1, <3>2, <3>3, <3>4, <3>5 DEF SoloSession, Between, Changer
  <2>4. CASE TimerFires(a)
    BY <2>4, <1>0 DEF TimerFires, Crash, sessionVars, ui, connecting
  <2> QED
    BY <1>2, <2>1, <2>2, <2>3, <2>4 DEF AttemptStep
<1>3. ASSUME NEW t \in Threads, t # Main, t \notin Attempts, CallIn(t) \/ Return(t),
             UNCHANGED <<rtmpConnectState, attempt, main>>
      PROVE  SoloSession'
  <2>1. UNCHANGED <<mLive, lives, rtmp>> /\ \A u \in Threads \ {t} : call'[u] = call[u]
    BY <1>3, CallKinds, ReturnCall DEF Return
  <2> QED
    BY <1>3, <2>1, SameSolo
<1>4. CASE ConsumerStep
  <2> USE DEF ui, connecting
  <2>1. CASE SendVideo
    BY <2>1, <1>3 DEF SendVideo, CallIn, CameraTypeOK
  <2>2. CASE VideoSent
    BY <2>2, <1>3 DEF VideoSent
  <2>3. CASE ~SendVideo /\ ~VideoSent
    BY <1>4, <2>3, <1>0 DEF ConsumerStep, TakeFrame, Encode, Drain, Offer, GiveBack,
         ReleaseCodec, Crash, sessionVars
  <2> QED
    BY <2>1, <2>2, <2>3
<1>5. ASSUME NEW s \in AudioTasks, AudioStep(s)
      PROVE  SoloSession'
  <2> USE DEF ui, connecting
  <2>1. CASE AudioHeader(s) \/ AudioSend(s)
    BY <2>1, <1>3 DEF AudioHeader, AudioSend, CallIn
  <2>2. CASE AudioReturn(s)
    BY <2>2, <1>3 DEF AudioReturn
  <2>3. CASE AudioRead(s) \/ AudioDrain(s)
    BY <2>3, <1>0 DEF AudioRead, AudioDrain, sessionVars
  <2> QED
    BY <1>5, <2>1, <2>2, <2>3 DEF AudioStep
<1>6. ASSUME NEW t \in Threads, Native(t)
      PROVE  SoloSession'
  <2>1. /\ NativeStep(t) /\ UNCHANGED <<rtmpConnectState, attempt, main, isDestroy, hazards>>
        /\ call[t].pc # "idle" /\ \A u \in Threads \ {t} : call'[u] = call[u]
    BY <1>6, NativeCall DEF Native, appVars, ui, connecting
  <2>2. CASE t = Consumer \/ t \in AudioTasks
    <3>1. ~Changes(call[t].op)
      BY <2>1, <2>2 DEF Callers, Changes
    <3> QED
      BY <2>1, <2>2, <3>1, SenderNative, SameSolo
  <2>3. CASE t = Main
    <3>1. main \in {"disconnecting", "closing"} /\ Changes(call[t].op)
      BY <2>1, <2>3 DEF Callers, Changes
    <3>2. Solo => \A a \in Attempts : call[a].pc = "idle"
      BY <3>1 DEF Callers, ScheduleInv, Asking
    <3>3. Solo => Leads' /\ Changer(t)'
      BY <2>1, <2>3, <3>1, ChangerNative DEF SoloSession
    <3> QED
      BY <2>1, <2>3, <3>1, <3>2, <3>3 DEF SoloSession, Between, Changer
  <2>4. CASE t \in Attempts
    <3>1. attempt[t] = "connecting" /\ Changes(call[t].op)
      BY <2>1, <2>4 DEF Callers, Changes
    <3>2. Solo => main = "idle" /\ call[Main].pc = "idle"
      BY <2>4, <3>1 DEF Callers, ScheduleInv, Asking
    <3>3. Solo => \A b \in Attempts \ {t} : call[b].pc = "idle"
      BY <2>4, <3>1 DEF Callers, ScheduleInv, OnePending, Solo, Pending
    <3>4. Solo => Leads' /\ Changer(t)'
      BY <2>1, <2>4, <3>1, ChangerNative DEF SoloSession
    <3>5. Connecting'
      BY <2>1, <2>4, <3>1 DEF Connecting
    <3> QED
      BY <2>1, <2>4, <3>2, <3>3, <3>4, <3>5 DEF SoloSession, Between, Changer
  <2> QED
    BY <2>2, <2>3, <2>4
<1>7. CASE Peer
  <2>1. PICK r \in Lives : PeerLost(r)
    BY <1>7 DEF Peer
  <2>2. UNCHANGED <<rtmpConnectState, attempt, main>>
    BY <1>7 DEF Peer, appVars, ui, connecting
  <2> QED
    BY <2>1, <2>2, LostChanger DEF SoloSession, Between, Connecting
<1>8. CASE UNCHANGED cameraVars
  BY <1>8, <1>0 DEF cameraVars, appVars, sessionVars, ui, connecting
<1> QED
  BY <1>1, <1>2, <1>4, <1>5, <1>6, <1>7, <1>8 DEF CameraNext

-----------------------------------------------------------------------------
(* The video encoder: what it emits next against what the session was told.*)

Encoding == consumer \in {"encode", "drain", "offer", "send", "sending"}

(* As long as no destruction and no close met a worker.                    *)
CodecInv ==
  Excluded({"torn"}) /\ consumer \in {"offer", "send", "sending"} =>
    videoCodec \in {"key", "inter"}

(* The session was told SPS and PPS, or they are on their way to it.       *)
ToldInv ==
  /\ Excluded({"carried", "double", "torn"})
  /\ isLiving \/ Encoding
  /\ videoCodec \in {"key", "inter"}
  /\ ~(consumer \in {"offer", "send"} /\ frame = "config")
  => mLive \in told

LEMMA CodecStep ==
  ASSUME CameraTypeOK, ScheduleInv, CodecInv, [CameraNext]_cameraVars
  PROVE  CodecInv'
<1>h. Excluded({"torn"})' => Excluded({"torn"})
  BY HazardsGrow DEF Excluded
<1>w. Excluded({"torn"}) /\ main # "idle" => ~Encoding
  BY DEF ScheduleInv, Workers, WorkerInside, Encoding
<1> USE <1>h, <1>w DEF CodecInv, Encoding, ui, video
<1>1. CASE MainStep
  <2>1. CASE ClickDisconnect \/ Disconnected \/ StartLive \/ StopLive
    BY <2>1 DEF ClickDisconnect, Disconnected, StartLive, StopLive, Clickable
  <2>2. CASE DestroyBegin
    BY <2>2 DEF DestroyBegin
  <2>3. CASE DestroyRelease
    BY <2>3 DEF DestroyRelease, Crash
  <2>4. CASE DestroyEnd
    BY <2>4 DEF DestroyEnd
  <2> QED
    BY <1>1, <2>1, <2>2, <2>3, <2>4 DEF MainStep
<1>2. ASSUME NEW a \in Attempts, AttemptStep(a)
      PROVE  CodecInv'
  BY <1>2 DEF AttemptStep, ClickConnect, Launch, IoConnect, IoConnected, Finish, TimerFires,
       Crash
<1>3. CASE ConsumerStep
  <2>1. CASE Drain
    BY <2>1 DEF Drain, Crash, After, NextFrame
  <2>2. CASE Encode
    BY <2>2 DEF Encode, NextFrame
  <2>3. CASE ReleaseCodec
    BY <2>3 DEF ReleaseCodec, Crash, NextFrame, Released
  <2>4. CASE TakeFrame \/ Offer \/ SendVideo \/ VideoSent \/ GiveBack
    BY <2>4 DEF TakeFrame, Offer, SendVideo, VideoSent, GiveBack, Crash, NextFrame
  <2> QED
    BY <1>3, <2>1, <2>2, <2>3, <2>4 DEF ConsumerStep
<1>4. ASSUME NEW s \in AudioTasks, AudioStep(s)
      PROVE  CodecInv'
  BY <1>4 DEF AudioStep, AudioHeader, AudioReturn, AudioRead, AudioDrain, AudioSend
<1>5. CASE (\E t \in Threads : Native(t)) \/ Peer \/ UNCHANGED cameraVars
  BY <1>5 DEF Native, Peer, appVars, cameraVars
<1> QED
  BY <1>1, <1>2, <1>3, <1>4, <1>5 DEF CameraNext

-----------------------------------------------------------------------------
(* Who is inside the library when a thread enters it.                      *)

LEMMA NobodyInside ==
  ASSUME Callers, \A a \in Attempts : attempt[a] # "connecting", ~WorkerInside,
         main \notin {"disconnecting", "closing"}
  PROVE  \A t \in Threads : ~Inside(t)
  BY RoleFacts DEF Callers, WorkerInside, Inside

(* A worker finds the activity idle and connected, with nobody in connect  *)
(* or close.                                                               *)
LEMMA WorkerAlone ==
  ASSUME Flags, Callers, ScheduleInv, SoloSession, Excluded({"torn", "double"}), WorkerInside
  PROVE  /\ main = "idle" /\ rtmpConnectState /\ Solo
         /\ \A a \in Attempts : attempt[a] # "connecting"
         /\ \A t \in Threads : Inside(t) => ~Changes(call[t].op)
         /\ mLive # NULL
<1>1. Excluded({"torn"}) /\ Excluded({"double"})
  BY DEF Excluded
<1>2. main = "idle" /\ rtmpConnectState /\ Solo
  BY <1>1 DEF ScheduleInv, Workers, Solo, Flags
<1>3. \A a \in Attempts : attempt[a] # "connecting"
  BY <1>2 DEF ScheduleInv, Asking
<1>4. \A t \in Threads : Inside(t) => ~Changes(call[t].op)
  BY <1>2, <1>3, RoleFacts DEF Callers, Inside, Changes
<1>5. mLive # NULL
  BY <1>2, <1>3 DEF SoloSession, Between, Connecting, Current
<1> QED
  BY <1>2, <1>3, <1>4, <1>5

(* A connect that is about to be made finds no session.                    *)
LEMMA ConnectAlone ==
  ASSUME Flags, Callers, ScheduleInv, SoloSession, NEW a \in Attempts, Solo,
         attempt[a] = "dispatched"
  PROVE  /\ mLive = NULL /\ main = "idle" /\ ~rtmpConnectState
         /\ \A b \in Attempts : attempt[b] # "connecting"
<1>1. ~rtmpConnectState /\ main = "idle"
  BY DEF ScheduleInv, Asking
<1>2. \A b \in Attempts : attempt[b] # "connecting"
  BY DEF ScheduleInv, OnePending, Solo, Pending
<1> QED
  BY <1>1, <1>2 DEF SoloSession, Between, Connecting

-----------------------------------------------------------------------------
(* The rules.                                                              *)

(* What a call of each kind may add to misuse.                             *)
Rules ==
  /\ "overlap" \in misuse => ~Excluded({"torn", "double", "orphaned"})
  /\ "reconnect" \in misuse => ~Excluded({"double"})
  /\ "unopened" \in misuse => ~Excluded({"torn", "double"})
  /\ "unconfigured" \in misuse => ~Excluded({"carried", "double", "torn"})

LEMMA RulesSame ==
  ASSUME Rules, [CameraNext]_cameraVars, misuse' = misuse
  PROVE  Rules'
<1>1. \A hs : Excluded(hs)' => Excluded(hs)
  BY HazardsGrow DEF Excluded
<1> QED
  BY <1>1 DEF Rules

LEMMA RulesEnter ==
  ASSUME Rules, [CameraNext]_cameraVars, NEW op, NEW f, misuse' = misuse \cup Misused(op, f),
         Excluded({"torn", "double", "orphaned"})' =>
           \A u \in Threads : Inside(u) => ~Changes(op) /\ ~Changes(call[u].op),
         Excluded({"double"})' => op # "connect" \/ mLive = NULL,
         Excluded({"torn", "double"})' => Changes(op) \/ mLive # NULL,
         Excluded({"carried", "double", "torn"})' =>
           op # "sendVideo" \/ f # "key" \/ mLive \in told
  PROVE  Rules'
<1>1. \A hs : Excluded(hs)' => Excluded(hs)
  BY HazardsGrow DEF Excluded
<1> QED
  BY <1>1, MisusedKinds DEF Rules

(* A live that is on has the session it was started on.                    *)
LEMMA LiveAlone ==
  ASSUME Flags, ScheduleInv, SoloSession, Excluded({"double"}), isLiving
  PROVE  /\ main = "idle" /\ rtmpConnectState /\ Solo
         /\ \A a \in Attempts : attempt[a] # "connecting"
         /\ Current({"open", "lost"})
<1>1. main = "idle" /\ rtmpConnectState /\ Solo
  BY DEF Flags, ScheduleInv, Living, Solo
<1>2. \A a \in Attempts : attempt[a] # "connecting"
  BY <1>1 DEF ScheduleInv, Asking
<1> QED
  BY <1>1, <1>2 DEF SoloSession, Between, Connecting

LEMMA ToldStep ==
  ASSUME CameraTypeOK, HeldIsCurrent, ShapeOK, Flags, Callers, ScheduleInv, SoloSession, ToldInv,
         [CameraNext]_cameraVars, Flags', ScheduleInv'
  PROVE  ToldInv'
<1> DEFINE Ex == Excluded({"carried", "double", "torn"})
           Use == isLiving \/ Encoding
<1>e. Ex => Excluded({"double"}) /\ Excluded({"torn"}) /\ Excluded({"torn", "double"})
  BY DEF Excluded
<1>h. Ex' => Ex /\ Excluded({"torn"})' /\ "carried" \notin hazards'
  BY HazardsGrow DEF Excluded
<1>m. Ex /\ Use => main = "idle" /\ mLive # NULL /\ rtmpConnectState
                   /\ \A t \in Threads : Inside(t) => ~Changes(call[t].op)
  <2>1. CASE Ex /\ Encoding
    <3>1. WorkerInside
      BY <2>1 DEF Encoding, WorkerInside
    <3> QED
      BY <2>1, <3>1, <1>e, WorkerAlone
  <2>2. CASE Ex /\ isLiving
    <3>1. /\ main = "idle" /\ rtmpConnectState /\ mLive # NULL
          /\ \A a \in Attempts : attempt[a] # "connecting"
      BY <2>2, <1>e, LiveAlone DEF Current
    <3>2. \A t \in Threads : Inside(t) => ~Changes(call[t].op)
      BY <3>1, RoleFacts DEF Callers, Inside, Changes
    <3> QED
      BY <3>1, <3>2
  <2> QED
    BY <2>1, <2>2
<1>m2. Ex' /\ Use' => main' = "idle"
  BY <1>h DEF ScheduleInv, Workers, WorkerInside, Encoding, Flags
<1> USE DEF ui, video, ToldInv, Encoding
<1> SUFFICES ASSUME Ex', Use', videoCodec' \in {"key", "inter"},
                    ~(consumer' \in {"offer", "send"} /\ frame' = "config")
             PROVE  mLive' \in told'
  OBVIOUS
<1>k. ASSUME mLive' = mLive, told \subseteq told', consumer' = consumer, frame' = frame,
             videoCodec' = videoCodec, isLiving' => isLiving
      PROVE  mLive' \in told'
  BY <1>h, <1>k
<1>1. CASE MainStep
  <2>1. CASE ClickDisconnect \/ DestroyBegin \/ DestroyRelease \/ DestroyEnd
    BY <2>1, <1>k, <1>m2 DEF ClickDisconnect, DestroyBegin, DestroyRelease, DestroyEnd, Crash,
       sessionVars
  <2>2. CASE Disconnected
    BY <2>2, <1>k, CallKeeps, RoleFacts DEF Disconnected
  <2>3. CASE StartLive
    BY <2>3, <1>h DEF StartLive, Note
  <2>4. CASE StopLive
    BY <2>4, <1>k DEF StopLive, sessionVars
  <2> QED
    BY <1>1, <2>1, <2>2, <2>3, <2>4 DEF MainStep
<1>2. ASSUME NEW a \in Attempts, AttemptStep(a)
      PROVE  mLive' \in told'
  <2>1. mLive' = mLive /\ told \subseteq told'
    BY <1>2, CallKeeps, RoleFacts DEF AttemptStep, ClickConnect, Launch, IoConnect, IoConnected,
       Finish, TimerFires, Crash, CallIn, sessionVars
  <2>2. UNCHANGED <<video, isLiving>>
    BY <1>2 DEF AttemptStep, ClickConnect, Launch, IoConnect, IoConnected,
       Finish, TimerFires, Crash
  <2> QED
    BY <2>1, <2>2, <1>k
<1>3. CASE ConsumerStep
  <2>0. mLive' = mLive /\ told \subseteq told' /\ isLiving' = isLiving
    BY <1>3, CallKeeps, RoleFacts DEF ConsumerStep, TakeFrame, Encode, Drain, Offer,
       SendVideo, VideoSent, GiveBack, ReleaseCodec, Crash, CallIn, sessionVars, CameraTypeOK
  <2>1. CASE TakeFrame
    BY <2>0, <2>1, <1>h DEF TakeFrame, NextFrame
  <2>2. CASE Encode
    BY <2>0, <2>2, <1>h DEF Encode, NextFrame
  <2>3. CASE Drain
    <3>1. CASE Crash("codec")
      BY <2>0, <3>1, <1>k DEF Crash
    <3>2. CASE frame' = videoCodec /\ consumer' = "offer"
      BY <2>0, <2>3, <3>2, <1>h DEF Drain, Crash, CameraTypeOK, Frames, HeldIsCurrent
    <3>3. CASE NextFrame /\ UNCHANGED videoCodec
      BY <2>0, <2>3, <3>3, <1>h DEF Drain
    <3> QED
      BY <2>3, <3>1, <3>2, <3>3 DEF Drain
  <2>4. CASE Offer
    BY <2>0, <2>4, <1>h, <1>m DEF Offer
  <2>5. CASE SendVideo
    <3>1. CASE frame = "config"
      <4>1. mLive \in Lives
        BY <2>5, <1>h, <1>m DEF SendVideo, CameraTypeOK, SessionTypeOK
      <4>2. told' = told \cup {l \in Lives : l = mLive}
        BY <2>5, <3>1 DEF SendVideo, CallSendVideo, Enter
      <4> QED
        BY <4>1, <4>2, <2>0
    <3>2. CASE frame # "config"
      BY <2>0, <2>5, <3>2, <1>h DEF SendVideo
    <3> QED
      BY <3>1, <3>2
  <2>6. CASE VideoSent
    BY <2>0, <2>6, <1>h DEF VideoSent
  <2>7. CASE GiveBack
    BY <2>0, <2>7, <1>h, <1>k DEF GiveBack, Crash, NextFrame
  <2>8. CASE ReleaseCodec
    BY <2>0, <2>8, <1>h, <1>k DEF ReleaseCodec, Crash
  <2> QED
    BY <1>3, <2>1, <2>2, <2>3, <2>4, <2>5, <2>6, <2>7, <2>8 DEF ConsumerStep
<1>4. ASSUME NEW s \in AudioTasks, AudioStep(s)
      PROVE  mLive' \in told'
  <2>1. mLive' = mLive /\ told \subseteq told'
    BY <1>4, CallKeeps, RoleFacts DEF AudioStep, AudioHeader, AudioReturn, AudioRead, AudioDrain,
       AudioSend, CallIn, sessionVars
  <2>2. UNCHANGED <<video, isLiving>>
    BY <1>4 DEF AudioStep, AudioHeader, AudioReturn, AudioRead, AudioDrain, AudioSend
  <2> QED
    BY <2>1, <2>2, <1>k
<1>5. ASSUME NEW t \in Threads, Native(t)
      PROVE  mLive' \in told'
  <2>1. UNCHANGED <<video, isLiving>> /\ told' = told
    BY <1>5, NativeTold DEF Native, appVars
  <2>2. call[t].pc # "idle"
    BY <1>5, NativeCall DEF Native, CameraTypeOK
  <2>3. ~Changes(call[t].op)
    <3>1. Ex /\ Use
      BY <2>1, <1>h
    <3>2. Inside(t) \/ call[t].pc \in {"true", "false"}
      BY <2>2 DEF Inside
    <3>3. call[t].pc \notin {"true", "false"}
      BY <1>5 DEF Native, NativeStep, ConnectAlloc, ConnectSetup, ConnectServer,
         ConnectStream, TeardownClose, TeardownFree, TeardownClear, SaveConfig, MakeHeader,
         MakeFrame, MakeAudio, MakePacket, SendHeader, SendFrame, SendAudio, SendPacket, At
    <3> QED
      BY <3>1, <3>2, <3>3, <1>m
  <2>4. mLive' = mLive
    BY <1>5, <2>3, SenderNative DEF Native, CameraTypeOK
  <2> QED
    BY <2>1, <2>4, <1>k
<1>6. CASE Peer
  BY <1>6, <1>k DEF Peer, PeerLost, appVars, history
<1>7. CASE UNCHANGED cameraVars
  BY <1>7, <1>k DEF cameraVars, appVars, sessionVars
<1> QED
  BY <1>1, <1>2, <1>3, <1>4, <1>5, <1>6, <1>7 DEF CameraNext

(* A worker that enters the library respects the rules.                    *)
LEMMA WorkerRules ==
  ASSUME Flags, Callers, ScheduleInv, SoloSession, Rules, [CameraNext]_cameraVars, WorkerInside,
         NEW op \in {"sendVideo", "sendAudio"}, NEW f, misuse' = misuse \cup Misused(op, f),
         Excluded({"carried", "double", "torn"}) =>
           op # "sendVideo" \/ f # "key" \/ mLive \in told
  PROVE  Rules'
<1>1. /\ Excluded({"torn", "double", "orphaned"})' => Excluded({"torn", "double"})
      /\ Excluded({"torn", "double"})' => Excluded({"torn", "double"})
      /\ Excluded({"carried", "double", "torn"})' => Excluded({"carried", "double", "torn"})
  BY HazardsGrow DEF Excluded
<1>2. Excluded({"torn", "double"}) =>
        mLive # NULL /\ \A u \in Threads : Inside(u) => ~Changes(call[u].op)
  BY WorkerAlone
<1>3. ~Changes(op) /\ op # "connect"
  BY DEF Changes
<1> QED
  BY <1>1, <1>2, <1>3, RulesEnter

(* So does a call of connect or close with nobody inside.                  *)
LEMMA ChangerRules ==
  ASSUME Rules, [CameraNext]_cameraVars, NEW op \in {"connect", "close"}, NEW f,
         misuse' = misuse \cup Misused(op, f),
         Excluded({"torn", "double", "orphaned"})' => \A u \in Threads : ~Inside(u),
         Excluded({"double"})' => op # "connect" \/ mLive = NULL
  PROVE  Rules'
<1>1. Changes(op) /\ op # "sendVideo"
  BY DEF Changes
<1> QED
  BY <1>1, RulesEnter

LEMMA RulesStep ==
  ASSUME CameraTypeOK, Flags, Callers, ScheduleInv, SoloSession, CodecInv, ToldInv, Rules,
         [CameraNext]_cameraVars
  PROVE  Rules'
<1>t. SessionTypeOK
  BY DEF CameraTypeOK
<1>e. Excluded({"torn", "double", "orphaned"})' =>
        /\ Excluded({"torn", "double", "orphaned"}) /\ Solo /\ Excluded({"double"})
        /\ Excluded({"torn", "double"}) /\ Excluded({"torn"})
        /\ "torn" \notin hazards'
  BY HazardsGrow DEF Excluded, Solo
<1>d. Excluded({"double"})' => Excluded({"double"})
  BY HazardsGrow DEF Excluded
<1> USE <1>t, RoleFacts
<1>1. CASE MainStep
  <2>1. CASE ClickDisconnect
    <3>1. /\ misuse' = misuse \cup Misused("close", "inter")
          /\ main = "idle" /\ rtmpConnectState
      BY <2>1 DEF ClickDisconnect, CallClose, Enter, Clickable
    <3>2. "torn" \notin hazards' => ~WorkerInside
      BY <2>1 DEF ClickDisconnect, Note
    <3>3. Solo => \A a \in Attempts : attempt[a] # "connecting"
      BY <3>1 DEF ScheduleInv, Asking
    <3>4. Excluded({"torn", "double", "orphaned"})' => \A u \in Threads : ~Inside(u)
      BY <1>e, <3>1, <3>2, <3>3, NobodyInside
    <3> QED
      BY <3>1, <3>4, ChangerRules
  <2>2. CASE Disconnected \/ DestroyEnd
    BY <2>2, ReturnCall, RulesSame DEF Disconnected, DestroyEnd
  <2>3. CASE StartLive \/ StopLive \/ DestroyBegin
    BY <2>3, RulesSame DEF StartLive, StopLive, DestroyBegin, sessionVars
  <2>4. CASE DestroyRelease
    <3>1. CASE Crash("codec")
      BY <3>1, RulesSame DEF Crash, sessionVars
    <3>2. CASE ~Crash("codec")
      <4>1. /\ misuse' = misuse \cup Misused("close", "inter")
            /\ main = "destroying"
        BY <2>4, <3>2 DEF DestroyRelease, CallClose, Enter
      <4>2. "torn" \notin hazards' => ~WorkerInside
        BY <2>4, <3>2 DEF DestroyRelease, Note
      <4>3. Solo => \A a \in Attempts : attempt[a] # "connecting"
        BY <4>1 DEF ScheduleInv, Asking
      <4>4. Excluded({"torn", "double", "orphaned"})' => \A u \in Threads : ~Inside(u)
        BY <1>e, <4>1, <4>2, <4>3, NobodyInside
      <4> QED
        BY <4>1, <4>4, ChangerRules
    <3> QED
      BY <3>1, <3>2
  <2> QED
    BY <1>1, <2>1, <2>2, <2>3, <2>4 DEF MainStep
<1>2. ASSUME NEW a \in Attempts, AttemptStep(a)
      PROVE  Rules'
  <2>1. CASE ClickConnect(a) \/ Launch(a) \/ Finish(a) \/ TimerFires(a)
    BY <2>1, RulesSame DEF ClickConnect, Launch, Finish, TimerFires, Crash, sessionVars
  <2>2. CASE IoConnect(a) /\ isDestroy
    BY <2>2, RulesSame DEF IoConnect, sessionVars
  <2>3. CASE IoConnect(a) /\ ~isDestroy
    <3>1. /\ misuse' = misuse \cup Misused("connect", "inter") /\ attempt[a] = "dispatched"
      BY <2>3 DEF IoConnect, CallConnect, Enter
    <3>2. Excluded({"double"}) => Solo
      BY <2>3 DEF Solo
    <3>3. Solo => /\ mLive = NULL /\ main = "idle" /\ ~rtmpConnectState
                  /\ \A b \in Attempts : attempt[b] # "connecting"
      BY <3>1, ConnectAlone
    <3>4. Excluded({"torn", "double"}) /\ ~rtmpConnectState => ~WorkerInside
      BY DEF ScheduleInv, Workers
    <3>5. Excluded({"torn", "double", "orphaned"})' => \A u \in Threads : ~Inside(u)
      BY <1>e, <3>3, <3>4, NobodyInside
    <3> QED
      BY <3>1, <3>2, <3>3, <3>5, <1>d, ChangerRules
  <2>4. CASE IoConnected(a)
    BY <2>4, ReturnCall, RulesSame DEF IoConnected
  <2> QED
    BY <1>2, <2>1, <2>2, <2>3, <2>4 DEF AttemptStep
<1>3. CASE ConsumerStep
  <2>1. CASE SendVideo
    <3>1. misuse' = misuse \cup Misused("sendVideo", frame) /\ consumer = "send"
      BY <2>1 DEF SendVideo, CallSendVideo, Enter
    <3>2. WorkerInside
      BY <3>1 DEF WorkerInside
    <3>3. Excluded({"carried", "double", "torn"}) => frame # "key" \/ mLive \in told
      <4>1. Excluded({"carried", "double", "torn"}) => Excluded({"torn"})
        BY DEF Excluded
      <4> QED
        BY <3>1, <4>1 DEF CodecInv, ToldInv, Encoding
    <3> QED
      BY <3>1, <3>2, <3>3, WorkerRules
  <2>2. CASE VideoSent
    BY <2>2, ReturnCall, RulesSame DEF VideoSent
  <2>3. CASE ~SendVideo /\ ~VideoSent
    BY <1>3, <2>3, RulesSame DEF ConsumerStep, TakeFrame, Encode, Drain, Offer, GiveBack,
       ReleaseCodec, Crash, sessionVars
  <2> QED
    BY <2>1, <2>2, <2>3
<1>4. ASSUME NEW s \in AudioTasks, AudioStep(s)
      PROVE  Rules'
  <2>1. CASE AudioHeader(s) \/ AudioSend(s)
    <3>1. /\ misuse' = misuse \cup Misused("sendAudio", "inter")
          /\ audio[s] \in {"queued", "send"}
      BY <2>1 DEF AudioHeader, AudioSend, CallSendAudio, Enter
    <3>2. WorkerInside
      BY <3>1 DEF WorkerInside
    <3> QED
      BY <3>1, <3>2, WorkerRules
  <2>2. CASE AudioReturn(s)
    BY <2>2, ReturnCall, RulesSame DEF AudioReturn
  <2>3. CASE AudioRead(s) \/ AudioDrain(s)
    BY <2>3, RulesSame DEF AudioRead, AudioDrain, sessionVars
  <2> QED
    BY <1>4, <2>1, <2>2, <2>3 DEF AudioStep
<1>5. ASSUME NEW t \in Threads, Native(t)
      PROVE  Rules'
  BY <1>5, NativeCall, RulesSame DEF Native
<1>6. CASE Peer \/ UNCHANGED cameraVars
  BY <1>6, RulesSame DEF Peer, PeerLost, history, cameraVars, sessionVars
<1> QED
  BY <1>1, <1>2, <1>3, <1>4, <1>5, <1>6 DEF CameraNext

-----------------------------------------------------------------------------
(* The invariant of the activity, and what follows from it.                *)

CameraInv ==
  /\ CameraTypeOK /\ HeldIsCurrent /\ SessionInv /\ SenderInv
  /\ Flags /\ Callers /\ ScheduleInv /\ SoloSession
  /\ CodecInv /\ ToldInv /\ Rules

LEMMA CameraStart == CameraInit => CameraInv
<1> SUFFICES ASSUME CameraInit
             PROVE  CameraInv
  OBVIOUS
<1>1. CameraTypeOK /\ HeldIsCurrent /\ SessionInv
  BY CameraTypeInit, SessionStart DEF CameraInit
<1>2. \A t \in Threads : call[t] = Idle
  BY DEF CameraInit, SessionInit
<1>3. SenderInv /\ Flags /\ Callers
  BY <1>2, RoleFacts DEF CameraInit, SessionInit, Idle, SenderInv, VideoHasOneSender, Flags, Callers
<1>4. ScheduleInv
  BY DEF CameraInit, ScheduleInv, OnePending, NoOrphan, Asking, Living, Workers,
     WorkerInside, Pending
<1>5. SoloSession
  BY <1>2, RoleFacts DEF CameraInit, SessionInit, Idle, SoloSession, Leads, Changer, Between
<1>6. CodecInv /\ ToldInv /\ Rules
  BY DEF CameraInit, SessionInit, CodecInv, ToldInv, Rules
<1> QED
  BY <1>1, <1>3, <1>4, <1>5, <1>6 DEF CameraInv

LEMMA CameraStep == CameraInv /\ [CameraNext]_cameraVars => CameraInv'
<1> SUFFICES ASSUME CameraInv, [CameraNext]_cameraVars
             PROVE  CameraInv'
  OBVIOUS
<1> USE DEF CameraInv
<1>1. CameraTypeOK' /\ HeldIsCurrent' /\ SenderInv'
  BY CameraTypeStep, SenderStep
<1>2. SessionInv' /\ ShapeOK
  BY CameraStepImplements, SessionStep DEF SessionInv
<1>3. Flags' /\ Callers' /\ ScheduleInv'
  BY FlagsStep, CallersStep, ScheduleStep
<1>4. SoloSession'
  BY <1>2, SoloStep
<1>5. CodecInv' /\ ToldInv'
  BY <1>2, <1>3, CodecStep, ToldStep
<1>6. Rules'
  BY RulesStep
<1> QED
  BY <1>1, <1>2, <1>3, <1>4, <1>5, <1>6

(* The inductive invariant holds of every behaviour of the activity.       *)
THEOREM CameraInvariant == CameraSpec => []CameraInv
  BY CameraStart, CameraStep, PTL DEF CameraSpec

(* For any number of attempts, audio tasks and sessions: the activity keeps*)
(* the rules of the native session but for the schedules it does not       *)
(* exclude, each rule but for the schedules that RulesAreKept names.       *)
THEOREM RulesTheorem == CameraSpec => []RulesAreKept
<1>1. CameraInv => RulesAreKept
  BY DEF CameraInv, Rules, RulesAreKept, SenderInv
<1> QED
  BY <1>1, CameraInvariant, PTL

(* A live is never on without a session that the server accepted, unless   *)
(* two connects were pending at once.                                      *)
THEOREM LiveTheorem == CameraSpec => []LiveHasSession
<1>1. CameraInv => LiveHasSession
  BY LiveAlone DEF CameraInv, LiveHasSession, Current
<1> QED
  BY <1>1, CameraInvariant, PTL

(* rtmpConnectState says whether there is a session, between two calls that*)
(* change it and also when senders overlapped them.                        *)
THEOREM StateTheorem == CameraSpec => []StateMatchesSession
<1>1. CameraInv => StateMatchesSession
  <2> SUFFICES ASSUME CameraInv, Excluded({"double"}), main = "idle",
                      \A a \in Attempts : attempt[a] # "connecting"
               PROVE  rtmpConnectState <=> mLive # NULL
    BY DEF StateMatchesSession
  <2>1. Solo
    BY DEF CameraInv, Flags, Solo
  <2> QED
    BY <2>1 DEF CameraInv, SoloSession, Between, Connecting, Current
<1> QED
  BY <1>1, CameraInvariant, PTL

(* A destroyed activity leaves no session and no open handle, also when    *)
(* the workers were still sending while it was torn down.                  *)
THEOREM OutlivesTheorem == CameraSpec => []NothingOutlives
<1>1. CameraInv => NothingOutlives
  <2> SUFFICES ASSUME CameraInv, main = "dead", Excluded({"double", "orphaned"})
               PROVE  mLive = NULL /\ \A r \in Lives : rtmp[r] \in {"unused", "freed"}
    BY DEF NothingOutlives
  <2>1. Solo
    BY DEF Solo, Excluded
  <2> QED
    BY <2>1 DEF CameraInv, SoloSession, Between, Leads
<1> QED
  BY <1>1, CameraInvariant, PTL

(* What is left of the video encoder while the activity goes, if the       *)
(* consumer was not about to make one.                                     *)
ReleasedInv ==
  Excluded({"late"}) =>
    /\ isDestroy => consumer # "encode"
    /\ main = "destroying" /\ codecTorn = "none" => videoCodec = "null"
    /\ main \in {"closing", "dead"} => videoCodec = "null"

LEMMA ReleasedStep ==
  ASSUME CameraInv, ReleasedInv, [CameraNext]_cameraVars
  PROVE  ReleasedInv'
<1>h. Excluded({"late"})' => Excluded({"late"})
  BY HazardsGrow DEF Excluded
<1>f. (isDestroy <=> main \in {"destroying", "closing", "dead"}) /\ (isDestroy => ~isLiving)
  BY DEF CameraInv, Flags
<1>c. (codecHeld = "live" => videoCodec # "null") /\ codecTorn \in {"none", "live", "released"}
  BY DEF CameraInv, HeldIsCurrent, CameraTypeOK, Held
<1> USE <1>h, <1>f, <1>c DEF ReleasedInv, ui, video
<1>1. CASE MainStep
  <2>1. CASE ClickDisconnect \/ Disconnected \/ StartLive \/ StopLive
    BY <2>1 DEF ClickDisconnect, Disconnected, StartLive, StopLive, Clickable
  <2>2. CASE DestroyBegin
    <3>1. Excluded({"late"})' => consumer # "encode"
      BY <2>2 DEF DestroyBegin, BesideDestroy, AllHazards, Note, Excluded
    <3> QED
      BY <2>2, <3>1 DEF DestroyBegin
  <2>3. CASE DestroyRelease
    BY <2>3 DEF DestroyRelease, Crash
  <2>4. CASE DestroyEnd
    BY <2>4 DEF DestroyEnd
  <2> QED
    BY <1>1, <2>1, <2>2, <2>3, <2>4 DEF MainStep
<1>2. ASSUME NEW a \in Attempts, AttemptStep(a)
      PROVE  ReleasedInv'
  BY <1>2 DEF AttemptStep, ClickConnect, Launch, IoConnect, IoConnected, Finish, TimerFires,
       Crash
<1>3. CASE ConsumerStep
  <2>1. CASE TakeFrame
    BY <2>1 DEF TakeFrame, NextFrame
  <2>2. CASE Encode
    BY <2>2 DEF Encode, NextFrame
  <2>3. CASE Drain
    BY <2>3 DEF Drain, Crash, NextFrame
  <2>4. CASE ReleaseCodec
    BY <2>4 DEF ReleaseCodec, Crash, NextFrame, Released
  <2>5. CASE Offer \/ SendVideo \/ VideoSent \/ GiveBack
    BY <2>5 DEF Offer, SendVideo, VideoSent, GiveBack, Crash, NextFrame
  <2> QED
    BY <1>3, <2>1, <2>2, <2>3, <2>4, <2>5 DEF ConsumerStep
<1>4. ASSUME NEW s \in AudioTasks, AudioStep(s)
      PROVE  ReleasedInv'
  BY <1>4 DEF AudioStep, AudioHeader, AudioReturn, AudioRead, AudioDrain, AudioSend
<1>5. CASE (\E t \in Threads : Native(t)) \/ Peer \/ UNCHANGED cameraVars
  BY <1>5 DEF Native, Peer, appVars, cameraVars
<1> QED
  BY <1>1, <1>2, <1>3, <1>4, <1>5 DEF CameraNext

(* A destroyed activity leaves no encoder, unless onDestroy began while the*)
(* consumer was on its way to initMediaCodec.                              *)
THEOREM ReleasedTheorem == CameraSpec => []EncoderReleased
<1>1. CameraInit => ReleasedInv
  BY DEF CameraInit, ReleasedInv
<1>2. CameraInv /\ ReleasedInv /\ [CameraNext]_cameraVars => ReleasedInv'
  BY ReleasedStep
<1>3. ReleasedInv => EncoderReleased
  BY DEF ReleasedInv, EncoderReleased
<1> QED
  BY <1>1, <1>2, <1>3, CameraInvariant, PTL DEF CameraSpec

(* Without those schedules the native library performs no undefined access *)
(* on behalf of the activity: all that can end the process is the error    *)
(* path of a lost connection.                                              *)
AccessesDefined ==
  /\ Excluded({"torn", "double", "orphaned"}) =>
       fault \notin {"freed_rtmp", "null_live", "null_rtmp"}
  /\ Excluded({"torn", "double", "orphaned", "carried"}) => fault \in {"none", "recursion"}

(* The schedules the activity does not exclude are the only way to an      *)
(* undefined access: the rules it keeps are all that the session asks for. *)
THEOREM AccessTheorem == CameraSpec => []AccessesDefined
<1>1. CameraInv => AccessesDefined
  <2> SUFFICES ASSUME CameraInv
               PROVE  AccessesDefined
    OBVIOUS
  <2>1. /\ Excluded({"torn", "double", "orphaned"}) => Kept({"overlap", "unopened"})
        /\ Excluded({"torn", "double", "orphaned", "carried"}) =>
             Kept({"overlap", "unopened", "interleaved", "unconfigured"})
    BY DEF CameraInv, Rules, SenderInv, VideoHasOneSender, Excluded, Kept
  <2>2. /\ Kept({"overlap", "unopened"}) => fault \notin {"freed_rtmp", "null_live", "null_rtmp"}
        /\ Kept({"overlap", "interleaved", "unconfigured"}) => fault # "null_sps"
    BY DEF CameraInv, SessionInv, FreedHandleNeedsOverlap, NullNeedsUnopened,
       NullSpsNeedsUnconfigured, Kept
  <2>3. fault \in Faults \cup {"none"}
    BY DEF CameraInv, CameraTypeOK, SessionTypeOK
  <2> QED
    BY <2>1, <2>2, <2>3 DEF AccessesDefined, Faults, Kept
<1> QED
  BY <1>1, CameraInvariant, PTL

(* What the server sees, and what stays open, without those schedules.     *)
ConnectionsKept ==
  Excluded({"torn", "double", "orphaned"}) =>
    /\ \A r \in Lives : rtmp[r] \notin {"unused", "freed"} => mLive # NULL /\ CurrentRtmp = r
    /\ \A t \in Threads :
         /\ At(t, "sendVideo", "sendFrame") /\ call[t].frame = "key"
         /\ rtmp[call[t].r] \in {"connected", "open"}
         => wire[call[t].r] = "header"

(* Also across reconnects, and with senders that read mLive late, there is *)
(* never an open connection that nobody will close, and no I frame goes out*)
(* before SPS and PPS of its connection, whatever encoder made it.         *)
THEOREM ConnectionTheorem == CameraSpec => []ConnectionsKept
<1>1. CameraInv => ConnectionsKept
  <2> SUFFICES ASSUME CameraInv, Excluded({"torn", "double", "orphaned"})
               PROVE  ConnectionsKept
    BY DEF ConnectionsKept
  <2>1. Kept({"overlap", "reconnect", "interleaved"})
    BY DEF CameraInv, Rules, SenderInv, VideoHasOneSender, Excluded, Kept
  <2>2. Kept({"overlap", "reconnect"}) /\ Kept({"overlap", "interleaved"})
    BY <2>1 DEF Kept
  <2>3. NoHandleLeaks /\ KeyFollowsHeader
    BY DEF CameraInv, SessionInv
  <2> QED
    BY <2>2, <2>3 DEF NoHandleLeaks, KeyFollowsHeader, ConnectionsKept
<1> QED
  BY <1>1, CameraInvariant, PTL

=============================================================================
