----------------------------- MODULE CameraLive -----------------------------
(***************************************************************************)
(* One CameraLiveActivity, from its creation to its destruction, on top of *)
(* the native session it drives:                                           *)
(*   - the main thread: the connect, disconnect and live buttons, the      *)
(*     coroutine that connects, the delayed progress dialog, onDestroy;    *)
(*   - an IO thread per connect click, inside RtmpManager.connect;         *)
(*   - the consumer, which takes camera frames, encodes and sends video;   *)
(*   - an audio task per start of a live, which encodes and sends audio.   *)
(*                                                                         *)
(* A camera frame is only that take() returns.  An encoder is what it will *)
(* emit next.  An uncaught exception ends the process, like an undefined   *)
(* access of the native library does.                                      *)
(***************************************************************************)
EXTENDS RtmpSession

CONSTANTS
  Main, Consumer,   (* the main thread and the consumer                    *)
  Attempts,         (* the connect attempts that may be pending at a time  *)
  AudioTasks,       (* the audio tasks that may be unfinished at a time    *)
  Schedules         (* the hazards (below) explored, "lost" connections    *)
                    (* and "live"s: a bound for TLC                        *)

AllHazards == {"double", "torn", "orphaned", "carried", "late", "shared"}

ASSUME Roles ==
  /\ Threads = {Main, Consumer} \cup Attempts \cup AudioTasks
  /\ Main # Consumer /\ {Main, Consumer} \cap (Attempts \cup AudioTasks) = {}
  /\ Attempts \cap AudioTasks = {}

VARIABLES
  rtmpConnectState, isLiving, isDestroy,
  main,       (* where the main thread is                                  *)
  attempt,    (* the coroutine of each connect click                       *)
  timer,      (* postDelayed(..., 500) is pending                          *)
  dialog,     (* its progressDialog: null, created, or shown               *)
  consumer,   (* where the consumer is                                     *)
  frame,      (* the encoded frame the consumer holds, if any              *)
  videoCodec, (* videoMediaCodec: null, or what the encoder emits next     *)
  codecHeld,  (* the encoder the consumer captured                         *)
  codecTorn,  (* the encoder onDestroy captured                            *)
  audio,      (* where each audio task is                                  *)
  audioOn,    (* audioRecord and audioMediaCodec are not null              *)
  audioHeld,  (* the audio encoder each task captured                      *)
  crash,      (* "none", or the uncaught exception that ended the process  *)
  hazards     (* history: the schedules that the code does not exclude     *)

ui        == <<rtmpConnectState, isLiving, isDestroy, main>>
connecting == <<attempt, timer, dialog>>
video     == <<consumer, frame, videoCodec, codecHeld, codecTorn>>
sound     == <<audio, audioOn, audioHeld>>
appVars   == <<ui, connecting, video, sound, crash, hazards>>
cameraVars == <<sessionVars, appVars>>

Held == {"none", "live", "released"}

CameraTypeOK ==
  /\ SessionTypeOK
  /\ rtmpConnectState \in BOOLEAN /\ isLiving \in BOOLEAN /\ isDestroy \in BOOLEAN
  /\ main \in {"idle", "disconnecting", "destroying", "closing", "dead"}
  /\ attempt \in [Attempts -> {"none", "launched", "dispatched", "connecting", "answered"}]
  /\ timer \in [Attempts -> BOOLEAN]
  /\ dialog \in [Attempts -> {"null", "created", "shown"}]
  /\ consumer \in {"take", "encode", "drain", "offer", "send", "sending", "giveBack",
                   "release", "ended"}
  /\ frame \in Frames
  /\ videoCodec \in {"null"} \cup Frames
  /\ codecHeld \in Held /\ codecTorn \in Held
  /\ audio \in [AudioTasks -> {"none", "queued", "header", "loop", "output", "send", "sending"}]
  /\ audioOn \in BOOLEAN
  /\ audioHeld \in [AudioTasks -> Held]
  /\ crash \in {"none", "codec", "bad_token"}
  /\ hazards \in SUBSET AllHazards

(* The activity is created: initData starts the consumer.                  *)
CameraInit ==
  /\ SessionInit
  /\ rtmpConnectState = FALSE /\ isLiving = FALSE /\ isDestroy = FALSE /\ main = "idle"
  /\ attempt = [a \in Attempts |-> "none"]
  /\ timer = [a \in Attempts |-> FALSE]
  /\ dialog = [a \in Attempts |-> "null"]
  /\ consumer = "take" /\ frame = "inter" /\ videoCodec = "null"
  /\ codecHeld = "none" /\ codecTorn = "none"
  /\ audio = [s \in AudioTasks |-> "none"]
  /\ audioOn = FALSE
  /\ audioHeld = [s \in AudioTasks |-> "none"]
  /\ crash = "none" /\ hazards = {}

-----------------------------------------------------------------------------
(* Helpers.                                                                *)

Alive == fault = "none" /\ crash = "none"

Crash(e) ==
  /\ crash' = e
  /\ UNCHANGED <<sessionVars, ui, connecting, video, sound, hazards>>

(* A reference captured before the object was released.                    *)
Released(held) == IF held = "live" THEN "released" ELSE held

Pending(a) == attempt[a] # "none"

(* The non-cancelable progress dialog takes every touch.                   *)
Clickable == main = "idle" /\ \A a \in Attempts : dialog[a] # "shown"

(* A worker has passed its last look at isLiving and may still send; a     *)
(* queued audio task sends its header without one.                         *)
WorkerInside ==
  \/ consumer \in {"encode", "drain", "offer", "send", "sending"}
  \/ \E s \in AudioTasks : audio[s] \notin {"none", "loop"}

Note(hs) == hs \subseteq Schedules /\ hazards' = hazards \cup hs

(* What onDestroy may begin beside.                                        *)
BesideDestroy ==
  {h \in AllHazards :
     \/ h = "torn" /\ WorkerInside
     \/ h = "orphaned" /\ \E a \in Attempts : Pending(a)
     \/ h = "late" /\ consumer = "encode"
     \/ h = "shared" /\ codecHeld = "live"}

(* The consumer captures an encoder that onDestroy has captured.           *)
NoteShared == Note({h \in {"shared"} : codecHeld' = "live" /\ codecTorn = "live"})

(* stopReleaseRecordAudio, and the same lines of onDestroy.                *)
ReleaseAudio ==
  /\ audioOn' = FALSE
  /\ audioHeld' = [s \in AudioTasks |-> IF audioOn THEN Released(audioHeld[s]) ELSE audioHeld[s]]
  /\ UNCHANGED audio

-----------------------------------------------------------------------------
(* The main thread: clicks.                                                *)

ClickConnect(a) ==
  /\ Alive /\ Clickable /\ ~rtmpConnectState
  /\ ~Pending(a) /\ ~timer[a]
  /\ \E l \in Lives : rtmp[l] = "unused"
  /\ attempt' = [attempt EXCEPT ![a] = "launched"]
  /\ dialog'  = [dialog EXCEPT ![a] = "created"]
  /\ Note({h \in {"double"} : \E b \in Attempts : Pending(b)})
  /\ UNCHANGED <<sessionVars, ui, timer, video, sound, crash>>

ClickDisconnectLiving == (* mutant: no stopLive()                           *)
  /\ Alive /\ Clickable /\ rtmpConnectState
  /\ CallClose(Main)
  /\ main' = "disconnecting"
  /\ Note({h \in {"torn"} : WorkerInside})
  /\ UNCHANGED <<rtmpConnectState, isLiving, isDestroy, connecting, video, sound, crash>>

(* stopLive(), then RtmpManager.close() on the main thread.                *)
ClickDisconnect ==
  /\ Alive /\ Clickable /\ rtmpConnectState
  /\ CallClose(Main)
  /\ isLiving' = FALSE
  /\ ReleaseAudio
  /\ main' = "disconnecting"
  /\ Note({h \in {"torn"} : WorkerInside})
  /\ UNCHANGED <<rtmpConnectState, isDestroy, connecting, video, crash>>

(* Mutant: the flag is not reset.                                          *)
DisconnectedStale ==
  /\ Alive /\ main = "disconnecting"
  /\ Return(Main)
  /\ main' = "idle"
  /\ UNCHANGED <<rtmpConnectState, isLiving, isDestroy, connecting, video, sound, crash,
                 hazards>>

(* rtmpConnectState = false only once close has returned.                  *)
Disconnected ==
  /\ Alive /\ main = "disconnecting"
  /\ Return(Main)
  /\ rtmpConnectState' = FALSE
  /\ main' = "idle"
  /\ UNCHANGED <<isLiving, isDestroy, connecting, video, sound, crash, hazards>>

(* Mutant: a live starts without a look at rtmpConnectState.               *)
StartLiveUnconnected ==
  /\ Alive /\ Clickable /\ ~isLiving
  /\ isLiving' = TRUE
  /\ Note({h \in {"carried"} : videoCodec # "null"})
  /\ UNCHANGED <<sessionVars, rtmpConnectState, isDestroy, main, connecting, video, sound,
                 crash>>

(* startAudioRecord gives up without the permission to record, but the     *)
(* live is on.                                                             *)
StartLive ==
  /\ Alive /\ Clickable /\ rtmpConnectState /\ ~isLiving /\ "live" \in Schedules
  /\ isLiving' = TRUE
  /\ \/ /\ audioOn' = TRUE
        /\ \E s \in AudioTasks :
             audio[s] = "none" /\ audio' = [audio EXCEPT ![s] = "queued"]
     \/ UNCHANGED <<audioOn, audio>>
  /\ Note({h \in {"carried"} : videoCodec # "null"})
  /\ UNCHANGED <<sessionVars, rtmpConnectState, isDestroy, main, connecting, video,
                 audioHeld, crash>>

(* Mutant: the main thread releases the video encoder too.                 *)
StopLiveReleasing ==
  /\ Alive /\ Clickable /\ rtmpConnectState /\ isLiving
  /\ isLiving' = FALSE
  /\ videoCodec' = "null" /\ codecHeld' = Released(codecHeld)
  /\ ReleaseAudio
  /\ UNCHANGED <<sessionVars, rtmpConnectState, isDestroy, main, connecting, consumer,
                 frame, codecTorn, crash, hazards>>

StopLive ==
  /\ Alive /\ Clickable /\ rtmpConnectState /\ isLiving
  /\ isLiving' = FALSE
  /\ ReleaseAudio
  /\ UNCHANGED <<sessionVars, rtmpConnectState, isDestroy, main, connecting, video,
                 crash, hazards>>

-----------------------------------------------------------------------------
(* The coroutine of a connect click.  Its scope is cancelled by onDestroy: *)
(* no part of it begins afterwards, and a part that runs is finished.      *)

(* On the main thread: postDelayed, then hand over to Dispatchers.IO.      *)
Launch(a) ==
  /\ Alive /\ main \in {"idle", "dead"} /\ attempt[a] = "launched"
  /\ IF isDestroy
       THEN attempt' = [attempt EXCEPT ![a] = "none"] /\ UNCHANGED timer
       ELSE /\ attempt' = [attempt EXCEPT ![a] = "dispatched"]
            /\ timer' = [timer EXCEPT ![a] = TRUE]
  /\ UNCHANGED <<sessionVars, ui, dialog, video, sound, crash, hazards>>

IoConnect(a) ==
  /\ Alive /\ attempt[a] = "dispatched"
  /\ IF isDestroy
       THEN attempt' = [attempt EXCEPT ![a] = "none"] /\ UNCHANGED sessionVars
       ELSE attempt' = [attempt EXCEPT ![a] = "connecting"] /\ CallConnect(a)
  /\ UNCHANGED <<ui, timer, dialog, video, sound, crash, hazards>>

(* Mutant: a timeout gives the call up while it runs.                      *)
IoConnectedEarly(a) ==
  /\ Alive /\ attempt[a] = "connecting"
  /\ call' = [call EXCEPT ![a] = Idle]
  /\ rtmpConnectState' = (call[a].pc = "true")
  /\ attempt' = [attempt EXCEPT ![a] = IF isDestroy THEN "none" ELSE "answered"]
  /\ UNCHANGED <<mLive, lives, rtmp, wire, fault, history, isLiving, isDestroy, main, timer,
                 dialog, video, sound, crash, hazards>>

(* rtmpConnectState = RtmpManager.connect(...), on the IO thread.          *)
IoConnected(a) ==
  /\ Alive /\ attempt[a] = "connecting"
  /\ Return(a)
  /\ rtmpConnectState' = (call[a].pc = "true")
  /\ attempt' = [attempt EXCEPT ![a] = IF isDestroy THEN "none" ELSE "answered"]
  /\ UNCHANGED <<isLiving, isDestroy, main, timer, dialog, video, sound, crash, hazards>>

(* Mutants: marked finished instead of free again; dismissed and not       *)
(* forgotten; dismissed on success only.                                   *)
FinishMarked(a) ==
  /\ Alive /\ main \in {"idle", "dead"} /\ attempt[a] = "answered"
  /\ attempt' = [attempt EXCEPT ![a] = "finished"]
  /\ dialog' = IF isDestroy THEN dialog ELSE [dialog EXCEPT ![a] = "null"]
  /\ UNCHANGED <<sessionVars, ui, timer, video, sound, crash, hazards>>

FinishRemembered(a) ==
  /\ Alive /\ main \in {"idle", "dead"} /\ attempt[a] = "answered"
  /\ attempt' = [attempt EXCEPT ![a] = "none"]
  /\ dialog' = IF isDestroy THEN dialog ELSE [dialog EXCEPT ![a] = "created"]
  /\ UNCHANGED <<sessionVars, ui, timer, video, sound, crash, hazards>>

FinishConnected(a) ==
  /\ Alive /\ main \in {"idle", "dead"} /\ attempt[a] = "answered"
  /\ attempt' = [attempt EXCEPT ![a] = "none"]
  /\ dialog' = IF isDestroy \/ ~rtmpConnectState THEN dialog
               ELSE [dialog EXCEPT ![a] = "null"]
  /\ UNCHANGED <<sessionVars, ui, timer, video, sound, crash, hazards>>

(* dismiss(), progressDialog = null, on the main thread.                   *)
Finish(a) ==
  /\ Alive /\ main \in {"idle", "dead"} /\ attempt[a] = "answered"
  /\ attempt' = [attempt EXCEPT ![a] = "none"]
  /\ dialog' = IF isDestroy THEN dialog ELSE [dialog EXCEPT ![a] = "null"]
  /\ UNCHANGED <<sessionVars, ui, timer, video, sound, crash, hazards>>

(* The message posted 500 ms ago: show() unless connected or dismissed.    *)
(* The window of a destroyed activity refuses a dialog.                    *)
TimerFires(a) ==
  /\ Alive /\ main \in {"idle", "dead"} /\ timer[a]
  /\ \/ /\ ~rtmpConnectState /\ dialog[a] = "created" /\ isDestroy
        /\ Crash("bad_token")
     \/ /\ rtmpConnectState \/ dialog[a] # "created" \/ ~isDestroy
        /\ timer' = [timer EXCEPT ![a] = FALSE]
        /\ dialog' = IF ~rtmpConnectState /\ dialog[a] = "created"
                       THEN [dialog EXCEPT ![a] = "shown"] ELSE dialog
        /\ UNCHANGED <<sessionVars, ui, attempt, video, sound, crash, hazards>>

-----------------------------------------------------------------------------
(* onDestroy, at any moment the main thread is free: back, or a rotation.  *)

DestroyBeginLiving == (* mutant: isLiving stays                             *)
  /\ Alive /\ main = "idle"
  /\ isDestroy' = TRUE /\ main' = "destroying"
  /\ codecTorn' = IF videoCodec = "null" THEN "none" ELSE "live"
  /\ Note(BesideDestroy)
  /\ UNCHANGED <<sessionVars, rtmpConnectState, isLiving, connecting, consumer, frame,
                 videoCodec, codecHeld, sound, crash>>

DestroyBegin ==
  /\ Alive /\ main = "idle"
  /\ isDestroy' = TRUE /\ isLiving' = FALSE /\ main' = "destroying"
  /\ codecTorn' = IF videoCodec = "null" THEN "none" ELSE "live"
  /\ Note(BesideDestroy)
  /\ UNCHANGED <<sessionVars, rtmpConnectState, connecting, consumer, frame, videoCodec,
                 codecHeld, sound, crash>>

(* Mutants: the video encoder is left alone; the session is not closed.    *)
DestroyReleaseAudioOnly ==
  /\ Alive /\ main = "destroying"
  /\ codecTorn' = "none"
  /\ ReleaseAudio
  /\ CallClose(Main)
  /\ main' = "closing"
  /\ Note({h \in {"torn"} : WorkerInside})
  /\ UNCHANGED <<rtmpConnectState, isLiving, isDestroy, connecting, consumer, frame,
                 videoCodec, codecHeld, crash>>

DestroyReleaseNoClose ==
  /\ Alive /\ main = "destroying"
  /\ codecTorn' = "none"
  /\ IF codecTorn = "live"
       THEN videoCodec' = "null" /\ codecHeld' = Released(codecHeld)
       ELSE UNCHANGED <<videoCodec, codecHeld>>
  /\ ReleaseAudio
  /\ main' = "dead"
  /\ UNCHANGED <<sessionVars, rtmpConnectState, isLiving, isDestroy, connecting, consumer,
                 frame, crash, hazards>>

(* stop() and release() of the captured encoder, the audio, then close().  *)
DestroyRelease ==
  /\ Alive /\ main = "destroying"
  /\ \/ codecTorn = "released" /\ Crash("codec")
     \/ /\ codecTorn # "released"
        /\ IF codecTorn = "live"
             THEN videoCodec' = "null" /\ codecHeld' = Released(codecHeld)
             ELSE UNCHANGED <<videoCodec, codecHeld>>
        /\ codecTorn' = "none"
        /\ ReleaseAudio
        /\ CallClose(Main)
        /\ main' = "closing"
        /\ Note({h \in {"torn"} : WorkerInside})
        /\ UNCHANGED <<rtmpConnectState, isLiving, isDestroy, connecting, consumer, frame,
                       crash>>

DestroyEnd ==
  /\ Alive /\ main = "closing"
  /\ Return(Main)
  /\ main' = "dead"
  /\ UNCHANGED <<rtmpConnectState, isLiving, isDestroy, connecting, video, sound, crash,
                 hazards>>

-----------------------------------------------------------------------------
(* The consumer.                                                           *)

(* The end of an iteration: while (!isDestroy).                            *)
NextFrame ==
  /\ consumer' = IF isDestroy THEN "ended" ELSE "take"
  /\ codecHeld' = "none" /\ frame' = "inter"

(* queue.take() returns a frame, and isLiving is looked at.                *)
TakeFrame ==
  /\ Alive /\ consumer = "take"
  /\ \/ /\ isLiving
        /\ consumer' = "encode"
        /\ UNCHANGED <<codecHeld, frame>>
     \/ /\ ~isLiving /\ videoCodec # "null"
        /\ consumer' = "release"
        /\ codecHeld' = "live"
        /\ UNCHANGED frame
     \/ /\ ~isLiving /\ videoCodec = "null"
        /\ NextFrame
  /\ NoteShared
  /\ UNCHANGED <<sessionVars, ui, connecting, videoCodec, codecTorn, sound, crash>>

(* Mutant: the encoder keeps SPS and PPS to its output format.             *)
EncodeUnconfigured ==
  /\ Alive /\ consumer = "encode"
  /\ videoCodec' = IF videoCodec = "null" THEN "key" ELSE videoCodec
  /\ codecHeld' = "live"
  /\ consumer' = "drain"
  /\ NoteShared
  /\ UNCHANGED <<sessionVars, ui, connecting, frame, codecTorn, sound, crash>>

(* initMediaCodec, which swallows a failure, and the capture of the field. *)
Encode ==
  /\ Alive /\ consumer = "encode"
  /\ \/ /\ videoCodec' = IF videoCodec = "null" THEN "config" ELSE videoCodec
        /\ codecHeld' = "live"
        /\ consumer' = "drain"
        /\ UNCHANGED frame
     \/ /\ videoCodec = "null"
        /\ NextFrame
        /\ UNCHANGED videoCodec
  /\ NoteShared
  /\ UNCHANGED <<sessionVars, ui, connecting, codecTorn, sound, crash>>

(* What an encoder may emit after it emitted f: SPS and PPS first, then an *)
(* I frame, then any.                                                      *)
After(f) == IF f = "config" THEN {"key"} ELSE {"key", "inter"}

Drain ==
  /\ Alive /\ consumer = "drain"
  /\ \/ codecHeld = "released" /\ Crash("codec")
     \/ /\ codecHeld = "live"
        /\ \/ /\ frame' = videoCodec
              /\ videoCodec' \in After(videoCodec)
              /\ consumer' = "offer"
              /\ UNCHANGED codecHeld
           \/ NextFrame /\ UNCHANGED videoCodec
        /\ UNCHANGED <<sessionVars, ui, connecting, codecTorn, sound, crash, hazards>>

Offer ==
  /\ Alive /\ consumer = "offer"
  /\ consumer' = IF rtmpConnectState THEN "send" ELSE "giveBack"
  /\ UNCHANGED <<sessionVars, ui, connecting, frame, videoCodec, codecHeld, codecTorn,
                 sound, crash, hazards>>

SendVideo ==
  /\ Alive /\ consumer = "send"
  /\ CallSendVideo(Consumer, frame)
  /\ consumer' = "sending"
  /\ UNCHANGED <<ui, connecting, frame, videoCodec, codecHeld, codecTorn, sound, crash,
                 hazards>>

VideoSent ==
  /\ Alive /\ consumer = "sending"
  /\ Return(Consumer)
  /\ consumer' = "giveBack"
  /\ UNCHANGED <<ui, connecting, frame, videoCodec, codecHeld, codecTorn, sound, crash,
                 hazards>>

(* releaseOutputBuffer.                                                    *)
GiveBack ==
  /\ Alive /\ consumer = "giveBack"
  /\ \/ codecHeld = "released" /\ Crash("codec")
     \/ /\ codecHeld = "live"
        /\ NextFrame
        /\ UNCHANGED <<sessionVars, ui, connecting, videoCodec, codecTorn, sound, crash,
                       hazards>>

(* The live is over: the consumer stops and releases the encoder.          *)
ReleaseCodec ==
  /\ Alive /\ consumer = "release"
  /\ \/ codecHeld = "released" /\ Crash("codec")
     \/ /\ codecHeld = "live"
        /\ videoCodec' = "null" /\ codecTorn' = Released(codecTorn)
        /\ NextFrame
        /\ UNCHANGED <<sessionVars, ui, connecting, sound, crash, hazards>>

-----------------------------------------------------------------------------
(* The audio tasks.  Whatever a task throws ends it and is caught.         *)

Audio(s, pc) == audio' = [audio EXCEPT ![s] = pc]

(* The AAC header, sent without a look at isLiving or rtmpConnectState.    *)
AudioHeader(s) ==
  /\ Alive /\ audio[s] = "queued"
  /\ CallSendAudio(s) /\ Audio(s, "header")
  /\ UNCHANGED <<ui, connecting, video, audioOn, audioHeld, crash, hazards>>

AudioReturn(s) ==
  /\ Alive /\ audio[s] \in {"header", "sending"}
  /\ Return(s) /\ Audio(s, IF audio[s] = "header" THEN "loop" ELSE "output")
  /\ UNCHANGED <<ui, connecting, video, audioOn, audioHeld, crash, hazards>>

AudioReadForever(s) == (* mutant: while (true)                              *)
  /\ Alive /\ audio[s] = "loop" /\ audioOn
  /\ Audio(s, "output")
  /\ audioHeld' = [audioHeld EXCEPT ![s] = "live"]
  /\ UNCHANGED <<sessionVars, ui, connecting, video, audioOn, crash, hazards>>

(* while (isLiving): read the microphone, capture the encoder.             *)
AudioRead(s) ==
  /\ Alive /\ audio[s] = "loop"
  /\ \/ /\ ~isLiving
        /\ Audio(s, "none")
        /\ UNCHANGED audioHeld
     \/ /\ isLiving /\ audioOn
        /\ Audio(s, "output")
        /\ audioHeld' = [audioHeld EXCEPT ![s] = "live"]
  /\ UNCHANGED <<sessionVars, ui, connecting, video, audioOn, crash, hazards>>

(* Queue the input and drain the encoder.                                  *)
AudioDrain(s) ==
  /\ Alive /\ audio[s] = "output"
  /\ \/ audioHeld[s] = "released" /\ Audio(s, "none")
     \/ audioHeld[s] = "live" /\ Audio(s, "loop")
     \/ audioHeld[s] = "live" /\ rtmpConnectState /\ Audio(s, "send")
  /\ audioHeld' = [audioHeld EXCEPT ![s] = IF audio'[s] = "send" THEN @ ELSE "none"]
  /\ UNCHANGED <<sessionVars, ui, connecting, video, audioOn, crash, hazards>>

AudioSend(s) ==
  /\ Alive /\ audio[s] = "send"
  /\ CallSendAudio(s) /\ Audio(s, "sending")
  /\ UNCHANGED <<ui, connecting, video, audioOn, audioHeld, crash, hazards>>

-----------------------------------------------------------------------------
(* A step of a thread inside the native library, and the network.          *)
Native(t) == Alive /\ NativeStep(t) /\ UNCHANGED appVars

Peer ==
  /\ Alive /\ "lost" \in Schedules
  /\ \E r \in Lives : PeerLost(r)
  /\ UNCHANGED appVars

MainStep ==
  \/ ClickDisconnect \/ Disconnected \/ StartLive \/ StopLive
  \/ DestroyBegin \/ DestroyRelease \/ DestroyEnd

AttemptStep(a) ==
  ClickConnect(a) \/ Launch(a) \/ IoConnect(a) \/ IoConnected(a) \/ Finish(a) \/ TimerFires(a)

ConsumerStep ==
  \/ TakeFrame \/ Encode \/ Drain \/ Offer \/ SendVideo \/ VideoSent \/ GiveBack
  \/ ReleaseCodec

AudioStep(s) ==
  AudioHeader(s) \/ AudioReturn(s) \/ AudioRead(s) \/ AudioDrain(s) \/ AudioSend(s)

CameraNext ==
  \/ MainStep \/ ConsumerStep \/ Peer
  \/ \E a \in Attempts : AttemptStep(a)
  \/ \E s \in AudioTasks : AudioStep(s)
  \/ \E t \in Threads : Native(t)

CameraSpec == CameraInit /\ [][CameraNext]_cameraVars

(* The looper runs what was posted to the main thread in its turn, however *)
(* many clicks come between; every other thread runs on while it can; the  *)
(* camera delivers frames; a call into librtmp returns.                    *)
CameraFairness ==
  /\ \A a \in Attempts :
       /\ SF_cameraVars(Launch(a)) /\ SF_cameraVars(Finish(a))
       /\ SF_cameraVars(TimerFires(a))
       /\ WF_cameraVars(IoConnect(a) \/ Native(a) \/ IoConnected(a))
  /\ WF_cameraVars(Native(Main) \/ Disconnected \/ DestroyRelease \/ DestroyEnd)
  /\ WF_cameraVars(ConsumerStep \/ Native(Consumer))
  /\ \A s \in AudioTasks : WF_cameraVars(AudioStep(s) \/ Native(s))

CameraFairSpec == CameraSpec /\ CameraFairness

-----------------------------------------------------------------------------
(* What the activity keeps, and which schedules it does not exclude:       *)
(*   double    connect was clicked while a connect was pending;            *)
(*   torn      close began, or the activity was destroyed, while a worker  *)
(*             was past its last look at isLiving;                         *)
(*   orphaned  the activity was destroyed while a connect was pending;     *)
(*   carried   a live began before the consumer had released the encoder   *)
(*             of the live before;                                         *)
(*   late      the activity was destroyed while the consumer was past its  *)
(*             look at isLiving and had no encoder in hand yet;            *)
(*   shared    the consumer held the video encoder while onDestroy did.    *)

Excluded(hs) == hazards \cap hs = {}

(* sendVideo never runs in two threads at once.                            *)
VideoHasOneSender == "interleaved" \notin misuse

(* The activity respects the rules of the native session (see misuse in    *)
(* RtmpSession), which has no lock of its own, but for those schedules:    *)
(* RtmpManager.close never runs beside another call unless torn, double or *)
(* orphaned, and so on (CameraLiveActivity.kt:262, 362-363, 492-527,       *)
(* 645-665).                                                               *)
RulesAreKept ==
  /\ "overlap" \in misuse => ~Excluded({"torn", "double", "orphaned"})
  /\ VideoHasOneSender
  /\ "reconnect" \in misuse => ~Excluded({"double"})
  /\ "unopened" \in misuse => ~Excluded({"torn", "double"})
  /\ "unconfigured" \in misuse => ~Excluded({"carried", "double", "torn"})

(* While the live is on there is a session behind it, one the server       *)
(* accepted, unless two connects were pending at once: the last answer     *)
(* overwrites rtmpConnectState (CameraLiveActivity.kt:462-471, 493-497,    *)
(* 513).                                                                   *)
LiveHasSession ==
  isLiving /\ Excluded({"double"}) =>
    rtmpConnectState /\ mLive # NULL /\ rtmp[CurrentRtmp] \in {"open", "lost"}

(* Between two calls that change it, rtmpConnectState says whether the     *)
(* native library holds a session (CameraLiveActivity.kt:496-497, 513).    *)
StateMatchesSession ==
  /\ Excluded({"double"}) /\ main = "idle"
  /\ \A a \in Attempts : attempt[a] # "connecting"
  => (rtmpConnectState <=> mLive # NULL)

(* A destroyed activity leaves no session and no open handle behind, unless*)
(* a connect was pending (CameraLiveActivity.kt:645-665).                  *)
NothingOutlives ==
  main = "dead" /\ Excluded({"double", "orphaned"}) =>
    mLive = NULL /\ \A r \in Lives : rtmp[r] \in {"unused", "freed"}

(* The consumer owns the video encoder: one is used after its release, or  *)
(* stopped twice, only if onDestroy held it for its own release while the  *)
(* consumer held it too (CameraLiveActivity.kt:331-389, 625-630, 649-653). *)
EncoderOwned ==
  crash = "codec" => isDestroy /\ ~Excluded({"shared"})

(* A destroyed activity leaves no encoder behind, unless onDestroy began   *)
(* while the consumer was on its way from its look at isLiving to          *)
(* initMediaCodec (CameraLiveActivity.kt:210-212, 573, 649-653).           *)
EncoderReleased ==
  main = "dead" /\ videoCodec # "null" => ~Excluded({"late"})

(* The modal progress dialog always has somebody left to dismiss it: the   *)
(* delayed show() never fires for an answered connect                      *)
(* (CameraLiveActivity.kt:506-523).                                        *)
DialogHasOwner ==
  \A a \in Attempts : dialog[a] = "shown" /\ ~isDestroy => Pending(a)

(* Every connect click is answered and its modal dialog goes away, unless  *)
(* the activity is destroyed or the process ends: the screen never stays   *)
(* locked (CameraLiveActivity.kt:500-527).                                 *)
ScreenUnlocks ==
  \A a \in Attempts : Pending(a) ~> \/ ~Alive \/ isDestroy
                                     \/ (~Pending(a) /\ dialog[a] = "null")

(* A live that is over winds down whatever its threads were doing: every   *)
(* audio task ends and the consumer releases the video encoder, unless     *)
(* another live begins, or onDestroy stops the camera under the consumer   *)
(* (CameraLiveActivity.kt:268-318, 573-640).                               *)
LiveWindsDown ==
  ~isLiving ~> \/ ~Alive \/ isLiving
               \/ /\ \A s \in AudioTasks : audio[s] = "none"
                  /\ isDestroy \/ videoCodec = "null"

(* Between two calls rtmpConnectState says whether the library holds a     *)
(* session, whatever was clicked: "whether rtmp is connected"              *)
(* (BaseLiveActivity.kt:18).                                               *)
StateIsConnection ==
  main = "idle" /\ (\A a \in Attempts : attempt[a] # "connecting") =>
    (rtmpConnectState <=> mLive # NULL)

(* What sendVideo puts in the packet of an inter frame is a P or B frame   *)
(* (rtmplibrary.cpp:441).                                                  *)
InterPacketsCarryPictures == \A r \in Lives : wire[r] # "config"

(* onDestroy runs to its end, and no audio task goes on after it           *)
(* (CameraLiveActivity.kt:268, 645-665).                                   *)
DestroyCompletes ==
  isDestroy ~> \/ ~Alive
               \/ /\ main = "dead"
                  /\ \A s \in AudioTasks : audio[s] = "none"

=============================================================================
