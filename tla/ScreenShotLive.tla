--------------------------- MODULE ScreenShotLive ---------------------------
(***************************************************************************)
(* One ScreenShotActivity on top of the native session: the main thread    *)
(* with its connect and record buttons, an IO thread per connect click,    *)
(* inside connect, the producers that ask for a picture 24 times a second, *)
(* the consumer that asks PixelCopy for it, and the handler thread that    *)
(* encodes, writes the MP4 file and sends.                                 *)
(*                                                                         *)
(* Disconnecting only resets the flag, and nothing runs in onDestroy.  The *)
(* encoder is created once and is never released; it is what it emits next.*)
(* The progress dialog shows 500 ms after a click if the flag is still not *)
(* set.  Until then connect can be clicked again, and there is no other    *)
(* guard: a behaviour here is one whose clicks come before it shows.  The  *)
(* dialog itself is that of CameraLive.                                    *)
(***************************************************************************)
EXTENDS RtmpSession

CONSTANTS
  Attempts,    (* the IO threads: connects that may be pending at a time   *)
  Copier,      (* the handler thread                                       *)
  MaxRecords,  (* how often recording starts: a bound for TLC              *)
  MaxPending,  (* pictures asked for and not handled: a bound for TLC      *)
  Redials      (* connecting after a disconnect is explored: a bound       *)

ASSUME ScreenAssumption ==
  /\ Threads = Attempts \cup {Copier} /\ Copier \notin Attempts
  /\ MaxRecords \in Nat /\ MaxPending \in Nat /\ Redials \in BOOLEAN

VARIABLES
  rtmpConnectState, isScreeningShot,
  connect,    (* the coroutine of each click: "none", "launched", "calling"*)
  recorder,   (* where stopScreenShot is: "no", "stop", "release", "clear" *)
  records,    (* how often recording started                               *)
  producers,  (* the loops of startScreenShot that run                     *)
  queue,      (* what they put                                             *)
  consuming,  (* the consumer is in its loop                               *)
  copies,     (* PixelCopy callbacks under way to the handler thread       *)
  copier,     (* where the handler thread is                               *)
  output,     (* the output buffer it holds                                *)
  encoder,    (* videoMediaCodec: null, or what it emits next              *)
  mediaMuxer, (* the field is not null                                     *)
  muxer,      (* the one muxer: "none", "new", "started", "stopped",       *)
              (* "released"                                                *)
  isMuxerStarted,
  destroyed,  (* the activity                                              *)
  thrown,     (* an uncaught exception ended the process                   *)
  written,    (* history: the muxer was stopped, the file is complete      *)
  dropped,    (* history: disconnected, or destroyed, with the session open*)
  double,     (* history: connect was clicked while a connect was pending  *)
  missed,     (* history: SPS and PPS were emitted while not connected     *)
  cut         (* history: a recording stopped beside the handler's use of  *)
              (* the muxer                                                 *)

buttonVars == <<rtmpConnectState, connect, destroyed, dropped, double>>
recordVars == <<isScreeningShot, recorder, records, producers, queue, consuming, copies>>
muxerVars  == <<mediaMuxer, muxer, isMuxerStarted, written, cut>>
copierVars == <<copier, output, encoder, missed>>
screenShotVars ==
  <<sessionVars, buttonVars, recordVars, muxerVars, copierVars, thrown>>

ScreenInit ==
  /\ SessionInit
  /\ rtmpConnectState = FALSE /\ connect = [a \in Attempts |-> "none"]
  /\ destroyed = FALSE /\ dropped = FALSE /\ double = FALSE
  /\ isScreeningShot = FALSE /\ recorder = "no" /\ records = 0 /\ producers = 0
  /\ queue = 0 /\ consuming = TRUE /\ copies = 0
  /\ mediaMuxer = FALSE /\ muxer = "none" /\ isMuxerStarted = FALSE
  /\ written = FALSE /\ cut = FALSE
  /\ copier = "idle" /\ output = "inter" /\ encoder = "null" /\ missed = FALSE
  /\ thrown = FALSE

Up == fault = "none" /\ ~thrown
MainFree == Up /\ recorder = "no" /\ ~destroyed

(* The handler thread is between its first and its last look at the muxer. *)
UsesMuxer == copier \in {"write", "addTrack", "start", "mark"}

-----------------------------------------------------------------------------
(* The main thread and the connect coroutines.                             *)

Click ==
  /\ MainFree
  /\ \/ /\ rtmpConnectState
        /\ rtmpConnectState' = FALSE /\ dropped' = TRUE /\ UNCHANGED <<connect, double>>
     \/ /\ ~rtmpConnectState /\ (Redials \/ ~dropped)
        /\ \E a \in Attempts :
             connect[a] = "none" /\ connect' = [connect EXCEPT ![a] = "launched"]
        /\ double' = (double \/ \E a \in Attempts : connect[a] # "none")
        /\ UNCHANGED <<rtmpConnectState, dropped>>
  /\ UNCHANGED <<sessionVars, destroyed, recordVars, muxerVars, copierVars, thrown>>

Connecting(a) ==
  /\ Up /\ connect[a] = "launched"
  /\ \/ ~destroyed /\ CallConnect(a) /\ connect' = [connect EXCEPT ![a] = "calling"]
     \/ destroyed /\ connect' = [connect EXCEPT ![a] = "none"] /\ UNCHANGED sessionVars
  /\ UNCHANGED <<rtmpConnectState, destroyed, dropped, double, recordVars, muxerVars,
                 copierVars, thrown>>

(* Mutant: the answer is not looked at.                                    *)
ConnectedAnyway(a) ==
  /\ Up /\ connect[a] = "calling" /\ Return(a)
  /\ rtmpConnectState' = TRUE
  /\ connect' = [connect EXCEPT ![a] = "none"]
  /\ UNCHANGED <<destroyed, dropped, double, recordVars, muxerVars, copierVars, thrown>>

Connected(a) ==
  /\ Up /\ connect[a] = "calling" /\ Return(a)
  /\ rtmpConnectState' = (call[a].pc = "true")
  /\ connect' = [connect EXCEPT ![a] = "none"]
  /\ UNCHANGED <<destroyed, dropped, double, recordVars, muxerVars, copierVars, thrown>>

StartRecording ==
  /\ MainFree /\ ~isScreeningShot /\ records < MaxRecords
  /\ isScreeningShot' = TRUE /\ records' = records + 1 /\ producers' = producers + 1
  /\ UNCHANGED <<sessionVars, buttonVars, recorder, queue, consuming, copies, muxerVars, copierVars,
                 thrown>>

(* stopScreenShot: mediaMuxer?.apply.                                      *)
StopRecording ==
  /\ MainFree /\ isScreeningShot
  /\ isScreeningShot' = FALSE
  /\ recorder' = IF mediaMuxer THEN "stop" ELSE "clear"
  /\ cut' = (cut \/ UsesMuxer)
  /\ UNCHANGED <<sessionVars, buttonVars, records, producers, queue, consuming, copies,
                 mediaMuxer, muxer, isMuxerStarted, written, copierVars, thrown>>

(* Mutant: the muxer is released without a stop.                           *)
StopMuxerNot ==
  /\ Up /\ recorder = "stop" /\ recorder' = "release"
  /\ UNCHANGED <<sessionVars, buttonVars, isScreeningShot, records, producers, queue,
                 consuming, copies, muxerVars, copierVars, thrown>>

StopMuxer ==
  /\ Up /\ recorder = "stop" /\ recorder' = "release"
  /\ \/ isMuxerStarted /\ muxer' = "stopped" /\ written' = TRUE
     \/ ~isMuxerStarted /\ UNCHANGED <<muxer, written>>
  /\ cut' = (cut \/ UsesMuxer)
  /\ UNCHANGED <<sessionVars, buttonVars, isScreeningShot, records, producers, queue,
                 consuming, copies, mediaMuxer, isMuxerStarted, copierVars, thrown>>

ReleaseMuxer ==
  /\ Up /\ recorder = "release" /\ recorder' = "clear" /\ muxer' = "released"
  /\ cut' = (cut \/ UsesMuxer)
  /\ UNCHANGED <<sessionVars, buttonVars, isScreeningShot, records, producers, queue,
                 consuming, copies, mediaMuxer, isMuxerStarted, written, copierVars, thrown>>

ClearMuxer ==
  /\ Up /\ recorder = "clear" /\ recorder' = "no"
  /\ mediaMuxer' = FALSE /\ isMuxerStarted' = FALSE /\ cut' = (cut \/ UsesMuxer)
  /\ UNCHANGED <<sessionVars, buttonVars, isScreeningShot, records, producers, queue,
                 consuming, copies, muxer, written, copierVars, thrown>>

(* The activity goes.  Nothing is stopped, released or closed.  The        *)
(* consumer stays in take() if it is found there.                          *)
Destroy ==
  /\ MainFree /\ destroyed' = TRUE /\ dropped' = (dropped \/ rtmpConnectState)
  /\ consuming' \in BOOLEAN
  /\ UNCHANGED <<sessionVars, rtmpConnectState, connect, double, isScreeningShot, recorder,
                 records, producers, queue, copies, muxerVars, copierVars, thrown>>

-----------------------------------------------------------------------------
(* The producers and the consumer, of the pool.                            *)

(* A producer that finds isScreeningShot true again goes on beside the new *)
(* one.                                                                    *)
Produce ==
  /\ Up /\ producers > 0
  /\ \/ /\ isScreeningShot /\ queue + copies < MaxPending
        /\ queue' = queue + 1 /\ UNCHANGED producers
     \/ ~isScreeningShot /\ producers' = producers - 1 /\ UNCHANGED queue
  /\ UNCHANGED <<sessionVars, buttonVars, isScreeningShot, recorder, records, consuming,
                 copies, muxerVars, copierVars, thrown>>

(* take(), PixelCopy.request, which may fail, and the look at isDestroyed. *)
RequestCopy ==
  /\ Up /\ consuming /\ queue > 0 /\ queue' = queue - 1
  /\ copies' \in {copies, copies + 1}
  /\ consuming' = ~destroyed
  /\ UNCHANGED <<sessionVars, buttonVars, isScreeningShot, recorder, records, producers,
                 muxerVars, copierVars, thrown>>

-----------------------------------------------------------------------------
(* The handler thread: encodeVideo.                                        *)

(* initMediaCodec, which may fail; the encoder is fed.                     *)
CopyArrives ==
  /\ Up /\ copier = "idle" /\ copies > 0 /\ copies' = copies - 1
  /\ \/ encoder = "null" /\ UNCHANGED <<encoder, copier>>
     \/ /\ encoder' = IF encoder = "null" THEN "format" ELSE encoder
        /\ copier' = "drain"
  /\ UNCHANGED <<sessionVars, buttonVars, isScreeningShot, recorder, records, producers,
                 queue, consuming, muxerVars, output, missed, thrown>>

After(emitted) ==
  CASE emitted = "format" -> {"config"}
    [] emitted = "config" -> {"key"}
    [] OTHER              -> {"key", "inter"}

(* dequeueOutputBuffer finds nothing, the new format, or a buffer, which   *)
(* goes to the file first if cbSaveMP4 is checked and isMuxerStarted.      *)
DrainEncoder ==
  /\ Up /\ copier = "drain"
  /\ \/ copier' = "idle" /\ UNCHANGED <<output, encoder>>
     \/ /\ encoder = "format" /\ encoder' \in After(encoder)
        /\ copier' = "create" /\ UNCHANGED output
     \/ /\ encoder # "format" /\ output' = encoder /\ encoder' \in After(encoder)
        /\ copier' \in IF isMuxerStarted THEN {"offer", "write"} ELSE {"offer"}
  /\ cut' = (cut \/ (copier' = "write" /\ recorder # "no"))
  /\ UNCHANGED <<sessionVars, buttonVars, recordVars, mediaMuxer, muxer, isMuxerStarted,
                 written, missed, thrown>>

Throw == thrown' = TRUE /\ UNCHANGED <<copier, muxer>>

(* mediaMuxer?.writeSampleData throws on a muxer that is not started.      *)
WriteSample ==
  /\ Up /\ copier = "write"
  /\ \/ /\ mediaMuxer => muxer = "started"
        /\ copier' = "offer" /\ UNCHANGED <<muxer, thrown>>
     \/ mediaMuxer /\ muxer # "started" /\ Throw
  /\ UNCHANGED <<sessionVars, buttonVars, recordVars, mediaMuxer, isMuxerStarted, written,
                 cut, output, encoder, missed>>

(* mediaMuxer = MediaMuxer(...); an IOException leaves it as it was.       *)
CreateMuxer ==
  /\ Up /\ copier = "create"
  /\ \/ copier' = "idle" /\ UNCHANGED <<mediaMuxer, muxer, cut>>
     \/ /\ copier' = "addTrack" /\ mediaMuxer' = TRUE /\ muxer' = "new"
        /\ cut' = (cut \/ recorder # "no")
  /\ UNCHANGED <<sessionVars, buttonVars, recordVars, isMuxerStarted, written, output,
                 encoder, missed, thrown>>

(* mediaMuxer!!.addTrack, then mediaMuxer!!.start.                         *)
UseMuxer(pc, next, state) ==
  /\ Up /\ copier = pc
  /\ \/ /\ mediaMuxer /\ muxer = "new"
        /\ copier' = next /\ muxer' = state /\ UNCHANGED thrown
     \/ ~(mediaMuxer /\ muxer = "new") /\ Throw
  /\ UNCHANGED <<sessionVars, buttonVars, recordVars, mediaMuxer, isMuxerStarted, written,
                 cut, output, encoder, missed>>

AddTrack   == UseMuxer("addTrack", "start", "new")
StartMuxer == UseMuxer("start", "mark", "started")

MarkMuxer ==
  /\ Up /\ copier = "mark" /\ copier' = "idle" /\ isMuxerStarted' = TRUE
  /\ UNCHANGED <<sessionVars, buttonVars, recordVars, mediaMuxer, muxer, written, cut,
                 output, encoder, missed, thrown>>

(* The look at rtmpConnectState, and the call, which may be later.         *)
OfferOutput ==
  /\ Up /\ copier = "offer"
  /\ \/ rtmpConnectState /\ copier' = "send" /\ UNCHANGED missed
     \/ /\ ~rtmpConnectState /\ copier' = "idle"
        /\ missed' = (missed \/ output = "config")
  /\ UNCHANGED <<sessionVars, buttonVars, recordVars, muxerVars, output, encoder, thrown>>

SendOutput ==
  /\ Up /\ copier = "send" /\ CallSendVideo(Copier, output) /\ copier' = "sending"
  /\ UNCHANGED <<buttonVars, recordVars, muxerVars, output, encoder, missed, thrown>>

OutputSent ==
  /\ Up /\ copier = "sending" /\ Return(Copier) /\ copier' = "idle"
  /\ UNCHANGED <<buttonVars, recordVars, muxerVars, output, encoder, missed, thrown>>

(* The native library, and the server, move on.                            *)
Below ==
  /\ Up
  /\ (\E t \in Threads : NativeStep(t)) \/ (\E r \in Lives : PeerLost(r))
  /\ UNCHANGED <<buttonVars, recordVars, muxerVars, copierVars, thrown>>

MainStep == Click \/ StartRecording \/ StopRecording \/ StopMuxer \/ ReleaseMuxer
              \/ ClearMuxer \/ Destroy
CopierStep == CopyArrives \/ DrainEncoder \/ WriteSample \/ CreateMuxer \/ AddTrack
                \/ StartMuxer \/ MarkMuxer \/ OfferOutput \/ SendOutput \/ OutputSent
ScreenNext ==
  \/ MainStep \/ Produce \/ RequestCopy \/ CopierStep \/ Below
  \/ \E a \in Attempts : Connecting(a) \/ Connected(a)

ScreenSpec == ScreenInit /\ [][ScreenNext]_screenShotVars

-----------------------------------------------------------------------------
(* Nobody disconnected, and connect was clicked with none pending only.    *)
Orderly == ~dropped /\ ~double

(* The rules of the native session are broken only by what disconnecting   *)
(* and leaving without a close lead to, by a second connect clicked while  *)
(* one is pending, or by recording before connecting: the one output that  *)
(* holds SPS and PPS is then gone, and the I frame that follows is sent    *)
(* without.  Video has one sender at a time, whatever is clicked           *)
(* (ScreenShotActivity 78-96, 194-198).                                    *)
ScreenRules ==
  /\ "interleaved" \notin misuse
  /\ Orderly => misuse \subseteq {"unconfigured"}
  /\ Orderly /\ ~missed => misuse = {}

(* Although stopScreenShot runs on the main thread with no lock, unless it *)
(* overlaps the handler thread's use of the muxer that thread meets none   *)
(* that is missing, stopped or released, a file that was begun is completed*)
(* before its muxer is released, and none is taken for started after       *)
(* (ScreenShotActivity 187-192, 224-232, 310-324).                         *)
MuxerIsSafe ==
  ~cut => /\ ~thrown
          /\ muxer = "released" => written
          /\ isMuxerStarted => mediaMuxer

(* "Disconnected from the RTMP server": the message of line 82.            *)
DisconnectCloses ==
  ~rtmpConnectState /\ (\A a \in Attempts : connect[a] = "none") =>
    \A r \in Lives : rtmp[r] # "open"

=============================================================================
