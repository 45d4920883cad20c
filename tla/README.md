# LiveRtmp: a TLA+ model of the live screens and the RTMP session

LiveRtmp is an Android program that streams the camera, or a drawing, to an RTMP
server. This directory holds TLA+ modules that model its control: which thread calls
what, in which order, under which conditions, and what is left behind when a call
fails, a peer goes or an activity is destroyed. TLC checks the modules on small
instances; TLAPS proves the results listed below for every value of the constants.

Paths below are relative to the repository; `Camera` is
`app/src/main/java/com/alick/livertmp/live/CameraLiveActivity.kt`, `rtmplibrary`
is `rtmpLibrary/src/main/cpp/rtmplibrary.cpp`, and `rtmp.c` is that of
`rtmpLibrary/src/main/cpp/librtmp`.

## Inventory

| Component | State | Operations | Talks to |
|---|---|---|---|
| Native session (`rtmplibrary`, `RtmpManager.kt`) | global `mLive`, the `Live` structures (RTMP handle, SPS, PPS) | `connect`, `close`, `sendVideo`, `sendAudio`, from any JVM thread, no lock | librtmp |
| Camera live screen (`Camera`, `BaseLiveActivity.kt`) | `rtmpConnectState`, `isLiving`, `isDestroy`, `videoMediaCodec`, `audioMediaCodec`, `audioRecord`, the dialogs | connect / disconnect / live buttons, connect coroutine, delayed dialog, frame consumer, audio task, `onDestroy` | native session, task pool, MediaCodec |
| Frame pipeline (`Camera:114-206, 566-616`, `ImageUtil.java`, `CxwYuv.cpp`) | `y`, `u`, `v`, `nv12`, `nv12_rotated`, sizes, `isInitYUV`, the queue, scratch YUV buffers of the library | analyzer callback, `queue.take`, rotate, mirror, `swapCamera` | consumer, libyuv |
| Screen-shot live screen (`ScreenShotActivity.kt`) | encoder, handler thread, muxer, flags | connect, "disconnect", record start / stop, encoder callbacks | native session, MediaCodec, MediaMuxer |
| Task pools (`LiveTaskManager.java`, `ThreadPoolManager.kt`) | core and extra threads, a queue of five | `execute`, `getInstance` | both screens |
| Server list (`MainActivity.kt`, `RtmpServerAdapter.kt`) | list, selection, typed address, SharedPreferences | select, edit, start a live, restart | both screens |
| Safe queue (`safe_queue.h`) | queue, `work` flag, mutex, condition | `push`, `pop`, `setWork`, `clear` | nothing yet |
| librtmp (vendored, C) | socket, stream id, pending calls, the last packet of each channel | connect, dialog, send in chunks, read, close | server |
| libyuv, x264, drawing view, common and utility libraries | | | |

What makes this program hard: five kinds of threads share plain fields and one global
pointer without a lock; a native call can block for seconds while the user clicks,
rotates the screen or leaves; a coroutine can be cancelled while its native call runs
on; a delayed message can outlive what it was posted for; an encoder is shared by
the thread that feeds it and the thread that destroys the screen; the server can go
away between any two steps. `PROJECT.json` lists each of these hazards at its line.

What correct means, per component:

- native session: no undefined access unless a caller broke a rule, no leaked
  connection, SPS/PPS before each I frame, results that tell the truth;
- camera screen: keeps the rules of the native session; `rtmpConnectState` and
  `isLiving` agree with the session; the encoder has one user; nothing survives
  `onDestroy`; the screen never stays locked; a live that stops winds down;
- frame pipeline: arrays fit the pictures, a picture is turned its own camera's way,
  and none overtakes another;
- screen-shot screen: the rules of the native session, and a muxer that is stopped once,
  after its last use, before its release;
- task pools: an accepted task has a worker, and waits for long only behind tasks that
  go on; server list: what comes back after a kill was chosen and used;
- safe queue: it is a switched FIFO, and a consumer that waits is woken;
- librtmp: the server hears the dialog in order and is told of the end; a connect ends;
  each channel carries whole messages in order with their timestamps.

## Modules

| Module | Models |
|---|---|
| `RtmpSession` | `rtmplibrary` with any callers |
| `CameraLive` | one `CameraLiveActivity` on top of `RtmpSession`; frames reduced to their arrival |
| `ScreenShotLive` | one `ScreenShotActivity` on top of `RtmpSession` |
| `VideoPackets` | the bytes that `sendVideo` cuts, builds and sends |
| `FramePipeline` | a picture's way from the analyzer to the encoder, with `swapCamera` |
| `LiveTaskPool` | `LiveTaskManager`'s `ThreadPoolExecutor` under the camera screens |
| `ServerList` | the servers of `MainActivity` and `SharedPreferences` |
| `SafeQueue`, `SwitchedFifo` | `safe_queue.h`, and what it promises |
| `RtmpClient`, `PublishDialog` | a handle of `rtmp.c` as publisher against a server, and the dialog a server may expect |
| `RtmpChunk`, `MessageStreams` | `RTMP_SendPacket`, `WriteN` and `RTMP_ReadPacket`, and the streams of messages they promise |
| `AmfCodec` | the AMF0 codec of `amf.c`: a server's answer read, the connect command written |
| `...Proofs` | the theorems of `RtmpSession`, `CameraLive`, `ScreenShotLive`, `RtmpClient`, `RtmpChunk`, `SafeQueue`, `VideoPackets`; in `ApplicationProofs` those of `LiveTaskPool`, `ServerList` and `FramePipeline` |
| `MC...` | instances for TLC |

How they fit together. `CameraLive` and `ScreenShotLive` EXTEND `RtmpSession` and take its
steps, so they are compositions with it. `RtmpClient` and `RtmpChunk` open what
`RtmpSession` takes as one step: `RtmpClient` is `RTMP_Connect`, `RTMP_ConnectStream` and
`RTMP_Close` (there `ConnectServer`, `ConnectStream` and `TeardownClose`), `RtmpChunk` is
`RTMP_SendPacket` of the sends. `VideoPackets` opens `SaveConfig`, `MakeHeader` and
`MakeFrame`. `FramePipeline` opens the frames of `CameraLive`'s consumer, and `LiveTaskPool`
its threads.

### RtmpSession

`mLive`, `lives` and `rtmp` are the global pointer, the `Live` structures and the RTMP
handles (a handle is named after the `Live` it was allocated with). `call[t]` is where
thread `t` is inside the library, with the RTMP pointer it has already read. A step
ends where librtmp may block or where the code reads `mLive` again after such a call,
so a close that runs between `createVideoPacket` and `RTMP_SendPacket` is a behaviour.
`connect` is `ConnectAlloc`, `ConnectSetup`, `ConnectServer`, `ConnectStream` and, when
it fails, the teardown it shares with `close` (`TeardownClose`, `TeardownFree`,
`TeardownClear`). `sendVideo` is `SaveConfig`, or `MakeHeader` and `SendHeader`, then
`MakeFrame` and `SendFrame`; `sendAudio` is `MakeAudio` and `SendAudio`. A frame is only
what byte 4 tells the code (`config` 0x67, `key` 0x65, `inter` the rest) and `wire[r]` is
the last video message the connection carries.

An undefined access (null `mLive`, null `rtmp`, null `sps`, a freed handle, and the
endless recursion of `RTMP_Close` when its own FCUnpublish cannot be written,
`rtmp.c:1386, 3381-3394`) sets `fault`, and nothing happens afterwards: the
process is gone. The history variable `misuse` records which rules the callers did not
keep: `overlap` (connect or close beside another call), `interleaved` (two sendVideo at
once), `reconnect` (connect over a session), `unopened` (send without a session),
`unconfigured` (I frame before SPS/PPS). Each property says what holds as long as
certain rules are kept, with no more rules than it needs.

### CameraLive

The main thread's clicks are
`ClickConnect`, `ClickDisconnect` / `Disconnected`, `StartLive`, `StopLive`; the connect
coroutine is `Launch` (posts the delayed dialog), `IoConnect`, `IoConnected`, `Finish`, with
`TimerFires` for the delayed message; `onDestroy` is `DestroyBegin`, `DestroyRelease`,
`DestroyEnd`; the consumer is `TakeFrame`, `Encode`, `Drain`, `Offer`, `SendVideo`,
`VideoSent`, `GiveBack`, `ReleaseCodec`; an audio task is `AudioHeader`, `AudioReturn`,
`AudioRead`, `AudioDrain`, `AudioSend`. A flag is read in one step and used in a later one
wherever the code does so. `codecHeld`, `codecTorn` and `audioHeld` are references to an
encoder that a thread captured (`?.let`, `?.apply`) before another may release it; use of
a released video encoder is an exception that ends the process (`crash`), in an audio task
it is caught and ends the task. What the encoder emits next stands for the encoder.

The activity does not exclude every bad schedule. `hazards` records those it met:
`double` (connect clicked while a connect is pending), `torn` (close or onDestroy while a
worker is past its last look at `isLiving`; an audio task at the head of its loop is not),
`orphaned` (onDestroy while a connect is pending), `carried` (a live begins before the encoder
of the last one is released), `late` (onDestroy while the consumer is between its look at
`isLiving` and `initMediaCodec`), `shared` (onDestroy and the consumer hold the video encoder
together). `late` and `shared` are narrow on purpose: the encoder is used after its
release only after `shared` (`EncoderOwned`), and one is left behind only after `late`
(`EncoderReleased`), so that neither an audio task nor an earlier disconnect excuses them. The
properties say what holds outside them, so each exception they name is a weakness of the
code and everything else is a guarantee. The constant `Schedules` bounds which of them
TLC explores in a run, and whether the server may drop a connection (`lost`) and a live
may be started (`live`).

### ScreenShotLive

The threads that enter the native library are an IO thread per click on connect (`Attempts`)
and `Copier`, the handler thread that PixelCopy calls, which feeds and drains the encoder,
writes the MP4 file and sends; its look at `rtmpConnectState` (`OfferOutput`) and its call
(`SendOutput`) are two steps. `Click` on the connected button changes a flag and nothing else;
on the other it starts a connect, whether one is pending or not, because nothing but the
dialog, 500 ms later, keeps the user from a second click. `Destroy` stops nothing.
`stopScreenShot` is four steps on the main thread (`StopRecording`, `StopMuxer`,
`ReleaseMuxer`, `ClearMuxer`), and the handler's `encodeVideo` is one step per use of the
muxer or of a flag, so the stop may fall between any two. `dropped`, `double`, `missed` and
`cut` record the schedules that lead to a broken rule: a session left open, connect clicked
while a connect is pending (two calls inside `connect`, and the loser's session stranded, with
no disconnect and no recording), SPS and PPS emitted while not connected, a stop
beside the handler's use of the muxer. `ScreenRules` and `MuxerIsSafe` name them and say
nothing else goes wrong.

### VideoPackets

The one module about bytes, because the code is index arithmetic. `UnitsAt` is the search of
`saveSPS_PPS`, over the array and what lies behind it in memory; `SpsPpsBody` and
`FrameBody` are the two packet builders, `Bytes16` and `Bytes32` their shifts and masks. Sent bodies are read back by `ReadConfig` and
`ReadFrame`, written from the FLV tag format and not from the code, and must give the
encoder's units. `SendVideoArray` has the three branches of `sendVideo`.

### FramePipeline

Three actors: the main thread in `swapCamera` (`SwapReset`, `SwapRebind`), the analyzer under
its lock (`Analyze`, `Allocate`, `MarkInit`, `Fill`, `Put`), the consumer (`Take`, `Convert`,
`Rotate`, `Encode`). `yuv` holds every generation of the arrays `y`, `u`, `v` ever allocated,
and a task is the index of its arrays, because a `BufferTask` shares them. Sizes are one
number per camera. `broken` says how the process ended: `underflow` (`buffer.get` into a
larger array), `bounds` (`yuvToNv12`), `overrun` (`nv12Rotate` writes past its
array), `overflow` (a larger picture into the encoder's buffer). `mixed` records that a swap
met pictures on their way. `StaleNeedsMixing` allows the first three, and a picture turned the
wrong way, only then; the last it allows after a swap, either such a one or one to a camera
whose pictures are larger than those the encoder was made for, which no quiet moment helps.

### LiveTaskPool, ServerList, SafeQueue

`LiveTaskPool` has `ThreadPoolExecutor.execute` in its steps (`CountWorkers`, `OfferTask`,
`Recheck`) against workers that take, time out in two steps (`PollExpires`,
`WorkerGoes`) and leave (`WorkerGone`, which is `processWorkerExit`). The executor is a
library: it is modelled from its configuration and its use in `LiveTaskManager`, and marked
external in the map. `ServerList` has the memory and the file of `SharedPreferences` apart;
`Restart` may follow a kill before `apply()` reached the disk. `SafeQueue` takes the steps
of the mutex: a pop that finds nothing gives it up in `pthread_cond_wait`, spurious wake-ups
included; `work` and `releaseCallback` start with whatever the memory held.

### RtmpClient

The code answers one packet with several writes, each of which may fail and close the
handle on the spot while the caller goes on. So a handler is an operator from a handle to
the set of handles it may become, and `Then` chains them. The thread is in `phase`
(`AllocHandle`, `TcpConnect`, `HandShake`, `ReadPacket`, `ReadFails`, `SendMedia`,
`SendSpsPps`, `CloseHandle`); the server answers in the order it hears (`ServerReads`), may send packets
nobody asked for (`ServerChats`: onBWDone, pings, the end of the session, a failed stream),
or be silent, and `ConnectionBreaks` cuts both byte streams at any place.

A frame or a piece of sound goes out on the stream of the handle (`SendMedia`,
`rtmplibrary:340, 377`). The SPS/PPS packet before an I frame does not: `createSpsPpsPacket`
takes its packet from `malloc` and never writes `m_nInfoField2` (the assignment in line 284 is
commented out), and the packet's full header carries what was there. `SendSpsPps` sends any value of `Garbage`. So
`OpenIsPublished` is about frames of video and sound, and says nothing of
that packet, of which nothing is true. That an I frame follows it is `RtmpSession`'s.

### RtmpChunk

One cell of `wire` is a chunk header or a byte of a body. It also bears the number of its
message (`no`) and a place in it (`at`): history that no guard reads, by which the properties
can say whose bytes are where. `Start` chooses the
header type from the channel's last packet and forms the timestamp field, extended or not;
`Write` sends a chunk in two pieces when it likes, because no lock keeps two threads apart,
and `WriteFails` ends the connection in the middle. `ReadChunk` is `RTMP_ReadPacket` of the
peer. When a thread writes into another's half-written chunk, or starts a packet on a
channel whose message is not complete, `crossed` becomes true, nothing is promised and the
model stops.

### AmfCodec

A pure part: `AmfDecode`, `DecodeProp`, `DecodeValue`, `DecodeArray` are the AMF0 decoder of
`amf.c`, `EncodeString` to `EncodeProp` its encoder, `SendConnectPacket` the calls that write
the connect command. `ServerWrites`, written from the AMF0 format and not from the code, is
what they are held against. `CodecAgrees` says an answer is read exactly; when it holds a
value the decoder does not support, it is right up to that value, or refused. The connect
command is whole if the buffer has two bytes to spare. With less it is not sent, or it is
sent without some last members of an object among the extras (`AMF_Encode`, `amf.c:880`, goes
on to the end mark when a member has no room): a weakness, because `SendConnectPacket`
takes that for success. Two inputs are left out: a number whose first bytes are 0 and 9 (a
subnormal near 1e-308), which at the top level looks like an end mark, and a null or a
nameless value inside an object of the extras, which the `conn=` grammar of `librtmp.3` does
not offer.

## Runs

| Run | Instance | Shows |
|---|---|---|
| `RtmpSession.cfg` | 2 threads, 2 sessions, any calls | the seven session properties |
| `CameraLive.cfg` | 1 connect at a time, 1 audio task, 1 session, all schedules but `double` | rules kept, live has a session, clean end, encoder ownership, and the refinement `SessionSpec` |
| `CameraReconnect.cfg` | the same with 2 sessions, `torn`, `late`, `shared` | rules and state across a reconnect with stale workers |
| `CameraCarried.cfg` | video only, 2 sessions, all schedules but `double` | rules when an encoder outlives its live or its session |
| `CameraDouble.cfg` | 2 connects pending, 2 sessions, no live | the dialogs |
| `CameraLiveness.cfg` | 1 session, `torn`, `late`, `shared`, fair | the three liveness properties |
| `RtmpClient.cfg` | 2 streams, 2 unasked packets of any kind, 2 media packets (an SPS/PPS packet names stream 0 or 7, of which the server granted neither), breaks anywhere, fair | the dialog (`DialogSpec`), what the server is told, when the recursion starts, `ConnectEnds` |
| `RtmpChunk.cfg` | 2 threads, channel 3 with compressed headers and 3 packets, channel 4 with one, chunks of 2, fair | `StreamsSpec`, messages arrive |
| `Parts.cfg` | seven modules in eight parts, see below | twelve properties of them |
| `CameraDoubleState.cfg` | as `CameraDouble` | expected violation, see Findings |
| `CameraSecondConfig.cfg` | 1 connect, video only | expected violation, see Findings |
| `ScreenDisconnect.cfg` | 1 recording, reconnects | expected violation, see Findings |

`Parts.cfg` checks `SafeQueue`, `LiveTaskPool`, `FramePipeline`, `ServerList`,
`ScreenShotLive`, `VideoPackets` and `AmfCodec`, which share no state, in one run: `MCParts` chooses one of
them in the variable `part`, and a behaviour takes steps of that part only while the others
stay in their initial state (`ScreenShotLive` is two parts with different bounds). So nothing is multiplied, the states of the run are the sum of the
parts', and each property is about the behaviours of its own part. (A part's own initial
choices, like the uninitialized `work`, are fixed in the behaviours of the others.)

Bounds. `Lives` bounds the sessions of one run of the process: one shows everything
that happens within a session, two are needed for what one session leaves to the next
(stale workers, SPS/PPS told to the other session, a leaked handle), and a third adds no
new relation because only `mLive` and one older session can be told apart by a thread.
Two threads are enough for any race of the library because each property is about
two calls; the proofs cover the rest. Two pending attempts are what the flag and the
dialogs can confuse; one audio task and the consumer are the two senders the screen has.
In the parts: three consumers and three items, so that a signal may wake one consumer while a
second waits and a third comes by; two core threads, three threads at most and a
queue of one against three screens, so that the pool fills, rejects and shrinks; three pictures
and two swaps there and back between a larger and a smaller camera; two recordings with one
picture under way, without reconnecting (`Redials`). `ScreenShotLive` has two parts: in "screen"
connects come one at a time, with two recordings, files and the end at any moment; in "clicks"
two connects may be pending at once over two sessions, with one recording, begun after the first
connect, and no file (`OneRecording`), because what a second connect does to the first
session and to a sender needs none of the rest. A larger instance of the pipeline, four pictures with three swaps, was run
once and holds as well. Timestamps in `RtmpChunk` are of 3 bits
with 4 for 0xffffff, so that equal, growing, extended and wrapping differences all occur
within three packets. Lengths of 260 in `VideoPackets` need both bytes of a length.
In `AmfCodec` every kind of value stands at every place of a two-level invoke, and the packet
has each size up to the longest command. The Lives of the screen are interchangeable
(`Symmetric`).
Where a model is finite by a bound, `CHECK_DEADLOCK FALSE` says so: the process may end,
the activity may be dead, the sessions or packets may be used up.

Fairness. `CameraFairSpec`: the main looper handles what was posted to it in order, so
clicks cannot postpone `Launch`, `Finish` and `TimerFires` for ever (strong fairness, since
each is disabled while `onDestroy` or a disconnect runs). The IO thread, the consumer, an
audio task and the rest of a click or of `onDestroy` run on when they can (weak fairness);
the camera delivers frames, and the pool has a thread for a queued audio task
(`StarvedByLasting` says when it has none). A native call returns: `connect` has a receive
timeout of 10 s (`rtmplibrary:225`); a write has no timeout, so that a server which
accepts and never reads could block a sender for ever is an assumption excluded here.
Nothing is assumed about clicks, `onDestroy` or the peer. `FairRtmpSpec`: the thread inside
connect runs on; a silent or endlessly silent server is covered by the timeout (`ReadFails`),
and nothing is assumed of it. `FairChunkSpec`: the socket takes bytes and the peer reads;
a write may still fail.

## Refinements

- `CameraLive` implements `RtmpSession` (`SessionSpec`), checked and proved: all session
  theorems hold of the activity. `ScreenShotLive` does too, which is proved.
- `SafeQueue` implements `SwitchedFifo` (`FifoSpec`), checked and proved: the mutex, the
  waits and the wake-ups are not visible to the users.
- `RtmpChunk` implements `MessageStreams` (`StreamsSpec`), checked and proved: whatever
  chunks are interleaved, each channel is a FIFO of whole messages. Messages with a header
  that leaves the time out may be late; `timed` says which are not.
- `RtmpClient` implements `PublishDialog` (`DialogSpec`), checked and proved: no command is
  sent before the answer it needs, whatever fails.

## Proofs

Every safety property of a passing run is proved for all values of the constants, but for
`CodecAgrees`, named at the end of this section.

**Native session.** `RtmpSessionProofs` proves, for every set of threads and `Lives`, the
type invariant and the six other session properties. The properties are not inductive: that
a handle is not freed now says nothing of the pointer a thread took before it blocked.
`SessionInv` adds, each under the rules it needs, the program counters of each call
(`ShapeOK`), that a call that changes `mLive` is alone (`Exclusive`), that outside `setup`
and `clear` `mLive` leads to its own live handle (`Settled`), what each thread holds
(`Holding`), what is left when connect starts (`NothingLeft`), one video sender (`OneVideo`),
that a session told SPS/PPS has them or is about to (`Configured`), and the header before an
I frame (`HeaderWritten`). There is one lemma per action and under it one step per part of
the invariant. The lemmas at the end say what a call looks like from outside: what a step of
one thread inside the library leaves alone, and that a lone connect or close takes `mLive`
from where it found it to the result it returns (`Changer`). The two activities rest on them.

**Camera screen.** `CameraLiveProofs` proves the refinement and every invariant of the
passing runs. `CameraInv` puts together `SessionInv` and

- `Flags`, `Callers`: which native call each thread may be in, from where it is in the
  activity;
- `ScheduleInv`: outside the schedules `double` and `torn` a pending connect is alone, a
  worker is past its look at `isLiving` only during a live, and the flags exclude each other;
- `SoloSession`: without the schedules `double` and `orphaned`,
  `mLive` leads to an open handle exactly when `rtmpConnectState` says so, in the middle of a
  connect or close as far as its `Changer` went;
- `EncoderInv`, `ReleasedInv`: who holds the video encoder, that both hold it only after
  `shared`, and from where on a dying activity has none left but after `late`;
- `CodecInv`, `ToldInv`: which encoder the consumer holds, and that the session knows its
  SPS/PPS before an I frame can be sent.

`AccessTheorem` is the sum: where the activity breaks no rule, the theorems of the session say
that no access is undefined. So outside the schedules `double`, `torn`, `orphaned` and `carried` the native library
follows no null or freed pointer for any number of attempts, audio tasks and sessions.
`ConnectionTheorem` says the same of what the server sees: outside three of them there is no
open connection but that of `mLive`, and no I frame before its SPS and PPS, also across
reconnects. The screen-shot activity has the like (`ScreenAccessTheorem`,
`ScreenConnectionTheorem`), until somebody disconnects or clicks connect twice (`Orderly`).

**Screen-shot screen.** `ScreenInv` says which native call each thread may be in
(`Callers`), what the encoder emits next against what the handler thread holds (`Emitted`),
which session there is until somebody disconnects or clicks connect while a connect is pending
(`OneSession`: the one connect that is pending makes it, and no sender is at work before), that one format makes one
muxer (`Fresh`), and how far that muxer is as long as no stop met the handler thread's use of
it (`Apart`). What TLC had found to hold was not inductive: the handler thread writes only
while the muxer is started, which the flag it read told it, had to be said too.

**Client.** `ClientInv` ties a handle to the bytes under way: commands written and not yet read
are the next of the dialog, each with the answer it needs (`Line`); the number of a remembered
call is borne only by its command and then by its answer (`Matched`), which is why a late or
unasked packet is never taken for an answer; the handle knows a stream exactly as far as the
dialog went (`Sane`, `Reached`); as long as the connection works no command is missing
(`Spoken`). A step writes several commands, of which each may fail and close the handle
under its caller, so the proof follows the handles inside a step: `Pen` is an open handle that
has written up to a place, `Lost` one that a write took away, `Told` and `Asked` one that wrote
a notice or a call, `Good` one a step may end with. `ClientMoves` concludes for all steps.

**Chunks.** `ChunkInv` says what a wire in the middle of everything looks like. A channel has a
*place*: the message and the byte that come next and the packet a short header would refer to.
Reading a header moves the place to where its chunk ends. `ChannelsOK` says that on every
channel, whatever lies between, each header fits the place where the one before it ends
(`Chain`), the first of them the place of the peer, and that the writers go on at the last. What
a header leaves out the peer takes from *its* last packet, which may know the time better or
later than the writer's; `Serves` says which bases will do in place of which. `IsWire` and
`CutsOK` say that a header is followed by the bytes it announces and that a chunk is cut
only at the end, by the one thread that goes on with it; `OrderOK` that no later header of a
channel goes back; `ReaderOK` that the peer holds the first bytes of the message
it receives. From these, what is delivered is the head of the channel's queue. The
invariant holds until `crossed`, after which the model stops, and the step that crosses still
only adds to a queue. `NothingSticksTheorem` is the safety half of `MessagesArrive`: while the
connection holds and a message is under way, a thread has bytes to write or the peer has a
whole chunk to read. With every thread idle the last chunk is whole (`CutsOK`), the
peer takes exactly the bytes its header announces (`FirstSpan`), and on an empty wire the
peer's place is the writer's (`ChannelsOK`), so that nothing is owed.

**Bytes of the packets.** `VideoPacketsProofs` proves `PlayerReadsUnits` for any units of an
encoder that H.264 allows and any memory behind the arrays. The search is no induction over the
array: `SpsIndex` and `PpsIndex` are the largest and the least member of a set of places, so it is
enough to know the set. `OnlyStarts` does: in the array with the memory behind it, a start code
with a type begins only in front of the two units, because a unit holds none (`NoneInUnit`) and
ends in no zero that could begin one. Hence `Saved`: what is cut out is the SPS and the PPS, and
nothing is saved from the array of a frame. On the other side a length written is the length read
(`RoundTrip16`, `RoundTrip32`), so that a player cuts a body where it was joined
(`FrameRead`, `ConfigRead`). `PacketInv` adds what is remembered of the first encoder, because
the packet before an I frame is built from that and not from the array at hand.

**Queue, pool, pipeline, servers.** `SafeQueueProofs` proves the refinement, that no item is
stranded and that a stop frees a consumer, for any finite set of consumers and any items.
Stated with the count of woken consumers against queued items, `NoStrandedItem` is inductive.
`ApplicationProofs` proves for any sizes of the pool `NoTaskWithoutWorker` (`PoolInv` adds only
that the counts are numbers and `running` is finite, because the property with the threads
on their way out is what the executor itself maintains) and `StarvedByLasting`.
For the latter a worker must be counted once: `PlacesInv` says that each task is in one place,
queue or worker, because each is new when it is submitted, so that taking a task loses no worker;
then only `WorkerGoes` lowers their number, and `raced` notes when it does so beside a task
(`CoreIsThere`). It also proves that memory and file of the servers hold only rows
that were chosen and addresses that were used (`ServersTrusted`), and from it
`RestartOffersUsed`. And it proves both properties of the pipeline for any
cameras, sizes, pictures and swaps. That pictures reach the encoder in order (`OrderTheorem`)
rests on `Ordered`: a later generation of arrays holds a later picture or none
(`ArraysOrdered`), tasks name arrays in order (`TasksOrdered`), and neither what was encoded nor
what is converted is newer than anything in the arrays still to be taken. That nothing
spoils a picture without a mixing swap (`StaleTheorem`) rests on `Steady`: as long as no swap
met a picture, there is one generation in use, and arrays, sizes, tasks and the
converted picture all belong to the bound camera. Its part about the encoder's buffer rests on
`Unswapped`: before the first swap every picture has the size of the first camera, for
which the encoder is made; and on `Steady`, by which a picture that does not fit is one of
the camera bound now.

Assumptions on the constants: `NullNotLive`, `Roles` (the threads are the main thread, the
consumer, the attempts and the audio tasks, all different), `ScreenAssumption` (the threads of the
other screen are its connects and the handler thread), `ClientAssumption` (a stream id is a
positive number, an unwritten field holds an integer), `ChunkAssumption` (a chunk has at least one
byte, timestamps wrap at the modulus, 0xffffff is below it, every packet has a type, a
length and a time), `NullAssumption`, `SomeConsumers`, `PoolAssumption`,
`PipelineAssumption`, `ServerAssumption`, `UnitAssumption` (a unit holds no start code and does
not end in a zero, as H.264 demands; lengths fit the code's `int16_t` and `int`). TLC
evaluates each of them.

Only model-checked: the liveness properties (`ScreenUnlocks`, `LiveWindsDown`,
`DestroyCompletes`, `ConnectEnds`, `MessagesArrive`), because the proof system treats neither
fairness nor ENABLED; and `CodecAgrees` of `AmfCodec`, whose decoder recurses over its input, so
that a proof would be an induction over data.

## Findings

1. `CameraDoubleState.cfg`: until the progress dialog shows (500 ms) a second click on
   connect starts a second connect; each stores its own answer in `rtmpConnectState`
   (`Camera:513`), which then contradicts the session.
2. `CameraSecondConfig.cfg`: the SPS/PPS array of a second encoder on one connection is
   sent as an inter frame (`rtmplibrary:419-442`).
3. `ScreenDisconnect.cfg`: the disconnect button of the screen-shot screen tells the user it
   disconnected and closes nothing (`ScreenShotActivity.kt:79-82`).

Other weaknesses the exceptions in the properties record: a send after `close` has begun
(`torn`), a session nobody closes when the activity dies during connect (`orphaned`), an
encoder used after its release or left behind when the activity dies under the consumer
(`shared`, `late`), two connects at once on either screen (`double`), SPS/PPS packets whose
stream id is whatever memory held (`Garbage`), an
I frame with a null `sps` after a quick disconnect, connect and live (`carried`) or after
recording before connecting (`missed`); a muxer stopped under the handler thread (`cut`);
pictures of two cameras mixed by a swap (`mixed`), and larger pictures than the encoder was
made for even without one (`overflow`); consumers parked in `take()` that fill the core
threads until a live has no sound (`StarvedByLasting`); two senders that cut
into each other's chunks (`crossed`).

## Not modelled

About 81,000 of the 108,000 lines are the vendored pixel kernels of libyuv, one function per
processor; they hold no state and no control, and x264 is headers only. Of librtmp: playing,
seeking, RTMPT, SOCKS, SWF verification, AMF3 and the URL parser; the encrypted
handshake is not built (`NO_CRYPTO`). Of the application: drawing, files, toasts, logging,
layout, the option switches, permissions, `ThreadPoolManager` (a plain pool of 20 threads),
the vendored `WeakHandler`, and the debug callbacks of the native library. Timestamps of the
two encoders are left out of `CameraLive`; `RtmpChunk` shows what a timestamp that goes back
does to the headers. The delayed dialog of the screen-shot screen is the code of the camera
screen and is modelled there only; what it prevents here, clicks after it shows, is no guard
of `ScreenShotLive`, whose properties hold with or without it. The queue of frames has no bound in the code and a
bound in the model.

Of the lesser hazards no property is about memory that is never freed (the `Live` structures,
the buffers of `nv12Rotate`), the analyzer's lock that an exception would leave closed (the
process ends then), the 20 threads of `ThreadPoolManager` of which each destroyed
`ScreenShotActivity` keeps one, a recording that nobody stops, and the timestamp 0
of each SPS/PPS packet, the memory a refused `push` of the safe queue calls through, and a picture torn
because the analyzer refills arrays the consumer is reading.

So the share of the whole repository that a faithful model can reach stays small, although
what the application, `rtmplibrary` and the publishing half of librtmp decide is in the map.

## Plan

What is left: in `RtmpChunk`, a writer that is refused by a full socket for a time, and the order
of the two encoders' timestamps; the invariant of its proof extends to both.
