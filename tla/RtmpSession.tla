---------------------------- MODULE RtmpSession ----------------------------
(***************************************************************************)
(* The native session of rtmplibrary.cpp: the global pointer mLive, the    *)
(* Live structures and RTMP handles that connect allocates, and the four   *)
(* JNI entry points connect, close, sendVideo and sendAudio, run by any    *)
(* number of threads with no lock between them.                            *)
(*                                                                         *)
(* A step ends where a call into librtmp may block or where the code reads *)
(* mLive again after such a call.  An access the C++ standard leaves       *)
(* undefined (through a null mLive, through a null sps, to a freed RTMP)   *)
(* ends the process: fault names it and no action is enabled afterwards.   *)
(***************************************************************************)
EXTENDS Naturals

CONSTANTS
  Threads,  (* the JVM threads that call RtmpManager                       *)
  Lives,    (* the Live structures connect may allocate: a bound for TLC   *)
  NULL      (* nullptr                                                     *)

ASSUME NullNotLive == NULL \notin Lives

VARIABLES
  mLive,    (* the global Live *mLive                                      *)
  lives,    (* the Live structures: their RTMP pointer, and whether sps    *)
            (* and pps are saved.  The RTMP handle that a connect allocates*)
            (* is named after the Live it allocated                        *)
  rtmp,     (* what became of each RTMP handle                             *)
  call,     (* the native call each thread is in                           *)
  wire,     (* the last video message each RTMP connection carries         *)
  fault,    (* "none", or the undefined access that ended the process      *)
  told,     (* history: the Lives that were current when a caller passed   *)
            (* SPS and PPS                                                 *)
  misuse    (* history: how callers departed from one call after the other *)

history     == <<told, misuse>>
sessionVars == <<mLive, lives, rtmp, call, wire, fault, told, misuse>>

(* A frame is told apart by its byte 4: 0x67 (SPS and PPS in one array),   *)
(* 0x65 (I frame), anything else.                                          *)
Frames == {"config", "key", "inter"}

(* "lost": the peer is gone and the socket does not know yet.              *)
RtmpStates == {"unused", "init", "connected", "open", "lost", "closed", "freed"}

(* What sendVideo puts on a connection.  A "config" message is an SPS/PPS  *)
(* array sent in the body of an inter-frame packet.                        *)
Messages == {"header"} \cup Frames

Ops     == {"connect", "close", "sendVideo", "sendAudio"}
Faults  == {"null_live", "null_rtmp", "null_sps", "freed_rtmp", "recursion"}
Misuses == {"overlap", "interleaved", "reconnect", "unopened", "unconfigured"}
Pcs     == {"idle", "alloc", "setup", "server", "stream", "teardown", "free",
            "clear", "config", "header", "sendHeader", "frame", "sendFrame",
            "audio", "sendMsg", "true", "false"}

Call == [op : Ops, pc : Pcs, own : Lives \cup {NULL}, r : Lives \cup {NULL},
         frame : Frames]

Idle == [op |-> "close", pc |-> "idle", own |-> NULL, r |-> NULL,
         frame |-> "inter"]

SessionTypeOK ==
  /\ mLive  \in Lives \cup {NULL}
  /\ lives  \in [Lives -> [rtmp : Lives \cup {NULL}, config : BOOLEAN]]
  /\ rtmp   \in [Lives -> RtmpStates]
  /\ call   \in [Threads -> Call]
  /\ wire   \in [Lives -> Messages \cup {"none"}]
  /\ fault  \in Faults \cup {"none"}
  /\ told   \in SUBSET Lives
  /\ misuse \in SUBSET Misuses

SessionInit ==
  /\ mLive  = NULL
  /\ lives  = [l \in Lives |-> [rtmp |-> NULL, config |-> FALSE]]
  /\ rtmp   = [l \in Lives |-> "unused"]
  /\ call   = [t \in Threads |-> Idle]
  /\ wire   = [l \in Lives |-> "none"]
  /\ fault  = "none"
  /\ told   = {}
  /\ misuse = {}

-----------------------------------------------------------------------------
(* Helpers.                                                                *)

(* Thread t executes code of the library; at "true" and "false" it is back *)
(* in its caller, which has not stored the result yet.                     *)
Inside(t) == call[t].pc \notin {"idle", "true", "false"}

(* connect and close are the calls that change mLive.                      *)
Changes(op) == op \in {"connect", "close"}

(* Thread t is inside its call of op, at pc.                               *)
At(t, op, pc) == call[t].op = op /\ call[t].pc = pc

Goto(t, pc) == call' = [call EXCEPT ![t].pc = pc]

(* Continue at pc holding the RTMP pointer r as an argument of librtmp.    *)
Hold(t, r, pc) == call' = [call EXCEPT ![t].pc = pc, ![t].r = r]

Fail(f) ==
  /\ fault' = f
  /\ UNCHANGED <<mLive, lives, rtmp, call, wire, history>>

(* mLive->rtmp, where mLive is not null.                                   *)
CurrentRtmp == lives[mLive].rtmp

-----------------------------------------------------------------------------
(* A JVM thread enters the native library.  misuse records what the caller *)
(* did not respect: a call that changes mLive runs alone, sendVideo has    *)
(* one thread at a time, connect only after close, send only on an open    *)
(* session, an I frame only after SPS and PPS.                             *)

Misused(op, frame) ==
  {m \in Misuses :
     \/ /\ m = "overlap"
        /\ \E u \in Threads : Inside(u) /\ (Changes(op) \/ Changes(call[u].op))
     \/ /\ m = "interleaved" /\ op = "sendVideo"
        /\ \E u \in Threads : Inside(u) /\ call[u].op = "sendVideo"
     \/ m = "reconnect" /\ op = "connect" /\ mLive # NULL
     \/ m = "unopened" /\ ~Changes(op) /\ mLive = NULL
     \/ /\ m = "unconfigured"
        /\ op = "sendVideo" /\ frame = "key"
        /\ mLive # NULL /\ mLive \notin told}

Enter(t, op, pc, frame) ==
  /\ fault = "none" /\ call[t].pc = "idle"
  /\ call' = [call EXCEPT ![t] = [Idle EXCEPT !.op = op, !.pc = pc, !.frame = frame]]
  /\ told' = told \cup {l \in Lives : l = mLive /\ op = "sendVideo" /\ frame = "config"}
  /\ misuse' = misuse \cup Misused(op, frame)
  /\ UNCHANGED <<mLive, lives, rtmp, wire, fault>>

CallConnect(t)      ==
  /\ \E l \in Lives : rtmp[l] = "unused" /\ \A u \in Threads : call[u].own # l
  /\ Enter(t, "connect", "alloc", "inter")
CallClose(t)        == Enter(t, "close", "teardown", "inter")
CallSendVideoHeaderless(t, f) == (* mutant: an I frame without its header *)
  Enter(t, "sendVideo", IF f = "config" THEN "config" ELSE "frame", f)
CallSendVideo(t, f) ==
  Enter(t, "sendVideo",
        IF f = "config" THEN "config" ELSE IF f = "key" THEN "header" ELSE "frame", f)
CallSendAudio(t)    == Enter(t, "sendAudio", "audio", "inter")

(* The JNI call hands its result back.                                     *)
Return(t) ==
  /\ fault = "none"
  /\ call[t].pc \in {"true", "false"}
  /\ call' = [call EXCEPT ![t] = Idle]
  /\ UNCHANGED <<mLive, lives, rtmp, wire, fault, history>>

-----------------------------------------------------------------------------
(* connect                                                                 *)

(* mLive = malloc(...); memset.  The old value of mLive is forgotten.      *)
ConnectAlloc(t) ==
  /\ fault = "none" /\ At(t, "connect", "alloc")
  /\ \E l \in Lives :
       /\ rtmp[l] = "unused" /\ \A u \in Threads : call[u].own # l
       /\ mLive' = l
       /\ call' = [call EXCEPT ![t].pc = "setup", ![t].own = l]
  /\ UNCHANGED <<lives, rtmp, wire, fault, history>>

(* RTMP_Alloc, RTMP_Init, RTMP_SetupURL, RTMP_EnableWrite, each through    *)
(* mLive->rtmp; then the argument of RTMP_Connect.  RTMP_SetupURL refuses  *)
(* a URL it cannot parse.                                                  *)
ConnectSetup(t) ==
  /\ fault = "none" /\ At(t, "connect", "setup")
  /\ \/ mLive = NULL /\ Fail("null_live")
     \/ /\ mLive # NULL
        /\ lives' = [lives EXCEPT ![mLive].rtmp = call[t].own]
        /\ rtmp'  = [rtmp EXCEPT ![call[t].own] = "init"]
        /\ \/ Hold(t, call[t].own, "server")
           \/ Goto(t, "teardown")
        /\ UNCHANGED <<mLive, wire, fault, history>>

(* Mutant: a connection the server refused is not torn down.               *)
ConnectServerKept(t) ==
  /\ fault = "none" /\ At(t, "connect", "server")
  /\ \/ rtmp[call[t].r] = "freed" /\ Fail("freed_rtmp")
     \/ /\ rtmp[call[t].r] # "freed"
        /\ rtmp' = [rtmp EXCEPT ![call[t].r] = "closed"]
        /\ Goto(t, "false")
        /\ UNCHANGED <<mLive, lives, wire, fault, history>>

(* RTMP_Connect closes the handle itself when it fails; when it succeeds   *)
(* mLive->rtmp is read again for RTMP_ConnectStream.                       *)
ConnectServer(t) ==
  LET r == call[t].r IN
  /\ fault = "none" /\ At(t, "connect", "server")
  /\ \/ rtmp[r] = "freed" /\ Fail("freed_rtmp")
     \/ /\ rtmp[r] # "freed"
        /\ rtmp' = [rtmp EXCEPT ![r] = "closed"]
        /\ Goto(t, "teardown")
        /\ UNCHANGED <<mLive, lives, wire, fault, history>>
     \/ /\ rtmp[r] # "freed" /\ mLive = NULL
        /\ Fail("null_live")
     \/ /\ rtmp[r] # "freed" /\ mLive # NULL
        /\ rtmp' = [rtmp EXCEPT ![r] = "connected"]
        /\ Hold(t, CurrentRtmp, "stream")
        /\ UNCHANGED <<mLive, lives, wire, fault, history>>

(* RTMP_ConnectStream reads packets until the server accepted the stream   *)
(* or the connection ended or was silent for 10 seconds.                   *)
ConnectStream(t) ==
  LET r == call[t].r IN
  /\ fault = "none" /\ At(t, "connect", "stream")
  /\ \/ r = NULL /\ Fail("null_rtmp")
     \/ r # NULL /\ rtmp[r] = "freed" /\ Fail("freed_rtmp")
     \/ /\ r # NULL /\ rtmp[r] = "connected"
        /\ rtmp' = [rtmp EXCEPT ![r] = "open"]
        /\ Goto(t, "true")
        /\ UNCHANGED <<mLive, lives, wire, fault, history>>
     \/ /\ r # NULL /\ rtmp[r] # "freed"
        /\ Goto(t, "teardown")
        /\ UNCHANGED <<mLive, lives, rtmp, wire, fault, history>>

-----------------------------------------------------------------------------
(* The teardown that close and a failed connect share: RTMP_Close,         *)
(* RTMP_Free, mLive = nullptr, each reading mLive again.                   *)

(* Mutant: close without the test of mLive.                                *)
TeardownCloseUnguarded(t) ==
  /\ fault = "none" /\ call[t].pc = "teardown"
  /\ \/ mLive = NULL /\ Fail("null_live")
     \/ /\ mLive # NULL /\ CurrentRtmp # NULL
        /\ rtmp' = [rtmp EXCEPT ![CurrentRtmp] = "closed"]
        /\ Goto(t, "free")
        /\ UNCHANGED <<mLive, lives, wire, fault, history>>

(* RTMP_Close tells the server FCUnpublish before it forgets the stream    *)
(* id; when that write fails, WriteN calls RTMP_Close again on a handle    *)
(* that still looks open, without end.                                     *)
TeardownClose(t) ==
  /\ fault = "none" /\ call[t].pc = "teardown"
  /\ \/ /\ mLive = NULL
        /\ Goto(t, "false")
        /\ UNCHANGED <<mLive, lives, rtmp, wire, fault, history>>
     \/ mLive # NULL /\ CurrentRtmp = NULL /\ Fail("null_rtmp")
     \/ /\ mLive # NULL /\ CurrentRtmp # NULL
        /\ \/ rtmp[CurrentRtmp] = "freed" /\ Fail("freed_rtmp")
           \/ rtmp[CurrentRtmp] = "lost" /\ Fail("recursion")
           \/ /\ rtmp[CurrentRtmp] # "freed"
              /\ rtmp' = [rtmp EXCEPT ![CurrentRtmp] = "closed"]
              /\ Goto(t, "free")
              /\ UNCHANGED <<mLive, lives, wire, fault, history>>

(* Mutants: RTMP_Free is forgotten; it leaves a null handle state.         *)
TeardownFreeForgotten(t) ==
  /\ fault = "none" /\ call[t].pc = "free"
  /\ Goto(t, "clear")
  /\ UNCHANGED <<mLive, lives, rtmp, wire, fault, history>>

TeardownFreeNull(t) ==
  /\ fault = "none" /\ call[t].pc = "free"
  /\ mLive # NULL /\ CurrentRtmp # NULL
  /\ rtmp' = [rtmp EXCEPT ![CurrentRtmp] = NULL]
  /\ Goto(t, "clear")
  /\ UNCHANGED <<mLive, lives, wire, fault, history>>

TeardownFree(t) ==
  /\ fault = "none" /\ call[t].pc = "free"
  /\ \/ mLive = NULL /\ Fail("null_live")
     \/ /\ mLive # NULL /\ CurrentRtmp # NULL /\ rtmp[CurrentRtmp] = "freed"
        /\ Fail("freed_rtmp")
     \/ /\ mLive # NULL
        /\ \/ CurrentRtmp = NULL /\ UNCHANGED <<rtmp, wire>>
           \/ /\ CurrentRtmp # NULL /\ rtmp[CurrentRtmp] # "freed"
              /\ rtmp' = [rtmp EXCEPT ![CurrentRtmp] = "freed"]
              /\ wire' = [wire EXCEPT ![CurrentRtmp] = "none"]
        /\ Goto(t, "clear")
        /\ UNCHANGED <<mLive, lives, fault, history>>

TeardownClearForgotten(t) == (* mutant: mLive = nullptr is forgotten        *)
  /\ fault = "none" /\ call[t].pc = "clear"
  /\ Goto(t, "false")
  /\ UNCHANGED <<mLive, lives, rtmp, wire, fault, history>>

TeardownClear(t) ==
  /\ fault = "none" /\ call[t].pc = "clear"
  /\ mLive' = NULL
  /\ Goto(t, "false")
  /\ UNCHANGED <<lives, rtmp, wire, fault, history>>

-----------------------------------------------------------------------------
(* sendVideo and sendAudio                                                 *)

(* Mutant: sps and pps are parsed and not stored.                          *)
SaveConfigNot(t) ==
  /\ fault = "none" /\ At(t, "sendVideo", "config")
  /\ Goto(t, "false")
  /\ UNCHANGED <<mLive, lives, rtmp, wire, fault, history>>

(* An array that starts with an SPS is saved the first time; once sps and  *)
(* pps are there it falls through to the packet of an inter frame.         *)
SaveConfig(t) ==
  /\ fault = "none" /\ At(t, "sendVideo", "config")
  /\ \/ mLive = NULL /\ Fail("null_live")
     \/ /\ mLive # NULL /\ ~lives[mLive].config
        /\ lives' = [lives EXCEPT ![mLive].config = TRUE]
        /\ Goto(t, "false")
        /\ UNCHANGED <<mLive, rtmp, wire, fault, history>>
     \/ /\ mLive # NULL /\ lives[mLive].config
        /\ Goto(t, "frame")
        /\ UNCHANGED <<mLive, lives, rtmp, wire, fault, history>>

(* createSpsPpsPacket reads sps[1], and sendPacket reads mLive->rtmp.      *)
MakeHeader(t) ==
  /\ fault = "none" /\ At(t, "sendVideo", "header")
  /\ \/ mLive = NULL /\ Fail("null_live")
     \/ mLive # NULL /\ ~lives[mLive].config /\ Fail("null_sps")
     \/ /\ mLive # NULL /\ lives[mLive].config
        /\ Hold(t, CurrentRtmp, "sendHeader")
        /\ UNCHANGED <<mLive, lives, rtmp, wire, fault, history>>

(* createVideoPacket or createAudioPacket reads mLive->rtmp->m_stream_id,  *)
(* and sendPacket reads mLive->rtmp.                                       *)
MakePacket(t, op, pc, next) ==
  /\ fault = "none" /\ At(t, op, pc)
  /\ \/ mLive = NULL /\ Fail("null_live")
     \/ mLive # NULL /\ CurrentRtmp = NULL /\ Fail("null_rtmp")
     \/ /\ mLive # NULL /\ CurrentRtmp # NULL
        /\ \/ rtmp[CurrentRtmp] = "freed" /\ Fail("freed_rtmp")
           \/ /\ rtmp[CurrentRtmp] # "freed"
              /\ Hold(t, CurrentRtmp, next)
              /\ UNCHANGED <<mLive, lives, rtmp, wire, fault, history>>

(* RTMP_SendPacket on the handle read before.  It writes, or it fails and  *)
(* closes a handle without a socket, or its error path recurses.           *)
SendPacket(t, pc, message, next) ==
  LET r == call[t].r IN
  /\ fault = "none" /\ call[t].pc = pc
  /\ \/ r = NULL /\ Fail("null_rtmp")
     \/ r # NULL /\ rtmp[r] = "freed" /\ Fail("freed_rtmp")
     \/ r # NULL /\ rtmp[r] = "lost" /\ Fail("recursion")
     \/ /\ r # NULL /\ rtmp[r] # "freed"
        /\ \/ /\ rtmp[r] \in {"connected", "open"} /\ message \in Messages
              /\ wire' = [wire EXCEPT ![r] = message]
           \/ /\ rtmp[r] \notin {"connected", "open"} \/ message \notin Messages
              /\ UNCHANGED wire
        /\ Goto(t, next)
        /\ UNCHANGED <<mLive, lives, rtmp, fault, history>>

MakeFrame(t)  == MakePacket(t, "sendVideo", "frame", "sendFrame")
MakeAudio(t)  == MakePacket(t, "sendAudio", "audio", "sendMsg")
SendHeader(t) == SendPacket(t, "sendHeader", "header", "frame")
SendFrame(t)  == SendPacket(t, "sendFrame", call[t].frame, "false")
SendAudio(t)  == SendPacket(t, "sendMsg", "audio", "false")

-----------------------------------------------------------------------------
(* The server or the network drops a connection.                           *)
PeerLost(r) ==
  /\ fault = "none" /\ rtmp[r] \in {"connected", "open"}
  /\ rtmp' = [rtmp EXCEPT ![r] = "lost"]
  /\ UNCHANGED <<mLive, lives, call, wire, fault, history>>

(* The steps of thread t inside the library.                               *)
NativeStep(t) ==
  \/ ConnectAlloc(t) \/ ConnectSetup(t) \/ ConnectServer(t) \/ ConnectStream(t)
  \/ TeardownClose(t) \/ TeardownFree(t) \/ TeardownClear(t)
  \/ SaveConfig(t) \/ MakeHeader(t) \/ MakeFrame(t) \/ MakeAudio(t)
  \/ SendHeader(t) \/ SendFrame(t) \/ SendAudio(t)

CallIn(t) ==
  \/ CallConnect(t) \/ CallClose(t) \/ CallSendAudio(t)
  \/ \E f \in Frames : CallSendVideo(t, f)

SessionNext ==
  \/ \E t \in Threads : CallIn(t) \/ NativeStep(t) \/ Return(t)
  \/ \E r \in Lives : PeerLost(r)

SessionSpec == SessionInit /\ [][SessionNext]_sessionVars

-----------------------------------------------------------------------------
(* What the session promises to callers that keep its (unwritten) rules.   *)

Kept(rules) == \A m \in rules : m \notin misuse

(* connect and close free the RTMP handle and replace mLive with no lock;  *)
(* a freed handle is only ever used when one of them ran beside another    *)
(* call (rtmplibrary.cpp:259-263, 399, 481-487).                           *)
FreedHandleNeedsOverlap == Kept({"overlap"}) => fault # "freed_rtmp"

(* No call goes through a null mLive or a null mLive->rtmp unless it       *)
(* overlapped connect or close or began with no session at all: neither a  *)
(* failed connect nor a second close leaves such a pointer behind          *)
(* (rtmplibrary.cpp:259-263, 340, 377, 399, 419, 482-485).                 *)
NullNeedsUnopened ==
  Kept({"overlap", "unopened"}) => fault \notin {"null_live", "null_rtmp"}

(* createSpsPpsPacket never reads a null sps when each session was passed  *)
(* SPS and PPS before its first I frame, by one thread at a time           *)
(* (rtmplibrary.cpp:300, 419-425).                                         *)
NullSpsNeedsUnconfigured ==
  Kept({"overlap", "interleaved", "unconfigured"}) => fault # "null_sps"

(* Every RTMP handle that was allocated and is not freed is the one mLive  *)
(* leads to: no connection is left open with nobody to close it, unless    *)
(* connect ran over a session that nobody closed (rtmplibrary.cpp:210,     *)
(* 259-263, 481-487).                                                      *)
NoHandleLeaks ==
  Kept({"overlap", "reconnect"}) =>
    \A r \in Lives : rtmp[r] \notin {"unused", "freed"} =>
                       mLive # NULL /\ CurrentRtmp = r

(* When the packet of an I frame is about to be written to a live          *)
(* connection, the last video message of that connection is the packet of  *)
(* SPS and PPS (rtmplibrary.cpp:423-434), also when the peer disappears    *)
(* between the two.                                                        *)
KeyFollowsHeader ==
  Kept({"overlap", "interleaved"}) =>
    \A t \in Threads :
      /\ At(t, "sendVideo", "sendFrame") /\ call[t].frame = "key"
      /\ rtmp[call[t].r] \in {"connected", "open"}
      => wire[call[t].r] = "header"

ResultStep ==
  Kept({"overlap"}) =>
    \A t \in Threads :
      Inside(t) /\ Changes(call[t].op) =>
        /\ call'[t].pc = "true" =>
             /\ mLive' = call[t].own /\ mLive' # NULL
             /\ lives'[mLive'].rtmp = mLive' /\ rtmp'[mLive'] = "open"
        /\ call'[t].pc = "false" => mLive' = NULL

(* The boolean connect hands back says whether there is a session: when it *)
(* ends with true, mLive leads to the handle this very call opened; when   *)
(* it ends with false, or close returns, there is none                     *)
(* (rtmplibrary.cpp:259-267, 481-487).                                     *)
ResultMatchesSession == [][ResultStep]_sessionVars

=============================================================================
