------------------------- MODULE RtmpSessionProofs -------------------------
(***************************************************************************)
(* What RtmpSession promises, proved for every set of threads and Lives.   *)
(*                                                                         *)
(* The properties are not inductive: that a handle is not freed says       *)
(* nothing of the pointer a thread holds across a blocking call.  The      *)
(* invariant SessionInv adds what each thread inside the library may count *)
(* on, as long as the callers kept the rule its part names.                *)
(***************************************************************************)
EXTENDS RtmpSession, TLAPS

(* The program counters of each call.                                      *)
ShapeOK ==
  \A t \in Threads :
    /\ call[t].op = "connect" =>
         call[t].pc \in {"alloc", "setup", "server", "stream", "teardown",
                         "free", "clear", "true", "false"}
    /\ call[t].op = "close" =>
         call[t].pc \in {"idle", "teardown", "free", "clear", "false"}
    /\ call[t].op = "sendVideo" =>
         call[t].pc \in {"config", "header", "sendHeader", "frame", "sendFrame", "false"}
    /\ call[t].op = "sendAudio" => call[t].pc \in {"audio", "sendMsg", "false"}
    /\ call[t].pc = "config" => call[t].frame = "config"

(* A call that changes mLive runs alone.                                   *)
Exclusive ==
  Kept({"overlap"}) =>
    \A t, u \in Threads : Inside(t) /\ Inside(u) /\ Changes(call[t].op) => t = u

(* Except while connect fills it in or teardown is about to clear it, mLive*)
(* leads to the handle allocated with it, and that handle is not freed.    *)
Settled ==
  /\ Kept({"overlap"}) /\ mLive # NULL
  /\ \A t \in Threads : call[t].pc \notin {"setup", "clear"}
  =>  CurrentRtmp = mLive /\ rtmp[mLive] \notin {"unused", "freed"}

(* What a thread inside the library holds belongs to the current session.  *)
Holding ==
  Kept({"overlap"}) =>
    \A t \in Threads :
      /\ call[t].pc \in {"setup", "server", "stream"} =>
           mLive # NULL /\ mLive = call[t].own
      /\ call[t].op = "connect" /\ call[t].pc = "teardown" =>
           mLive # NULL /\ mLive = call[t].own
      /\ call[t].pc \in {"server", "stream", "sendHeader", "sendFrame", "sendMsg"} =>
           mLive # NULL /\ call[t].r = mLive
      /\ call[t].pc = "free" => mLive # NULL
      /\ call[t].pc = "clear" =>
           mLive # NULL /\ CurrentRtmp = mLive /\ rtmp[mLive] = "freed"
      /\ call[t].pc \in {"config", "header", "frame", "audio"} =>
           mLive # NULL \/ "unopened" \in misuse

(* No handle is left behind, nor any when a connect is about to start.     *)
NothingLeft ==
  Kept({"overlap", "reconnect"}) =>
    \A t \in Threads :
      /\ call[t].pc = "alloc" => mLive = NULL
      /\ call[t].pc = "setup" => \A r \in Lives : rtmp[r] \in {"unused", "freed"}

OneVideo ==
  Kept({"overlap", "interleaved"}) =>
    \A t, u \in Threads :
      /\ Inside(t) /\ call[t].op = "sendVideo"
      /\ Inside(u) /\ call[u].op = "sendVideo"
      => t = u

(* A session that was passed SPS and PPS has them, or is about to.         *)
Configured ==
  /\ Kept({"overlap"}) => \A l \in told : rtmp[l] # "unused"
  /\ Kept({"overlap", "interleaved"}) =>
       (mLive \in told =>
          lives[mLive].config \/ \E t \in Threads : At(t, "sendVideo", "config"))
  /\ Kept({"overlap", "interleaved", "unconfigured"}) =>
       \A t \in Threads : At(t, "sendVideo", "header") => mLive = NULL \/ mLive \in told

(* Between the two packets of an I frame.                                  *)
HeaderWritten ==
  Kept({"overlap", "interleaved"}) =>
    \A t \in Threads :
      /\ At(t, "sendVideo", "frame") /\ call[t].frame = "key"
      /\ mLive # NULL /\ rtmp[mLive] \in {"connected", "open"}
      => wire[mLive] = "header"

SessionInv ==
  /\ SessionTypeOK /\ ShapeOK
  /\ Exclusive /\ Settled /\ Holding
  /\ NothingLeft /\ OneVideo /\ Configured /\ HeaderWritten
  /\ FreedHandleNeedsOverlap /\ NullNeedsUnopened /\ NullSpsNeedsUnconfigured
  /\ NoHandleLeaks /\ KeyFollowsHeader

-----------------------------------------------------------------------------
(* Type correctness.                                                       *)

LEMMA TypeEnter ==
  ASSUME SessionTypeOK, NEW t \in Threads, NEW op \in Ops, NEW pc \in Pcs,
         NEW frame \in Frames, Enter(t, op, pc, frame)
  PROVE  SessionTypeOK'
<1>1. Misused(op, frame) \in SUBSET Misuses
  BY DEF Misused
<1>2. [Idle EXCEPT !.op = op, !.pc = pc, !.frame = frame] \in Call
  BY DEF Idle, Call, Ops, Pcs, Frames
<1>3. call' \in [Threads -> Call]
  BY <1>2 DEF SessionTypeOK, Enter
<1> QED
  BY <1>1, <1>3 DEF SessionTypeOK, Enter

LEMMA TypeCallIn ==
  ASSUME SessionTypeOK, NEW t \in Threads, CallIn(t)
  PROVE  SessionTypeOK'
<1>1. CASE CallConnect(t)
  BY <1>1, TypeEnter DEF CallConnect, Ops, Pcs, Frames
<1>2. CASE CallClose(t)
  BY <1>2, TypeEnter DEF CallClose, Ops, Pcs, Frames
<1>3. CASE CallSendAudio(t)
  BY <1>3, TypeEnter DEF CallSendAudio, Ops, Pcs, Frames
<1>4. ASSUME NEW f \in Frames, CallSendVideo(t, f)
      PROVE  SessionTypeOK'
  BY <1>4, TypeEnter DEF CallSendVideo, Ops, Pcs
<1> QED
  BY <1>1, <1>2, <1>3, <1>4 DEF CallIn

LEMMA TypeGoto ==
  ASSUME SessionTypeOK, NEW t \in Threads, NEW pc \in Pcs, Goto(t, pc)
  PROVE  call' \in [Threads -> Call]
<1>1. [call[t] EXCEPT !.pc = pc] \in Call
  BY DEF SessionTypeOK, Call
<1>2. call' = [call EXCEPT ![t] = [call[t] EXCEPT !.pc = pc]]
  BY DEF SessionTypeOK, Goto, Call
<1> QED
  BY <1>1, <1>2 DEF SessionTypeOK

LEMMA TypeHold ==
  ASSUME SessionTypeOK, NEW t \in Threads, NEW pc \in Pcs,
         NEW r \in Lives \cup {NULL}, Hold(t, r, pc)
  PROVE  call' \in [Threads -> Call]
<1>1. [call[t] EXCEPT !.pc = pc, !.r = r] \in Call
  BY DEF SessionTypeOK, Call
<1>2. call' = [call EXCEPT ![t] = [call[t] EXCEPT !.pc = pc, !.r = r]]
  BY DEF SessionTypeOK, Hold, Call
<1> QED
  BY <1>1, <1>2 DEF SessionTypeOK

LEMMA TypeFail ==
  ASSUME SessionTypeOK, NEW f \in Faults, Fail(f)
  PROVE  SessionTypeOK'
  BY DEF SessionTypeOK, Fail, history

LEMMA TypeNativeStep ==
  ASSUME SessionTypeOK, NEW t \in Threads, NativeStep(t)
  PROVE  SessionTypeOK'
<1> USE DEF SessionTypeOK, Call, Pcs, At, history, CurrentRtmp
<1>1. CASE ConnectAlloc(t)
  <2>1. call' \in [Threads -> Call]
    BY <1>1 DEF ConnectAlloc
  <2> QED
    BY <1>1, <2>1 DEF ConnectAlloc
<1>2. CASE ConnectSetup(t)
  <2>1. CASE Fail("null_live")
    BY <2>1, TypeFail DEF Faults
  <2>2. CASE ~Fail("null_live")
    <3>1. lives' \in [Lives -> [rtmp : Lives \cup {NULL}, config : BOOLEAN]]
      BY <1>2, <2>2 DEF ConnectSetup
    <3>2. rtmp' \in [Lives -> RtmpStates]
      BY <1>2, <2>2 DEF ConnectSetup, RtmpStates
    <3>3. call' \in [Threads -> Call]
      BY <1>2, <2>2, TypeGoto, TypeHold DEF ConnectSetup
    <3> QED
      BY <1>2, <2>2, <3>1, <3>2, <3>3 DEF ConnectSetup
  <2> QED
    BY <2>1, <2>2
<1>3. CASE ConnectServer(t)
  BY <1>3, TypeFail, TypeGoto, TypeHold DEF ConnectServer, RtmpStates, Faults
<1>4. CASE ConnectStream(t)
  BY <1>4, TypeFail, TypeGoto DEF ConnectStream, RtmpStates, Faults
<1>5. CASE TeardownClose(t)
  BY <1>5, TypeFail, TypeGoto, TypeHold DEF TeardownClose, RtmpStates, Faults
<1>6. CASE TeardownFree(t)
  BY <1>6, TypeFail, TypeGoto DEF TeardownFree, RtmpStates, Faults
<1>7. CASE TeardownClear(t)
  BY <1>7, TypeFail, TypeGoto, TypeHold DEF TeardownClear
<1>8. CASE SaveConfig(t)
  <2>1. CASE Fail("null_live")
    BY <2>1, TypeFail DEF Faults
  <2>2. CASE ~Fail("null_live")
    <3>1. lives' \in [Lives -> [rtmp : Lives \cup {NULL}, config : BOOLEAN]]
      <4>1. CASE UNCHANGED lives
        BY <4>1
      <4>2. CASE lives' = [lives EXCEPT ![mLive].config = TRUE] /\ mLive \in Lives
        <5>1. [lives[mLive] EXCEPT !.config = TRUE] \in [rtmp : Lives \cup {NULL}, config : BOOLEAN]
          <6>1. lives[mLive] \in [rtmp : Lives \cup {NULL}, config : BOOLEAN]
            BY <4>2
          <6> QED
            BY <6>1
        <5>2. lives' = [lives EXCEPT ![mLive] = [lives[mLive] EXCEPT !.config = TRUE]]
          BY <4>2
        <5> QED
          BY <5>1, <5>2, <4>2
      <4> QED
        BY <1>8, <2>2, <4>1, <4>2 DEF SaveConfig
    <3>2. call' \in [Threads -> Call]
      BY <1>8, <2>2, TypeGoto DEF SaveConfig
    <3> QED
      BY <1>8, <2>2, <3>1, <3>2 DEF SaveConfig
  <2> QED
    BY <2>1, <2>2
<1>9. CASE MakeHeader(t)
  BY <1>9, TypeFail, TypeHold DEF MakeHeader, Faults
<1>10. CASE MakeFrame(t)
  BY <1>10, TypeFail, TypeHold DEF MakeFrame, MakePacket, Faults
<1>11. CASE MakeAudio(t)
  BY <1>11, TypeFail, TypeHold DEF MakeAudio, MakePacket, Faults
<1>12. CASE SendHeader(t)
  BY <1>12, TypeFail, TypeGoto DEF SendHeader, SendPacket, Faults
<1>13. CASE SendFrame(t)
  BY <1>13, TypeFail, TypeGoto DEF SendFrame, SendPacket, Faults
<1>14. CASE SendAudio(t)
  BY <1>14, TypeFail, TypeGoto DEF SendAudio, SendPacket, Faults
<1> QED
  BY <1>1, <1>2, <1>3, <1>4, <1>5, <1>6, <1>7, <1>8, <1>9, <1>10, <1>11,
     <1>12, <1>13, <1>14 DEF NativeStep

LEMMA TypeStep == SessionTypeOK /\ [SessionNext]_sessionVars => SessionTypeOK'
<1> SUFFICES ASSUME SessionTypeOK, [SessionNext]_sessionVars
             PROVE  SessionTypeOK'
  OBVIOUS
<1>1. ASSUME NEW t \in Threads, Return(t)
      PROVE  SessionTypeOK'
  BY <1>1 DEF SessionTypeOK, Return, Call, Idle, Ops, Pcs, Frames, history
<1>2. ASSUME NEW r \in Lives, PeerLost(r)
      PROVE  SessionTypeOK'
  BY <1>2 DEF SessionTypeOK, PeerLost, RtmpStates, history
<1>3. CASE UNCHANGED sessionVars
  BY <1>3 DEF SessionTypeOK, sessionVars
<1> QED
  BY <1>1, <1>2, <1>3, TypeCallIn, TypeNativeStep DEF SessionNext

(* Every variable of the native session keeps its type, whatever the       *)
(* threads call and in whatever order.                                     *)
THEOREM TypeCorrect == SessionSpec => []SessionTypeOK
<1>1. SessionInit => SessionTypeOK
  BY DEF SessionInit, SessionTypeOK, Call, Idle, Ops, Pcs, Frames, RtmpStates
<1> QED
  BY <1>1, TypeStep, PTL DEF SessionSpec

-----------------------------------------------------------------------------
(* How a step changes the call it belongs to.                              *)

(* A step of thread t inside the library.                                  *)
OwnStep(t) ==
  /\ Inside(t) /\ fault = "none"
  /\ \A u \in Threads \ {t} : call'[u] = call[u]
  /\ call'[t].op = call[t].op /\ call'[t].frame = call[t].frame
  /\ told' = told /\ misuse' = misuse

LEMMA GotoCall ==
  ASSUME SessionTypeOK, NEW t \in Threads, NEW pc \in Pcs, Goto(t, pc)
  PROVE  /\ \A u \in Threads \ {t} : call'[u] = call[u]
         /\ call'[t].pc = pc
         /\ call'[t].op = call[t].op /\ call'[t].frame = call[t].frame
         /\ call'[t].own = call[t].own /\ call'[t].r = call[t].r
  BY DEF SessionTypeOK, Goto, Call

LEMMA HoldCall ==
  ASSUME SessionTypeOK, NEW t \in Threads, NEW pc \in Pcs, NEW r, Hold(t, r, pc)
  PROVE  /\ \A u \in Threads \ {t} : call'[u] = call[u]
         /\ call'[t].pc = pc /\ call'[t].r = r
         /\ call'[t].op = call[t].op /\ call'[t].frame = call[t].frame
         /\ call'[t].own = call[t].own
<1>1. call' = [call EXCEPT ![t] = [call[t] EXCEPT !.pc = pc, !.r = r]]
  BY DEF SessionTypeOK, Hold, Call
<1> QED
  BY <1>1 DEF SessionTypeOK, Call

(* A step that finds an undefined access changes nothing else.             *)
LEMMA FailInv ==
  ASSUME SessionInv, NEW f \in Faults, Fail(f),
         Kept({"overlap"}) => f # "freed_rtmp",
         Kept({"overlap", "unopened"}) => f \notin {"null_live", "null_rtmp"},
         Kept({"overlap", "interleaved", "unconfigured"}) => f # "null_sps"
  PROVE  SessionInv'
<1>1. SessionTypeOK'
  BY TypeFail DEF SessionInv
<1>2. (ShapeOK /\ Exclusive /\ OneVideo)'
  BY DEF SessionInv, Fail, history, ShapeOK, Exclusive, OneVideo, Kept, Inside, Changes
<1>3. (Settled /\ Holding /\ NothingLeft /\ NoHandleLeaks)'
  BY DEF SessionInv, Fail, history, Settled, Holding, NothingLeft, NoHandleLeaks,
         Kept, CurrentRtmp
<1>4. (Configured /\ HeaderWritten /\ KeyFollowsHeader)'
  BY DEF SessionInv, Fail, history, Configured, HeaderWritten, KeyFollowsHeader,
         Kept, At
<1>5. (FreedHandleNeedsOverlap /\ NullNeedsUnopened /\ NullSpsNeedsUnconfigured)'
  BY DEF Fail, history, FreedHandleNeedsOverlap, NullNeedsUnopened,
         NullSpsNeedsUnconfigured, Kept
<1> QED
  BY <1>1, <1>2, <1>3, <1>4, <1>5 DEF SessionInv

(* Who is inside the library only changes when a thread enters it.         *)
LEMMA OwnStepExclusive ==
  ASSUME SessionTypeOK, Exclusive, OneVideo, NEW t \in Threads, OwnStep(t)
  PROVE  Exclusive' /\ OneVideo'
<1>1. \A u \in Threads : call'[u].op = call[u].op /\ (Inside(u)' => Inside(u))
  BY DEF OwnStep, Inside
<1> QED
  BY <1>1 DEF OwnStep, Exclusive, OneVideo, Kept, Changes

(* A thread that changes mLive is the only one inside.                     *)
LEMMA ChangerAlone ==
  ASSUME SessionInv, NEW t \in Threads, Inside(t), Changes(call[t].op),
         Kept({"overlap"})
  PROVE  \A u \in Threads \ {t} : call[u].pc \in {"idle", "true", "false"}
  BY DEF SessionInv, Exclusive, Inside, Kept

(* While a thread sends, nobody changes mLive.                             *)
LEMMA SenderSettled ==
  ASSUME SessionInv, NEW t \in Threads, Inside(t), ~Changes(call[t].op),
         Kept({"overlap"})
  PROVE  \A u \in Threads : Inside(u) => ~Changes(call[u].op)
  BY DEF SessionInv, Exclusive, Kept

-----------------------------------------------------------------------------
(* connect.                                                                *)

LEMMA ConnectAllocInv ==
  ASSUME SessionInv, NEW t \in Threads, ConnectAlloc(t)
  PROVE  SessionInv'
<1>0. PICK l \in Lives :
        /\ rtmp[l] = "unused" /\ mLive' = l
        /\ call' = [call EXCEPT ![t].pc = "setup", ![t].own = l]
  BY DEF ConnectAlloc
<1>1. /\ call'[t].pc = "setup" /\ call'[t].own = l
      /\ mLive' = l /\ l \in Lives /\ rtmp[l] = "unused"
      /\ call[t].pc = "alloc" /\ call[t].op = "connect"
      /\ lives' = lives /\ rtmp' = rtmp /\ wire' = wire /\ fault' = fault
  BY <1>0 DEF SessionInv, SessionTypeOK, Call, ConnectAlloc, At
<1>2. OwnStep(t)
  BY <1>0, <1>1 DEF SessionInv, SessionTypeOK, Call, ConnectAlloc, At, OwnStep, history, Inside
<1>3. SessionTypeOK'
  BY TypeNativeStep DEF SessionInv, NativeStep
<1>4. (ShapeOK /\ Exclusive /\ OneVideo)'
  BY <1>1, <1>2, OwnStepExclusive DEF SessionInv, ShapeOK, OwnStep
<1>5. (Settled /\ Holding)'
  BY <1>1, <1>2, ChangerAlone, NullNotLive
     DEF SessionInv, Settled, Holding, OwnStep, Kept, Changes, Inside
<1>6. (NothingLeft /\ NoHandleLeaks)'
  BY <1>1, <1>2, ChangerAlone
     DEF SessionInv, NothingLeft, NoHandleLeaks, OwnStep, Kept, Changes, Inside
<1>7. (Configured /\ HeaderWritten /\ KeyFollowsHeader)'
  BY <1>1, <1>2, ChangerAlone
     DEF SessionInv, Configured, HeaderWritten, KeyFollowsHeader, OwnStep, Kept, Changes,
         Inside, At
<1>8. (FreedHandleNeedsOverlap /\ NullNeedsUnopened /\ NullSpsNeedsUnconfigured)'
  BY <1>1, <1>2 DEF SessionInv, OwnStep, FreedHandleNeedsOverlap, NullNeedsUnopened,
         NullSpsNeedsUnconfigured, Kept
<1> QED
  BY <1>3, <1>4, <1>5, <1>6, <1>7, <1>8 DEF SessionInv

LEMMA ConnectSetupInv ==
  ASSUME SessionInv, NEW t \in Threads, ConnectSetup(t)
  PROVE  SessionInv'
<1>1. CASE Fail("null_live") /\ mLive = NULL
  <2>1. call[t].pc = "setup"
    BY DEF ConnectSetup, At
  <2>2. ~Kept({"overlap"})
    BY <1>1, <2>1 DEF SessionInv, Holding
  <2> QED
    BY <1>1, <2>2, FailInv DEF Faults, Kept
<1>2. CASE mLive # NULL
  <2> DEFINE own == call[t].own
  <2>1. /\ call[t].pc = "setup" /\ call[t].op = "connect"
        /\ call'[t].pc \in {"server", "teardown"}
        /\ call'[t].pc = "server" => call'[t].r = own
        /\ call'[t].own = own
        /\ mLive' = mLive /\ wire' = wire /\ fault' = fault /\ mLive \in Lives
        /\ own \in Lives \cup {NULL}
        /\ lives'[mLive].rtmp = own /\ lives'[mLive].config = lives[mLive].config
        /\ rtmp' = [rtmp EXCEPT ![own] = "init"]
    <3>1. call[t].pc = "setup" /\ call[t].op = "connect" /\ own \in Lives \cup {NULL}
      BY DEF ConnectSetup, At, SessionInv, SessionTypeOK, Call
    <3>2. /\ call'[t].pc \in {"server", "teardown"} /\ call'[t].own = own
          /\ call'[t].pc = "server" => call'[t].r = own
      BY <1>2, GotoCall, HoldCall DEF ConnectSetup, SessionInv, Pcs, Fail
    <3>3. lives'[mLive].rtmp = own /\ lives'[mLive].config = lives[mLive].config
      BY <1>2 DEF ConnectSetup, SessionInv, SessionTypeOK
    <3> QED
      BY <1>2, <3>1, <3>2, <3>3 DEF ConnectSetup, SessionInv, SessionTypeOK
  <2>2. OwnStep(t)
    BY <1>2, <2>1, GotoCall, HoldCall
       DEF ConnectSetup, SessionInv, Pcs, OwnStep, history, Inside
  <2>3. SessionTypeOK'
    BY TypeNativeStep DEF SessionInv, NativeStep
  <2>4. (ShapeOK /\ Exclusive /\ OneVideo)'
    BY <2>1, <2>2, OwnStepExclusive DEF SessionInv, ShapeOK, OwnStep
  <2>5. (Settled /\ Holding)'
    BY <2>1, <2>2, ChangerAlone, NullNotLive
       DEF SessionInv, SessionTypeOK, Settled, Holding, OwnStep, Kept, Changes, Inside, CurrentRtmp
  <2>6. (NothingLeft /\ NoHandleLeaks)'
    BY <2>1, <2>2, ChangerAlone, NullNotLive
       DEF SessionInv, SessionTypeOK, Settled, Holding, NothingLeft, NoHandleLeaks, OwnStep, Kept,
           Changes, Inside, CurrentRtmp
  <2>7. (Configured /\ HeaderWritten /\ KeyFollowsHeader)'
    BY <2>1, <2>2, ChangerAlone, NullNotLive
       DEF SessionInv, SessionTypeOK, Settled, Holding, Configured, HeaderWritten, KeyFollowsHeader, OwnStep,
           Kept, Changes, Inside, At, CurrentRtmp
  <2>8. (FreedHandleNeedsOverlap /\ NullNeedsUnopened /\ NullSpsNeedsUnconfigured)'
    BY <2>1, <2>2 DEF SessionInv, OwnStep, FreedHandleNeedsOverlap, NullNeedsUnopened,
           NullSpsNeedsUnconfigured, Kept
  <2> QED
    BY <2>3, <2>4, <2>5, <2>6, <2>7, <2>8 DEF SessionInv
<1> QED
  BY <1>1, <1>2 DEF ConnectSetup

LEMMA ConnectServerInv ==
  ASSUME SessionInv, NEW t \in Threads, ConnectServer(t)
  PROVE  SessionInv'
<1> DEFINE r == call[t].r
<1>0. call[t].pc = "server" /\ call[t].op = "connect"
  BY DEF ConnectServer, At
<1>1. CASE Fail("freed_rtmp") /\ rtmp[r] = "freed"
  <2>1. ~Kept({"overlap"})
    BY <1>0, <1>1, ChangerAlone DEF SessionInv, Holding, Settled, Inside, Changes
  <2> QED
    BY <1>1, <2>1, FailInv DEF Faults, Kept
<1>2. CASE Fail("null_live") /\ mLive = NULL
  <2>1. ~Kept({"overlap"})
    BY <1>0, <1>2 DEF SessionInv, Holding
  <2> QED
    BY <1>2, <2>1, FailInv DEF Faults, Kept
<1>3. ASSUME NEW s \in {"closed", "connected"}, rtmp[r] # "freed",
             rtmp' = [rtmp EXCEPT ![r] = s],
             \/ s = "closed" /\ Goto(t, "teardown")
             \/ s = "connected" /\ mLive # NULL /\ Hold(t, CurrentRtmp, "stream"),
             UNCHANGED <<mLive, lives, wire, fault, history>>
      PROVE  SessionInv'
  <2>1. /\ call[t].pc = "server" /\ call[t].op = "connect"
        /\ call'[t].pc \in {"stream", "teardown"} /\ call'[t].own = call[t].own
        /\ call'[t].pc = "stream" => mLive # NULL /\ call'[t].r = CurrentRtmp
        /\ mLive' = mLive /\ lives' = lives /\ wire' = wire /\ fault' = fault
        /\ \A l \in Lives : rtmp'[l] = IF l = r THEN s ELSE rtmp[l]
        /\ rtmp[r] # "freed"
    <3>1. call'[t].pc \in {"stream", "teardown"} /\ call'[t].own = call[t].own
      BY <1>3, GotoCall, HoldCall DEF SessionInv, Pcs
    <3>2. call'[t].pc = "stream" => mLive # NULL /\ call'[t].r = CurrentRtmp
      BY <1>3, GotoCall, HoldCall DEF SessionInv, Pcs
    <3> QED
      BY <1>0, <1>3, <3>1, <3>2 DEF SessionInv, SessionTypeOK
  <2>2. OwnStep(t)
    BY <1>0, <1>3, GotoCall, HoldCall
       DEF ConnectServer, SessionInv, Pcs, OwnStep, history, Inside
  <2>3. SessionTypeOK'
    BY TypeNativeStep DEF SessionInv, NativeStep
  <2>4. (ShapeOK /\ Exclusive /\ OneVideo)'
    BY <2>1, <2>2, OwnStepExclusive DEF SessionInv, ShapeOK, OwnStep
  <2>5. (Settled /\ Holding)'
    BY <2>1, <2>2, ChangerAlone, NullNotLive
       DEF SessionInv, SessionTypeOK, Settled, Holding, OwnStep, Kept, Changes, Inside, CurrentRtmp
  <2>6. (NothingLeft /\ NoHandleLeaks)'
    BY <2>1, <2>2, ChangerAlone, NullNotLive
       DEF SessionInv, SessionTypeOK, Settled, Holding, NothingLeft, NoHandleLeaks, OwnStep, Kept,
           Changes, Inside, CurrentRtmp
  <2>7. (Configured /\ HeaderWritten /\ KeyFollowsHeader)'
    BY <2>1, <2>2, ChangerAlone, NullNotLive
       DEF SessionInv, SessionTypeOK, Settled, Holding, Configured, HeaderWritten, KeyFollowsHeader, OwnStep,
           Kept, Changes, Inside, At, CurrentRtmp
  <2>8. (FreedHandleNeedsOverlap /\ NullNeedsUnopened /\ NullSpsNeedsUnconfigured)'
    BY <2>1, <2>2 DEF SessionInv, OwnStep, FreedHandleNeedsOverlap, NullNeedsUnopened,
           NullSpsNeedsUnconfigured, Kept
  <2> QED
    BY <2>3, <2>4, <2>5, <2>6, <2>7, <2>8 DEF SessionInv
<1> QED
  BY <1>1, <1>2, <1>3 DEF ConnectServer

LEMMA ConnectStreamInv ==
  ASSUME SessionInv, NEW t \in Threads, ConnectStream(t)
  PROVE  SessionInv'
<1> DEFINE r == call[t].r
<1>0. call[t].pc = "stream" /\ call[t].op = "connect"
  BY DEF ConnectStream, At
<1>1. CASE Fail("freed_rtmp") /\ r # NULL /\ rtmp[r] = "freed"
  <2>1. ~Kept({"overlap"})
    BY <1>0, <1>1, ChangerAlone DEF SessionInv, Holding, Settled, Inside, Changes
  <2> QED
    BY <1>1, <2>1, FailInv DEF Faults, Kept
<1>2. CASE Fail("null_rtmp") /\ r = NULL
  <2>1. ~Kept({"overlap"})
    BY <1>0, <1>2 DEF SessionInv, Holding
  <2> QED
    BY <1>2, <2>1, FailInv DEF Faults, Kept
<1>3. ASSUME \/ /\ rtmp' = [rtmp EXCEPT ![r] = "open"]
                /\ Goto(t, "true")
             \/ rtmp' = rtmp /\ Goto(t, "teardown"),
             r # NULL, rtmp[r] # "freed",
             UNCHANGED <<mLive, lives, wire, fault, history>>
      PROVE  SessionInv'
  <2>1. /\ call[t].pc = "stream" /\ call[t].op = "connect"
        /\ call'[t].pc \in {"true", "teardown"} /\ call'[t].own = call[t].own
        /\ mLive' = mLive /\ lives' = lives /\ wire' = wire /\ fault' = fault
        /\ \A l \in Lives : rtmp'[l] = rtmp[l] \/ (l = r /\ rtmp'[l] = "open")
        /\ rtmp[r] # "freed"
    <3>1. call'[t].pc \in {"true", "teardown"} /\ call'[t].own = call[t].own
      BY <1>3, GotoCall DEF SessionInv, Pcs
    <3> QED
      BY <1>0, <1>3, <3>1 DEF SessionInv, SessionTypeOK
  <2>2. OwnStep(t)
    BY <1>0, <1>3, GotoCall DEF ConnectStream, SessionInv, Pcs, OwnStep, history, Inside
  <2>3. SessionTypeOK'
    BY TypeNativeStep DEF SessionInv, NativeStep
  <2>4. (ShapeOK /\ Exclusive /\ OneVideo)'
    BY <2>1, <2>2, OwnStepExclusive DEF SessionInv, ShapeOK, OwnStep
  <2>5. (Settled /\ Holding)'
    BY <2>1, <2>2, ChangerAlone, NullNotLive
       DEF SessionInv, SessionTypeOK, Settled, Holding, OwnStep, Kept, Changes, Inside, CurrentRtmp
  <2>6. (NothingLeft /\ NoHandleLeaks)'
    BY <2>1, <2>2, ChangerAlone, NullNotLive
       DEF SessionInv, SessionTypeOK, Settled, Holding, NothingLeft, NoHandleLeaks, OwnStep, Kept,
           Changes, Inside, CurrentRtmp
  <2>7. (Configured /\ HeaderWritten /\ KeyFollowsHeader)'
    BY <2>1, <2>2, ChangerAlone, NullNotLive
       DEF SessionInv, SessionTypeOK, Settled, Holding, Configured, HeaderWritten, KeyFollowsHeader, OwnStep,
           Kept, Changes, Inside, At, CurrentRtmp
  <2>8. (FreedHandleNeedsOverlap /\ NullNeedsUnopened /\ NullSpsNeedsUnconfigured)'
    BY <2>1, <2>2 DEF SessionInv, OwnStep, FreedHandleNeedsOverlap, NullNeedsUnopened,
           NullSpsNeedsUnconfigured, Kept
  <2> QED
    BY <2>3, <2>4, <2>5, <2>6, <2>7, <2>8 DEF SessionInv
<1> QED
  BY <1>1, <1>2, <1>3 DEF ConnectStream

-----------------------------------------------------------------------------
(* The teardown.                                                           *)

LEMMA TeardownCloseInv ==
  ASSUME SessionInv, NEW t \in Threads, TeardownClose(t)
  PROVE  SessionInv'
<1>0. call[t].pc = "teardown" /\ call[t].op \in {"connect", "close"}
  BY DEF TeardownClose, SessionInv, SessionTypeOK, ShapeOK, Call, Ops
<1>1. Kept({"overlap"}) /\ mLive # NULL => CurrentRtmp = mLive /\ rtmp[mLive] # "freed"
  BY <1>0, ChangerAlone DEF SessionInv, Settled, Inside, Changes
<1>2. CASE Fail("null_rtmp") /\ mLive # NULL /\ CurrentRtmp = NULL
  BY <1>1, <1>2, FailInv DEF Faults, Kept
<1>3. CASE Fail("freed_rtmp") /\ mLive # NULL /\ rtmp[CurrentRtmp] = "freed"
  BY <1>1, <1>3, FailInv DEF Faults, Kept
<1>4. CASE Fail("recursion")
  BY <1>4, FailInv DEF Faults
<1>5. CASE mLive = NULL /\ Goto(t, "false") /\ UNCHANGED <<mLive, lives, rtmp, wire, fault, history>>
  <2>1. /\ call[t].pc = "teardown" /\ call[t].op \in {"connect", "close"}
        /\ call'[t].pc = "false" /\ mLive = NULL
        /\ mLive' = mLive /\ lives' = lives /\ rtmp' = rtmp /\ wire' = wire /\ fault' = fault
    BY <1>0, <1>5, GotoCall DEF SessionInv, Pcs
  <2>2. OwnStep(t)
    BY <1>0, <1>5, GotoCall DEF TeardownClose, SessionInv, Pcs, OwnStep, history, Inside
  <2>3. SessionTypeOK'
    BY TypeNativeStep DEF SessionInv, NativeStep
  <2>4. (ShapeOK /\ Exclusive /\ OneVideo)'
    BY <2>1, <2>2, OwnStepExclusive DEF SessionInv, ShapeOK, OwnStep
  <2>5. (Settled /\ Holding)'
    BY <2>1, <2>2, ChangerAlone, NullNotLive
       DEF SessionInv, SessionTypeOK, Settled, Holding, OwnStep, Kept, Changes, Inside, CurrentRtmp
  <2>6. (NothingLeft /\ NoHandleLeaks)'
    BY <2>1, <2>2, ChangerAlone, NullNotLive
       DEF SessionInv, SessionTypeOK, Settled, Holding, NothingLeft, NoHandleLeaks, OwnStep, Kept,
           Changes, Inside, CurrentRtmp
  <2>7. (Configured /\ HeaderWritten /\ KeyFollowsHeader)'
    BY <2>1, <2>2, ChangerAlone, NullNotLive
       DEF SessionInv, SessionTypeOK, Settled, Holding, Configured, HeaderWritten, KeyFollowsHeader, OwnStep,
           Kept, Changes, Inside, At, CurrentRtmp
  <2>8. (FreedHandleNeedsOverlap /\ NullNeedsUnopened /\ NullSpsNeedsUnconfigured)'
    BY <2>1, <2>2 DEF SessionInv, OwnStep, FreedHandleNeedsOverlap, NullNeedsUnopened,
           NullSpsNeedsUnconfigured, Kept
  <2> QED
    BY <2>3, <2>4, <2>5, <2>6, <2>7, <2>8 DEF SessionInv
<1>6. ASSUME mLive # NULL, CurrentRtmp # NULL, rtmp[CurrentRtmp] # "freed",
             rtmp' = [rtmp EXCEPT ![CurrentRtmp] = "closed"], Goto(t, "free"),
             UNCHANGED <<mLive, lives, wire, fault, history>>
      PROVE  SessionInv'
  <2>1. /\ call[t].pc = "teardown" /\ call[t].op \in {"connect", "close"}
        /\ call'[t].pc = "free" /\ call'[t].own = call[t].own
        /\ mLive # NULL /\ mLive' = mLive /\ lives' = lives /\ wire' = wire /\ fault' = fault
        /\ \A l \in Lives : rtmp'[l] = IF l = CurrentRtmp THEN "closed" ELSE rtmp[l]
    BY <1>0, <1>6, GotoCall DEF SessionInv, SessionTypeOK, Pcs
  <2>2. OwnStep(t)
    BY <1>0, <1>6, GotoCall DEF TeardownClose, SessionInv, Pcs, OwnStep, history, Inside
  <2>3. SessionTypeOK'
    BY TypeNativeStep DEF SessionInv, NativeStep
  <2>4. (ShapeOK /\ Exclusive /\ OneVideo)'
    BY <2>1, <2>2, OwnStepExclusive DEF SessionInv, ShapeOK, OwnStep
  <2>5. (Settled /\ Holding)'
    BY <2>1, <2>2, ChangerAlone, NullNotLive
       DEF SessionInv, SessionTypeOK, Settled, Holding, OwnStep, Kept, Changes, Inside, CurrentRtmp
  <2>6. (NothingLeft /\ NoHandleLeaks)'
    BY <2>1, <2>2, ChangerAlone, NullNotLive
       DEF SessionInv, SessionTypeOK, Settled, Holding, NothingLeft, NoHandleLeaks, OwnStep, Kept,
           Changes, Inside, CurrentRtmp
  <2>7. (Configured /\ HeaderWritten /\ KeyFollowsHeader)'
    BY <2>1, <2>2, ChangerAlone, NullNotLive
       DEF SessionInv, SessionTypeOK, Settled, Holding, Configured, HeaderWritten, KeyFollowsHeader, OwnStep,
           Kept, Changes, Inside, At, CurrentRtmp
  <2>8. (FreedHandleNeedsOverlap /\ NullNeedsUnopened /\ NullSpsNeedsUnconfigured)'
    BY <2>1, <2>2 DEF SessionInv, OwnStep, FreedHandleNeedsOverlap, NullNeedsUnopened,
           NullSpsNeedsUnconfigured, Kept
  <2> QED
    BY <2>3, <2>4, <2>5, <2>6, <2>7, <2>8 DEF SessionInv
<1> QED
  BY <1>2, <1>3, <1>4, <1>5, <1>6 DEF TeardownClose

LEMMA TeardownFreeInv ==
  ASSUME SessionInv, NEW t \in Threads, TeardownFree(t)
  PROVE  SessionInv'
<1>0. call[t].pc = "free" /\ call[t].op \in {"connect", "close"}
  BY DEF TeardownFree, SessionInv, SessionTypeOK, ShapeOK, Call, Ops
<1>1. Kept({"overlap"}) => mLive # NULL /\ CurrentRtmp = mLive /\ rtmp[mLive] # "freed"
  BY <1>0, ChangerAlone DEF SessionInv, Holding, Settled, Inside, Changes
<1>2. CASE Fail("null_live") /\ mLive = NULL
  BY <1>1, <1>2, FailInv DEF Faults, Kept
<1>3. CASE Fail("freed_rtmp") /\ rtmp[CurrentRtmp] = "freed"
  BY <1>1, <1>3, FailInv DEF Faults, Kept
<1>4. ASSUME mLive # NULL,
             \/ CurrentRtmp = NULL /\ UNCHANGED <<rtmp, wire>>
             \/ /\ CurrentRtmp # NULL
                /\ rtmp' = [rtmp EXCEPT ![CurrentRtmp] = "freed"]
                /\ wire' = [wire EXCEPT ![CurrentRtmp] = "none"],
             Goto(t, "clear"), UNCHANGED <<mLive, lives, fault, history>>
      PROVE  SessionInv'
  <2>1. /\ call[t].pc = "free" /\ call[t].op \in {"connect", "close"}
        /\ call'[t].pc = "clear"
        /\ mLive # NULL /\ mLive' = mLive /\ lives' = lives /\ fault' = fault
        /\ \A l \in Lives : rtmp'[l] = IF l = CurrentRtmp THEN "freed" ELSE rtmp[l]
        /\ \A l \in Lives : wire'[l] = IF l = CurrentRtmp THEN "none" ELSE wire[l]
    BY <1>0, <1>4, GotoCall, NullNotLive DEF SessionInv, SessionTypeOK, Pcs
  <2>2. OwnStep(t)
    BY <1>0, <1>4, GotoCall DEF TeardownFree, SessionInv, Pcs, OwnStep, history, Inside
  <2>3. SessionTypeOK'
    BY TypeNativeStep DEF SessionInv, NativeStep
  <2>4. (ShapeOK /\ Exclusive /\ OneVideo)'
    BY <2>1, <2>2, OwnStepExclusive DEF SessionInv, ShapeOK, OwnStep
  <2>5. (Settled /\ Holding)'
    BY <2>1, <2>2, <1>1, ChangerAlone, NullNotLive
       DEF SessionInv, SessionTypeOK, Settled, Holding, OwnStep, Kept, Changes, Inside, CurrentRtmp
  <2>6. (NothingLeft /\ NoHandleLeaks)'
    BY <2>1, <2>2, <1>1, ChangerAlone, NullNotLive
       DEF SessionInv, SessionTypeOK, Settled, Holding, NothingLeft, NoHandleLeaks, OwnStep, Kept,
           Changes, Inside, CurrentRtmp
  <2>7. (Configured /\ HeaderWritten /\ KeyFollowsHeader)'
    BY <2>1, <2>2, <1>1, ChangerAlone, NullNotLive
       DEF SessionInv, SessionTypeOK, Settled, Holding, Configured, HeaderWritten, KeyFollowsHeader, OwnStep,
           Kept, Changes, Inside, At, CurrentRtmp
  <2>8. (FreedHandleNeedsOverlap /\ NullNeedsUnopened /\ NullSpsNeedsUnconfigured)'
    BY <2>1, <2>2 DEF SessionInv, OwnStep, FreedHandleNeedsOverlap, NullNeedsUnopened,
           NullSpsNeedsUnconfigured, Kept
  <2> QED
    BY <2>3, <2>4, <2>5, <2>6, <2>7, <2>8 DEF SessionInv
<1> QED
  BY <1>2, <1>3, <1>4 DEF TeardownFree

LEMMA TeardownClearInv ==
  ASSUME SessionInv, NEW t \in Threads, TeardownClear(t)
  PROVE  SessionInv'
<1>1. /\ call[t].pc = "clear" /\ call'[t].pc = "false"
      /\ call[t].op \in {"connect", "close"}
  BY GotoCall DEF SessionInv, SessionTypeOK, ShapeOK, TeardownClear, Pcs, Call, Ops
<1>2. OwnStep(t)
  BY <1>1, GotoCall DEF SessionInv, TeardownClear, Pcs, OwnStep, history, Inside
<1>3. SessionTypeOK'
  BY TypeNativeStep DEF SessionInv, NativeStep
<1>4. (ShapeOK /\ Exclusive /\ OneVideo)'
  BY <1>1, <1>2, OwnStepExclusive DEF SessionInv, ShapeOK, OwnStep
<1>5. (Settled /\ Holding)'
  BY <1>1, <1>2, ChangerAlone
     DEF SessionInv, Settled, Holding, OwnStep, Kept, Changes, Inside, TeardownClear
<1>6. (NothingLeft /\ NoHandleLeaks)'
  BY <1>1, <1>2, ChangerAlone
     DEF SessionInv, NothingLeft, NoHandleLeaks, Holding, OwnStep, Kept, Changes, Inside,
         TeardownClear
<1>7. (Configured /\ HeaderWritten /\ KeyFollowsHeader)'
  BY <1>1, <1>2, ChangerAlone, NullNotLive
     DEF SessionInv, SessionTypeOK, Configured, HeaderWritten, KeyFollowsHeader, OwnStep,
         Kept, Changes, Inside, TeardownClear, At
<1>8. (FreedHandleNeedsOverlap /\ NullNeedsUnopened /\ NullSpsNeedsUnconfigured)'
  BY <1>2 DEF SessionInv, OwnStep, TeardownClear, FreedHandleNeedsOverlap, NullNeedsUnopened,
         NullSpsNeedsUnconfigured, Kept
<1> QED
  BY <1>3, <1>4, <1>5, <1>6, <1>7, <1>8 DEF SessionInv

-----------------------------------------------------------------------------
(* sendVideo and sendAudio.                                                *)

(* A thread that is about to read through mLive finds a session, unless it *)
(* entered without one.                                                    *)
LEMMA SenderPointer ==
  ASSUME SessionInv, NEW t \in Threads, call[t].pc \in {"config", "header", "frame", "audio"},
         Kept({"overlap"}), mLive # NULL
  PROVE  CurrentRtmp = mLive /\ rtmp[mLive] \notin {"unused", "freed"}
<1>1. Inside(t) /\ ~Changes(call[t].op)
  BY DEF SessionInv, SessionTypeOK, ShapeOK, Call, Ops, Inside, Changes
<1>2. \A u \in Threads : call[u].pc \notin {"setup", "clear"}
  BY <1>1, SenderSettled DEF SessionInv, SessionTypeOK, ShapeOK, Call, Ops, Inside, Changes
<1> QED
  BY <1>2 DEF SessionInv, Settled

LEMMA HeldPointer ==
  ASSUME SessionInv, NEW t \in Threads, call[t].pc \in {"sendHeader", "sendFrame", "sendMsg"},
         Kept({"overlap"})
  PROVE  /\ mLive # NULL /\ call[t].r = mLive
         /\ CurrentRtmp = mLive /\ rtmp[mLive] \notin {"unused", "freed"}
<1>1. Inside(t) /\ ~Changes(call[t].op)
  BY DEF SessionInv, SessionTypeOK, ShapeOK, Call, Ops, Inside, Changes
<1>2. \A u \in Threads : call[u].pc \notin {"setup", "clear"}
  BY <1>1, SenderSettled DEF SessionInv, SessionTypeOK, ShapeOK, Call, Ops, Inside, Changes
<1> QED
  BY <1>2 DEF SessionInv, Settled, Holding

LEMMA SaveConfigInv ==
  ASSUME SessionInv, NEW t \in Threads, SaveConfig(t)
  PROVE  SessionInv'
<1>0. call[t].pc = "config" /\ call[t].op = "sendVideo"
  BY DEF SaveConfig, At
<1>1. CASE Fail("null_live") /\ mLive = NULL
  BY <1>0, <1>1, FailInv DEF SessionInv, Holding, Faults, Kept
<1>2. ASSUME mLive # NULL,
             \/ lives' = [lives EXCEPT ![mLive].config = TRUE] /\ Goto(t, "false")
             \/ lives[mLive].config /\ lives' = lives /\ Goto(t, "frame"),
             UNCHANGED <<mLive, rtmp, wire, fault, history>>
      PROVE  SessionInv'
  <2>1. /\ call[t].pc = "config" /\ call[t].op = "sendVideo" /\ call[t].frame = "config"
        /\ call'[t].pc \in {"false", "frame"} /\ call'[t].r = call[t].r
        /\ mLive # NULL /\ mLive \in Lives
        /\ mLive' = mLive /\ rtmp' = rtmp /\ wire' = wire /\ fault' = fault
        /\ \A l \in Lives : lives'[l].rtmp = lives[l].rtmp
        /\ lives'[mLive].config = TRUE
    <3>1. \A l \in Lives : lives'[l].rtmp = lives[l].rtmp
      BY <1>2 DEF SessionInv, SessionTypeOK
    <3>2. lives'[mLive].config = TRUE
      BY <1>2 DEF SessionInv, SessionTypeOK
    <3>3. call'[t].pc \in {"false", "frame"} /\ call'[t].r = call[t].r
      BY <1>2, GotoCall DEF SessionInv, Pcs
    <3> QED
      BY <1>0, <1>2, <3>1, <3>2, <3>3 DEF SessionInv, SessionTypeOK, ShapeOK
  <2>2. OwnStep(t)
    BY <1>0, <1>2, GotoCall DEF SaveConfig, SessionInv, Pcs, OwnStep, history, Inside
  <2>3. SessionTypeOK'
    BY TypeNativeStep DEF SessionInv, NativeStep
  <2>4. (ShapeOK /\ Exclusive /\ OneVideo)'
    BY <2>1, <2>2, OwnStepExclusive DEF SessionInv, ShapeOK, OwnStep
  <2>5. (Settled /\ Holding)'
    BY <2>1, <2>2, SenderSettled, NullNotLive
       DEF SessionInv, SessionTypeOK, Settled, Holding, OwnStep, Kept, Changes, Inside, CurrentRtmp
  <2>6. (NothingLeft /\ NoHandleLeaks)'
    <3>1. NothingLeft'
      BY <2>1, <2>2 DEF SessionInv, NothingLeft, OwnStep, Kept
    <3>2. NoHandleLeaks'
      BY <2>1, <2>2 DEF SessionInv, SessionTypeOK, NoHandleLeaks, OwnStep, Kept, CurrentRtmp
    <3> QED
      BY <3>1, <3>2
  <2>7. (Configured /\ HeaderWritten /\ KeyFollowsHeader)'
    BY <2>1, <2>2, SenderSettled, NullNotLive
       DEF SessionInv, SessionTypeOK, Settled, Holding, Configured, HeaderWritten, KeyFollowsHeader, OwnStep,
           Kept, Changes, Inside, At, CurrentRtmp
  <2>8. (FreedHandleNeedsOverlap /\ NullNeedsUnopened /\ NullSpsNeedsUnconfigured)'
    BY <2>1, <2>2 DEF SessionInv, OwnStep, FreedHandleNeedsOverlap, NullNeedsUnopened,
           NullSpsNeedsUnconfigured, Kept
  <2> QED
    BY <2>3, <2>4, <2>5, <2>6, <2>7, <2>8 DEF SessionInv
<1> QED
  BY <1>1, <1>2 DEF SaveConfig

LEMMA MakeHeaderInv ==
  ASSUME SessionInv, NEW t \in Threads, MakeHeader(t)
  PROVE  SessionInv'
<1>0. call[t].pc = "header" /\ call[t].op = "sendVideo"
  BY DEF MakeHeader, At
<1>1. CASE Fail("null_live") /\ mLive = NULL
  BY <1>0, <1>1, FailInv DEF SessionInv, Holding, Faults, Kept
<1>2. CASE Fail("null_sps") /\ mLive # NULL /\ ~lives[mLive].config
  <2>1. ~Kept({"overlap", "interleaved", "unconfigured"})
    BY <1>0, <1>2 DEF SessionInv, Configured, OneVideo, Kept, At, Inside
  <2> QED
    BY <1>2, <2>1, FailInv DEF Faults
<1>3. ASSUME mLive # NULL, Hold(t, CurrentRtmp, "sendHeader"),
             UNCHANGED <<mLive, lives, rtmp, wire, fault, history>>
      PROVE  SessionInv'
  <2>1. /\ call[t].pc = "header" /\ call[t].op = "sendVideo"
        /\ call'[t].pc = "sendHeader" /\ call'[t].r = CurrentRtmp /\ mLive # NULL
        /\ mLive' = mLive /\ lives' = lives /\ rtmp' = rtmp /\ wire' = wire /\ fault' = fault
    BY <1>0, <1>3, HoldCall DEF SessionInv, Pcs
  <2>2. OwnStep(t)
    BY <1>0, <1>3, HoldCall DEF MakeHeader, SessionInv, Pcs, OwnStep, history, Inside
  <2>3. SessionTypeOK'
    BY TypeNativeStep DEF SessionInv, NativeStep
  <2>4. (ShapeOK /\ Exclusive /\ OneVideo)'
    BY <2>1, <2>2, OwnStepExclusive DEF SessionInv, ShapeOK, OwnStep
  <2>5. (Settled /\ Holding)'
    BY <2>1, <2>2, SenderPointer, SenderSettled, NullNotLive
       DEF SessionInv, SessionTypeOK, Settled, Holding, OwnStep, Kept, Changes, Inside, CurrentRtmp
  <2>6. (NothingLeft /\ NoHandleLeaks)'
    BY <2>1, <2>2, SenderPointer, SenderSettled, NullNotLive
       DEF SessionInv, SessionTypeOK, Settled, Holding, NothingLeft, NoHandleLeaks, OwnStep, Kept,
           Changes, Inside, CurrentRtmp
  <2>7. (Configured /\ HeaderWritten /\ KeyFollowsHeader)'
    BY <2>1, <2>2, SenderPointer, SenderSettled, NullNotLive
       DEF SessionInv, SessionTypeOK, Settled, Holding, Configured, HeaderWritten, KeyFollowsHeader, OwnStep,
           Kept, Changes, Inside, At, CurrentRtmp
  <2>8. (FreedHandleNeedsOverlap /\ NullNeedsUnopened /\ NullSpsNeedsUnconfigured)'
    BY <2>1, <2>2 DEF SessionInv, OwnStep, FreedHandleNeedsOverlap, NullNeedsUnopened,
           NullSpsNeedsUnconfigured, Kept
  <2> QED
    BY <2>3, <2>4, <2>5, <2>6, <2>7, <2>8 DEF SessionInv
<1> QED
  BY <1>1, <1>2, <1>3 DEF MakeHeader

LEMMA MakePacketInv ==
  ASSUME SessionInv, NEW t \in Threads, MakeFrame(t) \/ MakeAudio(t)
  PROVE  SessionInv'
<1>0. \/ call[t].pc = "frame" /\ call[t].op = "sendVideo"
      \/ call[t].pc = "audio" /\ call[t].op = "sendAudio"
  BY DEF MakeFrame, MakeAudio, MakePacket, At
<1>1. CASE Fail("null_live") /\ mLive = NULL
  BY <1>0, <1>1, FailInv DEF SessionInv, Holding, Faults, Kept
<1>2. CASE Fail("null_rtmp") /\ mLive # NULL /\ CurrentRtmp = NULL
  BY <1>0, <1>2, FailInv, SenderPointer DEF Faults, Kept
<1>3. CASE Fail("freed_rtmp") /\ mLive # NULL /\ rtmp[CurrentRtmp] = "freed"
  BY <1>0, <1>3, FailInv, SenderPointer DEF Faults, Kept
<1>4. ASSUME mLive # NULL,
             \/ call[t].pc = "frame" /\ Hold(t, CurrentRtmp, "sendFrame")
             \/ call[t].pc = "audio" /\ Hold(t, CurrentRtmp, "sendMsg"),
             UNCHANGED <<mLive, lives, rtmp, wire, fault, history>>
      PROVE  SessionInv'
  <2>1. /\ \/ call[t].pc = "frame" /\ call[t].op = "sendVideo" /\ call'[t].pc = "sendFrame"
           \/ call[t].pc = "audio" /\ call[t].op = "sendAudio" /\ call'[t].pc = "sendMsg"
        /\ call'[t].r = CurrentRtmp /\ mLive # NULL
        /\ mLive' = mLive /\ lives' = lives /\ rtmp' = rtmp /\ wire' = wire /\ fault' = fault
    BY <1>0, <1>4, HoldCall DEF SessionInv, Pcs
  <2>2. OwnStep(t)
    BY <1>0, <1>4, HoldCall
       DEF MakeFrame, MakeAudio, MakePacket, SessionInv, Pcs, OwnStep, history, Inside
  <2>3. SessionTypeOK'
    BY TypeNativeStep DEF SessionInv, NativeStep
  <2>4. (ShapeOK /\ Exclusive /\ OneVideo)'
    BY <2>1, <2>2, OwnStepExclusive DEF SessionInv, ShapeOK, OwnStep
  <2>5. (Settled /\ Holding)'
    BY <2>1, <2>2, SenderPointer, SenderSettled, NullNotLive
       DEF SessionInv, SessionTypeOK, Settled, Holding, OwnStep, Kept, Changes, Inside, CurrentRtmp
  <2>6. (NothingLeft /\ NoHandleLeaks)'
    BY <2>1, <2>2, SenderPointer, SenderSettled, NullNotLive
       DEF SessionInv, SessionTypeOK, Settled, Holding, NothingLeft, NoHandleLeaks, OwnStep, Kept,
           Changes, Inside, CurrentRtmp
  <2>7. (Configured /\ HeaderWritten /\ KeyFollowsHeader)'
    BY <2>1, <2>2, SenderPointer, SenderSettled, NullNotLive
       DEF SessionInv, SessionTypeOK, Settled, Holding, Configured, HeaderWritten, KeyFollowsHeader, OwnStep,
           Kept, Changes, Inside, At, CurrentRtmp
  <2>8. (FreedHandleNeedsOverlap /\ NullNeedsUnopened /\ NullSpsNeedsUnconfigured)'
    BY <2>1, <2>2 DEF SessionInv, OwnStep, FreedHandleNeedsOverlap, NullNeedsUnopened,
           NullSpsNeedsUnconfigured, Kept
  <2> QED
    BY <2>3, <2>4, <2>5, <2>6, <2>7, <2>8 DEF SessionInv
<1> QED
  BY <1>0, <1>1, <1>2, <1>3, <1>4 DEF MakeFrame, MakeAudio, MakePacket, At

LEMMA SendPacketInv ==
  ASSUME SessionInv, NEW t \in Threads, SendHeader(t) \/ SendFrame(t) \/ SendAudio(t)
  PROVE  SessionInv'
<1> DEFINE r == call[t].r
<1>0. \/ call[t].pc = "sendHeader" /\ call[t].op = "sendVideo"
      \/ call[t].pc = "sendFrame" /\ call[t].op = "sendVideo"
      \/ call[t].pc = "sendMsg" /\ call[t].op = "sendAudio"
  BY DEF SendHeader, SendFrame, SendAudio, SendPacket, SessionInv, SessionTypeOK, ShapeOK,
         Call, Ops
<1>1. CASE Fail("null_rtmp") /\ r = NULL
  BY <1>0, <1>1, FailInv, HeldPointer DEF Faults, Kept
<1>2. CASE Fail("freed_rtmp") /\ rtmp[r] = "freed"
  BY <1>0, <1>2, FailInv, HeldPointer DEF Faults, Kept
<1>3. CASE Fail("recursion")
  BY <1>3, FailInv DEF Faults
<1>4. ASSUME r # NULL,
             \/ call[t].pc = "sendHeader" /\ Goto(t, "frame")
             \/ call[t].pc # "sendHeader" /\ Goto(t, "false"),
             \/ rtmp[r] \in {"connected", "open"} /\ wire'[r] = "header"
             \/ rtmp[r] \notin {"connected", "open"} /\ wire' = wire
             \/ call[t].pc # "sendHeader",
             call[t].op = "sendAudio" => wire' = wire,
             UNCHANGED <<mLive, lives, rtmp, fault, history>>
      PROVE  SessionInv'
  <2>1. /\ \/ /\ call[t].pc = "sendHeader" /\ call[t].op = "sendVideo" /\ call'[t].pc = "frame"
              /\ rtmp[r] \in {"connected", "open"} => wire'[r] = "header"
           \/ /\ call[t].pc = "sendFrame" /\ call[t].op = "sendVideo" /\ call'[t].pc = "false"
           \/ /\ call[t].pc = "sendMsg" /\ call[t].op = "sendAudio" /\ call'[t].pc = "false"
              /\ wire' = wire
        /\ mLive' = mLive /\ lives' = lives /\ rtmp' = rtmp /\ fault' = fault
    BY <1>0, <1>4, GotoCall DEF SessionInv, Pcs
  <2>2. OwnStep(t)
    BY <1>0, <1>4, GotoCall
       DEF SendHeader, SendFrame, SendAudio, SendPacket, SessionInv, Pcs, OwnStep, history, Inside
  <2>3. SessionTypeOK'
    BY TypeNativeStep DEF SessionInv, NativeStep
  <2>4. (ShapeOK /\ Exclusive /\ OneVideo)'
    BY <2>1, <2>2, OwnStepExclusive DEF SessionInv, ShapeOK, OwnStep
  <2>5. (Settled /\ Holding)'
    BY <2>1, <2>2, HeldPointer, SenderSettled, NullNotLive
       DEF SessionInv, SessionTypeOK, Settled, Holding, OwnStep, Kept, Changes, Inside, CurrentRtmp
  <2>6. (NothingLeft /\ NoHandleLeaks)'
    BY <2>1, <2>2, HeldPointer, SenderSettled, NullNotLive
       DEF SessionInv, SessionTypeOK, Settled, Holding, NothingLeft, NoHandleLeaks, OwnStep, Kept,
           Changes, Inside, CurrentRtmp
  <2>7. (Configured /\ HeaderWritten /\ KeyFollowsHeader)'
    <3>1. Configured'
      BY <2>1, <2>2 DEF SessionInv, Configured, OwnStep, Kept, At
    <3>2. call[t].op = "sendVideo" /\ Kept({"overlap", "interleaved"}) =>
            \A u \in Threads \ {t} : ~(Inside(u) /\ call[u].op = "sendVideo")
      BY <2>2 DEF SessionInv, OneVideo, OwnStep
    <3>3. Kept({"overlap"}) => r = mLive /\ CurrentRtmp = mLive
      BY <1>0, HeldPointer
    <3>4. HeaderWritten'
      <4>1. CASE call[t].op = "sendVideo"
        BY <2>1, <2>2, <3>2, <3>3, <4>1
           DEF SessionInv, HeaderWritten, OwnStep, Kept, At, Inside
      <4>2. CASE call[t].op = "sendAudio"
        BY <2>1, <2>2, <4>2 DEF SessionInv, HeaderWritten, OwnStep, Kept, At
      <4> QED
        BY <1>0, <4>1, <4>2
    <3>5. KeyFollowsHeader'
      <4>1. CASE call[t].op = "sendVideo"
        BY <2>1, <2>2, <3>2, <4>1
           DEF SessionInv, KeyFollowsHeader, OwnStep, Kept, At, Inside
      <4>2. CASE call[t].op = "sendAudio"
        BY <2>1, <2>2, <4>2 DEF SessionInv, KeyFollowsHeader, OwnStep, Kept, At
      <4> QED
        BY <1>0, <4>1, <4>2
    <3> QED
      BY <3>1, <3>4, <3>5
  <2>8. (FreedHandleNeedsOverlap /\ NullNeedsUnopened /\ NullSpsNeedsUnconfigured)'
    BY <2>1, <2>2 DEF SessionInv, OwnStep, FreedHandleNeedsOverlap, NullNeedsUnopened,
           NullSpsNeedsUnconfigured, Kept
  <2> QED
    BY <2>3, <2>4, <2>5, <2>6, <2>7, <2>8 DEF SessionInv
<1>5. CASE SendHeader(t) /\ UNCHANGED <<mLive, lives, rtmp, fault, history>>
  BY <1>0, <1>1, <1>2, <1>3, <1>4, <1>5
     DEF SendHeader, SendPacket, Messages, SessionInv, SessionTypeOK, Call
<1>6. CASE SendFrame(t) /\ UNCHANGED <<mLive, lives, rtmp, fault, history>>
  BY <1>0, <1>1, <1>2, <1>3, <1>4, <1>6 DEF SendFrame, SendPacket
<1>7. CASE SendAudio(t) /\ UNCHANGED <<mLive, lives, rtmp, fault, history>>
  BY <1>0, <1>1, <1>2, <1>3, <1>4, <1>7 DEF SendAudio, SendPacket, Messages, Frames
<1> QED
  BY <1>1, <1>2, <1>3, <1>5, <1>6, <1>7 DEF SendHeader, SendFrame, SendAudio, SendPacket

-----------------------------------------------------------------------------
(* Entering and leaving the library, and the peer.                         *)

LEMMA EnterInv ==
  ASSUME SessionInv, NEW t \in Threads,
         NEW op \in Ops, NEW pc \in Pcs, NEW frame \in Frames,
         Enter(t, op, pc, frame),
         \/ op = "connect" /\ pc = "alloc"
         \/ op = "close" /\ pc = "teardown"
         \/ op = "sendVideo" /\ frame = "config" /\ pc = "config"
         \/ op = "sendVideo" /\ frame = "key" /\ pc = "header"
         \/ op = "sendVideo" /\ frame = "inter" /\ pc = "frame"
         \/ op = "sendAudio" /\ pc = "audio"
  PROVE  SessionInv'
<1>1. /\ call[t].pc = "idle"
      /\ call'[t].op = op /\ call'[t].pc = pc /\ call'[t].frame = frame
      /\ \A u \in Threads \ {t} : call'[u] = call[u]
      /\ mLive' = mLive /\ lives' = lives /\ rtmp' = rtmp /\ wire' = wire /\ fault' = fault
  BY DEF SessionInv, SessionTypeOK, Enter, Idle
<1>2. /\ \A m \in Misuses : m \in misuse => m \in misuse'
      /\ told' = told \cup {l \in Lives : l = mLive /\ op = "sendVideo" /\ frame = "config"}
  BY DEF Enter
<1>3. "overlap" \notin misuse' =>
        \A u \in Threads : Inside(u) => ~Changes(op) /\ ~Changes(call[u].op)
  BY DEF Enter, Misused, Misuses
<1>4. "interleaved" \notin misuse' /\ op = "sendVideo" =>
        \A u \in Threads : Inside(u) => call[u].op # "sendVideo"
  BY DEF Enter, Misused, Misuses
<1>5. /\ "reconnect" \notin misuse' /\ op = "connect" => mLive = NULL
      /\ "unopened" \notin misuse' /\ ~Changes(op) => mLive # NULL
      /\ "unconfigured" \notin misuse' /\ op = "sendVideo" /\ frame = "key" =>
           mLive = NULL \/ mLive \in told
  BY DEF Enter, Misused, Misuses
<1>6. SessionTypeOK'
  BY TypeEnter DEF SessionInv
<1>7. (ShapeOK /\ Exclusive /\ OneVideo)'
  <2>1. ShapeOK'
    BY <1>1 DEF SessionInv, ShapeOK
  <2>2. Exclusive'
    BY <1>1, <1>2, <1>3 DEF SessionInv, Exclusive, Kept, Inside, Changes, Misuses
  <2>3. OneVideo'
    BY <1>1, <1>2, <1>4 DEF SessionInv, OneVideo, Kept, Inside, Misuses
  <2> QED
    BY <2>1, <2>2, <2>3
<1>8. (Settled /\ Holding)'
  BY <1>1, <1>2, <1>3, <1>5
     DEF SessionInv, Settled, Holding, Kept, Inside, Changes, Misuses, CurrentRtmp
<1>9. (NothingLeft /\ NoHandleLeaks)'
  BY <1>1, <1>2, <1>3, <1>5
     DEF SessionInv, NothingLeft, NoHandleLeaks, Kept, Inside, Changes, Misuses, CurrentRtmp
<1>10. Configured'
  <2>1. Kept({"overlap"})' /\ ~Changes(op) =>
          \A u \in Threads : call[u].pc \notin {"setup", "clear"}
    BY <1>3 DEF SessionInv, SessionTypeOK, ShapeOK, Call, Ops, Inside, Changes, Kept
  <2>2. ASSUME Kept({"overlap"})', NEW l \in told'
        PROVE  rtmp'[l] # "unused"
    <3>1. Kept({"overlap"})
      BY <1>2, <2>2 DEF Kept, Misuses
    <3>2. CASE l \in told
      BY <1>1, <3>1, <3>2 DEF SessionInv, Configured
    <3>3. CASE l = mLive /\ l \in Lives /\ op = "sendVideo"
      BY <1>1, <2>1, <2>2, <3>1, <3>3, NullNotLive DEF SessionInv, Settled, Changes
    <3> QED
      BY <1>2, <2>2, <3>2, <3>3
  <2>3. ASSUME Kept({"overlap", "interleaved"})', mLive' \in told'
        PROVE  \/ lives'[mLive'].config
               \/ \E u \in Threads : call'[u].op = "sendVideo" /\ call'[u].pc = "config"
    <3>1. CASE op = "sendVideo" /\ frame = "config"
      BY <1>1, <3>1
    <3>2. CASE mLive \in told
      BY <1>1, <1>2, <2>3, <3>2 DEF SessionInv, Configured, Kept, Misuses, At
    <3> QED
      BY <1>1, <1>2, <2>3, <3>1, <3>2
  <2>4. Kept({"overlap", "interleaved", "unconfigured"})' =>
          \A u \in Threads : call'[u].op = "sendVideo" /\ call'[u].pc = "header" =>
                              mLive' = NULL \/ mLive' \in told'
    BY <1>1, <1>2, <1>5 DEF SessionInv, Configured, Kept, Misuses, At
  <2> QED
    BY <2>2, <2>3, <2>4 DEF Configured, At
<1>11. (HeaderWritten /\ KeyFollowsHeader)'
  BY <1>1, <1>2 DEF SessionInv, HeaderWritten, KeyFollowsHeader, Kept, Misuses, At
<1>12. (FreedHandleNeedsOverlap /\ NullNeedsUnopened /\ NullSpsNeedsUnconfigured)'
  BY <1>1 DEF Enter, FreedHandleNeedsOverlap, NullNeedsUnopened, NullSpsNeedsUnconfigured
<1> QED
  BY <1>6, <1>7, <1>8, <1>9, <1>10, <1>11, <1>12 DEF SessionInv

LEMMA ReturnInv ==
  ASSUME SessionInv, NEW t \in Threads, Return(t)
  PROVE  SessionInv'
<1>1. /\ call[t].pc \in {"true", "false"} /\ call'[t] = Idle
      /\ \A u \in Threads \ {t} : call'[u] = call[u]
      /\ mLive' = mLive /\ lives' = lives /\ rtmp' = rtmp /\ wire' = wire
      /\ fault' = fault /\ told' = told /\ misuse' = misuse
  BY DEF SessionInv, SessionTypeOK, Return, history
<1>2. SessionTypeOK'
  BY TypeStep DEF SessionInv, SessionNext
<1>3. (ShapeOK /\ Exclusive /\ OneVideo)'
  BY <1>1 DEF SessionInv, ShapeOK, Exclusive, OneVideo, Kept, Inside, Idle
<1>4. (Settled /\ Holding /\ NothingLeft /\ NoHandleLeaks)'
  BY <1>1 DEF SessionInv, Settled, Holding, NothingLeft, NoHandleLeaks, Kept, Idle, CurrentRtmp
<1>5. (Configured /\ HeaderWritten /\ KeyFollowsHeader)'
  BY <1>1 DEF SessionInv, Configured, HeaderWritten, KeyFollowsHeader, Kept, Idle, At
<1>6. (FreedHandleNeedsOverlap /\ NullNeedsUnopened /\ NullSpsNeedsUnconfigured)'
  BY <1>1 DEF SessionInv, FreedHandleNeedsOverlap, NullNeedsUnopened,
         NullSpsNeedsUnconfigured, Kept
<1> QED
  BY <1>2, <1>3, <1>4, <1>5, <1>6 DEF SessionInv

LEMMA PeerLostInv ==
  ASSUME SessionInv, NEW r \in Lives, PeerLost(r)
  PROVE  SessionInv'
<1>1. /\ rtmp[r] \in {"connected", "open"}
      /\ \A l \in Lives : rtmp'[l] = IF l = r THEN "lost" ELSE rtmp[l]
      /\ mLive' = mLive /\ lives' = lives /\ call' = call /\ wire' = wire
      /\ fault' = fault /\ told' = told /\ misuse' = misuse
  BY DEF SessionInv, SessionTypeOK, PeerLost, history
<1>2. SessionTypeOK'
  BY TypeStep DEF SessionInv, SessionNext
<1>3. (ShapeOK /\ Exclusive /\ OneVideo)'
  BY <1>1 DEF SessionInv, ShapeOK, Exclusive, OneVideo, Kept, Inside
<1>4. (Settled /\ Holding /\ NothingLeft /\ NoHandleLeaks)'
  BY <1>1, NullNotLive DEF SessionInv, SessionTypeOK, Settled, Holding, NothingLeft,
         NoHandleLeaks, Kept, CurrentRtmp
<1>5. (Configured /\ HeaderWritten /\ KeyFollowsHeader)'
  <2>1. Configured'
    BY <1>1 DEF SessionInv, SessionTypeOK, Configured, Kept, At
  <2>2. HeaderWritten'
    BY <1>1 DEF SessionInv, SessionTypeOK, HeaderWritten, Kept, At
  <2>3. ASSUME NEW t \in Threads, Kept({"overlap", "interleaved"}),
               At(t, "sendVideo", "sendFrame"), call[t].frame = "key",
               rtmp'[call[t].r] \in {"connected", "open"}
        PROVE  wire[call[t].r] = "header"
    <3>1. call[t].r = mLive /\ mLive \in Lives
      BY <2>3, HeldPointer DEF SessionInv, SessionTypeOK, Kept, At
    <3>2. rtmp[call[t].r] \in {"connected", "open"}
      BY <1>1, <2>3, <3>1
    <3> QED
      BY <2>3, <3>2 DEF SessionInv, KeyFollowsHeader
  <2> QED
    BY <1>1, <2>1, <2>2, <2>3 DEF KeyFollowsHeader, Kept, At
<1>6. (FreedHandleNeedsOverlap /\ NullNeedsUnopened /\ NullSpsNeedsUnconfigured)'
  BY <1>1 DEF SessionInv, FreedHandleNeedsOverlap, NullNeedsUnopened,
         NullSpsNeedsUnconfigured, Kept
<1> QED
  BY <1>2, <1>3, <1>4, <1>5, <1>6 DEF SessionInv

-----------------------------------------------------------------------------
(* The invariant, and what follows from it.                                *)

LEMMA CallInInv ==
  ASSUME SessionInv, NEW t \in Threads, CallIn(t)
  PROVE  SessionInv'
<1>1. CASE CallConnect(t)
  BY <1>1, EnterInv DEF CallConnect, Ops, Pcs, Frames
<1>2. CASE CallClose(t)
  BY <1>2, EnterInv DEF CallClose, Ops, Pcs, Frames
<1>3. CASE CallSendAudio(t)
  BY <1>3, EnterInv DEF CallSendAudio, Ops, Pcs, Frames
<1>4. ASSUME NEW f \in Frames, CallSendVideo(t, f)
      PROVE  SessionInv'
  BY <1>4, EnterInv DEF CallSendVideo, Ops, Pcs, Frames
<1> QED
  BY <1>1, <1>2, <1>3, <1>4 DEF CallIn

LEMMA SessionStep == SessionInv /\ [SessionNext]_sessionVars => SessionInv'
<1> SUFFICES ASSUME SessionInv, [SessionNext]_sessionVars
             PROVE  SessionInv'
  OBVIOUS
<1>1. ASSUME NEW t \in Threads, NativeStep(t)
      PROVE  SessionInv'
  BY <1>1, ConnectAllocInv, ConnectSetupInv, ConnectServerInv, ConnectStreamInv,
     TeardownCloseInv, TeardownFreeInv, TeardownClearInv, SaveConfigInv, MakeHeaderInv,
     MakePacketInv, SendPacketInv DEF NativeStep
<1>2. CASE UNCHANGED sessionVars
  BY <1>2 DEF sessionVars, SessionInv, SessionTypeOK, ShapeOK, Exclusive, Settled,
     Holding, NothingLeft, OneVideo, Configured, HeaderWritten, FreedHandleNeedsOverlap,
     NullNeedsUnopened, NullSpsNeedsUnconfigured, NoHandleLeaks, KeyFollowsHeader,
     Kept, At, Inside, CurrentRtmp
<1> QED
  BY <1>1, <1>2, CallInInv, ReturnInv, PeerLostInv DEF SessionNext

LEMMA SessionStart == SessionInit => SessionInv
<1> SUFFICES ASSUME SessionInit
             PROVE  SessionInv
  OBVIOUS
<1>1. SessionTypeOK
  BY DEF SessionInit, SessionTypeOK, Call, Idle, Ops, Pcs, Frames, RtmpStates
<1> QED
  BY <1>1 DEF SessionInit, Idle, SessionInv, ShapeOK, Exclusive, Settled,
     Holding, NothingLeft, OneVideo, Configured, HeaderWritten, FreedHandleNeedsOverlap,
     NullNeedsUnopened, NullSpsNeedsUnconfigured, NoHandleLeaks, KeyFollowsHeader,
     Kept, At, Inside

(* The inductive invariant holds of every behaviour of the session.        *)
THEOREM SessionInvariant == SessionSpec => []SessionInv
  BY SessionStart, SessionStep, PTL DEF SessionSpec

(* For any number of threads: a freed RTMP handle is used only after calls *)
(* have overlapped.                                                        *)
THEOREM FreedHandleTheorem == SessionSpec => []FreedHandleNeedsOverlap
<1>1. SessionInv => FreedHandleNeedsOverlap
  BY DEF SessionInv
<1> QED
  BY <1>1, SessionInvariant, PTL

(* For any number of threads: a null mLive or mLive->rtmp is used only     *)
(* after calls have overlapped or one began with no session.               *)
THEOREM NullTheorem == SessionSpec => []NullNeedsUnopened
<1>1. SessionInv => NullNeedsUnopened
  BY DEF SessionInv
<1> QED
  BY <1>1, SessionInvariant, PTL

(* For any number of threads: a null sps is read only after a session was  *)
(* passed an I frame before SPS and PPS, or calls have overlapped.         *)
THEOREM NullSpsTheorem == SessionSpec => []NullSpsNeedsUnconfigured
<1>1. SessionInv => NullSpsNeedsUnconfigured
  BY DEF SessionInv
<1> QED
  BY <1>1, SessionInvariant, PTL

(* For any number of connects: no RTMP handle is left open and unreachable.*)
THEOREM NoLeakTheorem == SessionSpec => []NoHandleLeaks
<1>1. SessionInv => NoHandleLeaks
  BY DEF SessionInv
<1> QED
  BY <1>1, SessionInvariant, PTL

(* For any interleaving with audio and with the loss of the peer: an       *)
(* I frame follows its SPS and PPS on the wire.                            *)
THEOREM HeaderTheorem == SessionSpec => []KeyFollowsHeader
<1>1. SessionInv => KeyFollowsHeader
  BY DEF SessionInv
<1> QED
  BY <1>1, SessionInvariant, PTL

LEMMA ResultOfStep == SessionInv /\ [SessionNext]_sessionVars => [ResultStep]_sessionVars
<1> SUFFICES ASSUME SessionInv, SessionNext, Kept({"overlap"}),
                    NEW t \in Threads, Inside(t), Changes(call[t].op)
             PROVE  /\ call'[t].pc = "true" =>
                         /\ mLive' = call[t].own /\ mLive' # NULL
                         /\ lives'[mLive'].rtmp = mLive' /\ rtmp'[mLive'] = "open"
                    /\ call'[t].pc = "false" => mLive' = NULL
  BY DEF ResultStep
<1>1. ASSUME call'[t] = call[t]
      PROVE  call'[t].pc \notin {"true", "false"}
  BY <1>1 DEF Inside
<1>2. ASSUME NEW u \in Threads, u # t, CallIn(u) \/ NativeStep(u) \/ Return(u)
      PROVE  call'[t] = call[t]
  <2> USE DEF SessionInv, SessionTypeOK, Goto, Hold, Fail
  <2>1. CASE CallIn(u) \/ Return(u)
    BY <1>2, <2>1 DEF CallIn, CallConnect, CallClose, CallSendVideo, CallSendAudio, Enter, Return
  <2>2. CASE ConnectAlloc(u) \/ ConnectSetup(u) \/ ConnectServer(u) \/ ConnectStream(u)
    BY <1>2, <2>2 DEF ConnectAlloc, ConnectSetup, ConnectServer, ConnectStream
  <2>3. CASE TeardownClose(u) \/ TeardownFree(u) \/ TeardownClear(u)
    BY <1>2, <2>3 DEF TeardownClose, TeardownFree, TeardownClear
  <2>4. CASE SaveConfig(u) \/ MakeHeader(u) \/ MakeFrame(u) \/ MakeAudio(u)
    BY <1>2, <2>4 DEF SaveConfig, MakeHeader, MakeFrame, MakeAudio, MakePacket
  <2>5. CASE SendHeader(u) \/ SendFrame(u) \/ SendAudio(u)
    BY <1>2, <2>5 DEF SendHeader, SendFrame, SendAudio, SendPacket
  <2> QED
    BY <1>2, <2>1, <2>2, <2>3, <2>4, <2>5 DEF NativeStep
<1>3. ASSUME NEW r \in Lives, PeerLost(r)
      PROVE  call'[t] = call[t]
  BY <1>3 DEF PeerLost
<1>4. ~CallIn(t) /\ ~Return(t)
  BY DEF Inside, CallIn, CallConnect, CallClose, CallSendVideo, CallSendAudio, Enter, Return
<1>5. ASSUME ConnectStream(t)
      PROVE  /\ call'[t].pc = "true" =>
                  /\ mLive' = call[t].own /\ mLive' # NULL
                  /\ lives'[mLive'].rtmp = mLive' /\ rtmp'[mLive'] = "open"
             /\ call'[t].pc # "false"
  <2>1. call[t].pc = "stream" /\ mLive # NULL /\ call[t].r = mLive /\ call[t].own = mLive
    BY <1>5 DEF ConnectStream, At, SessionInv, Holding
  <2>2. CurrentRtmp = mLive /\ rtmp[mLive] # "freed"
    BY <2>1, ChangerAlone DEF SessionInv, Settled, Inside
  <2>3. CASE Goto(t, "true") /\ rtmp' = [rtmp EXCEPT ![call[t].r] = "open"]
             /\ UNCHANGED <<mLive, lives>>
    BY <2>1, <2>2, <2>3, GotoCall, NullNotLive DEF SessionInv, SessionTypeOK, CurrentRtmp, Pcs
  <2>4. CASE Goto(t, "teardown")
    BY <2>4, GotoCall DEF SessionInv, Pcs
  <2>5. CASE Fail("null_rtmp") \/ Fail("freed_rtmp")
    BY <2>1, <2>5 DEF Fail
  <2> QED
    BY <1>5, <2>3, <2>4, <2>5 DEF ConnectStream
<1>6. ASSUME TeardownClose(t)
      PROVE  call'[t].pc # "true" /\ (call'[t].pc = "false" => mLive' = NULL)
  BY <1>1, <1>6, GotoCall DEF TeardownClose, Fail, SessionInv, Pcs
<1>7. ASSUME TeardownClear(t)
      PROVE  call'[t].pc # "true" /\ mLive' = NULL
  BY <1>7, GotoCall DEF TeardownClear, SessionInv, Pcs
<1>8. ASSUME ConnectAlloc(t) \/ ConnectSetup(t) \/ ConnectServer(t) \/ TeardownFree(t)
      PROVE  call'[t].pc \notin {"true", "false"}
  <2>1. CASE ConnectAlloc(t)
    BY <2>1 DEF ConnectAlloc, SessionInv, SessionTypeOK, Call
  <2>2. CASE ConnectSetup(t)
    BY <1>1, <2>2, GotoCall, HoldCall DEF ConnectSetup, Fail, SessionInv, Pcs
  <2>3. CASE ConnectServer(t)
    BY <1>1, <2>3, GotoCall, HoldCall DEF ConnectServer, Fail, SessionInv, Pcs
  <2>4. CASE TeardownFree(t)
    BY <1>1, <2>4, GotoCall DEF TeardownFree, Fail, SessionInv, Pcs
  <2> QED
    BY <1>8, <2>1, <2>2, <2>3, <2>4
<1>9. ~SaveConfig(t) /\ ~MakeHeader(t) /\ ~MakeFrame(t) /\ ~MakeAudio(t)
      /\ ~SendHeader(t) /\ ~SendFrame(t) /\ ~SendAudio(t)
  BY DEF Changes, SaveConfig, MakeHeader, MakeFrame, MakeAudio, MakePacket, SendHeader,
     SendFrame, SendAudio, SendPacket, At, SessionInv, ShapeOK
<1> QED
  BY <1>1, <1>2, <1>3, <1>4, <1>5, <1>6, <1>7, <1>8, <1>9 DEF SessionNext, NativeStep

(* For any number of threads: what connect returns, and the end of close,  *)
(* agree with the session that is really there, unless calls overlapped.   *)
THEOREM ResultTheorem == SessionSpec => ResultMatchesSession
  BY SessionInvariant, ResultOfStep, PTL DEF SessionSpec, ResultMatchesSession

-----------------------------------------------------------------------------
(* How the calls of one thread look to the others: lemmas for the callers. *)

(* A thread enters the library: its call begins, and nothing else of the   *)
(* session changes.                                                        *)
LEMMA EnterCall ==
  ASSUME SessionTypeOK, NEW t \in Threads, NEW op, NEW pc, NEW f, Enter(t, op, pc, f)
  PROVE  /\ call[t].pc = "idle"
         /\ call'[t].op = op /\ call'[t].pc = pc /\ call'[t].own = NULL
         /\ \A u \in Threads \ {t} : call'[u] = call[u]
         /\ UNCHANGED <<mLive, lives, rtmp, wire, fault>>
         /\ misuse' = misuse \cup Misused(op, f)
  BY DEF Enter, SessionTypeOK, Call, Idle

LEMMA CallKinds ==
  ASSUME SessionTypeOK, NEW t \in Threads
  PROVE  /\ CallConnect(t) => call'[t].op = "connect" /\ call'[t].pc = "alloc"
         /\ CallClose(t) => call'[t].op = "close" /\ call'[t].pc = "teardown"
         /\ CallSendAudio(t) => call'[t].op = "sendAudio" /\ call'[t].pc = "audio"
         /\ \A f \in Frames : CallSendVideo(t, f) =>
              call'[t].op = "sendVideo" /\ call'[t].pc \in {"config", "header", "frame"}
         /\ CallIn(t) => /\ call[t].pc = "idle"
                         /\ \A u \in Threads \ {t} : call'[u] = call[u]
                         /\ UNCHANGED <<mLive, lives, rtmp, wire, fault>>
<1> USE EnterCall
<1>1. CallConnect(t) => call'[t].op = "connect" /\ call'[t].pc = "alloc"
  BY DEF CallConnect
<1>2. CallClose(t) => call'[t].op = "close" /\ call'[t].pc = "teardown"
  BY DEF CallClose
<1>3. CallSendAudio(t) => call'[t].op = "sendAudio" /\ call'[t].pc = "audio"
  BY DEF CallSendAudio
<1>4. \A f \in Frames : CallSendVideo(t, f) =>
        call'[t].op = "sendVideo" /\ call'[t].pc \in {"config", "header", "frame"}
  BY DEF CallSendVideo
<1>5. CallIn(t) => /\ call[t].pc = "idle"
                   /\ \A u \in Threads \ {t} : call'[u] = call[u]
                   /\ UNCHANGED <<mLive, lives, rtmp, wire, fault>>
  BY DEF CallIn, CallConnect, CallClose, CallSendAudio, CallSendVideo
<1> QED
  BY <1>1, <1>2, <1>3, <1>4, <1>5

(* The call is over.                                                       *)
LEMMA ReturnCall ==
  ASSUME SessionTypeOK, NEW t \in Threads, Return(t)
  PROVE  /\ call'[t].pc = "idle" /\ call'[t].op = "close"
         /\ \A u \in Threads \ {t} : call'[u] = call[u]
         /\ misuse' = misuse
  BY DEF Return, SessionTypeOK, Call, Idle, history

(* A step inside the library keeps the call it is a step of.               *)
LEMMA NativeCall ==
  ASSUME SessionTypeOK, NEW t \in Threads, NativeStep(t)
  PROVE  /\ call[t].pc # "idle" /\ call'[t].op = call[t].op
         /\ \A u \in Threads \ {t} : call'[u] = call[u]
         /\ misuse' = misuse
<1> USE DEF At, history, Fail, Pcs
<1>g. \A pc \in Pcs : Goto(t, pc) =>
        /\ \A u \in Threads \ {t} : call'[u] = call[u]
        /\ call'[t].op = call[t].op
  BY GotoCall
<1>h. \A r : \A pc \in Pcs : Hold(t, r, pc) =>
        /\ \A u \in Threads \ {t} : call'[u] = call[u]
        /\ call'[t].op = call[t].op
  BY HoldCall
<1>1. CASE ConnectAlloc(t)
  BY <1>1 DEF ConnectAlloc, SessionTypeOK, Call
<1>2. CASE ConnectSetup(t)
  BY <1>2, <1>g, <1>h DEF ConnectSetup
<1>3. CASE ConnectServer(t)
  BY <1>3, <1>g, <1>h DEF ConnectServer
<1>4. CASE ConnectStream(t)
  BY <1>4, <1>g DEF ConnectStream
<1>5. CASE TeardownClose(t) \/ TeardownFree(t) \/ TeardownClear(t)
  BY <1>5, <1>g DEF TeardownClose, TeardownFree, TeardownClear
<1>6. CASE SaveConfig(t)
  BY <1>6, <1>g DEF SaveConfig
<1>7. CASE MakeHeader(t) \/ MakeFrame(t) \/ MakeAudio(t)
  BY <1>7, <1>h DEF MakeHeader, MakeFrame, MakeAudio, MakePacket
<1>8. CASE SendHeader(t) \/ SendFrame(t) \/ SendAudio(t)
  BY <1>8, <1>g DEF SendHeader, SendFrame, SendAudio, SendPacket
<1> QED
  BY <1>1, <1>2, <1>3, <1>4, <1>5, <1>6, <1>7, <1>8 DEF NativeStep

(* Only a step inside connect or close changes mLive; what was told once   *)
(* stays told.                                                             *)
LEMMA CallKeeps ==
  ASSUME NEW t \in Threads, CallIn(t) \/ Return(t)
  PROVE  mLive' = mLive /\ told \subseteq told'
  BY DEF CallIn, CallConnect, CallClose, CallSendAudio, CallSendVideo, Enter, Return, history

LEMMA NativeTold ==
  ASSUME NEW t \in Threads, NativeStep(t)
  PROVE  told' = told
<1> USE DEF history, Fail
<1>1. CASE ConnectAlloc(t) \/ ConnectSetup(t) \/ ConnectServer(t) \/ ConnectStream(t)
  BY <1>1 DEF ConnectAlloc, ConnectSetup, ConnectServer, ConnectStream
<1>2. CASE TeardownClose(t) \/ TeardownFree(t) \/ TeardownClear(t)
  BY <1>2 DEF TeardownClose, TeardownFree, TeardownClear
<1>3. CASE SaveConfig(t) \/ MakeHeader(t) \/ MakeFrame(t) \/ MakeAudio(t)
  BY <1>3 DEF SaveConfig, MakeHeader, MakeFrame, MakeAudio, MakePacket
<1>4. CASE SendHeader(t) \/ SendFrame(t) \/ SendAudio(t)
  BY <1>4 DEF SendHeader, SendFrame, SendAudio, SendPacket
<1> QED
  BY <1>1, <1>2, <1>3, <1>4 DEF NativeStep

(* What a call adds to misuse.                                             *)
LEMMA MisusedKinds ==
  ASSUME NEW op, NEW f
  PROVE  /\ "overlap" \in Misused(op, f) =>
              \E u \in Threads : Inside(u) /\ (Changes(op) \/ Changes(call[u].op))
         /\ "reconnect" \in Misused(op, f) => op = "connect" /\ mLive # NULL
         /\ "unopened" \in Misused(op, f) => ~Changes(op) /\ mLive = NULL
         /\ "unconfigured" \in Misused(op, f) =>
              op = "sendVideo" /\ f = "key" /\ mLive # NULL /\ mLive \notin told
  BY DEF Misused

-----------------------------------------------------------------------------
(* The session as long as connect and close run one after the other,       *)
(* whatever the senders do: SessionInv says this only as long as no call   *)
(* at all overlapped one of them.                                          *)

NoHandle == \A r \in Lives : rtmp[r] \in {"unused", "freed"}

Current(states) == mLive # NULL /\ CurrentRtmp = mLive /\ rtmp[mLive] \in states

Leads == \A r \in Lives : rtmp[r] \notin {"unused", "freed"} => mLive # NULL /\ CurrentRtmp = r

(* What a call that changes mLive has reached.                             *)
Changer(t) ==
  /\ call[t].pc = "alloc" => mLive = NULL
  /\ call[t].pc = "setup" => mLive # NULL /\ mLive = call[t].own /\ NoHandle
  /\ call[t].pc = "server" => call[t].r = mLive /\ Current({"init"})
  /\ call[t].pc = "stream" => call[t].r = mLive /\ Current({"connected", "lost"})
  /\ call[t].pc = "clear" => NoHandle
  /\ call[t].pc = "true" => Current({"open", "lost"})
  /\ call[t].pc = "false" => mLive = NULL

(* A step inside sendVideo or sendAudio changes neither mLive nor a handle.*)
LEMMA SenderNative ==
  ASSUME SessionTypeOK, ShapeOK, NEW t \in Threads, NativeStep(t), ~Changes(call[t].op)
  PROVE  /\ UNCHANGED <<mLive, rtmp>>
         /\ \A l \in Lives : lives'[l].rtmp = lives[l].rtmp
         /\ \A u \in Threads \ {t} : call'[u] = call[u]
<1>0. \A u \in Threads \ {t} : call'[u] = call[u]
  BY NativeCall
<1>1. call[t].op \in {"sendVideo", "sendAudio"}
  BY DEF SessionTypeOK, Call, Ops, Changes
<1>2. call[t].pc \in {"config", "header", "sendHeader", "frame", "sendFrame", "audio", "sendMsg",
                      "false"}
  BY <1>1 DEF ShapeOK
<1>3. CASE SaveConfig(t)
  BY <1>0, <1>3 DEF SaveConfig, Fail, SessionTypeOK
<1>4. CASE MakeHeader(t) \/ MakeFrame(t) \/ MakeAudio(t)
  BY <1>0, <1>4 DEF MakeHeader, MakeFrame, MakeAudio, MakePacket, Fail
<1>5. CASE SendHeader(t) \/ SendFrame(t) \/ SendAudio(t)
  BY <1>0, <1>5 DEF SendHeader, SendFrame, SendAudio, SendPacket, Fail
<1>6. /\ ~ConnectAlloc(t) /\ ~ConnectSetup(t) /\ ~ConnectServer(t) /\ ~ConnectStream(t)
      /\ ~TeardownClose(t) /\ ~TeardownFree(t) /\ ~TeardownClear(t)
  BY <1>1, <1>2 DEF ConnectAlloc, ConnectSetup, ConnectServer, ConnectStream, TeardownClose,
     TeardownFree, TeardownClear, At
<1> QED
  BY <1>3, <1>4, <1>5, <1>6 DEF NativeStep

(* When the session a thread looks at is the same, it has reached the same.*)
LEMMA SameChanger ==
  ASSUME SessionTypeOK, UNCHANGED <<mLive, rtmp>>,
         \A l \in Lives : lives'[l].rtmp = lives[l].rtmp
  PROVE  /\ Leads => Leads'
         /\ \A t \in Threads : call'[t] = call[t] /\ Changer(t) => Changer(t)'
         /\ \A S : Current(S) => Current(S)'
<1>1. mLive # NULL => CurrentRtmp' = CurrentRtmp
  BY DEF SessionTypeOK, CurrentRtmp
<1> QED
  BY <1>1 DEF Leads, Changer, Current, NoHandle

LEMMA ChangerFail ==
  ASSUME SessionTypeOK, NEW t \in Threads, NEW f, Fail(f), Leads, Changer(t)
  PROVE  Leads' /\ Changer(t)'
  BY SameChanger DEF Fail

(* A step inside connect or close.                                         *)
LEMMA ChangerNative ==
  ASSUME SessionTypeOK, ShapeOK, NEW t \in Threads, NativeStep(t), Changes(call[t].op),
         Leads, Changer(t)
  PROVE  Leads' /\ Changer(t)'
<1> USE NullNotLive
<1>0. call[t].pc \notin {"config", "header", "sendHeader", "frame", "sendFrame", "audio", "sendMsg"}
  BY DEF ShapeOK, Changes
<1>1. CASE ConnectAlloc(t)
  <2>1. PICK l \in Lives :
          /\ rtmp[l] = "unused" /\ mLive' = l
          /\ call' = [call EXCEPT ![t].pc = "setup", ![t].own = l]
    BY <1>1 DEF ConnectAlloc
  <2>2. call'[t].pc = "setup" /\ call'[t].own = l
    BY <2>1 DEF SessionTypeOK, Call
  <2>3. NoHandle /\ rtmp' = rtmp
    BY <1>1 DEF ConnectAlloc, At, Changer, Leads, NoHandle
  <2> QED
    BY <2>1, <2>2, <2>3 DEF Changer, Leads, NoHandle
<1>2. CASE ConnectSetup(t)
  <2>1. CASE Fail("null_live")
    BY <2>1, ChangerFail
  <2>2. CASE ~Fail("null_live")
    <3>1. /\ mLive \in Lives /\ call[t].own = mLive /\ NoHandle /\ call[t].pc = "setup"
          /\ mLive' = mLive
          /\ lives' = [lives EXCEPT ![mLive].rtmp = mLive]
          /\ rtmp' = [rtmp EXCEPT ![mLive] = "init"]
          /\ Hold(t, mLive, "server") \/ Goto(t, "teardown")
      BY <1>2, <2>2 DEF ConnectSetup, At, Changer, SessionTypeOK
    <3>2. lives'[mLive].rtmp = mLive
      BY <3>1 DEF SessionTypeOK
    <3>3. Current({"init"})' /\ Leads'
      BY <3>1, <3>2 DEF SessionTypeOK, Current, Leads, NoHandle, CurrentRtmp
    <3>4. call'[t].pc = "teardown" \/ (call'[t].pc = "server" /\ call'[t].r = mLive)
      BY <3>1, GotoCall, HoldCall DEF Pcs
    <3> QED
      BY <3>1, <3>3, <3>4 DEF Changer
  <2> QED
    BY <2>1, <2>2
<1>3. CASE ConnectServer(t)
  <2>1. /\ call[t].pc = "server" /\ call[t].r = mLive /\ Current({"init"}) /\ mLive \in Lives
    BY <1>3 DEF ConnectServer, At, Changer, Current, SessionTypeOK
  <2>2. /\ ~Fail("freed_rtmp") /\ ~Fail("null_live") =>
             /\ UNCHANGED <<mLive, lives>>
             /\ \/ rtmp' = [rtmp EXCEPT ![mLive] = "closed"] /\ Goto(t, "teardown")
                \/ rtmp' = [rtmp EXCEPT ![mLive] = "connected"] /\ Hold(t, mLive, "stream")
    BY <1>3, <2>1 DEF ConnectServer, Current
  <2>3. CASE Fail("freed_rtmp") \/ Fail("null_live")
    BY <2>3, ChangerFail
  <2>4. CASE rtmp' = [rtmp EXCEPT ![mLive] = "closed"] /\ Goto(t, "teardown")
             /\ UNCHANGED <<mLive, lives>>
    <3>1. call'[t].pc = "teardown"
      BY <2>4, GotoCall DEF Pcs
    <3> QED
      BY <2>1, <2>4, <3>1 DEF Changer, Leads, Current, CurrentRtmp, SessionTypeOK
  <2>5. CASE rtmp' = [rtmp EXCEPT ![mLive] = "connected"] /\ Hold(t, mLive, "stream")
             /\ UNCHANGED <<mLive, lives>>
    <3>1. call'[t].pc = "stream" /\ call'[t].r = mLive
      BY <2>5, HoldCall DEF Pcs
    <3> QED
      BY <2>1, <2>5, <3>1 DEF Changer, Leads, Current, CurrentRtmp, SessionTypeOK
  <2> QED
    BY <2>2, <2>3, <2>4, <2>5
<1>4. CASE ConnectStream(t)
  <2>1. /\ call[t].pc = "stream" /\ call[t].r = mLive /\ mLive \in Lives
        /\ Current({"connected", "lost"})
    BY <1>4 DEF ConnectStream, At, Changer, Current, SessionTypeOK
  <2>2. /\ ~Fail("freed_rtmp") /\ ~Fail("null_rtmp") =>
             /\ UNCHANGED <<mLive, lives>>
             /\ \/ rtmp' = [rtmp EXCEPT ![mLive] = "open"] /\ Goto(t, "true")
                \/ rtmp' = rtmp /\ Goto(t, "teardown")
    BY <1>4, <2>1 DEF ConnectStream
  <2>3. CASE Fail("freed_rtmp") \/ Fail("null_rtmp")
    BY <2>3, ChangerFail
  <2>4. CASE rtmp' = rtmp /\ Goto(t, "teardown") /\ UNCHANGED <<mLive, lives>>
    <3>1. call'[t].pc = "teardown"
      BY <2>4, GotoCall DEF Pcs
    <3> QED
      BY <2>4, <3>1 DEF Changer, Leads, CurrentRtmp
  <2>5. CASE rtmp' = [rtmp EXCEPT ![mLive] = "open"] /\ Goto(t, "true")
             /\ UNCHANGED <<mLive, lives>>
    <3>1. call'[t].pc = "true"
      BY <2>5, GotoCall DEF Pcs
    <3> QED
      BY <2>1, <2>5, <3>1 DEF Changer, Leads, Current, CurrentRtmp, SessionTypeOK
  <2> QED
    BY <2>2, <2>3, <2>4, <2>5
<1>5. CASE TeardownClose(t)
  <2>1. CASE \E f : Fail(f)
    BY <2>1, ChangerFail
  <2>2. CASE mLive = NULL /\ Goto(t, "false") /\ UNCHANGED <<mLive, lives, rtmp>>
    <3>1. call'[t].pc = "false"
      BY <2>2, GotoCall DEF Pcs
    <3> QED
      BY <2>2, <3>1 DEF Changer, Leads
  <2>3. CASE /\ mLive # NULL /\ CurrentRtmp # NULL /\ rtmp[CurrentRtmp] # "freed"
             /\ rtmp' = [rtmp EXCEPT ![CurrentRtmp] = "closed"]
             /\ Goto(t, "free") /\ UNCHANGED <<mLive, lives>>
    <3>1. call'[t].pc = "free"
      BY <2>3, GotoCall DEF Pcs
    <3>2. CurrentRtmp \in Lives
      BY <2>3 DEF SessionTypeOK, CurrentRtmp
    <3> QED
      BY <2>3, <3>1, <3>2 DEF Changer, Leads, CurrentRtmp, SessionTypeOK
  <2> QED
    BY <1>5, <2>1, <2>2, <2>3 DEF TeardownClose
<1>6. CASE TeardownFree(t)
  <2>1. CASE \E f : Fail(f)
    BY <2>1, ChangerFail
  <2>2. CASE ~(\E f : Fail(f))
    <3>1. /\ mLive # NULL /\ Goto(t, "clear") /\ UNCHANGED <<mLive, lives>>
          /\ \/ CurrentRtmp = NULL /\ rtmp' = rtmp
             \/ CurrentRtmp # NULL /\ rtmp' = [rtmp EXCEPT ![CurrentRtmp] = "freed"]
      BY <1>6, <2>2 DEF TeardownFree
    <3>2. call'[t].pc = "clear"
      BY <3>1, GotoCall DEF Pcs
    <3>3. NoHandle'
      BY <3>1 DEF NoHandle, Leads, SessionTypeOK
    <3> QED
      BY <3>2, <3>3 DEF Changer, Leads, NoHandle
  <2> QED
    BY <2>1, <2>2
<1>7. CASE TeardownClear(t)
  <2>1. call'[t].pc = "false"
    BY <1>7, GotoCall DEF TeardownClear, Pcs
  <2> QED
    BY <1>7, <2>1 DEF TeardownClear, Changer, Leads, NoHandle
<1>8. /\ ~SaveConfig(t) /\ ~MakeHeader(t) /\ ~MakeFrame(t) /\ ~MakeAudio(t)
      /\ ~SendHeader(t) /\ ~SendFrame(t) /\ ~SendAudio(t)
  BY <1>0 DEF SaveConfig, MakeHeader, MakeFrame, MakeAudio, MakePacket, SendHeader, SendFrame,
     SendAudio, SendPacket, At
<1> QED
  BY <1>1, <1>2, <1>3, <1>4, <1>5, <1>6, <1>7, <1>8 DEF NativeStep

LEMMA LostChanger ==
  ASSUME SessionTypeOK, NEW r \in Lives, PeerLost(r)
  PROVE  /\ Leads => Leads'
         /\ \A t \in Threads : Changer(t) => Changer(t)'
         /\ Current({"open", "lost"}) => Current({"open", "lost"})'
         /\ mLive' = mLive
<1>1. /\ rtmp[r] \in {"connected", "open"}
      /\ \A l \in Lives : rtmp'[l] = IF l = r THEN "lost" ELSE rtmp[l]
      /\ UNCHANGED <<mLive, lives, call>>
  BY DEF PeerLost, SessionTypeOK
<1>2. (NoHandle => NoHandle') /\ (Leads => Leads')
  BY <1>1 DEF NoHandle, Leads, CurrentRtmp
<1>3. /\ Current({"open", "lost"}) => Current({"open", "lost"})'
      /\ Current({"connected", "lost"}) => Current({"connected", "lost"})'
      /\ Current({"init"}) => Current({"init"})'
  BY <1>1 DEF Current, CurrentRtmp, SessionTypeOK
<1> QED
  BY <1>1, <1>2, <1>3 DEF Changer

=============================================================================
