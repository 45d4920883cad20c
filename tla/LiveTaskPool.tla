---------------------------- MODULE LiveTaskPool ----------------------------
(***************************************************************************)
(* The pool of LiveTaskManager under the tasks of the camera screens: the  *)
(* consumer each CameraLiveActivity starts with and an audio task for each *)
(* live.  The pool is java.util.concurrent.ThreadPoolExecutor as it is     *)
(* configured there, with core threads that time out.  Only the main thread*)
(* calls execute.                                                          *)
(***************************************************************************)
EXTENDS FiniteSets, Naturals, Sequences

CONSTANTS
  Core, Maximum, Capacity,  (* CORE_POOL_SIZE, MAXIMUM_POOL_SIZE, the queue*)
  Screens,                  (* the activities that come and go             *)
  MaxLives                  (* audio tasks of a screen: a bound for TLC    *)

ASSUME PoolAssumption ==
  /\ Core \in Nat \ {0} /\ Maximum \in Nat /\ Core <= Maximum
  /\ Capacity \in Nat /\ MaxLives \in Nat

VARIABLES
  screen,     (* of each activity: "new", "alive" or "destroyed"           *)
  isLiving,   (* its flag                                                  *)
  started,    (* the audio tasks it started                                *)
  parked,     (* screens destroyed while their consumer was in take()      *)
  submitting, (* where the main thread is in execute                       *)
  newTask,    (* the task it submits                                       *)
  waiting,    (* sPoolWorkQueue                                            *)
  running,    (* the tasks that have a worker                              *)
  polling,    (* workers in poll                                           *)
  expired,    (* workers whose poll timed out                              *)
  leaving,    (* threads no longer counted, before their last look         *)
  rejected,   (* RejectedExecutionException on the main thread             *)
  raced       (* history: a worker left while a task waited or came        *)

screenVars == <<screen, isLiving, started, parked>>
submitVars == <<submitting, newTask, rejected>>
workVars   == <<waiting, running, polling, expired, leaving, raced>>
poolVars   == <<screenVars, submitVars, workVars>>

Consumer(s) == [kind |-> "consumer", of |-> s, n |-> 0]
Audio(s, n) == [kind |-> "audio", of |-> s, n |-> n]
Tasks       == {Consumer(s) : s \in Screens}
                 \cup {Audio(s, n) : s \in Screens, n \in 1..MaxLives}

(* workerCountOf.                                                          *)
Workers == Cardinality(running) + polling + expired

PoolInit ==
  /\ screen = [s \in Screens |-> "new"] /\ isLiving = [s \in Screens |-> FALSE]
  /\ started = [s \in Screens |-> 0] /\ parked = {}
  /\ submitting = "no" /\ newTask = CHOOSE t \in Tasks : TRUE
  /\ waiting = <<>> /\ running = {}
  /\ polling = 0 /\ expired = 0 /\ leaving = 0
  /\ rejected = FALSE /\ raced = FALSE

-----------------------------------------------------------------------------
(* The screens, on the main thread.                                        *)

MainIsFree == submitting = "no" /\ ~rejected

Submit(t) == submitting' = "count" /\ newTask' = t /\ UNCHANGED <<rejected, workVars>>

(* initData: startQueue.                                                   *)
OpenScreen(s) ==
  /\ MainIsFree /\ screen[s] = "new"
  /\ screen' = [screen EXCEPT ![s] = "alive"]
  /\ Submit(Consumer(s))
  /\ UNCHANGED <<isLiving, started, parked>>

StartAudio(s) ==
  /\ MainIsFree /\ screen[s] = "alive" /\ ~isLiving[s] /\ started[s] < MaxLives
  /\ isLiving' = [isLiving EXCEPT ![s] = TRUE]
  /\ started' = [started EXCEPT ![s] = @ + 1]
  /\ Submit(Audio(s, started'[s]))
  /\ UNCHANGED <<screen, parked>>

StopAudio(s) ==
  /\ MainIsFree /\ isLiving[s]
  /\ isLiving' = [isLiving EXCEPT ![s] = FALSE]
  /\ UNCHANGED <<screen, started, parked, submitVars, workVars>>

(* onDestroy.  The camera is unbound: a consumer found in take() stays     *)
(* there, one that handles a frame leaves its loop.                        *)
DestroyScreen(s) ==
  /\ MainIsFree /\ screen[s] = "alive"
  /\ screen' = [screen EXCEPT ![s] = "destroyed"]
  /\ isLiving' = [isLiving EXCEPT ![s] = FALSE]
  /\ \/ Consumer(s) \in running /\ parked' = parked \cup {s}
     \/ UNCHANGED parked
  /\ UNCHANGED <<started, submitVars, workVars>>

-----------------------------------------------------------------------------
(* ThreadPoolExecutor.execute.                                             *)

(* Mutant: one core thread less.                                           *)
CountWorkersShort ==
  /\ submitting = "count"
  /\ \/ /\ Workers + 1 < Core
        /\ running' = running \cup {newTask} /\ submitting' = "no"
     \/ /\ Workers + 1 >= Core
        /\ submitting' = "offer" /\ UNCHANGED running
  /\ UNCHANGED <<screenVars, newTask, rejected, waiting, polling, expired, leaving, raced>>

CountWorkers ==
  /\ submitting = "count"
  /\ \/ /\ Workers < Core
        /\ running' = running \cup {newTask} /\ submitting' = "no"
     \/ /\ Workers >= Core
        /\ submitting' = "offer" /\ UNCHANGED running
  /\ UNCHANGED <<screenVars, newTask, rejected, waiting, polling, expired, leaving, raced>>

OfferTask ==
  /\ submitting = "offer"
  /\ \/ /\ Len(waiting) < Capacity
        /\ waiting' = Append(waiting, newTask) /\ submitting' = "recheck"
        /\ UNCHANGED <<running, rejected>>
     \/ /\ Len(waiting) >= Capacity /\ Workers < Maximum
        /\ running' = running \cup {newTask} /\ submitting' = "no"
        /\ UNCHANGED <<waiting, rejected>>
     \/ /\ Len(waiting) >= Capacity /\ Workers >= Maximum
        /\ rejected' = TRUE /\ submitting' = "no"
        /\ UNCHANGED <<waiting, running>>
  /\ UNCHANGED <<screenVars, newTask, polling, expired, leaving, raced>>

(* Mutant: the count is not looked at again.                               *)
RecheckNothing ==
  /\ submitting = "recheck" /\ submitting' = "no"
  /\ UNCHANGED <<screenVars, newTask, rejected, workVars>>

(* The last worker may have gone between the count and the offer.          *)
Recheck ==
  /\ submitting = "recheck" /\ submitting' = "no"
  /\ polling' = IF Workers = 0 THEN 1 ELSE polling
  /\ UNCHANGED <<screenVars, newTask, rejected, waiting, running, expired, leaving, raced>>

-----------------------------------------------------------------------------
(* The workers.                                                            *)

TakeTask ==
  /\ ~rejected /\ polling > 0 /\ waiting # <<>>
  /\ running' = running \cup {Head(waiting)} /\ waiting' = Tail(waiting)
  /\ polling' = polling - 1
  /\ UNCHANGED <<screenVars, submitVars, expired, leaving, raced>>

(* KEEP_ALIVE_SECONDS without a task.                                      *)
PollExpires ==
  /\ ~rejected /\ polling > 0 /\ waiting = <<>>
  /\ polling' = polling - 1 /\ expired' = expired + 1
  /\ UNCHANGED <<screenVars, submitVars, waiting, running, leaving, raced>>

(* A worker whose poll expired goes, even beside a waiting task unless it  *)
(* is the last; that one polls again.                                      *)
WorkerGoes ==
  /\ ~rejected /\ expired > 0 /\ expired' = expired - 1
  /\ \/ /\ Workers > 1 \/ waiting = <<>>
        /\ leaving' = leaving + 1 /\ raced' = (raced \/ waiting # <<>> \/ submitting = "offer")
        /\ UNCHANGED polling
     \/ /\ Workers = 1 /\ waiting # <<>>
        /\ polling' = polling + 1
        /\ UNCHANGED <<leaving, raced>>
  /\ UNCHANGED <<screenVars, submitVars, waiting, running>>

(* processWorkerExit: a waiting task gets a new worker if there is none.   *)
WorkerGone ==
  /\ ~rejected /\ leaving > 0 /\ leaving' = leaving - 1
  /\ polling' = IF Workers = 0 /\ waiting # <<>> THEN 1 ELSE polling
  /\ UNCHANGED <<screenVars, submitVars, waiting, running, expired, raced>>

(* A consumer looks at isDestroy before each take, an audio task ends when *)
(* isLiving is false or on an exception, which it catches.                 *)
TaskEnds(t) ==
  /\ ~rejected /\ t \in running
  /\ t.kind = "consumer" => screen[t.of] = "destroyed" /\ t.of \notin parked
  /\ running' = running \ {t} /\ polling' = polling + 1
  /\ UNCHANGED <<screenVars, submitVars, waiting, expired, leaving, raced>>

ScreenStep(s) == OpenScreen(s) \/ StartAudio(s) \/ StopAudio(s) \/ DestroyScreen(s)
WorkerStep == TakeTask \/ PollExpires \/ WorkerGoes \/ WorkerGone \/ \E t \in running : TaskEnds(t)
PoolNext ==
  \/ \E s \in Screens : ScreenStep(s)
  \/ CountWorkers \/ OfferTask \/ Recheck \/ WorkerStep

PoolSpec == PoolInit /\ [][PoolNext]_poolVars

-----------------------------------------------------------------------------
(* Whenever execute has returned, a task that waits has a worker, or a     *)
(* thread on its way out that will provide one: the timeout of the last    *)
(* core thread loses none (LiveTaskManager.java 20-24, 43-45).             *)
NoTaskWithoutWorker ==
  waiting # <<>> /\ submitting # "recheck" => Workers + leaving > 0

(* The tasks that go on as long as the user leaves things as they are.     *)
Lasting(t) ==
  IF t.kind = "consumer" THEN screen[t.of] = "alive" \/ t.of \in parked
  ELSE isLiving[t.of]

(* A task that waits while no worker will ever come to it, be it the       *)
(* consumer of a screen (no picture) or an audio task (no sound), has Core *)
(* tasks before it that do not end, of which at most the consumer and the  *)
(* audio task of a screen in use are wanted, unless the pool let a worker  *)
(* go as the task came (LiveTaskManager.java 12, 23; CameraLiveActivity    *)
(* 260, 572-574).                                                          *)
StarvedByLasting ==
  /\ waiting # <<>> /\ submitting = "no" /\ polling + expired + leaving = 0
  /\ \A t \in running : Lasting(t)
  => Cardinality(running) >= Core \/ raced

=============================================================================
