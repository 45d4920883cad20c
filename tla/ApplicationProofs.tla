-------------------------- MODULE ApplicationProofs --------------------------
(***************************************************************************)
(* Proofs about the parts of the application that its live screens use:     *)
(* the pool that runs the tasks of a live (LiveTaskPool), for any pool      *)
(* sizes, screens and lives; the list of servers (ServerList), for any rows *)
(* and addresses; and the way of a picture to the encoder (FramePipeline),  *)
(* for any cameras, sizes and numbers of pictures and swaps.                *)
(***************************************************************************)
EXTENDS LiveTaskPool, ServerList, FramePipeline, FiniteSetTheorems, SequenceTheorems, TLAPS

-----------------------------------------------------------------------------
(* The task pool.                                                          *)

WorkTypeOK ==
  /\ IsFiniteSet(running)
  /\ polling \in Nat /\ expired \in Nat /\ leaving \in Nat

PoolInv == WorkTypeOK /\ NoTaskWithoutWorker

LEMMA WorkersIsNat ==
  ASSUME WorkTypeOK
  PROVE  Workers \in Nat /\ Cardinality(running) \in Nat
BY FS_CardinalityType DEF WorkTypeOK, Workers

(* A worker that starts or takes a task is one.                            *)
LEMMA RunnerCounts ==
  ASSUME IsFiniteSet(running), NEW t, running' = running \cup {t},
         polling' \in Nat, expired' \in Nat, leaving' \in Nat
  PROVE  IsFiniteSet(running') /\ Workers' + leaving' > 0
<1>1. IsFiniteSet(running') /\ Cardinality(running') \in Nat
  BY FS_AddElement, FS_CardinalityType
<1>2. Cardinality(running') # 0
  BY <1>1, FS_EmptySet
<1> QED
  BY <1>1, <1>2 DEF Workers

(* A task that ends leaves its worker polling.                             *)
LEMMA EndKeepsWorkers ==
  ASSUME WorkTypeOK, NEW t \in running, TaskEnds(t)
  PROVE  WorkTypeOK' /\ Workers' = Workers
<1>1. IsFiniteSet(running') /\ Cardinality(running') = Cardinality(running) - 1
  BY FS_RemoveElement DEF WorkTypeOK, TaskEnds
<1> QED
  BY <1>1, WorkersIsNat DEF WorkTypeOK, TaskEnds, Workers

LEMMA ScreenKeepsWork ==
  ASSUME PoolInv, NEW s \in Screens, ScreenStep(s)
  PROVE  PoolInv'
<1>1. UNCHANGED workVars /\ submitting' \in {submitting, "count"}
  BY DEF ScreenStep, OpenScreen, StartAudio, StopAudio, DestroyScreen, Submit, submitVars
<1>2. submitting # "recheck"
  BY DEF ScreenStep, OpenScreen, StartAudio, StopAudio, DestroyScreen, MainIsFree
<1> QED
  BY <1>1, <1>2 DEF workVars, PoolInv, WorkTypeOK, NoTaskWithoutWorker, Workers

LEMMA ExecuteKeepsWork ==
  ASSUME PoolInv, CountWorkers \/ OfferTask \/ Recheck
  PROVE  PoolInv'
<1> USE DEF PoolInv, WorkTypeOK
<1>1. CASE CountWorkers
  <2>1. CASE running' = running \cup {newTask}
    BY <1>1, <2>1, RunnerCounts DEF CountWorkers, NoTaskWithoutWorker
  <2>2. CASE UNCHANGED running
    BY <1>1, <2>2 DEF CountWorkers, NoTaskWithoutWorker, Workers
  <2> QED
    BY <1>1, <2>1, <2>2 DEF CountWorkers
<1>2. CASE OfferTask
  <2>1. CASE running' = running \cup {newTask}
    BY <1>2, <2>1, RunnerCounts DEF OfferTask, NoTaskWithoutWorker
  <2>2. CASE UNCHANGED running /\ submitting' = "recheck"
    BY <1>2, <2>2 DEF OfferTask, NoTaskWithoutWorker
  <2>3. CASE UNCHANGED <<waiting, running>>
    BY <1>2, <2>3 DEF OfferTask, NoTaskWithoutWorker, Workers
  <2> QED
    BY <1>2, <2>1, <2>2, <2>3 DEF OfferTask
<1>3. CASE Recheck
  <2>1. CASE Workers = 0
    BY <1>3, <2>1, WorkersIsNat DEF Recheck, NoTaskWithoutWorker, Workers
  <2>2. CASE Workers # 0
    BY <1>3, <2>2, WorkersIsNat DEF Recheck, NoTaskWithoutWorker, Workers
  <2> QED
    BY <2>1, <2>2
<1> QED
  BY <1>1, <1>2, <1>3

LEMMA WorkerKeepsWork ==
  ASSUME PoolInv, WorkerStep
  PROVE  PoolInv'
<1> USE DEF PoolInv, WorkTypeOK
<1>0. Workers \in Nat /\ Cardinality(running) \in Nat
  BY WorkersIsNat
<1>1. CASE TakeTask
  <2>1. polling' \in Nat /\ UNCHANGED <<expired, leaving>>
    BY <1>1 DEF TakeTask
  <2>2. IsFiniteSet(running') /\ Workers' + leaving' > 0
    BY <1>1, <2>1, RunnerCounts DEF TakeTask
  <2> QED
    BY <2>1, <2>2 DEF NoTaskWithoutWorker
<1>2. CASE PollExpires
  BY <1>0, <1>2 DEF PollExpires, NoTaskWithoutWorker, Workers, submitVars
<1>3. CASE WorkerGoes
  <2>1. UNCHANGED <<waiting, running, submitting>> /\ expired' = expired - 1
        /\ expired' \in Nat
    BY <1>3 DEF WorkerGoes, submitVars
  <2>2. CASE leaving' = leaving + 1 /\ UNCHANGED polling
    <3>1. Workers' \in Nat
      BY <1>0, <2>1, <2>2 DEF Workers
    <3>2. leaving' \in Nat /\ leaving' > 0
      BY <2>2
    <3>3. Workers' + leaving' > 0
      <4>1. \A a, b \in Nat : b > 0 => a + b > 0
        OBVIOUS
      <4> QED
        BY <3>1, <3>2, <4>1
    <3>4. WorkTypeOK'
      BY <2>1, <2>2, <3>2
    <3> QED
      BY <3>3, <3>4 DEF NoTaskWithoutWorker
  <2>3. CASE polling' = polling + 1 /\ UNCHANGED leaving
    <3>1. Workers' = Workers
      BY <1>0, <2>1, <2>3 DEF Workers
    <3> QED
      BY <2>1, <2>3, <3>1 DEF NoTaskWithoutWorker
  <2> QED
    BY <1>3, <2>2, <2>3 DEF WorkerGoes
<1>4. CASE WorkerGone
  <2>1. CASE Workers = 0
    BY <1>0, <1>4, <2>1 DEF WorkerGone, NoTaskWithoutWorker, Workers, submitVars
  <2>2. CASE Workers # 0
    BY <1>0, <1>4, <2>2 DEF WorkerGone, NoTaskWithoutWorker, Workers, submitVars
  <2> QED
    BY <2>1, <2>2
<1>5. ASSUME NEW t \in running, TaskEnds(t) PROVE PoolInv'
  <2>1. WorkTypeOK' /\ Workers' = Workers
    BY <1>5, EndKeepsWorkers
  <2> QED
    BY <1>5, <2>1 DEF TaskEnds, NoTaskWithoutWorker, submitVars
<1> QED
  BY <1>1, <1>2, <1>3, <1>4, <1>5 DEF WorkerStep

(* Whatever the sizes of the pool and the order of submissions, timeouts   *)
(* and ends, a task that waits after execute has returned has a worker, or *)
(* a thread on its way out that will provide one (LiveTaskManager.java     *)
(* 20-24, 43-45).                                                          *)
THEOREM PoolTheorem == PoolSpec => []NoTaskWithoutWorker
<1>1. PoolInit => PoolInv
  BY FS_EmptySet DEF PoolInit, PoolInv, WorkTypeOK, NoTaskWithoutWorker
<1>2. ASSUME PoolInv, [PoolNext]_poolVars PROVE PoolInv'
  <2>1. CASE UNCHANGED poolVars
    BY <1>2, <2>1 DEF poolVars, workVars, submitVars, PoolInv, WorkTypeOK,
                      NoTaskWithoutWorker, Workers
  <2> QED
    BY <1>2, <2>1, ScreenKeepsWork, ExecuteKeepsWork, WorkerKeepsWork DEF PoolNext
<1>3. PoolInv => NoTaskWithoutWorker
  BY DEF PoolInv
<1> QED
  BY <1>1, <1>2, <1>3, PTL DEF PoolSpec

-----------------------------------------------------------------------------
(* A worker that goes beside a waiting task would not be missed if a task  *)
(* could be run twice: taking it would then lose a worker from the count.  *)
(* So each task is in one place, because each is new when it is submitted. *)

(* The tasks that were given to execute so far.                            *)
Given ==
  {t \in Tasks : IF t.kind = "consumer" THEN screen[t.of] # "new" ELSE t.n <= started[t.of]}

BeingSubmitted == submitting \in {"count", "offer"}
Queued(t)      == \E i \in 1..Len(waiting) : waiting[i] = t

ScreensOK ==
  /\ screen \in [Screens -> {"new", "alive", "destroyed"}]
  /\ started \in [Screens -> Nat]

(* The pool knows only what was given to it.                               *)
OnlyGiven ==
  /\ waiting \in Seq(Given) /\ running \subseteq Given
  /\ BeingSubmitted => newTask \in Given

(* No task is in two places.                                               *)
InOnePlace ==
  /\ \A i \in 1..Len(waiting) : waiting[i] \notin running
  /\ \A i, j \in 1..Len(waiting) : waiting[i] = waiting[j] => i = j
  /\ BeingSubmitted => newTask \notin running /\ ~Queued(newTask)

PlacesInv == ScreensOK /\ OnlyGiven /\ InOnePlace

(* Since a task came to the queue, or is about to, no worker has gone.     *)
CoreIsThere ==
  (waiting # <<>> \/ submitting = "offer") /\ ~raced => Workers >= Core

StarvedInv == PoolInv /\ PlacesInv /\ CoreIsThere

LEMMA TaskShape ==
  ASSUME NEW t \in Tasks
  PROVE  t.of \in Screens /\ t.n \in Nat
BY PoolAssumption DEF Tasks, Consumer, Audio

(* What was given to the pool stays so.                                    *)
LEMMA GivenStays ==
  ASSUME ScreensOK, NEW s \in Screens,
         \/ screen' = [screen EXCEPT ![s] = "alive"] /\ UNCHANGED started
         \/ screen' = [screen EXCEPT ![s] = "destroyed"] /\ UNCHANGED started
         \/ started' = [started EXCEPT ![s] = @ + 1] /\ UNCHANGED screen
         \/ UNCHANGED <<screen, started>>
  PROVE  Given \subseteq Given'
<1> SUFFICES ASSUME NEW t \in Given PROVE t \in Given'
  OBVIOUS
<1>1. t \in Tasks /\ t.of \in Screens /\ t.n \in Nat
  BY TaskShape DEF Given
<1>2. screen[t.of] # "new" => screen'[t.of] # "new"
  BY <1>1 DEF ScreensOK
<1>3. t.n <= started[t.of] => t.n <= started'[t.of]
  <2>1. started[t.of] \in Nat
    BY <1>1 DEF ScreensOK
  <2>2. started'[t.of] = started[t.of] \/ started'[t.of] = started[t.of] + 1
    BY <1>1 DEF ScreensOK
  <2> QED
    BY <1>1, <2>1, <2>2
<1> QED
  BY <1>1, <1>2, <1>3 DEF Given

(* A task that is submitted was not given to the pool before.              *)
LEMMA SubmitsNewTask ==
  ASSUME ScreensOK, NEW s \in Screens, OpenScreen(s) \/ StartAudio(s)
  PROVE  newTask' \in Given' /\ newTask' \notin Given
<1>1. CASE OpenScreen(s)
  <2>1. newTask' = Consumer(s) /\ screen[s] = "new" /\ screen'[s] = "alive"
    BY <1>1 DEF OpenScreen, Submit, ScreensOK
  <2>2. Consumer(s) \in Tasks /\ Consumer(s).kind = "consumer" /\ Consumer(s).of = s
    BY DEF Tasks, Consumer
  <2> QED
    BY <2>1, <2>2 DEF Given
<1>2. CASE StartAudio(s)
  <2>1. /\ newTask' = Audio(s, started[s] + 1) /\ started[s] \in Nat
        /\ started[s] < MaxLives /\ started'[s] = started[s] + 1
    BY <1>2 DEF StartAudio, Submit, ScreensOK
  <2>2. newTask' \in Tasks
    <3>1. started[s] + 1 \in 1..MaxLives
      BY <2>1, PoolAssumption
    <3> QED
      BY <2>1, <3>1 DEF Tasks
  <2>3. newTask'.kind = "audio" /\ newTask'.of = s /\ newTask'.n = started[s] + 1
    BY <2>1 DEF Audio
  <2>4. newTask' \in Given'
    BY <2>1, <2>2, <2>3 DEF Given
  <2>5. newTask' \notin Given
    BY <2>1, <2>3 DEF Given
  <2> QED
    BY <2>4, <2>5
<1> QED
  BY <1>1, <1>2

LEMMA ScreenKeepsPlaces ==
  ASSUME PlacesInv, NEW s \in Screens, ScreenStep(s)
  PROVE  PlacesInv'
<1> USE DEF PlacesInv
<1>1. UNCHANGED <<waiting, running>> /\ ~BeingSubmitted
  BY DEF ScreenStep, OpenScreen, StartAudio, StopAudio, DestroyScreen, Submit, MainIsFree,
         workVars, submitVars, BeingSubmitted
<1>2. \/ screen' = [screen EXCEPT ![s] = "alive"] /\ UNCHANGED started
      \/ screen' = [screen EXCEPT ![s] = "destroyed"] /\ UNCHANGED started
      \/ started' = [started EXCEPT ![s] = @ + 1] /\ UNCHANGED screen
      \/ UNCHANGED <<screen, started>>
  BY DEF ScreenStep, OpenScreen, StartAudio, StopAudio, DestroyScreen
<1>3. ScreensOK'
  BY <1>2 DEF ScreensOK
<1>4. Given \subseteq Given'
  BY <1>2, GivenStays
<1>5. waiting' \in Seq(Given') /\ running' \subseteq Given'
  BY <1>1, <1>4 DEF OnlyGiven
<1>6. CASE OpenScreen(s) \/ StartAudio(s)
  <2>1. newTask' \in Given' /\ newTask' \notin Given
    BY <1>6, SubmitsNewTask
  <2>2. newTask' \notin running' /\ ~Queued(newTask')
    BY <1>1, <2>1 DEF OnlyGiven, Queued
  <2> QED
    BY <1>1, <1>3, <1>5, <2>1, <2>2 DEF OnlyGiven, InOnePlace, Queued
<1>7. CASE StopAudio(s) \/ DestroyScreen(s)
  <2>1. ~BeingSubmitted'
    BY <1>1, <1>7 DEF StopAudio, DestroyScreen, submitVars, BeingSubmitted
  <2> QED
    BY <1>1, <1>3, <1>5, <2>1 DEF OnlyGiven, InOnePlace
<1> QED
  BY <1>6, <1>7 DEF ScreenStep

(* Nothing about the places depends on more than these variables.          *)
LEMMA PlacesUnchanged ==
  ASSUME PlacesInv, UNCHANGED <<screen, started, waiting, newTask>>, running' \subseteq running,
         BeingSubmitted' => BeingSubmitted
  PROVE  PlacesInv'
BY DEF PlacesInv, ScreensOK, OnlyGiven, Given, InOnePlace, Queued

(* The submitted task gets a worker of its own.                            *)
LEMMA RunsNewTask ==
  ASSUME PlacesInv, BeingSubmitted, ~BeingSubmitted', running' = running \cup {newTask},
         UNCHANGED <<screen, started, waiting>>
  PROVE  PlacesInv'
<1> USE DEF PlacesInv
<1>1. ScreensOK' /\ OnlyGiven'
  BY DEF ScreensOK, OnlyGiven, Given
<1>2. \A i \in 1..Len(waiting) : waiting[i] # newTask
  BY DEF InOnePlace, Queued
<1>3. InOnePlace'
  BY <1>2 DEF InOnePlace
<1> QED
  BY <1>1, <1>3

LEMMA QueuesNewTask ==
  ASSUME PlacesInv, BeingSubmitted, ~BeingSubmitted', waiting' = Append(waiting, newTask),
         UNCHANGED <<screen, started, running>>
  PROVE  PlacesInv'
<1> USE DEF PlacesInv
<1>1. ScreensOK' /\ Given' = Given
  BY DEF ScreensOK, Given
<1>2. OnlyGiven'
  BY <1>1 DEF OnlyGiven
<1>3. /\ Len(waiting') = Len(waiting) + 1 /\ Len(waiting) \in Nat
      /\ waiting'[Len(waiting) + 1] = newTask
      /\ \A i \in 1..Len(waiting) : waiting'[i] = waiting[i]
  BY DEF OnlyGiven
<1>4. \A i \in 1..Len(waiting') : i \in 1..Len(waiting) \/ i = Len(waiting) + 1
  BY <1>3
<1>5. /\ newTask \notin running
      /\ \A i \in 1..Len(waiting) : waiting[i] # newTask /\ waiting[i] \notin running
  BY DEF InOnePlace, Queued
<1>6. \A i \in 1..Len(waiting') : waiting'[i] \notin running'
  BY <1>3, <1>4, <1>5
<1>7. ASSUME NEW i \in 1..Len(waiting'), NEW j \in 1..Len(waiting'), waiting'[i] = waiting'[j]
      PROVE  i = j
  BY <1>3, <1>4, <1>5, <1>7 DEF InOnePlace
<1> QED
  BY <1>1, <1>2, <1>6, <1>7 DEF InOnePlace

LEMMA TakeKeepsPlaces ==
  ASSUME PlacesInv, TakeTask
  PROVE  PlacesInv' /\ Head(waiting) \notin running
<1> USE DEF PlacesInv
<1>1. /\ UNCHANGED <<screen, started, submitting, newTask>>
      /\ running' = running \cup {Head(waiting)}
      /\ waiting # <<>> /\ waiting' = Tail(waiting)
  BY DEF TakeTask, screenVars, submitVars
<1>2. ScreensOK' /\ Given' = Given
  BY <1>1 DEF ScreensOK, Given
<1>3. /\ waiting' \in Seq(Given) /\ Len(waiting') = Len(waiting) - 1
      /\ Len(waiting) \in Nat \ {0} /\ Len(waiting') \in Nat
      /\ Head(waiting) = waiting[1] /\ Head(waiting) \in Given
      /\ \A i \in 1..Len(waiting') : waiting'[i] = waiting[i + 1]
  BY <1>1 DEF OnlyGiven
<1>4. OnlyGiven'
  BY <1>1, <1>2, <1>3 DEF OnlyGiven, BeingSubmitted
<1>5. 1 \in 1..Len(waiting)
      /\ \A i \in 1..Len(waiting') : i + 1 \in 1..Len(waiting) /\ i + 1 # 1
  BY <1>3
<1>6. \A i \in 1..Len(waiting) : waiting[i] \notin running
  BY DEF InOnePlace
<1>7. \A i, j \in 1..Len(waiting) : waiting[i] = waiting[j] => i = j
  BY DEF InOnePlace
<1>8. BeingSubmitted => \A i \in 1..Len(waiting) : waiting[i] # newTask
  BY DEF InOnePlace, Queued
<1>9. InOnePlace'
  <2>1. ASSUME NEW i \in 1..Len(waiting') PROVE waiting'[i] \notin running'
    <3>1. waiting'[i] = waiting[i + 1] /\ i + 1 \in 1..Len(waiting)
      BY <1>3, <1>5
    <3>2. waiting[i + 1] # waiting[1]
      BY <1>5, <1>7, <3>1
    <3>3. waiting[i + 1] \notin running
      BY <1>6, <3>1
    <3> QED
      BY <1>1, <1>3, <3>1, <3>2, <3>3, Zenon
  <2>2. ASSUME NEW i \in 1..Len(waiting'), NEW j \in 1..Len(waiting'),
               waiting'[i] = waiting'[j]
        PROVE  i = j
    <3>1. /\ waiting'[i] = waiting[i + 1] /\ i + 1 \in 1..Len(waiting)
          /\ waiting'[j] = waiting[j + 1] /\ j + 1 \in 1..Len(waiting)
      BY <1>3, <1>5
    <3>2. i + 1 = j + 1
      BY <1>7, <2>2, <3>1
    <3> QED
      BY <3>2
  <2>3. BeingSubmitted' => newTask' \notin running'
    BY <1>1, <1>3, <1>5, <1>8 DEF InOnePlace, BeingSubmitted
  <2>4. BeingSubmitted' => \A i \in 1..Len(waiting') : waiting'[i] # newTask'
    BY <1>1, <1>3, <1>5, <1>8 DEF BeingSubmitted
  <2> QED
    BY <2>1, <2>2, <2>3, <2>4 DEF InOnePlace, Queued
<1> QED
  BY <1>2, <1>3, <1>4, <1>5, <1>6, <1>9

(* Every step keeps each task in one place.                                *)
LEMMA PlacesStay ==
  ASSUME PlacesInv, PoolNext
  PROVE  PlacesInv'
<1>1. CASE \E s \in Screens : ScreenStep(s)
  BY <1>1, ScreenKeepsPlaces
<1>2. CASE CountWorkers
  <2>1. BeingSubmitted /\ UNCHANGED <<screen, started, waiting, newTask>>
    BY <1>2 DEF CountWorkers, BeingSubmitted, screenVars
  <2>2. CASE running' = running \cup {newTask} /\ submitting' = "no"
    BY <2>1, <2>2, RunsNewTask DEF BeingSubmitted
  <2>3. CASE UNCHANGED running
    BY <2>1, <2>3, PlacesUnchanged
  <2> QED
    BY <1>2, <2>2, <2>3 DEF CountWorkers
<1>3. CASE OfferTask
  <2>1. BeingSubmitted /\ UNCHANGED <<screen, started, newTask>> /\ ~BeingSubmitted'
    BY <1>3 DEF OfferTask, BeingSubmitted, screenVars
  <2>2. CASE waiting' = Append(waiting, newTask) /\ UNCHANGED running
    BY <2>1, <2>2, QueuesNewTask
  <2>3. CASE running' = running \cup {newTask} /\ UNCHANGED waiting
    BY <2>1, <2>3, RunsNewTask
  <2>4. CASE UNCHANGED <<waiting, running>>
    BY <2>1, <2>4, PlacesUnchanged
  <2> QED
    BY <1>3, <2>2, <2>3, <2>4 DEF OfferTask
<1>4. CASE Recheck
  BY <1>4, PlacesUnchanged DEF Recheck, BeingSubmitted, screenVars
<1>5. CASE TakeTask
  BY <1>5, TakeKeepsPlaces
<1>6. CASE PollExpires \/ WorkerGoes \/ WorkerGone \/ \E t \in running : TaskEnds(t)
  <2>1. UNCHANGED <<screen, started, waiting, submitting, newTask>> /\ running' \subseteq running
    BY <1>6 DEF PollExpires, WorkerGoes, WorkerGone, TaskEnds, screenVars, submitVars
  <2> QED
    BY <2>1, PlacesUnchanged DEF BeingSubmitted
<1> QED
  BY <1>1, <1>2, <1>3, <1>4, <1>5, <1>6 DEF PoolNext, WorkerStep

-----------------------------------------------------------------------------
(* The workers are counted: only WorkerGoes makes them fewer.              *)

LEMMA MoreWorkers ==
  ASSUME WorkTypeOK, NEW t, running' = running \cup {t}, UNCHANGED <<polling, expired>>
  PROVE  Workers' >= Workers
<1>1. CASE t \in running
  <2>1. running' = running
    BY <1>1
  <2> QED
    BY <2>1, WorkersIsNat DEF Workers
<1>2. CASE t \notin running
  <2>1. Cardinality(running') = Cardinality(running) + 1
    BY <1>2, FS_AddElement DEF WorkTypeOK
  <2> QED
    BY <2>1, WorkersIsNat DEF Workers, WorkTypeOK
<1> QED
  BY <1>1, <1>2

LEMMA WorkersStay ==
  ASSUME WorkTypeOK, PlacesInv, PoolNext
  PROVE  \/ Workers' >= Workers
         \/ WorkerGoes /\ ((waiting = <<>> /\ submitting # "offer") \/ raced')
<1> USE DEF WorkTypeOK
<1>0. Workers \in Nat /\ Cardinality(running) \in Nat
  BY WorkersIsNat
<1>1. CASE \E s \in Screens : ScreenStep(s)
  <2>1. UNCHANGED <<running, polling, expired>>
    BY <1>1 DEF ScreenStep, OpenScreen, StartAudio, StopAudio, DestroyScreen, Submit, workVars
  <2> QED
    BY <1>0, <2>1 DEF Workers
<1>2. CASE CountWorkers \/ OfferTask
  <2>1. UNCHANGED <<polling, expired>>
        /\ (running' = running \cup {newTask} \/ UNCHANGED running)
    BY <1>2 DEF CountWorkers, OfferTask
  <2>2. CASE running' = running \cup {newTask}
    BY <2>1, <2>2, MoreWorkers
  <2>3. CASE UNCHANGED running
    BY <1>0, <2>1, <2>3 DEF Workers
  <2> QED
    BY <2>1, <2>2, <2>3
<1>3. CASE Recheck
  <2>1. UNCHANGED <<running, expired>> /\ polling' = IF Workers = 0 THEN 1 ELSE polling
    BY <1>3 DEF Recheck
  <2> QED
    BY <1>0, <2>1 DEF Workers
<1>4. CASE TakeTask
  <2>1. /\ running' = running \cup {Head(waiting)} /\ polling' = polling - 1
        /\ UNCHANGED expired
    BY <1>4 DEF TakeTask
  <2>2. Head(waiting) \notin running
    BY <1>4, TakeKeepsPlaces
  <2>3. Cardinality(running') = Cardinality(running) + 1
    BY <2>1, <2>2, FS_AddElement
  <2> QED
    BY <1>0, <2>1, <2>3 DEF Workers
<1>5. CASE PollExpires
  BY <1>0, <1>5 DEF PollExpires, Workers
<1>6. CASE WorkerGoes
  <2>1. UNCHANGED running /\ expired' = expired - 1
    BY <1>6 DEF WorkerGoes
  <2>2. CASE raced' = (raced \/ waiting # <<>> \/ submitting = "offer")
    BY <1>6, <2>2
  <2>3. CASE polling' = polling + 1
    BY <1>0, <2>1, <2>3 DEF Workers
  <2> QED
    BY <1>6, <2>2, <2>3 DEF WorkerGoes
<1>7. CASE WorkerGone
  <2>1. UNCHANGED <<running, expired>>
        /\ (polling' = polling \/ (Workers = 0 /\ polling' = 1))
    BY <1>7 DEF WorkerGone
  <2> QED
    BY <1>0, <2>1 DEF Workers
<1>8. ASSUME NEW t \in running, TaskEnds(t) PROVE Workers' >= Workers
  BY <1>0, <1>8, EndKeepsWorkers
<1> QED
  BY <1>1, <1>2, <1>3, <1>4, <1>5, <1>6, <1>7, <1>8 DEF PoolNext, WorkerStep

(* A task comes to the queue only when the core was found full.            *)
LEMMA CoreStays ==
  ASSUME StarvedInv, PoolNext
  PROVE  CoreIsThere'
<1> SUFFICES ASSUME waiting' # <<>> \/ submitting' = "offer", ~raced'
             PROVE  Workers' >= Core
  BY DEF CoreIsThere
<1> USE DEF StarvedInv, PoolInv
<1>0. Workers \in Nat /\ Core \in Nat /\ Workers' \in Nat
  <2>1. WorkTypeOK'
    BY ScreenKeepsWork, ExecuteKeepsWork, WorkerKeepsWork DEF PoolNext
  <2>2. Cardinality(running') \in Nat
    BY <2>1, FS_CardinalityType DEF WorkTypeOK
  <2>3. Workers' \in Nat
    BY <2>1, <2>2 DEF Workers, WorkTypeOK
  <2> QED
    BY <2>3, WorkersIsNat, PoolAssumption
<1>1. ~raced
  BY DEF PoolNext, ScreenStep, OpenScreen, StartAudio, StopAudio, DestroyScreen, Submit,
         workVars, CountWorkers, OfferTask, Recheck, WorkerStep, TakeTask, PollExpires,
         WorkerGoes, WorkerGone, TaskEnds
<1>2. CASE Workers >= Core /\ Workers' >= Workers
  BY <1>0, <1>2
<1>3. CASE submitting = "count" /\ submitting' = "offer"
  <2>1. CountWorkers
    BY <1>3 DEF PoolNext, ScreenStep, OpenScreen, StartAudio, StopAudio, DestroyScreen,
                MainIsFree, OfferTask, Recheck, WorkerStep, TakeTask, PollExpires,
                WorkerGoes, WorkerGone, TaskEnds, submitVars
  <2>2. Workers >= Core /\ UNCHANGED <<running, polling, expired>>
    BY <1>3, <2>1 DEF CountWorkers
  <2> QED
    BY <1>0, <2>2 DEF Workers
<1>4. CASE ~(submitting = "count" /\ submitting' = "offer")
  <2>1. waiting # <<>> \/ submitting = "offer"
    <3>1. waiting' # <<>> => waiting # <<>> \/ submitting = "offer"
      BY DEF PoolNext, ScreenStep, OpenScreen, StartAudio, StopAudio, DestroyScreen, Submit,
             workVars, CountWorkers, OfferTask, Recheck, WorkerStep, TakeTask, PollExpires,
             WorkerGoes, WorkerGone, TaskEnds
    <3>2. submitting' = "offer" => submitting = "offer"
      BY <1>4 DEF PoolNext, ScreenStep, OpenScreen, StartAudio, StopAudio, DestroyScreen,
             Submit, submitVars, CountWorkers, OfferTask, Recheck, WorkerStep, TakeTask,
             PollExpires, WorkerGoes, WorkerGone, TaskEnds
    <3> QED
      BY <3>1, <3>2
  <2>2. Workers >= Core
    BY <1>1, <2>1 DEF CoreIsThere
  <2>3. Workers' >= Workers
    BY <2>1, WorkersStay
  <2> QED
    BY <1>2, <2>2, <2>3
<1> QED
  BY <1>3, <1>4

(* Whatever the sizes, the screens and the number of lives: a task that    *)
(* waits while no worker will ever come to it has Core tasks before it     *)
(* that do not end, unless the pool let a worker go as the task came       *)
(* (LiveTaskManager.java 12, 23; CameraLiveActivity 260, 572-574).         *)
THEOREM StarvedTheorem == PoolSpec => []StarvedByLasting
<1>1. PoolInit => StarvedInv
  <2> SUFFICES ASSUME PoolInit PROVE StarvedInv
    OBVIOUS
  <2>1. PoolInv
    BY FS_EmptySet DEF PoolInit, PoolInv, WorkTypeOK, NoTaskWithoutWorker
  <2>2. Len(waiting) = 0 /\ running = {} /\ waiting \in Seq(Given) /\ ~BeingSubmitted
    BY DEF PoolInit, BeingSubmitted
  <2>3. PlacesInv
    BY <2>2 DEF PoolInit, PlacesInv, ScreensOK, OnlyGiven, InOnePlace
  <2>4. CoreIsThere
    BY DEF PoolInit, CoreIsThere
  <2> QED
    BY <2>1, <2>3, <2>4 DEF StarvedInv
<1>2. ASSUME StarvedInv, [PoolNext]_poolVars PROVE StarvedInv'
  <2>1. CASE UNCHANGED poolVars
    <3>1. UNCHANGED <<screen, started, submitting, newTask, waiting, running, polling, expired,
                      leaving, raced>>
      BY <2>1 DEF poolVars, screenVars, submitVars, workVars
    <3>2. PlacesInv'
      BY <1>2, <3>1, PlacesUnchanged DEF StarvedInv, BeingSubmitted
    <3>3. PoolInv' /\ CoreIsThere'
      BY <1>2, <3>1 DEF StarvedInv, PoolInv, WorkTypeOK, NoTaskWithoutWorker, CoreIsThere,
                        Workers
    <3> QED
      BY <3>2, <3>3 DEF StarvedInv
  <2>2. CASE PoolNext
    <3>1. PoolInv'
      BY <1>2, <2>2, ScreenKeepsWork, ExecuteKeepsWork, WorkerKeepsWork
         DEF PoolNext, StarvedInv
    <3>2. PlacesInv'
      BY <1>2, <2>2, PlacesStay DEF StarvedInv
    <3>3. CoreIsThere'
      BY <1>2, <2>2, CoreStays
    <3> QED
      BY <3>1, <3>2, <3>3 DEF StarvedInv
  <2> QED
    BY <1>2, <2>1, <2>2
<1>3. StarvedInv => StarvedByLasting
  <2> SUFFICES ASSUME StarvedInv, waiting # <<>>, polling + expired + leaving = 0, ~raced
               PROVE  Cardinality(running) >= Core
    BY DEF StarvedByLasting
  <2>1. Workers >= Core
    BY DEF StarvedInv, CoreIsThere
  <2>2. Workers = Cardinality(running)
    BY WorkersIsNat DEF StarvedInv, PoolInv, WorkTypeOK, Workers
  <2> QED
    BY <2>1, <2>2
<1> QED
  BY <1>1, <1>2, <1>3, PTL DEF PoolSpec

-----------------------------------------------------------------------------
(* The list of servers.                                                    *)

Offered == [index : Rows, url : Addresses \cup {Empty}]

(* What memory and file hold was selected once, and used or empty.         *)
Trusted(p) == p.index \in chosen /\ p.url \in used \cup {Empty}

ServerInv ==
  /\ preferences \in Offered /\ file \in Offered
  /\ host \in Addresses \cup {Empty}
  /\ Trusted(preferences) /\ Trusted(file)

LEMMA InitTrusted == ServerListInit => ServerInv
BY ServerAssumption DEF ServerListInit, ServerInv, Offered, Trusted

LEMMA StepTrusted ==
  ASSUME ServerInv, [ServerListNext]_serverListVars
  PROVE  ServerInv'
<1> USE DEF ServerInv, Offered, Trusted
<1>1. ASSUME NEW row \in Rows, SelectServer(row) PROVE ServerInv'
  BY <1>1 DEF SelectServer
<1>2. ASSUME NEW url \in Addresses \cup {Empty}, EditHost(url) PROVE ServerInv'
  BY <1>2 DEF EditHost
<1>3. CASE GoLive
  BY <1>3 DEF GoLive
<1>4. CASE WriteFile
  BY <1>4 DEF WriteFile
<1>5. CASE Restart
  BY <1>5 DEF Restart
<1>6. CASE UNCHANGED serverListVars
  BY <1>6 DEF serverListVars
<1> QED
  BY <1>1, <1>2, <1>3, <1>4, <1>5, <1>6 DEF ServerListNext

(* Memory and file never hold a row nobody selected, or an address no live *)
(* was started with, whenever the file is written (MainActivity.kt 48-50,  *)
(* 104-106; RtmpServerAdapter.kt 78, 102).                                 *)
THEOREM ServersTrusted == ServerListSpec => []ServerInv
BY InitTrusted, StepTrusted, PTL DEF ServerListSpec

(* Whenever the process dies, the list comes back with one server the user *)
(* selected, and with an address that was used or none.                    *)
THEOREM RestartTheorem == ServerListSpec => RestartOffersUsed
<1>1. ASSUME ServerInv, [ServerListNext]_serverListVars
      PROVE  [RestartStep]_serverListVars
  <2>1. ASSUME Restart
        PROVE  /\ Cardinality(selected') = 1 /\ selected' \subseteq chosen
               /\ host' \in used \cup {Empty}
    <3>1. Trusted(preferences')
      BY <1>1, <2>1 DEF Restart, ServerInv, Trusted
    <3>2. selected' = {preferences'.index} /\ host' = preferences'.url
      BY <2>1 DEF Restart
    <3> QED
      BY <3>1, <3>2, FS_Singleton DEF Trusted
  <2> QED
    BY <2>1 DEF RestartStep
<1> QED
  BY <1>1, ServersTrusted, PTL DEF ServerListSpec, RestartOffersUsed

-----------------------------------------------------------------------------
(* The way of a picture.                                                   *)

Picture == [n : Nat, camera : Cameras]
Array   == [size : Nat, content : Picture]

PipelineTypeOK ==
  /\ camera \in Cameras /\ front \in Cameras /\ rotation \in Cameras
  /\ swap \in {"no", "rebind"} /\ isInitYUV \in BOOLEAN
  /\ width \in Nat /\ pictures \in Nat /\ codecSize \in Nat /\ task \in Nat
  /\ analyzer \in {"idle", "allocate", "mark", "fill", "put"}
  /\ pc \in {"take", "convert", "rotate", "encode"}
  /\ image \in Picture /\ encoded \in Picture
  /\ yuv \in Seq(Array) /\ nv12 \in Array /\ tasks \in Seq(Nat)
  /\ mixed \in BOOLEAN /\ askew \in BOOLEAN
  /\ analyzer \in {"mark", "fill", "put"} \/ isInitYUV => yuv # <<>>
  /\ \A i \in 1..Len(tasks) : tasks[i] \in 1..Len(yuv)
  /\ pc # "take" => task \in 1..Len(yuv)

LEMMA InitHasTypes == PipelineInit => PipelineTypeOK
<1>1. <<>> \in Seq(Array) /\ <<>> \in Seq(Nat) /\ Len(<<>>) = 0
  BY EmptySeq
<1>2. Blank \in Picture
  BY PipelineAssumption DEF Blank, Picture
<1>3. [size |-> 0, content |-> Blank] \in Array
  BY <1>2 DEF Array
<1>4. FirstCamera \in Cameras
  BY PipelineAssumption
<1> SUFFICES ASSUME PipelineInit PROVE PipelineTypeOK
  OBVIOUS
<1> USE DEF PipelineInit
<1>5. yuv \in Seq(Array) /\ nv12 \in Array /\ tasks \in Seq(Nat)
  BY <1>1, <1>3
<1>6. image \in Picture /\ encoded \in Picture
  BY <1>2
<1>7. \A i \in 1..Len(tasks) : tasks[i] \in 1..Len(yuv)
  <2>1. 1..Len(tasks) = {}
    BY <1>1
  <2> QED
    BY <2>1
<1>8. /\ camera \in Cameras /\ front \in Cameras /\ rotation \in Cameras
      /\ swap \in {"no", "rebind"} /\ isInitYUV \in BOOLEAN /\ ~isInitYUV
      /\ mixed \in BOOLEAN /\ askew \in BOOLEAN
  BY <1>4
<1>9. /\ width \in Nat /\ pictures \in Nat /\ codecSize \in Nat /\ task \in Nat
      /\ analyzer = "idle" /\ pc = "take"
  OBVIOUS
<1> QED
  BY <1>5, <1>6, <1>7, <1>8, <1>9 DEF PipelineTypeOK

LEMMA SizeIsNat ==
  ASSUME NEW c \in Cameras
  PROVE  SizeOf[c] \in Nat /\ SizeOf[c] > 0
BY PipelineAssumption

LEMMA BlankIsPicture == Blank \in Picture
BY PipelineAssumption DEF Blank, Picture

LEMMA LastIsArray ==
  ASSUME PipelineTypeOK, yuv # <<>>
  PROVE  Len(yuv) \in 1..Len(yuv) /\ yuv[Len(yuv)] \in Array
BY EmptySeq, ElementOfSeq, LenProperties DEF PipelineTypeOK

(* What each action of the analyzer and of the consumer does to the arrays *)
(* and the tasks.                                                          *)
LEMMA FillWrites ==
  ASSUME PipelineTypeOK, Fill, analyzer' = "put"
  PROVE  /\ yuv' \in Seq(Array) /\ Len(yuv') = Len(yuv)
         /\ \A k \in 1..Len(yuv) :
              /\ yuv'[k].size = yuv[k].size
              /\ yuv'[k].content = IF k = Len(yuv) THEN image ELSE yuv[k].content
<1> DEFINE e == [yuv[Len(yuv)] EXCEPT !.content = image]
<1>1. yuv # <<>> /\ Len(yuv) \in 1..Len(yuv) /\ yuv[Len(yuv)] \in Array
  BY LastIsArray DEF Fill, PipelineTypeOK
<1>2. e \in Array /\ e.content = image /\ e.size = yuv[Len(yuv)].size
  BY <1>1 DEF Array, PipelineTypeOK
<1>3. yuv' = [yuv EXCEPT ![Len(yuv)] = e]
  BY DEF Fill
<1>4. yuv \in Seq(Array)
  BY DEF PipelineTypeOK
<1> HIDE DEF e
<1>5. /\ yuv' \in Seq(Array) /\ Len(yuv') = Len(yuv)
      /\ \A k \in 1..Len(yuv) : yuv'[k] = IF k = Len(yuv) THEN e ELSE yuv[k]
  BY <1>1, <1>2, <1>3, <1>4, ExceptSeq
<1> QED
  BY <1>2, <1>5

LEMMA StepKeepsPipelineTypes ==
  ASSUME PipelineTypeOK, [PipelineNext]_pipelineVars
  PROVE  PipelineTypeOK'
<1> USE DEF PipelineTypeOK, swapVars, sizeVars, analyzerVars, consumerVars, Break
<1>1. CASE SwapReset
  BY <1>1 DEF SwapReset
<1>2. CASE SwapRebind
  BY <1>2 DEF SwapRebind
<1>3. CASE Analyze
  BY <1>3, SizeIsNat DEF Analyze, Picture
<1>4. CASE Allocate
  <2>1. [size |-> SizeOf[image.camera], content |-> Blank] \in Array
    BY SizeIsNat, BlankIsPicture DEF Picture, Array
  <2>2. yuv' \in Seq(Array) /\ Len(yuv') = Len(yuv) + 1 /\ Len(yuv) \in Nat
    BY <1>4, <2>1, AppendProperties, LenProperties DEF Allocate
  <2>3. nv12' \in Array
    BY <1>4, BlankIsPicture DEF Allocate, Array
  <2>4. yuv' # <<>>
    BY <2>2, EmptySeq
  <2>5. 1..Len(yuv) \subseteq 1..Len(yuv')
    BY <2>2
  <2> QED
    BY <1>4, <2>2, <2>3, <2>4, <2>5 DEF Allocate
<1>5. CASE MarkInit
  BY <1>5 DEF MarkInit
<1>6. CASE Fill
  <2>1. CASE analyzer' = "put"
    <3>1. yuv' \in Seq(Array) /\ Len(yuv') = Len(yuv)
      BY <1>6, <2>1, FillWrites
    <3>2. yuv' # <<>>
      BY <1>6, <3>1, EmptySeq DEF Fill
    <3> QED
      BY <1>6, <3>1, <3>2 DEF Fill
  <2>2. CASE UNCHANGED <<yuv, analyzer>>
    BY <1>6, <2>2 DEF Fill
  <2> QED
    BY <1>6, <2>1, <2>2 DEF Fill
<1>7. CASE Put
  <2>1. Len(yuv) \in 1..Len(yuv)
    BY <1>7, LastIsArray DEF Put
  <2>2. /\ tasks' \in Seq(Nat)
        /\ \A i \in 1..Len(tasks') : tasks'[i] \in 1..Len(yuv)
    BY <1>7, <2>1, LenProperties, AppendProperties DEF Put
  <2> QED
    BY <1>7, <2>2 DEF Put
<1>8. CASE Take
  <2>1. Tail(tasks) \in Seq(Nat) /\ Head(tasks) = tasks[1] /\ Len(tasks) \in Nat
    BY <1>8, HeadTailProperties, LenProperties DEF Take
  <2>2. 1 \in 1..Len(tasks)
    BY <1>8, <2>1, EmptySeq DEF Take
  <2>3. Head(tasks) \in Nat /\ Head(tasks) \in 1..Len(yuv)
    BY <2>1, <2>2
  <2>4. \A i \in 1..Len(Tail(tasks)) :
          Tail(tasks)[i] = tasks[i + 1] /\ i + 1 \in 1..Len(tasks)
    BY <1>8, <2>1, HeadTailProperties DEF Take
  <2> QED
    BY <1>8, <2>1, <2>3, <2>4 DEF Take
<1>9. CASE Convert
  <2>1. yuv[task] \in Array
    BY <1>9, ElementOfSeq DEF Convert
  <2>2. nv12' \in Array
    BY <1>9, <2>1 DEF Convert, Array
  <2> QED
    BY <1>9, <2>2 DEF Convert
<1>10. CASE Rotate
  BY <1>10 DEF Rotate
<1>11. CASE Encode
  <2>1. encoded' \in Picture /\ codecSize' \in Nat
    BY <1>11 DEF Encode, Array
  <2> QED
    BY <1>11, <2>1 DEF Encode
<1>12. CASE UNCHANGED pipelineVars
  BY <1>12 DEF pipelineVars
<1> QED
  BY <1>1, <1>2, <1>3, <1>4, <1>5, <1>6, <1>7, <1>8, <1>9, <1>10, <1>11, <1>12
     DEF PipelineNext

-----------------------------------------------------------------------------
(* The order of the pictures.                                              *)

(* A later array holds a later picture, or none yet.                       *)
NotBefore(n, from) ==
  \A k \in 1..Len(yuv) :
    k >= from => yuv[k].content.n = 0 \/ n <= yuv[k].content.n

ArraysOrdered ==
  \A k \in 1..Len(yuv) : yuv[k].content.n <= pictures /\ NotBefore(yuv[k].content.n, k)

TasksOrdered ==
  /\ task <= Len(yuv)
  /\ \A i \in 1..Len(tasks) : task <= tasks[i]
  /\ \A i, j \in 1..Len(tasks) : i <= j => tasks[i] <= tasks[j]

EncodedOrdered == encoded.n <= pictures /\ NotBefore(encoded.n, task)

ConvertedOrdered ==
  /\ nv12.content.n <= pictures
  /\ pc \in {"rotate", "encode"} /\ nv12.content.n # 0 =>
       encoded.n <= nv12.content.n /\ NotBefore(nv12.content.n, task)

Ordered ==
  /\ image.n = pictures
  /\ ArraysOrdered /\ TasksOrdered /\ EncodedOrdered /\ ConvertedOrdered

LEMMA NumbersAreNat ==
  ASSUME PipelineTypeOK
  PROVE  /\ Len(yuv) \in Nat /\ Len(tasks) \in Nat
         /\ \A k \in 1..Len(yuv) : yuv[k].content.n \in Nat
         /\ image.n \in Nat /\ encoded.n \in Nat /\ nv12.content.n \in Nat
         /\ pictures \in Nat /\ task \in Nat
         /\ \A i \in 1..Len(tasks) : tasks[i] \in Nat
<1>1. \A k \in 1..Len(yuv) : yuv[k] \in Array
  BY ElementOfSeq DEF PipelineTypeOK
<1>2. \A i \in 1..Len(tasks) : tasks[i] \in Nat
  BY ElementOfSeq DEF PipelineTypeOK
<1> QED
  BY <1>1, <1>2, LenProperties DEF PipelineTypeOK, Array, Picture

LEMMA InitIsOrdered == PipelineInit => Ordered
<1> SUFFICES ASSUME PipelineInit PROVE Ordered
  OBVIOUS
<1>1. Len(yuv) = 0 /\ Len(tasks) = 0
  BY EmptySeq DEF PipelineInit
<1>2. /\ image.n = 0 /\ encoded.n = 0 /\ nv12.content.n = 0 /\ pictures = 0
      /\ pc = "take" /\ task = 0
  BY DEF PipelineInit, Blank
<1> QED
  BY <1>1, <1>2 DEF Ordered, ArraysOrdered, TasksOrdered, EncodedOrdered,
                    ConvertedOrdered, NotBefore

(* A greater bound on the pictures does no harm.                           *)
LEMMA AnalyzeKeepsOrder ==
  ASSUME PipelineTypeOK, Ordered, Analyze PROVE Ordered'
<1>1. /\ image'.n = pictures' /\ pictures' = pictures + 1
      /\ UNCHANGED <<yuv, tasks, task, pc, encoded, nv12>>
  BY DEF Analyze, consumerVars
<1>2. \A n \in Nat : n <= pictures => n <= pictures'
  BY <1>1, NumbersAreNat
<1>3. ArraysOrdered'
  BY <1>1, <1>2, NumbersAreNat DEF Ordered, ArraysOrdered, NotBefore
<1>4. TasksOrdered'
  BY <1>1 DEF Ordered, TasksOrdered
<1>5. EncodedOrdered' /\ ConvertedOrdered'
  BY <1>1, <1>2, NumbersAreNat
     DEF Ordered, EncodedOrdered, ConvertedOrdered, NotBefore
<1> QED
  BY <1>1, <1>3, <1>4, <1>5 DEF Ordered

LEMMA AllocateKeepsOrder ==
  ASSUME PipelineTypeOK, Ordered, Allocate PROVE Ordered'
<1>1. /\ UNCHANGED <<image, pictures, tasks, task, pc, encoded>>
      /\ nv12'.content.n = 0
  BY DEF Allocate, consumerVars, Blank
<1>2. [size |-> SizeOf[image.camera], content |-> Blank] \in Array
  BY SizeIsNat, BlankIsPicture DEF PipelineTypeOK, Picture, Array
<1>3. /\ Len(yuv') = Len(yuv) + 1
      /\ \A k \in 1..Len(yuv) : yuv'[k] = yuv[k]
      /\ yuv'[Len(yuv) + 1].content.n = 0
  BY <1>2, AppendProperties DEF Allocate, PipelineTypeOK, Blank
<1>4. \A k \in 1..Len(yuv') :
        yuv'[k].content.n = 0 \/ (k \in 1..Len(yuv) /\ yuv'[k] = yuv[k])
  BY <1>3, NumbersAreNat
<1>5. ASSUME NEW n, NEW from, NotBefore(n, from)
      PROVE  \A k \in 1..Len(yuv') :
               k >= from => yuv'[k].content.n = 0 \/ n <= yuv'[k].content.n
  BY <1>4, <1>5 DEF NotBefore
<1>6. ArraysOrdered'
  <2> SUFFICES ASSUME NEW k \in 1..Len(yuv')
               PROVE  /\ yuv'[k].content.n <= pictures
                      /\ \A l \in 1..Len(yuv') : l >= k =>
                           yuv'[l].content.n = 0 \/ yuv'[k].content.n <= yuv'[l].content.n
    BY <1>1 DEF ArraysOrdered, NotBefore
  <2>1. CASE k \in 1..Len(yuv) /\ yuv'[k] = yuv[k]
    BY <1>5, <2>1 DEF Ordered, ArraysOrdered
  <2>2. CASE yuv'[k].content.n = 0
    <3>1. \A l \in 1..Len(yuv') : yuv'[l].content.n = 0 \/ yuv'[l].content.n \in Nat
      BY <1>4, NumbersAreNat
    <3> QED
      BY <2>2, <3>1, NumbersAreNat
  <2> QED
    BY <1>4, <2>1, <2>2
<1>7. TasksOrdered'
  BY <1>1, <1>3, NumbersAreNat DEF Ordered, TasksOrdered
<1>8. EncodedOrdered'
  BY <1>1, <1>5 DEF Ordered, EncodedOrdered, NotBefore
<1>9. ConvertedOrdered'
  BY <1>1, NumbersAreNat DEF ConvertedOrdered
<1> QED
  BY <1>1, <1>6, <1>7, <1>8, <1>9 DEF Ordered

(* The array that is filled is the last one.                               *)
LEMMA FillKeepsOrder ==
  ASSUME PipelineTypeOK, Ordered, Fill PROVE Ordered'
<1>1. UNCHANGED <<image, pictures, tasks, task, pc, encoded, nv12>>
  BY DEF Fill, consumerVars
<1>2. CASE analyzer' = "put"
  <2>1. /\ Len(yuv') = Len(yuv)
        /\ \A k \in 1..Len(yuv) :
             yuv'[k].content.n = IF k = Len(yuv) THEN pictures ELSE yuv[k].content.n
    BY <1>2, FillWrites DEF Ordered
  <2>2. ASSUME NEW n \in Nat, NEW from \in Nat, n <= pictures, NotBefore(n, from)
        PROVE  \A k \in 1..Len(yuv') :
                 k >= from => yuv'[k].content.n = 0 \/ n <= yuv'[k].content.n
    BY <2>1, <2>2 DEF NotBefore
  <2>3. ArraysOrdered'
    <3> SUFFICES ASSUME NEW k \in 1..Len(yuv)
                 PROVE  /\ yuv'[k].content.n <= pictures
                        /\ \A l \in 1..Len(yuv) : l >= k =>
                             yuv'[l].content.n = 0 \/ yuv'[k].content.n <= yuv'[l].content.n
      BY <1>1, <2>1 DEF ArraysOrdered, NotBefore
    <3>1. CASE k = Len(yuv)
      <4>1. \A l \in 1..Len(yuv) : l >= k => l = k
        BY <3>1, NumbersAreNat
      <4> QED
        BY <2>1, <3>1, <4>1, NumbersAreNat
    <3>2. CASE k # Len(yuv)
      <4>1. yuv'[k].content.n = yuv[k].content.n
        BY <2>1, <3>2
      <4>2. yuv[k].content.n <= pictures /\ NotBefore(yuv[k].content.n, k)
        BY DEF Ordered, ArraysOrdered
      <4>3. yuv[k].content.n \in Nat /\ k \in Nat
        BY NumbersAreNat
      <4> QED
        BY <2>1, <2>2, <4>1, <4>2, <4>3
    <3> QED
      BY <3>1, <3>2
  <2>4. EncodedOrdered' /\ ConvertedOrdered'
    BY <1>1, <2>2, NumbersAreNat DEF Ordered, EncodedOrdered, ConvertedOrdered, NotBefore
  <2>5. TasksOrdered'
    BY <1>1, <2>1 DEF Ordered, TasksOrdered
  <2> QED
    BY <1>1, <2>3, <2>4, <2>5 DEF Ordered
<1>3. CASE UNCHANGED yuv
  BY <1>1, <1>3 DEF Ordered, ArraysOrdered, TasksOrdered, EncodedOrdered,
                    ConvertedOrdered, NotBefore
<1> QED
  BY <1>2, <1>3 DEF Fill

LEMMA PutKeepsOrder ==
  ASSUME PipelineTypeOK, Ordered, Put PROVE Ordered'
<1>1. UNCHANGED <<image, pictures, yuv, task, pc, encoded, nv12>>
  BY DEF Put, consumerVars, sizeVars
<1>2. /\ Len(tasks') = Len(tasks) + 1 /\ tasks'[Len(tasks) + 1] = Len(yuv)
      /\ \A i \in 1..Len(tasks) : tasks'[i] = tasks[i]
  BY NumbersAreNat, AppendProperties DEF Put, PipelineTypeOK
<1>3. task <= Len(yuv) /\ \A i \in 1..Len(tasks) : tasks[i] <= Len(yuv)
  BY NumbersAreNat DEF PipelineTypeOK, Ordered, TasksOrdered
<1>4. \A i \in 1..Len(tasks') : i \in 1..Len(tasks) \/ i = Len(tasks) + 1
  BY <1>2, NumbersAreNat
<1>5. \A i \in 1..Len(tasks') : task <= tasks'[i] /\ tasks'[i] <= Len(yuv)
  BY <1>2, <1>3, <1>4, NumbersAreNat DEF Ordered, TasksOrdered
<1>6. \A i, j \in 1..Len(tasks') : i <= j => tasks'[i] <= tasks'[j]
  <2> SUFFICES ASSUME NEW i \in 1..Len(tasks'), NEW j \in 1..Len(tasks'), i <= j
               PROVE  tasks'[i] <= tasks'[j]
    OBVIOUS
  <2>1. CASE j = Len(tasks) + 1
    BY <1>2, <1>5, <2>1
  <2>2. CASE j \in 1..Len(tasks)
    <3>1. i \in 1..Len(tasks)
      BY <2>2, NumbersAreNat
    <3> QED
      BY <1>2, <2>2, <3>1 DEF Ordered, TasksOrdered
  <2> QED
    BY <1>4, <2>1, <2>2
<1>7. TasksOrdered'
  BY <1>1, <1>3, <1>5, <1>6 DEF TasksOrdered
<1> QED
  BY <1>1, <1>7 DEF Ordered, ArraysOrdered, EncodedOrdered, ConvertedOrdered, NotBefore

LEMMA TakeKeepsOrder ==
  ASSUME PipelineTypeOK, Ordered, Take PROVE Ordered'
<1>1. /\ UNCHANGED <<image, pictures, yuv, encoded, nv12>>
      /\ pc' = "convert" /\ task' = Head(tasks) /\ tasks' = Tail(tasks)
  BY DEF Take, analyzerVars, sizeVars
<1>2. /\ Head(tasks) = tasks[1] /\ 1 \in 1..Len(tasks)
      /\ \A i \in 1..Len(Tail(tasks)) :
           Tail(tasks)[i] = tasks[i + 1] /\ i + 1 \in 1..Len(tasks)
  BY HeadTailProperties, NumbersAreNat, EmptySeq DEF Take, PipelineTypeOK
<1>3. task <= task' /\ task' \in 1..Len(yuv)
  BY <1>1, <1>2 DEF PipelineTypeOK, Ordered, TasksOrdered
<1>4. NotBefore(encoded.n, task')
  BY <1>1, <1>2, <1>3, NumbersAreNat DEF Ordered, EncodedOrdered, NotBefore
<1>5. \A i \in 1..Len(tasks') : task' <= tasks'[i]
  BY <1>1, <1>2, NumbersAreNat DEF Ordered, TasksOrdered
<1>6. \A i, j \in 1..Len(tasks') : i <= j => tasks'[i] <= tasks'[j]
  <2> SUFFICES ASSUME NEW i \in 1..Len(tasks'), NEW j \in 1..Len(tasks'), i <= j
               PROVE  tasks'[i] <= tasks'[j]
    OBVIOUS
  <2>1. i + 1 \in 1..Len(tasks) /\ j + 1 \in 1..Len(tasks)
    BY <1>1, <1>2
  <2>2. i + 1 <= j + 1
    OBVIOUS
  <2>3. tasks'[i] = tasks[i + 1] /\ tasks'[j] = tasks[j + 1]
    BY <1>1, <1>2
  <2>4. tasks[i + 1] <= tasks[j + 1]
    BY <2>1, <2>2 DEF Ordered, TasksOrdered
  <2> QED
    BY <2>3, <2>4
<1>7. TasksOrdered'
  BY <1>1, <1>3, <1>5, <1>6, NumbersAreNat DEF TasksOrdered
<1>8. ArraysOrdered' /\ EncodedOrdered' /\ ConvertedOrdered'
  BY <1>1, <1>4
     DEF Ordered, ArraysOrdered, EncodedOrdered, ConvertedOrdered, NotBefore
<1> QED
  BY <1>1, <1>7, <1>8 DEF Ordered

LEMMA ConvertKeepsOrder ==
  ASSUME PipelineTypeOK, Ordered, Convert PROVE Ordered'
<1>1. UNCHANGED <<image, pictures, yuv, tasks, task, encoded>>
  BY DEF Convert, analyzerVars
<1>2. ArraysOrdered' /\ TasksOrdered' /\ EncodedOrdered'
  BY <1>1 DEF Ordered, ArraysOrdered, TasksOrdered, EncodedOrdered, NotBefore
<1>3. CASE UNCHANGED <<nv12, pc>>
  BY <1>1, <1>2, <1>3 DEF Ordered, ConvertedOrdered, NotBefore
<1>4. CASE nv12' = [nv12 EXCEPT !.content = yuv[task].content]
  <2>1. task \in 1..Len(yuv)
    BY DEF Convert, PipelineTypeOK
  <2>2. nv12'.content.n = yuv[task].content.n
    BY <1>4 DEF PipelineTypeOK, Array
  <2>3. /\ yuv[task].content.n <= pictures /\ NotBefore(yuv[task].content.n, task)
        /\ yuv[task].content.n = 0 \/ encoded.n <= yuv[task].content.n
    BY <2>1, NumbersAreNat DEF Ordered, ArraysOrdered, EncodedOrdered, NotBefore
  <2> QED
    BY <1>1, <1>2, <2>2, <2>3 DEF Ordered, ConvertedOrdered, NotBefore
<1> QED
  BY <1>3, <1>4 DEF Convert

LEMMA EncodeKeepsOrder ==
  ASSUME PipelineTypeOK, Ordered, Encode
  PROVE  Ordered' /\ encoded'.n >= encoded.n
<1>1. UNCHANGED <<image, pictures, yuv, tasks, task, nv12>> /\ pc = "encode"
  BY DEF Encode, analyzerVars, sizeVars
<1>2. ArraysOrdered' /\ TasksOrdered'
  BY <1>1 DEF Ordered, ArraysOrdered, TasksOrdered, NotBefore
<1>3. CASE encoded' = encoded /\ pc' \in {"encode", "take"}
  BY <1>1, <1>2, <1>3, NumbersAreNat
     DEF Ordered, EncodedOrdered, ConvertedOrdered, NotBefore
<1>4. CASE nv12.content.n # 0 /\ encoded' = nv12.content /\ pc' = "take"
  BY <1>1, <1>2, <1>4, NumbersAreNat
     DEF Ordered, EncodedOrdered, ConvertedOrdered, NotBefore
<1>5. \/ pc' = "take" /\ encoded' = encoded
      \/ pc' = pc /\ encoded' = encoded
      \/ pc' = "take" /\ encoded' = IF nv12.content.n = 0 THEN encoded ELSE nv12.content
  <2>1. CASE pc' = "take" /\ UNCHANGED <<encoded, askew, broken>>
    BY <2>1
  <2>2. CASE UNCHANGED <<pc, encoded, askew>>
    BY <2>2
  <2> QED
    BY <2>1, <2>2, SMT DEF Encode
<1> QED
  BY <1>1, <1>3, <1>4, <1>5

LEMMA StepKeepsOrder ==
  ASSUME PipelineTypeOK, Ordered, [PipelineNext]_pipelineVars
  PROVE  Ordered' /\ [InOrderStep]_pipelineVars
<1> DEFINE Others == <<image, pictures, yuv, tasks, task, pc, encoded, nv12>>
<1>1. ASSUME UNCHANGED Others PROVE Ordered' /\ InOrderStep
  BY <1>1, NumbersAreNat DEF Ordered, ArraysOrdered, TasksOrdered, EncodedOrdered,
                              ConvertedOrdered, NotBefore, InOrderStep
<1>2. CASE SwapReset \/ SwapRebind \/ MarkInit
  <2>1. UNCHANGED Others
    BY <1>2 DEF SwapReset, SwapRebind, MarkInit, sizeVars, analyzerVars, consumerVars
  <2> QED
    BY <1>1, <2>1
<1>3. CASE Rotate
  <2>1. UNCHANGED <<image, pictures, yuv, tasks, task, encoded, nv12>>
    BY <1>3 DEF Rotate, sizeVars, analyzerVars
  <2>2. pc = "rotate" /\ pc' \in {"rotate", "encode"}
    BY <1>3 DEF Rotate
  <2> QED
    BY <2>1, <2>2, NumbersAreNat DEF Ordered, ArraysOrdered, TasksOrdered, EncodedOrdered,
                                    ConvertedOrdered, NotBefore, InOrderStep
<1>4. CASE Analyze \/ Allocate \/ Fill \/ Put \/ Take \/ Convert
  <2>1. encoded' = encoded
    BY <1>4 DEF Analyze, Allocate, Fill, Put, Take, Convert, consumerVars
  <2> QED
    BY <1>4, <2>1, NumbersAreNat, AnalyzeKeepsOrder, AllocateKeepsOrder, FillKeepsOrder,
       PutKeepsOrder, TakeKeepsOrder, ConvertKeepsOrder DEF InOrderStep
<1>5. CASE Encode
  BY <1>5, EncodeKeepsOrder DEF InOrderStep
<1>6. CASE UNCHANGED pipelineVars
  <2>1. UNCHANGED Others
    BY <1>6 DEF pipelineVars, sizeVars, analyzerVars, consumerVars
  <2> QED
    BY <1>1, <2>1
<1> QED
  BY <1>2, <1>3, <1>4, <1>5, <1>6 DEF PipelineNext

(* Pictures reach the encoder in the order they were taken, however long   *)
(* the queue and however many arrays the swaps leave behind                *)
(* (CameraLiveActivity.kt 193-198, 566-576).                               *)
THEOREM OrderTheorem == PipelineSpec => PicturesInOrder
<1>1. PipelineInit => PipelineTypeOK /\ Ordered
  BY InitHasTypes, InitIsOrdered
<1>2. ASSUME PipelineTypeOK /\ Ordered, [PipelineNext]_pipelineVars
      PROVE  (PipelineTypeOK /\ Ordered)' /\ [InOrderStep]_pipelineVars
  BY <1>2, StepKeepsPipelineTypes, StepKeepsOrder
<1> QED
  BY <1>1, <1>2, PTL DEF PipelineSpec, PicturesInOrder

-----------------------------------------------------------------------------
(* Geometry, while no swap mixed pictures of two cameras.                  *)

Last   == yuv[Len(yuv)]
Loaded == tasks # <<>> \/ pc # "take"

Steady ==
  /\ swap = "rebind" => Quiet /\ ~isInitYUV
  /\ swap = "no" => camera = front
  /\ analyzer # "idle" => /\ image.camera = camera /\ image.n > 0
                          /\ width = SizeOf[camera] /\ rotation = camera
  /\ analyzer \in {"allocate", "mark"} => ~isInitYUV
  /\ analyzer \in {"fill", "put"} => isInitYUV
  /\ ~isInitYUV => ~Loaded
  /\ isInitYUV \/ analyzer = "mark" =>
       yuv # <<>> /\ Last.size = SizeOf[camera] /\ nv12.size = SizeOf[camera]
  /\ analyzer = "put" \/ Loaded => Last.content.camera = camera /\ Last.content.n > 0
  /\ Loaded => width = SizeOf[camera] /\ rotation = camera
  /\ \A i \in 1..Len(tasks) : tasks[i] = Len(yuv)
  /\ pc # "take" => task = Len(yuv)
  /\ pc \in {"rotate", "encode"} => nv12.content.camera = camera /\ nv12.content.n > 0
  /\ broken \notin {"underflow", "bounds", "overrun"} /\ ~askew
  /\ broken = "overflow" => codecSize < SizeOf[camera]

(* Before the first swap there is one camera, and an encoder for it.       *)
Unswapped ==
  /\ swap = "no" /\ camera = FirstCamera
  /\ codecSize \in {0, SizeOf[FirstCamera]} /\ broken # "overflow" /\ ~mixed

SteadyInv == (~mixed => Steady) /\ swaps \in Nat /\ (swaps = 0 => Unswapped)

(* What Steady says of a step on which nothing but the swap changes.       *)
LEMMA SwapKeepsSteady ==
  ASSUME PipelineTypeOK, Steady, ~mixed', SwapReset \/ SwapRebind
  PROVE  Steady'
<1>1. CASE SwapReset
  <2>1. Quiet /\ swap' = "rebind" /\ ~isInitYUV'
    BY <1>1 DEF SwapReset
  <2>2. /\ UNCHANGED <<analyzer, image, tasks, pc, task, yuv, nv12, broken, askew>>
        /\ broken = "no"
    BY <1>1 DEF SwapReset, Works, analyzerVars, consumerVars
  <2> QED
    BY <2>1, <2>2 DEF Steady, Quiet, Loaded
<1>2. CASE SwapRebind
  <2>1. Quiet /\ ~isInitYUV /\ swap' = "no" /\ camera' = front' /\ camera' = front
    BY <1>2 DEF SwapRebind, Steady
  <2>2. /\ UNCHANGED <<isInitYUV, analyzer, image, tasks, pc, task, yuv, nv12, broken, askew>>
        /\ broken = "no"
    BY <1>2 DEF SwapRebind, Works, sizeVars, analyzerVars, consumerVars
  <2> QED
    BY <2>1, <2>2 DEF Steady, Quiet, Loaded
<1> QED
  BY <1>1, <1>2

LEMMA AnalyzeKeepsSteady ==
  ASSUME PipelineTypeOK, Steady, ~mixed', Analyze PROVE Steady'
<1>1. /\ swap # "rebind" /\ analyzer = "idle"
      /\ UNCHANGED <<camera, front, swap, isInitYUV, yuv, nv12, tasks, pc, task,
                     broken, askew>>
      /\ broken = "no" /\ width' = SizeOf[camera] /\ rotation' = camera
      /\ analyzer' = (IF isInitYUV THEN "fill" ELSE "allocate")
  BY DEF Analyze, Works, swapVars, consumerVars
<1>2. image'.camera = camera /\ image'.n > 0
  BY DEF Analyze, PipelineTypeOK
<1>3. Last' = Last /\ Loaded' = Loaded
  BY <1>1 DEF Last, Loaded
<1> QED
  BY <1>1, <1>2, <1>3 DEF Steady

LEMMA AllocateKeepsSteady ==
  ASSUME PipelineTypeOK, Steady, Allocate PROVE Steady'
<1>1. /\ UNCHANGED <<camera, front, swap, isInitYUV, width, rotation, image, tasks, pc,
                     task, broken, askew>>
      /\ broken = "no" /\ analyzer = "allocate" /\ analyzer' = "mark"
      /\ nv12' = [size |-> width, content |-> Blank]
  BY DEF Allocate, Works, swapVars, consumerVars
<1>2. [size |-> SizeOf[image.camera], content |-> Blank] \in Array
  BY SizeIsNat, BlankIsPicture DEF PipelineTypeOK, Picture, Array
<1>3. yuv' # <<>> /\ Last'.size = SizeOf[image.camera]
  <2>1. /\ yuv' \in Seq(Array) /\ Len(yuv') = Len(yuv) + 1 /\ Len(yuv) \in Nat
        /\ yuv'[Len(yuv) + 1] = [size |-> SizeOf[image.camera], content |-> Blank]
    BY <1>2, AppendProperties, LenProperties DEF Allocate, PipelineTypeOK
  <2> QED
    BY <2>1, EmptySeq DEF Last
<1>4. ~Loaded /\ ~Loaded' /\ tasks = <<>> /\ pc = "take" /\ ~isInitYUV
  BY <1>1 DEF Steady, Loaded
<1>5. \A i \in 1..Len(tasks') : FALSE
  BY <1>1, <1>4, EmptySeq
<1> QED
  BY <1>1, <1>3, <1>4, <1>5 DEF Steady, Quiet

LEMMA MarkKeepsSteady ==
  ASSUME PipelineTypeOK, Steady, MarkInit PROVE Steady'
<1>1. /\ UNCHANGED <<camera, front, swap, width, rotation, yuv, nv12, image, tasks, pc,
                     task, broken, askew>>
      /\ broken = "no" /\ analyzer = "mark" /\ analyzer' = "fill" /\ isInitYUV'
  BY DEF MarkInit, Works, swapVars, consumerVars
<1>2. Last' = Last /\ Loaded' = Loaded
  BY <1>1 DEF Last, Loaded
<1> QED
  BY <1>1, <1>2 DEF Steady, Quiet

LEMMA FillKeepsSteady ==
  ASSUME PipelineTypeOK, Steady, Fill PROVE Steady'
<1>1. /\ UNCHANGED <<camera, front, swap, isInitYUV, width, rotation, nv12, image, tasks,
                     pc, task, askew>>
      /\ broken = "no" /\ analyzer = "fill"
  BY DEF Fill, Works, swapVars, consumerVars
<1>2. /\ isInitYUV /\ swap # "rebind" /\ yuv # <<>>
      /\ image.camera = camera /\ image.n > 0 /\ Last.size = SizeOf[camera]
  BY <1>1 DEF Steady, Quiet
<1>3. analyzer' = "put" /\ UNCHANGED broken
  BY <1>2, SizeIsNat DEF Fill, Last, PipelineTypeOK
<1>4. Len(yuv) \in 1..Len(yuv)
  BY <1>2, LastIsArray
<1>5. yuv' # <<>> /\ Len(yuv') = Len(yuv) /\ Last'.size = Last.size /\ Last'.content = image
  BY <1>2, <1>3, <1>4, FillWrites, EmptySeq DEF Last
<1>6. Loaded' = Loaded
  BY <1>1 DEF Loaded
<1> QED
  BY <1>1, <1>2, <1>3, <1>5, <1>6 DEF Steady

LEMMA PutKeepsSteady ==
  ASSUME PipelineTypeOK, Steady, Put PROVE Steady'
<1>1. /\ UNCHANGED <<camera, front, swap, isInitYUV, width, rotation, yuv, nv12, image, pc,
                     task, broken, askew>>
      /\ broken = "no" /\ analyzer = "put" /\ analyzer' = "idle"
  BY DEF Put, Works, swapVars, sizeVars, consumerVars
<1>2. isInitYUV /\ swap # "rebind" /\ width = SizeOf[camera] /\ rotation = camera
  BY <1>1 DEF Steady, Quiet
<1>3. \A i \in 1..Len(tasks') : tasks'[i] = Len(yuv)
  <2>1. /\ Len(tasks') = Len(tasks) + 1 /\ tasks'[Len(tasks) + 1] = Len(yuv)
        /\ \A i \in 1..Len(tasks) : tasks'[i] = tasks[i]
    BY NumbersAreNat, AppendProperties DEF Put, PipelineTypeOK
  <2>2. \A i \in 1..Len(tasks') : i \in 1..Len(tasks) \/ i = Len(tasks) + 1
    BY <2>1, NumbersAreNat
  <2> QED
    BY <2>1, <2>2 DEF Steady
<1>4. Last' = Last
  BY <1>1 DEF Last
<1> QED
  BY <1>1, <1>2, <1>3, <1>4 DEF Steady

LEMMA TakeKeepsSteady ==
  ASSUME PipelineTypeOK, Steady, Take PROVE Steady'
<1>1. /\ UNCHANGED <<camera, front, swap, isInitYUV, width, rotation, yuv, nv12, image,
                     analyzer, broken, askew>>
      /\ broken = "no"
      /\ tasks # <<>> /\ pc' = "convert" /\ task' = Head(tasks) /\ tasks' = Tail(tasks)
  BY DEF Take, Works, swapVars, sizeVars, analyzerVars
<1>2. /\ Head(tasks) = tasks[1] /\ 1 \in 1..Len(tasks)
      /\ \A i \in 1..Len(Tail(tasks)) :
           Tail(tasks)[i] = tasks[i + 1] /\ i + 1 \in 1..Len(tasks)
  BY HeadTailProperties, NumbersAreNat, EmptySeq DEF Take, PipelineTypeOK
<1>3. task' = Len(yuv) /\ \A i \in 1..Len(tasks') : tasks'[i] = Len(yuv)
  BY <1>1, <1>2 DEF Steady
<1>4. Loaded /\ swap # "rebind" /\ Last' = Last
  BY <1>1 DEF Loaded, Last, Steady, Quiet
<1> QED
  BY <1>1, <1>3, <1>4 DEF Steady

LEMMA ConsumerKeepsSteady ==
  ASSUME PipelineTypeOK, Steady, Convert \/ Rotate \/ Encode PROVE Steady'
<1>1. /\ UNCHANGED <<camera, front, swap, isInitYUV, width, rotation, yuv, image,
                     analyzer, tasks, task>>
      /\ pc # "take"
  BY DEF Convert, Rotate, Encode, swapVars, sizeVars, analyzerVars
<1>2. /\ swap # "rebind" /\ Loaded /\ isInitYUV /\ task = Len(yuv) /\ camera = front
      /\ Last.size = SizeOf[camera] /\ nv12.size = SizeOf[camera]
      /\ width = SizeOf[camera] /\ rotation = camera
      /\ Last.content.camera = camera /\ Last.content.n > 0
  BY <1>1 DEF Steady, Quiet, Loaded, PipelineTypeOK
<1>3. SizeOf[camera] \in Nat
  BY SizeIsNat DEF PipelineTypeOK
<1>4. Last' = Last
  BY <1>1 DEF Last
<1>5. ASSUME nv12'.size = nv12.size, UNCHANGED askew,
             broken' \notin {"underflow", "bounds", "overrun"},
             broken' = "overflow" => codecSize' < SizeOf[camera],
             pc' \in {"rotate", "encode"} => nv12'.content.camera = camera
                                             /\ nv12'.content.n > 0
      PROVE  Steady'
  BY <1>1, <1>2, <1>4, <1>5 DEF Steady
<1>6. CASE Convert
  <2>1. pc' = "rotate" /\ UNCHANGED <<broken, askew>>
    BY <1>2, <1>3, <1>6 DEF Convert, Last
  <2>2. nv12' = [nv12 EXCEPT !.content = Last.content]
    BY <1>2, <1>3, <1>6 DEF Convert, Last
  <2>3. nv12'.size = nv12.size /\ nv12'.content = Last.content
    BY <2>2 DEF PipelineTypeOK, Array
  <2>4. broken' # "overflow"
    BY <1>6, <2>1 DEF Convert, Works
  <2> QED
    BY <1>2, <1>5, <2>1, <2>3, <2>4 DEF Steady
<1>7. CASE Rotate
  <2>1. UNCHANGED nv12 /\ nv12.content.camera = camera /\ nv12.content.n > 0
    BY <1>7 DEF Rotate, Steady, sizeVars
  <2>2. UNCHANGED <<broken, askew>>
    BY <1>2, <1>3, <1>7, <2>1 DEF Rotate, PipelineTypeOK
  <2>3. broken' # "overflow"
    BY <1>7, <2>2 DEF Rotate, Works
  <2> QED
    BY <1>5, <2>1, <2>2, <2>3 DEF Steady
<1>8. CASE Encode
  <2>1. UNCHANGED nv12 /\ nv12.content.camera = camera /\ nv12.content.n > 0
    BY <1>8 DEF Encode, Steady, sizeVars
  <2>2. broken' \in {broken, "overflow"} /\ UNCHANGED askew
    BY <1>8, <2>1 DEF Encode, Break, PipelineTypeOK
  <2>3. broken' = "overflow" => codecSize' < SizeOf[camera]
    <3>1. broken = "no" /\ codecSize' \in Nat
      BY <1>8 DEF Encode, Works, PipelineTypeOK
    <3>2. ASSUME broken' = "overflow" PROVE nv12.size > codecSize'
      BY <1>8, <3>1, <3>2 DEF Encode, Break
    <3> QED
      BY <1>2, <1>3, <3>1, <3>2
  <2> QED
    BY <1>5, <2>1, <2>2, <2>3 DEF Steady
<1> QED
  BY <1>6, <1>7, <1>8

LEMMA StepKeepsSteady ==
  ASSUME PipelineTypeOK, SteadyInv, PipelineNext, ~mixed'
  PROVE  Steady'
<1>1. ~mixed
  BY DEF PipelineNext, SwapReset, SwapRebind, Analyze, Allocate, MarkInit, Fill, Put,
         Take, Convert, Rotate, Encode
<1>2. Steady
  BY <1>1 DEF SteadyInv
<1> QED
  BY <1>2, SwapKeepsSteady, AnalyzeKeepsSteady, AllocateKeepsSteady, MarkKeepsSteady,
     FillKeepsSteady, PutKeepsSteady, TakeKeepsSteady, ConsumerKeepsSteady
     DEF PipelineNext

(* Only SwapReset counts a swap, and until it has run the encoder, if there *)
(* is one, has the size of every picture.                                  *)
LEMMA StepKeepsUnswapped ==
  ASSUME PipelineTypeOK, SteadyInv, PipelineNext
  PROVE  swaps' \in Nat /\ (swaps' = 0 => Unswapped')
<1>1. CASE SwapReset
  BY <1>1 DEF SwapReset, SteadyInv
<1>2. CASE SwapRebind
  BY <1>2 DEF SwapRebind, SteadyInv, Unswapped
<1>3. CASE Encode
  <2>1. UNCHANGED <<swap, camera, swaps, mixed>> /\ pc = "encode"
    BY <1>3 DEF Encode, swapVars
  <2>2. ASSUME swaps = 0 PROVE Unswapped'
    <3>1. Unswapped /\ Steady
      BY <2>2 DEF SteadyInv, Unswapped
    <3>2. width = SizeOf[FirstCamera] /\ nv12.size = SizeOf[FirstCamera]
      BY <2>1, <3>1 DEF Unswapped, Steady, Loaded
    <3>3. codecSize' \in {0, SizeOf[FirstCamera]}
      BY <1>3, <3>1, <3>2 DEF Encode, Unswapped
    <3>4. SizeOf[FirstCamera] \in Nat
      BY PipelineAssumption
    <3>5. broken' # "overflow"
      BY <1>3, <3>1, <3>2, <3>3, <3>4 DEF Encode, Unswapped, Break
    <3> QED
      BY <2>1, <3>1, <3>3, <3>5 DEF Unswapped
  <2> QED
    BY <2>1, <2>2 DEF SteadyInv
<1>4. CASE Analyze \/ Allocate \/ MarkInit \/ Fill \/ Put \/ Take \/ Convert \/ Rotate
  <2>1. UNCHANGED <<swap, camera, swaps, codecSize>>
    BY <1>4 DEF Analyze, Allocate, MarkInit, Fill, Put, Take, Convert, Rotate, swapVars,
                consumerVars
  <2>2. swap = "no" /\ ~mixed => ~mixed'
    BY <1>4 DEF Analyze, Allocate, MarkInit, Fill, Put, Take, Convert, Rotate
  <2>3. broken' # "overflow"
    BY <1>4 DEF Analyze, Allocate, MarkInit, Fill, Put, Take, Convert, Rotate, Works, Break
  <2> QED
    BY <2>1, <2>2, <2>3 DEF SteadyInv, Unswapped
<1> QED
  BY <1>1, <1>2, <1>3, <1>4 DEF PipelineNext

LEMMA StepKeepsSteadyInv ==
  ASSUME PipelineTypeOK, SteadyInv, [PipelineNext]_pipelineVars
  PROVE  SteadyInv'
<1>1. CASE UNCHANGED pipelineVars
  BY <1>1 DEF pipelineVars, swapVars, sizeVars, analyzerVars, consumerVars, SteadyInv,
              Unswapped, Steady, Quiet, Loaded, Last
<1>2. CASE PipelineNext
  BY <1>2, StepKeepsSteady, StepKeepsUnswapped DEF SteadyInv
<1> QED
  BY <1>1, <1>2

(* The arrays fit, and every picture is turned its own camera's way, unless*)
(* the camera was swapped with pictures on their way, whatever the sizes;  *)
(* no picture is larger than the encoder's before a swap, and in quiet     *)
(* moments only those of a larger camera than it was made for are          *)
(* (CameraLiveActivity.kt 158-202, 330-339, 533-536, 574-616).             *)
THEOREM StaleTheorem == PipelineSpec => []StaleNeedsMixing
<1>1. PipelineInit => PipelineTypeOK /\ SteadyInv
  <2>1. ASSUME PipelineInit PROVE Steady /\ Unswapped /\ swaps = 0
    <3>1. Len(tasks) = 0
      BY <2>1, EmptySeq DEF PipelineInit
    <3> QED
      BY <2>1, <3>1 DEF PipelineInit, Steady, Quiet, Loaded, Unswapped
  <2> QED
    BY <2>1, InitHasTypes DEF SteadyInv
<1>2. PipelineTypeOK /\ SteadyInv /\ [PipelineNext]_pipelineVars
      => (PipelineTypeOK /\ SteadyInv)'
  BY StepKeepsPipelineTypes, StepKeepsSteadyInv
<1>3. SteadyInv => StaleNeedsMixing
  BY DEF SteadyInv, Steady, Unswapped, StaleNeedsMixing
<1> QED
  BY <1>1, <1>2, <1>3, PTL DEF PipelineSpec
=============================================================================
