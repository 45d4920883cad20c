------------------------------ MODULE SafeQueue ------------------------------
(***************************************************************************)
(* The template SafeQueue of safe_queue.h, its pthread branch: a queue     *)
(* under one mutex and one condition variable, with the flag work.         *)
(*                                                                         *)
(* The mutex makes each call one step, but for pop: pthread_cond_wait gives*)
(* the mutex up, so a pop that finds nothing is two or more steps.  The    *)
(* constructor leaves work and releaseCallback uninitialized.  No caller   *)
(* of the template is in the repository: the callers are any producers and *)
(* consumers, each item being pushed once.                                 *)
(***************************************************************************)
EXTENDS FiniteSets, Naturals, Sequences

CONSTANTS
  Consumers,  (* the threads that pop                                      *)
  Items       (* what producers push: a bound for TLC                      *)

ASSUME SomeConsumers == IsFiniteSet(Consumers) /\ Consumers # {}

VARIABLES
  q,          (* the std::queue                                            *)
  work,       (* the flag, 1 or 0                                          *)
  callback,   (* releaseCallback was set                                   *)
  consumer,   (* "idle", "waiting" in pthread_cond_wait, or "woken": it    *)
              (* left the wait and has to get the mutex back               *)
  wild,       (* an uninitialized releaseCallback was called              *)
  pushed,     (* history: the items a producer passed to push              *)
  popped,     (* history: what the calls of pop returned, in order         *)
  released    (* history: what went through releaseCallback                *)

queueHistory == <<pushed, popped, released>>
queueVars    == <<q, work, callback, consumer, wild, pushed, popped, released>>

In(state) == {c \in Consumers : consumer[c] = state}
Content   == {q[i] : i \in 1..Len(q)}

QueueTypeOK ==
  /\ q \in Seq(Items)
  /\ work \in BOOLEAN /\ callback \in BOOLEAN /\ wild \in BOOLEAN
  /\ consumer \in [Consumers -> {"idle", "waiting", "woken"}]
  /\ pushed \in SUBSET Items /\ released \in SUBSET Items
  /\ popped \in Seq(Items)

(* work holds whatever was in the memory.                                  *)
QueueInit ==
  /\ q = <<>> /\ callback = FALSE /\ wild = FALSE
  /\ work \in BOOLEAN
  /\ consumer = [c \in Consumers |-> "idle"]
  /\ pushed = {} /\ popped = <<>> /\ released = {}

(* Mutant: the signal is forgotten.                                        *)
SignalNobody == UNCHANGED consumer

(* pthread_cond_signal wakes one thread of those that wait, if any does.   *)
Signal ==
  IF In("waiting") = {} THEN UNCHANGED consumer
  ELSE \E c \in In("waiting") : consumer' = [consumer EXCEPT ![c] = "woken"]

(* releaseCallback(v) for every v of the set: when nobody set it the call  *)
(* goes through an indeterminate pointer.                                  *)
Release(items) ==
  IF callback \/ items = {}
  THEN released' = released \cup items /\ UNCHANGED wild
  ELSE wild' = TRUE /\ UNCHANGED released

Push(v) ==
  /\ ~wild /\ v \notin pushed
  /\ pushed' = pushed \cup {v}
  /\ \/ /\ work
        /\ q' = Append(q, v)
        /\ Signal
        /\ UNCHANGED <<wild, released>>
     \/ /\ ~work
        /\ Release({v})
        /\ UNCHANGED <<q, consumer>>
  /\ UNCHANGED <<work, callback, popped>>

(* Mutant: pop takes the newest item.                                      *)
PopBack(c) ==
  /\ ~wild /\ consumer[c] # "waiting" /\ q # <<>>
  /\ popped' = Append(popped, q[Len(q)])
  /\ q' = SubSeq(q, 1, Len(q) - 1)
  /\ consumer' = [consumer EXCEPT ![c] = "idle"]
  /\ UNCHANGED <<work, callback, wild, pushed, released>>

(* pop from its start, or from the point where pthread_cond_wait has the   *)
(* mutex again.                                                            *)
Pop(c) ==
  /\ ~wild /\ consumer[c] # "waiting"
  /\ \/ /\ work /\ q = <<>>
        /\ consumer' = [consumer EXCEPT ![c] = "waiting"]
        /\ UNCHANGED <<q, popped>>
     \/ /\ q # <<>>
        /\ popped' = Append(popped, Head(q))
        /\ q' = Tail(q)
        /\ consumer' = [consumer EXCEPT ![c] = "idle"]
     \/ /\ ~work /\ q = <<>>                   (* returns 0                *)
        /\ consumer' = [consumer EXCEPT ![c] = "idle"]
        /\ UNCHANGED <<q, popped>>
  /\ UNCHANGED <<work, callback, wild, pushed, released>>

(* POSIX allows pthread_cond_wait to return with no signal.                *)
SpuriousWake(c) ==
  /\ ~wild /\ consumer[c] = "waiting"
  /\ consumer' = [consumer EXCEPT ![c] = "woken"]
  /\ UNCHANGED <<q, work, callback, wild, queueHistory>>

(* Mutant: setWork does not signal.                                        *)
SetWorkSilently(w) ==
  /\ ~wild
  /\ work' = w
  /\ UNCHANGED <<q, callback, consumer, wild, queueHistory>>

SetWork(w) ==
  /\ ~wild
  /\ work' = w
  /\ Signal
  /\ UNCHANGED <<q, callback, wild, queueHistory>>

Clear ==
  /\ ~wild
  /\ Release(Content)
  /\ q' = IF wild' THEN q ELSE <<>>
  /\ UNCHANGED <<work, callback, consumer, pushed, popped>>

SetReleaseCallback ==
  /\ ~wild
  /\ callback' = TRUE
  /\ UNCHANGED <<q, work, consumer, wild, queueHistory>>

QueueNext ==
  \/ \E v \in Items : Push(v)
  \/ \E c \in Consumers : Pop(c) \/ SpuriousWake(c)
  \/ \E w \in BOOLEAN : SetWork(w)
  \/ Clear \/ SetReleaseCallback

QueueSpec == QueueInit /\ [][QueueNext]_queueVars

-----------------------------------------------------------------------------
(* While a consumer waits, every item of the queue has a consumer that was *)
(* woken for it: the one signal of push is enough, although a consumer that*)
(* never waited may take the item first (safe_queue.h 59, 84-91).          *)
NoStrandedItem ==
  In("waiting") # {} => Len(q) <= Cardinality(In("woken"))

(* setWork(0) signals once.  That frees a single consumer for good; of     *)
(* several, all but one may stay in the wait (safe_queue.h 104).           *)
StopFreesOne ==
  ~work => Cardinality(In("waiting")) < Cardinality(Consumers)

(* The template keeps the promise of the switched queue.                   *)
Fifo == INSTANCE SwitchedFifo WITH fifo <- q, on <- work,
                                   delivered <- popped, returned <- released
FifoSpec == Fifo!Spec

=============================================================================
