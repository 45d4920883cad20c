--------------------------- MODULE SafeQueueProofs ---------------------------
(***************************************************************************)
(* Proofs about SafeQueue, for any consumers and items.                    *)
(***************************************************************************)
EXTENDS SafeQueue, FiniteSetTheorems, SequenceTheorems, TLAPS

LEMMA SignalKeepsType ==
  ASSUME consumer \in [Consumers -> {"idle", "waiting", "woken"}], Signal
  PROVE  consumer' \in [Consumers -> {"idle", "waiting", "woken"}]
BY DEF Signal, In

LEMMA ReleaseKeepsType ==
  ASSUME NEW items \in SUBSET Items, released \in SUBSET Items, wild \in BOOLEAN,
         Release(items)
  PROVE  released' \in SUBSET Items /\ wild' \in BOOLEAN
BY DEF Release

LEMMA ContentIsItems ==
  ASSUME QueueTypeOK
  PROVE  Content \in SUBSET Items
BY ElementOfSeq DEF QueueTypeOK, Content

LEMMA StepKeepsTypes ==
  ASSUME QueueTypeOK, [QueueNext]_queueVars
  PROVE  QueueTypeOK'
<1> USE DEF QueueTypeOK
<1>1. ASSUME NEW v \in Items, Push(v) PROVE QueueTypeOK'
  <2>1. CASE work
    <3>1. q' \in Seq(Items)
      BY <1>1, <2>1, AppendProperties DEF Push
    <3>2. consumer' \in [Consumers -> {"idle", "waiting", "woken"}]
      BY <1>1, <2>1, SignalKeepsType DEF Push
    <3> QED
      BY <1>1, <2>1, <3>1, <3>2 DEF Push
  <2>2. CASE ~work
    BY <1>1, <2>2, ReleaseKeepsType DEF Push
  <2> QED
    BY <2>1, <2>2
<1>2. ASSUME NEW c \in Consumers, Pop(c) PROVE QueueTypeOK'
  <2>1. CASE q # <<>> /\ popped' = Append(popped, Head(q)) /\ q' = Tail(q)
               /\ consumer' = [consumer EXCEPT ![c] = "idle"]
    BY <1>2, <2>1, HeadTailProperties, AppendProperties DEF Pop
  <2>2. CASE UNCHANGED <<q, popped>>
    BY <1>2, <2>2 DEF Pop
  <2> QED
    BY <1>2, <2>1, <2>2 DEF Pop
<1>3. ASSUME NEW c \in Consumers, SpuriousWake(c) PROVE QueueTypeOK'
  BY <1>3 DEF SpuriousWake, queueHistory
<1>4. ASSUME NEW w \in BOOLEAN, SetWork(w) PROVE QueueTypeOK'
  BY <1>4, SignalKeepsType DEF SetWork, queueHistory
<1>5. CASE Clear
  BY <1>5, ContentIsItems, ReleaseKeepsType, EmptySeq DEF Clear
<1>6. CASE SetReleaseCallback
  BY <1>6 DEF SetReleaseCallback, queueHistory
<1>7. CASE UNCHANGED queueVars
  BY <1>7 DEF queueVars
<1> QED
  BY <1>1, <1>2, <1>3, <1>4, <1>5, <1>6, <1>7 DEF QueueNext

(* The queue, the flag and what became of the items keep their types       *)
(* whatever the producers and consumers do.                                *)
THEOREM QueueTypeCorrect == QueueSpec => []QueueTypeOK
<1>1. QueueInit => QueueTypeOK
  BY EmptySeq DEF QueueInit, QueueTypeOK
<1> QED
  BY <1>1, StepKeepsTypes, PTL DEF QueueSpec

-----------------------------------------------------------------------------
(* Refinement of the switched queue.                                       *)

LEMMA StepImplementsFifo ==
  ASSUME QueueTypeOK, [QueueNext]_queueVars
  PROVE  [Fifo!Next]_(Fifo!vars)
<1> USE DEF Fifo!vars
<1>1. ASSUME NEW v \in Items, Push(v) PROVE [Fifo!Next]_(Fifo!vars)
  <2>1. CASE work
    BY <1>1, <2>1 DEF Push, Fifo!Next, Fifo!Accept
  <2>2. CASE ~work
    BY <1>1, <2>2 DEF Push, Release, Fifo!Next, Fifo!Refuse
  <2> QED
    BY <2>1, <2>2
<1>2. ASSUME NEW c \in Consumers, Pop(c) PROVE [Fifo!Next]_(Fifo!vars)
  BY <1>2 DEF Pop, Fifo!Next, Fifo!Deliver
<1>3. ASSUME NEW c \in Consumers, SpuriousWake(c) PROVE [Fifo!Next]_(Fifo!vars)
  BY <1>3 DEF SpuriousWake, queueHistory
<1>4. ASSUME NEW w \in BOOLEAN, SetWork(w) PROVE [Fifo!Next]_(Fifo!vars)
  BY <1>4 DEF SetWork, queueHistory, Fifo!Next, Fifo!Switch
<1>5. CASE Clear
  <2>1. CASE callback \/ Content = {}
    <3>1. released' = released \cup Content /\ wild' = FALSE
      BY <1>5, <2>1 DEF Clear, Release, QueueTypeOK
    <3> QED
      BY <1>5, <3>1 DEF Clear, Content, Fifo!Next, Fifo!Drain
  <2>2. CASE ~(callback \/ Content = {})
    BY <1>5, <2>2 DEF Clear, Release
  <2> QED
    BY <2>1, <2>2
<1>6. CASE SetReleaseCallback
  BY <1>6 DEF SetReleaseCallback, queueHistory
<1>7. CASE UNCHANGED queueVars
  BY <1>7 DEF queueVars
<1> QED
  BY <1>1, <1>2, <1>3, <1>4, <1>5, <1>6, <1>7 DEF QueueNext

(* The template implements the switched first-in first-out queue: mutex,   *)
(* waits, spurious wake-ups and the choice of the woken thread are         *)
(* invisible to its users (safe_queue.h 47-138).                           *)
THEOREM ImplementsFifo == QueueSpec => FifoSpec
<1>1. QueueInit => Fifo!Init
  BY DEF QueueInit, Fifo!Init
<1> QED
  BY <1>1, QueueTypeCorrect, StepImplementsFifo, PTL DEF QueueSpec, FifoSpec, Fifo!Spec

-----------------------------------------------------------------------------
(* The consumers that wait and those that were woken.                      *)

LEMMA GroupsAreFinite ==
  ASSUME NEW s
  PROVE  /\ IsFiniteSet(In(s)) /\ Cardinality(In(s)) \in Nat
         /\ Cardinality(In(s)) <= Cardinality(Consumers)
         /\ Cardinality(Consumers) \in Nat /\ Cardinality(Consumers) # 0
BY SomeConsumers, FS_Subset, FS_CardinalityType, FS_EmptySet DEF In

(* What a signal does to the two groups.                                   *)
LEMMA SignalMoves ==
  ASSUME QueueTypeOK, Signal
  PROVE  \/ In("waiting") = {} /\ UNCHANGED <<In("waiting"), In("woken")>>
         \/ \E c \in In("waiting") : /\ In("waiting")' = In("waiting") \ {c}
                                     /\ In("woken")' = In("woken") \cup {c}
                                     /\ c \notin In("woken")
<1>1. CASE In("waiting") = {}
  BY <1>1 DEF Signal, In
<1>2. ASSUME NEW c \in In("waiting"), consumer' = [consumer EXCEPT ![c] = "woken"]
      PROVE  /\ In("waiting")' = In("waiting") \ {c}
             /\ In("woken")' = In("woken") \cup {c}
             /\ c \notin In("woken")
  BY <1>2 DEF QueueTypeOK, In
<1> QED
  BY <1>1, <1>2 DEF Signal

LEMMA StepStrandsNothing ==
  ASSUME QueueTypeOK, QueueTypeOK', NoStrandedItem, [QueueNext]_queueVars
  PROVE  NoStrandedItem'
<1> DEFINE W == In("waiting")
           K == In("woken")
<1> USE DEF NoStrandedItem
<1>0. /\ Len(q) \in Nat /\ Len(q') \in Nat
      /\ Cardinality(K) \in Nat /\ Cardinality(K') \in Nat
  BY GroupsAreFinite, LenProperties, FS_CardinalityType, FS_Subset, SomeConsumers
     DEF QueueTypeOK, In
<1>s. ASSUME NEW c \in Consumers, c \in W, K' = K \cup {c}
      PROVE  Cardinality(K') = Cardinality(K) + 1
  <2>1. c \notin K
    BY <1>s DEF In
  <2> QED
    BY <1>s, <2>1, GroupsAreFinite, FS_AddElement
<1>1. ASSUME NEW v \in Items, Push(v) PROVE NoStrandedItem'
  <2>1. CASE work
    <3>1. Len(q') = Len(q) + 1
      BY <1>1, <2>1, AppendProperties DEF Push, QueueTypeOK
    <3>2. CASE W = {} /\ UNCHANGED <<W, K>>
      BY <3>2
    <3>3. ASSUME NEW c \in W, W' = W \ {c}, K' = K \cup {c}
          PROVE  NoStrandedItem'
      <4>1. Cardinality(K') = Cardinality(K) + 1
        BY <3>3, <1>s DEF In
      <4> QED
        BY <3>1, <3>3, <4>1, <1>0
    <3> QED
      BY <1>1, <2>1, <3>2, <3>3, SignalMoves DEF Push
  <2>2. CASE ~work
    BY <1>1, <2>2 DEF Push, In
  <2> QED
    BY <2>1, <2>2
<1>2. ASSUME NEW c \in Consumers, Pop(c) PROVE NoStrandedItem'
  <2>1. CASE q = <<>>
    BY <1>2, <2>1, <1>0, EmptySeq DEF Pop
  <2>2. CASE q # <<>>
    <3>1. /\ q' = Tail(q) /\ Len(q') = Len(q) - 1
          /\ consumer' = [consumer EXCEPT ![c] = "idle"] /\ consumer[c] # "waiting"
      BY <1>2, <2>2, HeadTailProperties DEF Pop, QueueTypeOK
    <3>2. W' = W /\ K' = K \ {c}
      BY <3>1 DEF QueueTypeOK, In
    <3>3. Cardinality(K') >= Cardinality(K) - 1
      <4>1. IsFiniteSet(K)
        BY GroupsAreFinite
      <4>2. Cardinality(K \ {c}) =
              IF c \in K THEN Cardinality(K) - 1 ELSE Cardinality(K)
        BY <4>1, FS_RemoveElement
      <4>3. K' = K \ {c}
        BY <3>2
      <4> HIDE DEF K
      <4>4. CASE c \in K
        BY <4>2, <4>3, <4>4, <1>0
      <4>5. CASE c \notin K
        BY <4>2, <4>3, <4>5, <1>0
      <4> QED
        BY <4>4, <4>5
    <3> QED
      BY <3>1, <3>2, <3>3, <1>0
  <2> QED
    BY <2>1, <2>2
<1>3. ASSUME NEW c \in Consumers, SpuriousWake(c) PROVE NoStrandedItem'
  <2>1. c \in W /\ K' = K \cup {c} /\ UNCHANGED q
    BY <1>3 DEF SpuriousWake, QueueTypeOK, In
  <2>2. Cardinality(K') = Cardinality(K) + 1
    BY <2>1, <1>s
  <2> QED
    BY <2>1, <2>2, <1>0
<1>4. ASSUME NEW w \in BOOLEAN, SetWork(w) PROVE NoStrandedItem'
  <2>1. CASE W = {} /\ UNCHANGED <<W, K>>
    BY <2>1
  <2>2. ASSUME NEW c \in W, W' = W \ {c}, K' = K \cup {c}
        PROVE  NoStrandedItem'
    <3>1. Cardinality(K') = Cardinality(K) + 1
      BY <2>2, <1>s DEF In
    <3> QED
      BY <1>4, <2>2, <3>1, <1>0 DEF SetWork
  <2> QED
    BY <1>4, <2>1, <2>2, SignalMoves DEF SetWork
<1>5. CASE Clear
  <2>1. UNCHANGED <<W, K>> /\ (q' = q \/ q' = <<>>)
    BY <1>5 DEF Clear, In
  <2> QED
    BY <2>1, <1>0, EmptySeq
<1>6. CASE SetReleaseCallback
  BY <1>6 DEF SetReleaseCallback, In
<1>7. CASE UNCHANGED queueVars
  BY <1>7 DEF queueVars, In
<1> QED
  BY <1>1, <1>2, <1>3, <1>4, <1>5, <1>6, <1>7 DEF QueueNext

(* One signal per push is enough for any number of consumers: as long as   *)
(* one waits, every item of the queue has a woken consumer of its own.     *)
THEOREM NoItemIsStranded == QueueSpec => []NoStrandedItem
<1>1. QueueInit => NoStrandedItem
  BY DEF QueueInit, NoStrandedItem, In
<1>2. QueueTypeOK /\ QueueTypeOK' /\ NoStrandedItem /\ [QueueNext]_queueVars
        => NoStrandedItem'
  BY StepStrandsNothing
<1> QED
  BY <1>1, <1>2, QueueTypeCorrect, PTL DEF QueueSpec

-----------------------------------------------------------------------------

LEMMA StepFreesOne ==
  ASSUME QueueTypeOK, StopFreesOne, [QueueNext]_queueVars
  PROVE  StopFreesOne'
<1> DEFINE W == In("waiting")
<1> USE DEF StopFreesOne
<1>g. /\ IsFiniteSet(W) /\ Cardinality(W) \in Nat
      /\ Cardinality(W) <= Cardinality(Consumers)
      /\ Cardinality(Consumers) \in Nat /\ Cardinality(Consumers) # 0
  BY GroupsAreFinite
<1>m. ASSUME W' \subseteq W PROVE Cardinality(W') <= Cardinality(W) /\ Cardinality(W') \in Nat
  BY <1>m, <1>g, FS_Subset, FS_CardinalityType
<1>1. ASSUME NEW v \in Items, Push(v) PROVE StopFreesOne'
  BY <1>1 DEF Push, In
<1>2. ASSUME NEW c \in Consumers, Pop(c) PROVE StopFreesOne'
  <2>1. CASE work
    BY <1>2, <2>1 DEF Pop
  <2>2. CASE ~work
    <3>1. W' \subseteq W /\ UNCHANGED work
      BY <1>2, <2>2 DEF Pop, In, QueueTypeOK
    <3> QED
      BY <3>1, <2>2, <1>m, <1>g
  <2> QED
    BY <2>1, <2>2
<1>3. ASSUME NEW c \in Consumers, SpuriousWake(c) PROVE StopFreesOne'
  <2>1. W' \subseteq W /\ UNCHANGED work
    BY <1>3 DEF SpuriousWake, In, QueueTypeOK
  <2> QED
    BY <2>1, <1>m, <1>g
<1>4. ASSUME NEW w \in BOOLEAN, SetWork(w) PROVE StopFreesOne'
  <2>1. CASE W = {} /\ UNCHANGED W
    BY <2>1, <1>g, FS_EmptySet
  <2>2. ASSUME NEW c \in W, W' = W \ {c} PROVE StopFreesOne'
    <3>1. Cardinality(W') = Cardinality(W) - 1
      BY <2>2, <1>g, FS_RemoveElement
    <3> QED
      BY <3>1, <1>g
  <2> QED
    BY <1>4, <2>1, <2>2, SignalMoves DEF SetWork
<1>5. CASE Clear
  BY <1>5 DEF Clear, In
<1>6. CASE SetReleaseCallback
  BY <1>6 DEF SetReleaseCallback, In
<1>7. CASE UNCHANGED queueVars
  BY <1>7 DEF queueVars, In
<1> QED
  BY <1>1, <1>2, <1>3, <1>4, <1>5, <1>6, <1>7 DEF QueueNext

(* setWork(0) leaves at least one consumer outside the wait; with a single *)
(* consumer that means nobody waits on a stopped queue.                    *)
THEOREM StopFreesAConsumer == QueueSpec => []StopFreesOne
<1>1. QueueInit => StopFreesOne
  <2>1. QueueInit => In("waiting") = {}
    BY DEF QueueInit, In
  <2> QED
    BY <2>1, GroupsAreFinite, FS_EmptySet DEF StopFreesOne
<1>2. QueueTypeOK /\ StopFreesOne /\ [QueueNext]_queueVars => StopFreesOne'
  BY StepFreesOne
<1> QED
  BY <1>1, <1>2, QueueTypeCorrect, PTL DEF QueueSpec

=============================================================================
