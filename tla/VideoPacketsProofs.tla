------------------------- MODULE VideoPacketsProofs -------------------------
(***************************************************************************)
(* Proofs about VideoPackets, for any units of an encoder and whatever     *)
(* lies in memory behind its arrays.                                       *)
(*                                                                         *)
(* The search of saveSPS_PPS finds the two start codes of the encoder and  *)
(* no other (OnlyStarts): within a unit there is none, a unit does not end *)
(* in a zero that could begin one, and so none can begin in the array and  *)
(* end in the memory behind it.  The lengths that stand in the bodies are  *)
(* what a player reads them as (RoundTrip16, RoundTrip32), and so it cuts  *)
(* each body where the code joined it (FrameRead, ConfigRead).             *)
(***************************************************************************)
EXTENDS VideoPackets, TLAPS

Bytes == 0..255
ConfigArray(s, p) == StartCode \o s \o StartCode \o p

(* The four bytes of a start code after the first i bytes of w.            *)
StartsAt(w, i) == w[i + 1] = 0 /\ w[i + 2] = 0 /\ w[i + 3] = 0 /\ w[i + 4] = 1

-----------------------------------------------------------------------------
(* Sequences.                                                              *)

(* Names of their own keep the provers from expanding these where a lemma  *)
(* about them is enough.                                                   *)
Cat(s, u) == s \o u
Part(s, m, n) == SubSeq(s, m, n)

Joins(w, s, u) ==
  /\ w \in Seq(Bytes) /\ Len(w) = Len(s) + Len(u)
  /\ \A i \in 1..Len(s) : w[i] = s[i]
  /\ \A i \in Len(s) + 1..Len(s) + Len(u) : w[i] = u[i - Len(s)]

LEMMA CatBytes ==
  ASSUME NEW s \in Seq(Bytes), NEW u \in Seq(Bytes)
  PROVE  Joins(Cat(s, u), s, u)
BY DEF Cat, Joins

(* What stands where in two sequences that were joined.                    *)
LEMMA Kept ==
  ASSUME NEW w, NEW s, NEW u, Joins(w, s, u)
  PROVE  \A i \in 1..Len(s) : w[i] = s[i]
BY Zenon DEF Joins

LEMMA Joined ==
  ASSUME NEW w, NEW s, NEW u, Joins(w, s, u)
  PROVE  w \in Seq(Bytes) /\ Len(w) = Len(s) + Len(u)
BY Zenon DEF Joins

LEMMA Added ==
  ASSUME NEW w, NEW s, NEW u, Joins(w, s, u)
  PROVE  \A i \in Len(s) + 1..Len(s) + Len(u) : w[i] = u[i - Len(s)]
BY Zenon DEF Joins

LEMMA LongerSeq ==
  ASSUME NEW s \in Seq(Bytes), NEW e \in Bytes
  PROVE  /\ Append(s, e) \in Seq(Bytes) /\ Len(Append(s, e)) = Len(s) + 1
         /\ Append(s, e)[Len(s) + 1] = e /\ \A k \in 1..Len(s) : Append(s, e)[k] = s[k]
OBVIOUS

LEMMA PartSeq ==
  ASSUME NEW S, NEW s \in Seq(S), NEW m \in Nat \ {0}, NEW n \in Nat, n <= Len(s), m <= n + 1
  PROVE  /\ SubSeq(s, m, n) \in Seq(S) /\ Len(SubSeq(s, m, n)) = n - m + 1
         /\ \A i \in 1..n - m + 1 : SubSeq(s, m, n)[i] = s[m + i - 1]
OBVIOUS

(* Two sequences of the same length and elements are one.                  *)
LEMMA SameSeq ==
  ASSUME NEW S, NEW s \in Seq(S), NEW u \in Seq(S), Len(s) = Len(u),
         \A i \in 1..Len(s) : s[i] = u[i]
  PROVE  s = u
OBVIOUS

(* The part of a longer sequence that holds another one.                   *)
LEMMA PartIs ==
  ASSUME NEW S, NEW w \in Seq(S), NEW u \in Seq(S), NEW k \in Nat, k + Len(u) <= Len(w),
         \A i \in k + 1..k + Len(u) : w[i] = u[i - k]
  PROVE  SubSeq(w, k + 1, k + Len(u)) = u
<1>1. PICK v : v = SubSeq(w, k + 1, k + Len(u))
  OBVIOUS
<1>2. v \in Seq(S) /\ Len(v) = Len(u) /\ \A i \in 1..Len(u) : v[i] = w[k + i]
  <2>1. /\ Len(u) \in Nat /\ k + 1 \in Nat \ {0} /\ k + Len(u) \in Nat
        /\ k + 1 <= k + Len(u) + 1 /\ (k + Len(u)) - (k + 1) + 1 = Len(u)
    OBVIOUS
  <2>2. \A i \in 1..Len(u) : k + 1 + i - 1 = k + i
    OBVIOUS
  <2> QED
    BY <1>1, <2>1, <2>2, PartSeq
<1>3. \A i \in 1..Len(u) : w[k + i] = u[i]
  <2>1. \A i \in 1..Len(u) : k + i \in k + 1..k + Len(u) /\ (k + i) - k = i
    OBVIOUS
  <2> QED
    BY <2>1
<1> QED
  BY <1>1, <1>2, <1>3, SameSeq

LEMMA UnitFacts ==
  /\ \A u \in SpsUnits \cup PpsUnits \cup Slices :
       u \in Seq(Bytes) /\ IsUnit(u) /\ Len(u) \in Nat \ {0}
  /\ \A m \in Beyond : m \in Seq(Bytes) /\ Len(m) = 4
  /\ \A u \in SpsUnits : Len(u) >= 4 /\ u[1] = SPS /\ Len(u) <= ShortMax
  /\ \A u \in PpsUnits : u[1] = PPS /\ Len(u) <= ShortMax
  /\ \A u \in Slices : u[1] \notin {SPS, PPS} /\ Len(u) + 4 <= IntMax
<1>1. \A u \in SpsUnits \cup PpsUnits \cup Slices : u \in Seq(0..255) /\ IsUnit(u)
  BY UnitAssumption
<1>2. \A u \in Seq(0..255) : IsUnit(u) => Len(u) \in Nat \ {0}
  BY DEF IsUnit
<1>3. \A u \in Slices : Len(u) + 4 <= IntMax
  BY <1>1, UnitAssumption DEF IntMax
<1> QED
  BY <1>1, <1>2, <1>3, UnitAssumption DEF Bytes

LEMMA CodeFacts ==
  /\ StartCode \in Seq(Bytes) /\ Len(StartCode) = 4
  /\ StartCode[1] = 0 /\ StartCode[2] = 0 /\ StartCode[3] = 0 /\ StartCode[4] = 1
BY DEF StartCode, Bytes

-----------------------------------------------------------------------------
(* The search.                                                             *)

(* w begins with the units of an encoder, each behind its start code.      *)
Holds(w, s, p) ==
  /\ StartsAt(w, 0) /\ StartsAt(w, 4 + Len(s))
  /\ \A k \in 5..4 + Len(s) : w[k] = s[k - 4]
  /\ \A k \in 9 + Len(s)..8 + Len(s) + Len(p) : w[k] = p[k - (8 + Len(s))]

LEMMA ArrayPlaces ==
  ASSUME NEW s \in Seq(Bytes), NEW p \in Seq(Bytes)
  PROVE  /\ ConfigArray(s, p) \in Seq(Bytes)
         /\ Len(ConfigArray(s, p)) = 8 + Len(s) + Len(p)
         /\ Holds(ConfigArray(s, p), s, p)
<1>1. Len(s) \in Nat /\ Len(p) \in Nat
  OBVIOUS
<1>2. PICK b : b = Cat(StartCode, s)
  OBVIOUS
<1>3. /\ b \in Seq(Bytes) /\ Len(b) = 4 + Len(s)
      /\ \A k \in 1..4 : b[k] = StartCode[k]
      /\ \A k \in 5..4 + Len(s) : b[k] = s[k - 4]
  <2>1. Joins(b, StartCode, s)
    BY <1>2, CodeFacts, CatBytes
  <2> QED
    BY <1>1, <2>1, CodeFacts DEF Joins
<1>4. PICK c : c = Cat(b, StartCode)
  OBVIOUS
<1>5. /\ c \in Seq(Bytes) /\ Len(c) = 8 + Len(s)
      /\ \A k \in 1..4 + Len(s) : c[k] = b[k]
      /\ \A k \in 5 + Len(s)..8 + Len(s) : c[k] = StartCode[k - (4 + Len(s))]
  <2>1. Joins(c, b, StartCode)
    BY <1>3, <1>4, CodeFacts, CatBytes
  <2> QED
    BY <1>1, <1>3, <2>1, CodeFacts DEF Joins
<1>6. PICK a : a = Cat(c, p)
  OBVIOUS
<1>7. a = ConfigArray(s, p)
  BY <1>2, <1>4, <1>6 DEF Cat, ConfigArray
<1>8. /\ a \in Seq(Bytes) /\ Len(a) = 8 + Len(s) + Len(p)
      /\ \A k \in 1..8 + Len(s) : a[k] = c[k]
      /\ \A k \in 9 + Len(s)..8 + Len(s) + Len(p) : a[k] = p[k - (8 + Len(s))]
  <2>1. Joins(a, c, p)
    BY <1>5, <1>6, CatBytes
  <2> QED
    BY <1>1, <1>5, <2>1 DEF Joins
<1>9. /\ \A k \in 1..4 : a[k] = StartCode[k]
      /\ \A k \in 5 + Len(s)..8 + Len(s) : a[k] = StartCode[k - (4 + Len(s))]
      /\ \A k \in 5..4 + Len(s) : a[k] = s[k - 4]
  <2>1. \A k \in 1..4 : a[k] = c[k] /\ c[k] = b[k] /\ b[k] = StartCode[k]
    BY <1>1, <1>3, <1>5, <1>8
  <2>2. \A k \in 5 + Len(s)..8 + Len(s) : a[k] = c[k] /\ c[k] = StartCode[k - (4 + Len(s))]
    BY <1>1, <1>5, <1>8
  <2>3. \A k \in 5..4 + Len(s) : a[k] = c[k] /\ c[k] = b[k] /\ b[k] = s[k - 4]
    BY <1>1, <1>3, <1>5, <1>8
  <2> QED
    BY <2>1, <2>2, <2>3
<1>10. StartsAt(a, 0) /\ StartsAt(a, 4 + Len(s))
  <2>1. a[1] = 0 /\ a[2] = 0 /\ a[3] = 0 /\ a[4] = 1
    BY <1>9, CodeFacts
  <2>2. \A j \in 1..4 : a[4 + Len(s) + j] = StartCode[j]
    <3>1. \A j \in 1..4 : /\ 4 + Len(s) + j \in 5 + Len(s)..8 + Len(s)
                           /\ (4 + Len(s) + j) - (4 + Len(s)) = j
      BY <1>1
    <3> QED
      BY <1>9, <3>1
  <2>3. /\ a[4 + Len(s) + 1] = 0 /\ a[4 + Len(s) + 2] = 0
        /\ a[4 + Len(s) + 3] = 0 /\ a[4 + Len(s) + 4] = 1
    BY <2>2, CodeFacts
  <2> QED
    BY <2>1, <2>3 DEF StartsAt
<1> QED
  BY <1>7, <1>8, <1>9, <1>10 DEF Holds

(* What follows the array in memory changes none of it.                    *)
LEMMA StillHolds ==
  ASSUME NEW s \in Seq(Bytes), NEW p \in Seq(Bytes), NEW a \in Seq(Bytes),
         Len(a) = 8 + Len(s) + Len(p), Holds(a, s, p), NEW m \in Seq(Bytes)
  PROVE  Cat(a, m) \in Seq(Bytes) /\ Len(Cat(a, m)) = Len(a) + Len(m) /\ Holds(Cat(a, m), s, p)
<1>1. Len(s) \in Nat /\ Len(p) \in Nat
  OBVIOUS
<1>2. PICK w : w = Cat(a, m)
  OBVIOUS
<1>3. Joins(w, a, m)
  BY <1>2, CatBytes
<1>4. \A k \in 1..8 + Len(s) + Len(p) : w[k] = a[k]
  BY <1>3 DEF Joins
<1>5. /\ \A k \in 5..4 + Len(s) : w[k] = s[k - 4]
      /\ \A k \in 9 + Len(s)..8 + Len(s) + Len(p) : w[k] = p[k - (8 + Len(s))]
  <2>1. \A k \in 5..4 + Len(s) : w[k] = a[k] /\ a[k] = s[k - 4]
    BY <1>1, <1>4 DEF Holds
  <2>2. \A k \in 9 + Len(s)..8 + Len(s) + Len(p) : w[k] = a[k] /\ a[k] = p[k - (8 + Len(s))]
    BY <1>1, <1>4 DEF Holds
  <2> QED
    BY <2>1, <2>2
<1>6. StartsAt(w, 0) /\ StartsAt(w, 4 + Len(s))
  BY <1>1, <1>4 DEF Holds, StartsAt
<1> QED
  BY <1>2, <1>3, <1>5, <1>6 DEF Holds, Joins

(* No start code begins within a unit, whatever follows.                   *)
LEMMA NoneInUnit ==
  ASSUME NEW u, u \in Seq(Bytes), IsUnit(u), NEW w \in Seq(Bytes), NEW n \in Nat,
         n + Len(u) <= Len(w), \A k \in n + 1..n + Len(u) : w[k] = u[k - n],
         NEW i \in n..n + Len(u) - 1
  PROVE  ~StartsAt(w, i)
<1>1. PICK k \in 1..Len(u) : i = n + k - 1
  <2>1. i - n + 1 \in 1..Len(u) /\ i = n + (i - n + 1) - 1
    OBVIOUS
  <2> QED
    BY <2>1
<1>0. Len(u) \in Nat /\ u[Len(u)] # 0
  BY DEF IsUnit
<1> SUFFICES ASSUME StartsAt(w, i) PROVE FALSE
  OBVIOUS
<1>2. w[n + k] = 0 /\ w[n + (k + 1)] = 0 /\ w[n + (k + 2)] = 0
  <2>1. i + 1 = n + k /\ i + 2 = n + (k + 1) /\ i + 3 = n + (k + 2)
    BY <1>1
  <2> QED
    BY <2>1 DEF StartsAt
<1>3. CASE k = Len(u) \/ k + 1 = Len(u)
  BY <1>1, <1>0, <1>2, <1>3
<1>4. CASE k \in 1..Len(u) - 2
  <2>1. \A j \in 1..Len(u) : w[n + j] = u[j]
    <3>1. \A j \in 1..Len(u) : n + j \in n + 1..n + Len(u) /\ (n + j) - n = j
      BY <1>0
    <3> QED
      BY <3>1
  <2>2. u[k] = 0 /\ u[k + 1] = 0 /\ u[k + 2] = 0
    <3>1. k \in 1..Len(u) /\ k + 1 \in 1..Len(u) /\ k + 2 \in 1..Len(u)
      BY <1>0, <1>4
    <3> QED
      BY <1>2, <2>1, <3>1, Zenon
  <2> QED
    BY <1>4, <2>2 DEF IsUnit
<1> QED
  BY <1>1, <1>0, <1>3, <1>4

(* The only start codes are those in front of the units.                   *)
LEMMA OnlyStarts ==
  ASSUME NEW s \in Seq(Bytes), IsUnit(s), NEW p \in Seq(Bytes), IsUnit(p),
         NEW w \in Seq(Bytes), 8 + Len(s) + Len(p) <= Len(w), Holds(w, s, p),
         NEW i \in 0..7 + Len(s) + Len(p), StartsAt(w, i)
  PROVE  i = 0 \/ i = 4 + Len(s)
<1>1. Len(s) \in Nat /\ Len(p) \in Nat
  OBVIOUS
<1>2. w[4] = 1 /\ w[4 + Len(s) + 4] = 1
  BY DEF Holds, StartsAt
<1>3. CASE i \in 1..3
  <2>1. i + 1 = 4 \/ i + 2 = 4 \/ i + 3 = 4
    BY <1>3
  <2> QED
    BY <1>2, <2>1 DEF StartsAt
<1>4. CASE i \in 4..4 + Len(s) - 1
  <2>1. /\ 4 + Len(s) <= Len(w) /\ 4 \in Nat
        /\ \A k \in 4 + 1..4 + Len(s) : w[k] = s[k - 4]
    BY <1>1 DEF Holds
  <2> QED
    BY <1>4, <2>1, NoneInUnit, Zenon
<1>5. CASE i \in 5 + Len(s)..7 + Len(s)
  <2>1. i + 1 = 4 + Len(s) + 4 \/ i + 2 = 4 + Len(s) + 4 \/ i + 3 = 4 + Len(s) + 4
    BY <1>1, <1>5
  <2> QED
    BY <1>2, <2>1 DEF StartsAt
<1>6. CASE i \in 8 + Len(s)..8 + Len(s) + Len(p) - 1
  <2> DEFINE n == 8 + Len(s)
  <2>1. n \in Nat /\ n + Len(p) <= Len(w) /\ \A k \in n + 1..n + Len(p) : w[k] = p[k - n]
    BY <1>1 DEF Holds
  <2> QED
    BY <1>6, <2>1, NoneInUnit, Zenon
<1> QED
  BY <1>1, <1>3, <1>4, <1>5, <1>6

(* What the loop compares.                                                 *)
LEMMA Compared ==
  ASSUME NEW w \in Seq(Bytes), NEW i \in Nat, i + 5 <= Len(w), NEW type \in Bytes
  PROVE  SubSeq(w, i + 1, i + 5) = Append(StartCode, type)
           <=> StartsAt(w, i) /\ w[i + 5] = type
<1>1. PICK v : v = Append(StartCode, type)
  OBVIOUS
<1>0. /\ v \in Seq(Bytes) /\ Len(v) = 5 /\ v[5] = type
      /\ v[1] = 0 /\ v[2] = 0 /\ v[3] = 0 /\ v[4] = 1
  <2>1. /\ v \in Seq(Bytes) /\ Len(v) = Len(StartCode) + 1
        /\ v[Len(StartCode) + 1] = type /\ \A k \in 1..Len(StartCode) : v[k] = StartCode[k]
    BY <1>1, CodeFacts, LongerSeq, Zenon
  <2> QED
    BY <2>1, CodeFacts
<1>2. /\ SubSeq(w, i + 1, i + 5) \in Seq(Bytes) /\ Len(SubSeq(w, i + 1, i + 5)) = 5
      /\ \A k \in 1..5 : SubSeq(w, i + 1, i + 5)[k] = w[i + k]
  <2>1. i + 1 \in Nat \ {0} /\ i + 5 \in Nat /\ (i + 5) - (i + 1) + 1 = 5 /\ i + 1 <= i + 5 + 1
    OBVIOUS
  <2>2. \A k \in 1..5 : i + 1 + k - 1 = i + k
    OBVIOUS
  <2> QED
    BY <2>1, <2>2, PartSeq
<1>3. SubSeq(w, i + 1, i + 5) = v <=> \A k \in 1..5 : SubSeq(w, i + 1, i + 5)[k] = v[k]
  BY <1>0, <1>2, SameSeq
<1>4. (\A k \in 1..5 : w[i + k] = v[k]) <=> StartsAt(w, i) /\ w[i + 5] = type
  <2>1. (\A k \in 1..5 : w[i + k] = v[k])
          <=> /\ w[i + 1] = v[1] /\ w[i + 2] = v[2] /\ w[i + 3] = v[3]
              /\ w[i + 4] = v[4] /\ w[i + 5] = v[5]
    <3>1. \A k \in 1..5 : k = 1 \/ k = 2 \/ k = 3 \/ k = 4 \/ k = 5
      OBVIOUS
    <3>2. 1 \in 1..5 /\ 2 \in 1..5 /\ 3 \in 1..5 /\ 4 \in 1..5 /\ 5 \in 1..5
      OBVIOUS
    <3> QED
      BY <3>1, <3>2, Zenon
  <2> QED
    BY <1>0, <2>1 DEF StartsAt
<1> QED
  BY <1>1, <1>2, <1>3, <1>4

(* The search finds each unit, once.                                       *)
LEMMA Found ==
  ASSUME NEW s \in SpsUnits, NEW p \in PpsUnits, NEW m \in Beyond
  PROVE  /\ UnitsAt(SPS, ConfigArray(s, p), m) = {0}
         /\ UnitsAt(PPS, ConfigArray(s, p), m) = {4 + Len(s)}
<1>0. PICK a : a = ConfigArray(s, p)
  OBVIOUS
<1>1. /\ s \in Seq(Bytes) /\ IsUnit(s) /\ Len(s) \in Nat \ {0} /\ s[1] = SPS
      /\ p \in Seq(Bytes) /\ IsUnit(p) /\ Len(p) \in Nat \ {0} /\ p[1] = PPS
      /\ m \in Seq(Bytes) /\ Len(m) = 4
  BY UnitFacts
<1>2. a \in Seq(Bytes) /\ Len(a) = 8 + Len(s) + Len(p) /\ Holds(a, s, p)
  BY <1>0, <1>1, ArrayPlaces
<1>3. PICK w : w = Cat(a, m)
  OBVIOUS
<1>4. w \in Seq(Bytes) /\ Len(w) = 12 + Len(s) + Len(p) /\ Holds(w, s, p)
  <2>1. /\ Cat(a, m) \in Seq(Bytes) /\ Len(Cat(a, m)) = Len(a) + Len(m)
        /\ Holds(Cat(a, m), s, p)
    BY <1>1, <1>2, StillHolds, Zenon
  <2> QED
    BY <1>1, <1>2, <1>3, <2>1
<1>5. \A i \in 0..Len(a) - 1 : StartsAt(w, i) => i = 0 \/ i = 4 + Len(s)
  <2>1. /\ 8 + Len(s) + Len(p) <= Len(w)
        /\ \A i \in 0..Len(a) - 1 : i \in 0..7 + Len(s) + Len(p)
    BY <1>1, <1>2, <1>4
  <2> QED
    BY <1>1, <1>4, <2>1, OnlyStarts, Zenon
<1>6. StartsAt(w, 0) /\ w[5] = SPS /\ StartsAt(w, 4 + Len(s)) /\ w[4 + Len(s) + 5] = PPS
  <2>1. 5 \in 5..4 + Len(s) /\ 5 - 4 = 1
    BY <1>1
  <2>2. /\ 4 + Len(s) + 5 \in 9 + Len(s)..8 + Len(s) + Len(p)
        /\ (4 + Len(s) + 5) - (8 + Len(s)) = 1
    BY <1>1
  <2> QED
    BY <1>1, <1>4, <2>1, <2>2 DEF Holds
<1>7. SPS \in Bytes /\ PPS \in Bytes /\ SPS # PPS
  BY DEF SPS, PPS, Bytes
<1>8. \A type \in Bytes :
        UnitsAt(type, a, m) = {i \in 0..Len(a) - 1 : StartsAt(w, i) /\ w[i + 5] = type}
  <2>1. \A i \in 0..Len(a) - 1 : i \in Nat /\ i + 5 <= Len(w)
    BY <1>1, <1>2, <1>4
  <2>2. \A type \in Bytes : \A i \in 0..Len(a) - 1 :
          SubSeq(w, i + 1, i + 5) = Append(StartCode, type)
            <=> StartsAt(w, i) /\ w[i + 5] = type
    BY <1>4, <2>1, Compared
  <2>3. w = a \o m
    BY <1>3 DEF Cat
  <2> QED
    BY <2>2, <2>3, Zenon DEF UnitsAt
<1>9. 0 \in 0..Len(a) - 1 /\ 4 + Len(s) \in 0..Len(a) - 1 /\ 0 # 4 + Len(s)
  BY <1>1, <1>2
<1>10. UnitsAt(SPS, a, m) = {0}
  <2>1. w[0 + 5] = SPS /\ w[4 + Len(s) + 5] # SPS
    BY <1>6, <1>7
  <2>2. UnitsAt(SPS, a, m) = {i \in 0..Len(a) - 1 : StartsAt(w, i) /\ w[i + 5] = SPS}
    BY <1>7, <1>8, Zenon
  <2>3. \A i \in 0..Len(a) - 1 : StartsAt(w, i) /\ w[i + 5] = SPS => i = 0
    BY <1>5, <2>1, Zenon
  <2> QED
    BY <1>6, <1>9, <2>1, <2>2, <2>3, Zenon
<1>11. UnitsAt(PPS, a, m) = {4 + Len(s)}
  BY <1>5, <1>6, <1>7, <1>8, <1>9
<1> QED
  BY <1>0, <1>10, <1>11, Zenon

LEMMA OneExtreme ==
  ASSUME NEW n \in Nat
  PROVE  Min({n}) = n /\ Max({n}) = n
BY DEF Min, Max

LEMMA Indexes ==
  ASSUME NEW s \in SpsUnits, NEW p \in PpsUnits, NEW m \in Beyond,
         NEW a, a = ConfigArray(s, p)
  PROVE  SpsIndex(a, m) = 4 /\ PpsIndex(a, m) = 8 + Len(s) /\ SpsLength(a, m) = Len(s)
<1>1. UnitsAt(SPS, a, m) = {0} /\ UnitsAt(PPS, a, m) = {4 + Len(s)}
  BY Found
<1>2. Len(s) \in Nat /\ 4 + Len(s) \in Nat
  BY UnitFacts
<1>3. Min({4 + Len(s)}) = 4 + Len(s) /\ Max({0}) = 0
  BY <1>2, OneExtreme
<1>4. {i \in {0} : i < 4 + Len(s)} = {0}
  BY <1>2
<1>5. SpsIndex(a, m) = 4
  <2> DEFINE before == IF {4 + Len(s)} = {} THEN {0}
                       ELSE {i \in {0} : i < Min({4 + Len(s)})}
  <2>1. before = {0}
    BY <1>3, <1>4
  <2>2. SpsIndex(a, m) = IF before = {} THEN 0 ELSE Max(before) + 4
    BY <1>1, Zenon DEF SpsIndex
  <2> HIDE DEF before
  <2> QED
    BY <1>3, <2>1, <2>2
<1>6. PpsIndex(a, m) = 8 + Len(s)
  BY <1>1, <1>2, <1>3 DEF PpsIndex
<1> QED
  BY <1>2, <1>5, <1>6 DEF SpsLength

(* saveSPS_PPS cuts out what the encoder put in.                           *)
LEMMA Saved ==
  ASSUME NEW s \in SpsUnits, NEW p \in PpsUnits, NEW m \in Beyond,
         SaveSpsPps(ConfigArray(s, p), m)
  PROVE  sps' = s /\ pps' = p
<1> DEFINE a == ConfigArray(s, p)
<1>1. SpsIndex(a, m) = 4 /\ PpsIndex(a, m) = 8 + Len(s) /\ SpsLength(a, m) = Len(s)
  BY Indexes
<1>2. /\ s \in Seq(Bytes) /\ p \in Seq(Bytes) /\ Len(s) \in Nat /\ Len(p) \in Nat
  BY UnitFacts
<1>3. /\ a \in Seq(Bytes) /\ Len(a) = 8 + Len(s) + Len(p)
      /\ \A k \in 5..4 + Len(s) : a[k] = s[k - 4]
      /\ \A k \in 9 + Len(s)..8 + Len(s) + Len(p) : a[k] = p[k - (8 + Len(s))]
  BY <1>2, ArrayPlaces DEF Holds
<1> HIDE DEF a
<1>4. SubSeq(a, 4 + 1, 4 + Len(s)) = s
  BY <1>2, <1>3, PartIs
<1>5. SubSeq(a, 8 + Len(s) + 1, 8 + Len(s) + Len(p)) = p
  BY <1>2, <1>3, PartIs
<1>6. /\ sps' = SubSeq(a, 4 + 1, 4 + Len(s))
      /\ pps' = SubSeq(a, 8 + Len(s) + 1, Len(a))
  BY <1>1, <1>2 DEF SaveSpsPps, a
<1> QED
  BY <1>3, <1>4, <1>5, <1>6

-----------------------------------------------------------------------------
(* The bodies.                                                             *)

(* A length in two bytes, and in four, is read as what it was.             *)
LEMMA RoundTrip16 ==
  ASSUME NEW n \in Nat, n <= ShortMax
  PROVE  Bytes16(n) \in Seq(Bytes) /\ Len(Bytes16(n)) = 2 /\ Read16(Bytes16(n), 1) = n
<1>1. ((n \div 256) % 256) * 256 + (n % 256) = n
  BY SMT DEF ShortMax
<1>2. (n \div 256) % 256 \in Bytes /\ n % 256 \in Bytes
  BY SMT DEF Bytes
<1> QED
  BY <1>1, <1>2, SMT DEF Bytes16, Read16

LEMMA RoundTrip32 ==
  ASSUME NEW n \in Nat, n <= IntMax
  PROVE  Bytes32(n) \in Seq(Bytes) /\ Len(Bytes32(n)) = 4 /\ Read32(Bytes32(n), 1) = n
<1>1. PICK d1 \in Bytes, d2 \in Bytes, d3 \in Bytes, d4 \in Bytes :
        /\ <<(n \div 16777216) % 256, (n \div 65536) % 256>> = <<d1, d2>>
        /\ Bytes16(n) = <<d3, d4>>
        /\ (d1 * 256 + d2) * 65536 + (d3 * 256 + d4) = n
  <2>1. (((n \div 16777216) % 256) * 256 + ((n \div 65536) % 256)) * 65536
          + (((n \div 256) % 256) * 256 + (n % 256)) = n
    BY SMT DEF IntMax
  <2>2. /\ (n \div 16777216) % 256 \in Bytes /\ (n \div 65536) % 256 \in Bytes
        /\ (n \div 256) % 256 \in Bytes /\ n % 256 \in Bytes
    BY SMT DEF Bytes
  <2> QED
    BY <2>1, <2>2, SMT DEF Bytes16
<1>2. PICK high : high = <<d1, d2>>
  OBVIOUS
<1>3. PICK low : low = <<d3, d4>>
  OBVIOUS
<1>4. /\ high \in Seq(Bytes) /\ Len(high) = 2 /\ high[1] = d1 /\ high[2] = d2
      /\ low \in Seq(Bytes) /\ Len(low) = 2 /\ low[1] = d3 /\ low[2] = d4
  BY <1>2, <1>3
<1>5. PICK w : w = Cat(high, low)
  OBVIOUS
<1>6. w = Bytes32(n)
  BY <1>1, <1>2, <1>3, <1>5, SMT DEF Cat, Bytes32
<1>7. Joins(w, high, low)
  BY <1>4, <1>5, CatBytes
<1>8. /\ w \in Seq(Bytes) /\ Len(w) = 4
      /\ w[1] = d1 /\ w[2] = d2 /\ w[3] = d3 /\ w[4] = d4
  BY <1>4, <1>7 DEF Joins
<1>9. Read32(w, 1) = (d1 * 256 + d2) * 65536 + (d3 * 256 + d4)
  BY <1>8, SMT DEF Read32, Read16
<1> QED
  BY <1>1, <1>6, <1>8, <1>9, SMT

(* What a player reads in a frame is the array behind its start code.      *)
LEMMA FrameRead ==
  ASSUME NEW a \in Seq(Bytes), 4 <= Len(a), Len(a) <= IntMax,
         NEW isIFrame \in BOOLEAN
  PROVE  ReadFrame(FrameBody(isIFrame, a)) =
           [isIFrame |-> isIFrame, unit |-> SubSeq(a, 5, Len(a)),
            size |-> Len(FrameBody(isIFrame, a))]
<1>1. PICK h : h = <<IF isIFrame THEN 23 ELSE 39, 1, 0, 0, 0>>
  OBVIOUS
<1>2. /\ h \in Seq(Bytes) /\ Len(h) = 5 /\ (h[1] = 23) = isIFrame
  BY <1>1 DEF Bytes
<1>3. PICK n \in Nat : n = Len(a) - 4
  OBVIOUS
<1>4. PICK q : q = Bytes32(n)
  OBVIOUS
<1>5. q \in Seq(Bytes) /\ Len(q) = 4 /\ Read32(q, 1) = n
  <2>1. n <= IntMax
    BY <1>3 DEF IntMax
  <2> QED
    BY <1>4, <2>1, RoundTrip32
<1>6. PICK u : u = SubSeq(a, 5, Len(a))
  OBVIOUS
<1>7. u \in Seq(Bytes) /\ Len(u) = n
  BY <1>3, <1>6, PartSeq
<1>8. PICK b : b = Cat(h, q)
  OBVIOUS
<1>9. PICK w : w = Cat(b, u)
  OBVIOUS
<1>10. w = FrameBody(isIFrame, a)
  BY <1>1, <1>3, <1>4, <1>6, <1>8, <1>9 DEF Cat, FrameBody
<1>11. Joins(b, h, q)
  BY <1>2, <1>5, <1>8, CatBytes
<1>12. /\ b \in Seq(Bytes) /\ Len(b) = 9 /\ b[1] = h[1]
       /\ b[6] = q[1] /\ b[7] = q[2] /\ b[8] = q[3] /\ b[9] = q[4]
  <2>1. /\ b \in Seq(Bytes) /\ Len(b) = 9 /\ \A i \in 1..5 : b[i] = h[i]
        /\ \A i \in 6..9 : b[i] = q[i - 5]
    BY <1>2, <1>5, <1>11 DEF Joins
  <2> QED
    BY <2>1
<1>13. Joins(w, b, u)
  BY <1>7, <1>9, <1>12, CatBytes
<1>14. /\ w \in Seq(Bytes) /\ Len(w) = 9 + n /\ w[1] = h[1]
       /\ w[6] = q[1] /\ w[7] = q[2] /\ w[8] = q[3] /\ w[9] = q[4]
       /\ \A i \in 10..9 + n : w[i] = u[i - 9]
  <2>1. /\ w \in Seq(Bytes) /\ Len(w) = 9 + n /\ \A i \in 1..9 : w[i] = b[i]
        /\ \A i \in 10..9 + n : w[i] = u[i - 9]
    BY <1>7, <1>12, <1>13 DEF Joins
  <2> QED
    BY <1>12, <2>1
<1>15. Read32(w, 6) = n
  <2>1. Read32(w, 6) = Read32(q, 1)
    BY <1>14, SMT DEF Read32, Read16
  <2> QED
    BY <1>5, <2>1
<1>16. SubSeq(w, 10, 9 + n) = u
  <2>1. 9 + Len(u) <= Len(w) /\ \A i \in 9 + 1..9 + Len(u) : w[i] = u[i - 9]
    BY <1>7, <1>14
  <2>2. SubSeq(w, 9 + 1, 9 + Len(u)) = u
    BY <1>7, <1>14, <2>1, PartIs
  <2> QED
    BY <1>7, <2>2
<1>17. ReadFrame(w) = [isIFrame |-> w[1] = 23, unit |-> SubSeq(w, 10, 9 + Read32(w, 6)),
                       size |-> 9 + Read32(w, 6)]
  BY DEF ReadFrame
<1>18. (w[1] = 23) = isIFrame
  BY <1>2, <1>14
<1> QED
  BY <1>6, <1>10, <1>14, <1>15, <1>16, <1>17, <1>18

(* And in the other body the SPS and the PPS.                              *)
ConfigBody(s, p) ==
  <<23, 0, 0, 0, 0, 1, s[2], s[3], s[4], 255, 225>>
    \o Bytes16(Len(s)) \o s \o <<1>> \o Bytes16(Len(p)) \o p

LEMMA ConfigRead ==
  ASSUME NEW s \in Seq(Bytes), 4 <= Len(s), Len(s) <= ShortMax,
         NEW p \in Seq(Bytes), Len(p) <= ShortMax
  PROVE  ReadConfig(ConfigBody(s, p)) = [sps |-> s, pps |-> p, size |-> Len(ConfigBody(s, p))]
<1>1. PICK m \in Nat, n \in Nat : m = Len(s) /\ n = Len(p)
  OBVIOUS
<1> DEFINE h == <<23, 0, 0, 0, 0, 1, s[2], s[3], s[4], 255, 225>>
           o == <<1>>
<1>3. h \in Seq(Bytes) /\ Len(h) = 11
  <2>1. s[2] \in Bytes /\ s[3] \in Bytes /\ s[4] \in Bytes
    OBVIOUS
  <2> QED
    BY <2>1 DEF Bytes
<1>4. PICK q : q = Bytes16(m)
  OBVIOUS
<1>5. q \in Seq(Bytes) /\ Len(q) = 2 /\ Read16(q, 1) = m
  BY <1>1, <1>4, RoundTrip16
<1>6. PICK r : r = Bytes16(n)
  OBVIOUS
<1>7. r \in Seq(Bytes) /\ Len(r) = 2 /\ Read16(r, 1) = n
  BY <1>1, <1>6, RoundTrip16
<1>9. o \in Seq(Bytes) /\ Len(o) = 1
  BY DEF Bytes
<1> HIDE DEF h, o
<1>10. PICK b : b = Cat(h, q)
  OBVIOUS
<1>11. PICK c : c = Cat(b, s)
  OBVIOUS
<1>12. PICK d : d = Cat(c, o)
  OBVIOUS
<1>13. PICK e : e = Cat(d, r)
  OBVIOUS
<1>14. PICK w : w = Cat(e, p)
  OBVIOUS
<1>15. w = ConfigBody(s, p)
  <2>1. ConfigBody(s, p) =
          Cat(Cat(Cat(Cat(Cat(h, Bytes16(Len(s))), s), o), Bytes16(Len(p))), p)
    BY DEF h, o, ConfigBody, Cat
  <2>2. b = Cat(h, Bytes16(Len(s))) /\ e = Cat(d, Bytes16(Len(p)))
    BY <1>1, <1>4, <1>6, <1>10, <1>13
  <2> QED
    BY <1>11, <1>12, <1>14, <2>1, <2>2
<1>16. Joins(b, h, q)
  BY <1>3, <1>5, <1>10, CatBytes
<1>17. b \in Seq(Bytes) /\ Len(b) = 13
  <2>1. b \in Seq(Bytes) /\ Len(b) = Len(h) + Len(q)
    BY <1>16, Joined
  <2> QED
    BY <1>3, <1>5, <2>1
<1>18. Joins(c, b, s)
  BY <1>11, <1>17, CatBytes
<1>19. c \in Seq(Bytes) /\ Len(c) = 13 + m
  <2>1. c \in Seq(Bytes) /\ Len(c) = Len(b) + Len(s)
    BY <1>18, Joined
  <2> QED
    BY <1>1, <1>17, <2>1
<1>20. Joins(d, c, o)
  BY <1>9, <1>12, <1>19, CatBytes
<1>21. d \in Seq(Bytes) /\ Len(d) = 14 + m
  <2>1. d \in Seq(Bytes) /\ Len(d) = Len(c) + Len(o)
    BY <1>20, Joined
  <2> QED
    BY <1>1, <1>9, <1>19, <2>1
<1>22. Joins(e, d, r)
  BY <1>7, <1>13, <1>21, CatBytes
<1>23. e \in Seq(Bytes) /\ Len(e) = 16 + m
  <2>1. e \in Seq(Bytes) /\ Len(e) = Len(d) + Len(r)
    BY <1>22, Joined
  <2> QED
    BY <1>1, <1>7, <1>21, <2>1
<1>24. Joins(w, e, p)
  BY <1>14, <1>23, CatBytes
<1>25. w \in Seq(Bytes) /\ Len(w) = 16 + m + n
  <2>1. w \in Seq(Bytes) /\ Len(w) = Len(e) + Len(p)
    BY <1>24, Joined
  <2> QED
    BY <1>1, <1>23, <2>1
<1>26. \A i \in 1..13 + m : w[i] = c[i]
  <2>1. \A i \in 1..Len(e) : w[i] = e[i]
    BY <1>24, Kept, Zenon
  <2>2. \A i \in 1..Len(d) : e[i] = d[i]
    BY <1>22, Kept, Zenon
  <2>3. \A i \in 1..Len(c) : d[i] = c[i]
    BY <1>20, Kept, Zenon
  <2>4. \A i \in 1..13 + m : i \in 1..Len(e) /\ i \in 1..Len(d) /\ i \in 1..Len(c)
    BY <1>19, <1>21, <1>23
  <2> QED
    BY <2>1, <2>2, <2>3, <2>4
<1>27. w[12] = q[1] /\ w[13] = q[2]
  <2>1. \A i \in 1..Len(b) : c[i] = b[i]
    BY <1>18, Kept, Zenon
  <2>2. \A i \in Len(h) + 1..Len(h) + Len(q) : b[i] = q[i - Len(h)]
    BY <1>16, Added
  <2>3. b[12] = q[1] /\ b[13] = q[2]
    BY <1>3, <1>5, <2>2
  <2>4. c[12] = b[12] /\ c[13] = b[13]
    BY <1>17, <2>1
  <2>5. 12 \in 1..13 + m /\ 13 \in 1..13 + m
    OBVIOUS
  <2>6. w[12] = c[12] /\ w[13] = c[13]
    BY <1>26, <2>5
  <2> QED
    BY <2>3, <2>4, <2>6
<1>28. w[15 + m] = r[1] /\ w[16 + m] = r[2]
  <2>1. \A i \in 1..Len(e) : w[i] = e[i]
    BY <1>24, Kept, Zenon
  <2>2. \A i \in Len(d) + 1..Len(d) + Len(r) : e[i] = r[i - Len(d)]
    BY <1>22, Added
  <2>3. /\ 15 + m \in 1..Len(e) /\ 15 + m \in Len(d) + 1..Len(d) + Len(r)
        /\ 16 + m \in 1..Len(e) /\ 16 + m \in Len(d) + 1..Len(d) + Len(r)
        /\ (15 + m) - Len(d) = 1 /\ (16 + m) - Len(d) = 2
    BY <1>7, <1>21, <1>23
  <2> QED
    BY <2>1, <2>2, <2>3
<1>29. \A i \in 14..13 + m : w[i] = s[i - 13]
  <2>1. \A i \in Len(b) + 1..Len(b) + Len(s) : c[i] = s[i - Len(b)]
    BY <1>18, Added
  <2>2. \A i \in 14..13 + m : c[i] = s[i - 13]
    BY <1>1, <1>17, <2>1
  <2>3. \A i \in 14..13 + m : i \in 1..13 + m
    OBVIOUS
  <2> QED
    BY <1>26, <2>2, <2>3
<1>30. \A i \in 17 + m..16 + m + n : w[i] = p[i - (16 + m)]
  <2>1. \A i \in Len(e) + 1..Len(e) + Len(p) : w[i] = p[i - Len(e)]
    BY <1>24, Added
  <2> QED
    BY <1>1, <1>23, <2>1
<1>31. Read16(w, 12) = m /\ Read16(w, 15 + m) = n
  <2>1. Read16(w, 12) = Read16(q, 1)
    BY <1>27 DEF Read16
  <2>2. Read16(w, 15 + m) = Read16(r, 1)
    <3>1. 15 + m + 1 = 16 + m
      OBVIOUS
    <3> QED
      BY <1>28, <3>1 DEF Read16
  <2> QED
    BY <1>5, <1>7, <2>1, <2>2
<1>32. SubSeq(w, 13 + 1, 13 + m) = s
  <2> DEFINE k == 13
  <2>1. k \in Nat /\ k + Len(s) <= Len(w) /\ \A i \in k + 1..k + Len(s) : w[i] = s[i - k]
    BY <1>1, <1>25, <1>29
  <2> HIDE DEF k
  <2>2. SubSeq(w, k + 1, k + Len(s)) = s
    BY <1>25, <2>1, PartIs
  <2> QED
    BY <1>1, <2>2 DEF k
<1>33. SubSeq(w, (16 + m) + 1, (16 + m) + n) = p
  <2> DEFINE k == 16 + m
  <2>1. k \in Nat /\ k + Len(p) <= Len(w) /\ \A i \in k + 1..k + Len(p) : w[i] = p[i - k]
    BY <1>1, <1>25, <1>30
  <2> HIDE DEF k
  <2>2. SubSeq(w, k + 1, k + Len(p)) = p
    BY <1>25, <2>1, PartIs
  <2> QED
    BY <1>1, <2>2 DEF k
<1>34. ReadConfig(w) = [sps |-> s, pps |-> p, size |-> 16 + m + n]
  <2>1. PICK x : x = 13 + Read16(w, 12)
    OBVIOUS
  <2>2. PICK y : y = x + 3 + Read16(w, x + 2)
    OBVIOUS
  <2>3. ReadConfig(w) = [sps |-> Part(w, 14, x), pps |-> Part(w, x + 4, y), size |-> y]
    BY <2>1, <2>2 DEF ReadConfig, Part
  <2>4. x = 13 + m
    BY <1>31, <2>1
  <2>5. y = 16 + m + n
    <3>1. x + 2 = 15 + m
      BY <2>4
    <3> QED
      BY <1>31, <2>2, <2>4, <3>1
  <2>6. Part(w, 14, x) = s
    <3>1. 14 = 13 + 1
      OBVIOUS
    <3> QED
      BY <1>32, <2>4, <3>1 DEF Part
  <2>7. Part(w, x + 4, y) = p
    <3>1. x + 4 = (16 + m) + 1 /\ y = (16 + m) + n
      BY <2>4, <2>5
    <3> QED
      BY <1>33, <3>1 DEF Part
  <2> QED
    BY <2>3, <2>5, <2>6, <2>7
<1> QED
  BY <1>15, <1>25, <1>34

-----------------------------------------------------------------------------
(* What is remembered is what the first encoder gave.                      *)
PacketInv ==
  /\ configured = <<>> => sps = <<>> /\ pps = <<>>
  /\ configured # <<>> =>
       \E s \in SpsUnits, p \in PpsUnits : configured = <<s, p>> /\ sps = s /\ pps = p
  /\ PlayerReadsUnits

(* A frame that is sent is read back; in front of an I frame are the SPS   *)
(* and the PPS.                                                            *)
LEMMA SentIsRead ==
  ASSUME NEW a \in Seq(Bytes), 5 <= Len(a), Len(a) <= IntMax,
         PacketInv, NEW beyond, SendVideoArray(a, beyond), bodies' # <<>>,
         UNCHANGED configured
  PROVE  PlayerReadsUnits'
<1>0. 4 <= Len(a) /\ TRUE \in BOOLEAN /\ FALSE \in BOOLEAN
  OBVIOUS
<1>1. array' = a
  BY DEF SendVideoArray
<1>2. CASE a[5] = IDR
  <2>1. bodies' = <<SpsPpsBody, FrameBody(TRUE, a)>> /\ sps # <<>>
    BY <1>2 DEF SendVideoArray, SPS, IDR
  <2>2. PICK s \in SpsUnits, p \in PpsUnits : configured = <<s, p>> /\ sps = s /\ pps = p
    BY <2>1 DEF PacketInv
  <2>3. SpsPpsBody = ConfigBody(s, p)
    BY <2>2 DEF SpsPpsBody, ConfigBody
  <2>4. ReadConfig(SpsPpsBody) = [sps |-> s, pps |-> p, size |-> Len(SpsPpsBody)]
    <3>1. /\ s \in Seq(Bytes) /\ 4 <= Len(s) /\ Len(s) <= ShortMax
          /\ p \in Seq(Bytes) /\ Len(p) <= ShortMax
      BY UnitFacts
    <3> QED
      BY <2>3, <3>1, ConfigRead
  <2>5. ReadFrame(FrameBody(TRUE, a)) =
          [isIFrame |-> TRUE, unit |-> SubSeq(a, 5, Len(a)), size |-> Len(FrameBody(TRUE, a))]
    BY <1>0, FrameRead
  <2>6. bodies'[1] = SpsPpsBody /\ Len(bodies') = 2 /\ bodies'[2] = FrameBody(TRUE, a)
    BY <2>1
  <2>7. configured'[1] = s /\ configured'[2] = p
    BY <1>2, <2>2
  <2>8. (a[5] = IDR) = TRUE
    BY <1>2
  <2> QED
    BY <1>1, <2>4, <2>5, <2>6, <2>7, <2>8, Zenon DEF PlayerReadsUnits
<1>3. CASE a[5] # IDR
  <2>1. bodies' = <<FrameBody(FALSE, a)>>
    BY <1>3 DEF SendVideoArray
  <2>2. ReadFrame(FrameBody(FALSE, a)) =
          [isIFrame |-> FALSE, unit |-> SubSeq(a, 5, Len(a)), size |-> Len(FrameBody(FALSE, a))]
    BY <1>0, FrameRead
  <2>3. Len(bodies') = 1 /\ bodies'[1] = FrameBody(FALSE, a)
    BY <2>1
  <2>4. (a[5] = IDR) = FALSE
    BY <1>3
  <2> QED
    BY <1>1, <1>3, <2>2, <2>3, <2>4, Zenon DEF PlayerReadsUnits
<1> QED
  BY <1>2, <1>3

(* The array of an encoder that starts.                                    *)
LEMMA ConfigFacts ==
  ASSUME NEW s \in SpsUnits, NEW p \in PpsUnits
  PROVE  /\ ConfigArray(s, p) \in Seq(Bytes) /\ ConfigArray(s, p)[5] = SPS
         /\ 5 <= Len(ConfigArray(s, p)) /\ Len(ConfigArray(s, p)) <= IntMax
         /\ s # <<>> /\ p # <<>>
<1>1. /\ s \in Seq(Bytes) /\ Len(s) \in Nat \ {0} /\ s[1] = SPS /\ Len(s) <= ShortMax
      /\ p \in Seq(Bytes) /\ Len(p) \in Nat \ {0} /\ Len(p) <= ShortMax
  BY UnitFacts
<1>2. PICK a : a = ConfigArray(s, p)
  OBVIOUS
<1>3. a \in Seq(Bytes) /\ Len(a) = 8 + Len(s) + Len(p) /\ Holds(a, s, p)
  BY <1>1, <1>2, ArrayPlaces
<1>4. a[5] = SPS
  <2>1. 5 \in 5..4 + Len(s) /\ 5 - 4 = 1
    BY <1>1
  <2> QED
    BY <1>1, <1>3, <2>1 DEF Holds
<1>5. 5 <= Len(a) /\ Len(a) <= IntMax
  BY <1>1, <1>3, SMT DEF IntMax, ShortMax
<1> QED
  BY <1>1, <1>2, <1>3, <1>4, <1>5

(* The array of a frame.                                                   *)
LEMMA SliceFacts ==
  ASSUME NEW u \in Slices
  PROVE  /\ StartCode \o u \in Seq(Bytes) /\ (StartCode \o u)[5] # SPS
         /\ 5 <= Len(StartCode \o u) /\ Len(StartCode \o u) <= IntMax
<1>1. u \in Seq(Bytes) /\ Len(u) \in Nat \ {0} /\ u[1] # SPS /\ Len(u) + 4 <= IntMax
  BY UnitFacts
<1>2. PICK a : a = Cat(StartCode, u)
  OBVIOUS
<1>3. Joins(a, StartCode, u)
  BY <1>1, <1>2, CodeFacts, CatBytes
<1>4. a \in Seq(Bytes) /\ Len(a) = 4 + Len(u) /\ a[5] = u[1]
  BY <1>1, <1>3, CodeFacts DEF Joins
<1>5. 5 <= Len(a) /\ Len(a) <= IntMax
  <2>1. IntMax \in Nat
    BY SMT DEF IntMax
  <2> QED
    BY <1>1, <1>4, <2>1
<1> QED
  BY <1>1, <1>2, <1>4, <1>5 DEF Cat

(* Whatever is not saved is sent.                                          *)
LEMMA FramesSent ==
  ASSUME NEW a, NEW beyond, SendVideoArray(a, beyond),
         a[5] # SPS \/ (sps # <<>> /\ pps # <<>>)
  PROVE  UNCHANGED <<sps, pps>> /\ bodies' # <<>>
<1>1. /\ UNCHANGED <<sps, pps>>
      /\ \/ bodies' = <<SpsPpsBody, FrameBody(TRUE, a)>> \/ bodies' = <<FrameBody(FALSE, a)>>
  BY Zenon DEF SendVideoArray
<1>2. \A x, y : <<x, y>> # <<>> /\ <<x>> # <<>>
  OBVIOUS
<1> QED
  BY <1>1, <1>2, Zenon

(* The first encoder's units are saved, and nothing is sent.               *)
LEMMA EncoderConfigStep ==
  ASSUME PacketInv, EncoderConfig
  PROVE  PacketInv'
<1>1. PICK s \in SpsUnits, p \in PpsUnits, beyond \in Beyond :
        /\ configured = <<>> /\ configured' = <<s, p>>
        /\ SendVideoArray(ConfigArray(s, p), beyond)
  BY DEF EncoderConfig, ConfigArray
<1>2. PICK a : a = ConfigArray(s, p)
  OBVIOUS
<1>3. a[5] = SPS /\ sps = <<>>
  BY <1>1, <1>2, ConfigFacts DEF PacketInv
<1>4. SaveSpsPps(a, beyond) /\ bodies' = <<>>
  BY <1>1, <1>2, <1>3 DEF SendVideoArray, SPS, IDR
<1>5. sps' = s /\ pps' = p
  BY <1>2, <1>4, Saved
<1>6. PlayerReadsUnits'
  BY <1>4 DEF PlayerReadsUnits
<1>7. configured' # <<>>
  BY <1>1
<1> QED
  BY <1>1, <1>5, <1>6, <1>7 DEF PacketInv

(* The next one's are not: its array is sent as a frame.                   *)
LEMMA NextEncoderConfigStep ==
  ASSUME PacketInv, NextEncoderConfig
  PROVE  PacketInv'
<1>1. PICK s \in SpsUnits, p \in PpsUnits, beyond \in Beyond :
        /\ configured # <<>> /\ UNCHANGED configured
        /\ SendVideoArray(ConfigArray(s, p), beyond)
  BY DEF NextEncoderConfig, ConfigArray
<1>2. PICK a : a = ConfigArray(s, p)
  OBVIOUS
<1>3. a \in Seq(Bytes) /\ a[5] = SPS /\ 5 <= Len(a) /\ Len(a) <= IntMax
  BY <1>2, ConfigFacts
<1>4. sps # <<>> /\ pps # <<>>
  BY <1>1, ConfigFacts DEF PacketInv
<1>5. UNCHANGED <<sps, pps>> /\ bodies' # <<>>
  BY <1>1, <1>2, <1>4, FramesSent
<1>6. PlayerReadsUnits'
  BY <1>1, <1>2, <1>3, <1>5, SentIsRead
<1> QED
  BY <1>1, <1>5, <1>6 DEF PacketInv

LEMMA EncoderFrameStep ==
  ASSUME PacketInv, EncoderFrame
  PROVE  PacketInv'
<1>1. PICK u \in Slices, beyond \in Beyond :
        SendVideoArray(StartCode \o u, beyond) /\ UNCHANGED configured
  BY DEF EncoderFrame
<1>2. PICK a : a = StartCode \o u
  OBVIOUS
<1>3. a \in Seq(Bytes) /\ a[5] # SPS /\ 5 <= Len(a) /\ Len(a) <= IntMax
  BY <1>2, SliceFacts
<1>4. SendVideoArray(a, beyond)
  BY <1>1, <1>2
<1>5. UNCHANGED <<sps, pps>> /\ bodies' # <<>>
  BY <1>3, <1>4, FramesSent
<1>6. PlayerReadsUnits'
  BY <1>1, <1>3, <1>4, <1>5, SentIsRead
<1> QED
  BY <1>1, <1>5, <1>6 DEF PacketInv

(* A player gets the units of the encoder byte for byte, the frame it was  *)
(* called with and before an I frame the SPS and PPS of the first encoder, *)
(* for all units of any length the code's types allow and whatever lies in *)
(* memory behind the arrays (rtmplibrary.cpp 167-194, 274-365).            *)
THEOREM PlayerTheorem == PacketSpec => []PlayerReadsUnits
<1>1. PacketInit => PacketInv
  BY DEF PacketInit, PacketInv, PlayerReadsUnits
<1>2. PacketInv /\ [PacketNext]_packetVars => PacketInv'
  <2> SUFFICES ASSUME PacketInv, [PacketNext]_packetVars
               PROVE  PacketInv'
    OBVIOUS
  <2>1. CASE UNCHANGED packetVars
    BY <2>1 DEF packetVars, PacketInv, PlayerReadsUnits
  <2> QED
    BY <2>1, EncoderConfigStep, NextEncoderConfigStep, EncoderFrameStep DEF PacketNext
<1>3. PacketInv => PlayerReadsUnits
  BY DEF PacketInv
<1> QED
  BY <1>1, <1>2, <1>3, PTL DEF PacketSpec

=============================================================================
