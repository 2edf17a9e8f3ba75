------------------------- MODULE CommandQueueProofs -------------------------
(***************************************************************************)
(* Proofs about CommandQueue, for every set of lanes, calls and waiters    *)
(* and every assignment of lanes, priorities and timeouts to calls.        *)
(***************************************************************************)
EXTENDS CommandQueue, FiniteSetTheorems, SequenceTheorems, TLAPS

(* A queue that holds each entry at most once.                             *)
Distinct(q) == \A i, j \in 1 .. Len(q) : q[i] = q[j] => i = j

-----------------------------------------------------------------------------
(* What the loop in pump does to one queue q and one set of slots a.       *)

(* The loop starts a prefix of the queue.                                  *)
LEMMA VacanciesRange ==
  ASSUME NEW q \in Seq(Entry), NEW a \in SUBSET Entry, NEW m \in Nat
  PROVE  /\ IsFiniteSet(a)
         /\ Cardinality(a) \in Nat
         /\ Vacancies(q, a, m) \in 0 .. Len(q)
         /\ Vacancies(q, a, m) > 0 =>
              Cardinality(a) + Vacancies(q, a, m) <= m
         /\ Vacancies(q, a, m) < Len(q) =>
              Cardinality(a) + Vacancies(q, a, m) >= m
<1>1. IsFiniteSet(a)
  BY FS_Subset, CommandQueueAssumption DEF CommandQueueAssumption
<1>2. Cardinality(a) \in Nat
  BY <1>1, FS_CardinalityType
<1>3. Len(q) \in Nat
  BY LenProperties
<1> QED
  BY <1>1, <1>2, <1>3 DEF Vacancies

(* What it leaves is the rest of the queue, in the same order.             *)
LEMMA RestProperties ==
  ASSUME NEW q \in Seq(Entry), NEW a \in SUBSET Entry, NEW m \in Nat
  PROVE  LET n == Vacancies(q, a, m)
         IN /\ Rest(q, a, m) \in Seq(Entry)
            /\ Len(Rest(q, a, m)) = Len(q) - n
            /\ \A i \in 1 .. Len(q) - n : Rest(q, a, m)[i] = q[i + n]
<1> DEFINE n == Vacancies(q, a, m)
<1>1. n \in 0 .. Len(q) /\ Len(q) \in Nat
  BY VacanciesRange, LenProperties
<1>2. \A i \in n + 1 .. Len(q) : q[i] \in Entry
  BY <1>1, ElementOfSeq
<1>3. /\ SubSeq(q, n + 1, Len(q)) \in Seq(Entry)
      /\ Len(SubSeq(q, n + 1, Len(q))) =
           IF n + 1 <= Len(q) THEN Len(q) - (n + 1) + 1 ELSE 0
      /\ \A i \in 1 .. Len(q) - (n + 1) + 1 :
           SubSeq(q, n + 1, Len(q))[i] = q[n + 1 + i - 1]
  <2> HIDE DEF n
  <2> QED BY <1>1, <1>2, SubSeqProperties
<1> HIDE DEF n
<1>4. Len(SubSeq(q, n + 1, Len(q))) = Len(q) - n
  BY <1>1, <1>3
<1>5. \A i \in 1 .. Len(q) - n : SubSeq(q, n + 1, Len(q))[i] = q[i + n]
  BY <1>1, <1>3
<1> QED
  BY <1>3, <1>4, <1>5 DEF Rest, n

(* The started entries are that many, and new among the slots.             *)
LEMMA StartedCardinality ==
  ASSUME NEW q \in Seq(Entry), NEW a \in SUBSET Entry, NEW m \in Nat,
         Distinct(q), \A i \in 1 .. Len(q) : q[i] \notin a
  PROVE  /\ Started(q, a, m) \in SUBSET Entry
         /\ Cardinality(a \cup Started(q, a, m)) =
              Cardinality(a) + Vacancies(q, a, m)
<1> DEFINE n == Vacancies(q, a, m)
           S == Started(q, a, m)
           f == [i \in 1 .. n |-> q[i]]
<1>1. n \in 0 .. Len(q) /\ Len(q) \in Nat /\ Cardinality(a) \in Nat
  BY VacanciesRange, LenProperties
<1>2. S \in SUBSET Entry
  BY <1>1, ElementOfSeq DEF Started
<1>3. f \in Bijection(1 .. n, S)
  BY <1>1 DEF Bijection, Injection, Surjection, IsInjective, Started, Distinct
<1>4. IsFiniteSet(S) /\ Cardinality(S) = n
  BY <1>1, <1>3, FS_CountingElements, FS_NatBijection DEF ExistsBijection
<1>5. a \cap S = {}
  BY <1>1 DEF Started
<1>6. Cardinality(a \cap S) = 0
  BY <1>5, FS_EmptySet
<1>7. Cardinality(a \cup S) = Cardinality(a) + Cardinality(S) - Cardinality(a \cap S)
  BY <1>4, VacanciesRange, FS_Union
<1> QED
  BY <1>1, <1>2, <1>4, <1>6, <1>7

-----------------------------------------------------------------------------
(* What enqueueLaneEntry does to one queue.                                *)

(* x is due before y when the entries have the enqueue numbers sq.         *)
Due(sq, x, y) ==
  \/ Priority[x] > Priority[y]
  \/ Priority[x] = Priority[y] /\ sq[x] < sq[y]

Sorted(q, sq) == \A i, j \in 1 .. Len(q) : i < j => Due(sq, q[i], q[j])

(* findIndex gives a position, with nothing overtaken before it.           *)
LEMMA InsertPositionExists ==
  ASSUME NEW q \in Seq(Entry), NEW x \in Entry, NEW s \in Nat
  PROVE  LET n == InsertPosition(q, x, s)
         IN /\ n \in 1 .. Len(q) + 1
            /\ \A i \in 1 .. n - 1 : ~Overtakes(x, s, q[i])
            /\ n <= Len(q) => Overtakes(x, s, q[n])
<1> DEFINE Good(n) == /\ \A i \in 1 .. n - 1 : ~Overtakes(x, s, q[i])
                      /\ n <= Len(q) => Overtakes(x, s, q[n])
           T == {i \in 1 .. Len(q) + 1 : i <= Len(q) => Overtakes(x, s, q[i])}
<1>1. Len(q) \in Nat
  BY LenProperties
<1>2. T \in SUBSET Nat /\ Len(q) + 1 \in T
  BY <1>1
<1>3. PICK n \in T : \A k \in T : n <= k
  <2> DEFINE R == {ss \in Nat \X Nat : ss[1] < ss[2]}
  <2>1. IsWellFoundedOn(R, Nat)
    BY NatLessThanWellFounded DEF OpToRel
  <2> HIDE DEF R, T
  <2>2. PICK n \in T : \A k \in T : <<k, n>> \notin R
    BY <1>2, <2>1, WFMin
  <2>3. ASSUME NEW k \in T
        PROVE  n <= k
    <3>1. k \in Nat /\ n \in Nat /\ <<k, n>> \notin R
      BY <1>2, <2>2
    <3>2. ~(k < n)
      BY <3>1 DEF R
    <3> QED
      BY <3>1, <3>2
  <2> QED
    BY <2>3
<1>4. n \in 1 .. Len(q) + 1 /\ Good(n)
  <2>1. ASSUME NEW i \in 1 .. n - 1, Overtakes(x, s, q[i])
        PROVE  FALSE
    <3> HIDE DEF Good
    <3>1. i \in T
      BY <1>1, <1>3, <2>1
    <3> QED
      BY <1>1, <1>3, <2>1, <3>1
  <2> QED
    BY <1>1, <1>3, <2>1
<1>5. \E k \in 1 .. Len(q) + 1 : Good(k)
  BY <1>4
<1> HIDE DEF Good
<1>6. LET k == CHOOSE k \in 1 .. Len(q) + 1 : Good(k)
      IN k \in 1 .. Len(q) + 1 /\ Good(k)
  BY <1>5
<1> QED
  BY <1>6 DEF InsertPosition, Good

(* The new entry, numbered last, goes in once and keeps the order.         *)
LEMMA InsertedProperties ==
  ASSUME NEW q \in Seq(Entry), NEW x \in Entry, NEW s \in Nat,
         sequence \in [Entry -> Nat],
         Distinct(q), Sorted(q, sequence),
         \A i \in 1 .. Len(q) : q[i] # x /\ sequence[q[i]] < s
  PROVE  /\ Inserted(q, x, s) \in Seq(Entry)
         /\ Distinct(Inserted(q, x, s))
         /\ Sorted(Inserted(q, x, s), [sequence EXCEPT ![x] = s])
         /\ \A e \in Entry :
              (\E i \in 1 .. Len(Inserted(q, x, s)) : Inserted(q, x, s)[i] = e)
                <=> e = x \/ \E i \in 1 .. Len(q) : q[i] = e
<1> DEFINE n == InsertPosition(q, x, s)
           r == Inserted(q, x, s)
           sq == [sequence EXCEPT ![x] = s]
           N == Len(q)
<1>1. /\ n \in 1 .. N + 1
      /\ \A i \in 1 .. n - 1 : ~Overtakes(x, s, q[i])
      /\ n <= N => Overtakes(x, s, q[n])
  BY InsertPositionExists
<1>2. N \in Nat /\ \A i \in 1 .. N : q[i] \in Entry
  BY LenProperties, ElementOfSeq
<1>3. r = [i \in 1 .. N + 1 |-> IF i < n THEN q[i] ELSE IF i = n THEN x ELSE q[i - 1]]
  BY DEF Inserted
<1>4. Priority \in [Entry -> Int] /\ sequence \in [Entry -> Nat]
  BY CommandQueueAssumption DEF CommandQueueAssumption
<1> HIDE DEF n, r, N
<1>5. \A i \in 1 .. N + 1 : r[i] \in Entry
  BY <1>1, <1>2, <1>3
<1>6. r \in Seq(Entry) /\ Len(r) = N + 1
  BY <1>2, <1>3, <1>5, IsASeq, LenProperties
<1>7. Distinct(r)
  <2> SUFFICES ASSUME NEW i \in 1 .. N + 1, NEW j \in 1 .. N + 1, i < j
               PROVE  r[i] # r[j]
    BY <1>2, <1>6 DEF Distinct
  <2>1. \A k, h \in 1 .. N : k # h => q[k] # q[h]
    BY DEF Distinct, N
  <2>2. \A k \in 1 .. N : q[k] # x
    BY DEF N
  <2>3. CASE j < n
    <3>1. i \in 1 .. N /\ j \in 1 .. N /\ r[i] = q[i] /\ r[j] = q[j]
      BY <1>1, <1>2, <1>3, <2>3
    <3> QED BY <2>1, <3>1
  <2>4. CASE j = n
    <3>1. i \in 1 .. N /\ r[i] = q[i] /\ r[j] = x
      BY <1>1, <1>2, <1>3, <2>4
    <3> QED BY <2>2, <3>1
  <2>5. CASE j > n /\ i = n
    <3>1. j - 1 \in 1 .. N /\ r[i] = x /\ r[j] = q[j - 1]
      BY <1>1, <1>2, <1>3, <2>5
    <3> QED BY <2>2, <3>1
  <2>6. CASE j > n /\ i < n
    <3>1. i \in 1 .. N /\ j - 1 \in 1 .. N /\ i # j - 1
          /\ r[i] = q[i] /\ r[j] = q[j - 1]
      BY <1>1, <1>2, <1>3, <2>6
    <3> QED BY <2>1, <3>1
  <2>7. CASE j > n /\ i > n
    <3>1. i - 1 \in 1 .. N /\ j - 1 \in 1 .. N /\ i - 1 # j - 1
          /\ r[i] = q[i - 1] /\ r[j] = q[j - 1]
      BY <1>1, <1>2, <1>3, <2>7
    <3> QED BY <2>1, <3>1
  <2> QED
    BY <1>1, <1>2, <2>3, <2>4, <2>5, <2>6, <2>7
<1>8. Sorted(r, sq)
  <2> SUFFICES ASSUME NEW i \in 1 .. N + 1, NEW j \in 1 .. N + 1, i < j
               PROVE  Due(sq, r[i], r[j])
    BY <1>2, <1>6 DEF Sorted
  <2>1. \A k \in 1 .. N : sq[q[k]] = sequence[q[k]] /\ sequence[q[k]] < s
    BY <1>2, <1>4 DEF N
  <2>2. sq[x] = s
    BY <1>4
  <2> HIDE DEF sq
  <2>3. \A k, h \in 1 .. N : k < h => Due(sq, q[k], q[h])
    BY <1>2, <2>1 DEF Sorted, Due, N
  <2>4. \A k \in 1 .. n - 1 : Priority[q[k]] >= Priority[x]
    BY <1>1, <1>2, <1>4, <2>1 DEF Overtakes
  <2>5. \A k \in n .. N : Priority[q[k]] < Priority[x]
    <3> SUFFICES ASSUME NEW k \in n .. N
                 PROVE  Priority[q[k]] < Priority[x]
      OBVIOUS
    <3>1. n \in 1 .. N /\ k \in 1 .. N
      BY <1>1, <1>2
    <3>2. Priority[q[n]] < Priority[x]
      BY <1>1, <1>2, <1>4, <2>1, <3>1 DEF Overtakes
    <3>3. k = n \/ Due(sq, q[n], q[k])
      BY <2>3, <3>1, <1>1, <1>2
    <3>4. CASE k = n
      BY <3>2, <3>4
    <3>5. CASE Due(sq, q[n], q[k])
      <4>1. Priority[q[n]] \in Int /\ Priority[q[k]] \in Int /\ Priority[x] \in Int
        BY <1>2, <1>4, <3>1
      <4>2. Priority[q[n]] >= Priority[q[k]]
        BY <4>1, <3>5 DEF Due
      <4> QED
        BY <3>2, <4>1, <4>2
    <3> QED
      BY <3>3, <3>4, <3>5
  <2>6. CASE j < n
    <3>1. i \in 1 .. N /\ j \in 1 .. N /\ r[i] = q[i] /\ r[j] = q[j]
      BY <1>1, <1>2, <1>3, <2>6
    <3> QED BY <2>3, <3>1
  <2>7. CASE j = n
    <3>1. i \in 1 .. N /\ i \in 1 .. n - 1 /\ r[i] = q[i] /\ r[j] = x
      BY <1>1, <1>2, <1>3, <2>7
    <3> QED BY <1>2, <1>4, <2>1, <2>2, <2>4, <3>1 DEF Due
  <2>8. CASE j > n /\ i = n
    <3>1. j - 1 \in n .. N /\ j - 1 \in 1 .. N /\ r[i] = x /\ r[j] = q[j - 1]
      BY <1>1, <1>2, <1>3, <2>8
    <3> QED BY <1>2, <1>4, <2>5, <3>1 DEF Due
  <2>9. CASE j > n /\ i < n
    <3>1. i \in 1 .. N /\ j - 1 \in 1 .. N /\ i < j - 1 /\ r[i] = q[i] /\ r[j] = q[j - 1]
      BY <1>1, <1>2, <1>3, <2>9
    <3> QED BY <2>3, <3>1
  <2>10. CASE j > n /\ i > n
    <3>1. i - 1 \in 1 .. N /\ j - 1 \in 1 .. N /\ i - 1 < j - 1
          /\ r[i] = q[i - 1] /\ r[j] = q[j - 1]
      BY <1>1, <1>2, <1>3, <2>10
    <3> QED BY <2>3, <3>1
  <2> QED
    BY <1>1, <1>2, <2>6, <2>7, <2>8, <2>9, <2>10
<1>9. ASSUME NEW e \in Entry
      PROVE  (\E i \in 1 .. N + 1 : r[i] = e) <=> e = x \/ \E i \in 1 .. N : q[i] = e
  <2>1. ASSUME NEW i \in 1 .. N + 1, r[i] = e
        PROVE  e = x \/ \E k \in 1 .. N : q[k] = e
    <3>2. CASE i < n
      <4>1. i \in 1 .. N /\ r[i] = q[i]
        BY <1>1, <1>2, <1>3, <3>2
      <4> QED BY <2>1, <4>1
    <3>3. CASE i = n
      BY <1>3, <2>1, <3>3
    <3>4. CASE i > n
      <4>1. i - 1 \in 1 .. N /\ r[i] = q[i - 1]
        BY <1>1, <1>2, <1>3, <3>4
      <4> QED BY <2>1, <4>1
    <3> QED BY <1>1, <1>2, <3>2, <3>3, <3>4
  <2>2. r[n] = x /\ n \in 1 .. N + 1
    BY <1>1, <1>3
  <2>3. ASSUME NEW k \in 1 .. N, q[k] = e
        PROVE  \E i \in 1 .. N + 1 : r[i] = e
    <3>1. CASE k < n
      BY <1>1, <1>2, <1>3, <2>3, <3>1
    <3>2. CASE k >= n
      <4>1. k + 1 \in 1 .. N + 1 /\ r[k + 1] = q[k]
        BY <1>1, <1>2, <1>3, <3>2
      <4> QED BY <2>3, <4>1
    <3> QED BY <1>1, <1>2, <3>1, <3>2
  <2> QED BY <2>1, <2>2, <2>3
<1> QED
  BY <1>6, <1>7, <1>8, <1>9 DEF r, N

-----------------------------------------------------------------------------
(* The parts of the invariant, as predicates of the lanes and entries that *)
(* a step has just before it drains: queues q, slots a, generations g,     *)
(* phases ph, start generations si and enqueue numbers sq.                 *)

SlotsAgree(a, g, ph, si) ==
  /\ \A e \in Entry :
       (si[e] = g[LaneOf[e]] /\ e \in a[LaneOf[e]])
         <=> (ph[e] = "active" /\ si[e] = g[LaneOf[e]])
  /\ \A l \in Lane : \A e \in a[l] :
       LaneOf[e] = l /\ si[e] = g[l]

QueuesAgree(q, ph) ==
  /\ \A l \in Lane : Distinct(q[l])
  /\ \A e \in Entry : \A l \in Lane :
       (ph[e] = "queued" /\ LaneOf[e] = l)
         <=> \E i \in 1 .. Len(q[l]) : q[l][i] = e

QueuesSorted(q, sq) == \A l \in Lane : Sorted(q[l], sq)

Full(q, a, m, l) == q[l] # <<>> => Cardinality(a[l]) >= m[l]

(* Positions in a queue of N entries and in what is left when n started.   *)
LEMMA Shift ==
  ASSUME NEW n \in Nat, NEW N \in Nat, n <= N
  PROVE  /\ 1 .. n \subseteq 1 .. N
         /\ \A i \in 1 .. N - n : i + n \in 1 .. N /\ i + n \notin 1 .. n
         /\ \A i, j \in 1 .. N - n : i < j => i + n < j + n
         /\ \A i, j \in 1 .. N - n : i + n = j + n => i = j
         /\ \A i \in 1 .. n, k \in 1 .. N : k \notin 1 .. n => i < k
OBVIOUS

(* A position in what is left comes from one that is not among the first n.*)
LEMMA ShiftBack ==
  ASSUME NEW n \in Nat, NEW N \in Nat, n <= N, NEW k \in 1 .. N, k \notin 1 .. n
  PROVE  k - n \in 1 .. N - n /\ (k - n) + n = k
OBVIOUS

(* Drain, with the state after it (qN, aN, phN, siN) as arguments.         *)
Drained(D, q, a, m, g, ph, si, qN, aN, phN, siN) ==
  LET starts == UNION {Started(q[l], a[l], m[l]) : l \in D}
  IN /\ qN = [l \in Lane |-> IF l \in D THEN Rest(q[l], a[l], m[l]) ELSE q[l]]
     /\ aN = [l \in Lane |-> IF l \in D THEN a[l] \cup Started(q[l], a[l], m[l])
                             ELSE a[l]]
     /\ phN = [e \in Entry |-> IF e \in starts THEN "active" ELSE ph[e]]
     /\ siN = [e \in Entry |-> IF e \in starts THEN g[LaneOf[e]] ELSE si[e]]

(* What a caller of drainLane owes: every part, except that the lanes D may *)
(* have both a free slot and queued work.                                   *)
Ready(D, q, a, m, g, ph, si, sq) ==
  /\ D \in SUBSET Lane
  /\ q \in [Lane -> Seq(Entry)] /\ a \in [Lane -> SUBSET Entry]
  /\ m \in [Lane -> Nat] /\ g \in [Lane -> Nat]
  /\ ph \in [Entry -> Phase] /\ sq \in [Entry -> Nat] /\ si \in [Entry -> Nat]
  /\ SlotsAgree(a, g, ph, si) /\ QueuesAgree(q, ph) /\ QueuesSorted(q, sq)
  /\ \A e \in Entry : si[e] <= g[LaneOf[e]]
  /\ \A l \in Lane \ D : Full(q, a, m, l)

(* What drainLane leaves behind, with the relation to what it found.        *)
Settled(q, a, m, g, ph, si, sq) ==
  /\ q \in [Lane -> Seq(Entry)] /\ a \in [Lane -> SUBSET Entry]
  /\ ph \in [Entry -> Phase] /\ si \in [Entry -> Nat]
  /\ SlotsAgree(a, g, ph, si) /\ QueuesAgree(q, ph) /\ QueuesSorted(q, sq)
  /\ \A e \in Entry : si[e] <= g[LaneOf[e]]
  /\ \A l \in Lane : Full(q, a, m, l)

Advanced(a, ph, aN, phN) ==
  /\ \A e \in Entry : \/ phN[e] = ph[e]
                      \/ ph[e] = "queued" /\ phN[e] = "active"
  /\ \A l \in Lane : \A e \in aN[l] : e \in a[l] \/ ph[e] = "queued"
  /\ \A l \in Lane : a[l] \subseteq aN[l]

WithinLimit(a, m, aN) ==
  \A l \in Lane : ~(aN[l] \subseteq a[l]) => Cardinality(aN[l]) <= m[l]

InOrder(ph, sq, phN) ==
  \A e, f \in Entry :
    /\ ph[e] = "queued" /\ phN[e] = "active"
    /\ phN[f] = "queued" /\ LaneOf[e] = LaneOf[f]
    => Due(sq, e, f)

(* Draining the lanes D keeps every part, fills the free slots of D within *)
(* the limits, and starts entries in the order they are due.               *)
LEMMA DrainPreserves ==
  ASSUME NEW D, NEW q, NEW a, NEW m, NEW g, NEW ph, NEW si, NEW sq,
         NEW qN, NEW aN, NEW phN, NEW siN,
         Ready(D, q, a, m, g, ph, si, sq),
         Drained(D, q, a, m, g, ph, si, qN, aN, phN, siN)
  PROVE  /\ Settled(qN, aN, m, g, phN, siN, sq)
         /\ Advanced(a, ph, aN, phN)
         /\ WithinLimit(a, m, aN)
         /\ InOrder(ph, sq, phN)
<1>0. /\ D \in SUBSET Lane
      /\ q \in [Lane -> Seq(Entry)] /\ a \in [Lane -> SUBSET Entry]
      /\ m \in [Lane -> Nat] /\ g \in [Lane -> Nat]
      /\ ph \in [Entry -> Phase] /\ sq \in [Entry -> Nat] /\ si \in [Entry -> Nat]
      /\ SlotsAgree(a, g, ph, si) /\ QueuesAgree(q, ph) /\ QueuesSorted(q, sq)
      /\ \A e \in Entry : si[e] <= g[LaneOf[e]]
      /\ \A l \in Lane \ D : Full(q, a, m, l)
  BY DEF Ready
<1> USE <1>0
<1> DEFINE n == [l \in Lane |-> IF l \in D THEN Vacancies(q[l], a[l], m[l]) ELSE 0]
           st == [l \in Lane |-> {q[l][i] : i \in 1 .. n[l]}]
<1> USE CommandQueueAssumption DEF CommandQueueAssumption
<1>1. ASSUME NEW l \in Lane
      PROVE  /\ Len(q[l]) \in Nat /\ n[l] \in Nat /\ n[l] <= Len(q[l])
             /\ \A i \in 1 .. Len(q[l]) : q[l][i] \in Entry
             /\ Distinct(q[l])
             /\ \A i \in 1 .. Len(q[l]) : q[l][i] \notin a[l]
  <2>1. q[l] \in Seq(Entry) /\ a[l] \in SUBSET Entry /\ m[l] \in Nat
    OBVIOUS
  <2>2. Vacancies(q[l], a[l], m[l]) \in 0 .. Len(q[l]) /\ Len(q[l]) \in Nat
    BY <2>1, VacanciesRange, LenProperties
  <2>3. \A i \in 1 .. Len(q[l]) : q[l][i] \in Entry
    BY <2>1, ElementOfSeq
  <2>4. \A i \in 1 .. Len(q[l]) : ph[q[l][i]] = "queued" /\ LaneOf[q[l][i]] = l
    <3>1. \A e \in Entry : (\E i \in 1 .. Len(q[l]) : q[l][i] = e)
                             => ph[e] = "queued" /\ LaneOf[e] = l
      BY DEF QueuesAgree
    <3> HIDE <1>0 DEF n, st
    <3> QED BY <2>3, <3>1
  <2>5. \A e \in Entry : e \in a[l] => ph[e] = "active"
    BY DEF SlotsAgree
  <2>6. \A i \in 1 .. Len(q[l]) : q[l][i] \notin a[l]
    BY <2>3, <2>4, <2>5
  <2>7. Distinct(q[l])
    BY DEF QueuesAgree
  <2>8. n[l] \in Nat /\ n[l] <= Len(q[l])
    <3>1. n[l] = Vacancies(q[l], a[l], m[l]) \/ n[l] = 0
      OBVIOUS
    <3> HIDE DEF n
    <3> QED BY <2>2, <3>1
  <2> HIDE DEF n
  <2> QED
    BY <2>2, <2>3, <2>6, <2>7, <2>8
<1>2. ASSUME NEW l \in Lane
      PROVE  /\ qN[l] \in Seq(Entry)
             /\ Len(qN[l]) = Len(q[l]) - n[l]
             /\ \A i \in 1 .. Len(q[l]) - n[l] : qN[l][i] = q[l][i + n[l]]
  <2>1. q[l] \in Seq(Entry) /\ a[l] \in SUBSET Entry /\ m[l] \in Nat
    OBVIOUS
  <2>2. CASE l \in D
    <3>1. qN[l] = Rest(q[l], a[l], m[l]) /\ n[l] = Vacancies(q[l], a[l], m[l])
      BY <2>2 DEF Drained
    <3>2. /\ Rest(q[l], a[l], m[l]) \in Seq(Entry)
          /\ Len(Rest(q[l], a[l], m[l])) = Len(q[l]) - Vacancies(q[l], a[l], m[l])
          /\ \A i \in 1 .. Len(q[l]) - Vacancies(q[l], a[l], m[l]) :
               Rest(q[l], a[l], m[l])[i] = q[l][i + Vacancies(q[l], a[l], m[l])]
      BY <2>1, RestProperties
    <3> HIDE DEF n
    <3> QED BY <3>1, <3>2
  <2>3. CASE l \notin D
    <3>1. qN[l] = q[l] /\ n[l] = 0
      BY <2>3 DEF Drained
    <3>2. Len(q[l]) - n[l] = Len(q[l])
      BY <3>1, <2>1, LenProperties
    <3>3. \A i \in 1 .. Len(q[l]) : i + n[l] = i
      BY <3>1
    <3> HIDE DEF n, st
    <3>4. \A i \in 1 .. Len(q[l]) - n[l] : qN[l][i] = q[l][i + n[l]]
      BY <3>1, <3>2, <3>3
    <3> QED BY <2>1, <3>1, <3>2, <3>4
  <2> QED BY <2>2, <2>3
<1>3. ASSUME NEW l \in Lane
      PROVE  aN[l] = a[l] \cup st[l]
  <2>1. CASE l \in D
    BY <2>1 DEF Drained, Started
  <2>2. CASE l \notin D
    <3>1. n[l] = 0 /\ aN[l] = a[l]
      BY <2>2 DEF Drained
    <3>2. st[l] = {}
      BY <3>1
    <3> QED BY <3>1, <3>2
  <2> QED BY <2>1, <2>2
<1>4. \A l \in Lane : \A e \in st[l] : e \in Entry /\ ph[e] = "queued" /\ LaneOf[e] = l
  <2> HIDE DEF n
  <2> TAKE l \in Lane
  <2> TAKE e \in st[l]
  <2>1. PICK i \in 1 .. n[l] : e = q[l][i]
    OBVIOUS
  <2>2. i \in 1 .. Len(q[l])
    BY <1>1
  <2>3. e \in Entry
    BY <1>1, <2>1, <2>2
  <2>4. \A f \in Entry : (\E k \in 1 .. Len(q[l]) : q[l][k] = f)
                           => ph[f] = "queued" /\ LaneOf[f] = l
    BY DEF QueuesAgree
  <2> HIDE <1>0 DEF st
  <2> QED BY <2>1, <2>2, <2>3, <2>4
<1>5. \A e \in Entry : /\ phN[e] = IF e \in st[LaneOf[e]] THEN "active" ELSE ph[e]
                       /\ siN[e] = IF e \in st[LaneOf[e]] THEN g[LaneOf[e]]
                                          ELSE si[e]
  <2> DEFINE starts == UNION {Started(q[l], a[l], m[l]) : l \in D}
  <2>1. \A e \in Entry : e \in starts <=> e \in st[LaneOf[e]]
    <3>1. \A l \in D : Started(q[l], a[l], m[l]) = st[l]
      BY DEF Started
    <3>2. \A l \in Lane \ D : st[l] = {}
      OBVIOUS
    <3>3. \A e : e \in starts <=> \E l \in D : e \in Started(q[l], a[l], m[l])
      OBVIOUS
    <3>4. D \subseteq Lane
      OBVIOUS
    <3>5. LaneOf \in [Entry -> Lane]
      OBVIOUS
    <3> HIDE <1>0, CommandQueueAssumption DEF st, n, starts
    <3>6. \A e : e \in starts <=> \E l \in Lane : e \in st[l]
      BY <3>1, <3>2, <3>3, <3>4
    <3> TAKE e \in Entry
    <3>7. LaneOf[e] \in Lane
      BY <3>5
    <3>8. \A l \in Lane : e \in st[l] => LaneOf[e] = l
      BY <1>4
    <3> QED BY <3>6, <3>7, <3>8
  <2>2. /\ phN = [e \in Entry |-> IF e \in starts THEN "active" ELSE ph[e]]
        /\ siN = [e \in Entry |-> IF e \in starts THEN g[LaneOf[e]] ELSE si[e]]
    BY DEF Drained
  <2> HIDE <1>0, CommandQueueAssumption DEF st, n, starts
  <2> QED BY <2>1, <2>2
<1>6. /\ qN \in [Lane -> Seq(Entry)]
      /\ DOMAIN aN = Lane /\ aN = [l \in Lane |-> aN[l]]
      /\ phN = [e \in Entry |-> phN[e]]
      /\ siN = [e \in Entry |-> siN[e]]
  <2>1. qN = [l \in Lane |-> qN[l]]
    BY DEF Drained
  <2>2. qN \in [Lane -> Seq(Entry)]
    <3> HIDE DEF n
    <3> QED BY <1>2, <2>1
  <2> QED BY <2>2 DEF Drained
<1> HIDE DEF st, n
<1>7. aN \in [Lane -> SUBSET Entry]
  BY <1>3, <1>4, <1>6
<1>8. phN \in [Entry -> Phase] /\ siN \in [Entry -> Nat]
  <2>1. \A e \in Entry : phN[e] \in Phase /\ siN[e] \in Nat
    BY <1>5 DEF Phase
  <2> QED BY <1>6, <2>1
<1>9. SlotsAgree(aN, g, phN, siN)
  <2>1. ASSUME NEW e \in Entry
        PROVE  (siN[e] = g[LaneOf[e]] /\ e \in aN[LaneOf[e]])
                 <=> (phN[e] = "active" /\ siN[e] = g[LaneOf[e]])
    <3>1. LaneOf[e] \in Lane
      OBVIOUS
    <3>2. e \in st[LaneOf[e]] => ph[e] = "queued"
      BY <1>4, <3>1
    <3> QED BY <1>3, <1>5, <3>1, <3>2 DEF SlotsAgree
  <2>2. ASSUME NEW l \in Lane, NEW e \in aN[l]
        PROVE  LaneOf[e] = l /\ siN[e] = g[l]
    <3>1. CASE e \in st[l]
      BY <1>4, <1>5, <3>1
    <3>2. CASE e \notin st[l]
      <4>1. e \in a[l] /\ e \in Entry /\ LaneOf[e] = l /\ si[e] = g[l]
        BY <1>3, <3>2 DEF SlotsAgree
      <4> QED BY <1>5, <3>2, <4>1
    <3> QED BY <3>1, <3>2
  <2> QED BY <2>1, <2>2 DEF SlotsAgree
<1>10. QueuesAgree(qN, phN)
  <2>1. ASSUME NEW l \in Lane
        PROVE  Distinct(qN[l])
    <3> SUFFICES ASSUME NEW i \in 1 .. Len(q[l]) - n[l], NEW j \in 1 .. Len(q[l]) - n[l],
                        qN[l][i] = qN[l][j]
                 PROVE  i = j
      BY <1>2 DEF Distinct
    <3>1. i + n[l] \in 1 .. Len(q[l]) /\ j + n[l] \in 1 .. Len(q[l])
      BY <1>1, Shift
    <3>2. q[l][i + n[l]] = q[l][j + n[l]]
      BY <1>2
    <3>3. i + n[l] = j + n[l]
      BY <1>1, <3>1, <3>2 DEF Distinct
    <3> QED BY <1>1, <3>3, Shift
  <2>2. ASSUME NEW e \in Entry, NEW l \in Lane
        PROVE  (phN[e] = "queued" /\ LaneOf[e] = l)
                 <=> \E i \in 1 .. Len(qN[l]) : qN[l][i] = e
    <3>1. (\E i \in 1 .. Len(qN[l]) : qN[l][i] = e)
            <=> (\E i \in 1 .. Len(q[l]) : q[l][i] = e) /\ e \notin st[l]
      <4>1. ASSUME NEW i \in 1 .. Len(qN[l]), qN[l][i] = e
            PROVE  (\E k \in 1 .. Len(q[l]) : q[l][k] = e) /\ e \notin st[l]
        <5>1. /\ i \in 1 .. Len(q[l]) - n[l] /\ i + n[l] \in 1 .. Len(q[l])
              /\ i + n[l] \notin 1 .. n[l]
          BY <1>1, <1>2, <4>1, Shift
        <5>2. q[l][i + n[l]] = e
          BY <1>2, <4>1, <5>1
        <5>3. ASSUME NEW k \in 1 .. n[l], q[l][k] = e
              PROVE  FALSE
          <6>1. 1 .. n[l] \subseteq 1 .. Len(q[l])
            BY <1>1, Shift
          <6>2. k \in 1 .. Len(q[l]) /\ k # i + n[l]
            BY <5>1, <6>1
          <6> QED BY <1>1, <5>1, <5>2, <5>3, <6>2 DEF Distinct
        <5> QED BY <5>1, <5>2, <5>3 DEF st
      <4>2. ASSUME NEW k \in 1 .. Len(q[l]), q[l][k] = e, e \notin st[l]
            PROVE  \E i \in 1 .. Len(qN[l]) : qN[l][i] = e
        <5>1. ~(k \in 1 .. n[l])
          BY <4>2 DEF st
        <5>2. k - n[l] \in 1 .. Len(q[l]) - n[l] /\ (k - n[l]) + n[l] = k
          <6>1. /\ n[l] \in Nat /\ Len(q[l]) \in Nat /\ n[l] <= Len(q[l])
                /\ k \in 1 .. Len(q[l])
            BY <1>1
          <6> QED BY <5>1, <6>1, ShiftBack
        <5>3. qN[l][k - n[l]] = e
          BY <1>2, <4>2, <5>2
        <5> QED BY <1>2, <5>2, <5>3
      <4> QED BY <4>1, <4>2
    <3>2. (ph[e] = "queued" /\ LaneOf[e] = l) <=> \E i \in 1 .. Len(q[l]) : q[l][i] = e
      BY DEF QueuesAgree
    <3>3. LaneOf[e] = l => (phN[e] = "queued" <=> ph[e] = "queued" /\ e \notin st[l])
      BY <1>5
    <3> QED BY <3>1, <3>2, <3>3
  <2> QED BY <2>1, <2>2 DEF QueuesAgree
<1>11. QueuesSorted(qN, sq)
  <2> SUFFICES ASSUME NEW l \in Lane,
                      NEW i \in 1 .. Len(q[l]) - n[l], NEW j \in 1 .. Len(q[l]) - n[l], i < j
               PROVE  Due(sq, qN[l][i], qN[l][j])
    BY <1>2 DEF QueuesSorted, Sorted
  <2>1. /\ i + n[l] \in 1 .. Len(q[l]) /\ j + n[l] \in 1 .. Len(q[l])
        /\ i + n[l] < j + n[l]
    BY <1>1, Shift
  <2> QED BY <1>2, <2>1 DEF QueuesSorted, Sorted
<1>12. ASSUME NEW l \in Lane
       PROVE  /\ Full(qN, aN, m, l)
              /\ ~(aN[l] \subseteq a[l]) => Cardinality(aN[l]) <= m[l]
  <2>1. q[l] \in Seq(Entry) /\ a[l] \in SUBSET Entry /\ m[l] \in Nat
    OBVIOUS
  <2>2. CASE l \in D
    <3>1. n[l] = Vacancies(q[l], a[l], m[l]) /\ aN[l] = a[l] \cup Started(q[l], a[l], m[l])
      BY <2>2 DEF n, Drained
    <3>2. /\ Cardinality(aN[l]) = Cardinality(a[l]) + n[l]
          /\ Cardinality(a[l]) \in Nat
          /\ n[l] > 0 => Cardinality(a[l]) + n[l] <= m[l]
          /\ n[l] < Len(q[l]) => Cardinality(a[l]) + n[l] >= m[l]
      <4>1. Distinct(q[l]) /\ \A i \in 1 .. Len(q[l]) : q[l][i] \notin a[l]
        BY <1>1
      <4>2. Cardinality(a[l] \cup Started(q[l], a[l], m[l]))
              = Cardinality(a[l]) + Vacancies(q[l], a[l], m[l])
        BY <2>1, <4>1, StartedCardinality
      <4>3. /\ Cardinality(a[l]) \in Nat
            /\ Vacancies(q[l], a[l], m[l]) > 0 =>
                 Cardinality(a[l]) + Vacancies(q[l], a[l], m[l]) <= m[l]
            /\ Vacancies(q[l], a[l], m[l]) < Len(q[l]) =>
                 Cardinality(a[l]) + Vacancies(q[l], a[l], m[l]) >= m[l]
        BY <2>1, VacanciesRange
      <4> QED BY <3>1, <4>2, <4>3
    <3>3. qN[l] # <<>> => n[l] < Len(q[l])
      <4> SUFFICES ASSUME qN[l] # <<>> PROVE n[l] < Len(q[l])
        OBVIOUS
      <4>1. Len(qN[l]) # 0
        BY <1>2, EmptySeq
      <4>2. /\ Len(q[l]) \in Nat /\ n[l] \in Nat /\ n[l] <= Len(q[l])
            /\ Len(qN[l]) = Len(q[l]) - n[l]
        BY <1>1, <1>2
      <4> HIDE <1>0, CommandQueueAssumption
      <4> QED BY <4>1, <4>2
    <3>4. ~(aN[l] \subseteq a[l]) => n[l] > 0
      BY <1>1, <1>3 DEF st
    <3> QED BY <3>2, <3>3, <3>4 DEF Full
  <2>3. CASE l \notin D
    <3>1. qN[l] = q[l] /\ aN[l] = a[l]
      BY <2>3 DEF Drained
    <3> QED BY <2>3, <3>1 DEF Full
  <2> QED BY <2>2, <2>3
<1>13. \A e \in Entry : \/ phN[e] = ph[e]
                        \/ ph[e] = "queued" /\ phN[e] = "active"
  BY <1>4, <1>5
<1>14. ASSUME NEW e \in Entry, NEW f \in Entry,
              ph[e] = "queued", phN[e] = "active",
              phN[f] = "queued", LaneOf[e] = LaneOf[f]
       PROVE  Due(sq, e, f)
  <2> DEFINE l == LaneOf[e]
  <2>1. l \in Lane
    OBVIOUS
  <2>2. e \in st[l]
    BY <1>5, <1>14
  <2>3. f \notin st[l] /\ ph[f] = "queued"
    BY <1>5, <1>14
  <2>4. LaneOf[f] = l
    BY <1>14
  <2> HIDE DEF l
  <2>5. PICK i \in 1 .. n[l] : q[l][i] = e
    BY <2>1, <2>2 DEF st
  <2>6. PICK j \in 1 .. Len(q[l]) : q[l][j] = f
    BY <2>1, <2>3, <2>4 DEF QueuesAgree
  <2>7. j \notin 1 .. n[l]
    BY <2>1, <2>3, <2>6 DEF st
  <2>8. i \in 1 .. Len(q[l]) /\ i < j
    <3>1. n[l] \in Nat /\ Len(q[l]) \in Nat /\ n[l] <= Len(q[l])
      BY <1>1, <2>1
    <3> QED BY <2>7, <3>1, Shift
  <2> QED BY <2>1, <2>5, <2>6, <2>8 DEF QueuesSorted, Sorted
<1>15. Settled(qN, aN, m, g, phN, siN, sq)
  <2>1. ASSUME NEW e \in Entry PROVE siN[e] <= g[LaneOf[e]]
    <3>1. g[LaneOf[e]] \in Nat /\ (siN[e] = g[LaneOf[e]] \/ siN[e] = si[e])
      BY <1>5
    <3>2. g[LaneOf[e]] <= g[LaneOf[e]] /\ si[e] <= g[LaneOf[e]]
      BY <3>1
    <3> QED BY <3>1, <3>2
  <2> QED BY <2>1, <1>6, <1>7, <1>8, <1>9, <1>10, <1>11, <1>12 DEF Settled
<1>16. Advanced(a, ph, aN, phN)
  BY <1>3, <1>4, <1>13 DEF Advanced
<1>17. WithinLimit(a, m, aN)
  BY <1>12 DEF WithinLimit
<1>18. InOrder(ph, sq, phN)
  BY <1>14 DEF InOrder
<1> QED BY <1>15, <1>16, <1>17, <1>18

-----------------------------------------------------------------------------
(* The same parts, read off a state and off its successor.                 *)
LEMMA Parts ==
  /\ SlotAccounting <=> SlotsAgree(active, generation, phase, startedIn)
  /\ QueueAccounting <=> QueuesAgree(queue, phase)
  /\ QueueOrder <=> QueuesSorted(queue, sequence)
  /\ NoIdleSlot <=> \A l \in Lane : Full(queue, active, maxConcurrent, l)
BY DEF SlotAccounting, MarkerCurrent, SlotsAgree, QueueAccounting, QueuesAgree,
       Distinct, QueueOrder, QueuesSorted, Sorted, Precedes, Due, NoIdleSlot, Full

(* The same for the state that follows.                                    *)
LEMMA PartsNext ==
  /\ SlotAccounting' <=> SlotsAgree(active', generation', phase', startedIn')
  /\ QueueAccounting' <=> QueuesAgree(queue', phase')
  /\ QueueOrder' <=> QueuesSorted(queue', sequence')
  /\ NoIdleSlot' <=> \A l \in Lane : Full(queue', active', maxConcurrent', l)
BY DEF SlotAccounting, MarkerCurrent, SlotsAgree, QueueAccounting, QueuesAgree,
       Distinct, QueueOrder, QueuesSorted, Sorted, Precedes, Due, NoIdleSlot, Full

(* The waiters' part, when the tasks b are the ones a notification sees:   *)
(* b may differ from the busy tasks only in tasks that had not begun.      *)
LEMMA WaitersPreserved ==
  ASSUME IInv, NEW b,
         waiter' = [w \in Waiter |->
           IF waiter[w].outcome = "pending" /\ waiter[w].captured \cap b = {}
           THEN [waiter[w] EXCEPT !.outcome = "drained"]
           ELSE waiter[w]],
         \A e \in Entry : phase[e] \in Begun =>
           /\ phase'[e] \in Begun
           /\ e \in b <=> e \in Busy(active')
           /\ e \in b => e \in Busy(active)
  PROVE  /\ waiter' \in [Waiter -> [captured : SUBSET Entry, outcome : Outcome]]
         /\ WaiterHasWork' /\ DrainedIsFinal' /\ CapturedBegun'
<1>1. \A w \in Waiter : /\ waiter[w] \in [captured : SUBSET Entry, outcome : Outcome]
                        /\ \A e \in waiter[w].captured : e \in Entry /\ phase[e] \in Begun
  BY DEF IInv, TypeOK, CapturedBegun
<1>2. ASSUME NEW w \in Waiter
      PROVE  /\ waiter'[w] \in [captured : SUBSET Entry, outcome : Outcome]
             /\ waiter'[w].captured = waiter[w].captured
             /\ waiter'[w].outcome = "pending" =>
                  waiter[w].captured \cap Busy(active') # {}
             /\ waiter'[w].outcome = "drained" =>
                  waiter[w].captured \cap Busy(active') = {}
  <2>1. waiter[w].captured \cap b = waiter[w].captured \cap Busy(active')
    BY <1>1
  <2>2. waiter[w].captured \cap b \subseteq waiter[w].captured \cap Busy(active)
    BY <1>1
  <2>3. CASE waiter[w].outcome = "pending" /\ waiter[w].captured \cap b = {}
    <3>1. waiter'[w] = [waiter[w] EXCEPT !.outcome = "drained"]
      BY <2>3
    <3> QED BY <1>1, <2>1, <2>3, <3>1 DEF Outcome
  <2>4. CASE ~(waiter[w].outcome = "pending" /\ waiter[w].captured \cap b = {})
    <3>1. waiter'[w] = waiter[w]
      BY <2>4
    <3>2. waiter[w].outcome = "drained" =>
            waiter[w].captured \cap Busy(active) = {}
      BY DEF IInv, DrainedIsFinal
    <3> QED BY <1>1, <2>1, <2>2, <2>4, <3>1, <3>2
  <2> QED BY <2>3, <2>4
<1>3. waiter' \in [Waiter -> [captured : SUBSET Entry, outcome : Outcome]]
  BY <1>2
<1>4. WaiterHasWork' /\ DrainedIsFinal'
  BY <1>2 DEF WaiterHasWork, DrainedIsFinal
<1>5. CapturedBegun'
  BY <1>1, <1>2 DEF CapturedBegun
<1> QED BY <1>3, <1>4, <1>5

(* A step that does not touch waiters is the case in which b is what was   *)
(* busy before it.                                                         *)
LEMMA WaitersUnchanged ==
  ASSUME IInv, UNCHANGED waiter,
         \A e \in Entry : phase[e] \in Begun =>
           /\ phase'[e] \in Begun
           /\ e \in Busy(active) <=> e \in Busy(active')
  PROVE  /\ waiter' \in [Waiter -> [captured : SUBSET Entry, outcome : Outcome]]
         /\ WaiterHasWork' /\ DrainedIsFinal' /\ CapturedBegun'
<1>1. \A w \in Waiter : \A e \in waiter[w].captured : e \in Entry /\ phase[e] \in Begun
  BY DEF IInv, TypeOK, CapturedBegun
<1>2. \A w \in Waiter : waiter[w].captured \cap Busy(active) = waiter[w].captured \cap Busy(active')
  BY <1>1
<1> QED
  BY <1>1, <1>2 DEF IInv, TypeOK, WaiterHasWork, DrainedIsFinal, CapturedBegun

-----------------------------------------------------------------------------
(* Each action preserves the invariant.                                    *)

(* What StartsWithinLimit and StartsInOrder say of one step.               *)
StartsKept ==
  /\ \A l \in Lane :
       ~(active'[l] \subseteq active[l]) => Cardinality(active'[l]) <= maxConcurrent'[l]
  /\ \A e, f \in Entry :
       /\ phase[e] \in {"new", "queued"} /\ phase'[e] = "active"
       /\ phase'[f] = "queued" /\ LaneOf[e] = LaneOf[f]
       => Due(sequence', e, f)

(* drainLane starts tasks within the limit and in order, also when seen    *)
(* from before the part of the step that precedes it.                      *)
LEMMA DrainStarts ==
  ASSUME NEW a, NEW ph,
         WithinLimit(a, maxConcurrent', active'), InOrder(ph, sequence', phase'),
         \A l \in Lane : a[l] \subseteq active[l],
         \A e \in Entry :
           phase[e] \in {"new", "queued"} /\ phase'[e] = "active" => ph[e] = "queued"
  PROVE  StartsKept
<1>1. ASSUME NEW l \in Lane, ~(active'[l] \subseteq active[l])
      PROVE  Cardinality(active'[l]) <= maxConcurrent'[l]
  <2>1. ~(active'[l] \subseteq a[l])
    BY <1>1
  <2> QED BY <2>1 DEF WithinLimit
<1>2. ASSUME NEW e \in Entry, NEW f \in Entry,
             phase[e] \in {"new", "queued"} /\ phase'[e] = "active",
             phase'[f] = "queued" /\ LaneOf[e] = LaneOf[f]
      PROVE  Due(sequence', e, f)
  <2>1. ph[e] = "queued"
    BY <1>2
  <2> QED BY <1>2, <2>1 DEF InOrder
<1> QED BY <1>1, <1>2 DEF StartsKept

(* A step that starts no task keeps both.                                  *)
LEMMA NoStart ==
  ASSUME \A l \in Lane : active'[l] \subseteq active[l],
         \A e \in Entry : phase'[e] = "active" => phase[e] = "active"
  PROVE  StartsKept
BY DEF StartsKept

(* A step that ends in drainLane keeps the invariant once its waiters and  *)
(* its sequence numbers are seen to.                                       *)
LEMMA SettledStep ==
  ASSUME IInv, Settled(queue', active', maxConcurrent', generation', phase',
                       startedIn', sequence'),
         maxConcurrent' \in [Lane -> Nat], generation' \in [Lane -> Nat],
         nextSequence' \in Nat \ {0}, sequence' \in [Entry -> Nat],
         waiter' \in [Waiter -> [captured : SUBSET Entry, outcome : Outcome]],
         WaiterHasWork' /\ DrainedIsFinal' /\ CapturedBegun', EntryNumbers'
  PROVE  IInv'
<1>1. SlotAccounting' /\ QueueAccounting' /\ QueueOrder' /\ NoIdleSlot'
  BY PartsNext DEF Settled
<1>2. TypeOK' /\ GenerationsPast'
  BY DEF Settled, TypeOK, GenerationsPast
<1> QED BY <1>1, <1>2 DEF IInv

(* enqueueCommandInLane keeps the invariant: the new entry is numbered     *)
(* above all others, goes in where it keeps the order, and the lane is     *)
(* pumped.                                                                 *)
LEMMA EnqueueStep ==
  ASSUME IInv, NEW e \in Entry, Enqueue(e)
  PROVE  IInv' /\ StartsKept
<1> USE CommandQueueAssumption DEF CommandQueueAssumption
<1> DEFINE l == LaneOf[e]
           r == Inserted(queue[l], e, nextSequence)
           q == [queue EXCEPT ![l] = r]
           ph == [phase EXCEPT ![e] = "queued"]
           sq == [sequence EXCEPT ![e] = nextSequence]
<1>1. /\ TypeOK /\ phase[e] = "new" /\ l \in Lane
      /\ nextSequence' = nextSequence + 1 /\ sequence' = sq /\ UNCHANGED waiter
      /\ Drain({l}, q, active, maxConcurrent, generation, ph)
  BY DEF IInv, Enqueue
<1>2. /\ queue \in [Lane -> Seq(Entry)] /\ sequence \in [Entry -> Nat]
      /\ nextSequence \in Nat /\ phase \in [Entry -> Phase]
      /\ startedIn \in [Entry -> Nat] /\ active \in [Lane -> SUBSET Entry]
      /\ maxConcurrent \in [Lane -> Nat] /\ generation \in [Lane -> Nat]
  BY <1>1 DEF TypeOK
<1>3. /\ SlotsAgree(active, generation, phase, startedIn)
      /\ QueuesAgree(queue, phase) /\ QueuesSorted(queue, sequence)
      /\ \A k \in Lane : Full(queue, active, maxConcurrent, k)
      /\ \A f \in Entry : startedIn[f] <= generation[LaneOf[f]]
  BY Parts DEF IInv, GenerationsPast
<1>4. \A i \in 1 .. Len(queue[l]) :
        queue[l][i] # e /\ sequence[queue[l][i]] < nextSequence
  <2> TAKE i \in 1 .. Len(queue[l])
  <2>1. queue[l][i] \in Entry
    BY <1>1, <1>2, ElementOfSeq
  <2>2. phase[queue[l][i]] = "queued"
    BY <1>1, <1>3, <2>1 DEF QueuesAgree
  <2> QED
    BY <1>1, <2>1, <2>2 DEF IInv, EntryNumbers
<1>5. /\ r \in Seq(Entry) /\ Distinct(r) /\ Sorted(r, sq)
      /\ \A f \in Entry : (\E i \in 1 .. Len(r) : r[i] = f)
                            <=> f = e \/ \E i \in 1 .. Len(queue[l]) : queue[l][i] = f
  <2>1. queue[l] \in Seq(Entry) /\ Distinct(queue[l]) /\ Sorted(queue[l], sequence)
    BY <1>1, <1>2, <1>3 DEF QueuesAgree, QueuesSorted
  <2> QED BY <1>2, <1>4, <2>1, InsertedProperties
<1> HIDE DEF r
<1>6. /\ q \in [Lane -> Seq(Entry)] /\ ph \in [Entry -> Phase] /\ sq \in [Entry -> Nat]
      /\ q[l] = r /\ \A k \in Lane \ {l} : q[k] = queue[k]
      /\ ph[e] = "queued" /\ \A f \in Entry \ {e} : ph[f] = phase[f]
  BY <1>1, <1>2, <1>5 DEF Phase
<1>7. SlotsAgree(active, generation, ph, startedIn)
  BY <1>1, <1>3, <1>6 DEF SlotsAgree
<1>8. QueuesAgree(q, ph)
  <2>1. \A k \in Lane : Distinct(q[k])
    BY <1>3, <1>5, <1>6 DEF QueuesAgree
  <2>2. ASSUME NEW f \in Entry, NEW k \in Lane
        PROVE  (ph[f] = "queued" /\ LaneOf[f] = k) <=> \E i \in 1 .. Len(q[k]) : q[k][i] = f
    <3>1. (phase[f] = "queued" /\ LaneOf[f] = k)
            <=> \E i \in 1 .. Len(queue[k]) : queue[k][i] = f
      BY <1>3 DEF QueuesAgree
    <3>2. CASE k = l
      BY <1>1, <1>5, <1>6, <3>1, <3>2
    <3>3. CASE k # l
      BY <1>1, <1>6, <3>1, <3>3
    <3> QED BY <3>2, <3>3
  <2> QED BY <2>1, <2>2 DEF QueuesAgree
<1>9. QueuesSorted(q, sq)
  <2>1. ASSUME NEW k \in Lane, k # l
        PROVE  Sorted(queue[k], sq)
    <3>1. Sorted(queue[k], sequence)
      BY <1>3 DEF QueuesSorted
    <3>2. \A i \in 1 .. Len(queue[k]) : queue[k][i] \in Entry
      BY <1>2, ElementOfSeq
    <3>3. \A i \in 1 .. Len(queue[k]) : queue[k][i] # e
      BY <1>1, <1>3 DEF QueuesAgree
    <3>4. \A i \in 1 .. Len(queue[k]) : sq[queue[k][i]] = sequence[queue[k][i]]
      BY <1>2, <3>2, <3>3
    <3> QED BY <3>1, <3>4 DEF Sorted, Due
  <2> QED BY <1>5, <1>6, <2>1 DEF QueuesSorted
<1>10. \A k \in Lane \ {l} : Full(q, active, maxConcurrent, k)
  BY <1>3, <1>6 DEF Full
<1> HIDE DEF q, ph, sq
<1>11. /\ Settled(queue', active', maxConcurrent, generation, phase', startedIn', sq)
       /\ Advanced(active, ph, active', phase')
       /\ WithinLimit(active, maxConcurrent, active') /\ InOrder(ph, sq, phase')
       /\ maxConcurrent' = maxConcurrent /\ generation' = generation
  <2>1. Ready({l}, q, active, maxConcurrent, generation, ph, startedIn, sq)
    BY <1>1, <1>2, <1>3, <1>6, <1>7, <1>8, <1>9, <1>10 DEF Ready
  <2> HIDE DEF l
  <2>2. /\ Drained({l}, q, active, maxConcurrent, generation, ph, startedIn,
                   queue', active', phase', startedIn')
        /\ maxConcurrent' = maxConcurrent /\ generation' = generation
    BY <1>1 DEF Drain, Drained
  <2> QED BY <2>1, <2>2, DrainPreserves
<1>12. SlotAccounting' /\ QueueAccounting' /\ QueueOrder' /\ NoIdleSlot'
  BY <1>1, <1>11, PartsNext DEF Settled
<1>13. \A f \in Entry : phase[f] \in Begun =>
         /\ phase'[f] \in Begun
         /\ f \in Busy(active) <=> f \in Busy(active')
  <2> SUFFICES ASSUME NEW f \in Entry, phase[f] \in Begun
               PROVE  /\ phase'[f] \in Begun
                      /\ f \in Busy(active) <=> f \in Busy(active')
    OBVIOUS
  <2>1. f # e /\ ph[f] = phase[f] /\ ph[f] # "queued"
    BY <1>1, <1>6 DEF Begun
  <2> QED BY <1>11, <2>1 DEF Begun, Busy, Advanced
<1>14. /\ waiter' \in [Waiter -> [captured : SUBSET Entry, outcome : Outcome]]
       /\ WaiterHasWork' /\ DrainedIsFinal' /\ CapturedBegun'
  BY <1>1, <1>13, WaitersUnchanged
<1>15. EntryNumbers'
  <2> SUFFICES ASSUME NEW f \in Entry, phase'[f] = "queued"
               PROVE  sequence'[f] < nextSequence'
    BY DEF EntryNumbers
  <2>1. CASE f = e
    BY <1>1, <1>2, <2>1 DEF sq
  <2>2. CASE f # e
    <3>1. phase[f] = "queued"
      BY <1>6, <1>11, <2>2 DEF Advanced
    <3>2. sequence[f] < nextSequence /\ sequence'[f] = sequence[f]
      BY <1>1, <1>2, <2>2, <3>1 DEF IInv, EntryNumbers, sq
    <3> QED BY <1>1, <1>2, <3>2
  <2> QED BY <2>1, <2>2
<1>16. TypeOK'
  <2>1. nextSequence' \in Nat \ {0} /\ sequence' \in [Entry -> Nat]
    BY <1>1, <1>2, <1>6
  <2> QED BY <1>2, <1>11, <1>14, <2>1 DEF TypeOK, Settled
<1>17. GenerationsPast'
  BY <1>11 DEF Settled, GenerationsPast
<1>18. StartsKept
  <2>1. \A f \in Entry :
          phase[f] \in {"new", "queued"} /\ phase'[f] = "active" => ph[f] = "queued"
    BY <1>6, <1>11 DEF Advanced
  <2> QED BY <1>1, <1>11, <2>1, DrainStarts
<1> QED
  BY <1>12, <1>14, <1>15, <1>16, <1>17, <1>18 DEF IInv

(* What the invariant says of a state, in the form the lemmas take.        *)
LEMMA Facts ==
  ASSUME IInv
  PROVE  /\ queue \in [Lane -> Seq(Entry)] /\ sequence \in [Entry -> Nat]
         /\ nextSequence \in Nat /\ phase \in [Entry -> Phase]
         /\ startedIn \in [Entry -> Nat] /\ active \in [Lane -> SUBSET Entry]
         /\ maxConcurrent \in [Lane -> Nat] /\ generation \in [Lane -> Nat]
         /\ SlotsAgree(active, generation, phase, startedIn)
         /\ QueuesAgree(queue, phase) /\ QueuesSorted(queue, sequence)
         /\ \A k \in Lane : Full(queue, active, maxConcurrent, k)
         /\ \A f \in Entry : startedIn[f] <= generation[LaneOf[f]]
BY Parts DEF IInv, TypeOK, GenerationsPast

(* Steps that only move the phase of one entry that is not queued and owns *)
(* no slot: a refusal, a stale completion, the late end of a body.         *)
LEMMA PhaseStep ==
  ASSUME IInv, NEW e \in Entry, NEW next \in Phase \ {"queued", "active"},
         phase[e] # "queued",
         phase[e] = "active" => startedIn[e] # generation[LaneOf[e]],
         phase[e] \in Begun => next \in Begun,
         phase' = [phase EXCEPT ![e] = next],
         UNCHANGED <<laneVars, nextSequence, sequence, startedIn, waiter>>
  PROVE  IInv' /\ StartsKept
<1>1. /\ queue' = queue /\ active' = active /\ maxConcurrent' = maxConcurrent
      /\ generation' = generation /\ nextSequence' = nextSequence
      /\ sequence' = sequence /\ startedIn' = startedIn /\ waiter' = waiter
  BY DEF laneVars
<1>2. /\ phase' \in [Entry -> Phase] /\ phase'[e] = next
      /\ \A f \in Entry \ {e} : phase'[f] = phase[f]
  BY Facts
<1>3. SlotsAgree(active', generation', phase', startedIn')
  BY <1>1, <1>2, Facts DEF SlotsAgree
<1>4. QueuesAgree(queue', phase')
  BY <1>1, <1>2, Facts DEF QueuesAgree
<1>5. QueuesSorted(queue', sequence') /\ \A k \in Lane : Full(queue', active', maxConcurrent', k)
  BY <1>1, Facts
<1>6. /\ waiter' \in [Waiter -> [captured : SUBSET Entry, outcome : Outcome]]
      /\ WaiterHasWork' /\ DrainedIsFinal' /\ CapturedBegun'
  <2>1. \A f \in Entry : phase[f] \in Begun =>
          /\ phase'[f] \in Begun
          /\ f \in Busy(active) <=> f \in Busy(active')
    BY <1>1, <1>2
  <2> QED BY <1>1, <2>1, WaitersUnchanged
<1>7. EntryNumbers' /\ GenerationsPast'
  BY <1>1, <1>2 DEF IInv, EntryNumbers, GenerationsPast
<1>8. TypeOK'
  BY <1>1, <1>2, <1>6 DEF IInv, TypeOK
<1>9. StartsKept
  BY <1>1, <1>2, NoStart
<1> QED
  BY <1>3, <1>4, <1>5, <1>6, <1>7, <1>8, <1>9, PartsNext DEF IInv

(* The end of a task, in time or late, keeps the invariant: a slot is      *)
(* freed only for the current generation, and then the lane is pumped.     *)
LEMMA CompleteStep ==
  ASSUME IInv, NEW e \in Entry, NEW next \in {"resolved", "rejected", "unwinding"},
         Complete(e, next)
  PROVE  IInv' /\ StartsKept
<1> USE CommandQueueAssumption DEF CommandQueueAssumption
<1> DEFINE l == LaneOf[e]
           a == [active EXCEPT ![l] = @ \ {e}]
           ph == [phase EXCEPT ![e] = next]
<1>1. /\ phase[e] = "active" /\ l \in Lane
      /\ nextSequence' = nextSequence /\ sequence' = sequence
  BY DEF Complete
<1>2. CASE startedIn[e] # generation[l]
  <2>1. /\ phase' = ph
        /\ UNCHANGED <<laneVars, nextSequence, sequence, startedIn, waiter>>
    BY <1>2 DEF Complete
  <2>2. next \in Phase \ {"queued", "active"} /\ next \in Begun
    BY DEF Phase, Begun
  <2> QED BY <1>1, <1>2, <2>1, <2>2, PhaseStep
<1>3. CASE startedIn[e] = generation[l]
  <2>1. Notify(a) /\ Drain({l}, queue, a, maxConcurrent, generation, ph)
    BY <1>3 DEF Complete
  <2>2. /\ a \in [Lane -> SUBSET Entry] /\ ph \in [Entry -> Phase]
        /\ a[l] = active[l] \ {e} /\ \A k \in Lane \ {l} : a[k] = active[k]
        /\ ph[e] = next /\ \A f \in Entry \ {e} : ph[f] = phase[f]
    BY <1>1, Facts DEF Phase
  <2> HIDE DEF a, ph
  <2>3. SlotsAgree(a, generation, ph, startedIn)
    <3>1. \A f \in Entry : (startedIn[f] = generation[LaneOf[f]] /\ f \in a[LaneOf[f]])
                            <=> (ph[f] = "active" /\ startedIn[f] = generation[LaneOf[f]])
      <4>1. ASSUME NEW f \in Entry \ {e}
            PROVE  f \in a[LaneOf[f]] <=> f \in active[LaneOf[f]]
        BY <1>1, <2>2
      <4>2. e \notin a[l] /\ ph[e] # "active"
        BY <2>2
      <4> QED BY <2>2, <4>1, <4>2, Facts DEF SlotsAgree
    <3>2. \A k \in Lane : a[k] \subseteq active[k]
      BY <2>2
    <3> QED BY <3>1, <3>2, Facts DEF SlotsAgree
  <2>4. QueuesAgree(queue, ph)
    BY <1>1, <2>2, Facts DEF QueuesAgree
  <2>5. Ready({l}, queue, a, maxConcurrent, generation, ph, startedIn, sequence)
    <3>1. \A k \in Lane \ {l} : Full(queue, a, maxConcurrent, k)
      BY <2>2, Facts DEF Full
    <3> QED BY <1>1, <2>2, <2>3, <2>4, <3>1, Facts DEF Ready
  <2> HIDE DEF l
  <2>6. /\ Drained({l}, queue, a, maxConcurrent, generation, ph, startedIn,
                   queue', active', phase', startedIn')
        /\ maxConcurrent' = maxConcurrent /\ generation' = generation
    BY <2>1 DEF Drain, Drained
  <2>7. /\ Settled(queue', active', maxConcurrent', generation', phase', startedIn', sequence')
        /\ Advanced(a, ph, active', phase')
        /\ WithinLimit(a, maxConcurrent', active') /\ InOrder(ph, sequence', phase')
    BY <1>1, <2>5, <2>6, DrainPreserves
  <2>8. /\ waiter' \in [Waiter -> [captured : SUBSET Entry, outcome : Outcome]]
        /\ WaiterHasWork' /\ DrainedIsFinal' /\ CapturedBegun'
    <3>1. \A f \in Entry : phase[f] \in Begun => ph[f] \in Begun /\ ph[f] # "queued"
      BY <2>2 DEF Begun
    <3>2. \A f \in Entry : phase[f] \in Begun =>
            /\ phase'[f] \in Begun
            /\ f \in Busy(a) <=> f \in Busy(active')
            /\ f \in Busy(a) => f \in Busy(active)
      BY <1>1, <2>2, <2>7, <3>1 DEF Advanced, Busy
    <3> QED BY <2>1, <3>2, WaitersPreserved DEF Notify
  <2>9. EntryNumbers'
    <3>1. \A f \in Entry : phase'[f] = "queued" => phase[f] = "queued"
      BY <2>2, <2>7 DEF Advanced
    <3> QED BY <1>1, <3>1 DEF IInv, EntryNumbers
  <2>10. /\ maxConcurrent' \in [Lane -> Nat] /\ generation' \in [Lane -> Nat]
         /\ nextSequence' \in Nat \ {0} /\ sequence' \in [Entry -> Nat]
    BY <1>1, <2>6 DEF IInv, TypeOK
  <2>11. StartsKept
    <3>1. \A k \in Lane : a[k] \subseteq active[k]
      BY <1>1, <2>2
    <3>2. \A f \in Entry :
            phase[f] \in {"new", "queued"} /\ phase'[f] = "active" => ph[f] = "queued"
      BY <1>1, <2>2, <2>7 DEF Advanced
    <3> QED BY <2>7, <3>1, <3>2, DrainStarts
  <2> QED BY <2>7, <2>8, <2>9, <2>10, <2>11, SettledStep
<1> QED BY <1>2, <1>3

(* setCommandLaneConcurrency keeps the invariant: a raised limit is filled *)
(* at once, and a lane is left alone only when it is paused.               *)
LEMMA SetConcurrencyStep ==
  ASSUME IInv, NEW l \in Lane, NEW n \in Limit, SetConcurrency(l, n)
  PROVE  IInv' /\ StartsKept
<1> USE CommandQueueAssumption DEF CommandQueueAssumption
<1> DEFINE limit == Larger(IF l \in ProbeLane THEN 1 ELSE 0, n)
           m == [maxConcurrent EXCEPT ![l] = limit]
<1>1. limit \in Nat
  BY DEF Larger
<1> HIDE DEF limit
<1>2. m \in [Lane -> Nat] /\ m[l] = limit /\ \A k \in Lane \ {l} : m[k] = maxConcurrent[k]
  BY <1>1, Facts
<1>3. nextSequence' = nextSequence /\ sequence' = sequence /\ UNCHANGED waiter
  BY DEF SetConcurrency
<1>4. CASE m[l] > 0
  <2>1. Drain({l}, queue, active, m, generation, phase)
    BY <1>4 DEF SetConcurrency, limit
  <2> HIDE DEF m
  <2>2. Ready({l}, queue, active, m, generation, phase, startedIn, sequence)
    <3>1. \A k \in Lane \ {l} : Full(queue, active, m, k)
      BY <1>2, Facts DEF Full
    <3> QED BY <1>2, <3>1, Facts DEF Ready
  <2>3. /\ Drained({l}, queue, active, m, generation, phase, startedIn,
                   queue', active', phase', startedIn')
        /\ maxConcurrent' = m /\ generation' = generation
    BY <2>1 DEF Drain, Drained
  <2>4. /\ Settled(queue', active', maxConcurrent', generation', phase', startedIn', sequence')
        /\ Advanced(active, phase, active', phase')
        /\ WithinLimit(active, maxConcurrent', active')
        /\ InOrder(phase, sequence', phase')
    BY <1>3, <2>2, <2>3, DrainPreserves
  <2>5. /\ waiter' \in [Waiter -> [captured : SUBSET Entry, outcome : Outcome]]
        /\ WaiterHasWork' /\ DrainedIsFinal' /\ CapturedBegun'
    <3>1. \A f \in Entry : phase[f] \in Begun =>
            /\ phase'[f] \in Begun
            /\ f \in Busy(active) <=> f \in Busy(active')
      BY <2>4 DEF Advanced, Busy, Begun
    <3> QED BY <1>3, <3>1, WaitersUnchanged
  <2>6. EntryNumbers'
    <3>1. \A f \in Entry : phase'[f] = "queued" => phase[f] = "queued"
      BY <2>4 DEF Advanced
    <3> QED BY <1>3, <3>1 DEF IInv, EntryNumbers
  <2>7. /\ maxConcurrent' \in [Lane -> Nat] /\ generation' \in [Lane -> Nat]
        /\ nextSequence' \in Nat \ {0} /\ sequence' \in [Entry -> Nat]
    BY <1>2, <1>3, <2>3 DEF IInv, TypeOK
  <2>8. StartsKept
    BY <2>4, DrainStarts DEF Advanced
  <2> QED BY <2>4, <2>5, <2>6, <2>7, <2>8, SettledStep
<1>5. CASE ~(m[l] > 0)
  <2>1. /\ maxConcurrent' = m
        /\ UNCHANGED <<queue, active, generation, phase, startedIn>>
    BY <1>5 DEF SetConcurrency, limit
  <2> HIDE DEF m
  <2>2. \A k \in Lane : Full(queue', active', m, k)
    <3>1. Full(queue, active, m, l)
      <4>1. m[l] = 0 /\ Cardinality(active[l]) \in Nat
        BY <1>1, <1>2, <1>5, Facts, FS_Subset, FS_CardinalityType
      <4> QED BY <4>1 DEF Full
    <3>2. \A k \in Lane \ {l} : Full(queue, active, m, k)
      BY <1>2, Facts DEF Full
    <3> QED BY <2>1, <3>1, <3>2
  <2>3. Settled(queue', active', maxConcurrent', generation', phase', startedIn', sequence')
    BY <1>3, <2>1, <2>2, Facts DEF Settled
  <2>4. /\ waiter' \in [Waiter -> [captured : SUBSET Entry, outcome : Outcome]]
        /\ WaiterHasWork' /\ DrainedIsFinal' /\ CapturedBegun'
    BY <1>3, <2>1, WaitersUnchanged
  <2>5. EntryNumbers'
    BY <1>3, <2>1 DEF IInv, EntryNumbers
  <2>6. /\ maxConcurrent' \in [Lane -> Nat] /\ generation' \in [Lane -> Nat]
        /\ nextSequence' \in Nat \ {0} /\ sequence' \in [Entry -> Nat]
    BY <1>2, <1>3, <2>1 DEF IInv, TypeOK
  <2>7. StartsKept
    BY <2>1, NoStart
  <2> QED BY <2>3, <2>4, <2>5, <2>6, <2>7, SettledStep
<1> QED BY <1>4, <1>5

(* clearCommandLane keeps the invariant: exactly the queued calls of the   *)
(* lane leave it.                                                          *)
LEMMA ClearLaneStep ==
  ASSUME IInv, NEW l \in Lane, ClearLane(l)
  PROVE  IInv' /\ StartsKept
<1> USE CommandQueueAssumption DEF CommandQueueAssumption
<1>1. /\ queue' = [queue EXCEPT ![l] = <<>>]
      /\ UNCHANGED <<active, maxConcurrent, generation, nextSequence, sequence,
                     startedIn, waiter>>
  BY DEF ClearLane
<1>2. phase' = [e \in Entry |-> IF phase[e] = "queued" /\ LaneOf[e] = l
                                THEN "cleared" ELSE phase[e]]
  <2>1. \A e \in Entry : (\E i \in 1 .. Len(queue[l]) : queue[l][i] = e)
                           <=> phase[e] = "queued" /\ LaneOf[e] = l
    BY Facts DEF QueuesAgree
  <2>2. phase' = [e \in Entry |->
          IF \E i \in 1 .. Len(queue[l]) : queue[l][i] = e
          THEN "cleared" ELSE phase[e]]
    BY DEF ClearLane
  <2> HIDE CommandQueueAssumption
  <2> QED BY <2>1, <2>2
<1>3. /\ queue' \in [Lane -> Seq(Entry)] /\ queue'[l] = <<>> /\ Len(queue'[l]) = 0
      /\ \A k \in Lane \ {l} : queue'[k] = queue[k]
  BY <1>1, Facts
<1>4. phase' \in [Entry -> Phase]
  BY <1>2, Facts DEF Phase
<1>5. SlotsAgree(active', generation', phase', startedIn')
  BY <1>1, <1>2, Facts DEF SlotsAgree
<1>6. QueuesAgree(queue', phase')
  <2> DEFINE r == queue'
  <2>0. /\ 1 .. Len(r[l]) = {} /\ \A k \in Lane \ {l} : r[k] = queue[k]
    BY <1>3
  <2> HIDE DEF r
  <2>1. \A k \in Lane : Distinct(r[k])
    <3>1. Distinct(r[l])
      BY <2>0 DEF Distinct
    <3> QED BY <2>0, <3>1, Facts DEF QueuesAgree
  <2>2. ASSUME NEW f \in Entry, NEW k \in Lane
        PROVE  (phase'[f] = "queued" /\ LaneOf[f] = k)
                 <=> \E i \in 1 .. Len(r[k]) : r[k][i] = f
    <3>1. CASE k = l
      <4>1. ~(phase'[f] = "queued" /\ LaneOf[f] = l)
        BY <1>2
      <4> QED BY <2>0, <3>1, <4>1
    <3>2. CASE k # l
      <4>1. (phase'[f] = "queued" /\ LaneOf[f] = k) <=> (phase[f] = "queued" /\ LaneOf[f] = k)
        BY <1>2, <3>2
      <4>2. (phase[f] = "queued" /\ LaneOf[f] = k)
              <=> \E i \in 1 .. Len(queue[k]) : queue[k][i] = f
        BY Facts DEF QueuesAgree
      <4>3. r[k] = queue[k]
        BY <2>0, <3>2
      <4> QED BY <4>1, <4>2, <4>3
    <3> QED BY <3>1, <3>2
  <2> QED BY <2>1, <2>2 DEF QueuesAgree, r
<1>7. QueuesSorted(queue', sequence')
  BY <1>1, <1>3, Facts DEF QueuesSorted, Sorted
<1>8. \A k \in Lane : Full(queue', active', maxConcurrent', k)
  BY <1>1, <1>3, Facts DEF Full
<1>9. Settled(queue', active', maxConcurrent', generation', phase', startedIn', sequence')
  BY <1>1, <1>3, <1>4, <1>5, <1>6, <1>7, <1>8, Facts DEF Settled
<1>10. /\ waiter' \in [Waiter -> [captured : SUBSET Entry, outcome : Outcome]]
       /\ WaiterHasWork' /\ DrainedIsFinal' /\ CapturedBegun'
  <2>1. \A f \in Entry : phase[f] \in Begun => phase'[f] \in Begun
    BY <1>2 DEF Begun
  <2> QED BY <1>1, <2>1, WaitersUnchanged
<1>11. EntryNumbers'
  BY <1>1, <1>2 DEF IInv, EntryNumbers
<1>12. /\ maxConcurrent' \in [Lane -> Nat] /\ generation' \in [Lane -> Nat]
       /\ nextSequence' \in Nat \ {0} /\ sequence' \in [Entry -> Nat]
  BY <1>1 DEF IInv, TypeOK
<1>13. StartsKept
  BY <1>1, <1>2, NoStart
<1> QED BY <1>9, <1>10, <1>11, <1>12, <1>13, SettledStep

(* A reset disowns every slot of its lanes: GenerationsPast is what rules  *)
(* out a task that the new generation would take for its own.              *)
LEMMA ResetStep ==
  ASSUME IInv, NEW D \in SUBSET Lane, Reset(D)
  PROVE  IInv' /\ StartsKept
<1> USE CommandQueueAssumption DEF CommandQueueAssumption
<1> DEFINE a == [l \in Lane |-> IF l \in D THEN {} ELSE active[l]]
           g == [l \in Lane |-> IF l \in D THEN generation[l] + 1 ELSE generation[l]]
<1>1. /\ Drain(D, queue, a, maxConcurrent, g, phase)
      /\ Notify(active')
      /\ nextSequence' = nextSequence /\ sequence' = sequence
  BY DEF Reset
<1>2. /\ a \in [Lane -> SUBSET Entry] /\ g \in [Lane -> Nat]
      /\ \A l \in Lane \ D : a[l] = active[l] /\ g[l] = generation[l]
      /\ \A l \in D : a[l] = {} /\ g[l] = generation[l] + 1
  BY Facts
<1> HIDE DEF a, g
<1>3. /\ \A f \in Entry : startedIn[f] <= g[LaneOf[f]]
      /\ \A f \in Entry : LaneOf[f] \in D => startedIn[f] # g[LaneOf[f]]
  <2> SUFFICES ASSUME NEW f \in Entry
               PROVE  /\ startedIn[f] <= g[LaneOf[f]]
                      /\ LaneOf[f] \in D => startedIn[f] # g[LaneOf[f]]
    OBVIOUS
  <2>1. /\ startedIn[f] \in Nat /\ generation[LaneOf[f]] \in Nat /\ LaneOf[f] \in Lane
        /\ startedIn[f] <= generation[LaneOf[f]]
    BY Facts
  <2>2. CASE LaneOf[f] \in D
    <3>1. g[LaneOf[f]] = generation[LaneOf[f]] + 1
      BY <1>2, <2>2
    <3> QED BY <2>1, <3>1
  <2>3. CASE LaneOf[f] \notin D
    BY <1>2, <2>1, <2>3
  <2> QED BY <2>2, <2>3
<1>4. SlotsAgree(a, g, phase, startedIn)
  <2>1. ASSUME NEW f \in Entry
        PROVE  (startedIn[f] = g[LaneOf[f]] /\ f \in a[LaneOf[f]])
                 <=> (phase[f] = "active" /\ startedIn[f] = g[LaneOf[f]])
    <3>1. CASE LaneOf[f] \in D
      BY <1>3, <3>1
    <3>2. CASE LaneOf[f] \notin D
      <4>1. a[LaneOf[f]] = active[LaneOf[f]] /\ g[LaneOf[f]] = generation[LaneOf[f]]
        BY <1>2, <3>2
      <4> QED BY <4>1, Facts DEF SlotsAgree
    <3> QED BY <3>1, <3>2
  <2>2. ASSUME NEW l \in Lane, NEW f \in a[l]
        PROVE  LaneOf[f] = l /\ startedIn[f] = g[l]
    BY <1>2, Facts DEF SlotsAgree
  <2> QED BY <2>1, <2>2 DEF SlotsAgree
<1>5. Ready(D, queue, a, maxConcurrent, g, phase, startedIn, sequence)
  <2>1. \A k \in Lane \ D : Full(queue, a, maxConcurrent, k)
    BY <1>2, Facts DEF Full
  <2> QED BY <1>2, <1>3, <1>4, <2>1, Facts DEF Ready
<1>6. /\ Drained(D, queue, a, maxConcurrent, g, phase, startedIn,
                 queue', active', phase', startedIn')
      /\ maxConcurrent' = maxConcurrent /\ generation' = g
  BY <1>1 DEF Drain, Drained
<1>7. /\ Settled(queue', active', maxConcurrent', generation', phase', startedIn', sequence')
      /\ Advanced(a, phase, active', phase')
      /\ WithinLimit(a, maxConcurrent', active') /\ InOrder(phase, sequence', phase')
  BY <1>1, <1>5, <1>6, DrainPreserves
<1>8. /\ waiter' \in [Waiter -> [captured : SUBSET Entry, outcome : Outcome]]
      /\ WaiterHasWork' /\ DrainedIsFinal' /\ CapturedBegun'
  <2>1. \A l \in Lane : a[l] \subseteq active[l]
    BY <1>2
  <2>2. \A f \in Entry : phase[f] \in Begun =>
          /\ phase'[f] \in Begun
          /\ f \in Busy(active') => f \in Busy(active)
    BY <1>7, <2>1 DEF Advanced, Busy, Begun
  <2> QED BY <1>1, <2>2, WaitersPreserved DEF Notify
<1>9. EntryNumbers'
  <2>1. \A f \in Entry : phase'[f] = "queued" => phase[f] = "queued"
    BY <1>7 DEF Advanced
  <2> QED BY <1>1, <2>1 DEF IInv, EntryNumbers
<1>10. /\ maxConcurrent' \in [Lane -> Nat] /\ generation' \in [Lane -> Nat]
       /\ nextSequence' \in Nat \ {0} /\ sequence' \in [Entry -> Nat]
  BY <1>1, <1>2, <1>6 DEF IInv, TypeOK
<1>11. StartsKept
  <2>1. \A l \in Lane : a[l] \subseteq active[l]
    BY <1>2
  <2>2. \A f \in Entry :
          phase[f] \in {"new", "queued"} /\ phase'[f] = "active" => phase[f] = "queued"
    BY <1>7 DEF Advanced
  <2> QED BY <1>7, <2>1, <2>2, DrainStarts
<1> QED BY <1>7, <1>8, <1>9, <1>10, <1>11, SettledStep

(* Steps that touch waiters only.                                          *)
LEMMA WaiterStep ==
  ASSUME IInv, NEW w \in Waiter,
         \/ \E zero \in BOOLEAN : WaitForActiveTasks(w, zero)
         \/ WaiterTimesOut(w)
  PROVE  IInv' /\ StartsKept
<1>1. /\ queue' = queue /\ active' = active /\ maxConcurrent' = maxConcurrent
      /\ generation' = generation /\ nextSequence' = nextSequence
      /\ sequence' = sequence /\ phase' = phase /\ startedIn' = startedIn
  BY DEF WaitForActiveTasks, WaiterTimesOut, laneVars, entryVars
<1>2. waiter \in [Waiter -> [captured : SUBSET Entry, outcome : Outcome]]
  BY DEF IInv, TypeOK
<1>3. /\ waiter' \in [Waiter -> [captured : SUBSET Entry, outcome : Outcome]]
      /\ \A v \in Waiter \ {w} : waiter'[v] = waiter[v]
      /\ waiter'[w].outcome = "pending" => waiter'[w].captured \cap Busy(active) # {}
      /\ waiter'[w].outcome = "drained" => waiter'[w].captured \cap Busy(active) = {}
      /\ \A f \in waiter'[w].captured : phase[f] \in Begun
  <2>1. CASE \E zero \in BOOLEAN : WaitForActiveTasks(w, zero)
    <3>1. PICK zero \in BOOLEAN : WaitForActiveTasks(w, zero)
      BY <2>1
    <3>2. Busy(active) \in SUBSET Entry /\ \A f \in Busy(active) : phase[f] \in Begun
      <4> SUFFICES ASSUME NEW l \in Lane, NEW f \in active[l]
                   PROVE  f \in Entry /\ phase[f] \in Begun
        BY DEF Busy
      <4>1. f \in Entry
        BY Facts
      <4>2. LaneOf[f] = l /\ startedIn[f] = generation[l]
        BY Facts DEF SlotsAgree
      <4>3. phase[f] = "active"
        BY <4>1, <4>2, Facts DEF SlotsAgree
      <4> QED BY <4>1, <4>3 DEF Begun
    <3> DEFINE o == IF Busy(active) = {} THEN "drained"
                    ELSE IF zero THEN "timedOut" ELSE "pending"
    <3>3. waiter' = [waiter EXCEPT ![w] = [captured |-> Busy(active), outcome |-> o]]
      BY <3>1 DEF WaitForActiveTasks
    <3>4. o \in Outcome
      BY DEF Outcome
    <3>5. waiter'[w].captured = Busy(active) /\ waiter'[w].outcome = o
      BY <1>2, <3>3
    <3>6. /\ o = "pending" => Busy(active) # {}
          /\ o = "drained" => Busy(active) = {}
      OBVIOUS
    <3> HIDE DEF o
    <3> QED BY <1>2, <3>2, <3>3, <3>4, <3>5, <3>6
  <2>2. CASE WaiterTimesOut(w)
    <3>1. waiter' = [waiter EXCEPT ![w].outcome = "timedOut"]
      BY <2>2 DEF WaiterTimesOut
    <3>2. \A f \in waiter[w].captured : phase[f] \in Begun
      BY DEF IInv, CapturedBegun
    <3>3. waiter'[w].captured = waiter[w].captured /\ waiter'[w].outcome = "timedOut"
      BY <1>2, <3>1
    <3> QED BY <1>2, <3>1, <3>2, <3>3 DEF Outcome
  <2> QED BY <2>1, <2>2
<1>4. WaiterHasWork' /\ DrainedIsFinal' /\ CapturedBegun'
  BY <1>1, <1>3 DEF IInv, WaiterHasWork, DrainedIsFinal, CapturedBegun
<1>5. Settled(queue', active', maxConcurrent', generation', phase', startedIn', sequence')
  BY <1>1, Facts DEF Settled
<1>6. EntryNumbers'
  BY <1>1 DEF IInv, EntryNumbers
<1>7. /\ maxConcurrent' \in [Lane -> Nat] /\ generation' \in [Lane -> Nat]
      /\ nextSequence' \in Nat \ {0} /\ sequence' \in [Entry -> Nat]
  BY <1>1 DEF IInv, TypeOK
<1>8. StartsKept
  BY <1>1, NoStart
<1> QED BY <1>3, <1>4, <1>5, <1>6, <1>7, <1>8, SettledStep

(* The queue starts within its invariant: empty, with one slot a lane.     *)
LEMMA InitInvariant == Init => IInv
<1> SUFFICES ASSUME Init PROVE IInv
  OBVIOUS
<1> USE CommandQueueAssumption DEF CommandQueueAssumption, Init
<1>1. TypeOK
  <2>1. <<>> \in Seq(Entry)
    OBVIOUS
  <2>2. [captured |-> {}, outcome |-> "none"] \in [captured : SUBSET Entry, outcome : Outcome]
    BY DEF Outcome
  <2> QED BY <2>1, <2>2 DEF TypeOK, Phase
<1>2. SlotAccounting /\ QueueAccounting /\ QueueOrder /\ NoIdleSlot
  <2>1. SlotAccounting
    BY DEF SlotAccounting, MarkerCurrent
  <2>2. \A l \in Lane : queue[l] = <<>> /\ 1 .. Len(queue[l]) = {}
    OBVIOUS
  <2> HIDE DEF Init
  <2>3. \A e \in Entry : phase[e] # "queued"
    BY DEF Init
  <2> QED BY <2>1, <2>2, <2>3 DEF QueueAccounting, QueueOrder, NoIdleSlot
<1>3. WaiterHasWork /\ DrainedIsFinal /\ EntryNumbers /\ GenerationsPast /\ CapturedBegun
  BY DEF WaiterHasWork, DrainedIsFinal, EntryNumbers, GenerationsPast, CapturedBegun
<1> QED BY <1>1, <1>2, <1>3 DEF IInv

(* A step that changes nothing keeps the invariant.                        *)
LEMMA StutterStep ==
  ASSUME IInv, UNCHANGED vars
  PROVE  IInv' /\ StartsKept
<1>1. IInv'
  BY DEF IInv, TypeOK, SlotAccounting, MarkerCurrent, QueueAccounting, QueueOrder,
         Precedes, NoIdleSlot, WaiterHasWork, DrainedIsFinal, EntryNumbers,
         GenerationsPast, CapturedBegun, Busy, vars, laneVars, entryVars
<1>2. StartsKept
  BY NoStart DEF vars, laneVars, entryVars
<1> QED BY <1>1, <1>2

(* The invariant IInv is inductive, and from it every step starts tasks    *)
(* within the limit and in order: one step per action of the queue.        *)
LEMMA NextInvariant == IInv /\ [Next]_vars => IInv' /\ StartsKept
<1> SUFFICES ASSUME IInv, [Next]_vars PROVE IInv' /\ StartsKept
  OBVIOUS
<1>1. ASSUME NEW e \in Entry, Enqueue(e) PROVE IInv' /\ StartsKept
  BY <1>1, EnqueueStep
<1>2. ASSUME NEW e \in Entry, Refuse(e) PROVE IInv' /\ StartsKept
  <2>1. "refused" \in Phase \ {"queued", "active"}
    BY DEF Phase
  <2> QED BY <1>2, <2>1, PhaseStep DEF Refuse, Begun
<1>3. ASSUME NEW e \in Entry, TaskResolves(e) \/ TaskRejects(e) \/ TaskTimesOut(e)
      PROVE  IInv' /\ StartsKept
  BY <1>3, CompleteStep DEF TaskResolves, TaskRejects, TaskTimesOut
<1>4. ASSUME NEW e \in Entry, Unwound(e) PROVE IInv' /\ StartsKept
  <2>1. "rejected" \in Phase \ {"queued", "active"} /\ "rejected" \in Begun
    BY DEF Phase, Begun
  <2> QED BY <1>4, <2>1, PhaseStep DEF Unwound
<1>5. ASSUME NEW l \in Lane, ClearLane(l) PROVE IInv' /\ StartsKept
  BY <1>5, ClearLaneStep
<1>6. ASSUME NEW l \in Lane, ResetLane(l) PROVE IInv' /\ StartsKept
  BY <1>6, ResetStep DEF ResetLane
<1>7. ASSUME NEW l \in Lane, NEW n \in Limit, SetConcurrency(l, n)
      PROVE  IInv' /\ StartsKept
  BY <1>7, SetConcurrencyStep
<1>8. CASE ResetAllLanes
  BY <1>8, ResetStep DEF ResetAllLanes
<1>9. ASSUME NEW w \in Waiter,
             (\E zero \in BOOLEAN : WaitForActiveTasks(w, zero)) \/ WaiterTimesOut(w)
      PROVE  IInv' /\ StartsKept
  BY <1>9, WaiterStep
<1>10. CASE UNCHANGED vars
  BY <1>10, StutterStep
<1> QED
  BY <1>1, <1>2, <1>3, <1>4, <1>5, <1>6, <1>7, <1>8, <1>9, <1>10 DEF Next

(* The command queue keeps its inductive invariant, for every set of lanes *)
(* and calls.                                                              *)
THEOREM Invariance == Spec => []IInv
<1>1. Init => IInv
  BY InitInvariant
<1>2. IInv /\ [Next]_vars => IInv'
  BY NextInvariant
<1> QED BY <1>1, <1>2, PTL DEF Spec

(* The limits, slots and numbers of the queue keep their types: a limit    *)
(* is never negative, whatever setCommandLaneConcurrency is given.         *)
THEOREM TypeCorrect == Spec => []TypeOK
<1>1. IInv => TypeOK
  BY DEF IInv
<1> QED BY <1>1, Invariance, PTL

(* completeTask, the timeouts and the resets never leak a slot.            *)
THEOREM SlotsAccounted == Spec => []SlotAccounting
<1>1. IInv => SlotAccounting
  BY DEF IInv
<1> QED BY <1>1, Invariance, PTL

(* No queued call is dropped or queued twice by enqueueLaneEntry, pump,    *)
(* clearCommandLane or the resets.                                         *)
THEOREM QueuesAccounted == Spec => []QueueAccounting
<1>1. IInv => QueueAccounting
  BY DEF IInv
<1> QED BY <1>1, Invariance, PTL

(* The insertion of enqueueLaneEntry keeps each lane's queue sorted.       *)
THEOREM QueuesOrdered == Spec => []QueueOrder
<1>1. IInv => QueueOrder
  BY DEF IInv
<1> QED BY <1>1, Invariance, PTL

(* No lane has both a free slot and queued work: no wake-up is lost.       *)
THEOREM NoLostWakeUp == Spec => []NoIdleSlot
<1>1. IInv => NoIdleSlot
  BY DEF IInv
<1> QED BY <1>1, Invariance, PTL

(* A pending waitForActiveTasks has a task to wait for, and `drained' is   *)
(* reported only for tasks that hold no slot.                              *)
THEOREM WaitersServed == Spec => [](WaiterHasWork /\ DrainedIsFinal)
<1>1. IInv => WaiterHasWork /\ DrainedIsFinal
  BY DEF IInv
<1> QED BY <1>1, Invariance, PTL

(* A lane never starts a task beyond its limit, also just after            *)
(* setCommandLaneConcurrency lowered it or a reset forgot its slots.       *)
THEOREM LimitKept == Spec => StartsWithinLimit
<1>1. IInv /\ [Next]_vars =>
        [\A l \in Lane :
           ~(active'[l] \subseteq active[l])
             => Cardinality(active'[l]) <= maxConcurrent'[l]]_vars
  BY NextInvariant DEF StartsKept
<1> QED BY <1>1, Invariance, PTL DEF Spec, StartsWithinLimit

(* pump starts tasks in the order of their priority and enqueue number.    *)
THEOREM OrderKept == Spec => StartsInOrder
<1>1. IInv /\ [Next]_vars =>
        [\A e, f \in Entry :
           /\ phase[e] \in {"new", "queued"} /\ phase'[e] = "active"
           /\ phase'[f] = "queued"
           /\ LaneOf[e] = LaneOf[f]
           => Precedes(e, f)']_vars
  BY NextInvariant DEF StartsKept, Precedes, Due
<1> QED BY <1>1, Invariance, PTL DEF Spec, StartsInOrder
=============================================================================
