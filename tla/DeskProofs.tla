------------------------------- MODULE DeskProofs -------------------------------
(***************************************************************************)
(* The components that MCDesk puts side by side.  A theorem about App!Spec *)
(* is one about every behaviour of AppRun, and so about those of the run   *)
(* in which App is the component that moves.                                *)
(***************************************************************************)
EXTENDS MCDesk, FiniteSetTheorems, SequenceTheorems, WellFoundedInduction, TLAPS

-----------------------------------------------------------------------------
(* ConcurrencyLimiter, for any set of callers, any keys and any limit that   *)
(* _validate_limit accepts.                                                   *)
(* The least element that Min chooses exists in every set of positions.    *)
LEMMA LeastPosition ==
  ASSUME NEW I \in SUBSET Nat, I # {}
  PROVE  Min(I) \in I /\ \A i \in I : Min(I) <= i
<1>1. PICK x \in I : \A y \in I : <<y, x>> \notin OpToRel(<, Nat)
  BY NatLessThanWellFounded, WFMin
<1>2. \A y \in I : x <= y
  <2> SUFFICES ASSUME NEW y \in I, y < x
               PROVE  FALSE
    OBVIOUS
  <2>1. <<y, x>> \in Nat \X Nat
    OBVIOUS
  <2>2. <<y, x>> \in OpToRel(<, Nat)
    BY <2>1, Zenon DEF OpToRel
  <2> QED
    BY <1>1, <2>2
<1> QED
  BY <1>2 DEF Min

(* What deleting one position does to a sequence.                          *)
LEMMA RemoveAtIs ==
  ASSUME NEW S, NEW s \in Seq(S), NEW k \in 1..Len(s)
  PROVE  /\ RemoveAt(s, k) \in Seq(S)
         /\ Len(RemoveAt(s, k)) = Len(s) - 1
         /\ \A j \in 1..(Len(s) - 1) :
              RemoveAt(s, k)[j] = IF j < k THEN s[j] ELSE s[j + 1]
<1> DEFINE left == SubSeq(s, 1, k - 1)
           right == SubSeq(s, k + 1, Len(s))
<1>1. /\ left \in Seq(S) /\ Len(left) = k - 1
      /\ \A j \in 1..(k - 1) : left[j] = s[j]
  <2>1. \A j \in 1..(k - 1) : s[j] \in S
    BY ElementOfSeq
  <2> QED
    BY <2>1, SubSeqProperties, LenProperties
<1>2. /\ right \in Seq(S) /\ Len(right) = Len(s) - k
      /\ \A j \in 1..(Len(s) - k) : right[j] = s[k + j]
  <2>1. \A j \in (k + 1)..Len(s) : s[j] \in S
    BY ElementOfSeq
  <2> QED
    BY <2>1, SubSeqProperties, LenProperties
<1>3. RemoveAt(s, k) = left \o right
  BY DEF RemoveAt
<1> HIDE DEF left, right
<1>4. /\ left \o right \in Seq(S)
      /\ Len(left \o right) = Len(left) + Len(right)
      /\ \A i \in 1..(Len(left) + Len(right)) :
           (left \o right)[i] = IF i <= Len(left) THEN left[i] ELSE right[i - Len(left)]
  BY <1>1, <1>2, ConcatProperties
<1>5. Len(s) \in Nat
  BY LenProperties
<1> QED
  BY <1>1, <1>2, <1>3, <1>4, <1>5

(* The waiter that _pop_next_waiter picks: the head, or the first one of   *)
(* another task when the head is of the task granted last.                 *)
LEMMA NextIndexIs ==
  ASSUME NEW q \in QueueState, q.waiters # <<>>
  PROVE  /\ NextIndex(q) \in 1..Len(q.waiters)
         /\ NextIndex(q) # 1 =>
              /\ Key[q.waiters[1]] = q.lastKey
              /\ Key[q.waiters[NextIndex(q)]] # q.lastKey
<1> DEFINE I == {i \in 1..Len(q.waiters) : Key[q.waiters[i]] # q.lastKey}
<1>1. Len(q.waiters) \in Nat \ {0}
  BY EmptySeq DEF QueueState
<1>2. NextIndex(q) = IF q.lastKey # NoKey /\ I # {} /\ Min(I) # 0 THEN Min(I) ELSE 1
  BY <1>1 DEF NextIndex, SelectInSeq
<1>3. /\ I \in SUBSET Nat
      /\ \A i \in I : i \in 1..Len(q.waiters) /\ Key[q.waiters[i]] # q.lastKey
      /\ \A i \in 1..Len(q.waiters) : i \notin I => Key[q.waiters[i]] = q.lastKey
  BY <1>1
<1> HIDE DEF I
<1>4. CASE I = {}
  BY <1>1, <1>2, <1>4
<1>5. CASE I # {}
  <2>1. Min(I) \in I /\ \A i \in I : Min(I) <= i
    BY <1>3, <1>5, LeastPosition
  <2>2. NextIndex(q) = Min(I) \/ NextIndex(q) = 1
    BY <1>2
  <2>3. CASE NextIndex(q) = 1
    BY <1>1, <2>3
  <2>4. CASE NextIndex(q) = Min(I) /\ NextIndex(q) # 1
    <3>1. NextIndex(q) \in I
      BY <2>1, <2>4
    <3>2. NextIndex(q) \in 1..Len(q.waiters) /\ Key[q.waiters[NextIndex(q)]] # q.lastKey
      BY <1>3, <3>1
    <3>3. 1 \notin I
      <4> SUFFICES ASSUME 1 \in I
                   PROVE  FALSE
        OBVIOUS
      <4>1. NextIndex(q) <= 1
        BY <2>1, <2>4
      <4> QED
        BY <1>1, <2>4, <3>2, <4>1
    <3> QED
      BY <1>1, <1>3, <3>2, <3>3
  <2> QED
    BY <2>2, <2>3, <2>4
<1> QED
  BY <1>4, <1>5
-----------------------------------------------------------------------------
(* What holds of the queue between any two rounds of the wake loop.  The   *)
(* last conjunct is why BoundedBypass is inductive: whoever was passed     *)
(* over heads the queue, and the last permit went to another task, so the  *)
(* next round takes the head.                                              *)
QueueOK(q) ==
  /\ q \in QueueState
  /\ q.active = Cardinality(Holders(q.pc))
  /\ \A c \in Callers :
       q.pc[c] = "waiting" <=> \E i \in 1..Len(q.waiters) : q.waiters[i] = c
  /\ \A i, j \in 1..Len(q.waiters) : q.waiters[i] = q.waiters[j] => i = j
  /\ \A c \in Callers : q.passed[c] <= 1
  /\ \A c \in Callers :
       q.passed[c] # 0 => q.waiters # <<>> /\ q.waiters[1] = c /\ q.lastKey # Key[c]

(* Holders gain or lose exactly the caller whose place changes.            *)
LEMMA HoldersChange ==
  ASSUME NEW p \in [Callers -> Places], NEW c \in Callers
  PROVE  /\ IsFiniteSet(Holders(p)) /\ Cardinality(Holders(p)) \in Nat
         /\ \A place \in {"granted", "holding"} :
              Cardinality(Holders([p EXCEPT ![c] = place]))
                = IF p[c] \in {"granted", "holding"} THEN Cardinality(Holders(p))
                                                     ELSE Cardinality(Holders(p)) + 1
         /\ \A place \in {"idle", "waiting"} :
              Cardinality(Holders([p EXCEPT ![c] = place]))
                = IF p[c] \in {"granted", "holding"} THEN Cardinality(Holders(p)) - 1
                                                     ELSE Cardinality(Holders(p))
<1>1. IsFiniteSet(Holders(p)) /\ Cardinality(Holders(p)) \in Nat
  <2>1. Holders(p) \in SUBSET Callers
    BY DEF Holders
  <2> QED
    BY <2>1, CallersAssumption, FS_Subset, FS_CardinalityType
<1>2. p[c] \in {"granted", "holding"} <=> c \in Holders(p)
  BY DEF Holders
<1>3. ASSUME NEW place \in {"granted", "holding"}
      PROVE  Cardinality(Holders([p EXCEPT ![c] = place]))
               = IF p[c] \in {"granted", "holding"} THEN Cardinality(Holders(p))
                                                    ELSE Cardinality(Holders(p)) + 1
  <2>1. Holders([p EXCEPT ![c] = place]) = Holders(p) \cup {c}
    BY DEF Holders
  <2>2. Cardinality(Holders(p) \cup {c})
          = IF c \in Holders(p) THEN Cardinality(Holders(p)) ELSE Cardinality(Holders(p)) + 1
    BY <1>1, FS_AddElement
  <2> QED
    BY <1>2, <2>1, <2>2
<1>4. ASSUME NEW place \in {"idle", "waiting"}
      PROVE  Cardinality(Holders([p EXCEPT ![c] = place]))
               = IF p[c] \in {"granted", "holding"} THEN Cardinality(Holders(p)) - 1
                                                    ELSE Cardinality(Holders(p))
  <2>1. Holders([p EXCEPT ![c] = place]) = Holders(p) \ {c}
    BY DEF Holders
  <2>2. Cardinality(Holders(p) \ {c})
          = IF c \in Holders(p) THEN Cardinality(Holders(p)) - 1 ELSE Cardinality(Holders(p))
    BY <1>1, FS_RemoveElement
  <2> QED
    BY <1>2, <2>1, <2>2
<1> QED
  BY <1>1, <1>3, <1>4

(* Granting a permit to the chosen waiter keeps the queue in order.        *)
LEMMA GrantOK ==
  ASSUME NEW q, QueueOK(q), q.waiters # <<>>
  PROVE  QueueOK(Grant(q)) /\ Grant(q).active = q.active + 1
<1> DEFINE i == NextIndex(q)
           c == q.waiters[i]
           head == q.waiters[1]
           r == Grant(q)
           n == Len(q.waiters)
<1>1. /\ q \in QueueState /\ q.active \in Nat /\ q.waiters \in Seq(Callers)
      /\ q.pc \in [Callers -> Places] /\ q.passed \in [Callers -> Nat]
  BY DEF QueueOK, QueueState
<1>2. n \in Nat \ {0}
  BY <1>1, EmptySeq
<1>3. /\ i \in 1..n
      /\ i # 1 => Key[head] = q.lastKey /\ Key[c] # q.lastKey
  BY <1>1, NextIndexIs
<1>4. c \in Callers /\ head \in Callers
  BY <1>1, <1>2, <1>3, ElementOfSeq
<1>5. r = [active |-> q.active + 1, waiters |-> RemoveAt(q.waiters, i),
           lastKey |-> Key[c], pc |-> [q.pc EXCEPT ![c] = "granted"],
           passed |-> [q.passed EXCEPT ![head] = IF i = 1 THEN 0 ELSE @ + 1]]
  BY DEF Grant
<1> HIDE DEF i, head, r
<1>6. /\ r.active = q.active + 1
      /\ r.waiters = RemoveAt(q.waiters, i)
      /\ r.lastKey = Key[c]
      /\ r.pc = [q.pc EXCEPT ![c] = "granted"]
      /\ r.passed = [q.passed EXCEPT ![head] = IF i = 1 THEN 0 ELSE @ + 1]
  BY <1>5
<1>7. /\ r.waiters \in Seq(Callers)
      /\ Len(r.waiters) = n - 1
      /\ \A j \in 1..(n - 1) :
           r.waiters[j] = IF j < i THEN q.waiters[j] ELSE q.waiters[j + 1]
  <2>1. /\ RemoveAt(q.waiters, i) \in Seq(Callers)
        /\ Len(RemoveAt(q.waiters, i)) = n - 1
        /\ \A j \in 1..(n - 1) :
             RemoveAt(q.waiters, i)[j] = IF j < i THEN q.waiters[j] ELSE q.waiters[j + 1]
    BY <1>1, <1>3, RemoveAtIs
  <2> QED
    BY <1>6, <2>1
<1>8. /\ \A d \in Callers : q.pc[d] = "waiting" <=> \E j \in 1..n : q.waiters[j] = d
      /\ \A j, k \in 1..n : q.waiters[j] = q.waiters[k] => j = k
  BY DEF QueueOK
<1>9. q.pc[c] = "waiting"
  BY <1>3, <1>4, <1>8
<1>10. \A j, k \in 1..n : j # k => q.waiters[j] # q.waiters[k]
  BY <1>8
<1> HIDE DEF n, c
<1>11. r \in QueueState
  <2>1. r.pc \in [Callers -> Places] /\ r.passed \in [Callers -> Nat]
    BY <1>1, <1>4, <1>6 DEF Places
  <2>2. r.active \in Nat /\ r.lastKey \in {Key[d] : d \in Callers} \cup {NoKey}
    BY <1>1, <1>4, <1>6
  <2> QED
    BY <1>5, <1>6, <1>7, <2>1, <2>2 DEF QueueState
<1>12. r.active = Cardinality(Holders(r.pc))
  <2>1. Cardinality(Holders(r.pc)) = Cardinality(Holders(q.pc)) + 1
    BY <1>1, <1>4, <1>6, <1>9, HoldersChange
  <2> QED
    BY <1>6, <2>1 DEF QueueOK
<1>13. \A j, k \in 1..Len(r.waiters) : r.waiters[j] = r.waiters[k] => j = k
  <2> SUFFICES ASSUME NEW j \in 1..(n - 1), NEW k \in 1..(n - 1), j < k,
                      r.waiters[j] = r.waiters[k]
               PROVE  FALSE
    BY <1>2, <1>7
  <2>1. CASE k < i
    <3>1. r.waiters[j] = q.waiters[j] /\ r.waiters[k] = q.waiters[k]
      BY <1>2, <1>3, <1>7, <2>1
    <3>2. q.waiters[j] # q.waiters[k]
      BY <1>2, <1>10
    <3> QED
      BY <3>1, <3>2
  <2>2. CASE j < i /\ ~(k < i)
    <3>1. j \in 1..n /\ k + 1 \in 1..n /\ j # k + 1
      BY <1>2, <2>2
    <3>2. r.waiters[j] = q.waiters[j] /\ r.waiters[k] = q.waiters[k + 1]
      BY <1>2, <1>3, <1>7, <2>2
    <3>3. q.waiters[j] # q.waiters[k + 1]
      BY <1>10, <3>1
    <3> QED
      BY <3>2, <3>3
  <2>3. CASE ~(j < i)
    BY <1>2, <1>3, <1>7, <1>10, <2>3
  <2> QED
    BY <1>2, <1>3, <2>1, <2>2, <2>3
<1>14. ASSUME NEW d \in Callers
       PROVE  r.pc[d] = "waiting" <=> \E j \in 1..Len(r.waiters) : r.waiters[j] = d
  <2>1. CASE d = c
    <3>1. r.pc[d] # "waiting"
      BY <1>1, <1>4, <1>6, <2>1
    <3>2. ASSUME NEW j \in 1..(n - 1), r.waiters[j] = c
          PROVE  FALSE
      <4>1. CASE j < i
        BY <1>2, <1>3, <1>7, <1>10, <3>2, <4>1 DEF c
      <4>2. CASE ~(j < i)
        BY <1>2, <1>3, <1>7, <1>10, <3>2, <4>2 DEF c
      <4> QED
        BY <4>1, <4>2
    <3> QED
      BY <1>7, <2>1, <3>1, <3>2
  <2>2. CASE d # c
    <3>1. r.pc[d] = q.pc[d]
      BY <1>1, <1>4, <1>6, <2>2
    <3>2. ASSUME NEW k \in 1..n, q.waiters[k] = d
          PROVE  \E j \in 1..(n - 1) : r.waiters[j] = d
      <4>1. k # i
        BY <2>2, <3>2 DEF c
      <4>2. CASE k < i
        <5>1. k \in 1..(n - 1) /\ r.waiters[k] = q.waiters[k]
          BY <1>2, <1>3, <1>7, <4>2
        <5> QED
          BY <3>2, <5>1
      <4>3. CASE k > i
        <5>1. k - 1 \in 1..(n - 1) /\ r.waiters[k - 1] = q.waiters[k]
          BY <1>2, <1>3, <1>7, <4>3
        <5> QED
          BY <3>2, <5>1
      <4> QED
        BY <1>2, <1>3, <4>1, <4>2, <4>3
    <3>3. ASSUME NEW j \in 1..(n - 1), r.waiters[j] = d
          PROVE  \E k \in 1..n : q.waiters[k] = d
      <4>1. CASE j < i
        BY <1>2, <1>7, <3>3, <4>1
      <4>2. CASE ~(j < i)
        <5>1. j + 1 \in 1..n /\ r.waiters[j] = q.waiters[j + 1]
          BY <1>2, <1>3, <1>7, <4>2
        <5> QED
          BY <3>3, <5>1
      <4> QED
        BY <4>1, <4>2
    <3> QED
      BY <1>7, <1>8, <3>1, <3>2, <3>3
  <2> QED
    BY <2>1, <2>2
<1>15. ASSUME NEW d \in Callers
       PROVE  /\ r.passed[d] <= 1
              /\ r.passed[d] # 0 =>
                   r.waiters # <<>> /\ r.waiters[1] = d /\ r.lastKey # Key[d]
  <2>1. d # head => q.passed[d] = 0
    BY <1>1 DEF QueueOK, head
  <2>2. CASE i = 1
    <3>1. r.passed = [q.passed EXCEPT ![head] = 0]
      BY <1>6, <2>2
    <3> QED
      BY <1>1, <1>4, <2>1, <3>1
  <2>3. CASE i # 1
    <3>1. q.passed[head] = 0
      BY <1>1, <1>3, <1>4, <2>3 DEF QueueOK
    <3>2. r.passed = [q.passed EXCEPT ![head] = 1]
      BY <1>1, <1>4, <1>6, <2>3, <3>1
    <3>3. 1 \in 1..(n - 1) /\ 1 < i
      BY <1>2, <1>3, <2>3
    <3>4. Len(r.waiters) # 0 /\ r.waiters[1] = q.waiters[1]
      BY <1>2, <1>7, <3>3
    <3>5. r.waiters # <<>>
      BY <3>4
    <3>6. r.lastKey # Key[head]
      BY <1>3, <1>6, <2>3
    <3> QED
      BY <1>1, <1>4, <2>1, <3>2, <3>4, <3>5, <3>6 DEF head
  <2> QED
    BY <2>2, <2>3
<1> QED
  BY <1>6, <1>11, <1>12, <1>13, <1>14, <1>15 DEF QueueOK, r

(* A round of the wake loop keeps the queue in order.                      *)
LEMMA GrantOneOK ==
  ASSUME NEW lim \in 1..MaxLimit, NEW q, QueueOK(q)
  PROVE  QueueOK(GrantOne(lim, q))
<1>1. CASE q.active < lim /\ q.waiters # <<>>
  BY <1>1, GrantOK DEF GrantOne
<1>2. CASE ~(q.active < lim /\ q.waiters # <<>>)
  <2>1. GrantOne(lim, q) = q
    BY <1>2 DEF GrantOne
  <2> QED
    BY <2>1
<1> QED
  BY <1>1, <1>2

(* The wake loop keeps the queue in order ...                              *)
LEMMA WakeWaitersOK ==
  ASSUME NEW lim \in 1..MaxLimit, NEW q, QueueOK(q)
  PROVE  QueueOK(WakeWaiters(lim, q))
<1> DEFINE q1 == GrantOne(lim, q)
           q2 == GrantOne(lim, q1)
           q3 == GrantOne(lim, q2)
           q4 == GrantOne(lim, q3)
           q5 == GrantOne(lim, q4)
<1>1. QueueOK(q1)
  BY GrantOneOK
<1> HIDE DEF q1
<1>2. QueueOK(q2)
  BY <1>1, GrantOneOK
<1> HIDE DEF q2
<1>3. QueueOK(q3)
  BY <1>2, GrantOneOK
<1> HIDE DEF q3
<1>4. QueueOK(q4)
  BY <1>3, GrantOneOK
<1> HIDE DEF q4
<1>5. QueueOK(q5)
  BY <1>4, GrantOneOK
<1> QED
  BY <1>5 DEF WakeWaiters, q1, q2, q3, q4

(* One round either finds the loop's exit condition true or adds a holder. *)
LEMMA GrantOneExit ==
  ASSUME NEW lim \in 1..MaxLimit, NEW q, QueueOK(q)
  PROVE  LET r == GrantOne(lim, q)
         IN  /\ q.active \in Nat /\ r.active \in Nat
             /\ \/ r = q /\ (q.waiters = <<>> \/ q.active >= lim)
                \/ q.waiters # <<>> /\ q.active < lim /\ r.active = q.active + 1
<1>1. lim \in Nat /\ q.active \in Nat
  BY MaxLimitAssumption DEF QueueOK, QueueState
<1>2. CASE q.active < lim /\ q.waiters # <<>>
  BY <1>1, <1>2, GrantOK DEF GrantOne
<1>3. CASE ~(q.active < lim /\ q.waiters # <<>>)
  <2>1. GrantOne(lim, q) = q
    BY <1>3 DEF GrantOne
  <2> QED
    BY <1>1, <1>3, <2>1
<1> QED
  BY <1>2, <1>3

(* ... and after its five rounds no permit is left for a waiter.           *)
LEMMA WakeWaitersExit ==
  ASSUME NEW lim \in 1..MaxLimit, NEW q, QueueOK(q)
  PROVE  LET r == WakeWaiters(lim, q)
         IN  /\ r.waiters = <<>> \/ r.active >= lim
             /\ r.active > q.active => r.active <= lim
<1> DEFINE q1 == GrantOne(lim, q)
           q2 == GrantOne(lim, q1)
           q3 == GrantOne(lim, q2)
           q4 == GrantOne(lim, q3)
           q5 == GrantOne(lim, q4)
           Done(s) == s.waiters = <<>> \/ s.active >= lim
           Step(s, t) == \/ t = s /\ Done(s)
                         \/ s.waiters # <<>> /\ s.active < lim /\ t.active = s.active + 1
           Bound(k, s) == /\ s.active <= lim \/ s.active = q.active
                          /\ Done(s) \/ s.active >= k
<1>0. lim \in 1..5
  BY MaxLimitAssumption
<1>1. QueueOK(q1) /\ q.active \in Nat /\ q1.active \in Nat /\ Step(q, q1)
  BY GrantOneOK, GrantOneExit
<1> HIDE DEF q1
<1>2. QueueOK(q2) /\ q2.active \in Nat /\ Step(q1, q2)
  BY <1>1, GrantOneOK, GrantOneExit
<1> HIDE DEF q2
<1>3. QueueOK(q3) /\ q3.active \in Nat /\ Step(q2, q3)
  BY <1>2, GrantOneOK, GrantOneExit
<1> HIDE DEF q3
<1>4. QueueOK(q4) /\ q4.active \in Nat /\ Step(q3, q4)
  BY <1>3, GrantOneOK, GrantOneExit
<1> HIDE DEF q4
<1>5. q5.active \in Nat /\ Step(q4, q5)
  BY <1>4, GrantOneOK, GrantOneExit
<1> HIDE DEF q5
<1>6. ASSUME NEW k \in 0..4, NEW s, NEW t, s.active \in Nat, t.active \in Nat,
             Bound(k, s), Step(s, t)
      PROVE  Bound(k + 1, t)
  <2>1. CASE t = s /\ Done(s)
    BY <1>6, <2>1
  <2>2. CASE s.waiters # <<>> /\ s.active < lim /\ t.active = s.active + 1
    <3>1. s.active >= k
      BY <1>0, <1>6, <2>2
    <3> QED
      BY <1>0, <1>6, <2>2, <3>1
  <2> QED
    BY <1>6, <2>1, <2>2
<1> HIDE DEF Step
<1>7. Bound(0, q)
  BY <1>1
<1> HIDE DEF Bound
<1>8. Bound(0 + 1, q1)
  BY <1>1, <1>6, <1>7
<1>9. Bound(1 + 1, q2)
  BY <1>1, <1>2, <1>6, <1>8
<1>10. Bound(2 + 1, q3)
  BY <1>2, <1>3, <1>6, <1>9
<1>11. Bound(3 + 1, q4)
  BY <1>3, <1>4, <1>6, <1>10
<1>12. Bound(4 + 1, q5)
  BY <1>4, <1>5, <1>6, <1>11
<1>13. Done(q5) /\ (q5.active > q.active => q5.active <= lim)
  BY <1>0, <1>1, <1>5, <1>12 DEF Bound
<1> QED
  BY <1>13 DEF WakeWaiters, q1, q2, q3, q4, q5
-----------------------------------------------------------------------------
(* The inductive invariant.                                                *)
IInv == /\ limit \in 1..MaxLimit
        /\ cancelled \in SUBSET Callers
        /\ QueueOK(Queue)
        /\ NoIdlePermit

LEMMA QueueFields ==
  ASSUME IInv
  PROVE  /\ active \in Nat /\ waiters \in Seq(Callers) /\ pc \in [Callers -> Places]
         /\ lastKey \in {Key[c] : c \in Callers} \cup {NoKey}
         /\ passed \in [Callers -> Nat]
         /\ limit \in Nat
BY MaxLimitAssumption DEF IInv, QueueOK, QueueState, Queue, QueueOf

LEMMA InitIInv == Init => IInv
<1> SUFFICES ASSUME Init PROVE IInv
  OBVIOUS
<1>1. Holders(pc) = {} /\ Cardinality(Holders(pc)) = 0
  <2>1. Holders(pc) = {}
    BY DEF Init, Holders
  <2> QED
    BY <2>1, FS_EmptySet
<1>2. waiters \in Seq(Callers) /\ Len(waiters) = 0
  BY EmptySeq DEF Init
<1>3. Queue \in QueueState
  BY <1>2 DEF Init, Queue, QueueOf, QueueState, Places
<1> QED
  BY <1>1, <1>2, <1>3 DEF Init, IInv, QueueOK, Queue, QueueOf, NoIdlePermit

(* Every operation that runs the wake loop: it suffices that the queue it  *)
(* hands to the loop is in order.                                          *)
LEMMA BecomeWoken ==
  ASSUME NEW q, QueueOK(q), limit' \in 1..MaxLimit, cancelled' \in SUBSET Callers,
         Become(WakeWaiters(limit', q))
  PROVE  /\ IInv'
         /\ active' > q.active => active' <= limit'
<1> DEFINE r == WakeWaiters(limit', q)
<1>1. QueueOK(r)
  BY WakeWaitersOK
<1>2. /\ r.waiters = <<>> \/ r.active >= limit'
      /\ r.active > q.active => r.active <= limit'
  BY WakeWaitersExit
<1> HIDE DEF r
<1>3. r = [active |-> r.active, waiters |-> r.waiters, lastKey |-> r.lastKey,
           pc |-> r.pc, passed |-> r.passed]
  BY <1>1 DEF QueueOK, QueueState
<1>4. Queue' = r
  <2>1. Become(r)
    BY DEF r
  <2> QED
    BY <1>3, <2>1 DEF Become, Queue, QueueOf
<1>5. active' = r.active /\ waiters' = r.waiters
  BY DEF Become, r
<1> QED
  BY <1>1, <1>2, <1>4, <1>5 DEF IInv, NoIdlePermit

(* The facts about the current queue that the action lemmas start from.    *)
LEMMA QueueFacts ==
  ASSUME IInv
  PROVE  /\ active = Cardinality(Holders(pc))
         /\ \A c \in Callers :
              pc[c] = "waiting" <=> \E i \in 1..Len(waiters) : waiters[i] = c
         /\ \A i, j \in 1..Len(waiters) : waiters[i] = waiters[j] => i = j
         /\ \A c \in Callers : passed[c] <= 1
         /\ \A c \in Callers :
              passed[c] # 0 => waiters # <<>> /\ waiters[1] = c /\ lastKey # Key[c]
BY DEF IInv, QueueOK, Queue, QueueOf

LEMMA AcquireNowIInv ==
  ASSUME IInv, NEW c \in Callers, AcquireNow(c)
  PROVE  IInv' /\ (active' > active => active' <= limit')
<1>1. /\ active' = active + 1 /\ waiters' = <<>> /\ lastKey' = Key[c]
      /\ pc' = [pc EXCEPT ![c] = "holding"] /\ passed' = passed
      /\ limit' = limit /\ cancelled' = cancelled
      /\ pc[c] = "idle" /\ active < limit /\ waiters = <<>>
  BY DEF AcquireNow, Become, QueueOf
<1>2. active' = Cardinality(Holders(pc'))
  <2>1. Cardinality(Holders([pc EXCEPT ![c] = "holding"])) = Cardinality(Holders(pc)) + 1
    BY <1>1, HoldersChange, QueueFields
  <2> QED
    BY <1>1, <2>1, QueueFacts
<1>3. Len(waiters') = 0 /\ Len(waiters) = 0
  BY <1>1, EmptySeq
<1>4. Queue' \in QueueState
  BY <1>1, QueueFields DEF Queue, QueueOf, QueueState, Places
<1>5. \A d \in Callers : pc'[d] # "waiting" /\ passed'[d] = 0
  BY <1>1, <1>3, QueueFields, QueueFacts
<1> QED
  BY <1>1, <1>2, <1>3, <1>4, <1>5, QueueFields DEF IInv, QueueOK, Queue, QueueOf, NoIdlePermit

LEMMA AcquireWaitIInv ==
  ASSUME IInv, NEW c \in Callers, AcquireWait(c)
  PROVE  IInv' /\ (active' > active => active' <= limit')
<1> DEFINE q == QueueOf(active, Append(waiters, c), lastKey,
                        [pc EXCEPT ![c] = "waiting"], passed)
           n == Len(waiters)
<1>1. /\ q.active = active /\ q.waiters = Append(waiters, c) /\ q.lastKey = lastKey
      /\ q.pc = [pc EXCEPT ![c] = "waiting"] /\ q.passed = passed
      /\ q = [active |-> q.active, waiters |-> q.waiters, lastKey |-> q.lastKey,
              pc |-> q.pc, passed |-> q.passed]
  BY DEF QueueOf
<1>2. /\ pc[c] = "idle" /\ limit' = limit /\ cancelled' = cancelled
      /\ Become(WakeWaiters(limit', q))
  BY DEF AcquireWait
<1> HIDE DEF q
<1>3. /\ q.waiters \in Seq(Callers) /\ Len(q.waiters) = n + 1 /\ n \in Nat
      /\ q.waiters[n + 1] = c
      /\ \A i \in 1..n : q.waiters[i] = waiters[i]
  BY <1>1, QueueFields, LenProperties
<1> HIDE DEF n
<1>4. q \in QueueState
  BY <1>1, <1>3, QueueFields DEF QueueState, Places
<1>5. q.active = Cardinality(Holders(q.pc))
  <2>1. Cardinality(Holders([pc EXCEPT ![c] = "waiting"])) = Cardinality(Holders(pc))
    BY <1>2, HoldersChange, QueueFields
  <2> QED
    BY <1>1, <2>1, QueueFacts
<1>6. \A i \in 1..n : waiters[i] # c
  BY <1>2, QueueFacts DEF n
<1>7. \A d \in Callers :
        q.pc[d] = "waiting" <=> \E i \in 1..Len(q.waiters) : q.waiters[i] = d
  <2> SUFFICES ASSUME NEW d \in Callers
               PROVE  q.pc[d] = "waiting"
                        <=> \E i \in 1..(n + 1) : q.waiters[i] = d
    BY <1>3
  <2>1. CASE d = c
    BY <1>1, <1>3, <2>1, QueueFields
  <2>2. CASE d # c
    <3>1. q.pc[d] = "waiting" <=> \E i \in 1..n : waiters[i] = d
      BY <1>1, <2>2, QueueFields, QueueFacts DEF n
    <3>2. (\E i \in 1..n : waiters[i] = d) => \E i \in 1..(n + 1) : q.waiters[i] = d
      BY <1>3
    <3>3. ASSUME NEW i \in 1..(n + 1), q.waiters[i] = d
          PROVE  i \in 1..n /\ waiters[i] = d
      BY <1>3, <2>2, <3>3
    <3> QED
      BY <3>1, <3>2, <3>3
  <2> QED
    BY <2>1, <2>2
<1>8. \A i, j \in 1..Len(q.waiters) : q.waiters[i] = q.waiters[j] => i = j
  <2> SUFFICES \A i, j \in 1..(n + 1) : i < j => q.waiters[i] # q.waiters[j]
    <3> SUFFICES ASSUME NEW i \in 1..(n + 1), NEW j \in 1..(n + 1),
                        q.waiters[i] = q.waiters[j], i # j
                 PROVE  FALSE
      BY <1>3
    <3>1. i < j \/ j < i
      BY <1>3
    <3> QED
      BY <3>1
  <2> SUFFICES ASSUME NEW i \in 1..(n + 1), NEW j \in 1..(n + 1), i < j,
                      q.waiters[i] = q.waiters[j]
               PROVE  FALSE
    OBVIOUS
  <2>1. i \in 1..n
    BY <1>3
  <2>2. CASE j = n + 1
    BY <1>3, <1>6, <2>1, <2>2
  <2>3. CASE j # n + 1
    <3>1. j \in 1..n /\ waiters[i] = waiters[j]
      BY <1>3, <2>1, <2>3
    <3> QED
      BY <2>1, <3>1, QueueFacts DEF n
  <2> QED
    BY <2>2, <2>3
<1>9. ASSUME NEW d \in Callers
      PROVE  /\ q.passed[d] <= 1
             /\ q.passed[d] # 0 => /\ q.waiters # <<>>
                                   /\ q.waiters[1] = d
                                   /\ q.lastKey # Key[d]
  <2>1. q.waiters # <<>>
    BY <1>3
  <2>2. passed[d] # 0 => 1 \in 1..n /\ waiters[1] = d /\ lastKey # Key[d]
    BY QueueFields, QueueFacts, EmptySeq DEF n
  <2> QED
    BY <1>1, <1>3, <2>1, <2>2, QueueFacts
<1>10. QueueOK(q)
  BY <1>4, <1>5, <1>7, <1>8, <1>9 DEF QueueOK
<1> QED
  BY <1>1, <1>2, <1>10, BecomeWoken DEF IInv

LEMMA ResumeIInv ==
  ASSUME IInv, NEW c \in Callers, Resume(c)
  PROVE  IInv' /\ active' = active
<1>1. /\ active' = active /\ waiters' = waiters /\ lastKey' = lastKey
      /\ pc' = [pc EXCEPT ![c] = "holding"] /\ passed' = passed
      /\ limit' = limit /\ cancelled' = cancelled /\ pc[c] = "granted"
  BY DEF Resume, Become, QueueOf
<1>2. active' = Cardinality(Holders(pc'))
  BY <1>1, HoldersChange, QueueFields, QueueFacts
<1>3. Queue' \in QueueState
  BY <1>1, QueueFields DEF Queue, QueueOf, QueueState, Places
<1>4. \A d \in Callers :
        pc'[d] = "waiting" <=> \E i \in 1..Len(waiters') : waiters'[i] = d
  BY <1>1, QueueFields, QueueFacts
<1>5. QueueOK(Queue)' /\ NoIdlePermit'
  BY <1>1, <1>2, <1>3, <1>4, QueueFacts DEF IInv, QueueOK, Queue, QueueOf, NoIdlePermit
<1> QED
  BY <1>1, <1>5 DEF IInv

LEMMA RequestCancelIInv ==
  ASSUME IInv, NEW c \in Callers, RequestCancel(c)
  PROVE  IInv' /\ active' = active
BY DEF RequestCancel, IInv, QueueOK, Queue, QueueOf, NoIdlePermit

(* Deleting a caller's entry from the deque.                               *)
LEMMA RemoveFirstIs ==
  ASSUME NEW s \in Seq(Callers), NEW k \in 1..Len(s),
         \A i, j \in 1..Len(s) : s[i] = s[j] => i = j
  PROVE  RemoveFirst(s, s[k]) = RemoveAt(s, k)
<1> DEFINE I == {i \in 1..Len(s) : s[i] = s[k]}
<1>1. I = {k}
  OBVIOUS
<1>2. Min({k}) = k
  <2>1. Len(s) \in Nat
    BY LenProperties
  <2>2. {k} \in SUBSET Nat /\ {k} # {}
    BY <2>1
  <2> QED
    BY <2>2, LeastPosition
<1>3. SelectInSeq(s, LAMBDA v : v = s[k]) = k
  BY <1>1, <1>2 DEF SelectInSeq
<1> QED
  BY <1>3 DEF RemoveFirst

LEMMA AbandonWaitIInv ==
  ASSUME IInv, NEW c \in Callers, AbandonWait(c)
  PROVE  IInv' /\ (active' > active => active' <= limit')
<1> DEFINE q == QueueOf(active, RemoveFirst(waiters, c), lastKey,
                        [pc EXCEPT ![c] = "idle"], [passed EXCEPT ![c] = 0])
           n == Len(waiters)
<1>1. /\ q.active = active /\ q.waiters = RemoveFirst(waiters, c) /\ q.lastKey = lastKey
      /\ q.pc = [pc EXCEPT ![c] = "idle"] /\ q.passed = [passed EXCEPT ![c] = 0]
      /\ q = [active |-> q.active, waiters |-> q.waiters, lastKey |-> q.lastKey,
              pc |-> q.pc, passed |-> q.passed]
  BY DEF QueueOf
<1>2. /\ pc[c] = "waiting" /\ limit' = limit /\ cancelled' = cancelled \ {c}
      /\ Become(WakeWaiters(limit', q))
  BY DEF AbandonWait
<1> HIDE DEF q
<1>3. PICK k \in 1..n : waiters[k] = c
  BY <1>2, QueueFacts
<1>4. /\ n \in Nat /\ q.waiters \in Seq(Callers) /\ Len(q.waiters) = n - 1
      /\ \A j \in 1..(n - 1) :
           q.waiters[j] = IF j < k THEN waiters[j] ELSE waiters[j + 1]
  <2>1. RemoveFirst(waiters, c) = RemoveAt(waiters, k)
    BY <1>3, QueueFields, QueueFacts, RemoveFirstIs
  <2>2. n \in Nat
    BY QueueFields, LenProperties
  <2> QED
    <3>1. waiters \in Seq(Callers)
      BY QueueFields
    <3>2. /\ RemoveAt(waiters, k) \in Seq(Callers) /\ Len(RemoveAt(waiters, k)) = n - 1
          /\ \A j \in 1..(n - 1) :
               RemoveAt(waiters, k)[j] = IF j < k THEN waiters[j] ELSE waiters[j + 1]
      BY <1>3, <3>1, RemoveAtIs
    <3> QED
      BY <1>1, <2>1, <2>2, <3>2
<1>5. \A i, j \in 1..n : i # j => waiters[i] # waiters[j]
  BY QueueFacts
<1> HIDE DEF n
<1>6. q \in QueueState
  <2>1. q.pc \in [Callers -> Places] /\ q.passed \in [Callers -> Nat]
    BY <1>1, QueueFields DEF Places
  <2> QED
    BY <1>1, <1>4, <2>1, QueueFields DEF QueueState
<1>7. q.active = Cardinality(Holders(q.pc))
  <2>1. Cardinality(Holders([pc EXCEPT ![c] = "idle"])) = Cardinality(Holders(pc))
    BY <1>2, HoldersChange, QueueFields
  <2> QED
    BY <1>1, <2>1, QueueFacts
<1>8. ASSUME NEW j \in 1..(n - 1)
      PROVE  \E i \in 1..n : /\ q.waiters[j] = waiters[i] /\ i # k
                             /\ i = IF j < k THEN j ELSE j + 1
  BY <1>3, <1>4
<1>9. \A i, j \in 1..Len(q.waiters) : q.waiters[i] = q.waiters[j] => i = j
  <2> SUFFICES ASSUME NEW i \in 1..(n - 1), NEW j \in 1..(n - 1),
                      q.waiters[i] = q.waiters[j]
               PROVE  i = j
    BY <1>4
  <2>1. PICK a \in 1..n : q.waiters[i] = waiters[a] /\ a = IF i < k THEN i ELSE i + 1
    BY <1>8
  <2>2. PICK b \in 1..n : q.waiters[j] = waiters[b] /\ b = IF j < k THEN j ELSE j + 1
    BY <1>8
  <2>3. a = b
    BY <1>5, <2>1, <2>2
  <2> QED
    BY <1>3, <1>4, <2>1, <2>2, <2>3
<1>10. ASSUME NEW d \in Callers
       PROVE  q.pc[d] = "waiting" <=> \E j \in 1..Len(q.waiters) : q.waiters[j] = d
  <2>1. ASSUME NEW j \in 1..(n - 1), q.waiters[j] = d
        PROVE  d # c /\ \E i \in 1..n : waiters[i] = d
    BY <1>3, <1>5, <1>8, <2>1
  <2>2. ASSUME NEW i \in 1..n, waiters[i] = d, d # c
        PROVE  \E j \in 1..(n - 1) : q.waiters[j] = d
    <3>1. CASE i < k
      <4>1. i \in 1..(n - 1) /\ q.waiters[i] = waiters[i]
        BY <1>3, <1>4, <3>1
      <4> QED
        BY <2>2, <4>1
    <3>2. CASE i > k
      <4>1. i - 1 \in 1..(n - 1) /\ q.waiters[i - 1] = waiters[i]
        BY <1>3, <1>4, <3>2
      <4> QED
        BY <2>2, <4>1
    <3> QED
      BY <1>3, <2>2, <3>1, <3>2
  <2>3. q.pc[d] = "waiting" <=> d # c /\ \E i \in 1..n : waiters[i] = d
    BY <1>1, QueueFields, QueueFacts DEF n
  <2> QED
    BY <1>4, <2>1, <2>2, <2>3
<1>11. ASSUME NEW d \in Callers
       PROVE  /\ q.passed[d] <= 1
              /\ q.passed[d] # 0 => /\ q.waiters # <<>>
                                    /\ q.waiters[1] = d
                                    /\ q.lastKey # Key[d]
  <2>1. CASE q.passed[d] = 0
    BY <2>1
  <2>2. CASE q.passed[d] # 0
    <3>1. d # c /\ q.passed[d] = passed[d]
      BY <1>1, <2>2, QueueFields
    <3>2. passed[d] <= 1 /\ waiters # <<>> /\ waiters[1] = d /\ lastKey # Key[d]
      BY <2>2, <3>1, QueueFacts
    <3>3. 1 < k
      BY <1>3, <1>4, <3>1, <3>2
    <3>4. Len(q.waiters) # 0 /\ q.waiters[1] = d
      BY <1>3, <1>4, <3>2, <3>3
    <3>5. q.waiters # <<>>
      BY <3>4
    <3> QED
      BY <1>1, <3>1, <3>2, <3>4, <3>5
  <2> QED
    BY <2>1, <2>2
<1>12. QueueOK(q)
  BY <1>6, <1>7, <1>9, <1>10, <1>11 DEF QueueOK
<1>13. cancelled' \in SUBSET Callers /\ limit' \in 1..MaxLimit
  BY <1>2 DEF IInv
<1> QED
  BY <1>1, <1>2, <1>12, <1>13, BecomeWoken

(* Giving a permit back, by release() or by a cancelled acquire().         *)
LEMMA GiveBackIInv ==
  ASSUME IInv, NEW c \in Callers, ReturnPermit(c) \/ Release(c)
  PROVE  IInv' /\ (active' > active => active' <= limit')
<1> DEFINE q == QueueOf(active - 1, waiters, lastKey, [pc EXCEPT ![c] = "idle"], passed)
<1>1. /\ q.active = active - 1 /\ q.waiters = waiters /\ q.lastKey = lastKey
      /\ q.pc = [pc EXCEPT ![c] = "idle"] /\ q.passed = passed
      /\ q = [active |-> q.active, waiters |-> q.waiters, lastKey |-> q.lastKey,
              pc |-> q.pc, passed |-> q.passed]
  BY DEF QueueOf
<1>2. /\ pc[c] \in {"granted", "holding"} /\ limit' = limit
      /\ cancelled' \in SUBSET Callers
      /\ Become(WakeWaiters(limit', q))
  BY DEF ReturnPermit, Release, IInv
<1> HIDE DEF q
<1>3. /\ Cardinality(Holders(q.pc)) = Cardinality(Holders(pc)) - 1
      /\ Cardinality(Holders(q.pc)) \in Nat
  <2>1. Cardinality(Holders([pc EXCEPT ![c] = "idle"])) = Cardinality(Holders(pc)) - 1
    BY <1>2, HoldersChange, QueueFields
  <2>2. q.pc \in [Callers -> Places]
    BY <1>1, QueueFields DEF Places
  <2>3. Cardinality(Holders(q.pc)) \in Nat
    BY <2>2, HoldersChange
  <2> QED
    BY <1>1, <2>1, <2>3
<1>4. q.active = Cardinality(Holders(q.pc)) /\ q.active \in Nat
  BY <1>1, <1>3, QueueFacts
<1>5. q \in QueueState
  BY <1>1, <1>4, QueueFields DEF QueueState, Places
<1>6. \A d \in Callers : q.pc[d] = "waiting" <=> pc[d] = "waiting"
  BY <1>1, <1>2, QueueFields
<1>7. QueueOK(q)
  BY <1>1, <1>4, <1>5, <1>6, QueueFacts DEF QueueOK
<1>8. active' > q.active => active' <= limit'
  BY <1>2, <1>7, BecomeWoken DEF IInv
<1>9. IInv'
  BY <1>2, <1>7, BecomeWoken DEF IInv
<1>10. active' \in Nat
  BY <1>9 DEF IInv, QueueOK, QueueState, Queue, QueueOf
<1> QED
  BY <1>1, <1>8, <1>9, <1>10, QueueFields

LEMMA SetLimitIInv ==
  ASSUME IInv, NEW value \in 1..MaxLimit, SetLimit(value)
  PROVE  IInv' /\ (active' > active => active' <= limit')
<1>1. /\ limit' = value /\ cancelled' = cancelled
      /\ QueueOK(Queue) /\ Queue.active = active
      /\ Become(WakeWaiters(limit', Queue))
  BY DEF SetLimit, IInv, Queue, QueueOf
<1> QED
  BY <1>1, BecomeWoken DEF IInv

(* Every step keeps the invariant and grants no permit past the limit.     *)
LEMMA NextIInv ==
  ASSUME IInv, [Next]_vars
  PROVE  IInv' /\ (active' > active => active' <= limit')
<1>1. CASE UNCHANGED vars
  <2>1. IInv'
    BY <1>1 DEF IInv, QueueOK, Queue, QueueOf, NoIdlePermit, vars
  <2> QED
    BY <1>1, <2>1, QueueFields DEF vars
<1>2. ASSUME NEW c \in Callers, AcquireNow(c)
      PROVE  IInv' /\ (active' > active => active' <= limit')
  BY <1>2, AcquireNowIInv
<1>3. ASSUME NEW c \in Callers, AcquireWait(c)
      PROVE  IInv' /\ (active' > active => active' <= limit')
  BY <1>3, AcquireWaitIInv
<1>4. ASSUME NEW c \in Callers, Resume(c)
      PROVE  IInv' /\ (active' > active => active' <= limit')
  BY <1>4, ResumeIInv, QueueFields
<1>5. ASSUME NEW c \in Callers, RequestCancel(c)
      PROVE  IInv' /\ (active' > active => active' <= limit')
  BY <1>5, RequestCancelIInv, QueueFields
<1>6. ASSUME NEW c \in Callers, AbandonWait(c)
      PROVE  IInv' /\ (active' > active => active' <= limit')
  BY <1>6, AbandonWaitIInv
<1>7. ASSUME NEW c \in Callers, ReturnPermit(c) \/ Release(c)
      PROVE  IInv' /\ (active' > active => active' <= limit')
  BY <1>7, GiveBackIInv
<1>8. ASSUME NEW value \in 1..MaxLimit, SetLimit(value)
      PROVE  IInv' /\ (active' > active => active' <= limit')
  BY <1>8, SetLimitIInv
<1> QED
  BY <1>1, <1>2, <1>3, <1>4, <1>5, <1>6, <1>7, <1>8 DEF Next
-----------------------------------------------------------------------------
LEMMA SpecIInv == Spec => []IInv
<1>1. IInv /\ [Next]_vars => IInv'
  BY NextIInv
<1> QED
  BY <1>1, InitIInv, PTL DEF Spec

(* Every variable keeps its type.                                          *)
THEOREM TypeCorrect == Spec => []TypeOK
<1>1. IInv => TypeOK
  BY DEF IInv, QueueOK, TypeOK
<1> QED
  BY <1>1, SpecIInv, PTL

(* The counter `active` is the number of permit owners in every reachable  *)
(* state: no interleaving of grant, cancellation and release leaks or      *)
(* duplicates a permit.                                                    *)
THEOREM PermitsConserved == Spec => []PermitConservation
<1>1. IInv => PermitConservation
  BY QueueFacts DEF PermitConservation
<1> QED
  BY <1>1, SpecIInv, PTL

(* The deque is always exactly the set of waiting callers, each once.      *)
THEOREM QueueExact == Spec => []QueueIsWaiting
<1>1. ASSUME IInv PROVE QueueIsWaiting
  <2>1. DOMAIN waiters = 1..Len(waiters)
    BY <1>1, QueueFields, LenProperties
  <2>2. \A c \in Callers : pc[c] = "waiting" <=> c \in ToSet(waiters)
    BY <1>1, <2>1, QueueFacts DEF ToSet
  <2>3. IsInjective(waiters)
    BY <1>1, <2>1, QueueFacts DEF IsInjective
  <2> QED
    BY <2>2, <2>3 DEF QueueIsWaiting
<1> QED
  BY <1>1, SpecIInv, PTL

(* No permit stays free while a caller waits.                              *)
THEOREM NoLostWakeup == Spec => []NoIdlePermit
<1>1. IInv => NoIdlePermit
  BY DEF IInv
<1> QED
  BY <1>1, SpecIInv, PTL

(* The waiter at the head is passed over at most once.                     *)
THEOREM FairRotation == Spec => []BoundedBypass
<1>1. IInv => BoundedBypass
  BY QueueFacts DEF BoundedBypass
<1> QED
  BY <1>1, SpecIInv, PTL

(* All of it at once, for any set of callers and any keys.                 *)
THEOREM PermitsGoWhereDue == Spec => []PermitsInOrder
<1>1. PermitConservation /\ QueueIsWaiting /\ NoIdlePermit /\ BoundedBypass => PermitsInOrder
  BY DEF PermitsInOrder
<1> QED
  BY <1>1, PermitsConserved, QueueExact, NoLostWakeup, FairRotation, PTL

(* No step grants a permit beyond the limit in force.                      *)
THEOREM GrantsRespectLimit == Spec => NoGrantPastLimit
<1>1. IInv /\ [Next]_vars => [active' > active => active' <= limit']_vars
  BY NextIInv
<1> QED
  BY <1>1, SpecIInv, PTL DEF Spec, NoGrantPastLimit

-----------------------------------------------------------------------------
(* AppRun, however many of its services refuse to stop.                     *)
Services == {"storage", "actions", "controller", "schedule"}

(* The services whose turn is not over when the shutdown stands at s. *)
Left(s) == IF s = "storage" THEN Services
           ELSE IF s = "actions" THEN {"actions", "controller", "schedule"}
           ELSE IF s = "controller" THEN {"controller", "schedule"}
           ELSE IF s = "schedule" THEN {"schedule"}
           ELSE {}

(* Without an icon the window stays, unless the program is going to exit. *)
Reachable ==
  /\ phase = "building" => ~exiting
  /\ phase = "loop" => /\ exiting => shutdown # "none"
                       /\ ~exiting => icon = avail
                       /\ startup # "show" /\ ~avail /\ shutdown = "none" => visible

(* After a complete start-up nothing is started any more, and what still     *)
(* runs has its turn to come or failed to stop.                               *)
Stopping ==
  whole => /\ phase # "building"
           /\ startup \in {"done", "failed"}
           /\ shutdown \in Services \cup {"quit"}
           /\ on \subseteq broken \cup Left(shutdown)
           /\ phase = "cleanup" => shutdown = "quit"

AppInv ==
  /\ on \subseteq Services
  /\ shutdown \in Services \cup {"none", "quit"}
  /\ Reachable
  /\ Stopping

LEMMA AppDomains ==
  /\ DOMAIN App!After = {"schedule", "controller", "storage"}
  /\ DOMAIN App!Following = Services
  /\ App!Following["storage"] = "actions" /\ App!Following["actions"] = "controller"
  /\ App!Following["controller"] = "schedule" /\ App!Following["schedule"] = "quit"
  /\ App!After["schedule"] = "controller" /\ App!After["controller"] = "storage" /\ App!After["storage"] = "done"
BY DEF App!After, App!Following, Services

(* The invariant says what is promised. *)
LEMMA AppPromised == AppInv => App!AppInReach
BY DEF AppInv, Reachable, Stopping, Left, App!AppInReach, App!NeverHeadless, App!AllStopped

LEMMA AppInit == App!Init => AppInv
BY DEF App!Init, AppInv, Reachable, Stopping, Services

-----------------------------------------------------------------------------
(* An exit that is asked for sets the shutdown going, at its first service.  *)
LEMMA AppRequestKeeps ==
  ASSUME AppInv, App!RequestExit, phase = "loop",
         UNCHANGED <<App!run, toTray, startup, on, broken>>
  PROVE  AppInv'
<1>1. phase' = "loop" /\ avail' = avail /\ hidden' = hidden /\ startup' = startup /\ on' = on
      /\ broken' = broken /\ toTray' = toTray
  BY DEF App!run
<1>2. CASE exiting
  <2>1. exiting' /\ icon' = icon /\ shutdown' = shutdown /\ whole' = whole
    BY <1>2 DEF App!RequestExit
  <2> QED  BY <1>1, <1>2, <2>1 DEF AppInv, Reachable, Stopping
<1>3. CASE ~exiting
  <2>1. exiting' = TRUE /\ icon' = FALSE
        /\ shutdown' = (IF shutdown = "none" THEN "storage" ELSE shutdown)
        /\ whole' = (IF shutdown = "none" THEN startup \in {"done", "failed"} ELSE whole)
    BY <1>3 DEF App!RequestExit, App!Request
  <2>2. shutdown' # "none" /\ shutdown' \in Services \cup {"none", "quit"}
    BY <2>1 DEF AppInv, Services
  <2>3. Reachable'
    BY <1>1, <2>1, <2>2 DEF Reachable
  <2>4. Stopping'
    BY <1>1, <2>1 DEF AppInv, Stopping, Left, Services
  <2>5. on' \subseteq Services
    BY <1>1 DEF AppInv
  <2> QED  BY <2>1, <2>2, <2>3, <2>4, <2>5 DEF AppInv
<1> QED  BY <1>2, <1>3

(* The stop of a service: the next one has its turn, whether it failed or not. *)
LEMMA AppStopKeeps == ASSUME AppInv, App!Stop PROVE AppInv'
<1>1. /\ shutdown \in Services /\ shutdown' = App!Following[shutdown] /\ phase' = phase
      /\ startup' = startup /\ whole' = whole /\ exiting' = exiting /\ icon' = icon /\ visible' = visible
      /\ avail' = avail /\ hidden' = hidden /\ toTray' = toTray /\ phase \in {"loop", "unwinding"}
  BY AppDomains DEF App!Stop, App!run
<1>2. on' \subseteq on /\ \/ on' = on \ {shutdown} /\ broken' = broken
                          \/ on' = on /\ broken' = broken \cup {shutdown}
  BY DEF App!Stop
<1>3. shutdown' \in Services \cup {"quit"}
  BY <1>1, AppDomains DEF Services
<1>4. Left(shutdown) \subseteq {shutdown} \cup Left(shutdown')
  BY <1>1, AppDomains DEF Left, Services
<1>5. Stopping'
  BY <1>1, <1>2, <1>3, <1>4 DEF AppInv, Stopping
<1>6. Reachable'
  BY <1>1, <1>3 DEF AppInv, Reachable, Services
<1> QED  BY <1>1, <1>2, <1>3, <1>5, <1>6 DEF AppInv

LEMMA AppStartKeeps == ASSUME AppInv, App!Show \/ App!StartService \/ App!StartFails PROVE AppInv'
<1>1. CASE App!Show
  BY <1>1 DEF App!Show, App!ShowInitial, App!run, AppInv, Reachable, Stopping
<1>2. CASE App!StartService
  <2>1. startup \in {"schedule", "controller", "storage"} /\ on' = on \cup {startup}
        /\ startup' = App!After[startup] /\ startup' # "show"
    BY <1>2, AppDomains DEF App!StartService
  <2> QED  BY <1>2, <2>1 DEF App!StartService, App!run, AppInv, Reachable, Stopping, Services
<1>3. CASE App!StartFails
  <2>1. startup \in {"schedule", "controller", "storage"} /\ ~whole
    BY <1>3, AppDomains DEF App!StartFails, AppInv, Stopping
  <2>2. /\ shutdown' = (IF shutdown = "none" THEN "storage" ELSE shutdown)
        /\ whole' = (shutdown = "none") /\ startup' = "failed" /\ on' = on /\ phase' = "loop"
        /\ phase = "loop" /\ broken' = broken
    BY <1>3, <2>1 DEF App!StartFails, App!run
  <2>3. Stopping'
    BY <2>2 DEF AppInv, Stopping, Left, Services
  <2> QED  BY <1>3, <2>1, <2>2, <2>3 DEF App!StartFails, App!run, AppInv, Reachable, Services
<1> QED  BY <1>1, <1>2, <1>3

LEMMA AppUIKeeps == ASSUME AppInv, App!UI PROVE AppInv'
<1>1. CASE App!Activate
  BY <1>1 DEF App!Activate, App!run, AppInv, Reachable, Stopping
<1>2. CASE App!CloseWindow
  <2>1. CASE shutdown = "quit" \/ (toTray /\ avail)
    BY <1>2, <2>1 DEF App!CloseWindow, App!run, AppInv, Reachable, Stopping
  <2>2. CASE ~(shutdown = "quit" \/ (toTray /\ avail))
    <3>1. App!RequestExit /\ visible' = visible /\ visible /\ phase = "loop"
          /\ UNCHANGED <<App!run, toTray, startup, on, broken>>
      BY <1>2, <2>2 DEF App!CloseWindow
    <3> QED  BY <3>1, AppRequestKeeps
  <2> QED  BY <2>1, <2>2
<1>3. CASE App!Tray
  <2>1. CASE visible' \in BOOLEAN /\ UNCHANGED <<exiting, icon, shutdown, whole>>
    BY <1>3, <2>1 DEF App!Tray, App!run, AppInv, Reachable, Stopping
  <2>2. CASE App!RequestExit /\ UNCHANGED visible
    BY <1>3, <2>2, AppRequestKeeps DEF App!Tray
  <2> QED  BY <1>3, <2>1, <2>2 DEF App!Tray
<1>4. CASE App!OtherExit
  BY <1>4, AppRequestKeeps DEF App!OtherExit
<1>5. CASE App!Configure
  BY <1>5 DEF App!Configure, App!run, AppInv, Reachable, Stopping
<1> QED  BY <1>1, <1>2, <1>3, <1>4, <1>5 DEF App!UI

LEMMA AppPhaseKeeps ==
  ASSUME AppInv, \/ App!Launch \/ App!Build \/ App!HealthCheck \/ App!Quit \/ App!SessionQuits \/ App!CancelStartup \/ App!Waited
                 \/ App!Cleanup \/ App!Kill
  PROVE  AppInv'
<1>1. CASE App!Launch
  BY <1>1 DEF App!Launch, AppInv, Reachable, Stopping, Services
<1>2. CASE App!Build
  <2>1. /\ phase = "building" /\ avail' = avail /\ exiting' = exiting /\ visible' = visible
        /\ shutdown' = shutdown /\ whole' = whole
        /\ \/ phase' = "loop" /\ startup' = "show" /\ on' = {"actions"} /\ icon' = avail
           \/ phase' = "cleanup" /\ on' = on /\ icon' = icon
    BY <1>2 DEF App!Build
  <2>2. ~whole
    BY <2>1 DEF AppInv, Stopping
  <2> QED  BY <2>1, <2>2 DEF AppInv, Reachable, Stopping, Services
<1>3. CASE App!HealthCheck
  BY <1>3 DEF App!HealthCheck, App!rest, AppInv, Reachable, Stopping
<1>4. CASE App!Quit \/ App!SessionQuits \/ App!Waited
  BY <1>4 DEF App!Quit, App!SessionQuits, App!Waited, App!rest, AppInv, Reachable, Stopping
<1>5. CASE App!CancelStartup
  BY <1>5, AppDomains DEF App!CancelStartup, App!run, AppInv, Reachable, Stopping
<1>6. CASE App!Cleanup \/ App!Kill
  <2>1. /\ phase' = "off" /\ icon' = FALSE /\ visible' = FALSE /\ startup' = startup /\ on' = on
        /\ avail' = avail /\ exiting' = exiting /\ shutdown' = shutdown /\ broken' = broken /\ whole' = whole
    BY <1>6 DEF App!Cleanup, App!Kill, App!Gone
  <2>2. Stopping' /\ Reachable'
    BY <2>1 DEF AppInv, Stopping, Reachable, Left
  <2> QED  BY <2>1, <2>2 DEF AppInv
<1> QED  BY <1>1, <1>2, <1>3, <1>4, <1>5, <1>6

LEMMA AppStep == ASSUME AppInv, [App!Next]_(App!vars) PROVE AppInv'
<1>1. CASE UNCHANGED App!vars
  BY <1>1 DEF App!vars, AppInv, Reachable, Stopping
<1> QED  BY <1>1, AppStopKeeps, AppStartKeeps, AppUIKeeps, AppPhaseKeeps DEF App!Next, App!Unwind

(* For any number of services whose stop fails: while the program runs its   *)
(* user has a window or an icon, or it is going to exit, and a run that had   *)
(* started completely stops every service before it gives the mutex back.     *)
THEOREM AlwaysInReach == App!Spec => []AppInReach
<1>1. App!Init => AppInv
  BY AppInit
<1>2. AppInv /\ [App!Next]_(App!vars) => AppInv'
  BY AppStep
<1>3. AppInv => AppInReach
  BY AppPromised DEF AppInReach
<1> QED  BY <1>1, <1>2, <1>3, PTL DEF App!Spec
-----------------------------------------------------------------------------
(* AsyncActions, for any number of tasks alive at a time.                   *)
ActionStates == {"new", "running", "stopping", "ended"}

(* What the table names is alive and has that key. *)
TableIsAlive ==
  \A key \in Action!Keys : table[key] # 0 =>
    tasks[table[key]].state # "ended" /\ tasks[table[key]].key = key

(* A mark has a key of its page that the table knows. *)
BusyIsKnown ==
  leaving = "no" => \A p \in busy : \E key \in Action!Keys : p \in Action!Page(key) /\ table[key] # 0

ActionInv ==
  /\ tasks \in [Action!Slots -> [key : Action!Keys \cup {"none"}, state : ActionStates]]
  /\ table \in [Action!Keys -> {0} \cup Action!Slots]
  /\ busy \subseteq Action!Pages
  /\ \A s \in Action!Alive : tasks[s].key \in Action!Keys
  /\ Action!EveryTaskIsKnown
  /\ TableIsAlive
  /\ BusyIsKnown

(* The invariant says what is promised. *)
LEMMA ActionPromised == ActionInv => Action!ActionsAreKnown
<1> SUFFICES ASSUME ActionInv PROVE Action!ActionsAreKnown
  OBVIOUS
<1>1. Action!NeverStuckBusy
  <2> SUFFICES ASSUME leaving = "no", NEW p \in busy
               PROVE  \E s \in Action!Alive : p \in Action!Page(tasks[s].key)
    BY DEF Action!NeverStuckBusy
  <2>1. PICK key \in Action!Keys : p \in Action!Page(key) /\ table[key] # 0
    BY DEF ActionInv, BusyIsKnown
  <2>2. table[key] \in Action!Alive /\ tasks[table[key]].key = key
    BY <2>1 DEF ActionInv, TableIsAlive, Action!Alive
  <2> QED  BY <2>1, <2>2
<1> QED  BY <1>1 DEF Action!ActionsAreKnown, ActionInv

LEMMA ActionInit == ASSUME MaxAlive \in Nat PROVE Action!Init => ActionInv
<1> SUFFICES ASSUME MaxAlive \in Nat, Action!Init PROVE ActionInv
  OBVIOUS
<1>1. Action!Alive = {}
  BY DEF Action!Init, Action!Alive, Action!Ended
<1> QED
  BY <1>1 DEF Action!Init, ActionInv, Action!EveryTaskIsKnown, TableIsAlive, BusyIsKnown,
     Action!Ended, ActionStates, Action!Pages

-----------------------------------------------------------------------------
(* What a cancellation makes of the tasks: those that had not begun are      *)
(* ended, the others of `gone` are stopping, nothing else changes.            *)
LEMMA ActionCancelledTasks ==
  ASSUME tasks \in [Action!Slots -> [key : Action!Keys \cup {"none"}, state : ActionStates]], NEW gone
  PROVE  /\ Action!Cancelled(tasks, gone) \in [Action!Slots -> [key : Action!Keys \cup {"none"}, state : ActionStates]]
         /\ \A s \in Action!Slots : s \notin gone => Action!Cancelled(tasks, gone)[s] = tasks[s]
         /\ \A s \in Action!Slots : tasks[s].state = "ended" => Action!Cancelled(tasks, gone)[s] = tasks[s]
         /\ \A s \in gone \cap Action!Slots : Action!Cancelled(tasks, gone)[s].state \in {"ended", "stopping"}
         /\ \A s \in Action!Slots : Action!Cancelled(tasks, gone)[s].state # "ended" =>
              tasks[s].state # "ended" /\ Action!Cancelled(tasks, gone)[s].key = tasks[s].key
BY DEF Action!Cancelled, Action!Ended, ActionStates

LEMMA ActionBeginKeeps ==
  ASSUME MaxAlive \in Nat, ActionInv, NEW key \in Action!Keys, Action!Begin(key)
  PROVE  ActionInv'
<1> DEFINE stopped == Action!Cancelled(tasks, {table[key]})
<1>1. PICK s \in Action!Slots : /\ stopped[s].state = "ended"
                                /\ tasks' = [stopped EXCEPT ![s] = [key |-> key, state |-> "new"]]
                                /\ table' = [table EXCEPT ![key] = s]
  BY DEF Action!Begin
<1>2. /\ stopped \in [Action!Slots -> [key : Action!Keys \cup {"none"}, state : ActionStates]]
      /\ \A t \in Action!Slots : t # table[key] => stopped[t] = tasks[t]
      /\ \A t \in Action!Slots : t = table[key] => stopped[t].state \in {"ended", "stopping"}
      /\ \A t \in Action!Slots : stopped[t].state # "ended" =>
           tasks[t].state # "ended" /\ stopped[t].key = tasks[t].key
  BY ActionCancelledTasks, Zenon DEF ActionInv
<1> HIDE DEF stopped
<1>3. s # 0
  BY DEF Action!Slots
<1>4. busy' = busy \cup Action!Page(key) /\ leaving' = leaving
  BY DEF Action!Begin
<1>5. tasks' \in [Action!Slots -> [key : Action!Keys \cup {"none"}, state : ActionStates]] /\ table' \in [Action!Keys -> {0} \cup Action!Slots]
  BY <1>1, <1>2 DEF ActionInv, ActionStates
<1>6. busy' \subseteq Action!Pages
  BY <1>4 DEF ActionInv, Action!Page, Action!Pages, Action!Keys, Action!Replacing
<1>7. \A t \in Action!Slots : tasks'[t] = IF t = s THEN [key |-> key, state |-> "new"] ELSE stopped[t]
  BY <1>1, <1>2
<1>8. \A k \in Action!Keys : table'[k] = IF k = key THEN s ELSE table[k]
  BY <1>1 DEF ActionInv
<1>9. \A t \in Action!Alive' : tasks'[t].key \in Action!Keys
  BY <1>2, <1>7 DEF ActionInv, Action!Alive
<1>10. Action!EveryTaskIsKnown'
  <2> SUFFICES ASSUME NEW t \in Action!Slots, tasks'[t].state # "ended", tasks'[t].state # "stopping"
               PROVE  table'[tasks'[t].key] = t
    BY DEF Action!EveryTaskIsKnown, Action!Alive
  <2>1. CASE t = s
    BY <2>1, <1>7, <1>8
  <2>2. CASE t # s
    <3>1. t # table[key] /\ tasks'[t] = tasks[t]
      BY <2>2, <1>7, <1>2
    <3>2. tasks[t].key \in Action!Keys /\ table[tasks[t].key] = t
      BY <3>1 DEF ActionInv, Action!EveryTaskIsKnown, Action!Alive
    <3>3. tasks[t].key # key
      BY <3>1, <3>2
    <3> QED  BY <3>1, <3>2, <3>3, <1>8
  <2> QED  BY <2>1, <2>2
<1>11. TableIsAlive'
  <2> SUFFICES ASSUME NEW k \in Action!Keys, table'[k] # 0
               PROVE  tasks'[table'[k]].state # "ended" /\ tasks'[table'[k]].key = k
    BY DEF TableIsAlive
  <2>1. CASE k = key
    BY <2>1, <1>7, <1>8
  <2>2. CASE k # key
    <3>1. table'[k] = table[k] /\ table[k] \in Action!Slots
      BY <2>2, <1>8 DEF ActionInv
    <3>2. tasks[table[k]].state # "ended" /\ tasks[table[k]].key = k
      BY <3>1 DEF ActionInv, TableIsAlive
    <3>3. table[k] # table[key]
      BY <3>1, <3>2, <2>2 DEF ActionInv, TableIsAlive
    <3>4. stopped[table[k]] = tasks[table[k]]
      BY <3>1, <3>3, <1>2
    <3>5. table[k] # s
      BY <3>2, <3>4, <1>1
    <3> QED  BY <3>1, <3>2, <3>4, <3>5, <1>7
  <2> QED  BY <2>1, <2>2
<1>12. BusyIsKnown'
  BY <1>3, <1>4, <1>8 DEF BusyIsKnown, ActionInv
<1> QED  BY <1>5, <1>6, <1>9, <1>10, <1>11, <1>12 DEF ActionInv

LEMMA ActionRunKeeps ==
  ASSUME ActionInv, NEW s \in Action!Slots, Action!Run(s)
  PROVE  ActionInv'
<1>1. /\ tasks[s].state = "new" /\ tasks' = [tasks EXCEPT ![s].state = "running"]
      /\ table' = table /\ busy' = busy /\ leaving' = leaving
  BY DEF Action!Run
<1>2. tasks' \in [Action!Slots -> [key : Action!Keys \cup {"none"}, state : ActionStates]]
  BY <1>1 DEF ActionInv, ActionStates
<1>3. \A t \in Action!Slots : /\ tasks'[t].key = tasks[t].key
                              /\ tasks'[t].state = IF t = s THEN "running" ELSE tasks[t].state
  BY <1>1 DEF ActionInv
<1>4. \A t \in Action!Slots : (tasks'[t].state = "ended") = (tasks[t].state = "ended")
                           /\ (tasks'[t].state = "stopping") = (tasks[t].state = "stopping")
  BY <1>1, <1>3
<1>5. Action!EveryTaskIsKnown' /\ \A t \in Action!Alive' : tasks'[t].key \in Action!Keys
  BY <1>1, <1>3, <1>4 DEF ActionInv, Action!EveryTaskIsKnown, Action!Alive
<1>6. TableIsAlive'
  BY <1>1, <1>3, <1>4 DEF ActionInv, TableIsAlive
<1> QED  BY <1>1, <1>2, <1>5, <1>6 DEF ActionInv, BusyIsKnown

LEMMA ActionEndKeeps ==
  ASSUME MaxAlive \in Nat, ActionInv, NEW s \in Action!Slots, Action!End(s)
  PROVE  ActionInv'
<1>1. /\ tasks[s].state \in {"running", "stopping"} /\ tasks' = [tasks EXCEPT ![s] = Action!Ended]
      /\ leaving' = leaving /\ Action!Forget(s)
  BY DEF Action!End
<1>2. tasks' \in [Action!Slots -> [key : Action!Keys \cup {"none"}, state : ActionStates]]
  BY <1>1 DEF ActionInv, ActionStates, Action!Ended
<1>3. \A t \in Action!Slots : tasks'[t] = IF t = s THEN Action!Ended ELSE tasks[t]
  BY <1>1 DEF ActionInv
<1>4. tasks[s].key \in Action!Keys
  BY <1>1 DEF ActionInv, Action!Alive
<1>5. \A t \in Action!Slots : tasks'[t].state # "ended" => t # s /\ tasks'[t] = tasks[t]
  BY <1>3 DEF Action!Ended
<1>6. CASE table[tasks[s].key] = s
  <2>1. table' = [table EXCEPT ![tasks[s].key] = 0] /\ busy' = busy \ Action!Page(tasks[s].key)
    BY <1>1, <1>6 DEF Action!Forget
  <2>2. table' \in [Action!Keys -> {0} \cup Action!Slots] /\ busy' \subseteq Action!Pages
    BY <2>1, <1>4 DEF ActionInv
  <2>3. \A k \in Action!Keys : table'[k] = IF k = tasks[s].key THEN 0 ELSE table[k]
    BY <2>1 DEF ActionInv
  <2>4. Action!EveryTaskIsKnown' /\ \A t \in Action!Alive' : tasks'[t].key \in Action!Keys
    BY <1>5, <1>6, <2>3 DEF ActionInv, Action!EveryTaskIsKnown, Action!Alive
  <2>5. TableIsAlive'
    BY <1>3, <1>4, <2>3 DEF ActionInv, TableIsAlive
  <2>6. BusyIsKnown'
    <3> SUFFICES ASSUME leaving = "no", NEW p \in busy'
                 PROVE  \E k \in Action!Keys : p \in Action!Page(k) /\ table'[k] # 0
      BY <1>1 DEF BusyIsKnown
    <3>1. PICK k \in Action!Keys : p \in Action!Page(k) /\ table[k] # 0
      BY <2>1 DEF ActionInv, BusyIsKnown
    <3>2. k # tasks[s].key
      BY <3>1, <2>1
    <3> QED  BY <3>1, <3>2, <2>3
  <2> QED  BY <1>2, <2>2, <2>4, <2>5, <2>6 DEF ActionInv
<1>7. CASE table[tasks[s].key] # s
  <2>1. table' = table /\ busy' = busy
    BY <1>1, <1>7 DEF Action!Forget
  <2>2. Action!EveryTaskIsKnown' /\ \A t \in Action!Alive' : tasks'[t].key \in Action!Keys
    BY <1>5, <2>1 DEF ActionInv, Action!EveryTaskIsKnown, Action!Alive
  <2>3. TableIsAlive'
    BY <1>3, <1>4, <1>7, <2>1 DEF ActionInv, TableIsAlive
  <2> QED  BY <1>1, <1>2, <2>1, <2>2, <2>3 DEF ActionInv, BusyIsKnown
<1> QED  BY <1>6, <1>7

LEMMA ActionShutdownKeeps ==
  ASSUME MaxAlive \in Nat, ActionInv, Action!Shutdown
  PROVE  ActionInv'
<1> DEFINE gone == {table[key] : key \in Action!Keys} \ {0}
<1>1. /\ tasks' = Action!Cancelled(tasks, gone)
      /\ awaited' = {s \in gone : tasks'[s] # Action!Ended}
      /\ table' = [key \in Action!Keys |-> IF table[key] \in awaited' THEN table[key] ELSE 0]
      /\ leaving' = "waiting" /\ busy' = busy
  BY DEF Action!Shutdown
<1>2. /\ tasks' \in [Action!Slots -> [key : Action!Keys \cup {"none"}, state : ActionStates]]
      /\ \A s \in Action!Slots : s \notin gone => tasks'[s] = tasks[s]
      /\ \A s \in gone \cap Action!Slots : tasks'[s].state \in {"ended", "stopping"}
      /\ \A s \in Action!Slots : tasks'[s].state # "ended" =>
           tasks[s].state # "ended" /\ tasks'[s].key = tasks[s].key
  BY <1>1, ActionCancelledTasks, Zenon DEF ActionInv
<1>3. \A s \in Action!Slots : s \in gone => tasks[s].state # "ended"
  BY DEF ActionInv, TableIsAlive
<1>4. \A s \in Action!Slots : s \in gone /\ tasks'[s] # Action!Ended => tasks'[s].state # "ended"
  BY <1>1, <1>3 DEF Action!Cancelled, ActionInv, ActionStates
<1> HIDE DEF gone
<1>5. table' \in [Action!Keys -> {0} \cup Action!Slots]
  BY <1>1 DEF ActionInv
<1>6. \A t \in Action!Alive' : tasks'[t].key \in Action!Keys
  BY <1>2 DEF ActionInv, Action!Alive
<1>7. Action!EveryTaskIsKnown'
  <2> SUFFICES ASSUME NEW t \in Action!Slots, tasks'[t].state # "ended", tasks'[t].state # "stopping"
               PROVE  FALSE
    BY DEF Action!EveryTaskIsKnown, Action!Alive
  <2>1. t \notin gone /\ tasks'[t] = tasks[t]
    BY <1>2
  <2>2. tasks[t].key \in Action!Keys /\ table[tasks[t].key] = t
    BY <2>1 DEF ActionInv, Action!EveryTaskIsKnown, Action!Alive
  <2>3. t # 0
    BY DEF Action!Slots
  <2> QED  BY <2>1, <2>2, <2>3 DEF gone
<1>8. TableIsAlive'
  <2> SUFFICES ASSUME NEW k \in Action!Keys, table'[k] # 0
               PROVE  tasks'[table'[k]].state # "ended" /\ tasks'[table'[k]].key = k
    BY DEF TableIsAlive
  <2>1. table'[k] = table[k] /\ table[k] \in awaited' /\ table[k] \in Action!Slots
    BY <1>1 DEF ActionInv
  <2>2. tasks'[table[k]].state # "ended"
    BY <2>1, <1>1, <1>4
  <2>3. tasks[table[k]].key = k
    BY <2>1 DEF ActionInv, TableIsAlive
  <2> QED  BY <2>1, <2>2, <2>3, <1>2
<1> QED  BY <1>1, <1>2, <1>5, <1>6, <1>7, <1>8 DEF ActionInv, BusyIsKnown

LEMMA ActionStep ==
  ASSUME MaxAlive \in Nat, ActionInv, [Action!Next]_(Action!vars)
  PROVE  ActionInv'
<1>1. CASE \E key \in Action!Keys : Action!Begin(key)
  BY <1>1, ActionBeginKeeps
<1>2. CASE \E s \in Action!Slots : Action!Run(s)
  BY <1>2, ActionRunKeeps
<1>3. CASE \E s \in Action!Slots : Action!End(s)
  BY <1>3, ActionEndKeeps
<1>4. CASE Action!Shutdown
  BY <1>4, ActionShutdownKeeps
<1>5. CASE Action!ShutdownDone
  BY <1>5 DEF Action!ShutdownDone, ActionInv, Action!EveryTaskIsKnown, TableIsAlive, BusyIsKnown,
     Action!Alive
<1>6. CASE UNCHANGED Action!vars
  BY <1>6 DEF Action!vars, ActionInv, Action!EveryTaskIsKnown, TableIsAlive, BusyIsKnown,
     Action!Alive
<1> QED  BY <1>1, <1>2, <1>3, <1>4, <1>5, <1>6 DEF Action!Next

(* For any number of tasks alive at a time: an action that was not told to   *)
(* stop is the one known under its key, and no page is busy without one.      *)
THEOREM ActionsStayKnown == ASSUME MaxAlive \in Nat PROVE Action!Spec => []ActionsAreKnown
<1>1. Action!Init => ActionInv
  BY ActionInit
<1>2. ActionInv /\ [Action!Next]_(Action!vars) => ActionInv'
  BY ActionStep
<1>3. ActionInv => ActionsAreKnown
  BY ActionPromised DEF ActionsAreKnown
<1> QED  BY <1>1, <1>2, <1>3, PTL DEF Action!Spec
-----------------------------------------------------------------------------
(* RuntimeSettings, for any number of failures: `loose` is set by what the  *)
(* code takes nothing back after, a second failure or a stop inside a save.  *)
Values == [auto : {"off", "on"}, stamp : BOOLEAN]

Applying == {"registry", "store", "window", "tell", "vault", "commit"}
Undoing  == {"unwindow", "unstore", "unregister"}

SettingTypes ==
  /\ saved \in Values /\ memory \in Values /\ was \in Values /\ want \in Values
  /\ draft \subseteq BOOLEAN
  /\ step \in {"idle"} \cup Applying \cup Undoing
  /\ faults \in Nat

(* How many failures there have been; the second one leaves things loose. *)
Counted ==
  /\ step \in Applying /\ ~back => faults = 0
  /\ step \in Undoing => faults >= 1
  /\ step \in Applying /\ back => faults >= 1 /\ step \notin {"vault", "commit"}
  /\ step # "idle" /\ faults >= 2 => loose
  /\ step \in Undoing /\ back => loose

(* A save sets one effect after the other, whatever they were before. *)
Forward ==
  ~back =>
    /\ step \in {"store", "window", "tell", "vault", "commit"} => registry = want.auto
    /\ step \in {"window", "tell", "vault", "commit"} => saved = want
    /\ step \in {"tell", "vault", "commit"} => tray = want.auto /\ window = want.auto
    /\ step \in {"vault", "commit"} => told = want.auto
    /\ step = "commit" => vault = want.auto

(* What it has not changed yet is as it was. *)
Unchanged ==
  ~back /\ ~loose /\ step \in Applying \cup Undoing =>
    /\ "registry" \notin done => registry = was.auto
    /\ "store" \notin done => saved = was
    /\ step # "commit" => vault = was.auto
    /\ step = "registry" => done = {}

(* What has been undone, and what the way back from the vault has undone. *)
Undone ==
  /\ ~loose /\ step \in {"unstore", "unregister"} =>
       tray = was.auto /\ window = was.auto /\ told = was.auto
  /\ ~loose /\ step = "unregister" => saved = was
  /\ ~loose /\ back /\ step \in Applying =>
       /\ vault = was.auto
       /\ step # "registry" => registry = was.auto
       /\ step \in {"window", "tell"} => saved = was
       /\ step = "tell" => tray = was.auto /\ window = was.auto

Rest ==
  step = "idle" /\ ~loose =>
    /\ saved = memory
    /\ registry = memory.auto /\ vault = memory.auto /\ tray = memory.auto
    /\ window = memory.auto /\ told = memory.auto

SettingInv == /\ SettingTypes /\ Counted /\ Forward /\ Unchanged /\ Undone /\ Rest
              /\ step # "idle" => memory = was

(* The invariant says what is promised. *)
LEMMA SettingPromised == SettingInv => Setting!AppliedOrUndone
BY DEF SettingInv, Rest, Setting!AppliedOrUndone

LEMMA SettingInit == Setting!Init => SettingInv
BY DEF Setting!Init, Setting!Start, SettingInv, SettingTypes, Values, Applying, Undoing, Counted,
   Forward, Unchanged, Undone, Rest

-----------------------------------------------------------------------------
(* The dialog: between two saves. *)
LEMMA SettingDialogKeeps ==
  ASSUME Overlap = FALSE, SettingInv, Setting!Open \/ Setting!Close \/ Setting!Record \/ Setting!Report
  PROVE  SettingInv'
<1>1. CASE Setting!Open
  BY <1>1 DEF Setting!Open, Setting!settings, Setting!plan, SettingInv, SettingTypes, Values,
     Applying, Undoing, Counted, Forward, Unchanged, Undone, Rest
<1>2. CASE Setting!Close
  BY <1>2 DEF Setting!Close, Setting!settings, Setting!plan, SettingInv, SettingTypes, Values,
     Applying, Undoing, Counted, Forward, Unchanged, Undone, Rest
<1>3. CASE Setting!Record
  <2>1. /\ step = "idle" /\ step' = "idle" /\ memory' = [memory EXCEPT !.stamp = TRUE] /\ saved' = memory'
        /\ registry' = registry /\ vault' = vault /\ tray' = tray /\ window' = window /\ told' = told
        /\ draft' = draft /\ was' = was /\ want' = want /\ faults' = faults /\ loose' = loose
    BY <1>3 DEF Setting!Record, Setting!plan
  <2>2. memory' \in Values /\ memory'.auto = memory.auto
    BY <2>1 DEF SettingInv, SettingTypes, Values
  <2>3. SettingTypes'
    BY <2>1, <2>2 DEF SettingInv, SettingTypes
  <2>4. Rest'
    BY <2>1, <2>2 DEF SettingInv, Rest
  <2> QED  BY <2>1, <2>3, <2>4 DEF SettingInv, Counted, Forward, Unchanged, Undone, Applying,
       Undoing
<1>4. CASE Setting!Report
  BY <1>4 DEF Setting!Report, Setting!settings, Setting!plan, SettingInv, SettingTypes, Values,
     Applying, Undoing, Counted, Forward, Unchanged, Undone, Rest
<1> QED  BY <1>1, <1>2, <1>3, <1>4

LEMMA SettingSaveKeeps == ASSUME SettingInv, Setting!Save PROVE SettingInv'
<1>1. /\ step = "idle" /\ step' = "registry" /\ was' = memory /\ back' = FALSE /\ done' = {} /\ faults' = 0
      /\ saved' = saved /\ memory' = memory /\ registry' = registry /\ vault' = vault /\ draft' = draft
      /\ loose' = loose
  BY DEF Setting!Save, Setting!settings
<1>2. want' \in Values
  BY DEF Setting!Save, SettingInv, SettingTypes, Values
<1>3. SettingTypes' /\ Counted'
  BY <1>1, <1>2 DEF SettingInv, SettingTypes, Counted, Applying, Undoing
<1>4. Unchanged' /\ Undone' /\ Forward' /\ Rest'
  BY <1>1 DEF SettingInv, Rest, Unchanged, Undone, Forward
<1> QED  BY <1>1, <1>3, <1>4 DEF SettingInv

-----------------------------------------------------------------------------
(* A failure that leaves nothing loose is the first one of its save. *)
LEMMA FirstFault ==
  ASSUME SettingInv, Setting!Fault, step # "idle"
  PROVE  /\ faults' = faults + 1 /\ faults' \in Nat
         /\ loose => loose'
         /\ ~loose' => ~loose /\ faults = 0
<1>1. faults' = faults + 1 /\ loose' = (loose \/ faults = 1)
  BY DEF Setting!Fault
<1>2. faults \in Nat /\ (faults >= 2 => loose)
  BY DEF SettingInv, SettingTypes, Counted
<1>3. loose => loose'
  BY <1>1, Zenon
<1>4. ~loose' => ~loose /\ faults # 1
  BY <1>1, Zenon
<1>5. ~(faults >= 2) /\ faults # 1 => faults = 0
  BY <1>2
<1>6. faults' \in Nat
  BY <1>1, <1>2
<1> QED  BY <1>1, <1>2, <1>3, <1>4, <1>5, <1>6, Zenon

LEMMA SettingFailsKeeps ==
  ASSUME SettingInv, Setting!Fails, step \in {"registry", "store", "tell"}, draft' = draft
  PROVE  SettingInv'
<1>1. /\ step' = "unwindow" /\ saved' = saved /\ memory' = memory /\ registry' = registry /\ vault' = vault
      /\ was' = was /\ want' = want /\ back' = back /\ done' = done /\ Setting!Fault
  BY DEF Setting!Fails, Setting!settings, Setting!plan
<1>2. /\ faults' = faults + 1 /\ faults' \in Nat /\ faults \in Nat
      /\ loose => loose'
      /\ ~loose' => ~loose /\ faults = 0
  BY <1>1, FirstFault DEF SettingInv, SettingTypes
<1>3. back => faults >= 1
  BY DEF SettingInv, Counted, Applying
<1>4. SettingTypes'
  BY <1>1, <1>2 DEF SettingInv, SettingTypes, Undoing
<1>5. Counted'
  BY <1>1, <1>2, <1>3 DEF Counted, Applying, Undoing
<1>6. Unchanged'
  BY <1>1, <1>2 DEF SettingInv, Unchanged, Applying, Undoing
<1>7. Forward' /\ Undone' /\ Rest' /\ memory' = was'
  BY <1>1 DEF SettingInv, Forward, Undone, Rest, Applying
<1> QED  BY <1>4, <1>5, <1>6, <1>7 DEF SettingInv

(* The three effects of apply and of the undoing that may fail. *)
LEMMA SettingApplyKeeps ==
  ASSUME SettingInv, Setting!Register \/ Setting!Store \/ Setting!Configure \/ Setting!Tell
  PROVE  SettingInv'
<1>1. CASE Setting!Register
  <2>1. CASE Setting!Fails
    BY <1>1, <2>1, SettingFailsKeeps DEF Setting!Register
  <2>2. CASE ~Setting!Fails
    BY <1>1, <2>2 DEF Setting!Register, Setting!To, SettingInv, SettingTypes, Values, Applying,
       Undoing, Counted, Forward, Unchanged, Undone, Rest
  <2> QED  BY <2>1, <2>2
<1>2. CASE Setting!Store
  <2>1. CASE Setting!Fails
    BY <1>2, <2>1, SettingFailsKeeps DEF Setting!Store
  <2>2. CASE ~Setting!Fails
    BY <1>2, <2>2 DEF Setting!Store, Setting!To, SettingInv, SettingTypes, Values, Applying,
       Undoing, Counted, Forward, Unchanged, Undone, Rest
  <2> QED  BY <2>1, <2>2
<1>3. CASE Setting!Configure
  BY <1>3 DEF Setting!Configure, Setting!plan, Setting!To, SettingInv, SettingTypes, Values,
     Applying, Undoing, Counted, Forward, Unchanged, Undone, Rest
<1>4. CASE Setting!Tell
  <2>1. CASE Setting!Fails
    BY <1>4, <2>1, SettingFailsKeeps DEF Setting!Tell
  <2>2. CASE ~Setting!Fails
    BY <1>4, <2>2 DEF Setting!Tell, Setting!plan, SettingInv, SettingTypes, Values, Applying,
       Undoing, Counted, Forward, Unchanged, Undone, Rest
  <2> QED  BY <2>1, <2>2
<1> QED  BY <1>1, <1>2, <1>3, <1>4

(* The vault, and the end of a save. *)
LEMMA SettingVaultKeeps == ASSUME SettingInv, Setting!SaveVault \/ Setting!Commit PROVE SettingInv'
<1>1. CASE Setting!SaveVault
  <2>0. /\ step = "vault" /\ ~back /\ saved' = saved /\ memory' = memory /\ registry' = registry /\ tray' = tray
        /\ window' = window /\ told' = told /\ draft' = draft /\ was' = was /\ want' = want
    BY <1>1 DEF Setting!SaveVault, SettingInv, Counted, Applying
  <2>1. CASE Setting!Fault /\ back' = TRUE /\ done' = {} /\ step' = "registry" /\ UNCHANGED vault
    <3>1. faults' = faults + 1 /\ faults' \in Nat /\ (~loose' => ~loose) /\ faults = 0
      BY <2>0, <2>1, FirstFault DEF SettingInv, Counted, Applying
    <3>2. ~loose' => vault' = was'.auto
      BY <2>0, <2>1, <3>1 DEF SettingInv, Unchanged, Applying
    <3>3. SettingTypes' /\ Counted'
      BY <2>0, <2>1, <3>1 DEF SettingInv, SettingTypes, Counted, Applying, Undoing
    <3>4. Forward' /\ Unchanged' /\ Undone' /\ Rest'
      BY <2>0, <2>1, <3>2 DEF Forward, Unchanged, Undone, Rest, Applying
    <3> QED  BY <2>0, <3>3, <3>4 DEF SettingInv
  <2>2. CASE vault' = want.auto /\ step' = "commit" /\ UNCHANGED <<back, done, faults, loose>>
    BY <2>0, <2>2 DEF SettingInv, SettingTypes, Applying, Undoing, Counted, Forward, Unchanged,
       Undone, Rest
  <2> QED  BY <1>1, <2>1, <2>2 DEF Setting!SaveVault
<1>2. CASE Setting!Commit
  <2>1. step = "commit" /\ ~back
    BY <1>2 DEF Setting!Commit, SettingInv, Counted, Applying
  <2> QED
    BY <1>2, <2>1 DEF Setting!Commit, Setting!plan, SettingInv, SettingTypes, Applying, Undoing,
       Counted, Forward, Unchanged, Undone, Rest
<1> QED  BY <1>1, <1>2

(* The undoing, and a stop of the program. *)
LEMMA SettingUndoKeeps == ASSUME SettingInv, Setting!Unwindow \/ Setting!Unstore \/ Setting!Unregister PROVE SettingInv'
<1>1. CASE Setting!Unwindow
  BY <1>1 DEF Setting!Unwindow, Setting!plan, Setting!From, SettingInv, SettingTypes, Applying,
     Undoing, Counted, Forward, Unchanged, Undone, Rest
<1>2. CASE Setting!Unstore
  <2>0. /\ step = "unstore" /\ step' = "unregister" /\ memory' = memory /\ registry' = registry /\ vault' = vault
        /\ tray' = tray /\ window' = window /\ told' = told /\ draft' = draft /\ was' = was /\ want' = want
        /\ back' = back /\ done' = done /\ faults >= 1 /\ faults \in Nat
    BY <1>2 DEF Setting!Unstore, Setting!plan, SettingInv, SettingTypes, Counted, Undoing
  <2>1. CASE "store" \in done /\ saved' = Setting!From /\ UNCHANGED <<faults, loose>>
    BY <2>0, <2>1 DEF Setting!From, SettingInv, SettingTypes, Applying, Undoing, Counted, Forward,
       Unchanged, Undone, Rest
  <2>2. CASE Setting!Fault /\ UNCHANGED saved
    <3>1. faults' = faults + 1 /\ faults' \in Nat /\ loose'
      BY <2>0, <2>2, FirstFault
    <3> QED  BY <2>0, <2>2, <3>1 DEF SettingInv, SettingTypes, Applying, Undoing, Counted,
         Forward, Unchanged, Undone, Rest
  <2>3. CASE "store" \notin done /\ UNCHANGED <<saved, faults, loose>>
    BY <2>0, <2>3 DEF SettingInv, SettingTypes, Applying, Undoing, Counted, Forward, Unchanged,
       Undone, Rest
  <2> QED  BY <1>2, <2>1, <2>2, <2>3 DEF Setting!Unstore
<1>3. CASE Setting!Unregister
  <2>0. /\ step = "unregister" /\ step' = "idle" /\ memory' = memory /\ saved' = saved /\ vault' = vault
        /\ tray' = tray /\ window' = window /\ told' = told /\ draft' = draft /\ was' = was /\ want' = want
        /\ back' = back /\ done' = done /\ faults >= 1 /\ faults \in Nat
    BY <1>3 DEF Setting!Unregister, Setting!plan, SettingInv, SettingTypes, Counted, Undoing
  <2>1. CASE "registry" \in done /\ registry' = Setting!From.auto /\ UNCHANGED <<faults, loose>>
    BY <2>0, <2>1 DEF Setting!From, SettingInv, SettingTypes, Applying, Undoing, Counted, Forward,
       Unchanged, Undone, Rest
  <2>2. CASE Setting!Fault /\ UNCHANGED registry
    <3>1. faults' = faults + 1 /\ faults' \in Nat /\ loose'
      BY <2>0, <2>2, FirstFault
    <3> QED  BY <2>0, <2>2, <3>1 DEF SettingInv, SettingTypes, Applying, Undoing, Counted,
         Forward, Unchanged, Undone, Rest
  <2>3. CASE "registry" \notin done /\ UNCHANGED <<registry, faults, loose>>
    BY <2>0, <2>3 DEF SettingInv, SettingTypes, Applying, Undoing, Counted, Forward, Unchanged,
       Undone, Rest
  <2> QED  BY <1>3, <2>1, <2>2, <2>3 DEF Setting!Unregister
<1> QED  BY <1>1, <1>2, <1>3

LEMMA SettingRestartKeeps == ASSUME SettingInv, Setting!Restart PROVE SettingInv'
<1>1. /\ memory' = saved /\ tray' = saved.auto /\ window' = saved.auto /\ told' = saved.auto /\ saved' = saved
      /\ registry' = (IF saved.auto = "on" THEN "on" ELSE registry) /\ vault' = vault /\ draft' = {}
      /\ step' = "idle" /\ was' = was /\ want' = want /\ faults' = faults
      /\ (~loose' => ~loose /\ step = "idle")
  BY DEF Setting!Restart, Setting!plan
<1>2. SettingTypes'
  BY <1>1 DEF SettingInv, SettingTypes
<1>3. Rest'
  BY <1>1 DEF SettingInv, Rest, SettingTypes, Values
<1> QED  BY <1>1, <1>2, <1>3 DEF SettingInv, Counted, Forward, Unchanged, Undone, Applying, Undoing

LEMMA SettingStep == ASSUME Overlap = FALSE, SettingInv, [Setting!Next]_(Setting!vars) PROVE SettingInv'
<1>1. CASE Setting!Next
  BY <1>1, SettingDialogKeeps, SettingSaveKeeps, SettingApplyKeeps, SettingVaultKeeps,
     SettingUndoKeeps, SettingRestartKeeps DEF Setting!Next, Setting!Work
<1>2. CASE UNCHANGED Setting!vars
  BY <1>2 DEF Setting!vars, SettingInv, SettingTypes, Counted, Forward, Unchanged, Undone, Rest
<1> QED  BY <1>1, <1>2

(* When no check's time is written during a save, and for any number of      *)
(* failures: whichever effect of a save fails, the registry, the file, the    *)
(* tray, the window, the scheduler and the vault agree with the settings in   *)
(* memory again, unless the undoing itself failed or the program stopped.      *)
THEOREM SavedOrRestored == ASSUME Overlap = FALSE PROVE Setting!Spec => []AppliedOrUndone
<1>1. Setting!Init => SettingInv
  BY SettingInit
<1>2. SettingInv /\ [Setting!Next]_(Setting!vars) => SettingInv'
  BY SettingStep
<1>3. SettingInv => AppliedOrUndone
  BY SettingPromised DEF AppliedOrUndone
<1> QED  BY <1>1, <1>2, <1>3, PTL DEF Setting!Spec

-----------------------------------------------------------------------------
(* QrLogin, for any number of generations.                                  *)
QrTypes ==
  /\ qrGen \in 0 .. MaxGeneration /\ cur \in 0 .. MaxGeneration
  /\ waits \in [Qr!Gens -> {"none", "waiting", "late", "refreshing", "done"}]
  /\ DOMAIN ops = Qr!Operations
  /\ \A c \in Qr!Operations :
       /\ DOMAIN ops[c] = {"pc", "want", "req", "mine"}
       /\ ops[c].pc \in {"idle", "lock", "await", "asked", "show"}
  /\ DOMAIN qrShown = {"gen", "error"}
  /\ qrSpent \in [0 .. MaxGeneration -> {0, 1}]

(* The waiting task is that of the generation that was begun last. *)
Waiting == {g \in Qr!Gens : waits[g] \in {"waiting", "late"}}

LastWaits == /\ cur \in {0, qrGen} /\ Waiting \subseteq {cur}
             /\ \A g \in Qr!Gens : /\ g > qrGen => waits[g] = "none"
                                   /\ waits[g] = "refreshing" => g < qrGen

(* A request ends the waiting, and it begins again with the first answer. *)
Asked ==
  \A c \in Qr!Operations :
    /\ ops[c].pc = "await" => cur = 0
    /\ ops[c].pc = "asked" => /\ ops[c].req \in 0 .. qrGen
                              /\ ops[c].req = qrGen => cur = 0
    /\ ops[c].pc = "show"  => ops[c].mine \in 1 .. qrGen /\ waits[ops[c].mine] # "none"

(* Only generations that are gone have been replaced. *)
Replaced == \A g \in 0 .. MaxGeneration : qrSpent[g] # 0 => g < qrGen

(* Who will decide on the code of the present generation. *)
Deciding(c) ==
  \/ ops[c].pc = "await"
  \/ ops[c].pc = "asked" /\ ops[c].req = qrGen
  \/ ops[c].pc = "show" /\ ops[c].mine = qrGen

(* A code on display is awaited, or a request is going to replace it. *)
Displayed ==
  qrShown.gen # 0 =>
    /\ qrGen # 0 => waits[qrGen] # "done"
    /\ ~qrShown.error => \/ qrShown.gen = qrGen /\ qrGen # 0 /\ waits[qrGen] \in {"waiting", "late"}
                         \/ \E c \in Qr!Operations : Deciding(c)

QrInv == QrTypes /\ LastWaits /\ Asked /\ Replaced /\ Displayed

(* QrLogin counts with the library's operator. *)
LEMMA QrCardinality == \A S : Qr!Cardinality(S) = Cardinality(S)
BY DEF Qr!Cardinality, Cardinality

LEMMA QrPromised == ASSUME QrInv PROVE QrIsCurrent
<1>1. Qr!ShownIsAwaited
  BY DEF Qr!ShownIsAwaited, Qr!AtRest, QrInv, QrTypes, Displayed, Deciding, Qr!Gens
<1>2. Qr!OneWaiter
  <2>1. Waiting = {} \/ Waiting = {cur}
    BY DEF QrInv, LastWaits
  <2>2. Cardinality({}) = 0 /\ Cardinality({cur}) = 1
    BY FS_EmptySet, FS_Singleton
  <2>3. Cardinality(Waiting) <= 1
    BY <2>1, <2>2
  <2>4. Waiting = {g \in Qr!Gens : waits[g] \in {"waiting", "late"}}
    BY DEF Waiting
  <2> QED  BY <2>3, <2>4, QrCardinality DEF Qr!OneWaiter
<1>3. Qr!RefreshedOnce
  BY DEF Qr!RefreshedOnce, Qr!Gens, QrInv, QrTypes
<1> QED  BY <1>1, <1>2, <1>3 DEF QrIsCurrent

LEMMA QrInit == ASSUME MaxGeneration \in Nat PROVE Qr!Init => QrInv
BY DEF Qr!Init, Qr!Quiet, Qr!Gens, Qr!Operations, Qr!Refreshers, QrInv, QrTypes, LastWaits, Waiting,
   Asked, Replaced, Displayed

(* What a request does first: whoever waits is no longer waited for.        *)
LEMMA QrCancels ==
  ASSUME MaxGeneration \in Nat, QrInv, NEW c \in Qr!Operations, NEW op,
         DOMAIN op = {"pc", "want", "req", "mine"},
         Qr!CancelWait(c, op), UNCHANGED qrShown,
         UNCHANGED qrSpent \/ qrSpent' = [qrSpent EXCEPT ![qrGen] = @ + 1]
  PROVE  QrInv'
<1>1. /\ qrGen' = qrGen + 1 /\ qrGen' \in 1 .. MaxGeneration /\ cur' = 0
      /\ waits' = [g \in Qr!Gens |-> IF g = cur /\ waits[g] # "refreshing" THEN "done" ELSE waits[g]]
  BY DEF Qr!CancelWait, Qr!Bumped, Qr!Room, QrInv, QrTypes
<1>2. /\ DOMAIN ops' = Qr!Operations
      /\ \A d \in Qr!Operations \ {c} : ops'[d] = ops[d]
      /\ DOMAIN ops'[c] = {"pc", "want", "req", "mine"}
      /\ ops'[c].pc \in {"asked", "await"} /\ ops'[c].req = qrGen'
  BY DEF Qr!CancelWait, QrInv, QrTypes
<1>3. QrTypes'
  BY <1>1, <1>2 DEF QrInv, QrTypes, Replaced
<1>4. LastWaits'
  BY <1>1 DEF QrInv, QrTypes, LastWaits, Waiting, Qr!Gens
<1>5. Asked'
  BY <1>1, <1>2 DEF QrInv, QrTypes, Asked, Qr!Gens
<1>6. Replaced'
  BY <1>1 DEF QrInv, QrTypes, Replaced
<1>7. Displayed'
  BY <1>1, <1>2 DEF QrInv, QrTypes, LastWaits, Displayed, Deciding, Qr!Gens
<1> QED  BY <1>3, <1>4, <1>5, <1>6, <1>7 DEF QrInv

LEMMA QrAsksKeeps ==
  ASSUME MaxGeneration \in Nat, QrInv,
         \/ Qr!Begin
         \/ \E c \in Qr!Refreshers : Qr!Refresh(c)
         \/ \E c \in Qr!Operations : Qr!Locked(c) \/ Qr!Awaited(c)
  PROVE  QrInv'
<1>1. CASE Qr!Begin
  BY <1>1, QrCancels DEF Qr!Begin, Qr!Operations, Qr!Quiet
<1>2. ASSUME NEW c \in Qr!Refreshers, Qr!Refresh(c) PROVE QrInv'
  <2>1. /\ ops[c].pc = "idle" /\ ops'[c].pc = "lock" /\ DOMAIN ops' = Qr!Operations
        /\ DOMAIN ops'[c] = DOMAIN ops[c]
        /\ \A d \in Qr!Operations \ {c} : ops'[d] = ops[d]
    BY <1>2 DEF Qr!Refresh, QrInv, QrTypes, Qr!Operations
  <2>2. UNCHANGED <<qrGen, cur, waits, qrShown, qrSpent>>
    BY <1>2 DEF Qr!Refresh
  <2> QED  BY <2>1, <2>2 DEF QrInv, QrTypes, LastWaits, Waiting, Asked, Replaced, Displayed,
       Deciding
<1>3. ASSUME NEW c \in Qr!Operations, Qr!Locked(c) PROVE QrInv'
  <2>1. CASE Qr!Stale(c)
    BY <1>3, <2>1 DEF Qr!Locked, Qr!Quiet, QrInv, QrTypes, LastWaits, Waiting, Asked, Replaced,
       Displayed,
       Deciding
  <2>2. CASE ~Qr!Stale(c)
    BY <1>3, <2>2, QrCancels DEF Qr!Locked, QrInv, QrTypes
  <2> QED  BY <2>1, <2>2
<1>4. ASSUME NEW c \in Qr!Operations, Qr!Awaited(c) PROVE QrInv'
  <2>1. /\ ops[c].pc = "await" /\ ops'[c].pc = "asked" /\ ops'[c].req = qrGen
        /\ DOMAIN ops' = Qr!Operations /\ DOMAIN ops'[c] = DOMAIN ops[c]
        /\ \A d \in Qr!Operations \ {c} : ops'[d] = ops[d]
    BY <1>4 DEF Qr!Awaited, QrInv, QrTypes
  <2>2. UNCHANGED <<qrGen, cur, waits, qrShown, qrSpent>>
    BY <1>4 DEF Qr!Awaited
  <2> QED  BY <2>1, <2>2 DEF QrInv, QrTypes, LastWaits, Waiting, Asked, Replaced, Displayed,
       Deciding
<1> QED  BY <1>1, <1>2, <1>3, <1>4

(* What the end of a request leaves as it was. *)
LEMMA QrReturns ==
  ASSUME QrInv, NEW c \in Qr!Operations, Qr!Return(c)
  PROVE  /\ DOMAIN ops' = Qr!Operations /\ ops'[c] = Qr!Quiet
         /\ \A d \in Qr!Operations \ {c} : ops'[d] = ops[d]
         /\ waits' \in [Qr!Gens -> {"none", "waiting", "late", "refreshing", "done"}]
         /\ \A g \in Qr!Gens : \/ waits'[g] = waits[g]
                               \/ waits[g] = "refreshing" /\ waits'[g] = "done"
BY DEF Qr!Return, QrInv, QrTypes

LEMMA QrReturnKeeps ==
  ASSUME MaxGeneration \in Nat, QrInv, NEW c \in Qr!Operations, Qr!Return(c),
         UNCHANGED <<qrGen, cur, qrSpent>>,
         DOMAIN qrShown' = {"gen", "error"}
  PROVE  QrTypes' /\ LastWaits' /\ Asked' /\ Replaced'
<1>1. /\ DOMAIN ops' = Qr!Operations /\ ops'[c] = Qr!Quiet
      /\ \A d \in Qr!Operations \ {c} : ops'[d] = ops[d]
      /\ waits' \in [Qr!Gens -> {"none", "waiting", "late", "refreshing", "done"}]
      /\ \A g \in Qr!Gens : \/ waits'[g] = waits[g]
                            \/ waits[g] = "refreshing" /\ waits'[g] = "done"
  BY QrReturns
<1>2. DOMAIN ops'[c] = {"pc", "want", "req", "mine"} /\ ops'[c].pc = "idle"
  BY <1>1 DEF Qr!Quiet
<1>3. QrTypes'
  BY <1>1, <1>2 DEF QrInv, QrTypes
<1>4. LastWaits'
  BY <1>1 DEF QrInv, QrTypes, LastWaits, Waiting
<1>5. Asked'
  BY <1>1, <1>2 DEF QrInv, QrTypes, Asked, Qr!Gens
<1>6. Replaced'
  BY DEF QrInv, Replaced
<1> QED  BY <1>3, <1>4, <1>5, <1>6

LEMMA QrAnswersKeeps ==
  ASSUME MaxGeneration \in Nat, QrInv, NEW c \in Qr!Operations,
         Qr!Answer(c) \/ Qr!NoAnswer(c) \/ Qr!Show(c)
  PROVE  QrInv'
<1>1. CASE Qr!Answer(c) /\ Qr!Current(c)
  <2>1. /\ qrGen' = qrGen + 1 /\ qrGen' \in 1 .. MaxGeneration /\ cur' = qrGen'
        /\ ops[c].pc = "asked" /\ ops[c].req = qrGen
        /\ \A d \in Qr!Operations : ops[d].pc # "await"
        /\ waits' = [waits EXCEPT ![qrGen'] = "waiting"]
        /\ UNCHANGED <<qrShown, qrSpent>>
    BY <1>1 DEF Qr!Answer, Qr!Current, Qr!Room, QrInv, QrTypes
  <2>2. /\ DOMAIN ops' = Qr!Operations /\ DOMAIN ops'[c] = DOMAIN ops[c]
        /\ ops'[c].pc = "show" /\ ops'[c].mine = qrGen'
        /\ \A d \in Qr!Operations \ {c} : ops'[d] = ops[d]
    BY <1>1 DEF Qr!Answer, QrInv, QrTypes
  <2>3. QrTypes'
    BY <2>1, <2>2 DEF QrInv, QrTypes, Qr!Gens
  <2>4. LastWaits'
    BY <2>1 DEF QrInv, QrTypes, LastWaits, Waiting, Asked, Qr!Gens
  <2>5. Asked'
    BY <2>1, <2>2 DEF QrInv, QrTypes, Asked, Qr!Gens
  <2>6. Replaced'
    BY <2>1 DEF QrInv, QrTypes, Replaced
  <2>7. Displayed'
    BY <2>1, <2>2 DEF QrInv, QrTypes, Displayed, Deciding, Qr!Gens
  <2> QED  BY <2>3, <2>4, <2>5, <2>6, <2>7 DEF QrInv
<1>2. CASE Qr!Answer(c) /\ ~Qr!Current(c)
  <2>1. /\ Qr!Return(c) /\ ops[c].pc = "asked" /\ ops[c].req # qrGen
        /\ UNCHANGED <<qrGen, cur, qrShown, qrSpent>>
    BY <1>2 DEF Qr!Answer, Qr!Current
  <2>2. QrTypes' /\ LastWaits' /\ Asked' /\ Replaced'
    BY <2>1, QrReturnKeeps DEF QrInv, QrTypes
  <2>3. /\ \A d \in Qr!Operations \ {c} : ops'[d] = ops[d]
        /\ qrGen \in Qr!Gens => waits'[qrGen] = waits[qrGen]
    BY <2>1, QrReturns DEF QrInv, LastWaits, Qr!Gens, QrTypes
  <2>4. Displayed'
    BY <2>1, <2>3 DEF QrInv, QrTypes, Displayed, Deciding, Qr!Gens
  <2> QED  BY <2>2, <2>4 DEF QrInv
<1>3. CASE Qr!NoAnswer(c)
  <2>1. /\ Qr!Return(c) /\ ops[c].pc = "asked"
        /\ UNCHANGED <<qrGen, cur, qrSpent>>
        /\ DOMAIN qrShown' = {"gen", "error"}
        /\ \/ qrShown'.error /\ qrShown'.gen \in {0, qrShown.gen}
           \/ ops[c].req # qrGen /\ qrShown' = qrShown
    BY <1>3 DEF Qr!NoAnswer, QrInv, QrTypes
  <2>2. QrTypes' /\ LastWaits' /\ Asked' /\ Replaced'
    BY <2>1, QrReturnKeeps
  <2>3. /\ \A d \in Qr!Operations \ {c} : ops'[d] = ops[d]
        /\ qrGen \in Qr!Gens => waits'[qrGen] = waits[qrGen]
    BY <2>1, QrReturns DEF QrInv, LastWaits, Qr!Gens, QrTypes
  <2>4. Displayed'
    BY <2>1, <2>3 DEF QrInv, QrTypes, Displayed, Deciding, Qr!Gens
  <2> QED  BY <2>2, <2>4 DEF QrInv
<1>4. CASE Qr!Show(c)
  <2>1. /\ Qr!Return(c) /\ ops[c].pc = "show" /\ ops[c].mine \in 1 .. qrGen
        /\ UNCHANGED <<qrGen, cur, qrSpent>>
        /\ waits[ops[c].mine] # "none"
    BY <1>4 DEF Qr!Show, QrInv, Asked
  <2>2. CASE Qr!Showable(c)
    <3>1. /\ qrShown' = [gen |-> qrGen, error |-> FALSE] /\ qrGen \in Qr!Gens
          /\ waits[qrGen] \in {"waiting", "late"} /\ waits'[qrGen] = waits[qrGen]
      BY <1>4, <2>1, <2>2, QrReturns DEF Qr!Show, Qr!Showable, QrInv, QrTypes, LastWaits, Qr!Gens
    <3>2. QrTypes' /\ LastWaits' /\ Asked' /\ Replaced'
      BY <2>1, <3>1, QrReturnKeeps DEF QrInv, QrTypes
    <3>3. Displayed'
      BY <2>1, <3>1 DEF Displayed, Qr!Gens
    <3> QED  BY <3>2, <3>3 DEF QrInv
  <2>3. CASE ~Qr!Showable(c)
    <3>1. qrShown' = qrShown /\ (ops[c].mine = qrGen => qrShown.gen = 0)
      BY <1>4, <2>1, <2>3 DEF Qr!Show, Qr!Showable, QrInv, QrTypes, Displayed
    <3>2. QrTypes' /\ LastWaits' /\ Asked' /\ Replaced'
      BY <2>1, <3>1, QrReturnKeeps DEF QrInv, QrTypes
    <3>3. /\ \A d \in Qr!Operations \ {c} : ops'[d] = ops[d]
          /\ qrGen \in Qr!Gens => waits'[qrGen] = waits[qrGen]
      BY <2>1, QrReturns DEF QrInv, LastWaits, Qr!Gens, QrTypes
    <3>4. Displayed'
      BY <2>1, <3>1, <3>3 DEF QrInv, QrTypes, Displayed, Deciding, Qr!Gens
    <3> QED  BY <3>2, <3>4 DEF QrInv
  <2> QED  BY <2>2, <2>3
<1> QED  BY <1>1, <1>2, <1>3, <1>4

LEMMA QrWaitsKeeps ==
  ASSUME MaxGeneration \in Nat, QrInv, NEW g \in Qr!Gens,
         Qr!Confirmed(g) \/ Qr!TimedOut(g) \/ Qr!LateRefresh(g)
  PROVE  QrInv'
<1>1. CASE Qr!Confirmed(g) \/ Qr!TimedOut(g)
  BY <1>1 DEF Qr!Confirmed, Qr!TimedOut, QrInv, QrTypes, LastWaits, Waiting, Asked, Replaced,
     Displayed,
     Deciding, Qr!Gens
<1>2. CASE Qr!LateRefresh(g)
  <2>1. g = qrGen /\ g = cur /\ waits[g] = "late"
    BY <1>2 DEF Qr!LateRefresh, QrInv, QrTypes, LastWaits, Waiting, Qr!Gens
  <2>2. /\ qrGen' = qrGen + 1 /\ qrGen' \in 1 .. MaxGeneration /\ cur' = 0
        /\ waits' = [waits EXCEPT ![g] = "refreshing"]
        /\ qrSpent' = [qrSpent EXCEPT ![g] = @ + 1]
        /\ UNCHANGED qrShown
    BY <1>2, <2>1 DEF Qr!LateRefresh, Qr!Room, Qr!Bumped, QrInv, QrTypes
  <2>3. /\ DOMAIN ops' = Qr!Operations /\ "waiter" \in Qr!Operations
        /\ \A d \in Qr!Operations \ {"waiter"} : ops'[d] = ops[d]
        /\ DOMAIN ops'["waiter"] = {"pc", "want", "req", "mine"}
        /\ ops'["waiter"].pc = "asked" /\ ops'["waiter"].req = qrGen'
    <3>1. "waiter" \in Qr!Operations
      BY DEF Qr!Operations
    <3>2. ops' = [ops EXCEPT !["waiter"] = [Qr!Quiet EXCEPT !.pc = "asked", !.req = qrGen']]
      BY <1>2, <2>1 DEF Qr!LateRefresh
    <3> QED  BY <3>1, <3>2 DEF Qr!Quiet, QrInv, QrTypes
  <2>4. QrTypes'
    BY <2>1, <2>2, <2>3 DEF QrInv, QrTypes, Replaced
  <2>5. /\ waits' \in [Qr!Gens -> {"none", "waiting", "late", "refreshing", "done"}]
        /\ waits'[g] = "refreshing" /\ \A h \in Qr!Gens \ {g} : waits'[h] = waits[h]
        /\ g \in Nat /\ qrGen \in Nat /\ Qr!Gens \subseteq Nat
    BY <2>1, <2>2 DEF QrInv, QrTypes, Qr!Gens
  <2>6. \A h \in Qr!Gens : /\ h > qrGen => waits'[h] = "none"
                           /\ waits'[h] = "refreshing" => h <= qrGen
    BY <2>1, <2>5 DEF QrInv, LastWaits
  <2>7. LastWaits'
    <3>1. Waiting' \subseteq {0}
      BY <2>1, <2>5 DEF QrInv, LastWaits, Waiting
    <3> QED  BY <2>2, <2>5, <2>6, <3>1 DEF LastWaits
  <2>8. Replaced'
    <3>1. \A h \in 0 .. MaxGeneration : qrSpent'[h] # 0 => h <= qrGen
      BY <2>1, <2>2, <2>5 DEF QrInv, QrTypes, Replaced
    <3> QED  BY <2>2, <2>5, <3>1 DEF Replaced
  <2>9. Asked'
    <3>1. ASSUME NEW d \in Qr!Operations \ {"waiter"}, ops[d].pc = "show"
          PROVE  ops[d].mine \in 1 .. qrGen' /\ waits'[ops[d].mine] # "none"
      <4>1. ops[d].mine \in 1 .. qrGen /\ waits[ops[d].mine] # "none"
        BY <3>1 DEF QrInv, Asked
      <4>2. ops[d].mine \in Qr!Gens
        BY <2>1, <4>1 DEF Qr!Gens
      <4> QED  BY <2>2, <2>5, <4>1, <4>2
    <3> QED  BY <2>2, <2>3, <2>5, <3>1 DEF QrInv, QrTypes, Asked
  <2>10. Displayed'
    <3>1. waits'[qrGen'] = "none"
      BY <2>2, <2>5, <2>6 DEF Qr!Gens
    <3> QED  BY <2>2, <2>3, <3>1 DEF Displayed, Deciding
  <2> QED  BY <2>4, <2>7, <2>8, <2>9, <2>10 DEF QrInv
<1> QED  BY <1>1, <1>2

LEMMA QrLeaveKeeps == ASSUME MaxGeneration \in Nat, QrInv, Qr!Leave PROVE QrInv'
BY DEF Qr!Leave, Qr!Room, QrInv, QrTypes, LastWaits, Waiting, Asked, Replaced, Displayed, Qr!Gens

LEMMA QrStep ==
  ASSUME MaxGeneration \in Nat, QrInv, [Qr!Next]_(Qr!vars) PROVE QrInv'
<1>1. CASE Qr!Next
  BY <1>1, QrAsksKeeps, QrAnswersKeeps, QrWaitsKeeps, QrLeaveKeeps DEF Qr!Next, Qr!Step, Qr!Late
<1>2. CASE UNCHANGED Qr!vars
  BY <1>2 DEF Qr!vars, QrInv, QrTypes, LastWaits, Waiting, Asked, Replaced, Displayed, Deciding
<1> QED  BY <1>1, <1>2

(* Whoever asks for a code, and however often: at most one task waits for a  *)
(* scan, no code is replaced twice, and when nobody is asking the code on      *)
(* display is the one that is waited for.                                      *)
THEOREM CodeIsAwaited == ASSUME MaxGeneration \in Nat PROVE Qr!Spec => []QrIsCurrent
<1>1. Qr!Init => QrInv
  BY QrInit
<1>2. QrInv /\ [Qr!Next]_(Qr!vars) => QrInv'
  BY QrStep
<1>3. QrInv => QrIsCurrent
  BY QrPromised
<1> QED  BY <1>1, <1>2, <1>3, PTL DEF Qr!Spec

-----------------------------------------------------------------------------
(* AccountSession, for any number of gateways, accounts and downloads.      *)
(* The gateways are numbered from 1. *)
Numbered == Gateways \subseteq Nat \ {0} /\ 1 \in Gateways

Slots == Gateways \cup {0}

Schedulers ==
  /\ DOMAIN scheds = Slots
  /\ \A s \in Slots : /\ DOMAIN scheds[s] = {"open", "active"}
                      /\ scheds[s].open \in BOOLEAN /\ scheds[s].active \in Nat
  /\ ~scheds[0].open /\ scheds[0].active = 0

AccTypes ==
  /\ {gw, bound, sched, cand} \subseteq Slots
  /\ DOMAIN gws = Gateways
  /\ \A g \in Gateways : DOMAIN gws[g] = {"made", "up", "revoked", "acct"}
  /\ Schedulers /\ crossed \in BOOLEAN
  /\ DOMAIN fin = {"pc", "g", "qr", "old", "osched", "omem", "saved"}
  /\ fin.pc \in {"idle", "first", "name", "show", "identify", "confirm", "quiet", "activate",
                 "resume", "cleanup", "close", "undo"}
  /\ {fin.g, fin.old, fin.osched} \subseteq Slots
  /\ DOMAIN mon = {"pc", "g", "osched"}
  /\ mon.pc \in {"idle", "connect", "verify", "quiet", "shut", "fresh", "bind"}
  /\ {mon.g, mon.osched} \subseteq Slots

(* A gateway that is not made yet is nobody's, and nobody has signed in on it. *)
NobodysYet ==
  \A g \in Gateways : ~gws[g].made =>
    /\ gws[g].acct = Account!None
    /\ g \notin {gw, bound, sched, cand, fin.g, fin.old, fin.osched, mon.g, mon.osched}

(* A candidate is a gateway of its own until its commit; the waiter of a QR *)
(* code works for the candidate there is.                                    *)
OnItsOwn ==
  /\ asking => cand = 0
  /\ fin.qr /\ fin.pc \in {"identify", "confirm", "quiet", "activate", "resume", "undo"} =>
       cand = fin.g /\ cand # 0
  /\ cand # 0 /\ fin.pc \notin {"activate", "resume"} => cand \notin {gw, bound, sched}
  /\ fin.pc \in {"identify", "confirm"} => /\ fin.g # 0 /\ fin.g \notin {gw, bound, sched}
                                          /\ ~fin.saved
  /\ Account!Committing =>
       /\ fin.g # 0 /\ fin.g \notin {fin.old, fin.osched}
       /\ cand # 0 => cand \notin {fin.old, fin.osched}
  /\ mon.pc = "bind" => /\ mon.g # 0 /\ mon.g \notin {sched, cand, fin.osched}
                        /\ fin.pc \in {"identify", "confirm", "quiet", "activate", "resume"} => mon.g # fin.g

(* From the guard on running downloads to its shutdown the old scheduler is *)
(* closed and idle.                                                           *)
OldIsIdle ==
  fin.pc \in {"quiet", "activate", "resume", "cleanup"} =>
    ~scheds[fin.osched].open /\ scheds[fin.osched].active = 0

(* Every coroutine changes gateway, binding and scheduler together, or has  *)
(* taken all three down.                                                      *)
Together ==
  IF Account!Expiring
  THEN /\ ~Account!Committing /\ bound = 0 /\ sched = 0
       /\ gw = IF mon.pc = "bind" THEN mon.g ELSE 0
  ELSE bound = gw /\ sched = gw

(* The account signed in on g has its session saved as s. *)
SavedFor(g, s) == Account!SignedIn(g) => s = gws[g].acct

Remembered ==
  Account!Committing =>
    /\ fin.old = fin.osched /\ SavedFor(fin.old, fin.omem)
    /\ fin.saved => gw = fin.g
    /\ ~fin.saved => gw = fin.old

AccInv ==
  /\ AccTypes /\ NobodysYet /\ OnItsOwn /\ OldIsIdle
  /\ ~crossed => /\ Together /\ Remembered
                 /\ fin.pc # "first" => SavedFor(gw, mem) /\ SavedFor(gw, accDisk)

(* The invariant says what is promised. *)
LEMMA AccPromised == AccInv => SwitchCutsNothing /\ Coherent
<1> SUFFICES ASSUME AccInv PROVE SwitchCutsNothing /\ Coherent
  OBVIOUS
<1>1. Account!SwitchCutsNothing
  BY DEF Account!SwitchCutsNothing, AccInv, OldIsIdle
<1>2. Account!Coherent
  BY DEF Account!Coherent, Account!Rest, Account!Expiring, AccInv, Together, SavedFor
<1> QED  BY <1>1, <1>2 DEF SwitchCutsNothing, Coherent

LEMMA AccInit == ASSUME Numbered, Account!Init PROVE AccInv
<1>1. PICK a \in Accounts :
        /\ gws = [g \in Gateways |-> [made |-> g = 1, up |-> FALSE, revoked |-> FALSE,
                                      acct |-> IF g = 1 THEN a ELSE Account!None]]
        /\ accDisk = a /\ mem = a
  BY DEF Account!Init
<1>2. /\ gw = 1 /\ bound = 1 /\ sched = 1 /\ 1 \in Gateways /\ 0 \notin Gateways
      /\ scheds = [g \in Slots |-> [open |-> g = 1, active |-> 0]]
      /\ cand = 0 /\ asking = FALSE /\ crossed = FALSE
      /\ fin = [pc |-> "idle", g |-> 0, qr |-> FALSE, old |-> 0, osched |-> 0, omem |-> Account!None,
                saved |-> FALSE]
      /\ mon = [pc |-> "idle", g |-> 0, osched |-> 0]
  BY DEF Numbered, Account!Init, Account!Idle, Account!Rested, Slots
<1>3. AccTypes
  <2>1. /\ DOMAIN gws = Gateways
        /\ \A g \in Gateways : DOMAIN gws[g] = {"made", "up", "revoked", "acct"}
    BY <1>1
  <2>2. /\ DOMAIN scheds = Slots /\ 0 \in Slots /\ ~scheds[0].open /\ scheds[0].active = 0
        /\ \A s \in Slots : /\ DOMAIN scheds[s] = {"open", "active"}
                            /\ scheds[s].open \in BOOLEAN /\ scheds[s].active \in Nat
    BY <1>2 DEF Slots
  <2> QED  BY <1>2, <2>1, <2>2 DEF AccTypes, Schedulers, Slots
<1>4. NobodysYet /\ OnItsOwn /\ OldIsIdle
  BY <1>1, <1>2 DEF NobodysYet, OnItsOwn, OldIsIdle, Account!Committing
<1>5. Together /\ Remembered /\ SavedFor(gw, mem) /\ SavedFor(gw, accDisk)
  BY <1>1, <1>2 DEF Together, Remembered, SavedFor, Account!Expiring, Account!Committing
<1> QED  BY <1>3, <1>4, <1>5 DEF AccInv

(* The next gateway that is made is one that is not made yet. *)
LEMMA FreshIsUnmade ==
  ASSUME Numbered, Account!Unmade # {} PROVE Account!Fresh \in Account!Unmade
<1>1. Account!Unmade \subseteq Nat
  BY DEF Numbered, Account!Unmade
<1>2. PICK g \in Account!Unmade : \A h \in Account!Unmade : <<h, g>> \notin OpToRel(<, Nat)
  BY <1>1, NatLessThanWellFounded, WFMin
<1>3. ASSUME NEW h \in Account!Unmade PROVE g <= h
  <2>1. g \in Nat /\ h \in Nat
    BY <1>1
  <2>2. SUFFICES ASSUME h < g PROVE FALSE
    BY <2>1
  <2>3. <<h, g>> \in OpToRel(<, Nat)
    BY <2>1, <2>2, Zenon DEF OpToRel
  <2> QED  BY <1>2, <2>3
<1> QED  BY <1>3 DEF Account!Fresh

(* What connecting and disconnecting leave as it was. *)
SameAccounts ==
  /\ DOMAIN gws' = Gateways
  /\ \A g \in Gateways : /\ DOMAIN gws'[g] = {"made", "up", "revoked", "acct"}
                         /\ gws'[g].acct = gws[g].acct /\ gws'[g].made = gws[g].made

(* The same of every gateway but f. *)
SameAccountsBut(f) ==
  /\ DOMAIN gws' = Gateways
  /\ \A g \in Gateways : DOMAIN gws'[g] = {"made", "up", "revoked", "acct"}
  /\ \A g \in Gateways \ {f} : gws'[g].acct = gws[g].acct /\ gws'[g].made = gws[g].made
  /\ f \in Gateways => gws'[f].made

LEMMA DisconnectedOnly == ASSUME AccTypes, NEW h, gws' = Account!Disconnected(h) PROVE SameAccounts
BY DEF AccTypes, SameAccounts, Account!Disconnected

(* One scheduler changes. *)
LEMMA SchedulersStay ==
  ASSUME Schedulers, NEW s \in Slots, DOMAIN scheds' = Slots,
         \A t \in Slots \ {s} : scheds'[t] = scheds[t],
         DOMAIN scheds'[s] = {"open", "active"}, scheds'[s].open \in BOOLEAN,
         scheds'[s].active \in Nat, s = 0 => ~scheds'[s].open /\ scheds'[s].active = 0
  PROVE  Schedulers'
<1>1. ASSUME NEW t \in Slots
      PROVE  /\ DOMAIN scheds'[t] = {"open", "active"}
             /\ scheds'[t].open \in BOOLEAN /\ scheds'[t].active \in Nat
  <2>1. CASE t = s
    BY <2>1
  <2>2. CASE t # s
    BY <2>2 DEF Schedulers
  <2> QED  BY <2>1, <2>2
<1>2. ~scheds'[0].open /\ scheds'[0].active = 0
  <2>1. CASE s = 0
    BY <2>1
  <2>2. CASE s # 0
    BY <2>2 DEF Schedulers, Slots
  <2> QED  BY <2>1, <2>2
<1> QED  BY <1>1, <1>2 DEF Schedulers

-----------------------------------------------------------------------------
(* Downloads begin and end. *)
LEMMA AccDownloadKeeps ==
  ASSUME AccInv, Account!StartDownload \/ Account!EndDownload PROVE AccInv'
<1>0. UNCHANGED <<gws, gw, bound, accShown, sched, accDisk, mem, handled, cand, asking, fin, cxl,
                  mon, crossed>>
  BY DEF Account!StartDownload, Account!EndDownload
<1>1. PICK s \in Slots : \/ scheds[s].open /\ scheds' = [scheds EXCEPT ![s].active = @ + 1]
                         \/ scheds[s].active > 0 /\ scheds' = [scheds EXCEPT ![s].active = @ - 1]
  BY DEF Account!StartDownload, Account!EndDownload, Slots, AccInv, AccTypes
<1>2. /\ DOMAIN scheds' = Slots /\ \A t \in Slots \ {s} : scheds'[t] = scheds[t]
      /\ DOMAIN scheds'[s] = {"open", "active"} /\ scheds'[s].open = scheds[s].open
      /\ scheds'[s].active \in Nat
      /\ scheds[s].open \/ scheds[s].active > 0
  BY <1>1 DEF AccInv, AccTypes, Schedulers
<1>3. AccTypes'
  BY <1>0, <1>2 DEF AccInv, AccTypes, Schedulers, Slots
<1>4. OldIsIdle'
  BY <1>0, <1>2 DEF AccInv, AccTypes, Schedulers, OldIsIdle
<1> QED  BY <1>0, <1>3, <1>4 DEF AccInv, NobodysYet, OnItsOwn, Together, Remembered, SavedFor,
         Account!Expiring, Account!Committing, Account!SignedIn

(* A step beside the log-ins and the expiry. *)
LEMMA AccAsideKeeps ==
  ASSUME Numbered, AccInv, SameAccounts, asking' => cand' = 0,
         UNCHANGED <<gw, bound, scheds, sched, accDisk, mem, fin, crossed>>,
         cand' = cand \/ (cand' = 0 /\ (fin.qr => fin.pc = "idle")),
         \/ UNCHANGED mon
         \/ /\ mon.pc \notin {"shut", "fresh", "bind"} /\ DOMAIN mon' = {"pc", "g", "osched"}
            /\ mon'.pc \in {"idle", "connect", "verify", "quiet"}
            /\ mon'.g \in {0, gw, mon.g} /\ mon'.osched \in {0, mon.osched}
  PROVE  AccInv'
<1>1. AccTypes'
  BY DEF AccInv, AccTypes, Schedulers, SameAccounts, Slots
<1>2. NobodysYet'
  BY DEF AccInv, NobodysYet, SameAccounts, Numbered
<1>3. OnItsOwn' /\ OldIsIdle'
  BY DEF AccInv, OnItsOwn, OldIsIdle, Account!Committing
<1>4. ~crossed' => Together'
  BY DEF AccInv, Together, Account!Expiring, Account!Committing
<1>5. ASSUME NEW g \in Slots, NEW s PROVE (Account!SignedIn(g) => s = gws[g].acct) => (Account!SignedIn(g)' => s = gws'[g].acct)
  BY <1>1 DEF Account!SignedIn, Account!None, SameAccounts, Slots
<1>6. ~crossed' => Remembered' /\ (fin'.pc # "first" => SavedFor(gw, mem)' /\ SavedFor(gw, accDisk)')
  BY <1>5 DEF AccInv, AccTypes, Remembered, SavedFor, Account!Committing
<1> QED  BY <1>1, <1>2, <1>3, <1>4, <1>6 DEF AccInv

(* A log-in that ends, or goes on with nothing but names and clearing up. *)
LEMMA AccEndKeeps ==
  ASSUME Numbered, AccInv, SameAccounts, Schedulers', asking' => cand' = 0, cand' \in {0, cand},
         UNCHANGED <<gw, bound, sched, mon>>, crossed => crossed', crossed' \in BOOLEAN,
         ~Account!Committing, DOMAIN fin' = {"pc", "g", "qr", "old", "osched", "omem", "saved"},
         fin'.pc \in {"idle", "name", "show", "close"},
         fin'.g \in {0, gw, fin.g}, fin'.old \in {0, fin.old}, fin'.osched \in {0, fin.osched},
         \/ UNCHANGED <<mem, accDisk>> /\ (fin.pc = "first" => crossed' \/ gw = 0)
         \/ mem' = gws[gw].acct /\ accDisk' = gws[gw].acct
  PROVE  AccInv'
<1>1. AccTypes'
  BY DEF AccInv, AccTypes, SameAccounts, Slots
<1>2. NobodysYet'
  <2> SUFFICES ASSUME NEW g \in Gateways, ~gws'[g].made
               PROVE  /\ gws'[g].acct = Account!None
                      /\ g \notin {gw, bound, sched, cand, fin.g, fin.old, fin.osched, mon.g, mon.osched}'
    BY DEF NobodysYet
  <2>1. /\ g # 0 /\ gws'[g].acct = Account!None
        /\ g \notin {gw, bound, sched, cand, fin.g, fin.old, fin.osched, mon.g, mon.osched}
    BY DEF AccInv, NobodysYet, SameAccounts, Numbered
  <2> QED  BY <2>1
<1>3. OnItsOwn' /\ OldIsIdle'
  BY DEF AccInv, OnItsOwn, OldIsIdle, Account!Committing
<1>4. ~crossed' => Together' /\ Remembered'
  BY DEF AccInv, Together, Remembered, Account!Expiring, Account!Committing
<1>5. ~crossed' => SavedFor(gw, mem)' /\ SavedFor(gw, accDisk)'
  BY <1>1 DEF AccInv, AccTypes, SavedFor, SameAccounts, Slots, Account!SignedIn, Account!None
<1> QED  BY <1>1, <1>2, <1>3, <1>4, <1>5 DEF AccInv

(* The network, Telegram and the connection check. *)
LEMMA AccMonitorKeeps ==
  ASSUME Numbered, AccInv,
         \/ Account!StartCandidate \/ Account!Drop \/ Account!Revoke \/ Account!Check
         \/ Account!Reconnect \/ Account!Verify
  PROVE  AccInv'
<1> USE DEF AccInv, AccTypes
<1>1. CASE Account!StartCandidate
  <2>1. SameAccounts
    BY <1>1 DEF Account!StartCandidate, SameAccounts
  <2> QED  BY <1>1, <2>1, AccAsideKeeps DEF Account!StartCandidate, Account!svc
<1>2. CASE Account!Drop
  BY <1>2, AccAsideKeeps, DisconnectedOnly DEF Account!Drop, Account!svc, OnItsOwn
<1>3. CASE Account!Revoke
  <2>1. SameAccounts
    BY <1>3 DEF Account!Revoke, SameAccounts
  <2> QED  BY <1>3, <2>1, AccAsideKeeps DEF Account!Revoke, Account!svc, OnItsOwn
<1>4. CASE Account!Check
  <2>1. SameAccounts
    BY <1>4 DEF Account!Check, SameAccounts
  <2>2. /\ mon.pc \notin {"shut", "fresh", "bind"} /\ DOMAIN mon' = {"pc", "g", "osched"}
        /\ mon'.pc \in {"verify", "connect"} /\ mon'.g = gw /\ mon'.osched = mon.osched
    BY <1>4 DEF Account!Check
  <2> QED  BY <1>4, <2>1, <2>2, AccAsideKeeps DEF Account!Check, Account!svc, OnItsOwn
<1>5. CASE Account!Reconnect
  <2>1. SameAccounts
    BY <1>5 DEF Account!Reconnect, SameAccounts
  <2>2. /\ mon.pc \notin {"shut", "fresh", "bind"} /\ DOMAIN mon' = {"pc", "g", "osched"}
        /\ mon'.pc \in {"verify", "idle"} /\ mon'.g \in {0, gw} /\ mon'.osched \in {0, mon.osched}
    <3>1. CASE mon' = Account!Rested
      BY <1>5, <3>1 DEF Account!Reconnect, Account!Rested
    <3>2. CASE mon' = [mon EXCEPT !.pc = "verify", !.g = gw]
      BY <1>5, <3>2 DEF Account!Reconnect
    <3> QED  BY <1>5, <3>1, <3>2 DEF Account!Reconnect
  <2> QED  BY <1>5, <2>1, <2>2, AccAsideKeeps DEF Account!Reconnect, Account!svc, OnItsOwn
<1>6. CASE Account!Verify
  <2>1. SameAccounts
    BY <1>6 DEF Account!Verify, SameAccounts
  <2>2. /\ mon.pc \notin {"shut", "fresh", "bind"} /\ DOMAIN mon' = {"pc", "g", "osched"}
        /\ mon'.pc \in {"quiet", "idle"} /\ mon'.g \in {0, mon.g} /\ mon'.osched \in {0, mon.osched}
    BY <1>6 DEF Account!Verify, Account!Rested
  <2> QED  BY <1>6, <2>1, <2>2, AccAsideKeeps DEF Account!Verify, OnItsOwn
<1> QED  BY <1>1, <1>2, <1>3, <1>4, <1>5, <1>6

-----------------------------------------------------------------------------
(* The steps of the log-in of the current gateway. *)
LEMMA AccFirstKeeps ==
  ASSUME Numbered, AccInv, Account!FinishFirst \/ Account!FinishName \/ Account!FinishShow
  PROVE  AccInv'
<1> USE DEF AccInv, AccTypes
<1>1. SameAccounts /\ Schedulers' /\ (asking' => cand' = 0) /\ cand' = cand /\ ~Account!Committing
  BY DEF Account!FinishFirst, Account!FinishName, Account!FinishShow, SameAccounts, OnItsOwn,
     Account!Committing, Schedulers
<1>2. /\ DOMAIN fin' = {"pc", "g", "qr", "old", "osched", "omem", "saved"}
      /\ fin'.pc \in {"idle", "name", "show"}
      /\ fin'.g \in {0, gw, fin.g} /\ fin'.old \in {0, fin.old} /\ fin'.osched \in {0, fin.osched}
  <2>1. CASE fin' = Account!Idle
    BY <2>1 DEF Account!Idle
  <2>2. CASE fin' = [fin EXCEPT !.pc = "name", !.g = gw]
    BY <2>2
  <2>3. CASE fin' = [fin EXCEPT !.pc = "show"]
    BY <2>3
  <2> QED  BY <2>1, <2>2, <2>3 DEF Account!FinishFirst, Account!FinishName, Account!FinishShow
<1> QED  BY <1>1, <1>2, AccEndKeeps DEF Account!FinishFirst, Account!FinishName, Account!FinishShow

(* A candidate is made, or the attempt ends without one. *)
LEMMA AccCandidateKeeps ==
  ASSUME Numbered, AccInv, Account!CandidateConnects PROVE AccInv'
<1> USE DEF AccInv, AccTypes
<1>1. CASE UNCHANGED <<gws, cand, fin, crossed>>
  BY <1>1, AccAsideKeeps DEF Account!CandidateConnects, Account!svc, SameAccounts, OnItsOwn
<1>2. CASE /\ Account!Unmade # {}
           /\ cand' = Account!Fresh /\ gws' = Account!Made(TRUE)
           /\ fin' = IF fin.qr THEN Account!Idle ELSE fin
           /\ crossed' = (crossed \/ Account!Unsaved)
  <2> DEFINE f == Account!Fresh
  <2>1. /\ f \in Gateways /\ ~gws[f].made /\ f # 0
        /\ f \notin {gw, bound, sched, cand, fin.g, fin.old, fin.osched, mon.g, mon.osched}
    BY <1>2, FreshIsUnmade DEF Account!Unmade, NobodysYet, Numbered
  <2>2. SameAccountsBut(f)
    BY <1>2, <2>1 DEF SameAccountsBut, Account!Made
  <2>3. UNCHANGED <<gw, bound, scheds, sched, mem, accDisk, mon>> /\ cand' = f /\ ~asking'
    BY <1>2 DEF Account!CandidateConnects, Account!svc
  <2>4. /\ DOMAIN fin' = {"pc", "g", "qr", "old", "osched", "omem", "saved"}
        /\ \/ UNCHANGED fin /\ ~fin.qr
           \/ /\ fin'.pc = "idle" /\ fin'.g = 0 /\ fin'.old = 0 /\ fin'.osched = 0
              /\ fin.pc = "first" => crossed'
    BY <1>2 DEF Account!Idle, Account!Unsaved
  <2> HIDE DEF f
  <2>5. AccTypes'
    <3>1. crossed' \in BOOLEAN
      BY <1>2
    <3> QED  BY <3>1, <2>1, <2>2, <2>3, <2>4 DEF Schedulers, SameAccountsBut, Slots
  <2>6. NobodysYet'
    BY <2>1, <2>2, <2>3, <2>4 DEF NobodysYet, SameAccountsBut, Numbered
  <2>7. OnItsOwn' /\ OldIsIdle'
    BY <2>1, <2>3, <2>4 DEF OnItsOwn, OldIsIdle, Account!Committing
  <2>8. ~crossed' => Together'
    BY <1>2, <2>3, <2>4 DEF Together, Account!Expiring, Account!Committing
  <2>9. ASSUME NEW g \in Slots, NEW s, g # f PROVE SavedFor(g, s) => SavedFor(g, s)'
    BY <2>2, <2>9 DEF SavedFor, Account!SignedIn, Account!None, SameAccountsBut, Slots
  <2>10. ~crossed' => Remembered' /\ (fin'.pc # "first" => SavedFor(gw, mem)' /\ SavedFor(gw, accDisk)')
    BY <1>2, <2>1, <2>3, <2>4, <2>9 DEF Remembered, Account!Committing, SavedFor
  <2> QED  BY <2>5, <2>6, <2>7, <2>8, <2>10
<1> QED  BY <1>1, <1>2 DEF Account!CandidateConnects

(* Somebody signs in. *)
LEMMA AccSignInKeeps ==
  ASSUME Numbered, AccInv, Account!SignIn PROVE AccInv'
<1> USE DEF AccInv, AccTypes
<1> DEFINE f == Account!LoginGateway
<1>1. /\ fin.pc = "idle" /\ f \in Gateways /\ f # 0 /\ (cand # 0 => f = cand) /\ (cand = 0 => f = gw)
      /\ UNCHANGED <<gw, bound, scheds, sched, mem, accDisk, mon, cand, asking, crossed>>
  BY DEF Account!SignIn, Account!LoginGateway, Account!svc, Slots
<1>2. PICK a \in Accounts, code \in BOOLEAN :
        /\ gws' = [gws EXCEPT ![f].acct = a]
        /\ fin' = [Account!Idle EXCEPT !.g = f, !.qr = code, !.pc = IF cand # 0 THEN "identify" ELSE "first"]
  BY DEF Account!SignIn
<1>3. SameAccountsBut(f) /\ gws'[f].made = gws[f].made /\ gws[f].made
  BY <1>1, <1>2 DEF SameAccountsBut, NobodysYet
<1>4. /\ DOMAIN fin' = {"pc", "g", "qr", "old", "osched", "omem", "saved"}
      /\ fin'.pc = (IF cand # 0 THEN "identify" ELSE "first")
      /\ fin'.g = f /\ fin'.old = 0 /\ fin'.osched = 0 /\ ~fin'.saved
  BY <1>2 DEF Account!Idle
<1> HIDE DEF f
<1>5. AccTypes'
  BY <1>1, <1>3, <1>4 DEF Schedulers, SameAccountsBut, Slots
<1>6. NobodysYet'
  <2> SUFFICES ASSUME NEW g \in Gateways, ~gws'[g].made
               PROVE  /\ gws'[g].acct = Account!None
                      /\ g \notin {gw, bound, sched, cand, fin.g, fin.old, fin.osched, mon.g, mon.osched}'
    BY DEF NobodysYet
  <2>1. g # 0 /\ g # f /\ ~gws[g].made
    BY <1>3 DEF SameAccountsBut, Numbered
  <2>2. /\ gws'[g].acct = Account!None
        /\ g \notin {gw, bound, sched, cand, mon.g, mon.osched}
    BY <2>1, <1>3 DEF NobodysYet, SameAccountsBut
  <2> QED  BY <1>1, <1>4, <2>1, <2>2
<1>7. OnItsOwn' /\ OldIsIdle'
  BY <1>1, <1>4 DEF OnItsOwn, OldIsIdle, Account!Committing
<1>8. ~crossed' => Together' /\ Remembered'
  BY <1>1, <1>4 DEF Together, Remembered, Account!Expiring, Account!Committing
<1>9. ASSUME NEW g \in Slots, NEW s, g # f PROVE SavedFor(g, s) => SavedFor(g, s)'
  BY <1>3, <1>9 DEF SavedFor, Account!SignedIn, Account!None, SameAccountsBut, Slots
<1>10. ~crossed' => (fin'.pc # "first" => SavedFor(gw, mem)' /\ SavedFor(gw, accDisk)')
  <2>1. fin'.pc # "first" => cand # 0 /\ gw # f
    BY <1>1, <1>4 DEF OnItsOwn
  <2> QED  BY <1>1, <1>9, <2>1 DEF SavedFor
<1> QED  BY <1>5, <1>6, <1>7, <1>8, <1>10

-----------------------------------------------------------------------------
(* The guard on running downloads, and the start of the commit. *)
LEMMA AccCommitStarts ==
  ASSUME Numbered, AccInv, fin.pc \in {"identify", "confirm"}, Account!CommitOrRefuse,
         UNCHANGED <<gw, bound, sched, accDisk, mem, asking, mon>>
  PROVE  AccInv'
<1> USE DEF AccInv, AccTypes
<1>1. CASE ~Account!NoDownloads
  <2>1. SameAccounts
    BY <1>1, DisconnectedOnly DEF Account!CommitOrRefuse, Account!Discard
  <2>2. fin' = Account!Idle /\ cand' = 0 /\ UNCHANGED <<scheds, crossed>>
    BY <1>1 DEF Account!CommitOrRefuse, Account!Discard
  <2> QED  BY <2>1, <2>2, AccEndKeeps DEF Account!Idle, Account!Committing, Schedulers
<1>2. CASE Account!NoDownloads
  <2>1. /\ fin' = [fin EXCEPT !.pc = "quiet", !.old = gw, !.osched = sched, !.omem = mem]
        /\ scheds' = [[scheds EXCEPT ![sched].open = FALSE] EXCEPT ![fin.g] = [open |-> TRUE, active |-> 0]]
        /\ crossed' = (crossed \/ Account!Expiring) /\ UNCHANGED <<cand, gws>>
        /\ scheds[sched].active = 0
    BY <1>2 DEF Account!CommitOrRefuse, Account!NoDownloads, Account!Opened
  <2>2. /\ DOMAIN fin' = {"pc", "g", "qr", "old", "osched", "omem", "saved"}
        /\ fin'.pc = "quiet" /\ fin'.old = gw /\ fin'.osched = sched /\ fin'.omem = mem
        /\ fin'.g = fin.g /\ fin'.qr = fin.qr /\ ~fin'.saved
    BY <2>1 DEF OnItsOwn
  <2>3. fin.g # 0 /\ fin.g \notin {gw, bound, sched} /\ fin.g \in Slots /\ sched \in Slots
    BY DEF OnItsOwn
  <2>4. /\ DOMAIN scheds' = Slots /\ \A s \in Slots \ {sched, fin.g} : scheds'[s] = scheds[s]
        /\ DOMAIN scheds'[sched] = {"open", "active"}
        /\ scheds'[sched].open = FALSE /\ scheds'[sched].active = 0
        /\ DOMAIN scheds'[fin.g] = {"open", "active"}
        /\ scheds'[fin.g].open = TRUE /\ scheds'[fin.g].active = 0
    BY <2>1, <2>3 DEF Schedulers
  <2>5. Schedulers'
    <3>1. ASSUME NEW t \in Slots
          PROVE  /\ DOMAIN scheds'[t] = {"open", "active"}
                 /\ scheds'[t].open \in BOOLEAN /\ scheds'[t].active \in Nat
      <4>0. 0 \in Nat /\ FALSE \in BOOLEAN /\ TRUE \in BOOLEAN
        OBVIOUS
      <4>1. CASE t = sched
        BY <2>4, <4>0, <4>1, Zenon
      <4>2. CASE t = fin.g
        BY <2>4, <4>0, <4>2, Zenon
      <4>3. CASE t \notin {sched, fin.g}
        BY <2>4, <4>3 DEF Schedulers
      <4> QED  BY <4>1, <4>2, <4>3
    <3>2. ~scheds'[0].open /\ scheds'[0].active = 0
      <4>1. CASE sched = 0
        BY <2>4, <4>1
      <4>2. CASE sched # 0
        BY <2>3, <2>4, <4>2 DEF Schedulers, Slots
      <4> QED  BY <4>1, <4>2
    <3> QED  BY <3>1, <3>2, <2>4 DEF Schedulers
  <2>6. AccTypes'
    BY <2>1, <2>2, <2>5 DEF Slots
  <2>7. NobodysYet' /\ OldIsIdle'
    BY <2>1, <2>2, <2>4 DEF NobodysYet, OldIsIdle
  <2>8. OnItsOwn'
    BY <2>1, <2>2 DEF OnItsOwn, Account!Committing
  <2>9. ~crossed' => Together' /\ Remembered' /\ SavedFor(gw, mem)' /\ SavedFor(gw, accDisk)'
    BY <2>1, <2>2 DEF Together, Remembered, SavedFor, Account!SignedIn, Account!Expiring,
       Account!Committing
  <2> QED  BY <2>6, <2>7, <2>8, <2>9
<1> QED  BY <1>1, <1>2

(* The candidate's account is read, and the user asked about another one. *)
LEMMA AccIdentifyKeeps ==
  ASSUME Numbered, AccInv, Account!Identify \/ Account!Confirm PROVE AccInv'
<1> USE DEF AccInv, AccTypes
<1>1. fin.pc \in {"identify", "confirm"} /\ UNCHANGED <<gw, bound, sched, accDisk, mem, asking, mon>>
  BY DEF Account!Identify, Account!Confirm
<1>2. CASE Account!CommitOrRefuse
  BY <1>1, <1>2, AccCommitStarts
<1>3. CASE Account!Discard /\ fin' = Account!Idle /\ UNCHANGED <<scheds, crossed>>
  <2>1. SameAccounts
    BY <1>3, DisconnectedOnly DEF Account!Discard
  <2> QED  BY <1>1, <1>3, <2>1, AccEndKeeps DEF Account!Discard, Account!Idle, Account!Committing,
       Schedulers
<1>4. CASE fin' = [fin EXCEPT !.pc = "confirm"] /\ UNCHANGED <<cand, gws, scheds, crossed>>
  <2>1. /\ DOMAIN fin' = DOMAIN fin /\ fin'.pc = "confirm" /\ fin'.qr = fin.qr /\ fin'.saved = fin.saved
        /\ fin'.g = fin.g /\ fin'.old = fin.old /\ fin'.osched = fin.osched
    BY <1>4
  <2> QED  BY <1>1, <1>4, <2>1 DEF Schedulers, NobodysYet, OnItsOwn, OldIsIdle, Together,
       Remembered,
           SavedFor, Account!SignedIn, Account!Expiring, Account!Committing
<1> QED  BY <1>2, <1>3, <1>4 DEF Account!Identify, Account!Confirm

(* The commit itself. *)
LEMMA AccSwapKeeps ==
  ASSUME Numbered, AccInv, Account!CommitSwap PROVE AccInv'
<1> USE DEF AccInv, AccTypes
<1>1. /\ fin.pc = "quiet" /\ bound' = fin.g /\ gw' = fin.g /\ sched' = fin.g
      /\ accDisk' = gws[fin.g].acct /\ mem' = gws[fin.g].acct
      /\ UNCHANGED <<gws, scheds, cand, asking, mon, crossed>>
  BY DEF Account!CommitSwap
<1>2. /\ DOMAIN fin' = DOMAIN fin /\ fin'.pc = "activate" /\ fin'.qr = fin.qr /\ fin'.saved
      /\ fin'.g = fin.g /\ fin'.old = fin.old /\ fin'.osched = fin.osched /\ fin'.omem = fin.omem
  BY DEF Account!CommitSwap
<1>3. AccTypes' /\ NobodysYet' /\ OldIsIdle'
  BY <1>1, <1>2 DEF Schedulers, NobodysYet, OldIsIdle
<1>4. OnItsOwn'
  BY <1>1, <1>2 DEF OnItsOwn, Account!Committing
<1>5. ~crossed' => Together' /\ Remembered' /\ SavedFor(gw, mem)' /\ SavedFor(gw, accDisk)'
  BY <1>1, <1>2 DEF Together, Remembered, SavedFor, Account!SignedIn, Account!Expiring,
     Account!Committing
<1> QED  BY <1>3, <1>4, <1>5

(* The pages are told, and the commit is complete. *)
LEMMA AccActivateKeeps ==
  ASSUME Numbered, AccInv, Account!CommitActivate \/ Account!CommitDone PROVE AccInv'
<1> USE DEF AccInv, AccTypes
<1>1. /\ \/ fin.pc = "activate" /\ fin'.pc = "resume" /\ UNCHANGED cand
         \/ fin.pc = "resume" /\ fin'.pc = "cleanup" /\ cand' = 0
      /\ UNCHANGED <<gw, bound, sched, accDisk, mem, gws, scheds, asking, mon, crossed>>
  BY DEF Account!CommitActivate, Account!CommitDone
<1>2. /\ DOMAIN fin' = DOMAIN fin /\ fin'.qr = fin.qr /\ fin'.saved = fin.saved
      /\ fin'.g = fin.g /\ fin'.old = fin.old /\ fin'.osched = fin.osched /\ fin'.omem = fin.omem
  BY DEF Account!CommitActivate, Account!CommitDone
<1>3. AccTypes'
  BY <1>1, <1>2 DEF Schedulers, Slots
<1>4. NobodysYet' /\ OldIsIdle'
  BY <1>1, <1>2 DEF NobodysYet, OldIsIdle, Numbered
<1>5. OnItsOwn'
  BY <1>1, <1>2 DEF OnItsOwn, Account!Committing
<1>6. ~crossed' => Together' /\ Remembered' /\ SavedFor(gw, mem)' /\ SavedFor(gw, accDisk)'
  BY <1>1, <1>2 DEF Together, Remembered, SavedFor, Account!SignedIn, Account!Expiring,
     Account!Committing
<1> QED  BY <1>3, <1>4, <1>5, <1>6

(* What is cleared up afterwards. *)
LEMMA AccCleanupKeeps ==
  ASSUME Numbered, AccInv, Account!CommitCleanup \/ Account!CommitClose \/ Account!Undo PROVE AccInv'
<1> USE DEF AccInv, AccTypes
<1>1. SameAccounts
  <2>1. CASE Account!CommitCleanup
    BY <2>1 DEF Account!CommitCleanup, SameAccounts
  <2>2. CASE Account!CommitClose \/ Account!Undo
    BY <2>2, DisconnectedOnly DEF Account!CommitClose, Account!Undo, Account!Discard
  <2> QED  BY <2>1, <2>2
<1>2. Schedulers'
  <2>1. ASSUME NEW s \in Slots, scheds' = Account!Shut(s) PROVE Schedulers'
    <3>1. /\ DOMAIN scheds' = Slots /\ \A t \in Slots \ {s} : scheds'[t] = scheds[t]
          /\ scheds'[s] = [open |-> FALSE, active |-> 0]
      BY <2>1 DEF Schedulers, Account!Shut
    <3>2. /\ DOMAIN scheds'[s] = {"open", "active"} /\ ~scheds'[s].open /\ scheds'[s].active = 0
          /\ scheds'[s].open \in BOOLEAN
      BY <3>1
    <3>3. s \in Slots /\ scheds'[s].active \in Nat
      BY <2>1, <3>2
    <3> QED  BY <3>1, <3>2, <3>3, SchedulersStay, Zenon
  <2> QED  BY <2>1 DEF Account!CommitCleanup, Account!CommitClose, Account!Undo, Account!svc,
       Schedulers
<1>3. /\ DOMAIN fin' = {"pc", "g", "qr", "old", "osched", "omem", "saved"}
      /\ fin'.pc \in {"idle", "close"}
      /\ fin'.g \in {0, fin.g} /\ fin'.old \in {0, fin.old} /\ fin'.osched \in {0, fin.osched}
  <2>1. CASE fin' = Account!Idle
    BY <2>1 DEF Account!Idle
  <2>2. CASE fin' = [fin EXCEPT !.pc = "close"]
    BY <2>2
  <2> QED  BY <2>1, <2>2 DEF Account!CommitCleanup, Account!CommitClose, Account!Undo
<1>4. /\ fin.pc \in {"cleanup", "close", "undo"} /\ cand' \in {0, cand} /\ (asking' => cand' = 0)
      /\ UNCHANGED <<gw, bound, sched, mem, accDisk, mon, crossed>>
  BY DEF Account!CommitCleanup, Account!CommitClose, Account!Undo, Account!Discard, Account!svc,
     OnItsOwn
<1> QED  BY <1>1, <1>2, <1>3, <1>4, AccEndKeeps DEF Account!Committing

(* The roll-back, after a failure or a cancellation. *)
LEMMA AccRestoreKeeps ==
  ASSUME Numbered, AccInv, Account!Committing, Account!Restore,
         UNCHANGED <<gws, cand, asking, mon, crossed>>
  PROVE  AccInv'
<1> USE DEF AccInv, AccTypes
<1>1. /\ gw' = fin.old /\ sched' = fin.osched /\ mem' = fin.omem /\ bound' = fin.old
      /\ accDisk' = IF fin.saved THEN fin.omem ELSE accDisk
      /\ scheds' = [scheds EXCEPT ![fin.osched].open = (fin.osched # 0)]
  BY DEF Account!Restore, Account!Opened
<1>2. /\ DOMAIN fin' = DOMAIN fin /\ fin'.pc = "undo" /\ fin'.qr = fin.qr
      /\ fin'.g = fin.g /\ fin'.old = fin.old /\ fin'.osched = fin.osched
  BY DEF Account!Restore
<1>3. Schedulers'
  <2>1. /\ DOMAIN scheds' = Slots /\ \A t \in Slots \ {fin.osched} : scheds'[t] = scheds[t]
        /\ DOMAIN scheds'[fin.osched] = {"open", "active"}
        /\ scheds'[fin.osched].open = (fin.osched # 0)
        /\ scheds'[fin.osched].active = scheds[fin.osched].active
    BY <1>1 DEF Schedulers
  <2>2. scheds'[fin.osched].open \in BOOLEAN /\ scheds'[fin.osched].active \in Nat
    BY <2>1 DEF Schedulers
  <2>3. fin.osched = 0 => ~scheds'[fin.osched].open /\ scheds'[fin.osched].active = 0
    BY <2>1 DEF Schedulers
  <2>4. DOMAIN scheds'[fin.osched] = {"open", "active"} /\ fin.osched \in Slots
    BY <2>1
  <2> QED  BY <2>1, <2>2, <2>3, <2>4, SchedulersStay, Zenon
<1>4. AccTypes' /\ NobodysYet' /\ OldIsIdle'
  BY <1>1, <1>2, <1>3 DEF NobodysYet, OldIsIdle
<1>5. OnItsOwn'
  BY <1>1, <1>2 DEF OnItsOwn, Account!Committing
<1>6. ~crossed' => Together' /\ Remembered' /\ SavedFor(gw, mem)' /\ SavedFor(gw, accDisk)'
  BY <1>1, <1>2 DEF Together, Remembered, SavedFor, Account!SignedIn, Account!Expiring,
     Account!Committing
<1> QED  BY <1>4, <1>5, <1>6

(* A commit that fails, and the dialog that is closed. *)
LEMMA AccCancelKeeps ==
  ASSUME Numbered, AccInv, Account!CommitFails \/ Account!CancelLogin \/ Account!CancelEnds PROVE AccInv'
<1> USE DEF AccInv, AccTypes
<1>1. CASE Account!CommitFails
  BY <1>1, AccRestoreKeeps DEF Account!CommitFails
<1>2. CASE Account!CancelLogin
  <2>1. UNCHANGED <<gws, cand, asking, mon>> /\ crossed' = (crossed \/ Account!Unsaved)
    BY <1>2 DEF Account!CancelLogin
  <2>2. CASE fin.qr /\ Account!Committing
    <3>1. UNCHANGED crossed
      BY <2>1, <2>2 DEF Account!Unsaved, Account!Committing
    <3> QED  BY <1>2, <2>1, <2>2, <3>1, AccRestoreKeeps DEF Account!CancelLogin
  <2>3. CASE fin.qr /\ ~Account!Committing
    <3>1. SameAccounts
      BY <2>1 DEF SameAccounts
    <3>2. fin' = Account!Idle /\ UNCHANGED <<gw, sched, mem, bound, accDisk, scheds>>
      BY <1>2, <2>3 DEF Account!CancelLogin
    <3> QED  BY <2>1, <2>3, <3>1, <3>2, AccEndKeeps DEF Account!Idle, Account!Unsaved, OnItsOwn,
         Schedulers
  <2>4. CASE ~fin.qr
    <3>1. SameAccounts
      BY <2>1 DEF SameAccounts
    <3>2. UNCHANGED <<fin, gw, sched, mem, bound, accDisk, scheds, crossed>>
      BY <1>2, <2>1, <2>4 DEF Account!CancelLogin, Account!Unsaved
    <3> QED  BY <2>1, <3>1, <3>2, AccAsideKeeps DEF OnItsOwn
  <2> QED  BY <2>2, <2>3, <2>4
<1>3. CASE Account!CancelEnds
  <2>1. SameAccounts
    BY <1>3, DisconnectedOnly DEF Account!CancelEnds, Account!Discard
  <2> QED  BY <1>3, <2>1, AccAsideKeeps DEF Account!CancelEnds, Account!Discard, Account!svc,
       OnItsOwn
<1> QED  BY <1>1, <1>2, <1>3

-----------------------------------------------------------------------------
(* The handler of an expired session. *)
LEMMA AccOfflineKeeps ==
  ASSUME Numbered, AccInv, Account!ExpireOffline \/ Account!ExpireShut PROVE AccInv'
<1> USE DEF AccInv, AccTypes
<1>1. CASE Account!ExpireOffline
  <2>1. /\ mon.pc = "quiet" /\ bound' = 0 /\ gw' = 0 /\ sched' = 0
        /\ DOMAIN mon' = {"pc", "g", "osched"} /\ mon'.pc = "shut" /\ mon'.g = gw /\ mon'.osched = sched
        /\ crossed' = (crossed \/ Account!Committing)
        /\ UNCHANGED <<gws, scheds, cand, asking, fin>>
    BY <1>1 DEF Account!ExpireOffline
  <2>2. AccTypes'
    BY <2>1 DEF Schedulers, Slots
  <2>3. NobodysYet' /\ OldIsIdle'
    BY <2>1 DEF NobodysYet, OldIsIdle, Numbered
  <2>4. OnItsOwn'
    BY <2>1 DEF OnItsOwn, Account!Committing
  <2>5. ~crossed' => Together' /\ Remembered' /\ SavedFor(gw, mem)' /\ SavedFor(gw, accDisk)'
    BY <2>1 DEF Together, Remembered, SavedFor, Account!SignedIn, Account!Expiring,
       Account!Committing
  <2> QED  BY <2>2, <2>3, <2>4, <2>5
<1>2. CASE Account!ExpireShut
  <2>1. /\ mon.pc = "shut" /\ scheds' = [scheds EXCEPT ![mon.osched] = [open |-> FALSE, active |-> 0]]
        /\ DOMAIN mon' = {"pc", "g", "osched"} /\ mon'.pc = "fresh" /\ mon'.g = mon.g
        /\ mon'.osched = mon.osched
        /\ UNCHANGED <<gws, gw, bound, sched, accDisk, mem, cand, asking, fin, crossed>>
    BY <1>2 DEF Account!ExpireShut, Account!Shut
  <2>2. Schedulers' /\ OldIsIdle'
    <3>1. /\ DOMAIN scheds' = Slots /\ \A t \in Slots \ {mon.osched} : scheds'[t] = scheds[t]
          /\ scheds'[mon.osched] = [open |-> FALSE, active |-> 0]
      BY <2>1 DEF Schedulers
    <3>2. /\ DOMAIN scheds'[mon.osched] = {"open", "active"} /\ scheds'[mon.osched].open \in BOOLEAN
          /\ ~scheds'[mon.osched].open /\ scheds'[mon.osched].active = 0
      BY <3>1
    <3>3. Schedulers'
      <4>1. mon.osched \in Slots /\ scheds'[mon.osched].active \in Nat
        BY <3>2
      <4> QED  BY <3>1, <3>2, <4>1, SchedulersStay, Zenon
    <3>4. OldIsIdle'
      BY <3>1, <3>2, <2>1 DEF OldIsIdle
    <3> QED  BY <3>3, <3>4
  <2>3. AccTypes' /\ NobodysYet' /\ OnItsOwn'
    BY <2>1, <2>2 DEF NobodysYet, OnItsOwn, Account!Committing
  <2>4. ~crossed' => /\ Together' /\ Remembered'
                     /\ fin'.pc # "first" => SavedFor(gw, mem)' /\ SavedFor(gw, accDisk)'
    BY <2>1 DEF Together, Remembered, SavedFor, Account!SignedIn, Account!Expiring,
       Account!Committing
  <2> QED  BY <2>2, <2>3, <2>4
<1> QED  BY <1>1, <1>2

(* A fresh gateway, which nobody else has. *)
LEMMA AccFreshKeeps ==
  ASSUME Numbered, AccInv, Account!ExpireFresh PROVE AccInv'
<1> USE DEF AccInv, AccTypes
<1> DEFINE f == Account!Fresh
<1>1. /\ f \in Gateways /\ ~gws[f].made /\ f # 0 /\ gws[f].acct = Account!None
      /\ f \notin {gw, bound, sched, cand, fin.g, fin.old, fin.osched, mon.g, mon.osched}
  BY FreshIsUnmade DEF Account!ExpireFresh, Account!Unmade, NobodysYet, Numbered
<1>2. gws' = [Account!Disconnected(mon.g) EXCEPT ![f] = [@ EXCEPT !.made = TRUE]]
  BY DEF Account!ExpireFresh
<1>3. SameAccountsBut(f) /\ gws'[f].acct = Account!None
  <2>1. /\ DOMAIN Account!Disconnected(mon.g) = Gateways
        /\ \A g \in Gateways : /\ DOMAIN Account!Disconnected(mon.g)[g] = {"made", "up", "revoked", "acct"}
                               /\ Account!Disconnected(mon.g)[g].acct = gws[g].acct
                               /\ Account!Disconnected(mon.g)[g].made = gws[g].made
    BY DEF Account!Disconnected
  <2> HIDE DEF f
  <2> QED  BY <1>1, <1>2, <2>1 DEF SameAccountsBut
<1>4. /\ mon.pc = "fresh" /\ gw' = f /\ DOMAIN mon' = {"pc", "g", "osched"} /\ mon'.pc = "bind"
      /\ mon'.g = f /\ mon'.osched = mon.osched
      /\ UNCHANGED <<bound, scheds, sched, accDisk, mem, cand, asking, fin, crossed>>
  BY DEF Account!ExpireFresh
<1> HIDE DEF f
<1>5. AccTypes'
  BY <1>1, <1>3, <1>4 DEF Schedulers, SameAccountsBut, Slots
<1>6. NobodysYet' /\ OldIsIdle'
  BY <1>1, <1>3, <1>4 DEF NobodysYet, OldIsIdle, SameAccountsBut
<1>7. OnItsOwn'
  BY <1>1, <1>4 DEF OnItsOwn, Account!Committing
<1>8. ~crossed' => Together' /\ Remembered' /\ SavedFor(gw, mem)' /\ SavedFor(gw, accDisk)'
  BY <1>1, <1>3, <1>4 DEF Together, Remembered, SavedFor, Account!SignedIn, Account!Expiring,
     Account!Committing
<1> QED  BY <1>5, <1>6, <1>7, <1>8

(* ... that everything is bound to. *)
LEMMA AccBindKeeps ==
  ASSUME Numbered, AccInv, Account!ExpireBind PROVE AccInv'
<1> USE DEF AccInv, AccTypes
<1>1. /\ mon.pc = "bind" /\ bound' = mon.g /\ sched' = mon.g
      /\ scheds' = [scheds EXCEPT ![mon.g].open = (mon.g # 0)]
      /\ UNCHANGED <<gw, accDisk, mem, cand, asking, fin, crossed>>
  BY DEF Account!ExpireBind, Account!Opened
<1>2. DOMAIN mon' = {"pc", "g", "osched"} /\ mon'.pc = "idle" /\ mon'.g = 0 /\ mon'.osched = 0
  BY DEF Account!ExpireBind, Account!Rested
<1>3. SameAccounts
  BY DEF Account!ExpireBind, SameAccounts
<1>4. mon.g # 0 /\ mon.g \notin {sched, cand, fin.osched}
  BY <1>1 DEF OnItsOwn
<1>5. Schedulers' /\ OldIsIdle'
  <2>1. /\ DOMAIN scheds' = Slots /\ \A t \in Slots \ {mon.g} : scheds'[t] = scheds[t]
        /\ DOMAIN scheds'[mon.g] = {"open", "active"} /\ scheds'[mon.g].open \in BOOLEAN
        /\ scheds'[mon.g].active = scheds[mon.g].active
    BY <1>1 DEF Schedulers
  <2>2. scheds'[mon.g].active \in Nat
    BY <2>1 DEF Schedulers
  <2>3. Schedulers'
    BY <2>1, <2>2, <1>4, SchedulersStay
  <2>4. OldIsIdle'
    BY <2>1, <1>1, <1>4 DEF OldIsIdle
  <2> QED  BY <2>3, <2>4
<1>6. AccTypes' /\ NobodysYet'
  BY <1>1, <1>2, <1>3, <1>5 DEF NobodysYet, SameAccounts, Slots, Numbered
<1>7. OnItsOwn'
  BY <1>1, <1>2, <1>4 DEF OnItsOwn, Account!Committing
<1>8. ~crossed' => Together' /\ Remembered'
  BY <1>1, <1>2 DEF Together, Remembered, Account!Expiring, Account!Committing
<1>9. ~crossed' /\ fin'.pc # "first" => SavedFor(gw, mem)' /\ SavedFor(gw, accDisk)'
  BY <1>1, <1>3 DEF SavedFor, Account!SignedIn, SameAccounts, Slots
<1> QED  BY <1>5, <1>6, <1>7, <1>8, <1>9

-----------------------------------------------------------------------------
LEMMA AccStep == ASSUME Numbered, AccInv, [Account!Next]_(Account!vars) PROVE AccInv'
<1>1. CASE UNCHANGED Account!vars
  BY <1>1 DEF Account!vars, AccInv, AccTypes, Schedulers, NobodysYet, OnItsOwn, OldIsIdle, Together,
     Remembered, SavedFor, Account!SignedIn, Account!Expiring, Account!Committing
<1>2. CASE Account!Next
  BY <1>2, AccDownloadKeeps, AccMonitorKeeps, AccFirstKeeps, AccCandidateKeeps, AccSignInKeeps,
     AccIdentifyKeeps, AccSwapKeeps, AccActivateKeeps, AccCleanupKeeps, AccCancelKeeps,
     AccOfflineKeeps, AccFreshKeeps, AccBindKeeps DEF Account!Next, Account!Finish, Account!Expire
<1> QED  BY <1>1, <1>2

(* However many gateways, accounts and downloads there are, and whatever     *)
(* interferes: changing the account never ends a download that runs for the  *)
(* old one.                                                                    *)
THEOREM NoDownloadIsCut == ASSUME Numbered PROVE Account!Spec => []SwitchCutsNothing
<1>1. Account!Init => AccInv
  BY AccInit
<1>2. AccInv /\ [Account!Next]_(Account!vars) => AccInv'
  BY AccStep
<1>3. AccInv => SwitchCutsNothing
  BY AccPromised
<1> QED  BY <1>1, <1>2, <1>3, PTL DEF Account!Spec

(* ... and between log-ins that did not cross with an expiry, the content    *)
(* pages, the subscriptions, the scheduler and the saved session are those of  *)
(* the current gateway.                                                         *)
THEOREM OneAccountForAll == ASSUME Numbered PROVE Account!Spec => []Coherent
<1>1. Account!Init => AccInv
  BY AccInit
<1>2. AccInv /\ [Account!Next]_(Account!vars) => AccInv'
  BY AccStep
<1>3. AccInv => Coherent
  BY AccPromised
<1> QED  BY <1>1, <1>2, <1>3, PTL DEF Account!Spec

-----------------------------------------------------------------------------
(***************************************************************************)
(* UpdateTransaction, for every pair of runtimes and any number of stops   *)
(* and failures: one whole runtime.                                        *)
(***************************************************************************)

(* What a roll-back along the lists of j can put back: nothing new lies    *)
(* where j has installed nothing, every old file is in place or in the     *)
(* backup that j lists, and none lies where the roll-back will remove.     *)
Undoable(j) ==
  /\ \A f \in Update!Managed : root[f] = "new" => f \in Update!Range(j.installed)
  /\ \A f \in Update!Range(OldFiles) : root[f] = "old" \/ (backup[f] = "old" /\ f \in Update!Range(j.backedUp))
  /\ \A f \in Update!Range(OldFiles) \cap Update!Range(j.installed) : root[f] # "old"

(* The journal's file lists what the dict in memory lists.                 *)
UpdateRecorded == \A j \in disk : j.backedUp = journal.backedUp /\ j.installed = journal.installed

(* Files are of the runtimes, and there is at most one journal.            *)
UpdateTypes ==
  /\ root \in [Update!Managed -> Update!Content]
  /\ backup \in [Update!Managed -> {"none", "old"}]
  /\ extraction \in [Update!Managed -> {"none", "new"}]
  /\ journal \in Update!Journals /\ disk \subseteq Update!Journals
  /\ \A j, k \in disk : j = k
  /\ helper \in Update!Trying \cup {"idle", "wait", "unlink", "restore", "rmBackup", "rmJournal", "relaunch"}
  /\ spot \in Nat
  /\ \A f \in Update!Managed : /\ root[f] = "old" => f \in Update!Range(OldFiles)
                               /\ root[f] = "new" => f \in Update!Range(NewFiles)

(* The old files before place k are in the backup, the others in place,    *)
(* and no new file is.                                                     *)
OutUpTo(k) ==
  /\ journal.installed = <<>> /\ journal.state # "committed"
  /\ \A f \in Update!Managed : root[f] # "new"
  /\ \A f \in Update!Range(NewFiles) : extraction[f] = "new"
  /\ \A n \in 1 .. Len(OldFiles) : IF n < k THEN /\ backup[OldFiles[n]] = "old"
                                                 /\ OldFiles[n] \in Update!Range(journal.backedUp)
                                                 /\ root[OldFiles[n]] # "old"
                                            ELSE root[OldFiles[n]] = "old"

(* All old files are in the backup, the new ones before place k in place.  *)
InUpTo(k) ==
  /\ \A f \in Update!Range(OldFiles) : backup[f] = "old" /\ root[f] # "old" /\ f \in Update!Range(journal.backedUp)
  /\ \A f \in Update!Managed : root[f] = "new" => f \in Update!Range(journal.installed)
  /\ \A n \in 1 .. Len(NewFiles) : IF n < k THEN root[NewFiles[n]] = "new"
                                            ELSE extraction[NewFiles[n]] = "new"

UpdatePending == disk # {} /\ \A j \in disk : j.state # "committed"

(* A rename that the journal's file does not have yet. *)
Ahead(list, written) == \E f \in Update!Managed : list = Append(written, f)

UpdateForward ==
  /\ helper = "backup" => OutUpTo(spot) /\ spot >= 1 /\ spot <= Len(OldFiles) + 1 /\ UpdatePending /\ UpdateRecorded
  /\ helper = "noteBackup" =>
           /\ OutUpTo(spot + 1) /\ spot \in 1 .. Len(OldFiles) /\ UpdatePending
           /\ \A j \in disk : Ahead(journal.backedUp, j.backedUp)
  /\ helper = "install" => InUpTo(spot) /\ spot >= 1 /\ UpdatePending /\ UpdateRecorded /\ journal.state # "committed"
  /\ helper = "noteInstall" =>
           /\ InUpTo(spot + 1) /\ spot \in 1 .. Len(NewFiles) /\ UpdatePending /\ journal.state # "committed"
           /\ \A j \in disk : Ahead(journal.installed, j.installed)
  /\ helper = "commit" => InUpTo(Len(NewFiles) + 1) /\ UpdatePending /\ UpdateRecorded /\ journal.state = "committed"
  /\ helper = "committed" => InUpTo(Len(NewFiles) + 1) /\ disk = {journal} /\ journal.state = "committed"
  /\ helper = "clean" => InUpTo(Len(NewFiles) + 1) /\ disk = {}

(* Every old file is in place, or will be when the roll-back gets below k. *)
BackUpTo(k) ==
  /\ \A f \in Update!Managed : root[f] # "new"
  /\ \A f \in Update!Range(OldFiles) :
       root[f] = "old" \/ (backup[f] = "old" /\ \E n \in 1 .. k : journal.backedUp[n] = f)

UpdateBackward ==
  /\ helper = "unlink" =>
           /\ Undoable(journal) /\ spot <= Len(journal.installed)
           /\ \A n \in 1 .. Len(journal.installed) : n > spot => root[journal.installed[n]] # "new"
  /\ helper = "restore" => BackUpTo(spot) /\ spot <= Len(journal.backedUp)
  /\ helper \in {"rmBackup", "rmJournal", "relaunch"} => Update!IsOld(root)
  /\ helper = "relaunch" => disk = {}

(* Where no helper runs. *)
AtHome ==
  /\ helper = "wait" => Update!IsOld(root) /\ disk = {}
  /\ helper = "idle" =>
           /\ disk = {} => Update!IsOld(root) \/ (Update!IsNew(root) /\ \A f \in Update!Range(OldFiles) : backup[f] = "old")
           /\ \A j \in disk : IF j.state = "committed"
                              THEN Update!IsNew(root) /\ \A f \in Update!Range(OldFiles) : backup[f] = "old"
                              ELSE Undoable(j)

RuntimeInv == UpdateTypes /\ UpdateForward /\ UpdateBackward /\ AtHome /\ Update!LaunchesWhole

LEMMA InRange ==
  ASSUME NEW S, NEW s \in Seq(S), NEW e \in S
  PROVE  /\ \A n \in 1 .. Len(s) : s[n] \in Update!Range(s) /\ s[n] \in S
         /\ \A x \in Update!Range(s) : x \in S /\ \E n \in 1 .. Len(s) : s[n] = x
         /\ Append(s, e) \in Seq(S) /\ Append(s, e) # s
         /\ \A x : x \in Update!Range(Append(s, e)) <=> x \in Update!Range(s) \/ x = e
<1>1. Append(s, e) \in Seq(S) /\ Len(Append(s, e)) = Len(s) + 1
      /\ \A n \in 1 .. Len(s) + 1 : Append(s, e)[n] = IF n = Len(s) + 1 THEN e ELSE s[n]
  OBVIOUS
<1>2. DOMAIN s = 1 .. Len(s) /\ DOMAIN Append(s, e) = 1 .. Len(s) + 1 /\ Len(s) \in Nat
  BY <1>1
<1>3. \A n \in 1 .. Len(s) : s[n] \in Update!Range(s) /\ s[n] \in S
  BY <1>2 DEF Update!Range
<1>4. \A x \in Update!Range(s) : x \in S /\ \E n \in 1 .. Len(s) : s[n] = x
  BY <1>2 DEF Update!Range
<1>5. \A n \in Nat : n + 1 # n
  OBVIOUS
<1>6. \A x : x \in Update!Range(Append(s, e)) => x \in Update!Range(s) \/ x = e
  BY <1>1, <1>2 DEF Update!Range
<1>7. \A x : x \in Update!Range(s) => x \in Update!Range(Append(s, e))
  <2>1. SUFFICES ASSUME NEW n \in 1 .. Len(s) PROVE s[n] \in Update!Range(Append(s, e))
    BY <1>4
  <2>2. s[n] = Append(s, e)[n] /\ n \in DOMAIN Append(s, e)
    BY <1>1, <1>2
  <2> QED
    BY <2>2 DEF Update!Range
<1>8. e \in Update!Range(Append(s, e))
  BY <1>1, <1>2 DEF Update!Range
<1> QED
  <2>1. Append(s, e) # s
    BY <1>1, <1>2, <1>5, Zenon
  <2> QED
    BY <1>1, <1>3, <1>4, <2>1, <1>6, <1>7, <1>8

LEMMA Appended ==
  ASSUME NEW S, NEW s \in Seq(S), NEW e \in S
  PROVE  Append(s, e) # s /\ \A x : x \in Update!Range(Append(s, e)) <=> x \in Update!Range(s) \/ x = e
BY InRange

(* What the assumptions say of the two runtimes. *)
LEMMA Runtimes ==
  /\ Len(OldFiles) \in Nat /\ Len(NewFiles) \in Nat
  /\ \A n \in 1 .. Len(OldFiles) : OldFiles[n] \in Update!Range(OldFiles)
  /\ \A n \in 1 .. Len(NewFiles) : NewFiles[n] \in Update!Range(NewFiles)
  /\ \A f \in Update!Range(OldFiles) : \E n \in 1 .. Len(OldFiles) : OldFiles[n] = f
  /\ \A f \in Update!Range(NewFiles) : \E n \in 1 .. Len(NewFiles) : NewFiles[n] = f
  /\ \A m, n \in 1 .. Len(OldFiles) : OldFiles[m] = OldFiles[n] => m = n
  /\ \A m, n \in 1 .. Len(NewFiles) : NewFiles[m] = NewFiles[n] => m = n
  /\ Update!Range(OldFiles) \subseteq Update!Managed /\ Update!Range(NewFiles) \subseteq Update!Managed
  /\ Update!Manifest \in Update!Range(OldFiles) /\ Exe \in Update!Range(OldFiles)
<1>1. DOMAIN OldFiles = 1 .. Len(OldFiles) /\ DOMAIN NewFiles = 1 .. Len(NewFiles)
      /\ Len(OldFiles) \in Nat /\ Len(NewFiles) \in Nat
  BY UpdateAssumption DEF Update!FilesAssumption
<1>2. Len(OldFiles) \in 1 .. Len(OldFiles)
  BY UpdateAssumption DEF Update!FilesAssumption
<1> QED
  BY <1>1, <1>2, UpdateAssumption DEF Update!FilesAssumption, Update!Range, Update!IsInjective,
     Update!Managed, Update!Manifest

LEMMA RuntimeInvInit == Update!Init => RuntimeInv
BY Runtimes DEF Update!Init, RuntimeInv, UpdateTypes, UpdateForward, UpdateBackward, AtHome,
   Update!LaunchesWhole, Update!IsOld, Update!Is, Update!Empty, Update!Fresh, Update!Content,
   Update!Journals, Update!Trying, Update!Managed

LEMMA UpdateCheckKeeps == ASSUME RuntimeInv, Update!Check PROVE RuntimeInv'
BY Runtimes DEF RuntimeInv, UpdateTypes, UpdateForward, UpdateBackward, AtHome,
   Update!LaunchesWhole, Update!IsOld, Update!IsNew, Update!Is,
                Update!Check, Update!Goes, Update!places, Update!Trying

LEMMA UpdatePrepareKeeps == ASSUME RuntimeInv, Update!Prepare PROVE RuntimeInv'
BY Runtimes DEF RuntimeInv, UpdateTypes, UpdateForward, UpdateBackward, AtHome,
   Update!LaunchesWhole, Update!IsOld, Update!IsNew, Update!Is, Update!Prepare, Update!Goes,
   Update!Trying, Update!Fresh, Update!Empty, Update!Journals, OutUpTo, UpdatePending,
   UpdateRecorded

LEMMA UpdateGivesUpKeeps == ASSUME RuntimeInv, Update!GivesUp PROVE RuntimeInv'
BY Runtimes DEF RuntimeInv, UpdateTypes, UpdateForward, UpdateBackward, AtHome,
   Update!LaunchesWhole, Update!Trying, Update!Goes,
                Update!GivesUp, Update!IsOld, Update!Is, Update!places

LEMMA UpdateNoteBackupKeeps == ASSUME RuntimeInv, Update!NoteBackup PROVE RuntimeInv'
BY Runtimes DEF RuntimeInv, UpdateTypes, UpdateForward, UpdateBackward, AtHome,
   Update!LaunchesWhole, Update!Trying, Update!Goes,
                Update!NoteBackup, OutUpTo, UpdatePending, UpdateRecorded, Update!places

LEMMA UpdateBackedUpKeeps == ASSUME RuntimeInv, Update!BackedUp PROVE RuntimeInv'
<1> USE DEF RuntimeInv
<1>1. helper = "backup" /\ OutUpTo(spot) /\ spot = Len(OldFiles) + 1 /\ UpdatePending /\ UpdateRecorded
  <2>1. helper = "backup" /\ spot > Len(OldFiles) /\ spot \in Nat
    BY DEF Update!BackedUp, UpdateTypes
  <2>2. OutUpTo(spot) /\ spot <= Len(OldFiles) + 1 /\ UpdatePending /\ UpdateRecorded
    BY <2>1 DEF UpdateForward
  <2> QED
    BY <2>1, <2>2, Runtimes
<1>2. helper' = "install" /\ spot' = 1 /\ UNCHANGED <<root, backup, extraction, disk, journal, launched>>
  BY DEF Update!BackedUp, Update!Goes, Update!places
<1>3. \A f \in Update!Range(OldFiles) : backup[f] = "old" /\ root[f] # "old" /\ f \in Update!Range(journal.backedUp)
  BY <1>1, Runtimes DEF OutUpTo
<1>4. InUpTo(1)
  BY <1>1, <1>3, Runtimes DEF OutUpTo, InUpTo
<1>5. UpdateTypes'
  BY <1>2 DEF UpdateTypes, Update!Trying
<1>6. InUpTo(spot)' /\ UpdatePending' /\ UpdateRecorded' /\ journal'.state # "committed"
  BY <1>1, <1>2, <1>4 DEF OutUpTo, InUpTo, UpdatePending, UpdateRecorded
<1> QED
  BY <1>2, <1>5, <1>6 DEF UpdateForward, UpdateBackward, AtHome, Update!LaunchesWhole

LEMMA UpdateNoteInstallKeeps == ASSUME RuntimeInv, Update!NoteInstall PROVE RuntimeInv'
BY Runtimes DEF RuntimeInv, UpdateTypes, UpdateForward, UpdateBackward, AtHome,
   Update!LaunchesWhole, Update!Trying, Update!Goes,
                Update!NoteInstall, InUpTo, UpdatePending, UpdateRecorded, Update!places

LEMMA UpdateHealthyKeeps == ASSUME RuntimeInv, Update!Healthy PROVE RuntimeInv'
<1> USE DEF RuntimeInv
<1>1. /\ helper = "install" /\ InUpTo(spot) /\ spot > Len(NewFiles) /\ spot \in Nat /\ UpdatePending /\ UpdateRecorded
      /\ journal \in Update!Journals
  BY DEF Update!Healthy, UpdateForward, UpdateTypes
<1>2. /\ helper' = "commit" /\ spot' = 0 /\ UNCHANGED <<root, backup, extraction, disk, launched>>
      /\ journal' = [journal EXCEPT !.state = "committed"]
  BY DEF Update!Healthy, Update!Goes, Update!places
<1>3. /\ journal' \in Update!Journals /\ journal'.state = "committed"
      /\ journal'.backedUp = journal.backedUp /\ journal'.installed = journal.installed
  BY <1>1, <1>2 DEF Update!Journals
<1>4. InUpTo(Len(NewFiles) + 1)
  BY <1>1, Runtimes DEF InUpTo
<1>5. UpdateTypes'
  BY <1>2, <1>3 DEF UpdateTypes, Update!Trying
<1>6. InUpTo(Len(NewFiles) + 1)' /\ UpdatePending' /\ UpdateRecorded'
  BY <1>1, <1>2, <1>3, <1>4 DEF InUpTo, UpdatePending, UpdateRecorded
<1> QED
  BY <1>2, <1>3, <1>5, <1>6 DEF UpdateForward, UpdateBackward, AtHome, Update!LaunchesWhole

LEMMA UpdateCommitKeeps == ASSUME RuntimeInv, Update!Commit PROVE RuntimeInv'
BY Runtimes DEF RuntimeInv, UpdateTypes, UpdateForward, UpdateBackward, AtHome,
   Update!LaunchesWhole, Update!Trying, Update!Goes,
                Update!Commit, InUpTo, UpdatePending, UpdateRecorded, Update!places

LEMMA UpdateCloseKeeps == ASSUME RuntimeInv, Update!Close PROVE RuntimeInv'
BY Runtimes DEF RuntimeInv, UpdateTypes, UpdateForward, UpdateBackward, AtHome,
   Update!LaunchesWhole, Update!Trying, Update!Goes,
                Update!Close, InUpTo, Update!places

LEMMA UpdateCleanKeeps == ASSUME RuntimeInv, Update!Clean PROVE RuntimeInv'
<1> USE DEF RuntimeInv
<1>1. helper = "clean" /\ InUpTo(Len(NewFiles) + 1) /\ disk = {}
  BY DEF Update!Clean, UpdateForward
<1>2. /\ helper' = "idle" /\ spot' = 0 /\ extraction' = Update!Empty /\ launched' = {root}
      /\ UNCHANGED <<root, backup, disk, journal>>
  BY DEF Update!Clean, Update!Goes
<1>3. UpdateTypes'
  BY <1>2 DEF UpdateTypes, Update!Empty
<1>4. Update!IsNew(root) /\ \A f \in Update!Range(OldFiles) : backup[f] = "old"
  <2>1. \A f \in Update!Range(NewFiles) : root[f] = "new"
    BY <1>1, Runtimes DEF InUpTo
  <2> QED
    BY <1>1, <2>1, Runtimes DEF InUpTo, Update!IsNew, Update!Is, UpdateTypes
<1>5. Update!IsNew(root)' /\ Update!LaunchesWhole'
  BY <1>2, <1>4 DEF Update!IsNew, Update!Is, Update!LaunchesWhole
<1> QED
  BY <1>1, <1>2, <1>3, <1>4, <1>5 DEF UpdateForward, UpdateBackward, AtHome

(* Wherever the helper gives an update up, what it did can be undone.      *)
LEMMA TryingIsUndoable == ASSUME RuntimeInv, helper \in Update!Trying PROVE Undoable(journal)
<1> USE DEF RuntimeInv
<1>1. ASSUME NEW k \in Nat, OutUpTo(k) PROVE Undoable(journal)
  <2>1. \A f \in Update!Range(OldFiles) : root[f] = "old" \/ (backup[f] = "old" /\ f \in Update!Range(journal.backedUp))
    BY <1>1, Runtimes DEF OutUpTo
  <2>2. Update!Range(journal.installed) = {}
    BY <1>1 DEF OutUpTo, Update!Range
  <2> QED
    BY <1>1, <2>1, <2>2 DEF OutUpTo, Undoable
<1>2. ASSUME NEW k \in Nat, InUpTo(k) PROVE Undoable(journal)
  BY <1>2 DEF InUpTo, Undoable
<1> QED
  BY <1>1, <1>2, Runtimes DEF Update!Trying, UpdateForward, UpdateTypes

LEMMA UpdateRollbackKeeps ==
  ASSUME RuntimeInv, helper \in Update!Trying, Update!Rollback, UNCHANGED <<Update!places, disk, journal, launched>>
  PROVE  RuntimeInv'
<1> USE DEF RuntimeInv
<1>1. helper' = "unlink" /\ spot' = Len(journal.installed) /\ spot' \in Nat
  BY DEF Update!Rollback, Update!Goes, UpdateTypes, Update!Journals
<1>2. UpdateTypes'
  BY <1>1 DEF UpdateTypes, Update!places
<1>3. Undoable(journal)'
  BY TryingIsUndoable DEF Undoable, Update!places
<1>4. Update!LaunchesWhole'
  BY DEF Update!LaunchesWhole
<1> QED
  BY <1>1, <1>2, <1>3, <1>4 DEF UpdateForward, UpdateBackward, AtHome

LEMMA UpdateUnhealthyKeeps == ASSUME RuntimeInv, Update!Unhealthy PROVE RuntimeInv'
BY UpdateRollbackKeeps DEF Update!Unhealthy, Update!Trying

LEMMA UpdateFailsKeeps == ASSUME RuntimeInv, Update!Fails PROVE RuntimeInv'
BY UpdateRollbackKeeps DEF Update!Fails

LEMMA UpdateBackupKeeps == ASSUME RuntimeInv, Update!Backup PROVE RuntimeInv'
<1> USE DEF RuntimeInv
<1> DEFINE f == OldFiles[spot]
<1>1. /\ helper = "backup" /\ OutUpTo(spot) /\ spot \in 1 .. Len(OldFiles) /\ UpdatePending /\ UpdateRecorded
      /\ journal \in Update!Journals
  BY Runtimes DEF Update!Backup, UpdateForward, UpdateTypes
<1>2. f \in Update!Range(OldFiles) /\ f \in Update!Managed /\ root[f] = "old"
  BY <1>1, Runtimes DEF OutUpTo
<1>3. /\ root' = [root EXCEPT ![f] = "none"] /\ backup' = [backup EXCEPT ![f] = "old"]
      /\ journal' = [journal EXCEPT !.state = "backing-up", !.backedUp = Append(@, f)]
      /\ helper' = "noteBackup" /\ spot' = spot /\ UNCHANGED <<extraction, disk, launched>>
  BY <1>2 DEF Update!Backup, Update!Goes
<1>4. /\ journal' \in Update!Journals /\ journal'.state = "backing-up" /\ journal'.installed = journal.installed
      /\ journal'.backedUp = Append(journal.backedUp, f)
      /\ Append(journal.backedUp, f) # journal.backedUp
      /\ \A x : x \in Update!Range(journal'.backedUp) <=> x \in Update!Range(journal.backedUp) \/ x = f
  <2>1. journal.backedUp \in Seq(Update!Range(OldFiles))
    BY <1>1 DEF Update!Journals
  <2>2. /\ journal'.state = "backing-up" /\ journal'.installed = journal.installed
        /\ journal'.backedUp = Append(journal.backedUp, f)
    BY <1>1, <1>3 DEF Update!Journals
  <2>3. Append(journal.backedUp, f) \in Seq(Update!Range(OldFiles))
    BY <1>2, <2>1
  <2>4. journal' \in Update!Journals
    BY <1>1, <1>3, <2>3 DEF Update!Journals
  <2>5. Append(journal.backedUp, f) # journal.backedUp
    BY <1>2, <2>1, Appended
  <2>6. \A x : x \in Update!Range(Append(journal.backedUp, f)) <=> x \in Update!Range(journal.backedUp) \/ x = f
    BY <1>2, <2>1, Appended
  <2> QED
    BY <2>2, <2>4, <2>5, <2>6
<1>5. UpdateTypes'
  BY <1>2, <1>3, <1>4 DEF UpdateTypes, Update!Content, Update!Trying
<1>6. ASSUME NEW n \in 1 .. Len(OldFiles)
      PROVE  IF n < spot + 1 THEN /\ backup'[OldFiles[n]] = "old"
                                  /\ OldFiles[n] \in Update!Range(journal'.backedUp)
                                  /\ root'[OldFiles[n]] # "old"
                             ELSE root'[OldFiles[n]] = "old"
  <2>1. OldFiles[n] \in Update!Managed /\ (OldFiles[n] = f <=> n = spot)
    BY <1>1, Runtimes
  <2>2. IF n < spot THEN /\ backup[OldFiles[n]] = "old"
                         /\ OldFiles[n] \in Update!Range(journal.backedUp)
                         /\ root[OldFiles[n]] # "old"
                    ELSE root[OldFiles[n]] = "old"
    BY <1>1 DEF OutUpTo
  <2>3. CASE n = spot
    BY <2>1, <2>3, <1>1, <1>2, <1>3, <1>4 DEF UpdateTypes
  <2>4. CASE n # spot
    <3>1. root'[OldFiles[n]] = root[OldFiles[n]] /\ backup'[OldFiles[n]] = backup[OldFiles[n]]
      BY <2>1, <2>4, <1>3 DEF UpdateTypes
    <3> QED
      BY <3>1, <2>2, <2>4, <1>1, <1>4
  <2> QED
    BY <2>3, <2>4
<1>7. \A g \in Update!Managed : root'[g] # "new"
  BY <1>1, <1>2, <1>3 DEF OutUpTo, UpdateTypes
<1>8. OutUpTo(spot + 1)'
  BY <1>1, <1>3, <1>4, <1>6, <1>7 DEF OutUpTo
<1>9. UpdatePending' /\ \A j \in disk' : Ahead(journal'.backedUp, j.backedUp)
  BY <1>1, <1>2, <1>3, <1>4 DEF UpdatePending, UpdateRecorded, Ahead
<1> QED
  BY <1>1, <1>3, <1>5, <1>8, <1>9 DEF UpdateForward, UpdateBackward, AtHome, Update!LaunchesWhole

LEMMA UpdateInstallKeeps == ASSUME RuntimeInv, Update!Install PROVE RuntimeInv'
<1> USE DEF RuntimeInv
<1> DEFINE f == NewFiles[spot]
<1>1. /\ helper = "install" /\ InUpTo(spot) /\ spot \in 1 .. Len(NewFiles) /\ UpdatePending /\ UpdateRecorded
      /\ journal \in Update!Journals /\ journal.state # "committed"
  BY Runtimes DEF Update!Install, UpdateForward, UpdateTypes
<1>2. f \in Update!Range(NewFiles) /\ f \in Update!Managed /\ extraction[f] = "new"
  BY <1>1, Runtimes DEF InUpTo
<1>3. /\ root' = [root EXCEPT ![f] = "new"] /\ extraction' = [extraction EXCEPT ![f] = "none"]
      /\ journal' = [journal EXCEPT !.state = "installing", !.installed = Append(@, f)]
      /\ helper' = "noteInstall" /\ spot' = spot /\ UNCHANGED <<backup, disk, launched>>
  BY <1>2 DEF Update!Install, Update!Goes
<1>4. /\ journal' \in Update!Journals /\ journal'.state = "installing" /\ journal'.backedUp = journal.backedUp
      /\ journal'.installed = Append(journal.installed, f)
      /\ Append(journal.installed, f) # journal.installed
      /\ \A x : x \in Update!Range(journal'.installed) <=> x \in Update!Range(journal.installed) \/ x = f
  <2>1. journal.installed \in Seq(Update!Range(NewFiles))
    BY <1>1 DEF Update!Journals
  <2>2. /\ journal'.state = "installing" /\ journal'.backedUp = journal.backedUp
        /\ journal'.installed = Append(journal.installed, f)
    BY <1>1, <1>3 DEF Update!Journals
  <2>3. Append(journal.installed, f) \in Seq(Update!Range(NewFiles))
    BY <1>2, <2>1
  <2>4. journal' \in Update!Journals
    BY <1>1, <1>3, <2>3 DEF Update!Journals
  <2>5. Append(journal.installed, f) # journal.installed
    BY <1>2, <2>1, Appended
  <2>6. \A x : x \in Update!Range(Append(journal.installed, f)) <=> x \in Update!Range(journal.installed) \/ x = f
    BY <1>2, <2>1, Appended
  <2> QED
    BY <2>2, <2>4, <2>5, <2>6
<1>5. UpdateTypes'
  BY <1>2, <1>3, <1>4 DEF UpdateTypes, Update!Content, Update!Trying
<1>6. ASSUME NEW n \in 1 .. Len(NewFiles)
      PROVE  IF n < spot + 1 THEN root'[NewFiles[n]] = "new" ELSE extraction'[NewFiles[n]] = "new"
  <2>1. NewFiles[n] \in Update!Managed /\ (NewFiles[n] = f <=> n = spot)
    BY <1>1, Runtimes
  <2>2. IF n < spot THEN root[NewFiles[n]] = "new" ELSE extraction[NewFiles[n]] = "new"
    BY <1>1 DEF InUpTo
  <2>3. CASE n = spot
    BY <2>1, <2>3, <1>1, <1>3 DEF UpdateTypes
  <2>4. CASE n # spot
    <3>1. root'[NewFiles[n]] = root[NewFiles[n]] /\ extraction'[NewFiles[n]] = extraction[NewFiles[n]]
      BY <2>1, <2>4, <1>3 DEF UpdateTypes
    <3> QED
      BY <3>1, <2>2, <2>4, <1>1
  <2> QED
    BY <2>3, <2>4
<1>7. \A g \in Update!Managed : root'[g] = "new" => g \in Update!Range(journal'.installed)
  BY <1>1, <1>2, <1>3, <1>4 DEF InUpTo, UpdateTypes
<1>8. \A g \in Update!Range(OldFiles) : backup'[g] = "old" /\ root'[g] # "old" /\ g \in Update!Range(journal'.backedUp)
  BY <1>1, <1>2, <1>3, <1>4, Runtimes DEF InUpTo, UpdateTypes
<1>9. InUpTo(spot + 1)'
  BY <1>3, <1>6, <1>7, <1>8 DEF InUpTo
<1>10. UpdatePending' /\ \A j \in disk' : Ahead(journal'.installed, j.installed)
  BY <1>1, <1>2, <1>3, <1>4 DEF UpdatePending, UpdateRecorded, Ahead
<1> QED
  BY <1>1, <1>3, <1>4, <1>5, <1>9, <1>10 DEF UpdateForward, UpdateBackward, AtHome,
     Update!LaunchesWhole

LEMMA UpdateRecoverKeeps == ASSUME RuntimeInv, Update!Recover PROVE RuntimeInv'
<1> USE DEF RuntimeInv
<1>1. PICK j : disk = {j} /\ j \in Update!Journals
  BY DEF Update!Recover, UpdateTypes
<1>2. CASE j.state = "committed"
  <2>1. disk' = {} /\ helper = "idle" /\ UNCHANGED <<root, backup, extraction, journal, helper, spot, launched>>
    BY <1>1, <1>2 DEF Update!Recover, Update!places
  <2>2. Update!IsNew(root) /\ \A f \in Update!Range(OldFiles) : backup[f] = "old"
    BY <1>1, <1>2, <2>1 DEF AtHome
  <2>3. UpdateTypes' /\ Update!IsNew(root)'
    BY <2>1, <2>2 DEF UpdateTypes, Update!IsNew, Update!Is
  <2> QED
    BY <2>1, <2>2, <2>3 DEF UpdateForward, UpdateBackward, AtHome, Update!LaunchesWhole
<1>3. CASE j.state # "committed"
  <2>1. /\ journal' = j /\ helper' = "unlink" /\ spot' = Len(j.installed)
        /\ UNCHANGED <<root, backup, extraction, disk, launched>>
    BY <1>1, <1>3 DEF Update!Recover, Update!Goes, Update!places
  <2>2. Undoable(j) /\ Len(j.installed) \in Nat
    BY <1>1, <1>3 DEF Update!Recover, AtHome, Update!Journals
  <2>3. UpdateTypes' /\ Undoable(journal)'
    BY <1>1, <2>1, <2>2 DEF UpdateTypes, Undoable
  <2> QED
    BY <2>1, <2>2, <2>3 DEF UpdateForward, UpdateBackward, AtHome, Update!LaunchesWhole
<1> QED
  BY <1>2, <1>3

LEMMA UpdateUnlinkKeeps == ASSUME RuntimeInv, Update!Unlink PROVE RuntimeInv'
<1> USE DEF RuntimeInv
<1>1. /\ helper = "unlink" /\ Undoable(journal) /\ spot \in 0 .. Len(journal.installed) /\ journal \in Update!Journals
      /\ journal.installed \in Seq(Update!Range(NewFiles)) /\ Len(journal.installed) \in Nat
      /\ journal.backedUp \in Seq(Update!Range(OldFiles)) /\ Len(journal.backedUp) \in Nat
      /\ \A n \in 1 .. Len(journal.installed) : n > spot => root[journal.installed[n]] # "new"
  BY DEF Update!Unlink, UpdateBackward, UpdateTypes, Update!Journals
<1>2. UNCHANGED <<backup, extraction, disk, journal, launched>>
  BY DEF Update!Unlink
<1>3. CASE spot = 0
  <2>1. helper' = "restore" /\ spot' = Len(journal.backedUp) /\ root' = root
    BY <1>3 DEF Update!Unlink, Update!Goes
  <2>2. UpdateTypes'
    BY <1>1, <1>2, <2>1 DEF UpdateTypes
  <2>3. \A f \in Update!Managed : root[f] # "new"
    BY <1>1, <1>3, InRange DEF Undoable, UpdateTypes
  <2>4. \A f \in Update!Range(OldFiles) : root[f] = "old"
          \/ (backup[f] = "old" /\ \E n \in 1 .. Len(journal.backedUp) : journal.backedUp[n] = f)
    BY <1>1, InRange DEF Undoable
  <2>5. BackUpTo(spot)'
    BY <1>2, <2>1, <2>3, <2>4 DEF BackUpTo
  <2> QED
    BY <1>2, <2>1, <2>2, <2>5 DEF UpdateForward, UpdateBackward, AtHome, Update!LaunchesWhole
<1>4. CASE spot # 0
  <2> DEFINE f == journal.installed[spot]
  <2>1. root' = [root EXCEPT ![f] = "none"] /\ helper' = "unlink" /\ spot' = spot - 1
    BY <1>1, <1>4 DEF Update!Unlink, Update!Goes
  <2>2. f \in Update!Range(NewFiles) /\ f \in Update!Range(journal.installed) /\ f \in Update!Managed
    BY <1>1, <1>4, InRange, Runtimes
  <2>3. root'[f] = "none" /\ \A g \in Update!Managed : g # f => root'[g] = root[g]
    BY <2>1, <2>2 DEF UpdateTypes
  <2>4. UpdateTypes'
    <3>1. spot' \in Nat
      BY <1>1, <1>4, <2>1
    <3>2. root' \in [Update!Managed -> Update!Content]
      BY <2>1, <2>2 DEF UpdateTypes, Update!Content
    <3>3. \A g \in Update!Managed : /\ root'[g] = "old" => g \in Update!Range(OldFiles)
                                    /\ root'[g] = "new" => g \in Update!Range(NewFiles)
      BY <2>3 DEF UpdateTypes
    <3> QED
      BY <1>2, <2>1, <3>1, <3>2, <3>3 DEF UpdateTypes
  <2>5. \A g \in Update!Range(OldFiles) : root[g] = "old" => g # f
    BY <1>1, <2>2 DEF Undoable
  <2>6. Undoable(journal)'
    BY <1>1, <1>2, <2>3, <2>5, Runtimes DEF Undoable
  <2>7. ASSUME NEW n \in 1 .. Len(journal.installed), n > spot - 1
        PROVE  root'[journal.installed[n]] # "new"
    <3>1. journal.installed[n] \in Update!Managed
      BY <1>1, InRange, Runtimes
    <3>2. n > spot \/ n = spot
      BY <1>1, <2>7
    <3> QED
      BY <1>1, <2>3, <3>1, <3>2
  <2> QED
    BY <1>1, <1>2, <1>4, <2>1, <2>4, <2>6, <2>7 DEF UpdateForward, UpdateBackward, AtHome,
       Update!LaunchesWhole
<1> QED
  BY <1>3, <1>4

LEMMA UpdateRestoreKeeps == ASSUME RuntimeInv, Update!Restore PROVE RuntimeInv'
<1> USE DEF RuntimeInv
<1> DEFINE f == journal.backedUp[spot]
<1>1. /\ helper = "restore" /\ BackUpTo(spot) /\ spot \in 1 .. Len(journal.backedUp) /\ journal \in Update!Journals
      /\ journal.backedUp \in Seq(Update!Range(OldFiles)) /\ Len(journal.backedUp) \in Nat
  BY DEF Update!Restore, UpdateBackward, UpdateTypes, Update!Journals
<1>2. helper' = "restore" /\ spot' = spot - 1 /\ UNCHANGED <<extraction, disk, journal, launched>>
  BY DEF Update!Restore, Update!Goes
<1>3. f \in Update!Range(OldFiles) /\ f \in Update!Managed
  BY <1>1, InRange, Runtimes
<1>4. /\ root' = IF backup[f] = "none" THEN root ELSE [root EXCEPT ![f] = "old"]
      /\ backup' = IF backup[f] = "none" THEN backup ELSE [backup EXCEPT ![f] = "none"]
  BY <1>3 DEF Update!Restore, UpdateTypes
<1>5. \A g \in Update!Managed : g # f => root'[g] = root[g] /\ backup'[g] = backup[g]
  BY <1>3, <1>4 DEF UpdateTypes
<1>6. root'[f] = "old"
  BY <1>1, <1>3, <1>4 DEF UpdateTypes, BackUpTo
<1>7. UpdateTypes'
  BY <1>1, <1>2, <1>3, <1>4 DEF UpdateTypes, Update!Content
<1>8. BackUpTo(spot)'
  <2>1. \A g \in Update!Managed : root'[g] # "new"
    BY <1>1, <1>5, <1>6 DEF BackUpTo
  <2>2. ASSUME NEW g \in Update!Range(OldFiles), g # f
        PROVE  root'[g] = "old"
                 \/ (backup'[g] = "old" /\ \E n \in 1 .. spot - 1 : journal'.backedUp[n] = g)
    <3>1. CASE root[g] = "old"
      BY <3>1, <2>2, <1>5, Runtimes
    <3>2. CASE root[g] # "old"
      <4>1. PICK n \in 1 .. spot : journal.backedUp[n] = g
        BY <3>2, <1>1 DEF BackUpTo
      <4>2. n \in 1 .. spot - 1
        BY <4>1, <2>2, <1>1
      <4> QED
        BY <3>2, <4>1, <4>2, <2>2, <1>1, <1>2, <1>5, Runtimes DEF BackUpTo
    <3> QED
      BY <3>1, <3>2
  <2> QED
    BY <2>1, <2>2, <1>2, <1>6 DEF BackUpTo
<1> QED
  BY <1>1, <1>2, <1>7, <1>8 DEF UpdateForward, UpdateBackward, AtHome, Update!LaunchesWhole

LEMMA UpdateRemoveExtractionKeeps == ASSUME RuntimeInv, Update!RemoveExtraction PROVE RuntimeInv'
BY Runtimes DEF RuntimeInv, UpdateTypes, UpdateForward, UpdateBackward, AtHome,
   Update!LaunchesWhole, Update!Trying, Update!Goes,
                Update!RemoveExtraction, Update!Empty, BackUpTo, Update!IsOld, Update!Is

LEMMA UpdateRemoveBackupKeeps == ASSUME RuntimeInv, Update!RemoveBackup PROVE RuntimeInv'
BY Runtimes DEF RuntimeInv, UpdateTypes, UpdateForward, UpdateBackward, AtHome,
   Update!LaunchesWhole, Update!Trying, Update!Goes,
                Update!RemoveBackup, Update!Empty, Update!IsOld, Update!Is

LEMMA UpdateRemoveJournalKeeps == ASSUME RuntimeInv, Update!RemoveJournal PROVE RuntimeInv'
BY Runtimes DEF RuntimeInv, UpdateTypes, UpdateForward, UpdateBackward, AtHome,
   Update!LaunchesWhole, Update!Trying, Update!Goes,
                Update!RemoveJournal, Update!IsOld, Update!Is, Update!places

LEMMA UpdateRelaunchKeeps == ASSUME RuntimeInv, Update!Relaunch PROVE RuntimeInv'
BY Runtimes DEF RuntimeInv, UpdateTypes, UpdateForward, UpdateBackward, AtHome,
   Update!LaunchesWhole, Update!Trying, Update!Goes,
                Update!Relaunch, Update!IsOld, Update!Is, Update!places

(* What a stop leaves behind, outside the windows, is a whole runtime or   *)
(* what its journal can undo.                                              *)
LEMMA AllowedIsUndoable ==
  ASSUME RuntimeInv, helper # "idle", Update!Allowed, Windows \subseteq {"user"}
  PROVE  /\ disk = {} => Update!IsOld(root) \/ (Update!IsNew(root) /\ \A f \in Update!Range(OldFiles) : backup[f] = "old")
         /\ \A j \in disk : IF j.state = "committed"
                            THEN Update!IsNew(root) /\ \A f \in Update!Range(OldFiles) : backup[f] = "old"
                            ELSE Undoable(j)
<1> USE DEF RuntimeInv
<1>1. ~Update!Unrecorded /\ ~Update!Restored /\ ~Update!CommittedBack
  BY DEF Update!Allowed
<1>2. \A j \in disk : j.backedUp = journal.backedUp /\ j.installed = journal.installed
  BY <1>1 DEF Update!Unrecorded
<1>3. CASE helper \in {"commit", "committed", "clean"}
  <2>1. InUpTo(Len(NewFiles) + 1)
    BY <1>3 DEF UpdateForward
  <2>2. Update!IsNew(root) /\ \A f \in Update!Range(OldFiles) : backup[f] = "old"
    <3>1. \A f \in Update!Range(NewFiles) : root[f] = "new"
      BY <2>1, Runtimes DEF InUpTo
    <3> QED
      BY <2>1, <3>1, Runtimes DEF InUpTo, Update!IsNew, Update!Is, UpdateTypes
  <2>3. Undoable(journal)
    BY <1>3, TryingIsUndoable DEF Update!Trying
  <2> QED
    BY <1>2, <2>2, <2>3 DEF Undoable
<1>4. CASE helper \in {"backup", "install", "noteBackup", "noteInstall"}
  <2>1. Undoable(journal) /\ UpdatePending
    BY <1>4, TryingIsUndoable DEF Update!Trying, UpdateForward
  <2> QED
    BY <1>2, <2>1 DEF Undoable, UpdatePending
<1>5. CASE helper = "wait" \/ helper = "relaunch"
  BY <1>5 DEF AtHome, UpdateBackward
<1>6. CASE Update!RollingBack
  <2>1. PICK j \in disk : j.state # "committed"
    BY <1>1, <1>6 DEF Update!CommittedBack
  <2>2. disk = {j}
    BY <2>1 DEF UpdateTypes
  <2>3. Undoable(j)
    <3>1. CASE helper = "unlink"
      BY <3>1, <1>2, <2>1 DEF UpdateBackward, Undoable
    <3>2. \A f \in Update!Range(j.installed) : root[f] # "old"
      BY <1>1, <1>6, <2>1 DEF Update!Restored
    <3>3. CASE helper = "restore"
      <4>1. ASSUME NEW f \in Update!Range(OldFiles), root[f] # "old"
            PROVE  backup[f] = "old" /\ f \in Update!Range(journal.backedUp)
        <5>1. backup[f] = "old" /\ \E n \in 1 .. spot : journal.backedUp[n] = f
          BY <3>3, <4>1 DEF UpdateBackward, BackUpTo
        <5>2. journal.backedUp \in Seq(Update!Range(OldFiles)) /\ spot <= Len(journal.backedUp) /\ spot \in Nat
          BY <3>3 DEF UpdateBackward, UpdateTypes, Update!Journals
        <5>3. PICK n \in 1 .. Len(journal.backedUp) : journal.backedUp[n] = f
          BY <5>1, <5>2
        <5> QED
          BY <5>1, <5>2, <5>3, InRange
      <4> QED
        BY <4>1, <3>2, <3>3, <1>2, <2>1 DEF UpdateBackward, BackUpTo, Undoable
    <3>4. CASE helper \in {"rmBackup", "rmJournal"}
      BY <3>2, <3>4, Runtimes DEF UpdateBackward, Update!IsOld, Update!Is, Undoable
    <3> QED
      BY <3>1, <3>3, <3>4, <1>6 DEF Update!RollingBack
  <2> QED
    BY <2>1, <2>2, <2>3
<1> QED
  BY <1>3, <1>4, <1>5, <1>6 DEF UpdateTypes, Update!Trying, Update!RollingBack

LEMMA UpdateStopKeeps ==
  ASSUME RuntimeInv, Update!Stop \/ Update!RollbackFails, Windows \subseteq {"user"}
  PROVE  RuntimeInv'
<1> USE DEF RuntimeInv
<1>1. /\ helper # "idle" /\ Update!Allowed /\ helper' = "idle" /\ spot' = 0 /\ journal' = Update!Fresh
      /\ UNCHANGED <<root, backup, extraction, disk, launched>>
  BY DEF Update!Stop, Update!RollbackFails, Update!RollingBack, Update!Goes, Update!places
<1>2. UpdateTypes'
  BY <1>1 DEF UpdateTypes, Update!Fresh, Update!Journals
<1>3. AtHome'
  BY <1>1, AllowedIsUndoable DEF AtHome, Update!IsOld, Update!IsNew, Update!Is, Undoable
<1> QED
  BY <1>1, <1>2, <1>3 DEF UpdateForward, UpdateBackward, Update!LaunchesWhole

(* A file of the user takes the place of nothing. *)
LEMMA UpdateUserFileKeeps == ASSUME RuntimeInv, NEW f \in Update!Managed, Update!UserFile(f) PROVE RuntimeInv'
<1> USE DEF RuntimeInv
<1>1. /\ root[f] = "none" /\ root' = [root EXCEPT ![f] = "user"]
      /\ UNCHANGED <<backup, extraction, disk, journal, helper, spot, launched>>
  BY DEF Update!UserFile
<1>2. /\ root' \in [Update!Managed -> Update!Content]
      /\ \A g \in Update!Managed : \A c \in {"old", "new"} : root'[g] = c <=> root[g] = c
  BY <1>1 DEF UpdateTypes, Update!Content
<1>3. UpdateTypes'
  BY <1>1, <1>2 DEF UpdateTypes
<1>4. UpdateForward'
  BY <1>1, <1>2, Runtimes DEF UpdateForward, OutUpTo, InUpTo, UpdatePending, UpdateRecorded
<1>5. UpdateBackward'
  <2>1. Undoable(journal) => Undoable(journal)'
    BY <1>1, <1>2, Runtimes DEF Undoable
  <2>2. BackUpTo(spot) => BackUpTo(spot)'
    BY <1>1, <1>2, Runtimes DEF BackUpTo
  <2>3. Update!IsOld(root) => Update!IsOld(root)'
    BY <1>2 DEF Update!IsOld, Update!Is
  <2>4. ASSUME helper = "unlink", NEW n \in 1 .. Len(journal.installed), n > spot
        PROVE  root'[journal.installed[n]] # "new"
    <3>1. journal.installed[n] \in Update!Managed
      BY <2>4, InRange, Runtimes DEF UpdateTypes, Update!Journals
    <3> QED
      BY <2>4, <3>1, <1>2 DEF UpdateBackward
  <2> QED
    BY <1>1, <2>1, <2>2, <2>3, <2>4 DEF UpdateBackward
<1>6. AtHome'
  <2>1. \A j \in disk : Undoable(j) => Undoable(j)'
    BY <1>1, <1>2, Runtimes DEF Undoable
  <2>2. (Update!IsOld(root) => Update!IsOld(root)') /\ (Update!IsNew(root) => Update!IsNew(root)')
    BY <1>2 DEF Update!IsOld, Update!IsNew, Update!Is
  <2> QED
    BY <1>1, <2>1, <2>2 DEF AtHome
<1> QED
  BY <1>1, <1>3, <1>4, <1>5, <1>6 DEF Update!LaunchesWhole

LEMMA RuntimeInvNext ==
  ASSUME Windows \subseteq {"user"}, RuntimeInv, [Update!Next]_(Update!vars)
  PROVE  RuntimeInv'
<1>1. CASE Update!Applies
  BY <1>1, UpdateCheckKeeps, UpdatePrepareKeeps, UpdateGivesUpKeeps, UpdateBackupKeeps,
     UpdateNoteBackupKeeps, UpdateBackedUpKeeps, UpdateInstallKeeps, UpdateNoteInstallKeeps,
     UpdateHealthyKeeps, UpdateCommitKeeps, UpdateCloseKeeps, UpdateCleanKeeps,
     UpdateUnhealthyKeeps, UpdateFailsKeeps DEF Update!Applies
<1>2. CASE Update!RollsBack
  BY <1>2, UpdateRecoverKeeps, UpdateUnlinkKeeps, UpdateRestoreKeeps, UpdateRemoveExtractionKeeps,
     UpdateRemoveBackupKeeps,
     UpdateRemoveJournalKeeps, UpdateRelaunchKeeps DEF Update!RollsBack
<1>3. CASE Update!World
  BY <1>3, UpdateStopKeeps, UpdateUserFileKeeps DEF Update!World
<1>4. CASE UNCHANGED Update!vars
  BY <1>4 DEF Update!vars, Update!places, RuntimeInv, UpdateTypes, UpdateForward, OutUpTo, InUpTo,
     UpdatePending, UpdateRecorded, UpdateBackward, BackUpTo, Undoable, AtHome,
     Update!LaunchesWhole, Update!IsOld, Update!IsNew, Update!Is
<1> QED
  BY <1>1, <1>2, <1>3, <1>4 DEF Update!Next

(* Wherever the invariant stands, each old file is somewhere.              *)
LEMMA RuntimeInvSuffices == RuntimeInv => RuntimeIsWhole
<1> SUFFICES ASSUME RuntimeInv PROVE Update!NothingLost /\ Update!AllOrNothing
  BY DEF RuntimeInv, RuntimeIsWhole, Update!RuntimeIsWhole
<1> USE DEF RuntimeInv
<1>1. Update!AllOrNothing
  BY DEF AtHome, Update!AllOrNothing
<1>2. Update!NothingLost
  <2>1. CASE helper \in Update!Trying
    BY <2>1, TryingIsUndoable DEF Undoable, Update!NothingLost
  <2>2. CASE helper \in {"unlink", "restore"}
    BY <2>2 DEF UpdateBackward, Undoable, BackUpTo, Update!NothingLost
  <2>3. CASE helper \in {"rmBackup", "rmJournal", "relaunch", "wait"}
    BY <2>3, Runtimes DEF UpdateBackward, AtHome, Update!IsOld, Update!Is, Update!NothingLost
  <2>4. CASE helper = "idle"
    BY <2>4, Runtimes DEF AtHome, Update!IsOld, Update!Is, Undoable, Update!NothingLost
  <2> QED
    BY <2>1, <2>2, <2>3, <2>4 DEF UpdateTypes
<1> QED
  BY <1>1, <1>2

(* All or nothing, for every pair of runtimes and any number of stops and  *)
(* failures outside the named windows, also when the user adds files: the  *)
(* directory at rest and whatever the helper starts is one whole runtime,  *)
(* and until the end every old file is in place or in the backup.          *)
THEOREM OneWholeRuntime ==
  ASSUME Windows \subseteq {"user"}
  PROVE  Update!Spec => []RuntimeIsWhole
<1>1. RuntimeInv /\ [Update!Next]_(Update!vars) => RuntimeInv'
  BY RuntimeInvNext
<1> QED
  BY RuntimeInvInit, <1>1, RuntimeInvSuffices, PTL DEF Update!Spec

-----------------------------------------------------------------------------
(***************************************************************************)
(* Diagnostics, with the nine checks and the white list of DiagnosticProbes.*)
(***************************************************************************)

(* A check whose last finding always holds ends with one of its findings.    *)
LEMMA DecidedIs ==
  ASSUME NEW n \in Nat, NEW f, DOMAIN f = 1 .. n, n \in DOMAIN f, f[n].holds
  PROVE  \E k \in 1 .. n : Dx!Decide(f) = f[k].result
<1> DEFINE I == {k \in 1 .. n : f[k].holds}
<1>1. Min(I) \in I /\ \A k \in I : Min(I) <= k
  <2>1. I \in SUBSET Nat /\ I # {}
    OBVIOUS
  <2> HIDE DEF I
  <2> QED
    BY <2>1, LeastPosition
<1>2. \E k \in DOMAIN f : f[k].holds /\ \A j \in 1 .. k - 1 : ~f[j].holds
  <2>1. Min(I) \in DOMAIN f /\ f[Min(I)].holds
    BY <1>1
  <2>2. ASSUME NEW j \in 1 .. Min(I) - 1 PROVE ~f[j].holds
    <3>1. j \in 1 .. n /\ j < Min(I)
      BY <1>1
    <3> QED
      BY <1>1, <3>1
  <2> QED
    BY <2>1, <2>2
<1> QED
  BY <1>2 DEF Dx!Decide

(* A finding of the check itself, as the white list has it: neither an error *)
(* it let through nor a cancellation.                                         *)
DxFinding(id, r) ==
  /\ <<r.status, r.code>> \in Dx!MachineVariants(id) \cup Dx!StoredVariants(id) \cup Dx!OnlineVariants(id)
  /\ r.keys \subseteq Dx!AllowedMetrics(id)

LEMMA FindingIsListed ==
  ASSUME NEW id, NEW r, DxFinding(id, r) PROVE Dx!Listed(id, r) /\ r.status # "cancelled"
<1> DEFINE v == <<r.status, r.code>>
<1>1. \A w : w \in Dx!MachineVariants(id) \cup Dx!StoredVariants(id) \cup Dx!OnlineVariants(id)
               => w[1] # "cancelled"
  BY DEF Dx!MachineVariants, Dx!StoredVariants, Dx!OnlineVariants, Dx!Databases
<1>2. v[1] = r.status
  OBVIOUS
<1> QED
  BY <1>1, <1>2 DEF DxFinding, Dx!Listed

LEMMA DecisionIsListed ==
  ASSUME NEW id, NEW n \in Nat, NEW f, DOMAIN f = 1 .. n, n \in DOMAIN f, f[n].holds,
         \A k \in 1 .. n : DxFinding(id, f[k].result)
  PROVE  DxFinding(id, Dx!Decide(f))
<1>1. PICK k \in 1 .. n : Dx!Decide(f) = f[k].result
  BY DecidedIs
<1> QED
  BY <1>1

LEMMA EnvironmentIsListed == ASSUME NEW e PROVE DxFinding("environment", Dx!Environment(e))
<1> DEFINE keys == {"frozen", "windowsX64", "nonSystemVolume", "guardedPathCount"}
           f == <<Dx!If(~e.guarded, Dx!Failed("runtime-path-invalid", {})),
                  Dx!If(~e.windows, Dx!Failed("runtime-unsupported", keys)),
                  Dx!If(~e.offSystem /\ e.frozen, Dx!Failed("runtime-system-volume", keys)),
                  Dx!If(~e.offSystem, Dx!Warning("source-system-volume", keys)),
                  Dx!If(TRUE, Dx!Passed("runtime-paths-ok", keys))>>
<1>1. DOMAIN f = 1 .. 5 /\ f[5].holds
  BY DEF Dx!If
<1>2. Dx!Environment(e) = Dx!Decide(f)
  BY DEF Dx!Environment
<1>3. \A k \in 1 .. 5 : DxFinding("environment", f[k].result)
  BY DEF Dx!If, DxFinding, Dx!Failed, Dx!Warning, Dx!Passed, Dx!Result, Dx!MachineVariants,
     Dx!AllowedMetrics
<1> HIDE DEF f
<1>4. 5 \in Nat /\ 5 \in DOMAIN f
  BY <1>1
<1>5. DxFinding("environment", Dx!Decide(f))
  BY <1>1, <1>3, <1>4, DecisionIsListed
<1> QED
  BY <1>2, <1>5

LEMMA ProjectWriteIsListed == ASSUME NEW e PROVE DxFinding("project-write", Dx!ProjectWrite(e))
<1> DEFINE f == <<Dx!If(~e.app, Dx!Failed("project-write-failed", {})),
                  Dx!If(~e.download, Dx!Failed("download-write-failed", {"downloadWritable"})),
                  Dx!If(TRUE, Dx!Passed("project-write-ok", {"downloadWritable"}))>>
<1>1. DOMAIN f = 1 .. 3 /\ f[3].holds
  BY DEF Dx!If
<1>2. Dx!ProjectWrite(e) = Dx!Decide(f)
  BY DEF Dx!ProjectWrite
<1>3. \A k \in 1 .. 3 : DxFinding("project-write", f[k].result)
  BY DEF Dx!If, DxFinding, Dx!Failed, Dx!Passed, Dx!Result, Dx!MachineVariants, Dx!AllowedMetrics
<1> HIDE DEF f
<1>4. 3 \in Nat /\ 3 \in DOMAIN f
  BY <1>1
<1>5. DxFinding("project-write", Dx!Decide(f))
  BY <1>1, <1>3, <1>4, DecisionIsListed
<1> QED
  BY <1>2, <1>5

LEMMA DiskIsListed == ASSUME NEW e PROVE DxFinding("disk", Dx!Disk(e))
<1> DEFINE program == {"totalBytes", "freeBytes", "downloadSameVolume"}
           all == program \cup {"downloadTotalBytes", "downloadFreeBytes"}
           there == IF e.same THEN e.free ELSE e.freeDownload
           f == <<Dx!If(~e.read, Dx!Failed("disk-unavailable", {})),
                  Dx!If(~e.same /\ ~e.readDownload, Dx!Failed("download-disk-unavailable", program)),
                  Dx!If(e.free = "critical", Dx!Failed("disk-space-critical", all)),
                  Dx!If(there = "critical", Dx!Failed("download-disk-space-critical", all)),
                  Dx!If(e.free = "low", Dx!Warning("disk-space-low", all)),
                  Dx!If(there = "low", Dx!Warning("download-disk-space-low", all)),
                  Dx!If(TRUE, Dx!Passed("disk-space-ok", all))>>
<1>1. DOMAIN f = 1 .. 7 /\ f[7].holds
  BY DEF Dx!If
<1>2. Dx!Disk(e) = Dx!Decide(f)
  BY DEF Dx!Disk
<1>3. \A k \in 1 .. 7 : DxFinding("disk", f[k].result)
  BY DEF Dx!If, DxFinding, Dx!Failed, Dx!Warning, Dx!Passed, Dx!Result, Dx!MachineVariants,
     Dx!AllowedMetrics
<1> HIDE DEF f
<1>4. 7 \in Nat /\ 7 \in DOMAIN f
  BY <1>1
<1>5. DxFinding("disk", Dx!Decide(f))
  BY <1>1, <1>3, <1>4, DecisionIsListed
<1> QED
  BY <1>2, <1>5

LEMMA CredentialsIsListed == ASSUME NEW e PROVE DxFinding("credentials", Dx!Credentials(e))
<1> DEFINE keys == {"settingsReadable", "secretsPresent", "secretsDecryptable", "credentialsConfigured"}
           f == <<Dx!If(~e.settings, Dx!Failed("settings-unreadable", keys)),
                  Dx!If(~e.present, Dx!Warning("credentials-not-configured", keys)),
                  Dx!If(~e.decrypted, Dx!Failed("credentials-unreadable", keys)),
                  Dx!If(~e.id, Dx!Warning("credentials-not-configured", keys)),
                  Dx!If(TRUE, Dx!Passed("credentials-ok", keys))>>
<1>1. DOMAIN f = 1 .. 5 /\ f[5].holds
  BY DEF Dx!If
<1>2. Dx!Credentials(e) = Dx!Decide(f)
  BY DEF Dx!Credentials
<1>3. \A k \in 1 .. 5 : DxFinding("credentials", f[k].result)
  BY DEF Dx!If, DxFinding, Dx!Failed, Dx!Warning, Dx!Passed, Dx!Result, Dx!StoredVariants,
     Dx!AllowedMetrics
<1> HIDE DEF f
<1>4. 5 \in Nat /\ 5 \in DOMAIN f
  BY <1>1
<1>5. DxFinding("credentials", Dx!Decide(f))
  BY <1>1, <1>3, <1>4, DecisionIsListed
<1> QED
  BY <1>2, <1>5

LEMMA TelegramIsListed == ASSUME NEW e PROVE DxFinding("telegram", Dx!Telegram(e))
<1> DEFINE f == <<Dx!If(e.reason, Dx!Failed("telegram-session-expired", {"authorizationReason"})),
                  Dx!If(~e.gateway, Dx!Skipped("telegram-not-configured")),
                  Dx!If(e.answer = "timeout", Dx!Warning("telegram-network-timeout", {})),
                  Dx!If(e.answer = "expired", Dx!Failed("telegram-session-expired", {"authorizationReason"})),
                  Dx!If(e.answer = "network", Dx!Warning("telegram-network-unavailable", {})),
                  Dx!If(e.answer = "error", Dx!Failed("telegram-check-failed", {})),
                  Dx!If(TRUE, Dx!Passed("telegram-connected", {}))>>
<1>1. DOMAIN f = 1 .. 7 /\ f[7].holds
  BY DEF Dx!If
<1>2. Dx!Telegram(e) = Dx!Decide(f)
  BY DEF Dx!Telegram
<1>3. \A k \in 1 .. 7 : DxFinding("telegram", f[k].result)
  BY DEF Dx!If, DxFinding, Dx!Failed, Dx!Warning, Dx!Passed, Dx!Skipped, Dx!Result,
     Dx!OnlineVariants, Dx!AllowedMetrics
<1> HIDE DEF f
<1>4. 7 \in Nat /\ 7 \in DOMAIN f
  BY <1>1
<1>5. DxFinding("telegram", Dx!Decide(f))
  BY <1>1, <1>3, <1>4, DecisionIsListed
<1> QED
  BY <1>2, <1>5

LEMMA UpdatesIsListed == ASSUME NEW e PROVE DxFinding("updates", Dx!Updates(e))
<1> DEFINE are(s) == {u \in Dx!Sources : e.status[u] = s}
           versions == {IF u = "github" THEN "githubVersion" ELSE "modelscopeVersion" : u \in are("valid")}
           keys == {"githubStatus", "githubLatencyMs", "modelscopeStatus", "modelscopeLatencyMs"} \cup versions
           conflict == are("valid") = Dx!Sources /\ e.sameVersion /\ ~e.sameBytes
           f == <<Dx!If(~e.coordinator, Dx!Skipped("update-check-unavailable")),
                  Dx!If(e.answer = "timeout", Dx!Warning("update-sources-timeout", {})),
                  Dx!If(e.answer = "error", Dx!Warning("update-sources-unavailable", {})),
                  Dx!If(~e.both \/ ~e.wellFormed, Dx!Failed("update-source-invalid", {})),
                  Dx!If(are("invalid") # {} \/ conflict, Dx!Failed("update-source-invalid", keys)),
                  Dx!If(are("unavailable") = Dx!Sources, Dx!Warning("update-sources-unavailable", keys)),
                  Dx!If(are("unavailable") # {}, Dx!Warning("update-source-degraded", keys)),
                  Dx!If(TRUE, Dx!Passed("update-sources-ok", keys))>>
<1>1. DOMAIN f = 1 .. 8 /\ f[8].holds
  BY DEF Dx!If
<1>2. Dx!Updates(e) = Dx!Decide(f)
  BY DEF Dx!Updates
<1>3. keys \subseteq Dx!AllowedMetrics("updates")
  BY DEF Dx!AllowedMetrics
<1> HIDE DEF are, versions, keys, conflict
<1>4. \A k \in 1 .. 8 : DxFinding("updates", f[k].result)
  BY <1>3 DEF Dx!If, DxFinding, Dx!Failed, Dx!Warning, Dx!Passed, Dx!Skipped, Dx!Result,
     Dx!OnlineVariants, Dx!AllowedMetrics
<1> HIDE DEF f
<1>5. 8 \in Nat /\ 8 \in DOMAIN f
  BY <1>1
<1>6. DxFinding("updates", Dx!Decide(f))
  BY <1>1, <1>4, <1>5, DecisionIsListed
<1> QED
  BY <1>2, <1>6

LEMMA ComponentsAreListed == \A missing : DxFinding("components", Dx!Components(missing))
BY DEF DxFinding, Dx!Components, Dx!Failed, Dx!Passed, Dx!Result, Dx!MachineVariants,
   Dx!AllowedMetrics

(* The task database, whose relations and states are the last thing checked. *)
LEMMA TaskDatabaseIsListed == ASSUME NEW e PROVE DxFinding("task-database", Dx!TaskDatabase(e))
<1> DEFINE keys == Dx!TaskKeys
           others == IF TRUE /\ e.other
                       THEN {"taskStatusOther", "itemStatusOther", "integrityStatusOther"} ELSE {}
           f == <<Dx!If(~e.file, Dx!Failed("database-missing", {})),
                  Dx!If(~e.opens, Dx!Failed("database-unreadable", {})),
                  Dx!If(~e.readable, Dx!Failed("database-unreadable", {})),
                  Dx!If(~e.intact, Dx!Failed("database-corrupt", {})),
                  Dx!If(~e.schema, Dx!Failed("database-schema-incompatible",
                                             keys \cap {"schemaVersion", "schemaCompatible"})),
                  Dx!If(~e.counted, Dx!Failed("database-semantics-invalid", {})),
                  Dx!If(~e.meaning \/ (TRUE /\ e.other),
                        Dx!Failed("database-semantics-invalid", keys \cup others)),
                  Dx!If(TRUE, Dx!Passed("task-database-ok", keys))>>
<1>1. DOMAIN f = 1 .. 8 /\ f[8].holds
  BY DEF Dx!If
<1>2. Dx!TaskDatabase(e) = Dx!Decide(f)
  BY Zenon DEF Dx!TaskDatabase, Dx!Database
<1>3. keys \cup others \subseteq Dx!AllowedMetrics("task-database")
  BY DEF Dx!AllowedMetrics
<1> HIDE DEF keys, others
<1>4. \A k \in 1 .. 8 : DxFinding("task-database", f[k].result)
  BY <1>3 DEF Dx!If, DxFinding, Dx!Failed, Dx!Passed, Dx!Result, Dx!StoredVariants, Dx!Databases
<1> HIDE DEF f
<1>5. 8 \in Nat /\ 8 \in DOMAIN f
  BY <1>1
<1>6. DxFinding("task-database", Dx!Decide(f))
  BY <1>1, <1>4, <1>5, DecisionIsListed
<1> QED
  BY <1>2, <1>6

(* The content database, whose relations and states are the last thing checked. *)
LEMMA ContentDatabaseIsListed == ASSUME NEW e PROVE DxFinding("content-database", Dx!ContentDatabase(e))
<1> DEFINE keys == Dx!ContentKeys
           others == IF FALSE /\ e.other
                       THEN {"taskStatusOther", "itemStatusOther", "integrityStatusOther"} ELSE {}
           f == <<Dx!If(~e.file, Dx!Failed("database-missing", {})),
                  Dx!If(~e.opens, Dx!Failed("database-unreadable", {})),
                  Dx!If(~e.readable, Dx!Failed("database-unreadable", {})),
                  Dx!If(~e.intact, Dx!Failed("database-corrupt", {})),
                  Dx!If(~e.schema, Dx!Failed("database-schema-incompatible",
                                             keys \cap {"schemaVersion", "schemaCompatible"})),
                  Dx!If(~e.counted, Dx!Failed("database-semantics-invalid", {})),
                  Dx!If(~e.meaning \/ (FALSE /\ e.other),
                        Dx!Failed("database-semantics-invalid", keys \cup others)),
                  Dx!If(TRUE, Dx!Passed("content-database-ok", keys))>>
<1>1. DOMAIN f = 1 .. 8 /\ f[8].holds
  BY DEF Dx!If
<1>2. Dx!ContentDatabase(e) = Dx!Decide(f)
  BY Zenon DEF Dx!ContentDatabase, Dx!Database
<1>3. keys \cup others \subseteq Dx!AllowedMetrics("content-database")
  BY DEF Dx!AllowedMetrics
<1> HIDE DEF keys, others
<1>4. \A k \in 1 .. 8 : DxFinding("content-database", f[k].result)
  BY <1>3 DEF Dx!If, DxFinding, Dx!Failed, Dx!Passed, Dx!Result, Dx!StoredVariants, Dx!Databases
<1> HIDE DEF f
<1>5. 8 \in Nat /\ 8 \in DOMAIN f
  BY <1>1
<1>6. DxFinding("content-database", Dx!Decide(f))
  BY <1>1, <1>4, <1>5, DecisionIsListed
<1> QED
  BY <1>2, <1>6

LEMMA NineChecks == Len(Dx!Ids) = 9
BY DEF Dx!Ids

(* Whatever a check finds, and whatever becomes of it, is on the white list. *)
LEMMA EveryOutcomeIsListed ==
  \A k \in 1 .. 9 :
    /\ \A r \in Dx!Outcomes[k] : Dx!Listed(Dx!Ids[k], r) /\ r.status # "cancelled"
    /\ \A r \in {Dx!Result("failed", "probe-failed", {}), Dx!Cancelled} : Dx!Listed(Dx!Ids[k], r)
<1>1. \A id : \A r \in {Dx!Result("failed", "probe-failed", {}), Dx!Cancelled} : Dx!Listed(id, r)
  BY DEF Dx!Listed, Dx!Result, Dx!Cancelled, Dx!GenericVariants
<1>2. \A r \in Dx!Outcomes[1] : DxFinding("environment", r)
  BY EnvironmentIsListed DEF Dx!Outcomes
<1>3. \A r \in Dx!Outcomes[2] : DxFinding("project-write", r)
  BY ProjectWriteIsListed DEF Dx!Outcomes
<1>4. \A r \in Dx!Outcomes[3] : DxFinding("disk", r)
  BY DiskIsListed DEF Dx!Outcomes
<1>5. \A r \in Dx!Outcomes[4] : DxFinding("components", r)
  BY ComponentsAreListed DEF Dx!Outcomes
<1>6. \A r \in Dx!Outcomes[5] : DxFinding("task-database", r)
  BY TaskDatabaseIsListed DEF Dx!Outcomes
<1>7. \A r \in Dx!Outcomes[6] : DxFinding("content-database", r)
  BY ContentDatabaseIsListed DEF Dx!Outcomes
<1>8. \A r \in Dx!Outcomes[7] : DxFinding("credentials", r)
  BY CredentialsIsListed DEF Dx!Outcomes
<1>9. \A r \in Dx!Outcomes[8] : DxFinding("telegram", r)
  BY TelegramIsListed DEF Dx!Outcomes
<1>10. \A r \in Dx!Outcomes[9] : DxFinding("updates", r)
  BY UpdatesIsListed DEF Dx!Outcomes
<1>11. /\ Dx!Ids[1] = "environment" /\ Dx!Ids[2] = "project-write" /\ Dx!Ids[3] = "disk"
       /\ Dx!Ids[4] = "components" /\ Dx!Ids[5] = "task-database" /\ Dx!Ids[6] = "content-database"
       /\ Dx!Ids[7] = "credentials" /\ Dx!Ids[8] = "telegram" /\ Dx!Ids[9] = "updates"
  BY DEF Dx!Ids
<1>12. \A k \in 1 .. 9 : k \in {1, 2, 3, 4, 5, 6, 7, 8, 9}
  OBVIOUS
<1> QED
  BY <1>1, <1>2, <1>3, <1>4, <1>5, <1>6, <1>7, <1>8, <1>9, <1>10, <1>11, <1>12, FindingIsListed

-----------------------------------------------------------------------------
(* The results so far are those of the two checks, each on the white list,   *)
(* and all that follow a cancelled one are cancelled.                         *)
DxResults(f, rs) ==
  /\ (\E S : rs \in Seq(S)) /\ Len(rs) <= 2
  /\ \A k \in DOMAIN rs : Dx!Listed(Dx!Ids[f + k - 1], rs[k])
  /\ \A k, l \in DOMAIN rs : k < l /\ rs[k].status = "cancelled" => rs[l].status = "cancelled"
DxCancelled(rs) == \E k \in DOMAIN rs : rs[k].status = "cancelled"

DxTypes ==
  /\ first \in 1 .. 8 /\ service \in {"idle", "running"} /\ child \in {"none", "working", "cancelled"}
  /\ event \in BOOLEAN

(* What a check under way means: the diagnosis runs, one result is missing,  *)
(* and a check that was interrupted, or a result that says so, is there only *)
(* when the user has cancelled.                                                *)
DxRunning ==
  /\ DxResults(first, results) /\ (DxCancelled(results) => event)
  /\ child # "none" => Len(results) < 2 /\ ~DxCancelled(results)
  /\ child = "cancelled" => event

(* A report on its way to the store.                                           *)
DxReported ==
  report # Dx!NoReport =>
    /\ DxResults(first, report.results)
    /\ report.status = Dx!Reduced(report.results, report.status = "cancelled")
    /\ DxCancelled(report.results) => report.status = "cancelled"

(* While a check, the service or a report is under way the page is running,   *)
(* so that no second diagnosis begins; and only one of the three is.           *)
DxOneAtATime ==
  /\ child # "none" => service = "running"
  /\ service = "running" => page.running /\ report = Dx!NoReport
  /\ report # Dx!NoReport => page.running

DxInv == DxTypes /\ DxRunning /\ DxReported /\ DxOneAtATime

LEMMA DxInitially == Dx!Init => DxInv
<1> SUFFICES ASSUME Dx!Init PROVE DxInv
  OBVIOUS
<1>1. DxTypes
  <2>1. first \in 1 .. 8
    BY NineChecks DEF Dx!Init
  <2>2. event \in BOOLEAN
    BY Zenon DEF Dx!Init
  <2> QED
    BY <2>1, <2>2 DEF Dx!Init, DxTypes
<1>2. results = <<>> /\ child = "none" /\ report = Dx!NoReport /\ service = "idle"
  BY DEF Dx!Init
<1>3. results \in Seq({}) /\ Len(results) = 0 /\ DOMAIN results = {}
  BY <1>2
<1> QED
  BY <1>1, <1>2, <1>3 DEF DxInv, DxRunning, DxReported, DxResults, DxCancelled, DxOneAtATime

(* A result more, on the list, that is cancelled when one before it is.       *)
LEMMA DxOneMore ==
  ASSUME DxResults(first, results), Len(results) < 2, NEW r, Dx!Listed(Dx!Ids[first + (Len(results) + 1) - 1], r),
         DxCancelled(results) => r.status = "cancelled"
  PROVE  /\ DxResults(first, Append(results, r)) /\ Len(Append(results, r)) = Len(results) + 1
         /\ DxCancelled(Append(results, r)) <=> (DxCancelled(results) \/ r.status = "cancelled")
<1> DEFINE rs == Append(results, r)
<1>1. PICK S : results \in Seq(S)
  BY DEF DxResults
<1>2. results \in Seq(S \cup {r})
  BY <1>1
<1>3. /\ rs \in Seq(S \cup {r}) /\ Len(rs) = Len(results) + 1 /\ DOMAIN rs = 1 .. Len(results) + 1
      /\ DOMAIN results = 1 .. Len(results) /\ Len(results) \in Nat
      /\ rs[Len(results) + 1] = r /\ \A k \in 1 .. Len(results) : rs[k] = results[k]
  BY <1>2
<1> HIDE DEF rs
<1>4. \A k \in DOMAIN rs : k \in DOMAIN results \/ k = Len(results) + 1
  BY <1>3
<1>5. \A k \in DOMAIN rs : Dx!Listed(Dx!Ids[first + k - 1], rs[k])
  BY <1>3, <1>4 DEF DxResults
<1>6. \A k, l \in DOMAIN rs : k < l /\ rs[k].status = "cancelled" => rs[l].status = "cancelled"
  BY <1>3, <1>4 DEF DxResults, DxCancelled
<1>7. Len(rs) <= 2
  BY <1>3
<1>8. DxResults(first, rs)
  BY <1>3, <1>5, <1>6, <1>7 DEF DxResults
<1>9. DxCancelled(rs) <=> (DxCancelled(results) \/ r.status = "cancelled")
  BY <1>3, <1>4 DEF DxCancelled
<1> QED
  BY <1>3, <1>8, <1>9 DEF rs

(* A check that ends on an error, or by its cancellation, or with a finding. *)
LEMMA DxEnds == DxInv /\ Dx!Ends => DxRunning'
<1> SUFFICES ASSUME DxInv, Dx!Ends PROVE DxRunning'
  OBVIOUS
<1> USE DEF DxInv
<1>1. PICK r \in IF child = "cancelled" THEN {Dx!Cancelled}
                 ELSE Dx!Outcomes[Dx!Check(Len(results) + 1)]
                      \cup {Dx!Result("failed", "probe-failed", {})}
                      \cup (IF event THEN {Dx!Cancelled} ELSE {}) : results' = Append(results, r)
  BY DEF Dx!Ends
<1>2. Len(results) \in 0 .. 1 /\ ~DxCancelled(results) /\ DxResults(first, results) /\ first \in 1 .. 8
  <2>1. PICK n \in Nat : n = Len(results)
    BY DEF DxRunning, DxResults
  <2>2. n < 2 /\ first \in 1 .. 8 /\ ~DxCancelled(results) /\ DxResults(first, results)
    BY <2>1 DEF Dx!Ends, DxRunning, DxTypes
  <2>3. n \in 0 .. 1
    BY <2>2
  <2> QED
    BY <2>1, <2>2, <2>3
<1>3. Dx!Check(Len(results) + 1) \in 1 .. 9
  <2>1. PICK n \in 0 .. 1 : n = Len(results)
    BY <1>2
  <2>2. first + (n + 1) - 1 \in 1 .. 9
    BY <1>2
  <2> QED
    BY <2>1, <2>2 DEF Dx!Check
<1>4. Dx!Listed(Dx!Ids[first + (Len(results) + 1) - 1], r)
  BY <1>1, <1>3, EveryOutcomeIsListed DEF Dx!Check
<1>5. r.status = "cancelled" => event
  <2>1. CASE child = "cancelled"
    BY <2>1 DEF DxRunning
  <2>2. CASE child # "cancelled" /\ r = Dx!Result("failed", "probe-failed", {})
    BY <2>2 DEF Dx!Result
  <2>3. CASE event
    BY <2>3
  <2>4. CASE child # "cancelled" /\ r \in Dx!Outcomes[Dx!Check(Len(results) + 1)]
    BY <1>3, <2>4, EveryOutcomeIsListed
  <2> QED
    BY <1>1, <2>1, <2>2, <2>3, <2>4
<1>6. DxResults(first', results') /\ (DxCancelled(results') => event)
  <2>1. first' = first /\ Len(results) < 2
    BY DEF Dx!Ends, DxRunning
  <2> QED
    BY <1>1, <1>2, <1>4, <1>5, <2>1, DxOneMore
<1>7. child' = "none" /\ event' = event /\ first' = first
  BY DEF Dx!Ends
<1> QED
  BY <1>6, <1>7 DEF DxRunning

LEMMA DxNextTypes == DxInv /\ [Dx!Next]_Dx!vars => DxTypes' /\ DxOneAtATime'
<1> SUFFICES ASSUME DxInv, [Dx!Next]_Dx!vars PROVE DxTypes' /\ DxOneAtATime'
  OBVIOUS
<1> USE DEF DxInv, DxTypes, DxOneAtATime
<1>1. CASE Dx!Start
  <2>1. event' \in BOOLEAN
    BY <1>1, Zenon DEF Dx!Start
  <2> QED
    BY <1>1, <2>1 DEF Dx!Start
<1>2. CASE Dx!Begin
  BY <1>2 DEF Dx!Begin
<1>3. CASE Dx!Ends
  BY <1>3 DEF Dx!Ends
<1>4. CASE Dx!Finish
  BY <1>4 DEF Dx!Finish
<1>5. CASE Dx!Cancel
  BY <1>5 DEF Dx!Cancel
<1>6. CASE Dx!CancelEnds
  BY <1>6 DEF Dx!CancelEnds
<1>7. CASE Dx!Save
  BY <1>7 DEF Dx!Save
<1>8. CASE Dx!Activate
  BY <1>8 DEF Dx!Activate
<1>9. CASE Dx!ShowLoaded
  BY <1>9 DEF Dx!ShowLoaded
<1>10. CASE Dx!Export
  BY <1>10 DEF Dx!Export
<1>11. CASE UNCHANGED Dx!vars
  BY <1>11 DEF Dx!vars
<1> QED
  BY <1>1, <1>2, <1>3, <1>4, <1>5, <1>6, <1>7, <1>8, <1>9, <1>10, <1>11 DEF Dx!Next

LEMMA DxNextRunning == DxInv /\ [Dx!Next]_Dx!vars => DxRunning'
<1> SUFFICES ASSUME DxInv, [Dx!Next]_Dx!vars PROVE DxRunning'
  OBVIOUS
<1> USE DEF DxInv
<1>1. CASE Dx!Start
  <2>1. results' = <<>> /\ child' = "none"
    BY <1>1 DEF Dx!Start, DxOneAtATime, DxTypes
  <2>2. <<>> \in Seq({}) /\ Len(<<>>) = 0 /\ DOMAIN <<>> = {}
    OBVIOUS
  <2> QED
    BY <2>1, <2>2 DEF DxRunning, DxResults, DxCancelled
<1>2. CASE Dx!Begin
  <2>1. CASE event
    <3>1. Len(results) \in 0 .. 1 /\ first \in 1 .. 8
      <4>1. PICK n \in Nat : n = Len(results)
        BY DEF DxRunning, DxResults
      <4>2. n < 2 /\ first \in 1 .. 8
        BY <1>2, <4>1 DEF Dx!Begin, DxTypes
      <4>3. n \in 0 .. 1
        BY <4>2
      <4> QED
        BY <4>1, <4>2, <4>3
    <3>2. Dx!Check(Len(results) + 1) \in 1 .. 9
      <4>1. PICK n \in 0 .. 1 : n = Len(results)
        BY <3>1
      <4>2. first + (n + 1) - 1 \in 1 .. 9
        BY <3>1
      <4> QED
        BY <4>1, <4>2 DEF Dx!Check
    <3>3. Dx!Listed(Dx!Ids[first + (Len(results) + 1) - 1], Dx!Cancelled)
      BY <3>2, EveryOutcomeIsListed DEF Dx!Check
    <3>6. Dx!Cancelled.status = "cancelled"
      BY DEF Dx!Cancelled, Dx!Result
    <3>4. results' = Append(results, Dx!Cancelled) /\ child' = "none" /\ event' /\ first' = first
      BY <1>2, <2>1 DEF Dx!Begin
    <3>5. DxResults(first', results')
      BY <1>2, <3>3, <3>4, <3>6, DxOneMore DEF Dx!Begin, DxRunning
    <3> QED
      BY <3>4, <3>5 DEF DxRunning
  <2>2. CASE ~event
    <3>1. /\ results' = results /\ child' = "working" /\ event' = event /\ Len(results) < 2
          /\ first' = first
      BY <1>2, <2>2 DEF Dx!Begin
    <3> QED
      BY <2>2, <3>1 DEF DxRunning
  <2> QED
    BY <2>1, <2>2
<1>3. CASE Dx!Ends
  BY <1>3, DxEnds
<1>4. CASE Dx!Finish
  <2>1. results' = <<>> /\ child' = "none"
    BY <1>4 DEF Dx!Finish
  <2>2. <<>> \in Seq({}) /\ Len(<<>>) = 0 /\ DOMAIN <<>> = {}
    OBVIOUS
  <2> QED
    BY <2>1, <2>2 DEF DxRunning, DxResults, DxCancelled
<1>5. CASE Dx!Cancel
  <2>1. /\ results' = results /\ (event => event') /\ first' = first
        /\ child' = child \/ (child = "working" /\ child' = "cancelled" /\ event')
    BY <1>5 DEF Dx!Cancel, DxTypes
  <2> QED
    BY <2>1 DEF DxRunning
<1>6. CASE UNCHANGED <<first, results, child, event>>
  BY <1>6 DEF DxRunning
<1> QED
  BY <1>1, <1>2, <1>3, <1>4, <1>5, <1>6
     DEF Dx!Next, Dx!vars, Dx!CancelEnds, Dx!Save, Dx!Activate, Dx!ShowLoaded, Dx!Export

LEMMA DxNextReported == DxInv /\ [Dx!Next]_Dx!vars => DxReported'
<1> SUFFICES ASSUME DxInv, [Dx!Next]_Dx!vars PROVE DxReported'
  OBVIOUS
<1> USE DEF DxInv
<1>1. CASE Dx!Finish
  <2>1. report'.results = results /\ report'.status = Dx!Reduced(results, event) /\ first' = first
    BY <1>1 DEF Dx!Finish
  <2>2. (report'.status = "cancelled") = event
    BY <2>1 DEF Dx!Reduced, DxTypes
  <2>3. DxResults(first, report'.results)
    BY <2>1 DEF DxRunning
  <2>4. DxResults(first', report'.results)
    BY <2>1, <2>3
  <2>5. Dx!Reduced(report'.results, report'.status = "cancelled") = Dx!Reduced(results, event)
    BY <2>1, <2>2, Zenon
  <2>6. DxCancelled(report'.results) => report'.status = "cancelled"
    BY <2>1, <2>2 DEF DxRunning
  <2> QED
    BY <2>1, <2>4, <2>5, <2>6 DEF DxReported, DxCancelled, Dx!Reduced
<1>2. CASE UNCHANGED <<report, first>>
  BY <1>2 DEF DxReported, DxCancelled, Dx!Reduced, Dx!NoReport
<1>3. CASE report' = Dx!NoReport
  BY <1>3 DEF DxReported, Dx!NoReport
<1> QED
  BY <1>1, <1>2, <1>3 DEF Dx!Next, Dx!vars, Dx!Start, Dx!Begin, Dx!Ends, Dx!Cancel, Dx!CancelEnds,
     Dx!Save, Dx!Activate, Dx!ShowLoaded, Dx!Export

(* Every report passes the store's white list, which is kept by hand in       *)
(* another file than the checks, and after a cancelled result there are only  *)
(* cancelled ones (diagnostics.py, diagnostic_store.py), for any two checks    *)
(* that follow each other and any number of diagnoses.                         *)
THEOREM ReportsAreAlwaysRight == Dx!Init /\ [][Dx!Next]_Dx!vars => []ReportsAreRight
<1>1. DxInv /\ [Dx!Next]_Dx!vars => DxInv'
  BY DxNextTypes, DxNextRunning, DxNextReported DEF DxInv
<1>2. DxInv => ReportsAreRight
  <2>1. \A rs : DxResults(first, rs) => \A k \in DOMAIN rs : k \in Int
    <3>1. \A S : \A s \in Seq(S) : DOMAIN s = 1 .. Len(s)
      OBVIOUS
    <3> QED
      BY <3>1 DEF DxResults
  <2> QED
    BY <2>1 DEF DxInv, DxReported, DxResults, DxCancelled, ReportsAreRight,
       Dx!ReportsAreAccepted, Dx!CancelledIsSuffix, Dx!Accepted, Dx!Name, Dx!Check
<1> QED
  BY DxInitially, <1>1, <1>2, PTL
-----------------------------------------------------------------------------
(***************************************************************************)
(* TaskPlanning, for any posts that are told apart, any links and any      *)
(* limits.                                                                  *)
(***************************************************************************)

(* Induction up to n, for a set of numbers.                                  *)
LEMMA UpTo ==
  ASSUME NEW n \in Nat, NEW Q, 0 \in Q, \A k \in 1 .. n : k - 1 \in Q => k \in Q
  PROVE  0 .. n \subseteq Q
<1> DEFINE I == (0 .. n) \ Q
<1> SUFFICES ASSUME I # {} PROVE FALSE
  OBVIOUS
<1>1. I \in SUBSET Nat
  OBVIOUS
<1> HIDE DEF I
<1>2. Min(I) \in I /\ \A i \in I : Min(I) <= i
  BY <1>1, LeastPosition
<1>3. PICK k \in Nat : k = Min(I)
  BY <1>1, <1>2
<1>4. k \in 0 .. n /\ k \notin Q
  BY <1>2, <1>3 DEF I
<1>5. k \in 1 .. n
  BY <1>4
<1>6. k - 1 \in 0 .. n /\ ~(k <= k - 1)
  BY <1>5
<1>7. k - 1 \in Q
  BY <1>2, <1>3, <1>6 DEF I
<1> QED
  BY <1>4, <1>5, <1>7

(* A function on 0 .. n is defined by its first value and its steps.         *)
Stepped(f, n, base, g) == f = [k \in 0 .. n |-> IF k = 0 THEN base ELSE g[<<k, f[k - 1]>>]]

LEMMA StepByStep ==
  ASSUME NEW n \in Nat, NEW V, NEW base \in V, NEW g \in [(1 .. n) \X V -> V]
  PROVE  \E f \in [0 .. n -> V] : Stepped(f, n, base, g)
<1> DEFINE Q == {m \in 0 .. n : \E f \in [0 .. m -> V] : Stepped(f, m, base, g)}
<1>1. 0 \in Q
  <2> DEFINE f == [k \in 0 .. 0 |-> base]
  <2>1. f \in [0 .. 0 -> V] /\ Stepped(f, 0, base, g)
    BY DEF Stepped
  <2> HIDE DEF f
  <2> QED
    BY <2>1
<1>2. ASSUME NEW m \in 1 .. n, m - 1 \in Q PROVE m \in Q
  <2>1. PICK f \in [0 .. m - 1 -> V] : Stepped(f, m - 1, base, g)
    BY <1>2
  <2> DEFINE h == [k \in 0 .. m |-> IF k = m THEN g[<<m, f[m - 1]>>] ELSE f[k]]
  <2>2. g[<<m, f[m - 1]>>] \in V
    OBVIOUS
  <2>3. h \in [0 .. m -> V]
    BY <2>2
  <2>4. ASSUME NEW k \in 0 .. m PROVE h[k] = IF k = 0 THEN base ELSE g[<<k, h[k - 1]>>]
    <3>1. CASE k = m
      <4>1. k # 0 /\ k - 1 \in 0 .. m /\ k - 1 # m
        BY <3>1
      <4>2. h[k] = g[<<k, f[k - 1]>>] /\ h[k - 1] = f[k - 1]
        BY <2>1, <3>1, <4>1 DEF Stepped
      <4> QED
        BY <4>1, <4>2
    <3>2. CASE k # m
      <4>1. k \in 0 .. m - 1 /\ h[k] = f[k]
        BY <3>2
      <4>2. f[k] = IF k = 0 THEN base ELSE g[<<k, f[k - 1]>>]
        BY <2>1, <4>1 DEF Stepped
      <4>3. k # 0 => h[k - 1] = f[k - 1]
        BY <4>1
      <4> QED
        BY <4>1, <4>2, <4>3
    <3> QED
      BY <3>1, <3>2
  <2> HIDE DEF h
  <2>5. h = [k \in 0 .. m |-> h[k]]
    BY <2>3
  <2>6. Stepped(h, m, base, g)
    BY <2>4, <2>5 DEF Stepped
  <2>7. m \in 0 .. n
    OBVIOUS
  <2> QED
    BY <2>3, <2>6, <2>7
<1> HIDE DEF Q
<1>3. n \in Q
  BY <1>1, <1>2, UpTo
<1> QED
  BY <1>3 DEF Q

(* What is kept of a sequence: elements of it that are in the set, and each  *)
(* of them once when it was there once.                                       *)
LEMMA KeptIs ==
  ASSUME NEW M, NEW s \in Seq(M), NEW S
  PROVE  /\ Plan!Kept(s, S) \in Seq(M \cap S)
         /\ \A j \in DOMAIN Plan!Kept(s, S) : \E k \in DOMAIN s : Plan!Kept(s, S)[j] = s[k]
         /\ IsInjective(s) => IsInjective(Plan!Kept(s, S))
<1> DEFINE N == Len(s)
           V == Seq(M \cap S)
           K == CHOOSE K : K = [n \in 0 .. N |-> IF n = 0 THEN <<>>
                                 ELSE IF s[n] \in S THEN Append(K[n - 1], s[n]) ELSE K[n - 1]]
           g == [p \in (1 .. N) \X V |-> IF s[p[1]] \in S THEN Append(p[2], s[p[1]]) ELSE p[2]]
<1>1. N \in Nat /\ DOMAIN s = 1 .. N /\ \A k \in 1 .. N : s[k] \in M
  OBVIOUS
<1>2. g \in [(1 .. N) \X V -> V]
  <2> SUFFICES ASSUME NEW k \in 1 .. N, NEW v \in V
               PROVE (IF s[k] \in S THEN Append(v, s[k]) ELSE v) \in V
    OBVIOUS
  <2> QED
    BY <1>1
<1>3. <<>> \in V
  OBVIOUS
<1>4. K = [n \in 0 .. N |-> IF n = 0 THEN <<>>
                            ELSE IF s[n] \in S THEN Append(K[n - 1], s[n]) ELSE K[n - 1]]
  <2> HIDE DEF V, g, N
  <2>1. PICK f \in [0 .. N -> V] : Stepped(f, N, <<>>, g)
    BY <1>1, <1>2, <1>3, StepByStep
  <2>2. \A n \in 0 .. N : n # 0 => g[<<n, f[n - 1]>>] = IF s[n] \in S THEN Append(f[n - 1], s[n]) ELSE f[n - 1]
    <3> SUFFICES ASSUME NEW n \in 1 .. N
                 PROVE g[<<n, f[n - 1]>>] = IF s[n] \in S THEN Append(f[n - 1], s[n]) ELSE f[n - 1]
      BY <1>1
    <3>1. f[n - 1] \in V
      BY <1>1
    <3> QED
      BY <3>1 DEF g
  <2>3. f = [n \in 0 .. N |-> IF n = 0 THEN <<>>
                              ELSE IF s[n] \in S THEN Append(f[n - 1], s[n]) ELSE f[n - 1]]
    BY <2>1, <2>2 DEF Stepped
  <2> QED
    BY <2>3
<1>5. Plan!Kept(s, S) = K[N]
  BY Zenon DEF Plan!Kept
<1> DEFINE Once(n) == \A i, j \in DOMAIN K[n] : K[n][i] = K[n][j] => i = j
           From(n) == \A j \in DOMAIN K[n] : \E k \in 1 .. n : K[n][j] = s[k]
           Q == {n \in 0 .. N : K[n] \in V /\ From(n) /\ (IsInjective(s) => Once(n))}
<1> HIDE DEF K
<1>6. 0 \in Q
  <2>1. K[0] = <<>>
    BY <1>1, <1>4
  <2>2. K[0] \in V /\ DOMAIN K[0] = {}
    BY <1>3, <2>1
  <2> QED
    BY <1>1, <2>2
<1>7. ASSUME NEW n \in 1 .. N, n - 1 \in Q PROVE n \in Q
  <2>1. K[n] = IF s[n] \in S THEN Append(K[n - 1], s[n]) ELSE K[n - 1]
    <3>1. n \in 0 .. N /\ n # 0
      BY <1>1
    <3> QED
      BY <1>4, <3>1
  <2>2. K[n - 1] \in V /\ From(n - 1) /\ (IsInjective(s) => Once(n - 1)) /\ n - 1 \in 0 .. N
    BY <1>7
  <2>3. CASE s[n] \notin S
    <3>1. K[n] = K[n - 1] /\ n \in 0 .. N /\ 1 .. n - 1 \subseteq 1 .. n
      BY <1>1, <2>1, <2>3
    <3> QED
      BY <2>2, <3>1
  <2>4. CASE s[n] \in S
    <3> DEFINE c == K[n - 1]
    <3>1. s[n] \in M \cap S /\ K[n] = Append(c, s[n]) /\ c \in Seq(M \cap S)
      BY <1>1, <2>1, <2>2, <2>4
    <3> HIDE DEF c
    <3>2. /\ K[n] \in Seq(M \cap S) /\ DOMAIN K[n] = 1 .. Len(c) + 1 /\ DOMAIN c = 1 .. Len(c)
          /\ Len(c) \in Nat /\ K[n][Len(c) + 1] = s[n] /\ \A j \in 1 .. Len(c) : K[n][j] = c[j]
      BY <3>1
    <3>3. \A j \in DOMAIN K[n] : j \in DOMAIN c \/ j = Len(c) + 1
      BY <3>2
    <3>4. From(n)
      <4> SUFFICES ASSUME NEW j \in DOMAIN K[n] PROVE \E k \in 1 .. n : K[n][j] = s[k]
        OBVIOUS
      <4>1. CASE j = Len(c) + 1
        BY <1>1, <3>2, <4>1
      <4>2. CASE j \in DOMAIN c
        <5>1. PICK k \in 1 .. n - 1 : c[j] = s[k]
          BY <2>2, <4>2 DEF c
        <5> QED
          BY <1>1, <3>2, <4>2, <5>1
      <4> QED
        BY <3>3, <4>1, <4>2
    <3>5. ASSUME IsInjective(s) PROVE Once(n)
      <4>1. \A i \in DOMAIN c : c[i] # s[n]
        <5> SUFFICES ASSUME NEW i \in DOMAIN c PROVE c[i] # s[n]
          OBVIOUS
        <5>1. PICK k \in 1 .. n - 1 : c[i] = s[k]
          BY <2>2 DEF c
        <5>2. k \in DOMAIN s /\ n \in DOMAIN s /\ k # n
          BY <1>1
        <5> QED
          BY <3>5, <5>1, <5>2 DEF IsInjective
      <4>2. \A i, j \in DOMAIN c : c[i] = c[j] => i = j
        BY <2>2, <3>5 DEF c
      <4> QED
        BY <3>2, <3>3, <4>1, <4>2
    <3>6. n \in 0 .. N
      BY <1>1
    <3> QED
      BY <3>2, <3>4, <3>5, <3>6
  <2> QED
    BY <2>3, <2>4
<1> HIDE DEF Q
<1>8. N \in Q
  <2>1. 0 .. N \subseteq Q
    BY <1>1, <1>6, <1>7, UpTo
  <2> QED
    BY <1>1, <2>1
<1>9. /\ K[N] \in V /\ (\A j \in DOMAIN K[N] : \E k \in 1 .. N : K[N][j] = s[k])
      /\ IsInjective(s) => \A i, j \in DOMAIN K[N] : K[N][i] = K[N][j] => i = j
  BY <1>8 DEF Q
<1> QED
  BY <1>1, <1>5, <1>9 DEF IsInjective

(* What a target is made of: the name, its number and a sequence number.     *)
PlanNames(m) == {m.post.name, m.post.msg, "_", "__"} \cup Nat

LEMMA PairIs ==
  ASSUME NEW S, NEW a \in S, NEW b \in S
  PROVE  <<a, b>> \in Seq(S) /\ Len(<<a, b>>) = 2 /\ <<a, b>>[1] = a /\ <<a, b>>[2] = b
OBVIOUS

LEMMA SingleIs == ASSUME NEW S, NEW a \in S PROVE <<a>> \in Seq(S)
OBVIOUS

LEMMA FunctionIsSeq == ASSUME NEW S, NEW n \in Nat, NEW f \in [1 .. n -> S] PROVE f \in Seq(S) /\ Len(f) = n
OBVIOUS

LEMMA TripleIs == ASSUME NEW S, NEW a \in S, NEW b \in S, NEW c \in S PROVE <<a, b, c>> \in Seq(S)
OBVIOUS

LEMMA LengthIs == ASSUME NEW S, NEW s \in Seq(S) PROVE \E n \in Nat : n = Len(s)
OBVIOUS

LEMMA RenderedIs ==
  ASSUME NEW m
  PROVE  /\ Plan!Rendered(m) \in Seq(PlanNames(m))
         /\ Plan!Disambiguated(Plan!Rendered(m), m) \in Seq(PlanNames(m))
<1> DEFINE S == PlanNames(m)
<1>1. m.post.name \in S /\ m.post.msg \in S /\ "_" \in S /\ "__" \in S
  BY DEF PlanNames
<1> HIDE DEF S
<1>2. Plan!Rendered(m) \in Seq(S)
  <2>1. <<m.post.name, "__", m.post.msg>> \in Seq(S)
    BY <1>1, TripleIs
  <2>2. <<m.post.name>> \in Seq(S)
    BY <1>1, SingleIs
  <2> QED
    BY <2>1, <2>2 DEF Plan!Rendered
<1>3. \A b \in Seq(S) : b \o <<"_", m.post.msg>> \in Seq(S)
  <2>1. <<"_", m.post.msg>> \in Seq(S)
    BY <1>1, PairIs
  <2> QED
    BY <2>1, ConcatProperties
<1>4. Plan!Disambiguated(Plan!Rendered(m), m) \in Seq(S)
  BY <1>2, <1>3 DEF Plan!Disambiguated
<1> QED
  BY <1>2, <1>4 DEF S

(* A name with a number behind it is another than the name, and than the one *)
(* with another number.                                                       *)
LEMMA NumberedApart ==
  ASSUME NEW S, NEW s \in Seq(S), NEW j \in Nat
  PROVE  /\ s \o <<"_", j>> \in Seq(S \cup {"_"} \cup Nat) /\ s \o <<"_", j>> # s
         /\ \A k \in Nat : s \o <<"_", j>> = s \o <<"_", k>> => j = k
<1> DEFINE R == S \cup {"_"} \cup Nat
<1>1. s \in Seq(R) /\ "_" \in R /\ Nat \subseteq R
  BY SeqMonotonic
<1> HIDE DEF R
<1>2. PICK n \in Nat : n = Len(s)
  BY LengthIs
<1>3. n + 2 \in 1 .. n + 2 /\ ~(n + 2 <= n) /\ n + 2 - n = 2 /\ n + 2 # n
  OBVIOUS
<1>4. ASSUME NEW i \in Nat
      PROVE  s \o <<"_", i>> \in Seq(R) /\ Len(s \o <<"_", i>>) = n + 2 /\ (s \o <<"_", i>>)[n + 2] = i
  <2> DEFINE t == <<"_", i>>
  <2>1. t \in Seq(R) /\ Len(t) = 2 /\ t[2] = i
    BY <1>1, PairIs
  <2> HIDE DEF t
  <2>2. /\ s \o t \in Seq(R) /\ Len(s \o t) = Len(s) + Len(t)
        /\ \A l \in 1 .. Len(s) + Len(t) : (s \o t)[l] = IF l <= Len(s) THEN s[l] ELSE t[l - Len(s)]
    BY <1>1, <2>1, ConcatProperties
  <2>3. Len(s \o t) = n + 2 /\ (s \o t)[n + 2] = t[n + 2 - n]
    BY <1>2, <1>3, <2>1, <2>2
  <2>4. (s \o t)[n + 2] = i
    BY <1>3, <2>1, <2>3
  <2> QED
    BY <2>2, <2>3, <2>4 DEF t
<1>5. s \o <<"_", j>> \in Seq(R) /\ s \o <<"_", j>> # s
  BY <1>2, <1>3, <1>4
<1>6. \A k \in Nat : s \o <<"_", j>> = s \o <<"_", k>> => j = k
  BY <1>4
<1> QED
  BY <1>5, <1>6 DEF R

LEMMA PlanCardinality == ASSUME NEW S PROVE Plan!Cardinality(S) = Cardinality(S)
BY Zenon DEF Plan!Cardinality, Plan!IsFiniteSet, Cardinality, IsFiniteSet

(* _available_target finds a name that nothing has: among as many numbers as  *)
(* there are names in use, and the name without a number, one is free.         *)
LEMMA AvailableIs ==
  ASSUME NEW m, NEW used, IsFiniteSet(used), IsFiniteSet(files)
  PROVE  /\ Plan!Available(m, used) \notin used \cup files
         /\ Plan!Available(m, used) \in Seq(PlanNames(m))
<1> DEFINE U == used \cup files
           N == Cardinality(U)
           S == PlanNames(m)
           base == Plan!Rendered(m)
           ided == Plan!Disambiguated(base, m)
           rest == [n \in 1 .. N |-> ided \o <<"_", n + 1>>]
           choices == <<base, ided>> \o rest
           I == {i \in 1 .. Len(choices) : choices[i] \notin U}
<1>1. IsFiniteSet(U) /\ N \in Nat
  BY FS_Union, FS_CardinalityType
<1>2. base \in Seq(S) /\ ided \in Seq(S) /\ S \cup {"_"} \cup Nat = S
  BY RenderedIs DEF PlanNames
<1>3. Plan!Available(m, used) = choices[IF I # {} THEN Plan!Min(I) ELSE 0]
  <2>1. N = Plan!Cardinality(U)
    BY PlanCardinality
  <2> HIDE DEF N
  <2> QED
    BY <2>1, Zenon DEF Plan!Available, Plan!SelectInSeq
<1> HIDE DEF U, N, S, base, ided
<1>4. \A n \in 1 .. N : ided \o <<"_", n + 1>> \in Seq(S)
  <2> SUFFICES ASSUME NEW n \in 1 .. N PROVE ided \o <<"_", n + 1>> \in Seq(S)
    OBVIOUS
  <2>1. n + 1 \in Nat
    BY <1>1
  <2> QED
    BY <1>2, <2>1, NumberedApart
<1>5. rest \in Seq(Seq(S)) /\ Len(rest) = N /\ \A n \in 1 .. N : rest[n] = ided \o <<"_", n + 1>>
  <2>1. rest \in [1 .. N -> Seq(S)]
    BY <1>4
  <2> QED
    BY <1>1, <2>1, FunctionIsSeq
<1>6. <<base, ided>> \in Seq(Seq(S)) /\ Len(<<base, ided>>) = 2 /\ <<base, ided>>[2] = ided
  BY <1>2, PairIs
<1> HIDE DEF rest
<1>7. /\ choices \in Seq(Seq(S)) /\ Len(choices) = N + 2
      /\ choices[2] = ided /\ \A n \in 1 .. N : choices[n + 2] = ided \o <<"_", n + 1>>
  <2> DEFINE two == <<base, ided>>
  <2>1. two \in Seq(Seq(S)) /\ Len(two) = 2 /\ two[2] = ided
    BY <1>6
  <2> HIDE DEF two
  <2>2. 2 + N = N + 2 /\ 2 \in 1 .. N + 2 /\ 2 <= 2
    BY <1>1
  <2>3. /\ two \o rest \in Seq(Seq(S)) /\ Len(two \o rest) = Len(two) + Len(rest)
        /\ \A i \in 1 .. Len(two) + Len(rest) :
             (two \o rest)[i] = IF i <= Len(two) THEN two[i] ELSE rest[i - Len(two)]
    BY <1>5, <2>1, ConcatProperties
  <2>4. /\ Len(two \o rest) = N + 2
        /\ \A i \in 1 .. N + 2 : (two \o rest)[i] = IF i <= 2 THEN two[i] ELSE rest[i - 2]
    BY <1>5, <2>1, <2>2, <2>3
  <2>5. ASSUME NEW n \in 1 .. N PROVE (two \o rest)[n + 2] = ided \o <<"_", n + 1>>
    <3>1. n + 2 \in 1 .. N + 2 /\ ~(n + 2 <= 2) /\ n + 2 - 2 = n
      BY <1>1
    <3>2. (two \o rest)[n + 2] = rest[n + 2 - 2]
      BY <2>4, <3>1
    <3> QED
      BY <1>5, <3>1, <3>2
  <2> QED
    BY <2>1, <2>2, <2>3, <2>4, <2>5 DEF two
<1> HIDE DEF choices
<1>8. I # {}
  <2> SUFFICES ASSUME I = {} PROVE FALSE
    OBVIOUS
  <2> DEFINE f == [n \in 0 .. N |-> choices[n + 2]]
  <2>1. \A n \in 0 .. N : n + 2 \in 1 .. N + 2
    BY <1>1
  <2>2. f \in [0 .. N -> U]
    BY <1>7, <2>1
  <2>3. IsFiniteSet(0 .. N) /\ Cardinality(0 .. N) = N + 1
    <3>1. 0 \in Int /\ N \in Int /\ ~(0 > N) /\ N - 0 + 1 = N + 1
      BY <1>1
    <3> QED
      BY <3>1, FS_Interval
  <2>4. Cardinality(U) < Cardinality(0 .. N)
    BY <1>1, <2>3 DEF N
  <2>5. /\ \A n \in 1 .. N : f[n] = ided \o <<"_", n + 1>>
        /\ f[0] = ided
    <3>1. 0 \in 0 .. N /\ 0 + 2 = 2 /\ \A n \in 1 .. N : n \in 0 .. N
      BY <1>1
    <3> QED
      BY <1>7, <3>1
  <2> HIDE DEF f
  <2>6. PICK j \in 0 .. N, k \in 0 .. N : j # k /\ f[j] = f[k]
    BY <1>1, <2>2, <2>3, <2>4, FS_PigeonHole
  <2>7. ASSUME NEW n \in 1 .. N PROVE f[n] # f[0]
    <3>1. n + 1 \in Nat
      BY <1>1
    <3>2. ided \o <<"_", n + 1>> # ided
      BY <1>2, <3>1, NumberedApart
    <3> QED
      BY <2>5, <3>2
  <2>8. j \in 1 .. N /\ k \in 1 .. N
    BY <1>1, <2>6, <2>7
  <2>9. j + 1 \in Nat /\ k + 1 \in Nat /\ j + 1 # k + 1
    BY <1>1, <2>6, <2>8
  <2>10. ided \o <<"_", j + 1>> = ided \o <<"_", k + 1>>
    BY <2>6, <2>5, <2>8
  <2> QED
    BY <1>2, <2>9, <2>10, NumberedApart
<1>9. Plan!Min(I) \in I
  <2>1. I \in SUBSET Nat
    <3>1. 1 .. N + 2 \subseteq Nat
      BY <1>1
    <3> QED
      BY <1>7, <3>1
  <2> HIDE DEF I
  <2>2. Min(I) \in I
    BY <1>8, <2>1, LeastPosition
  <2>3. Plan!Min(I) = Min(I)
    BY DEF Plan!Min, Min
  <2> QED
    BY <2>2, <2>3
<1>10. \A i \in I : choices[i] \notin U /\ choices[i] \in Seq(S)
  BY <1>7, ElementOfSeq
<1> HIDE DEF I
<1> QED
  BY <1>3, <1>8, <1>9, <1>10 DEF U, S

(* What a plan holds: a medium each, and the path for it.                    *)
PlanTargets == Seq(UNION {PlanNames(m) : m \in Plan!Media})
PlanItems   == [media : Plan!Media, target : PlanTargets]

LEMMA FewTargets ==
  ASSUME NEW S, NEW v \in Seq(S) PROVE IsFiniteSet({v[k].target : k \in DOMAIN v})
<1>1. PICK n \in Nat : n = Len(v)
  BY LengthIs
<1>2. DOMAIN v = 1 .. n
  BY <1>1
<1> DEFINE T == {v[k].target : k \in 1 .. n}
           f == [k \in 1 .. n |-> v[k].target]
<1>3. f \in Surjection(1 .. n, T)
  BY DEF Surjection
<1>4. IsFiniteSet(1 .. n)
  BY FS_Interval
<1> QED
  BY <1>2, <1>3, <1>4, FS_Surjection

(* One item more has a target that neither the plan nor the disk has.         *)
LEMMA TargetedIs ==
  ASSUME NEW v \in Seq(PlanItems), NEW m \in Plan!Media, IsFiniteSet(files)
  PROVE  /\ Plan!Targeted(v, m) \in Seq(PlanItems) /\ Len(Plan!Targeted(v, m)) = Len(v) + 1
         /\ Plan!Targeted(v, m)[Len(v) + 1].media = m
         /\ \A k \in DOMAIN v : /\ Plan!Targeted(v, m)[k] = v[k]
                                /\ Plan!Targeted(v, m)[Len(v) + 1].target # v[k].target
<1> DEFINE used == {v[k].target : k \in DOMAIN v}
           t == Plan!Available(m, used)
           item == [media |-> m, target |-> t]
<1>1. Plan!Targeted(v, m) = Append(v, item)
  BY DEF Plan!Targeted
<1>2. t \notin used /\ t \in Seq(PlanNames(m))
  BY FewTargets, AvailableIs
<1>3. t \in PlanTargets
  <2>1. PlanNames(m) \subseteq UNION {PlanNames(x) : x \in Plan!Media}
    OBVIOUS
  <2> QED
    BY <1>2, <2>1, SeqMonotonic DEF PlanTargets
<1>4. item \in PlanItems /\ item.media = m /\ item.target = t
  BY <1>3 DEF PlanItems
<1>5. \A k \in DOMAIN v : t # v[k].target
  BY <1>2
<1> HIDE DEF t, item
<1> QED
  BY <1>1, <1>4, <1>5, AppendProperties

(* A plan has a target for every medium that is kept, and no target twice.   *)
LEMMA BuiltIs ==
  ASSUME NEW found \in Seq(Plan!Media), IsFiniteSet(files)
  PROVE  /\ Plan!Built(found) \in Seq(PlanItems)
         /\ \A j, k \in DOMAIN Plan!Built(found) :
              Plan!Built(found)[j].target = Plan!Built(found)[k].target => j = k
         /\ IsInjective(found) =>
              \A j, k \in DOMAIN Plan!Built(found) :
                Plan!Built(found)[j].media = Plan!Built(found)[k].media => j = k
<1> DEFINE new == Plan!Kept(found, Plan!Media \ Plan!Queued)
           N == Len(new)
           V == Seq(PlanItems)
           K == CHOOSE K : K = [n \in 0 .. N |-> IF n = 0 THEN <<>> ELSE Plan!Targeted(K[n - 1], new[n])]
           g == [p \in (1 .. N) \X V |-> Plan!Targeted(p[2], new[p[1]])]
<1>1. new \in Seq(Plan!Media) /\ (IsInjective(found) => IsInjective(new))
  <2>1. new \in Seq(Plan!Media \cap (Plan!Media \ Plan!Queued)) /\ (IsInjective(found) => IsInjective(new))
    BY KeptIs
  <2> QED
    BY <2>1, SeqMonotonic
<1>2. Plan!Built(found) = K[N]
  BY Zenon DEF Plan!Built
<1> HIDE DEF new
<1>3. N \in Nat /\ DOMAIN new = 1 .. N /\ \A n \in 1 .. N : new[n] \in Plan!Media
  BY <1>1, ElementOfSeq, LenProperties
<1>4. <<>> \in V
  OBVIOUS
<1> HIDE DEF N, V
<1>5. ASSUME NEW v \in V, NEW n \in 1 .. N PROVE Plan!Targeted(v, new[n]) \in V
  BY <1>3, TargetedIs DEF V
<1>6. g \in [(1 .. N) \X V -> V]
  BY <1>5
<1>7. \A n \in 0 .. N : K[n] = IF n = 0 THEN <<>> ELSE Plan!Targeted(K[n - 1], new[n])
  <2> HIDE DEF g
  <2>1. PICK f \in [0 .. N -> V] : Stepped(f, N, <<>>, g)
    BY <1>3, <1>4, <1>6, StepByStep
  <2>2. ASSUME NEW n \in 0 .. N, n # 0
        PROVE  g[<<n, f[n - 1]>>] = Plan!Targeted(f[n - 1], new[n])
    <3>1. n \in 1 .. N /\ f[n - 1] \in V
      BY <1>3, <2>2
    <3> QED
      BY <3>1 DEF g
  <2>3. f = [n \in 0 .. N |-> IF n = 0 THEN <<>> ELSE Plan!Targeted(f[n - 1], new[n])]
    BY <2>1, <2>2 DEF Stepped
  <2>4. K = [n \in 0 .. N |-> IF n = 0 THEN <<>> ELSE Plan!Targeted(K[n - 1], new[n])]
    BY <2>3
  <2> HIDE DEF K
  <2> QED
    BY <2>4
<1> HIDE DEF K
<1> DEFINE Q == {n \in 0 .. N : /\ K[n] \in V /\ Len(K[n]) = n
                                /\ \A k \in 1 .. n : K[n][k].media = new[k]
                                /\ \A j, k \in 1 .. n : K[n][j].target = K[n][k].target => j = k}
<1>8. 0 \in Q
  <2>1. K[0] = <<>> /\ 0 \in 0 .. N /\ Len(<<>>) = 0 /\ 1 .. 0 = {}
    BY <1>3, <1>7
  <2> QED
    BY <1>4, <2>1
<1>9. ASSUME NEW n \in 1 .. N, n - 1 \in Q PROVE n \in Q
  <2> DEFINE v == K[n - 1]
  <2>1. n \in 0 .. N /\ n # 0 /\ n \in Nat /\ n - 1 \in Nat /\ n - 1 + 1 = n
    BY <1>3
  <2>2. K[n] = Plan!Targeted(v, new[n])
    BY <1>7, <2>1
  <2>3. /\ v \in V /\ Len(v) = n - 1 /\ \A k \in 1 .. n - 1 : v[k].media = new[k]
        /\ \A j, k \in 1 .. n - 1 : v[j].target = v[k].target => j = k
    BY <1>9
  <2> HIDE DEF v
  <2>4. DOMAIN v = 1 .. n - 1
    BY <2>3, LenProperties DEF V
  <2>5. /\ K[n] \in V /\ Len(K[n]) = n /\ K[n][n].media = new[n]
        /\ \A k \in 1 .. n - 1 : K[n][k] = v[k] /\ K[n][n].target # v[k].target
    <3> DEFINE w == Plan!Targeted(v, new[n])
    <3>1. /\ w \in V /\ Len(w) = Len(v) + 1 /\ w[Len(v) + 1].media = new[n]
          /\ \A k \in DOMAIN v : w[k] = v[k] /\ w[Len(v) + 1].target # v[k].target
      BY <1>3, <2>3, TargetedIs DEF V
    <3>2. Len(v) + 1 = n
      BY <2>1, <2>3
    <3> HIDE DEF w
    <3>3. /\ w \in V /\ Len(w) = n /\ w[n].media = new[n]
          /\ \A k \in 1 .. n - 1 : w[k] = v[k] /\ w[n].target # v[k].target
      BY <2>4, <3>1, <3>2
    <3> QED
      BY <2>2, <3>3 DEF w
  <2>6. \A k \in 1 .. n : k \in 1 .. n - 1 \/ k = n
    BY <2>1
  <2>7. \A k \in 1 .. n : K[n][k].media = new[k]
    BY <2>3, <2>5, <2>6
  <2>8. \A j, k \in 1 .. n : K[n][j].target = K[n][k].target => j = k
    BY <2>3, <2>5, <2>6
  <2> QED
    BY <2>1, <2>5, <2>7, <2>8
<1> HIDE DEF Q
<1>10. N \in Q
  <2>1. 0 .. N \subseteq Q
    BY <1>3, <1>8, <1>9, UpTo
  <2> QED
    BY <1>3, <2>1
<1>11. /\ K[N] \in V /\ Len(K[N]) = N /\ \A k \in 1 .. N : K[N][k].media = new[k]
       /\ \A j, k \in 1 .. N : K[N][j].target = K[N][k].target => j = k
  BY <1>10 DEF Q
<1>12. DOMAIN K[N] = 1 .. N
  BY <1>11, LenProperties DEF V
<1>13. IsInjective(found) => \A j, k \in 1 .. N : new[j] = new[k] => j = k
  BY <1>1, <1>3 DEF IsInjective
<1> QED
  BY <1>2, <1>11, <1>12, <1>13 DEF V

-----------------------------------------------------------------------------
(* The media a flow has found are told apart; so are the media and the       *)
(* targets of its plan.                                                       *)
PlanApart(p) == /\ \A j, k \in DOMAIN p : p[j].target = p[k].target => j = k
                /\ \A j, k \in DOMAIN p : p[j].media = p[k].media => j = k

PlanFlow(s) == /\ DOMAIN s = {"pc", "left", "found", "plan", "task"}
               /\ s.found \in Seq(Plan!Media) /\ IsInjective(s.found)
               /\ s.plan \in Seq(PlanItems) /\ PlanApart(s.plan)

PlanFlows == flow = [f \in Plan!Flows |-> flow[f]] /\ \A f \in Plan!Flows : PlanFlow(flow[f])

(* A flow that is not idle has a number of its own, which no task has yet.    *)
PlanTasks == /\ plans \in Nat /\ planned \subseteq 1 .. plans
             /\ \A f \in Plan!Flows :
                  flow[f].pc # "idle" =>
                    /\ flow[f].task \in 1 .. plans /\ flow[f].task \notin planned
                    /\ \A g \in Plan!Flows : flow[g].pc # "idle" /\ flow[g].task = flow[f].task => f = g

PlanRows == /\ \A r \in rows : r.task \in planned
            /\ \A r, s \in rows : r.media = s.media => r = s
            /\ \A r, s \in rows : r.task = s.task /\ r.target = s.target => r = s
            /\ \A t \in planned : \E r \in rows : r.task = t

PlanInv == IsFiniteSet(files) /\ PlanFlows /\ PlanTasks /\ PlanRows

LEMMA PostsApart == /\ Posts \in Seq(Plan!ToSet(Posts)) /\ IsInjective(Posts)
                    /\ \A m \in Plan!ToSet(Posts) : m.peer \in m.names
<1>1. Plan!IsInjective(Posts) = IsInjective(Posts)
  BY Zenon DEF Plan!IsInjective, IsInjective
<1> QED
  BY PostsAssumption, <1>1 DEF Plan!PostsAssumption

LEMMA PostsKept ==
  ASSUME NEW S
  PROVE  Plan!Kept(Posts, S) \in Seq(Plan!ToSet(Posts) \cap S) /\ IsInjective(Plan!Kept(Posts, S))
BY PostsApart, KeptIs

(* Posts that are told apart, each with a name of its peer, are media that    *)
(* are told apart.                                                             *)
LEMMA KeyedIs ==
  ASSUME NEW S \in SUBSET Plan!ToSet(Posts), NEW s \in Seq(S), IsInjective(s), NEW refs,
         \A k \in DOMAIN s : refs[k] \in s[k].names
  PROVE  /\ [k \in DOMAIN s |-> [post |-> s[k], ref |-> refs[k]]] \in Seq(Plan!Media)
         /\ IsInjective([k \in DOMAIN s |-> [post |-> s[k], ref |-> refs[k]]])
<1> DEFINE keyed == [k \in DOMAIN s |-> [post |-> s[k], ref |-> refs[k]]]
<1>1. PICK n \in Nat : DOMAIN s = 1 .. n
  BY LenProperties
<1>2. ASSUME NEW k \in DOMAIN s PROVE keyed[k] \in Plan!Media /\ keyed[k].post = s[k]
  <2>1. s[k] \in S
    BY ElementOfSeq, LenProperties
  <2> QED
    BY <2>1 DEF Plan!Media
<1>3. DOMAIN keyed = DOMAIN s
  OBVIOUS
<1> HIDE DEF keyed
<1>4. keyed \in Seq(Plan!Media)
  <2>1. keyed = [k \in 1 .. n |-> keyed[k]]
    BY <1>1, <1>3 DEF keyed
  <2> QED
    BY <1>1, <1>2, <2>1, FunctionIsSeq
<1>5. IsInjective(keyed)
  BY <1>2, <1>3 DEF IsInjective
<1> QED
  BY <1>4, <1>5 DEF keyed

LEMMA ServedIs == ASSUME NEW link PROVE Plan!Served(link) \in Seq(Plan!Media) /\ IsInjective(Plan!Served(link))
<1> DEFINE C == {m \in Plan!ToSet(Posts) : link.ref \in m.names /\ link.msg \in {-1, m.msg}}
           s == Plan!Kept(Posts, C)
           refs == [k \in DOMAIN s |-> link.ref]
<1>1. s \in Seq(C) /\ IsInjective(s)
  <2>1. Plan!ToSet(Posts) \cap C = C
    OBVIOUS
  <2> HIDE DEF C
  <2> QED
    BY <2>1, PostsKept
<1>2. C \subseteq Plan!ToSet(Posts) /\ \A m \in C : link.ref \in m.names
  OBVIOUS
<1>3. Plan!Served(link) = [k \in DOMAIN s |-> [post |-> s[k], ref |-> link.ref]]
  BY Zenon DEF Plan!Served
<1> HIDE DEF s
<1>4. \A k \in DOMAIN s : refs[k] = link.ref /\ refs[k] \in s[k].names
  BY <1>1, ElementOfSeq, LenProperties
<1>5. Plan!Served(link) = [k \in DOMAIN s |-> [post |-> s[k], ref |-> refs[k]]]
  BY <1>3, <1>4
<1> HIDE DEF C, refs
<1> QED
  BY <1>1, <1>2, <1>4, <1>5, KeyedIs

LEMMA TickedIs == ASSUME NEW C PROVE Plan!Ticked(C) \in Seq(Plan!Media) /\ IsInjective(Plan!Ticked(C))
<1> DEFINE T == Plan!ToSet(Posts) \cap C
           s == Plan!Kept(Posts, C)
           refs == [k \in DOMAIN s |-> s[k].peer]
<1>1. s \in Seq(T) /\ IsInjective(s)
  BY PostsKept
<1>2. T \subseteq Plan!ToSet(Posts) /\ \A m \in T : m.peer \in m.names
  BY PostsApart
<1>3. Plan!Ticked(C) = [k \in DOMAIN s |-> [post |-> s[k], ref |-> s[k].peer]]
  BY Zenon DEF Plan!Ticked
<1> HIDE DEF s, T
<1>4. \A k \in DOMAIN s : refs[k] = s[k].peer /\ refs[k] \in s[k].names
  BY <1>1, <1>2, ElementOfSeq, LenProperties
<1>5. Plan!Ticked(C) = [k \in DOMAIN s |-> [post |-> s[k], ref |-> refs[k]]]
  BY <1>3, <1>4
<1> HIDE DEF refs
<1> QED
  BY <1>1, <1>2, <1>4, <1>5, KeyedIs

(* A medium that two links serve is found once.                               *)
LEMMA MergedIs ==
  ASSUME NEW found \in Seq(Plan!Media), IsInjective(found), NEW link
  PROVE  /\ Plan!Merged(found, Plan!Served(link)) \in Seq(Plan!Media)
         /\ IsInjective(Plan!Merged(found, Plan!Served(link)))
<1> DEFINE S == Plan!Media \ Plan!ToSet(found)
           new == Plan!Kept(Plan!Served(link), S)
<1>1. Plan!Served(link) \in Seq(Plan!Media) /\ IsInjective(Plan!Served(link))
  BY ServedIs
<1>2. new \in Seq(Plan!Media \cap S) /\ IsInjective(new)
  <2> HIDE DEF S
  <2> QED
    BY <1>1, KeptIs
<1>3. Plan!Merged(found, Plan!Served(link)) = found \o new
  BY DEF Plan!Merged
<1> HIDE DEF new
<1>4. new \in Seq(Plan!Media) /\ \A j \in DOMAIN new : new[j] \in S
  <2>1. \A j \in DOMAIN new : new[j] \in Plan!Media \cap S
    <3> HIDE DEF S
    <3> QED
      BY <1>2, ElementOfSeq, LenProperties
  <2>2. Plan!Media \cap S \subseteq Plan!Media
    OBVIOUS
  <2> HIDE DEF S
  <2> QED
    BY <1>2, <2>1, <2>2, SeqMonotonic
<1>5. \A j \in DOMAIN new, k \in DOMAIN found : new[j] # found[k]
  BY <1>4 DEF Plan!ToSet
<1> HIDE DEF S
<1>6. PICK m \in Nat : m = Len(found)
  BY LengthIs
<1>7. PICK n \in Nat : n = Len(new)
  BY <1>4, LengthIs
<1> DEFINE w == found \o new
<1>8. w \in Seq(Plan!Media) /\ DOMAIN w = 1 .. m + n /\ DOMAIN found = 1 .. m /\ DOMAIN new = 1 .. n
      /\ \A i \in 1 .. m + n : w[i] = IF i <= m THEN found[i] ELSE new[i - m]
  <2>1. /\ w \in Seq(Plan!Media) /\ Len(w) = Len(found) + Len(new)
        /\ \A l \in 1 .. Len(found) + Len(new) : w[l] = IF l <= Len(found) THEN found[l] ELSE new[l - Len(found)]
    BY <1>4, ConcatProperties
  <2> HIDE DEF w
  <2> QED
    BY <1>4, <1>6, <1>7, <2>1, LenProperties
<1> HIDE DEF w
<1>9. ASSUME NEW i \in 1 .. m + n, NEW j \in 1 .. m + n, w[i] = w[j] PROVE i = j
  <2>1. \A k \in 1 .. m + n : (k <= m => k \in 1 .. m) /\ (~(k <= m) => k - m \in 1 .. n)
    BY <1>6, <1>7
  <2>2. CASE i <= m /\ j <= m
    <3>1. found[i] = found[j] /\ i \in DOMAIN found /\ j \in DOMAIN found
      BY <1>8, <1>9, <2>1, <2>2
    <3> QED
      BY <3>1 DEF IsInjective
  <2>3. CASE ~(i <= m) /\ ~(j <= m)
    <3>1. new[i - m] = new[j - m] /\ i - m \in DOMAIN new /\ j - m \in DOMAIN new
      BY <1>8, <1>9, <2>1, <2>3
    <3>2. i - m = j - m
      BY <1>2, <3>1 DEF IsInjective
    <3> QED
      BY <1>6, <3>2
  <2>4. CASE i <= m /\ ~(j <= m)
    <3>1. found[i] = new[j - m] /\ i \in DOMAIN found /\ j - m \in DOMAIN new
      BY <1>8, <1>9, <2>1, <2>4
    <3> QED
      BY <1>5, <3>1
  <2>5. CASE ~(i <= m) /\ j <= m
    <3>1. new[i - m] = found[j] /\ j \in DOMAIN found /\ i - m \in DOMAIN new
      BY <1>8, <1>9, <2>1, <2>5
    <3> QED
      BY <1>5, <3>1
  <2> QED
    BY <2>2, <2>3, <2>4, <2>5
<1> QED
  BY <1>3, <1>8, <1>9 DEF w, IsInjective

LEMMA RestingIs == PlanFlow(Plan!Resting)
<1>1. Plan!Resting.found = <<>> /\ Plan!Resting.plan = <<>>
      /\ DOMAIN Plan!Resting = {"pc", "left", "found", "plan", "task"}
  BY DEF Plan!Resting
<1>2. \A S : <<>> \in Seq(S) /\ DOMAIN <<>> = {}
  OBVIOUS
<1> QED
  BY <1>1, <1>2 DEF PlanFlow, PlanApart, IsInjective

LEMMA PlanInitially == Plan!Init => PlanInv
<1> SUFFICES ASSUME Plan!Init PROVE PlanInv
  OBVIOUS
<1>1. IsFiniteSet(files)
  <2> DEFINE a == <<Posts[1].name>>
             b == <<Posts[1].name, "_", Posts[1].msg>>
  <2>1. files \in SUBSET {a, b}
    BY DEF Plan!Init
  <2>2. IsFiniteSet({a} \cup {b}) /\ {a} \cup {b} = {a, b}
    BY FS_Singleton, FS_Union
  <2> HIDE DEF a, b
  <2> QED
    BY <2>1, <2>2, FS_Subset
<1>2. PlanFlows
  BY RestingIs DEF Plan!Init, PlanFlows
<1>3. PlanTasks
  BY DEF Plan!Init, PlanTasks, Plan!Resting
<1>4. PlanRows
  BY DEF Plan!Init, PlanRows
<1> QED
  BY <1>1, <1>2, <1>3, <1>4 DEF PlanInv

(* One flow makes a step.                                                     *)
LEMMA ToIs ==
  ASSUME PlanFlows, NEW f \in Plan!Flows, NEW s, PlanFlow(s), Plan!To(f, s)
  PROVE  PlanFlows' /\ flow'[f] = s /\ \A g \in Plan!Flows : g # f => flow'[g] = flow[g]
BY DEF PlanFlows, Plan!To

(* A step of a flow in which it keeps its number, or comes to rest.           *)
LEMMA ToKeeps ==
  ASSUME PlanFlows, PlanTasks, PlanRows, NEW f \in Plan!Flows, NEW s, PlanFlow(s), Plan!To(f, s),
         s.pc = "idle" \/ (flow[f].pc # "idle" /\ s.task = flow[f].task),
         UNCHANGED <<rows, planned, plans>>
  PROVE  PlanFlows' /\ PlanTasks' /\ PlanRows'
<1>1. PlanFlows' /\ flow'[f] = s /\ \A g \in Plan!Flows : g # f => flow'[g] = flow[g]
  BY ToIs
<1>2. PlanTasks'
  BY <1>1 DEF PlanTasks
<1> QED
  BY <1>1, <1>2 DEF PlanRows

LEMMA PlanBegin ==
  ASSUME PlanInv, NEW f \in Plan!Flows, Plan!Begin(f) PROVE PlanInv'
<1> DEFINE started == [Plan!Resting EXCEPT !.pc = "scanning", !.task = plans']
           S(s) == PlanFlow(s) /\ s.pc = "scanning" /\ s.task = plans'
<1>1. plans' = plans + 1 /\ UNCHANGED <<rows, planned, files>>
  BY DEF Plan!Begin
<1>2. \A x : S([Plan!Resting EXCEPT !.pc = "scanning", !.left = x, !.task = plans'])
  BY RestingIs DEF PlanFlow, Plan!Resting
<1>3. \A C : S([Plan!Resting EXCEPT !.pc = "scanning", !.task = plans', !.found = Plan!Ticked(C)])
  BY RestingIs, TickedIs DEF PlanFlow, Plan!Resting
<1>4. PICK s : S(s) /\ Plan!To(f, s)
  <2> HIDE DEF S
  <2>1. \/ \E x : Plan!To(f, [Plan!Resting EXCEPT !.pc = "scanning", !.left = x, !.task = plans'])
        \/ \E C : Plan!To(f, [Plan!Resting EXCEPT !.pc = "scanning", !.task = plans', !.found = Plan!Ticked(C)])
    BY Zenon DEF Plan!Begin
  <2> QED
    BY <1>2, <1>3, <2>1
<1>5. PlanFlows' /\ flow'[f] = s /\ \A g \in Plan!Flows : g # f => flow'[g] = flow[g]
  BY <1>4, ToIs DEF PlanInv
<1>6. PlanTasks'
  <2>1. plans \in Nat /\ plans' \in 1 .. plans' /\ 1 .. plans \subseteq 1 .. plans' /\ plans' \notin 1 .. plans
    BY <1>1 DEF PlanInv, PlanTasks
  <2> QED
    BY <1>1, <1>4, <1>5, <2>1 DEF PlanInv, PlanTasks
<1> QED
  BY <1>1, <1>5, <1>6 DEF PlanInv, PlanRows

LEMMA PlanScans ==
  ASSUME PlanInv, NEW f \in Plan!Flows, Plan!ScanLink(f) PROVE PlanInv'
<1> DEFINE found == Plan!Merged(flow[f].found, Plan!Served(Head(flow[f].left)))
           s == IF f = "batch" /\ Len(found) > MaxBatchMedia THEN Plan!Resting
                ELSE [flow[f] EXCEPT !.found = found, !.left = Tail(@)]
<1>1. Plan!To(f, s) /\ flow[f].pc = "scanning" /\ UNCHANGED <<rows, planned, files, plans>>
  BY DEF Plan!ScanLink
<1>2. PlanFlow(flow[f])
  BY DEF PlanInv, PlanFlows
<1>3. found \in Seq(Plan!Media) /\ IsInjective(found)
  BY <1>2, MergedIs DEF PlanFlow
<1> HIDE DEF found
<1>4. PlanFlow(s) /\ (s.pc = "idle" \/ s.task = flow[f].task)
  <2>1. CASE s = Plan!Resting
    BY <2>1, RestingIs DEF Plan!Resting
  <2>2. CASE s = [flow[f] EXCEPT !.found = found, !.left = Tail(@)]
    BY <1>2, <1>3, <2>2 DEF PlanFlow
  <2> QED
    BY <2>1, <2>2
<1> HIDE DEF s
<1> QED
  BY <1>1, <1>4, ToKeeps DEF PlanInv

LEMMA PlanPreviews ==
  ASSUME PlanInv, NEW f \in Plan!Flows, Plan!Preview(f) PROVE PlanInv'
<1> DEFINE built == Plan!Built(flow[f].found)
           s == IF built = <<>> THEN Plan!Resting
                ELSE [flow[f] EXCEPT !.pc = "confirm", !.found = <<>>, !.plan = built]
<1>1. Plan!To(f, s) /\ flow[f].pc = "scanning" /\ UNCHANGED <<rows, planned, files, plans>>
  BY DEF Plan!Preview
<1>2. PlanFlow(flow[f])
  BY DEF PlanInv, PlanFlows
<1>3. built \in Seq(PlanItems) /\ PlanApart(built)
  BY <1>2, BuiltIs DEF PlanFlow, PlanApart, PlanInv
<1> HIDE DEF built
<1>4. PlanFlow(s) /\ (s.pc = "idle" \/ s.task = flow[f].task)
  <2>1. CASE s = Plan!Resting
    BY <2>1, RestingIs DEF Plan!Resting
  <2>2. CASE s = [flow[f] EXCEPT !.pc = "confirm", !.found = <<>>, !.plan = built]
    <3>1. <<>> \in Seq(Plan!Media) /\ IsInjective(<<>>)
      BY DEF IsInjective
    <3> QED
      BY <1>2, <1>3, <2>2, <3>1 DEF PlanFlow
  <2> QED
    BY <2>1, <2>2
<1> HIDE DEF s
<1> QED
  BY <1>1, <1>4, ToKeeps DEF PlanInv

(* What a confirmed plan adds: media that no row has, each for a target of    *)
(* its own, under a number that no task has.                                   *)
LEMMA PlanCommits ==
  ASSUME PlanInv, NEW f \in Plan!Flows, Plan!Commit(f) PROVE PlanInv'
<1> DEFINE new == Plan!New(f)
           added == Plan!Rows(f, new)
           t == flow[f].task
           plan == flow[f].plan
<1>1. /\ Plan!To(f, Plan!Resting) /\ flow[f].pc = "confirm" /\ UNCHANGED <<files, plans>>
      /\ rows' = rows \cup added /\ planned' = IF new = {} THEN planned ELSE planned \cup {t}
  BY DEF Plan!Commit
<1>2. PlanFlows' /\ flow'[f] = Plan!Resting /\ \A g \in Plan!Flows : g # f => flow'[g] = flow[g]
  BY <1>1, RestingIs, ToIs DEF PlanInv
<1>3. t \in 1 .. plans /\ t \notin planned /\ Plan!Resting.pc = "idle"
  BY <1>1 DEF PlanInv, PlanTasks, Plan!Resting
<1>4. \A i, j \in new : (i.media = j.media \/ i.target = j.target) => i = j
  <2>1. \A i \in new : \E k \in DOMAIN plan : i = plan[k]
    BY DEF Plan!New, Plan!ToSet
  <2>2. PlanApart(plan)
    BY DEF PlanInv, PlanFlows, PlanFlow
  <2> HIDE DEF new, plan
  <2> QED
    BY <2>1, <2>2 DEF PlanApart
<1>5. \A i \in new, r \in rows : i.media # r.media
  BY DEF Plan!New, Plan!Queued
<1>6. /\ \A r \in added : \E i \in new : r = [task |-> t, media |-> i.media, target |-> i.target]
      /\ \A i \in new : [task |-> t, media |-> i.media, target |-> i.target] \in added
  BY DEF Plan!Rows
<1> HIDE DEF new, added, t, plan
<1>7. \A r \in added : r.task = t /\ r.task \notin planned /\ new # {} /\ \A s \in rows : r.media # s.media
  BY <1>3, <1>5, <1>6
<1>8. \A r, s \in added : (r.media = s.media \/ r.target = s.target) => r = s
  <2> SUFFICES ASSUME NEW r \in added, NEW s \in added, r.media = s.media \/ r.target = s.target
               PROVE r = s
    OBVIOUS
  <2>1. PICK i \in new : r = [task |-> t, media |-> i.media, target |-> i.target]
    BY <1>6
  <2>2. PICK j \in new : s = [task |-> t, media |-> j.media, target |-> j.target]
    BY <1>6
  <2>3. i = j
    BY <1>4, <2>1, <2>2
  <2> QED
    BY <2>1, <2>2, <2>3
<1>9. PlanRows'
  <2>1. \A r \in rows' : r.task \in planned'
    BY <1>1, <1>7 DEF PlanInv, PlanRows
  <2>2. \A r, s \in rows' : r.media = s.media => r = s
    BY <1>1, <1>7, <1>8 DEF PlanInv, PlanRows
  <2>3. \A r, s \in rows' : r.task = s.task /\ r.target = s.target => r = s
    BY <1>1, <1>7, <1>8 DEF PlanInv, PlanRows
  <2>4. \A u \in planned' : \E r \in rows' : r.task = u
    <3>1. \A u \in planned : \E r \in rows' : r.task = u
      BY <1>1 DEF PlanInv, PlanRows
    <3>2. ASSUME NEW i \in new PROVE \E r \in rows' : r.task = t
      <4> DEFINE r == [task |-> t, media |-> i.media, target |-> i.target]
      <4>1. r \in rows' /\ r.task = t
        BY <1>1, <1>6
      <4> HIDE DEF r
      <4> QED
        BY <4>1
    <3>3. planned' = planned \/ (new # {} /\ planned' = planned \cup {t})
      BY <1>1
    <3> QED
      BY <3>1, <3>2, <3>3
  <2> QED
    BY <2>1, <2>2, <2>3, <2>4 DEF PlanRows
<1>10. PlanTasks'
  <2>1. planned' \subseteq planned \cup {t}
    BY <1>1
  <2>2. \A g \in Plan!Flows : g # f /\ flow[g].pc # "idle" => flow[g].task # t
    BY <1>1, <1>3 DEF PlanInv, PlanTasks, t
  <2> QED
    BY <1>1, <1>2, <1>3, <2>1, <2>2 DEF PlanInv, PlanTasks
<1> QED
  BY <1>1, <1>2, <1>9, <1>10 DEF PlanInv

LEMMA PlanNext == PlanInv /\ [Plan!Next]_Plan!vars => PlanInv'
<1> SUFFICES ASSUME PlanInv, [Plan!Next]_Plan!vars PROVE PlanInv'
  OBVIOUS
<1>1. CASE \E f \in Plan!Flows : Plan!Begin(f)
  BY <1>1, PlanBegin
<1>2. CASE \E f \in Plan!Flows : Plan!ScanLink(f)
  BY <1>2, PlanScans
<1>3. CASE \E f \in Plan!Flows : Plan!Preview(f)
  BY <1>3, PlanPreviews
<1>4. CASE \E f \in Plan!Flows : Plan!Commit(f)
  BY <1>4, PlanCommits
<1>5. ASSUME NEW f \in Plan!Flows, Plan!GiveUp(f) PROVE PlanInv'
  <2>1. Plan!To(f, Plan!Resting) /\ UNCHANGED <<rows, planned, files, plans>> /\ Plan!Resting.pc = "idle"
    BY <1>5 DEF Plan!GiveUp, Plan!Resting
  <2> QED
    BY <2>1, RestingIs, ToKeeps DEF PlanInv
<1>6. CASE Plan!Configure
  BY <1>6 DEF Plan!Configure, PlanInv, PlanFlows, PlanTasks, PlanRows
<1>7. ASSUME NEW r \in rows, Plan!Download(r) PROVE PlanInv'
  <2>1. IsFiniteSet(files')
    BY <1>7, FS_AddElement DEF Plan!Download, PlanInv
  <2> QED
    BY <1>7, <2>1 DEF Plan!Download, PlanInv, PlanFlows, PlanTasks, PlanRows
<1>8. CASE UNCHANGED Plan!vars
  BY <1>8 DEF Plan!vars, PlanInv, PlanFlows, PlanTasks, PlanRows
<1> QED
  BY <1>1, <1>2, <1>3, <1>4, <1>5, <1>6, <1>7, <1>8 DEF Plan!Next

(* Whatever four flows find, show and confirm while the others do, a medium   *)
(* belongs to one task, every task has a medium, and no two media of a plan   *)
(* or a task share a file (planner.py, repository.py), for any posts, links    *)
(* and limits.                                                                  *)
THEOREM MediaStayApart == Plan!Spec => []MediaApart
<1>1. PlanInv => MediaApart
  BY DEF PlanInv, PlanFlows, PlanFlow, PlanApart, PlanRows, MediaApart, Plan!TargetsApart
<1> QED
  BY PlanInitially, PlanNext, <1>1, PTL DEF Plan!Spec

(* What the user confirms is queued, by this plan or by another that was      *)
(* quicker, however much of it was queued since the preview.                   *)
THEOREM WhatIsConfirmedIsQueued == Plan!Spec => ConfirmedIsQueued
<1> DEFINE P == \A f \in Plan!Flows :
                  Plan!Commit(f) => Plan!Keys(flow[f].plan) \subseteq {r.media : r \in rows'}
<1>1. ASSUME NEW f \in Plan!Flows, Plan!Commit(f) PROVE Plan!Keys(flow[f].plan) \subseteq {r.media : r \in rows'}
  <2> DEFINE new == Plan!New(f)
             added == Plan!Rows(f, new)
  <2>1. rows' = rows \cup added
    BY <1>1 DEF Plan!Commit
  <2> SUFFICES ASSUME NEW k \in DOMAIN flow[f].plan
               PROVE \E r \in rows' : r.media = flow[f].plan[k].media
    BY DEF Plan!Keys
  <2> DEFINE i == flow[f].plan[k]
  <2>2. i \in new \/ \E r \in rows : r.media = i.media
    BY DEF Plan!New, Plan!Queued, Plan!ToSet
  <2>3. i \in new => [task |-> flow[f].task, media |-> i.media, target |-> i.target] \in added
    BY DEF Plan!Rows
  <2> HIDE DEF new, added, i
  <2> QED
    BY <2>1, <2>2, <2>3 DEF i
<1>2. [P]_Plan!vars
  BY <1>1
<1>3. Plan!Spec => [][P]_Plan!vars
  BY <1>2, PTL
<1> QED
  BY <1>3 DEF ConfirmedIsQueued, Plan!ConfirmedIsQueued

-----------------------------------------------------------------------------
(***************************************************************************)
(* DownloadWindow, for a week of any length.                                *)
(***************************************************************************)
LEMMA DivisionIs ==
  ASSUME NEW a \in Nat, NEW b \in Nat \ {0}
  PROVE  a \div b \in Nat /\ a % b \in 0 .. b - 1 /\ a = (a \div b) * b + (a % b)
OBVIOUS

LEMMA ProductIs == ASSUME NEW q \in Nat, NEW b \in Nat PROVE q * b \in Nat /\ (q + 1) * b = q * b + b
OBVIOUS

LEMMA ProductGrows ==
  ASSUME NEW b \in Nat, NEW q \in Nat, NEW p \in Nat, q < p PROVE q * b + b <= p * b
<1>1. PICK k \in Nat : p = q + 1 + k
  <2>1. p - q - 1 \in Nat /\ p = q + 1 + (p - q - 1)
    OBVIOUS
  <2> QED
    BY <2>1
<1>2. p * b = q * b + b + k * b /\ k * b \in Nat /\ q * b \in Nat
  BY <1>1
<1> QED
  BY <1>2

(* A number is divided in one way.                                            *)
LEMMA DividedOnce ==
  ASSUME NEW b \in Nat \ {0}, NEW q \in Nat, NEW p \in Nat, NEW r \in 0 .. b - 1, NEW s \in 0 .. b - 1,
         q * b + r = p * b + s
  PROVE  q = p /\ r = s
<1>1. q * b \in Nat /\ p * b \in Nat
  BY ProductIs
<1>2. ~(q < p)
  <2> SUFFICES ASSUME q < p PROVE FALSE
    OBVIOUS
  <2>1. q * b + b <= p * b
    BY ProductGrows
  <2> QED
    BY <1>1, <2>1
<1>3. ~(p < q)
  <2> SUFFICES ASSUME p < q PROVE FALSE
    OBVIOUS
  <2>1. p * b + b <= q * b
    BY ProductGrows
  <2> QED
    BY <1>1, <2>1
<1>4. q = p
  BY <1>2, <1>3
<1> QED
  BY <1>1, <1>4

LEMMA QuotientIs ==
  ASSUME NEW b \in Nat \ {0}, NEW q \in Nat, NEW r \in 0 .. b - 1
  PROVE  (q * b + r) \div b = q /\ (q * b + r) % b = r
<1> DEFINE a == q * b + r
<1>1. a \in Nat
  BY ProductIs
<1> HIDE DEF a
<1>2. a \div b \in Nat /\ a % b \in 0 .. b - 1 /\ a = (a \div b) * b + (a % b)
  BY <1>1, DivisionIs
<1>3. (a \div b) * b + (a % b) = q * b + r
  BY <1>2 DEF a
<1> QED
  BY <1>2, <1>3, DividedOnce DEF a

LEMMA RemainderIs == ASSUME NEW b \in Nat \ {0}, NEW r \in 0 .. b - 1 PROVE r % b = r
<1>1. (0 * b + r) % b = r /\ 0 * b + r = r
  BY QuotientIs
<1> QED
  BY <1>1

(* The minute of the week that is minute m of day e.                          *)
LEMMA WeekIs ==
  ASSUME NEW D \in Nat \ {0}, NEW M \in Nat \ {0}, NEW e \in Nat, NEW m \in 0 .. M - 1
  PROVE  e % D \in 0 .. D - 1 /\ (e * M + m) % (D * M) = (e % D) * M + m
<1> DEFINE W == D * M
           p == e \div D
           d == e % D
           y == d * M + m
<1>1. p \in Nat /\ d \in 0 .. D - 1 /\ e = p * D + d
  BY DivisionIs
<1> HIDE DEF p, d
<1>2. W \in Nat \ {0}
  <2>1. PICK k \in Nat : D = k + 1
    <3>1. D - 1 \in Nat /\ D = D - 1 + 1
      OBVIOUS
    <3> QED
      BY <3>1
  <2>2. W = k * M + M /\ k * M \in Nat
    BY <2>1, ProductIs
  <2> QED
    BY <2>2
<1>3. y \in 0 .. W - 1
  <2>1. d * M \in Nat /\ d * M + M <= W
    BY <1>1, ProductIs, ProductGrows
  <2> HIDE DEF W
  <2> QED
    BY <1>2, <2>1
<1>4. e * M + m = p * W + y
  <2>1. (p * D + d) * M = p * (D * M) + d * M /\ p * (D * M) \in Int /\ d * M \in Int
    BY <1>1
  <2> QED
    BY <1>1, <2>1
<1> HIDE DEF W, y
<1>5. (p * W + y) % W = y
  BY <1>1, <1>2, <1>3, QuotientIs
<1> QED
  BY <1>1, <1>4, <1>5 DEF W, y, d

LEMMA DayBefore ==
  ASSUME NEW D \in Nat \ {0}, NEW d \in 0 .. D - 1, NEW day \in 0 .. D - 1
  PROVE  (d + 1) % D = day <=> d = (day + D - 1) % D
<1>1. (d + 1) % D = IF d + 1 = D THEN 0 ELSE d + 1
  <2>1. CASE d + 1 = D
    <3>1. 0 \in 0 .. D - 1 /\ 1 * D + 0 = D
      OBVIOUS
    <3>2. (1 * D + 0) % D = 0
      BY <3>1, QuotientIs
    <3> QED
      BY <2>1, <3>1, <3>2
  <2>2. CASE d + 1 # D
    BY <2>2, RemainderIs
  <2> QED
    BY <2>1, <2>2
<1>2. (day + D - 1) % D = IF day = 0 THEN D - 1 ELSE day - 1
  <2>1. CASE day = 0
    <3>1. day + D - 1 = D - 1 /\ D - 1 \in 0 .. D - 1
      BY <2>1
    <3> QED
      BY <2>1, <3>1, RemainderIs
  <2>2. CASE day # 0
    <3>1. day - 1 \in 0 .. D - 1 /\ 1 * D + (day - 1) = day + D - 1
      BY <2>2
    <3>2. (1 * D + (day - 1)) % D = day - 1
      BY <3>1, QuotientIs
    <3> QED
      BY <2>2, <3>1, <3>2
  <2> QED
    BY <2>1, <2>2
<1> QED
  BY <1>1, <1>2

(* How long the window is open from its first minute on.                      *)
LEMMA LengthOfWindow ==
  ASSUME NEW M \in Nat \ {0}, NEW a \in 0 .. M - 1, NEW b \in 0 .. M - 1, a # b
  PROVE  a + ((b + M - a) % M) - 1 = IF a < b THEN b - 1 ELSE b + M - 1
<1>1. CASE a < b
  <2>1. b - a \in 0 .. M - 1 /\ 1 * M + (b - a) = b + M - a
    BY <1>1
  <2>2. (1 * M + (b - a)) % M = b - a
    BY <2>1, QuotientIs
  <2> QED
    BY <1>1, <2>1, <2>2
<1>2. CASE b < a
  <2>1. b + M - a \in 0 .. M - 1
    BY <1>2
  <2>2. (b + M - a) % M = b + M - a
    BY <2>1, RemainderIs
  <2> QED
    BY <1>2, <2>2
<1> QED
  BY <1>1, <1>2

(* Minute m of the window of day d is minute r of a day of the week: the same *)
(* day, or the one after when m is past midnight.                              *)
MinuteFalls(D, M, d, m, day, r) ==
  (d * M + m) % (D * M) = day * M + r <=>
    \/ m < M /\ d = day /\ m = r
    \/ ~(m < M) /\ d = (day + D - 1) % D /\ m = r + M

LEMMA MinuteOfWindow ==
  ASSUME NEW D \in Nat \ {0}, NEW M \in Nat \ {0}, NEW d \in 0 .. D - 1, NEW m \in 0 .. 2 * M - 1,
         NEW day \in 0 .. D - 1, NEW r \in 0 .. M - 1
  PROVE  MinuteFalls(D, M, d, m, day, r)
<1>1. CASE m < M
  <2>1. m \in 0 .. M - 1 /\ d \in Nat /\ day \in Nat
    BY <1>1
  <2>2. (d * M + m) % (D * M) = d * M + m
    <3>1. (d * M + m) % (D * M) = (d % D) * M + m
      BY <2>1, WeekIs
    <3> QED
      BY <3>1, RemainderIs
  <2>3. d * M + m = day * M + r => d = day /\ m = r
    BY <2>1, DividedOnce
  <2> QED
    BY <1>1, <2>2, <2>3 DEF MinuteFalls
<1>2. CASE ~(m < M)
  <2>1. m - M \in 0 .. M - 1 /\ d \in Nat /\ d + 1 \in Nat /\ day \in Nat
    BY <1>2
  <2>2. d * M + m = (d + 1) * M + (m - M)
    BY <2>1, ProductIs
  <2>3. /\ (d + 1) % D \in 0 .. D - 1
        /\ ((d + 1) * M + (m - M)) % (D * M) = ((d + 1) % D) * M + (m - M)
    <3> DEFINE e == d + 1
               n == m - M
    <3>1. e \in Nat /\ n \in 0 .. M - 1
      BY <2>1
    <3> HIDE DEF e, n
    <3>2. e % D \in 0 .. D - 1 /\ (e * M + n) % (D * M) = (e % D) * M + n
      BY <3>1, WeekIs
    <3> QED
      BY <3>2 DEF e, n
  <2>4. (d * M + m) % (D * M) = ((d + 1) % D) * M + (m - M)
    BY <2>2, <2>3
  <2>5. ((d + 1) % D) * M + (m - M) = day * M + r <=> (d + 1) % D = day /\ m - M = r
    <3> DEFINE c == (d + 1) % D
    <3>1. c \in Nat
      BY <2>3
    <3> HIDE DEF c
    <3>2. c * M + (m - M) = day * M + r => c = day /\ m - M = r
      BY <2>1, <3>1, DividedOnce
    <3> QED
      BY <3>2 DEF c
  <2>6. (d + 1) % D = day <=> d = (day + D - 1) % D
    BY DayBefore
  <2>7. m - M = r <=> m = r + M
    OBVIOUS
  <2> QED
    BY <1>2, <2>4, <2>5, <2>6, <2>7 DEF MinuteFalls
<1> QED
  BY <1>1, <1>2

LEMMA WeekHasMinutes == Days \in Nat \ {0} /\ Minutes \in Nat \ {0}
BY WeekAssumption DEF Hours!WeekAssumption

(* The two readings of the settings: whether a minute is inside the window,   *)
(* and the minutes of the windows that begin on the selected days.             *)
LEMMA InsideIsOpen ==
  ASSUME NEW s \in Hours!Settings, s.enabled, NEW t \in Nat
  PROVE  Hours!AllowedAt(s, t) <=> (t % Hours!Week) \in Hours!Open(s)
<1> DEFINE D == Days
           M == Minutes
           q == t \div M
           r == t % M
           day == q % D
           L == IF s.start = s.end THEN 0 .. M - 1
                ELSE s.start .. (s.start + ((s.end + M - s.start) % M) - 1)
<1>1. D \in Nat \ {0} /\ M \in Nat \ {0}
  BY WeekHasMinutes
<1>2. /\ s.weekdays \subseteq 0 .. D - 1 /\ s.start \in 0 .. M - 1 /\ s.end \in 0 .. M - 1
  BY DEF Hours!Settings
<1>3. Hours!Week = D * M /\ Hours!Open(s) = {(d * M + m) % (D * M) : d \in s.weekdays, m \in L}
  BY DEF Hours!Week, Hours!Open
<1>4. Hours!AllowedAt(s, t) <=>
        \/ s.start = s.end /\ day \in s.weekdays
        \/ s.start < s.end /\ day \in s.weekdays /\ s.start <= r /\ r < s.end
        \/ /\ s.start > s.end
           /\ \/ day \in s.weekdays /\ r >= s.start
              \/ (day + D - 1) % D \in s.weekdays /\ r < s.end
  BY DEF Hours!AllowedAt
<1> HIDE DEF D, M
<1>5. q \in Nat /\ r \in 0 .. M - 1 /\ t = q * M + r
  BY <1>1, DivisionIs
<1> HIDE DEF q, r
<1>6. day \in 0 .. D - 1 /\ t % (D * M) = day * M + r
  BY <1>1, <1>5, WeekIs
<1>7. L = IF s.start = s.end THEN 0 .. M - 1
          ELSE s.start .. (IF s.start < s.end THEN s.end - 1 ELSE s.end + M - 1)
  BY <1>1, <1>2, LengthOfWindow
<1> HIDE DEF L, day
<1>8. L \subseteq 0 .. 2 * M - 1
  BY <1>1, <1>2, <1>7
<1>9. (t % (D * M)) \in {(d * M + m) % (D * M) : d \in s.weekdays, m \in L} <=>
        \E d \in s.weekdays, m \in L : \/ m < M /\ d = day /\ m = r
                                       \/ ~(m < M) /\ d = (day + D - 1) % D /\ m = r + M
  <2>1. \A d \in s.weekdays, m \in L :
          (d * M + m) % (D * M) = day * M + r <=>
            \/ m < M /\ d = day /\ m = r
            \/ ~(m < M) /\ d = (day + D - 1) % D /\ m = r + M
    <3> SUFFICES ASSUME NEW d \in s.weekdays, NEW m \in L
                 PROVE (d * M + m) % (D * M) = day * M + r <=>
                         \/ m < M /\ d = day /\ m = r
                         \/ ~(m < M) /\ d = (day + D - 1) % D /\ m = r + M
      OBVIOUS
    <3>1. d \in 0 .. D - 1 /\ m \in 0 .. 2 * M - 1
      BY <1>2, <1>8
    <3>2. r \in 0 .. M - 1 /\ day \in 0 .. D - 1
      BY <1>5, <1>6
    <3>3. MinuteFalls(D, M, d, m, day, r)
      BY <1>1, <3>1, <3>2, MinuteOfWindow
    <3> QED
      BY <1>6, <3>3 DEF MinuteFalls
  <2> DEFINE y == t % (D * M)
             f(d, m) == (d * M + m) % (D * M)
             H(d, m) == \/ m < M /\ d = day /\ m = r
                        \/ ~(m < M) /\ d = (day + D - 1) % D /\ m = r + M
  <2>2. \A d \in s.weekdays, m \in L : f(d, m) = y <=> H(d, m)
    BY <1>6, <2>1
  <2> HIDE DEF y, f, H
  <2>3. y \in {f(d, m) : d \in s.weekdays, m \in L} <=> \E d \in s.weekdays, m \in L : H(d, m)
    BY <2>2
  <2> QED
    BY <2>3 DEF y, f, H
<1> DEFINE before == (day + D - 1) % D
<1> HIDE DEF before
<1>10. (\E d \in s.weekdays, m \in L : \/ m < M /\ d = day /\ m = r
                                       \/ ~(m < M) /\ d = before /\ m = r + M)
       <=> (day \in s.weekdays /\ r \in L) \/ (before \in s.weekdays /\ r + M \in L)
  <2>1. r < M /\ ~(r + M < M)
    BY <1>1, <1>5
  <2> QED
    BY <2>1
<1>11. /\ r \in L <=> \/ s.start = s.end
                      \/ s.start < s.end /\ s.start <= r /\ r < s.end
                      \/ s.start > s.end /\ r >= s.start
       /\ r + M \in L <=> s.start > s.end /\ r < s.end
  <2>1. CASE s.start = s.end
    BY <1>1, <1>2, <1>5, <1>7, <2>1
  <2>2. CASE s.start < s.end
    <3>1. s.start # s.end /\ L = s.start .. s.end - 1
      BY <1>2, <1>7, <2>2
    <3> QED
      BY <1>1, <1>2, <1>5, <2>2, <3>1
  <2>3. CASE s.start > s.end
    <3>1. s.start # s.end /\ ~(s.start < s.end) /\ L = s.start .. s.end + M - 1
      BY <1>2, <1>7, <2>3
    <3> QED
      BY <1>1, <1>2, <1>5, <2>3, <3>1
  <2> QED
    BY <1>2, <2>1, <2>2, <2>3
<1>12. Hours!AllowedAt(s, t) <=> (day \in s.weekdays /\ r \in L) \/ (before \in s.weekdays /\ r + M \in L)
  BY <1>4, <1>11 DEF before
<1> QED
  BY <1>3, <1>9, <1>10, <1>12 DEF before

HoursInv == set \in Hours!Settings /\ now \in Nat /\ state = Hours!Evaluated(set, now)

LEMMA HoursInitially == Hours!Init => HoursInv
<1> SUFFICES ASSUME Hours!Init PROVE HoursInv
  OBVIOUS
<1>1. Days \in Nat \ {0} /\ Minutes \in Nat \ {0}
  BY WeekHasMinutes
<1>2. 0 \in 0 .. Days - 1 /\ 0 \in 0 .. Minutes - 1
  BY <1>1
<1>3. Hours!Default \in Hours!Settings
  <2> DEFINE W == (SUBSET (0 .. Days - 1)) \ {{}}
  <2>1. 0 .. Days - 1 \in W
    BY <1>2
  <2> HIDE DEF W
  <2>2. Hours!Default \in [enabled : BOOLEAN, weekdays : W, start : 0 .. Minutes - 1, end : 0 .. Minutes - 1]
    BY <1>2, <2>1 DEF Hours!Default
  <2> QED
    BY <2>2 DEF Hours!Settings, W
<1> QED
  BY <1>3 DEF Hours!Init, HoursInv

LEMMA HoursNext == HoursInv /\ [Hours!Next]_Hours!vars => HoursInv'
<1> SUFFICES ASSUME HoursInv, [Hours!Next]_Hours!vars PROVE HoursInv'
  OBVIOUS
<1>1. CASE Hours!Reconfigure
  BY <1>1, Zenon DEF Hours!Reconfigure, HoursInv
<1>2. CASE Hours!Wake
  <2>1. now' \in 0 .. Hours!Week - 1 /\ set' = set /\ state' = Hours!Evaluated(set, now')
    BY <1>2 DEF Hours!Wake
  <2>2. 0 .. Hours!Week - 1 \subseteq Nat
    <3>1. Hours!Week \in Int
      BY WeekHasMinutes DEF Hours!Week
    <3> QED
      BY <3>1
  <2>3. state' = Hours!Evaluated(set', now')
    BY <2>1, Zenon
  <2> QED
    BY <2>1, <2>2, <2>3 DEF HoursInv
<1>3. CASE UNCHANGED Hours!vars
  BY <1>3, Zenon DEF Hours!vars, HoursInv
<1> QED
  BY <1>1, <1>2, <1>3 DEF Hours!Next

(* An evaluation that does not raise knows whether the minute is inside, and  *)
(* the first minute at which the answer is another.                            *)
LEMMA EvaluatedIs ==
  ASSUME NEW s \in Hours!Settings, s.enabled, NEW t \in Nat,
         Hours!Evaluated(s, t) # Hours!Failed
  PROVE  /\ Hours!Evaluated(s, t).allowed = Hours!AllowedAt(s, t)
         /\ Hours!Evaluated(s, t).next \in Nat
         /\ Hours!AllowedAt(s, t + Hours!Evaluated(s, t).next) # Hours!AllowedAt(s, t)
         /\ \A n \in 1 .. Hours!Evaluated(s, t).next - 1 : Hours!AllowedAt(s, t + n) = Hours!AllowedAt(s, t)
<1> DEFINE B == Hours!Week + Minutes
           in(n) == Hours!AllowedAt(s, t + n)
           allowed == Hours!AllowedAt(s, t)
           changes == {n \in 1 .. B : in(n) # allowed}
<1>1. B \in Nat
  BY WeekHasMinutes DEF Hours!Week
<1>2. /\ changes # {}
      /\ Hours!Evaluated(s, t) = [allowed |-> allowed, next |-> Hours!Min(changes)]
  BY Zenon DEF Hours!Evaluated
<1> HIDE DEF B
<1> DEFINE k == Min(changes)
<1>3. Hours!Min(changes) = k
  BY DEF Hours!Min, Min
<1>4. k \in changes /\ \A i \in changes : k <= i
  <2>1. changes \in SUBSET Nat
    BY <1>1
  <2> HIDE DEF changes
  <2> QED
    BY <1>2, <2>1, LeastPosition
<1>5. k \in 1 .. B /\ in(k) # allowed
  BY <1>4
<1>6. \A n \in 1 .. k - 1 : in(n) = allowed
  <2> SUFFICES ASSUME NEW n \in 1 .. k - 1 PROVE in(n) = allowed
    OBVIOUS
  <2>1. n \in 1 .. B /\ ~(k <= n)
    BY <1>1, <1>5
  <2>2. n \notin changes
    BY <1>4, <2>1
  <2> HIDE DEF in, allowed
  <2> QED
    BY <2>1, <2>2
<1>7. Hours!Evaluated(s, t).allowed = allowed /\ Hours!Evaluated(s, t).next = k
  <2>1. \A a, b : [allowed |-> a, next |-> b].allowed = a /\ [allowed |-> a, next |-> b].next = b
    OBVIOUS
  <2> HIDE DEF allowed, k, changes
  <2> QED
    BY <1>2, <1>3, <2>1
<1> QED
  <2>1. k \in Nat
    BY <1>1, <1>5
  <2> HIDE DEF k
  <2> QED
    BY <1>5, <1>6, <1>7, <2>1, Zenon

(* Whatever minute the loop wakes up at and whatever settings it is given,    *)
(* the evaluation agrees with the minutes the settings describe and finds the  *)
(* next change (download_schedule.py), for a week of any length.                *)
THEOREM WeekIsFollowed == Hours!Spec => []FollowsTheWeek
<1>1. HoursInv => FollowsTheWeek
  <2> SUFFICES ASSUME HoursInv, set.enabled, state # Hours!Failed
               PROVE  LET in(t) == (t % Hours!Week) \in Hours!Open(set) IN
                      /\ state.allowed = in(now)
                      /\ in(now + state.next) # in(now)
                      /\ \A n \in 1 .. state.next - 1 : in(now + n) = in(now)
    BY Zenon DEF FollowsTheWeek, Hours!FollowsTheWeek
  <2> DEFINE in(t) == (t % Hours!Week) \in Hours!Open(set)
  <2>1. \A t \in Nat : Hours!AllowedAt(set, t) <=> in(t)
    BY InsideIsOpen DEF HoursInv
  <2>2. \A t \in Nat : Hours!AllowedAt(set, t) = in(t)
    <3>1. \A t : Hours!AllowedAt(set, t) \in BOOLEAN /\ in(t) \in BOOLEAN
      BY DEF Hours!AllowedAt
    <3> QED
      BY <2>1, <3>1, Zenon
  <2>3. /\ state.allowed = Hours!AllowedAt(set, now) /\ state.next \in Nat
        /\ Hours!AllowedAt(set, now + state.next) # Hours!AllowedAt(set, now)
        /\ \A n \in 1 .. state.next - 1 : Hours!AllowedAt(set, now + n) = Hours!AllowedAt(set, now)
    <3>1. set \in Hours!Settings /\ now \in Nat /\ state = Hours!Evaluated(set, now)
      BY DEF HoursInv
    <3> QED
      BY <3>1, EvaluatedIs, Zenon
  <2>4. now \in Nat /\ now + state.next \in Nat /\ \A n \in 1 .. state.next - 1 : now + n \in Nat
    BY <2>3 DEF HoursInv
  <2> HIDE DEF in
  <2> QED
    BY <2>2, <2>3, <2>4, Zenon DEF in
<1> QED
  BY HoursInitially, HoursNext, <1>1, PTL DEF Hours!Spec

-----------------------------------------------------------------------------
(***************************************************************************)
(* The types of the components, for every value of the constants: what      *)
(* TypesOK says of each, and what it takes to keep that.                     *)
(***************************************************************************)
(* A week has minutes. *)
LEMMA ProductIsPositive == ASSUME NEW a \in Nat \ {0}, NEW b \in Nat \ {0} PROVE a * b \in Nat \ {0}
OBVIOUS

-----------------------------------------------------------------------------
(* DownloadWindow: the minute is one of the week.                            *)
HoursTypes == HoursInv /\ Hours!TypeOK

LEMMA HoursTypesInit == Hours!Init => HoursTypes
<1> SUFFICES ASSUME Hours!Init PROVE HoursTypes
  OBVIOUS
<1>1. HoursInv
  BY HoursInitially
<1>2. 0 \in 0 .. Hours!Week - 1
  <2>1. Hours!Week \in Nat \ {0}
    BY WeekHasMinutes, ProductIsPositive DEF Hours!Week
  <2> QED
    BY <2>1
<1> QED
  BY <1>1, <1>2 DEF HoursTypes, HoursInv, Hours!Init, Hours!TypeOK

LEMMA HoursTypesStep == HoursTypes /\ [Hours!Next]_Hours!vars => HoursTypes'
<1> SUFFICES ASSUME HoursTypes, [Hours!Next]_Hours!vars PROVE HoursTypes'
  OBVIOUS
<1>1. HoursInv'
  BY HoursNext DEF HoursTypes
<1>2. now' \in 0 .. Hours!Week - 1 /\ loop' \in {"runs", "ended"}
  BY DEF HoursTypes, Hours!TypeOK, Hours!Next, Hours!Reconfigure, Hours!Wake, Hours!vars
<1>3. Hours!TypeOK'
  BY <1>1, <1>2 DEF HoursInv, Hours!TypeOK
<1> QED
  BY <1>1, <1>3 DEF HoursTypes

-----------------------------------------------------------------------------
LEMMA AppTypesInit == App!Init => App!TypeOK
BY DEF App!Init, App!TypeOK

LEMMA AppTypesStep == App!TypeOK /\ [App!Next]_(App!vars) => App!TypeOK'
<1> SUFFICES ASSUME App!TypeOK, [App!Next]_(App!vars) PROVE App!TypeOK'
  OBVIOUS
<1> USE AppDomains DEF App!TypeOK, Services, App!run, App!rest
<1>1. CASE App!Launch \/ App!Build \/ App!HealthCheck
  BY <1>1 DEF App!Launch, App!Build, App!HealthCheck
<1>2. CASE App!Show \/ App!StartService \/ App!StartFails
  BY <1>2 DEF App!Show, App!ShowInitial, App!StartService, App!StartFails
<1>3. CASE App!UI
  <2>1. ASSUME App!RequestExit PROVE exiting' \in BOOLEAN /\ icon' \in BOOLEAN /\ whole' \in BOOLEAN
                                     /\ shutdown' \in {"none", "quit"} \cup Services
    <3>1. CASE exiting
      BY <2>1, <3>1 DEF App!RequestExit
    <3>2. CASE ~exiting
      <4>1. exiting' = TRUE /\ icon' = FALSE /\ App!Request
        BY <2>1, <3>2 DEF App!RequestExit
      <4>2. whole' \in BOOLEAN
        <5>1. CASE shutdown = "none"
          <6>1. whole' = (startup \in {"done", "failed"})
            BY <4>1, <5>1 DEF App!Request
          <6> QED
            BY <6>1
        <5>2. CASE shutdown # "none"
          BY <4>1, <5>2 DEF App!Request
        <5> QED
          BY <5>1, <5>2
      <4> QED
        BY <4>1, <4>2 DEF App!Request
    <3> QED
      BY <3>1, <3>2
  <2>2. CASE App!Activate \/ App!Configure
    BY <2>2 DEF App!Activate, App!Configure
  <2>3. CASE App!CloseWindow
    BY <2>1, <2>3 DEF App!CloseWindow
  <2>4. CASE App!Tray
    BY <2>1, <2>4 DEF App!Tray
  <2>5. CASE App!OtherExit
    BY <2>1, <2>5 DEF App!OtherExit
  <2> QED
    BY <1>3, <2>2, <2>3, <2>4, <2>5 DEF App!UI
<1>4. CASE App!Unwind \/ App!SessionQuits \/ App!Kill
  BY <1>4 DEF App!Unwind, App!Stop, App!Quit, App!CancelStartup, App!Waited, App!Cleanup,
     App!SessionQuits, App!Kill, App!Gone
<1>5. CASE UNCHANGED App!vars
  BY <1>5 DEF App!vars
<1> QED
  BY <1>1, <1>2, <1>3, <1>4, <1>5 DEF App!Next

-----------------------------------------------------------------------------
(* RuntimeSettings: what the switches are.                                   *)
SettingSwitches ==
  /\ registry \in {"off", "on"} /\ vault \in {"off", "on"} /\ tray \in {"off", "on"}
  /\ window \in {"off", "on"} /\ told \in {"off", "on"}
  /\ done \subseteq {"registry", "store"} /\ faults \in 0 .. MaxFaults

LEMMA SettingTypesInit == ASSUME MaxFaults \in Nat PROVE Setting!Init => SettingTypes /\ SettingSwitches
BY DEF Setting!Init, Setting!Start, SettingTypes, SettingSwitches, Values, Applying, Undoing

LEMMA SettingTypesStep ==
  ASSUME MaxFaults \in Nat, SettingTypes, SettingSwitches, [Setting!Next]_(Setting!vars)
  PROVE  SettingTypes' /\ SettingSwitches'
<1>1. memory.stamp \in BOOLEAN /\ was \in Values /\ want \in Values /\ Setting!To \in Values /\ Setting!From \in Values
  BY DEF SettingTypes, Values, Setting!To, Setting!From
<1>2. /\ saved.auto \in {"off", "on"} /\ was.auto \in {"off", "on"} /\ want.auto \in {"off", "on"}
      /\ faults \in Nat
  BY DEF SettingTypes, Values
<1>3. Setting!From.auto \in {"off", "on"} /\ Setting!To.auto \in {"off", "on"}
  BY <1>2 DEF Setting!From, Setting!To
<1>4. ASSUME Setting!Fault PROVE faults' \in 0 .. MaxFaults
  BY <1>2, <1>4 DEF Setting!Fault, SettingSwitches
<1>5. SettingSwitches'
  <2> USE DEF SettingSwitches, Setting!settings, Setting!plan
  <2>1. CASE Setting!Open \/ Setting!Close \/ Setting!Record \/ Setting!Report \/ Setting!Save
    BY <2>1 DEF Setting!Open, Setting!Close, Setting!Record, Setting!Report, Setting!Save
  <2>2. CASE Setting!Register \/ Setting!Store
    BY <1>3, <1>4, <2>2 DEF Setting!Register, Setting!Store, Setting!Fails
  <2>3. CASE Setting!Configure \/ Setting!Tell
    BY <1>3, <1>4, <2>3 DEF Setting!Configure, Setting!Tell, Setting!Fails
  <2>4. CASE Setting!SaveVault \/ Setting!Commit
    BY <1>2, <1>4, <2>4 DEF Setting!SaveVault, Setting!Commit
  <2>5. CASE Setting!Unwindow \/ Setting!Unstore \/ Setting!Unregister
    BY <1>3, <1>4, <2>5 DEF Setting!Unwindow, Setting!Unstore, Setting!Unregister
  <2>6. CASE Setting!Restart \/ UNCHANGED Setting!vars
    BY <1>2, <2>6 DEF Setting!Restart, Setting!vars
  <2> QED
    BY <2>1, <2>2, <2>3, <2>4, <2>5, <2>6 DEF Setting!Next, Setting!Work
<1>6. SettingTypes'
  <2>1. faults' \in Nat
    BY <1>5 DEF SettingSwitches
  <2> USE DEF SettingTypes, Setting!settings, Setting!plan, Applying, Undoing
  <2>2. CASE Setting!Open \/ Setting!Close
    BY <1>1, <2>1, <2>2 DEF Setting!Open, Setting!Close
  <2>3. CASE Setting!Record
    BY <1>1, <2>1, <2>3 DEF Setting!Record, Values
  <2>4. CASE Setting!Report
    BY <1>1, <2>1, <2>4 DEF Setting!Report
  <2>5. CASE Setting!Save
    BY <1>1, <2>1, <2>5 DEF Setting!Save, Values
  <2>6. CASE Setting!Register \/ Setting!Store \/ Setting!Configure \/ Setting!Tell
    BY <1>1, <2>1, <2>6 DEF Setting!Register, Setting!Store, Setting!Configure, Setting!Tell,
       Setting!Fails
  <2>7. CASE Setting!SaveVault \/ Setting!Commit
    BY <1>1, <2>1, <2>7 DEF Setting!SaveVault, Setting!Commit
  <2>8. CASE Setting!Unwindow \/ Setting!Unstore \/ Setting!Unregister
    BY <1>1, <2>1, <2>8 DEF Setting!Unwindow, Setting!Unstore, Setting!Unregister
  <2>9. CASE Setting!Restart \/ UNCHANGED Setting!vars
    BY <1>1, <2>1, <2>9 DEF Setting!Restart, Setting!vars
  <2> QED
    BY <2>2, <2>3, <2>4, <2>5, <2>6, <2>7, <2>8, <2>9 DEF Setting!Next, Setting!Work
<1> QED
  BY <1>5, <1>6

LEMMA SettingTypesSuffice == ASSUME SettingTypes, SettingSwitches PROVE Setting!TypeOK
BY DEF SettingTypes, Values, SettingSwitches, Setting!TypeOK

-----------------------------------------------------------------------------
(* AsyncActions: what the exit waits for.                                    *)
ActionLeaving == leaving \in {"no", "waiting", "done"} /\ awaited \subseteq Action!Slots

LEMMA ActionTypesInit == ASSUME MaxAlive \in Nat PROVE Action!Init => ActionInv /\ ActionLeaving
BY ActionInit DEF Action!Init, ActionLeaving

LEMMA ActionTypesStep ==
  ASSUME MaxAlive \in Nat, ActionInv, ActionLeaving, [Action!Next]_(Action!vars) PROVE ActionInv' /\ ActionLeaving'
<1>1. ActionInv'
  BY ActionStep
<1>2. ActionLeaving'
  <2>1. CASE Action!Shutdown
    <3>1. {table[key] : key \in Action!Keys} \ {0} \subseteq Action!Slots
      BY DEF ActionInv
    <3> QED
      BY <2>1, <3>1 DEF Action!Shutdown, ActionLeaving
  <2>2. CASE \E key \in Action!Keys : Action!Begin(key)
    BY <2>2 DEF Action!Begin, ActionLeaving
  <2>3. CASE \E s \in Action!Slots : Action!Run(s) \/ Action!End(s)
    BY <2>3 DEF Action!Run, Action!End, ActionLeaving
  <2>4. CASE Action!ShutdownDone \/ UNCHANGED Action!vars
    BY <2>4 DEF Action!ShutdownDone, Action!vars, ActionLeaving
  <2> QED
    BY <2>1, <2>2, <2>3, <2>4 DEF Action!Next
<1> QED
  BY <1>1, <1>2

LEMMA ActionTypesSuffice == ASSUME ActionInv, ActionLeaving PROVE Action!TypeOK
BY DEF ActionInv, ActionStates, ActionLeaving, Action!TypeOK

-----------------------------------------------------------------------------
(* Notifications: the batches, their deadlines and the timer; what was given  *)
(* and what waits is what was counted.                                        *)
NoticeTypes ==
  /\ \A k \in Notice!Kinds : /\ DOMAIN pending[k] = {"count", "left"}
                             /\ pending[k].count \in Nat /\ pending[k].left \in 0 .. Window
                             /\ given[k] \in Nat /\ given[k] + pending[k].count = counted[k]
  /\ DOMAIN pending = Notice!Kinds /\ DOMAIN counted = Notice!Kinds
  /\ ended \subseteq Tasks /\ ready \in BOOLEAN /\ timer \in -1 .. Window

LEMMA LeastOfFew == ASSUME NEW S, S # {}, S \subseteq Nat PROVE \E m \in S : \A n \in S : m <= n
<1>1. PICK m \in S : \A n \in S : <<n, m>> \notin OpToRel(<, Nat)
  BY NatLessThanWellFounded, WFMin
<1>2. ASSUME NEW n \in S PROVE m <= n
  <2>1. m \in Nat /\ n \in Nat
    OBVIOUS
  <2>2. SUFFICES ASSUME n < m PROVE FALSE
    BY <2>1
  <2>3. <<n, m>> \in OpToRel(<, Nat)
    BY <2>1, <2>2, Zenon DEF OpToRel
  <2> QED
    BY <1>1, <2>3
<1> QED
  BY <1>2

LEMMA ArmedIs ==
  ASSUME Window \in Nat, NEW p, NEW t \in -1 .. Window, \A k \in Notice!Kinds : p[k].left \in 0 .. Window
  PROVE  Notice!Armed(p, t) \in -1 .. Window
<1> DEFINE S == {p[k].left : k \in Notice!Full(p)}
<1>1. S \subseteq 0 .. Window
  BY DEF Notice!Full
<1>2. CASE t # -1 \/ Notice!Full(p) = {}
  BY <1>2 DEF Notice!Armed, Notice!Off
<1>3. CASE t = -1 /\ Notice!Full(p) # {}
  <2>1. S # {} /\ S \subseteq Nat
    BY <1>1, <1>3
  <2> HIDE DEF S
  <2>2. Notice!Min(S) \in S
    BY <2>1, LeastOfFew DEF Notice!Min
  <2>3. Notice!Armed(p, t) = Notice!Min(S)
    BY <1>3 DEF S, Notice!Armed, Notice!Off
  <2>4. \A n \in 0 .. Window : n \in -1 .. Window
    OBVIOUS
  <2> QED
    BY <1>1, <2>2, <2>3, <2>4, Zenon
<1> QED
  BY <1>2, <1>3

LEMMA NoticeTypesInit == ASSUME Window \in Nat PROVE Notice!Init => NoticeTypes
<1> SUFFICES ASSUME Window \in Nat, Notice!Init PROVE NoticeTypes
  OBVIOUS
<1>1. 0 \in 0 .. Window /\ -1 \in -1 .. Window
  OBVIOUS
<1>2. timer = -1 /\ ended = {} /\ ready = FALSE
  BY DEF Notice!Init, Notice!Off
<1>3. \A k \in Notice!Kinds : pending[k] = [count |-> 0, left |-> 0] /\ given[k] = 0 /\ counted[k] = 0
  BY DEF Notice!Init, Notice!Empty
<1>4. DOMAIN pending = Notice!Kinds /\ DOMAIN counted = Notice!Kinds
  BY DEF Notice!Init
<1>5. ready \in BOOLEAN /\ ended \subseteq Tasks
  BY <1>2
<1> QED
  BY <1>1, <1>2, <1>3, <1>4, <1>5 DEF NoticeTypes

LEMMA NoticeAdds ==
  ASSUME Window \in Nat, NoticeTypes, NEW k \in Notice!Kinds, NEW n \in Nat, Notice!Add(k, n), ended' \subseteq Tasks
  PROVE  NoticeTypes'
<1>1. ASSUME NEW j \in Notice!Kinds
      PROVE  /\ DOMAIN pending'[j] = {"count", "left"}
             /\ pending'[j].count \in Nat /\ pending'[j].left \in 0 .. Window
             /\ given'[j] \in Nat /\ given'[j] + pending'[j].count = counted'[j]
  <2>1. given'[j] = given[j] /\ given[j] \in Nat /\ pending[j].count \in Nat
        /\ given[j] + pending[j].count = counted[j] /\ pending[j].left \in 0 .. Window
    BY DEF NoticeTypes, Notice!Add
  <2>2. CASE j = k
    <3>1. /\ counted'[j] = counted[j] + n /\ DOMAIN pending'[j] = {"count", "left"}
          /\ pending'[j].count = pending[j].count + n
          /\ pending'[j].left = IF pending[j] = Notice!Empty THEN Window ELSE pending[j].left
      BY <2>2 DEF NoticeTypes, Notice!Add
    <3> QED
      BY <2>1, <3>1
  <2>3. CASE j # k
    BY <2>1, <2>3 DEF NoticeTypes, Notice!Add
  <2> QED
    BY <2>2, <2>3
<1>2. timer' \in -1 .. Window
  BY <1>1, ArmedIs DEF NoticeTypes, Notice!Add
<1>3. ready' \in BOOLEAN /\ DOMAIN pending' = Notice!Kinds /\ DOMAIN counted' = Notice!Kinds
  BY DEF NoticeTypes, Notice!Add
<1> QED
  BY <1>1, <1>2, <1>3 DEF NoticeTypes

LEMMA NoticeTypesStep == ASSUME Window \in Nat, NoticeTypes, [Notice!Next]_(Notice!vars) PROVE NoticeTypes'
<1>1. CASE Notice!RecordTask
  <2>1. PICK k \in Notice!Terminals, t \in Tasks \ ended : Notice!Add(k, 1) /\ ended' = ended \cup {t}
    BY <1>1 DEF Notice!RecordTask
  <2>2. k \in Notice!Kinds /\ ended' \subseteq Tasks /\ 1 \in Nat
    BY <2>1 DEF Notice!Kinds, NoticeTypes
  <2> QED
    BY <2>1, <2>2, NoticeAdds
<1>2. CASE Notice!RecordOther
  <2>1. PICK n \in 1 .. 2 : Notice!Add("other", n) /\ ended' = ended
    BY <1>2 DEF Notice!RecordOther
  <2>2. "other" \in Notice!Kinds /\ ended' \subseteq Tasks /\ n \in Nat
    BY <2>1 DEF Notice!Kinds, NoticeTypes
  <2> QED
    BY <2>1, <2>2, NoticeAdds
<1>3. CASE Notice!Setup
  BY <1>3, ArmedIs DEF Notice!Setup, NoticeTypes
<1>4. CASE Notice!Fire
  <2>1. \A j \in Notice!Kinds : /\ DOMAIN pending'[j] = {"count", "left"}
                               /\ pending'[j].count \in Nat /\ pending'[j].left \in 0 .. Window
                               /\ given'[j] \in Nat /\ given'[j] + pending'[j].count = counted'[j]
    BY <1>4 DEF NoticeTypes, Notice!Fire, Notice!Empty
  <2>2. timer' \in -1 .. Window
    BY <1>4, <2>1, ArmedIs DEF NoticeTypes, Notice!Fire, Notice!Off
  <2> QED
    BY <1>4, <2>1, <2>2 DEF NoticeTypes, Notice!Fire
<1>5. CASE Notice!Tick
  <2>1. \A j \in Notice!Kinds : /\ DOMAIN pending'[j] = {"count", "left"}
                               /\ pending'[j].count \in Nat /\ pending'[j].left \in 0 .. Window
                               /\ given'[j] \in Nat /\ given'[j] + pending'[j].count = counted'[j]
    BY <1>5 DEF NoticeTypes, Notice!Tick
  <2>2. timer' \in -1 .. Window
    BY <1>5 DEF NoticeTypes, Notice!Tick
  <2> QED
    BY <1>5, <2>1, <2>2 DEF NoticeTypes, Notice!Tick
<1>6. CASE UNCHANGED Notice!vars
  BY <1>6 DEF Notice!vars, NoticeTypes
<1> QED
  BY <1>1, <1>2, <1>3, <1>4, <1>5, <1>6 DEF Notice!Next

LEMMA NoticeTypesSuffice == NoticeTypes => Notice!TypeOK
BY DEF NoticeTypes, Notice!TypeOK, Notice!Off

-----------------------------------------------------------------------------
(* UpdateFetch: while a source is needed there is one, and no partial file is *)
(* longer than the longest answer.                                            *)
FetchBytes == {"a", "b", "x"}

FetchTypes ==
  /\ stage \in {"idle", "asked", "prepare", "describe", "existing", "open", "reading", "verify",
                "promoted", "discarded", "launch", "launched"}
  /\ target \in {"a", "b"} /\ meta \in {"none", "a", "b"} /\ begun \in {"a", "b"} /\ kills \in 0 .. MaxKills
  /\ order \in Seq(Fetch!Sources)
  /\ stage \in {"asked", "prepare", "describe", "existing", "open", "reading", "verify", "discarded"} => order # <<>>
  /\ part \in Seq(FetchBytes) /\ Len(part) <= 3 /\ stream \in Seq(FetchBytes)

LEMMA ContentIs ==
  /\ Fetch!Content["a"] \in Seq(FetchBytes) /\ Len(Fetch!Content["a"]) = 2
  /\ Fetch!Content["b"] \in Seq(FetchBytes) /\ Len(Fetch!Content["b"]) = 1
  /\ Fetch!Content["junk"] \in Seq(FetchBytes) /\ Len(Fetch!Content["junk"]) = 3
BY DEF Fetch!Content, FetchBytes

LEMMA NothingIs == \A S : <<>> \in Seq(S) /\ Len(<<>>) = 0
OBVIOUS

LEMMA FetchTypesInit == ASSUME MaxKills \in Nat PROVE Fetch!Init => FetchTypes
BY DEF Fetch!Init, Fetch!None, FetchTypes, FetchBytes

(* What is left of the sources after one that failed. *)
LEMMA NextSourceIs ==
  ASSUME order \in Seq(Fetch!Sources), order # <<>>, Fetch!NextSource
  PROVE  order' \in Seq(Fetch!Sources) /\ (stage' = "idle" \/ (stage' = "open" /\ order' # <<>>))
<1>1. PICK n \in Nat : n = Len(order) /\ n # 0
  OBVIOUS
<1>2. Tail(order) \in Seq(Fetch!Sources) /\ Len(Tail(order)) = n - 1
  BY <1>1
<1>3. n # 1 => Tail(order) # <<>>
  <2>1. n # 1 => n - 1 # 0
    BY <1>1
  <2>2. Len(<<>>) = 0
    OBVIOUS
  <2> QED
    BY <1>2, <2>1, <2>2, Zenon
<1> QED
  BY <1>1, <1>2, <1>3 DEF Fetch!NextSource

LEMMA ReconciledIs ==
  ASSUME NEW answer, NEW f \in Fetch!Sources, NEW s \in Fetch!Sources
  PROVE  /\ Fetch!Reconciled(answer, f, s) \in Seq(Fetch!Sources)
         /\ Fetch!Reconciled(answer, f, s) # <<>> =>
              answer[Fetch!Reconciled(answer, f, s)[1]] \in {"a", "b"}
<1> DEFINE newer == {t \in Fetch!Sources : answer[t] \in {"a", "b"}}
           Named(t) == IF t \in newer THEN <<t>> ELSE <<>>
<1>1. Fetch!Reconciled(answer, f, s) \in {<<>>, Named(f) \o Named(s)}
  BY DEF Fetch!Reconciled
<1>2. newer \subseteq Fetch!Sources /\ <<>> \in Seq(newer) /\ \A t : Named(t) \in Seq(newer)
  <2>1. \A t \in newer : <<t>> \in Seq(newer)
    BY SingleIs
  <2>2. <<>> \in Seq(newer)
    BY NothingIs, Zenon
  <2> QED
    BY <2>1, <2>2
<1> HIDE DEF Named
<1>3. Named(f) \o Named(s) \in Seq(newer)
  <2> HIDE DEF newer
  <2> QED
    BY <1>2, ConcatProperties
<1>4. PICK w : w = Fetch!Reconciled(answer, f, s)
  OBVIOUS
<1>5. w \in Seq(newer)
  <2> HIDE DEF newer
  <2> QED
    BY <1>1, <1>2, <1>3, <1>4
<1>6. w \in Seq(Fetch!Sources) /\ (w # <<>> => w[1] \in newer)
  <2>1. w \in Seq(Fetch!Sources)
    <3> HIDE DEF newer
    <3> QED
      BY <1>2, <1>5, SeqMonotonic, Zenon
  <2>2. w # <<>> => w[1] \in newer
    <3> HIDE DEF newer
    <3> QED
      BY <1>5
  <2> QED
    BY <2>1, <2>2
<1> QED
  BY <1>4, <1>6

LEMMA FetchTypesStep == ASSUME MaxKills \in Nat, FetchTypes, [Fetch!Next]_(Fetch!vars) PROVE FetchTypes'
<1>0. Fetch!None \in Seq(FetchBytes) /\ Len(Fetch!None) <= 3
  BY DEF Fetch!None
<1>1. CASE Fetch!Check
  <2>1. PICK answer \in [Fetch!Sources -> Fetch!Answers], f \in Fetch!Sources, s \in Fetch!Sources :
          /\ order' = Fetch!Reconciled(answer, f, s) /\ order' # <<>> /\ target' = answer[order'[1]]
    BY <1>1 DEF Fetch!Check
  <2>2. order' \in Seq(Fetch!Sources) /\ target' \in {"a", "b"}
    BY <2>1, ReconciledIs
  <2> QED
    BY <1>1, <2>1, <2>2 DEF Fetch!Check, FetchTypes
<1>2. CASE Fetch!Answer \/ Fetch!Describe \/ Fetch!Existing
  BY <1>2 DEF Fetch!Answer, Fetch!Describe, Fetch!Existing, FetchTypes
<1>3. CASE Fetch!Prepare \/ Fetch!NoSpace
  <2>1. order' \in Seq(Fetch!Sources)
    <3>1. <<>> \in Seq(Fetch!Sources)
      OBVIOUS
    <3> QED
      BY <1>3, <3>1 DEF Fetch!Prepare, Fetch!NoSpace, FetchTypes
  <2> QED
    BY <1>0, <1>3, <2>1 DEF Fetch!Prepare, Fetch!NoSpace, FetchTypes
<1>4. CASE Fetch!Open
  <2> DEFINE left == IF Len(part) > Fetch!Size THEN Fetch!None ELSE part
  <2>1. left \in Seq(FetchBytes) /\ Len(left) <= 3
    BY <1>0 DEF FetchTypes
  <2>2. PICK served \in {target} \cup {"a", "b", "junk"} :
          LET all == Fetch!Content[served]
              ranged == left # Fetch!None /\ Len(left) < Len(all) IN
          \/ part' = Fetch!None /\ stream' = all /\ stage' = "reading" /\ begun' = target /\ UNCHANGED order
          \/ /\ ranged /\ part' = left /\ stream' = SubSeq(all, Len(left) + 1, Len(all))
             /\ stage' = "reading" /\ UNCHANGED <<begun, order>>
          \/ UNCHANGED begun /\ part' = left /\ stream' = Fetch!None /\ Fetch!NextSource
    BY <1>4, Zenon DEF Fetch!Open, Fetch!None
  <2> DEFINE all == Fetch!Content[served]
  <2>3. all \in Seq(FetchBytes)
    BY ContentIs DEF FetchTypes
  <2>4. SubSeq(all, Len(left) + 1, Len(all)) \in Seq(FetchBytes)
    BY <2>1, <2>3
  <2>5. /\ part' \in Seq(FetchBytes) /\ Len(part') <= 3 /\ stream' \in Seq(FetchBytes)
        /\ begun' \in {begun, target}
        /\ \/ stage' = "reading" /\ UNCHANGED order
           \/ Fetch!NextSource
    <3>0. begun' \in {begun, target}
      BY <2>2, Zenon
    <3>1. \/ part' = Fetch!None /\ stream' = all /\ stage' = "reading" /\ UNCHANGED order
          \/ /\ part' = left /\ stream' = SubSeq(all, Len(left) + 1, Len(all))
             /\ stage' = "reading" /\ UNCHANGED order
          \/ part' = left /\ stream' = Fetch!None /\ Fetch!NextSource
      BY <2>2, Zenon
    <3> HIDE DEF left, all
    <3> QED
      BY <1>0, <2>1, <2>3, <2>4, <3>0, <3>1, Zenon
  <2>6. stage = "open" /\ order \in Seq(Fetch!Sources) /\ order # <<>>
        /\ target' = target /\ meta' = meta /\ kills' = kills
    BY <1>4 DEF Fetch!Open, FetchTypes
  <2>7. order' \in Seq(Fetch!Sources) /\ (stage' = "idle" \/ (stage' \in {"open", "reading"} /\ order' # <<>>))
    BY <2>5, <2>6, NextSourceIs
  <2> QED
    BY <2>5, <2>6, <2>7 DEF FetchTypes
<1>5. CASE Fetch!Read
  <2>1. PICK n \in Nat : n = Len(part)
    BY DEF FetchTypes
  <2>2. Fetch!Size <= 2
    <3>1. CASE target = "a"
      BY <3>1, ContentIs DEF Fetch!Size
    <3>2. CASE target = "b"
      BY <3>2, ContentIs DEF Fetch!Size
    <3> QED
      BY <3>1, <3>2 DEF FetchTypes
  <2>3. n < Fetch!Size /\ Fetch!Size \in Nat
    BY <1>5, <2>1, ContentIs DEF Fetch!Read, Fetch!Size, FetchTypes
  <2>4. Head(stream) \in FetchBytes /\ Tail(stream) \in Seq(FetchBytes)
    BY <1>5 DEF Fetch!Read, FetchTypes
  <2>5. part' \in Seq(FetchBytes) /\ Len(part') = n + 1 /\ stream' \in Seq(FetchBytes)
    BY <1>5, <2>1, <2>4 DEF Fetch!Read, FetchTypes
  <2>6. Len(part') <= 3
    BY <2>2, <2>3, <2>5
  <2> QED
    BY <1>5, <2>5, <2>6 DEF Fetch!Read, FetchTypes
<1>6. CASE Fetch!ReadEnds
  <2>1. order # <<>> /\ order \in Seq(Fetch!Sources)
    BY <1>6 DEF Fetch!ReadEnds, FetchTypes
  <2>2. order' \in Seq(Fetch!Sources) /\ (stage' = "idle" \/ (stage' \in {"open", "verify"} /\ order' # <<>>))
    BY <1>6, <2>1, NextSourceIs DEF Fetch!ReadEnds
  <2> QED
    BY <1>6, <2>2 DEF Fetch!ReadEnds, FetchTypes
<1>7. CASE Fetch!Promote
  <2>1. order # <<>> /\ order \in Seq(Fetch!Sources)
    BY <1>7 DEF Fetch!Promote, FetchTypes
  <2>2. order' \in Seq(Fetch!Sources) /\ (stage' \in {"idle", "promoted"} \/ (stage' = "open" /\ order' # <<>>))
    BY <1>7, <2>1, NextSourceIs DEF Fetch!Promote
  <2> QED
    BY <1>0, <1>7, <2>2 DEF Fetch!Promote, FetchTypes
<1>8. CASE Fetch!Promoted \/ Fetch!Discard \/ Fetch!Launch
  <2>1. CASE Fetch!Promoted
    BY <2>1 DEF Fetch!Promoted, FetchTypes
  <2>2. CASE Fetch!Discard
    BY <1>0, <2>2 DEF Fetch!Discard, FetchTypes
  <2>3. CASE Fetch!Launch
    BY <2>3 DEF Fetch!Launch, FetchTypes
  <2> QED
    BY <1>8, <2>1, <2>2, <2>3
<1>9. CASE Fetch!Discarded
  <2>1. order # <<>> /\ order \in Seq(Fetch!Sources)
    BY <1>9 DEF Fetch!Discarded, FetchTypes
  <2>2. order' \in Seq(Fetch!Sources) /\ (stage' = "idle" \/ (stage' = "open" /\ order' # <<>>))
    BY <1>9, <2>1, NextSourceIs DEF Fetch!Discarded
  <2> QED
    BY <1>9, <2>2 DEF Fetch!Discarded, FetchTypes
<1>10. CASE Fetch!Kill
  <2>1. PICK n \in Nat : n = Len(part) /\ n <= 3 /\ DOMAIN part = 1 .. n
    BY DEF FetchTypes
  <2>2. \A m \in 0 .. n : SubSeq(part, 1, m) \in Seq(FetchBytes) /\ Len(SubSeq(part, 1, m)) = m
    BY <2>1 DEF FetchTypes
  <2>3. \A m \in DOMAIN part : [part EXCEPT ![m] = "x"] \in Seq(FetchBytes) /\ Len([part EXCEPT ![m] = "x"]) = n
    <3> SUFFICES ASSUME NEW m \in DOMAIN part
                 PROVE [part EXCEPT ![m] = "x"] \in Seq(FetchBytes) /\ Len([part EXCEPT ![m] = "x"]) = n
      OBVIOUS
    <3>1. [part EXCEPT ![m] = "x"] \in [1 .. n -> FetchBytes]
      BY <2>1 DEF FetchTypes, FetchBytes
    <3> HIDE DEF FetchBytes
    <3> QED
      BY <3>1, FunctionIsSeq
  <2>4. part' \in Seq(FetchBytes) /\ Len(part') <= 3
    <3>1. CASE part' = part
      BY <3>1 DEF FetchTypes
    <3>2. ASSUME NEW m \in 0 .. n, part' = SubSeq(part, 1, m) PROVE part' \in Seq(FetchBytes) /\ Len(part') <= 3
      BY <2>1, <2>2, <3>2
    <3>3. ASSUME NEW m \in DOMAIN part, part' = [part EXCEPT ![m] = "x"]
          PROVE  part' \in Seq(FetchBytes) /\ Len(part') <= 3
      BY <2>1, <2>3, <3>3
    <3> QED
      BY <1>10, <2>1, <3>1, <3>2, <3>3 DEF Fetch!Kill
  <2> QED
    BY <1>10, <2>4 DEF Fetch!Kill, FetchTypes
<1>11. CASE UNCHANGED Fetch!vars
  BY <1>11 DEF Fetch!vars, FetchTypes
<1> QED
  BY <1>1, <1>2, <1>3, <1>4, <1>5, <1>6, <1>7, <1>8, <1>9, <1>10, <1>11 DEF Fetch!Next, Fetch!Work

LEMMA FetchTypesSuffice == FetchTypes => Fetch!TypeOK
BY DEF FetchTypes, Fetch!TypeOK

(* While there is a partial file, the metadata say for which issue it was     *)
(* begun; from their rewriting until the rename that is the accepted one.      *)
FetchInv ==
  /\ FetchTypes
  /\ stage \in {"existing", "open", "reading", "verify"} => meta = target
  /\ stage = "reading" => begun = target
  /\ stage = "promoted" => part = Fetch!None
  /\ part # Fetch!None => /\ meta = begun
                          /\ stage \notin {"idle", "asked", "prepare"} => begun = target

LEMMA FetchStep ==
  ASSUME MaxKills \in Nat, FetchInv, [Fetch!Next]_(Fetch!vars) PROVE FetchInv'
<1>0. FetchTypes /\ FetchTypes'
  BY FetchTypesStep DEF FetchInv
<1> DEFINE PartTold ==
             /\ stage \in {"existing", "open", "reading", "verify"} => meta = target
             /\ stage = "reading" => begun = target
             /\ stage = "promoted" => part = Fetch!None
             /\ part # Fetch!None => /\ meta = begun
                                     /\ stage \notin {"idle", "asked", "prepare"} => begun = target
<1>1. CASE Fetch!Check \/ Fetch!Answer \/ Fetch!Prepare \/ Fetch!Describe \/ Fetch!NoSpace
  <2>1. begun \in {"a", "b"}
    BY <1>0 DEF FetchTypes
  <2>2. PartTold'
    BY <1>1, <2>1 DEF Fetch!Check, Fetch!Answer, Fetch!Prepare, Fetch!Describe, Fetch!NoSpace, FetchInv
  <2> QED
    BY <1>0, <2>2 DEF FetchInv
<1>2. CASE Fetch!Open
  <2>1. stage = "open" /\ UNCHANGED <<target, meta>> /\ meta = target
    BY <1>2 DEF Fetch!Open, FetchInv
  <2>2. \/ part' = Fetch!None /\ stage' = "reading" /\ begun' = target
        \/ part' = part /\ part # Fetch!None /\ stage' = "reading" /\ begun' = begun
        \/ part' \in {part, Fetch!None} /\ stage' \in {"idle", "open"} /\ begun' = begun
    BY <1>2 DEF Fetch!Open, Fetch!NextSource
  <2>3. PartTold'
    BY <2>1, <2>2 DEF FetchInv
  <2> QED
    BY <1>0, <2>3 DEF FetchInv
<1>3. CASE Fetch!Read \/ Fetch!ReadEnds \/ Fetch!Kill
  <2>1. /\ UNCHANGED <<target, meta, begun>>
        /\ stage = "reading" \/ part' = part
        /\ stage' \in {"reading", "verify", "open"} => stage = "reading"
        /\ stage' \in {"idle", "reading", "verify", "open"}
    BY <1>3 DEF Fetch!Read, Fetch!ReadEnds, Fetch!Kill, Fetch!NextSource
  <2>2. PartTold'
    BY <2>1 DEF FetchInv
  <2> QED
    BY <1>0, <2>2 DEF FetchInv
<1>5. CASE Fetch!Discard \/ Fetch!Discarded
  <2>1. part' \in {part, Fetch!None} /\ UNCHANGED <<target, begun>> /\ stage' \in {"discarded", "idle", "open"}
    BY <1>5 DEF Fetch!Discard, Fetch!Discarded, Fetch!NextSource
  <2>2. PartTold'
    BY <1>5, <2>1 DEF Fetch!Discard, Fetch!Discarded, Fetch!NextSource, FetchInv
  <2> QED
    BY <1>0, <2>2 DEF FetchInv
<1>4. CASE Fetch!Existing \/ Fetch!Promote \/ Fetch!Promoted \/ Fetch!Launch \/ UNCHANGED Fetch!vars
  <2>1. PartTold'
    BY <1>4 DEF Fetch!Existing, Fetch!Promote, Fetch!Promoted, Fetch!Launch, Fetch!NextSource,
       Fetch!vars, FetchInv
  <2> QED
    BY <1>0, <2>1 DEF FetchInv
<1> QED  BY <1>1, <1>2, <1>3, <1>4, <1>5 DEF Fetch!Next, Fetch!Work

(* Whatever sources, re-issues, stops and spoilt answers led to it: a download *)
(* goes on only from a partial file that was begun for the accepted issue.     *)
THEOREM OwnPartIsResumed == ASSUME MaxKills \in Nat PROVE Fetch!FairSpec => []ResumesItsOwn
<1>1. Fetch!Init => FetchInv
  BY FetchTypesInit DEF Fetch!Init, FetchInv
<1>2. FetchInv /\ [Fetch!Next]_(Fetch!vars) => FetchInv'
  BY FetchStep
<1>3. FetchInv => ResumesItsOwn
  BY DEF FetchInv, ResumesItsOwn, Fetch!ResumesItsOwn
<1> QED  BY <1>1, <1>2, <1>3, PTL DEF Fetch!FairSpec

-----------------------------------------------------------------------------
(* Diagnostics: the reports are numbered by their runs.                      *)
DxNumbers ==
  /\ MaxRuns \in Nat /\ run \in 0 .. MaxRuns
  /\ DOMAIN page = {"report", "running", "cancelling", "error"}
  /\ page.report \in 0 .. run /\ dxDisk \in 0 .. run /\ loading \in 0 .. run \cup {MaxRuns + 1}
  /\ package \in 0 .. run /\ cancelling \in BOOLEAN

LEMMA DxNumbersInit == ASSUME MaxRuns \in Nat PROVE Dx!Init => DxNumbers
<1> SUFFICES ASSUME Dx!Init PROVE DxNumbers
  OBVIOUS
<1>1. run = 0 /\ dxDisk = 0 /\ loading = MaxRuns + 1 /\ package = 0 /\ cancelling = FALSE
      /\ page.report = 0 /\ DOMAIN page = {"report", "running", "cancelling", "error"}
  BY DEF Dx!Init, Dx!Nothing
<1>2. cancelling \in BOOLEAN
  BY <1>1
<1>3. 0 \in 0 .. MaxRuns /\ 0 \in 0 .. 0
  OBVIOUS
<1> QED
  BY <1>1, <1>2, <1>3 DEF DxNumbers

LEMMA DxNumbersStep == DxNumbers /\ [Dx!Next]_Dx!vars => DxNumbers'
<1> SUFFICES ASSUME DxNumbers, [Dx!Next]_Dx!vars PROVE DxNumbers'
  OBVIOUS
<1>1. CASE Dx!Start
  <2>1. run' = run + 1 /\ run' \in 0 .. MaxRuns /\ page'.report = page.report
        /\ DOMAIN page' = {"report", "running", "cancelling", "error"}
    BY <1>1 DEF Dx!Start, DxNumbers
  <2>2. 0 .. run \subseteq 0 .. run'
    BY <2>1 DEF DxNumbers
  <2> QED
    BY <1>1, <2>1, <2>2 DEF Dx!Start, DxNumbers
<1>2. CASE Dx!Begin \/ Dx!Ends \/ Dx!Finish
  BY <1>2 DEF Dx!Begin, Dx!Ends, Dx!Finish, DxNumbers
<1>3. CASE Dx!Cancel \/ Dx!CancelEnds
  <2>1. page'.report = page.report /\ DOMAIN page' = {"report", "running", "cancelling", "error"}
    BY <1>3 DEF Dx!Cancel, Dx!CancelEnds, DxNumbers
  <2>2. cancelling' \in BOOLEAN
    BY <1>3 DEF Dx!Cancel, Dx!CancelEnds
  <2> QED
    BY <1>3, <2>1, <2>2 DEF Dx!Cancel, Dx!CancelEnds, DxNumbers
<1>4. CASE Dx!Save
  <2>1. page'.report \in {run, page.report} /\ DOMAIN page' = {"report", "running", "cancelling", "error"}
        /\ dxDisk' \in {run, dxDisk}
    BY <1>4 DEF Dx!Save, DxNumbers
  <2>2. run \in 0 .. run
    BY DEF DxNumbers
  <2> QED
    BY <1>4, <2>1, <2>2 DEF Dx!Save, DxNumbers
<1>5. CASE Dx!Activate \/ Dx!Export
  BY <1>5 DEF Dx!Activate, Dx!Export, DxNumbers
<1>6. CASE Dx!ShowLoaded
  <2>1. page'.report = loading /\ loading \in 0 .. run /\ loading' = MaxRuns + 1
        /\ DOMAIN page' = {"report", "running", "cancelling", "error"}
    BY <1>6 DEF Dx!ShowLoaded, Dx!Nothing, DxNumbers
  <2> QED
    BY <1>6, <2>1 DEF Dx!ShowLoaded, DxNumbers
<1>7. CASE UNCHANGED Dx!vars
  BY <1>7 DEF Dx!vars, DxNumbers
<1> QED
  BY <1>1, <1>2, <1>3, <1>4, <1>5, <1>6, <1>7 DEF Dx!Next

LEMMA DxTypesSuffice == DxInv /\ DxNumbers => Dx!TypeOK
<1> SUFFICES ASSUME DxInv, DxNumbers PROVE Dx!TypeOK
  OBVIOUS
<1>1. first \in 1 .. Len(Dx!Ids) - 1
  BY NineChecks DEF DxInv, DxTypes
<1>2. Len(results) <= 2
  BY DEF DxInv, DxRunning, DxResults
<1>3. event \in BOOLEAN /\ cancelling \in BOOLEAN
  BY DEF DxInv, DxTypes, DxNumbers
<1> QED
  BY <1>1, <1>2, <1>3 DEF DxInv, DxTypes, DxNumbers, Dx!TypeOK, Dx!Nothing

-----------------------------------------------------------------------------
(* TaskPlanning: what a flow stands at, and the numbers of the plans.        *)
PlanSteps ==
  /\ plans \in 0 .. MaxPlans /\ naming \in {"name", "id"}
  /\ \A r \in rows : r.media \in Plan!Media
  /\ \A f \in Plan!Flows : flow[f].pc \in {"idle", "scanning", "confirm"} /\ flow[f].task \in 0 .. plans

LEMMA PlanStepsInit == ASSUME MaxPlans \in Nat PROVE Plan!Init => PlanSteps
<1> SUFFICES ASSUME Plan!Init PROVE PlanSteps
  OBVIOUS
<1>1. Plan!Resting.pc = "idle" /\ Plan!Resting.task = 0
  BY DEF Plan!Resting
<1>2. plans = 0 /\ naming = "name" /\ rows = {} /\ \A f \in Plan!Flows : flow[f] = Plan!Resting
  BY DEF Plan!Init
<1> QED
  BY <1>1, <1>2 DEF PlanSteps

(* A flow goes on to where flows stand.                                      *)
LEMMA FlowGoesOn ==
  ASSUME PlanInv, PlanSteps, NEW f \in Plan!Flows, NEW s, Plan!To(f, s),
         s.pc \in {"idle", "scanning", "confirm"}, s.task \in 0 .. plans', plans' \in Nat, plans <= plans'
  PROVE  \A g \in Plan!Flows : flow'[g].pc \in {"idle", "scanning", "confirm"} /\ flow'[g].task \in 0 .. plans'
<1>1. flow'[f] = s /\ \A g \in Plan!Flows : g # f => flow'[g] = flow[g]
  BY DEF PlanInv, PlanFlows, Plan!To
<1>2. \A n \in 0 .. plans : n \in 0 .. plans'
  BY DEF PlanSteps
<1> QED
  BY <1>1, <1>2 DEF PlanSteps

LEMMA PlanStepsStep == ASSUME MaxPlans \in Nat, PlanInv, PlanSteps, [Plan!Next]_Plan!vars PROVE PlanSteps'
<1> DEFINE Steps == {"idle", "scanning", "confirm"}
<1>0. /\ Plan!Resting.pc = "idle" /\ Plan!Resting.task = 0 /\ plans \in Nat /\ plans <= plans /\ 0 \in 0 .. plans
      /\ DOMAIN Plan!Resting = {"pc", "left", "found", "plan", "task"}
      /\ \A f \in Plan!Flows : DOMAIN flow[f] = {"pc", "left", "found", "plan", "task"}
  BY DEF Plan!Resting, PlanInv, PlanTasks, PlanFlows, PlanFlow
<1>1. ASSUME NEW f \in Plan!Flows, Plan!Begin(f) PROVE PlanSteps'
  <2>1. plans' = plans + 1 /\ plans < MaxPlans /\ UNCHANGED <<rows, planned, files, naming>>
    BY <1>1 DEF Plan!Begin
  <2>2. plans' \in 0 .. MaxPlans /\ plans <= plans' /\ plans' \in 0 .. plans'
    BY <1>0, <2>1
  <2>3. PICK s : Plan!To(f, s) /\ s.pc = "scanning" /\ s.task = plans'
    <3> DEFINE S(s) == s.pc = "scanning" /\ s.task = plans'
    <3>1. \A x : S([Plan!Resting EXCEPT !.pc = "scanning", !.left = x, !.task = plans'])
      BY <1>0
    <3>2. \A C : S([Plan!Resting EXCEPT !.pc = "scanning", !.task = plans', !.found = Plan!Ticked(C)])
      BY <1>0
    <3> HIDE DEF S
    <3>3. \/ \E x : Plan!To(f, [Plan!Resting EXCEPT !.pc = "scanning", !.left = x, !.task = plans'])
          \/ \E C : Plan!To(f, [Plan!Resting EXCEPT !.pc = "scanning", !.task = plans', !.found = Plan!Ticked(C)])
      BY <1>1, Zenon DEF Plan!Begin
    <3>4. \E s : S(s) /\ Plan!To(f, s)
      BY <3>1, <3>2, <3>3
    <3> QED
      BY <3>4 DEF S
  <2>4. s.pc \in Steps /\ s.task \in 0 .. plans' /\ plans' \in Nat
    BY <2>2, <2>3
  <2>5. \A g \in Plan!Flows : flow'[g].pc \in Steps /\ flow'[g].task \in 0 .. plans'
    BY <2>2, <2>3, <2>4, FlowGoesOn
  <2> QED
    BY <2>1, <2>2, <2>5 DEF PlanSteps
<1>2. ASSUME NEW f \in Plan!Flows, Plan!ScanLink(f) PROVE PlanSteps'
  <2>1. PICK found : Plan!To(f, IF f = "batch" /\ Len(found) > MaxBatchMedia THEN Plan!Resting
                                ELSE [flow[f] EXCEPT !.found = found, !.left = Tail(@)])
    BY <1>2 DEF Plan!ScanLink
  <2> DEFINE s == IF f = "batch" /\ Len(found) > MaxBatchMedia THEN Plan!Resting
                  ELSE [flow[f] EXCEPT !.found = found, !.left = Tail(@)]
  <2>2. UNCHANGED <<rows, planned, files, naming, plans>>
    BY <1>2 DEF Plan!ScanLink
  <2>3. s.pc \in Steps /\ s.task \in 0 .. plans'
    BY <1>0, <2>2 DEF PlanSteps
  <2> HIDE DEF s
  <2>4. \A g \in Plan!Flows : flow'[g].pc \in Steps /\ flow'[g].task \in 0 .. plans'
    BY <1>0, <2>1, <2>2, <2>3, FlowGoesOn DEF s
  <2> QED
    BY <2>2, <2>4 DEF PlanSteps
<1>3. ASSUME NEW f \in Plan!Flows, Plan!Preview(f) PROVE PlanSteps'
  <2> DEFINE built == Plan!Built(flow[f].found)
             s == IF built = <<>> THEN Plan!Resting
                  ELSE [flow[f] EXCEPT !.pc = "confirm", !.found = <<>>, !.plan = built]
  <2>1. Plan!To(f, s) /\ UNCHANGED <<rows, planned, files, naming, plans>>
    BY <1>3 DEF Plan!Preview
  <2> HIDE DEF built
  <2>2. s.pc \in Steps /\ s.task \in 0 .. plans'
    BY <1>0, <2>1 DEF PlanSteps
  <2> HIDE DEF s
  <2>3. \A g \in Plan!Flows : flow'[g].pc \in Steps /\ flow'[g].task \in 0 .. plans'
    BY <1>0, <2>1, <2>2, FlowGoesOn
  <2> QED
    BY <2>1, <2>3 DEF PlanSteps
<1>4. ASSUME NEW f \in Plan!Flows, Plan!Commit(f) PROVE PlanSteps'
  <2>1. Plan!To(f, Plan!Resting) /\ UNCHANGED <<files, naming, plans>> /\ rows' = rows \cup Plan!Rows(f, Plan!New(f))
    BY <1>4 DEF Plan!Commit
  <2>2. \A g \in Plan!Flows : flow'[g].pc \in Steps /\ flow'[g].task \in 0 .. plans'
    BY <1>0, <2>1, FlowGoesOn
  <2>3. flow[f].plan \in Seq(PlanItems)
    BY DEF PlanInv, PlanFlows, PlanFlow
  <2>4. \A i \in Plan!New(f) : i \in PlanItems
    BY <2>3 DEF Plan!New, Plan!ToSet
  <2>5. \A r \in Plan!Rows(f, Plan!New(f)) : r.media \in Plan!Media
    BY <2>4 DEF Plan!Rows, PlanItems
  <2> QED
    BY <2>1, <2>2, <2>5 DEF PlanSteps
<1>5. ASSUME NEW f \in Plan!Flows, Plan!GiveUp(f) PROVE PlanSteps'
  <2>1. Plan!To(f, Plan!Resting) /\ UNCHANGED <<rows, planned, files, naming, plans>>
    BY <1>5 DEF Plan!GiveUp
  <2>2. \A g \in Plan!Flows : flow'[g].pc \in Steps /\ flow'[g].task \in 0 .. plans'
    BY <1>0, <2>1, FlowGoesOn
  <2> QED
    BY <2>1, <2>2 DEF PlanSteps
<1>6. CASE Plan!Configure
  BY <1>6 DEF Plan!Configure, PlanSteps
<1>7. ASSUME NEW r \in rows, Plan!Download(r) PROVE PlanSteps'
  BY <1>7 DEF Plan!Download, PlanSteps
<1>8. CASE UNCHANGED Plan!vars
  BY <1>8 DEF Plan!vars, PlanSteps
<1> QED
  BY <1>1, <1>2, <1>3, <1>4, <1>5, <1>6, <1>7, <1>8 DEF Plan!Next

LEMMA PlanTypesSuffice == PlanInv /\ PlanSteps => Plan!TypeOK
BY DEF PlanInv, PlanTasks, PlanRows, PlanSteps, Plan!TypeOK

-----------------------------------------------------------------------------
(* AccountSession: whose accounts the gateways, the pages and the saved      *)
(* sessions are, and how many downloads run.                                 *)
Known == Accounts \cup {Account!None}

AccOwn ==
  /\ \A g \in Gateways : gws[g].acct \in Known
  /\ DOMAIN accShown = {"browser", "timer"} /\ accShown.browser \in Known /\ accShown.timer \in Known
  /\ accDisk \in Known /\ mem \in Known /\ fin.omem \in Known

AccFew == \A s \in Slots : scheds[s].active \in 0 .. MaxActive

LEMMA AccOwnInit == ASSUME MaxActive \in Nat PROVE Account!Init => AccOwn /\ AccFew
<1> SUFFICES ASSUME Account!Init PROVE AccOwn /\ AccFew
  OBVIOUS
<1>1. PICK a \in Accounts :
        /\ gws = [g \in Gateways |-> [made |-> g = 1, up |-> FALSE, revoked |-> FALSE,
                                      acct |-> IF g = 1 THEN a ELSE Account!None]]
        /\ accShown = [browser |-> a, timer |-> a]
        /\ accDisk = a /\ mem = a
  BY DEF Account!Init
<1>2. fin.omem = Account!None /\ scheds = [g \in Slots |-> [open |-> g = 1, active |-> 0]]
  BY DEF Account!Init, Account!Idle, Slots
<1> QED
  BY <1>1, <1>2 DEF AccOwn, AccFew, Known

(* The accounts signed in on the gateways. *)
LEMMA AccGatewaysStep ==
  ASSUME Numbered, AccInv, AccOwn, [Account!Next]_(Account!vars)
  PROVE  \A g \in Gateways : gws'[g].acct \in Known
<1> DEFINE Kept == \A g \in Gateways : gws'[g].acct = gws[g].acct
<1>0. /\ DOMAIN gws = Gateways /\ \A g \in Gateways : DOMAIN gws[g] = {"made", "up", "revoked", "acct"}
      /\ AccTypes
  BY DEF AccInv, AccTypes
<1>1. ASSUME NEW h, gws' = Account!Disconnected(h) PROVE Kept
  BY <1>0, <1>1, DisconnectedOnly DEF SameAccounts
<1>2. CASE Account!StartDownload \/ Account!EndDownload \/ Account!StartCandidate
  BY <1>2 DEF Account!StartDownload, Account!EndDownload, Account!StartCandidate, AccOwn
<1>3. CASE Account!CandidateConnects
  <2>1. PICK f : f = Account!Fresh
    OBVIOUS
  <2>2. gws' = gws \/ gws' = [gws EXCEPT ![f] = [@ EXCEPT !.made = TRUE, !.up = TRUE]]
    BY <1>3, <2>1 DEF Account!CandidateConnects, Account!Made
  <2>3. CASE gws' = gws
    BY <2>3 DEF AccOwn
  <2>4. CASE gws' = [gws EXCEPT ![f] = [@ EXCEPT !.made = TRUE, !.up = TRUE]]
    <3>1. ASSUME NEW g \in Gateways PROVE gws'[g].acct = gws[g].acct
      <4>1. gws'[g] = IF g = f THEN [gws[g] EXCEPT !.made = TRUE, !.up = TRUE] ELSE gws[g]
        BY <1>0, <2>4
      <4> QED
        BY <1>0, <4>1
    <3> QED
      BY <3>1 DEF AccOwn
  <2> QED
    BY <2>2, <2>3, <2>4
<1>4. CASE Account!SignIn
  BY <1>0, <1>4 DEF Account!SignIn, Account!LoginGateway, AccOwn, Known
<1>5. CASE Account!Finish
  <2>1. ASSUME Account!CommitOrRefuse PROVE Kept
    BY <1>1, <2>1 DEF Account!CommitOrRefuse, Account!Discard
  <2>2. CASE Account!Identify
    BY <1>1, <2>1, <2>2 DEF Account!Identify, Account!Discard, AccOwn
  <2>3. CASE Account!Confirm
    BY <1>1, <2>1, <2>3 DEF Account!Confirm, Account!Discard, AccOwn
  <2>4. CASE Account!CommitClose \/ Account!Undo
    BY <1>1, <2>4 DEF Account!CommitClose, Account!Undo, Account!Discard, AccOwn
  <2>5. CASE Account!FinishFirst \/ Account!FinishName \/ Account!FinishShow \/ Account!CommitSwap
             \/ Account!CommitActivate \/ Account!CommitDone \/ Account!CommitCleanup \/ Account!CommitFails
    BY <2>5 DEF Account!FinishFirst, Account!FinishName, Account!FinishShow, Account!CommitSwap,
       Account!CommitActivate, Account!CommitDone, Account!CommitCleanup, Account!CommitFails,
       AccOwn
  <2> QED
    BY <1>5, <2>2, <2>3, <2>4, <2>5 DEF Account!Finish
<1>6. CASE Account!CancelLogin \/ Account!Check \/ Account!Verify \/ UNCHANGED Account!vars
  BY <1>6 DEF Account!CancelLogin, Account!Check, Account!Verify, Account!vars, AccOwn
<1>7. CASE Account!CancelEnds \/ Account!Drop
  BY <1>1, <1>7 DEF Account!CancelEnds, Account!Discard, Account!Drop, AccOwn
<1>8. CASE Account!Revoke \/ Account!Reconnect
  BY <1>0, <1>8 DEF Account!Revoke, Account!Reconnect, AccOwn
<1>9. CASE Account!ExpireOffline \/ Account!ExpireShut
  BY <1>9 DEF Account!ExpireOffline, Account!ExpireShut, AccOwn
<1>10. CASE Account!ExpireFresh \/ Account!ExpireBind
  <2>1. CASE Account!ExpireBind
    BY <1>0, <2>1 DEF Account!ExpireBind, AccOwn
  <2>2. CASE Account!ExpireFresh
    <3>1. PICK f, h : f = Account!Fresh /\ h = mon.g
      OBVIOUS
    <3>2. gws' = [Account!Disconnected(h) EXCEPT ![f] = [@ EXCEPT !.made = TRUE]]
      BY <2>2, <3>1 DEF Account!ExpireFresh
    <3>3. Kept
      BY <1>0, <3>2 DEF Account!Disconnected
    <3> QED
      BY <3>3 DEF AccOwn
  <2> QED
    BY <1>10, <2>1, <2>2
<1> QED
  BY <1>2, <1>3, <1>4, <1>5, <1>6, <1>7, <1>8, <1>9, <1>10 DEF Account!Next, Account!Expire

(* The accounts that are shown, saved and remembered. *)
LEMMA AccSavedStep ==
  ASSUME Numbered, AccInv, AccOwn, [Account!Next]_(Account!vars)
  PROVE  /\ DOMAIN accShown' = {"browser", "timer"} /\ accShown'.browser \in Known /\ accShown'.timer \in Known
         /\ accDisk' \in Known /\ mem' \in Known /\ fin'.omem \in Known
<1>0. /\ DOMAIN fin = {"pc", "g", "qr", "old", "osched", "omem", "saved"}
      /\ \A g \in Slots : g # 0 => gws[g].acct \in Known
      /\ Account!Committing => fin.g \in Gateways
      /\ gw \in Slots /\ bound \in Slots /\ Account!None \in Known /\ Account!Idle.omem = Account!None
  BY DEF AccInv, AccTypes, AccOwn, OnItsOwn, Slots, Account!Committing, Account!Idle, Known
<1> USE <1>0 DEF AccOwn
<1>1. CASE Account!StartDownload \/ Account!EndDownload \/ Account!StartCandidate \/ Account!CandidateConnects
  BY <1>1 DEF Account!StartDownload, Account!EndDownload, Account!StartCandidate,
     Account!CandidateConnects, Account!svc
<1>2. CASE Account!SignIn
  BY <1>2 DEF Account!SignIn, Account!svc, Account!Idle
<1>3. CASE Account!FinishFirst \/ Account!FinishName \/ Account!FinishShow
  <2>1. CASE Account!FinishFirst
    BY <2>1 DEF Account!FinishFirst
  <2>2. CASE Account!FinishName
    BY <2>2 DEF Account!FinishName
  <2>3. CASE Account!FinishShow
    BY <2>3 DEF Account!FinishShow, Account!SignedIn
  <2> QED
    BY <1>3, <2>1, <2>2, <2>3
<1>4. CASE Account!Identify \/ Account!Confirm
  BY <1>4 DEF Account!Identify, Account!Confirm, Account!CommitOrRefuse, Account!Discard
<1>5. CASE Account!CommitSwap \/ Account!CommitActivate \/ Account!CommitDone
  BY <1>5 DEF Account!CommitSwap, Account!CommitActivate, Account!CommitDone, Account!Committing,
     Slots
<1>6. CASE Account!CommitCleanup \/ Account!CommitClose \/ Account!Undo
  BY <1>6 DEF Account!CommitCleanup, Account!CommitClose, Account!Undo, Account!Discard, Account!svc
<1>7. CASE Account!CommitFails \/ Account!CancelLogin
  BY <1>7 DEF Account!CommitFails, Account!CancelLogin, Account!Restore
<1>8. CASE Account!CancelEnds \/ Account!Drop \/ Account!Revoke \/ Account!Check \/ Account!Reconnect
           \/ Account!Verify \/ UNCHANGED Account!vars
  BY <1>8 DEF Account!CancelEnds, Account!Drop, Account!Revoke, Account!Check, Account!Reconnect,
     Account!Verify, Account!vars, Account!svc
<1>9. CASE Account!Expire
  BY <1>9 DEF Account!Expire, Account!ExpireOffline, Account!ExpireShut, Account!ExpireFresh,
     Account!ExpireBind
<1> QED
  BY <1>1, <1>2, <1>3, <1>4, <1>5, <1>6, <1>7, <1>8, <1>9 DEF Account!Next, Account!Finish

(* The downloads that run at once. *)
LEMMA AccFewStep ==
  ASSUME MaxActive \in Nat, Numbered, AccInv, AccFew, [Account!Next]_(Account!vars) PROVE AccFew'
<1>0. /\ DOMAIN scheds = Slots /\ \A s \in Slots : DOMAIN scheds[s] = {"open", "active"}
      /\ Gateways \subseteq Slots /\ sched \in Slots
  BY DEF AccInv, AccTypes, Schedulers, Slots
<1> USE <1>0 DEF AccFew
<1>1. CASE Account!StartDownload \/ Account!EndDownload
  BY <1>1 DEF Account!StartDownload, Account!EndDownload
<1>2. CASE Account!StartCandidate \/ Account!CandidateConnects \/ Account!SignIn
  BY <1>2 DEF Account!StartCandidate, Account!CandidateConnects, Account!SignIn, Account!svc
<1>3. CASE Account!FinishFirst \/ Account!FinishName \/ Account!FinishShow \/ Account!CommitSwap
           \/ Account!CommitActivate \/ Account!CommitDone \/ Account!CommitClose
  BY <1>3 DEF Account!FinishFirst, Account!FinishName, Account!FinishShow, Account!CommitSwap,
     Account!CommitActivate, Account!CommitDone, Account!CommitClose, Account!svc
<1>4. ASSUME Account!CommitOrRefuse PROVE AccFew'
  BY <1>4 DEF Account!CommitOrRefuse, Account!Opened
<1>5. CASE Account!Identify \/ Account!Confirm
  BY <1>4, <1>5 DEF Account!Identify, Account!Confirm
<1>6. CASE Account!CommitCleanup \/ Account!Undo \/ Account!ExpireShut
  BY <1>6 DEF Account!CommitCleanup, Account!Undo, Account!ExpireShut, Account!Shut
<1>7. ASSUME Account!Restore PROVE AccFew'
  BY <1>7 DEF Account!Restore, Account!Opened
<1>8. CASE Account!CommitFails \/ Account!CancelLogin
  BY <1>7, <1>8 DEF Account!CommitFails, Account!CancelLogin
<1>9. CASE Account!CancelEnds \/ Account!Drop \/ Account!Revoke \/ Account!Check \/ Account!Reconnect
           \/ Account!Verify \/ UNCHANGED Account!vars
  BY <1>9 DEF Account!CancelEnds, Account!Drop, Account!Revoke, Account!Check, Account!Reconnect,
     Account!Verify, Account!vars, Account!svc
<1>10. CASE Account!ExpireOffline \/ Account!ExpireFresh
  BY <1>10 DEF Account!ExpireOffline, Account!ExpireFresh
<1>11. CASE Account!ExpireBind
  BY <1>11 DEF Account!ExpireBind, Account!Opened
<1> QED
  BY <1>1, <1>2, <1>3, <1>5, <1>6, <1>8, <1>9, <1>10, <1>11 DEF Account!Next, Account!Finish,
     Account!Expire

LEMMA AccTypesSuffice == AccInv /\ AccOwn /\ AccFew => Account!TypeOK
BY DEF AccInv, AccTypes, AccOwn, AccFew, Slots, Known, Account!TypeOK

-----------------------------------------------------------------------------
(* UpdateTransaction: the lists of a journal are beginnings of the runtimes', *)
(* as long as the helper has got, and so they repeat no file.                 *)
Beginning(s, list) == Len(s) <= Len(list) /\ \A n \in 1 .. Len(s) : s[n] = list[n]

UpdateLists ==
  /\ \A j \in disk \cup {journal} : Beginning(j.backedUp, OldFiles) /\ Beginning(j.installed, NewFiles)
  /\ helper = "backup"      => Len(journal.backedUp) + 1 = spot
  /\ helper = "noteBackup"  => Len(journal.backedUp) = spot
  /\ helper = "install"     => Len(journal.installed) + 1 = spot
  /\ helper = "noteInstall" => Len(journal.installed) = spot
  /\ helper \notin {"backup", "noteBackup", "install", "noteInstall", "unlink", "restore"} => spot = 0

UpdateBounds ==
  /\ launched \subseteq [Update!Managed -> Update!Content]
  /\ kept \subseteq Update!Managed
  /\ stops \in 0 .. MaxStops /\ failures \in 0 .. MaxFailures

UpdateTypeInv == RuntimeInv /\ UpdateLists /\ UpdateBounds

LEMMA BeginningGrows ==
  ASSUME NEW S, NEW list \in Seq(S), NEW s \in Seq(S), Beginning(s, list),
         Len(s) + 1 <= Len(list), NEW e \in S, e = list[Len(s) + 1]
  PROVE  Beginning(Append(s, e), list) /\ Len(Append(s, e)) = Len(s) + 1
<1>1. PICK n \in Nat : n = Len(s)
  OBVIOUS
<1>2. Len(Append(s, e)) = n + 1 /\ \A m \in 1 .. n + 1 : Append(s, e)[m] = IF m = n + 1 THEN e ELSE s[m]
  BY <1>1
<1> QED
  BY <1>1, <1>2 DEF Beginning

LEMMA BeginningIsInjective ==
  ASSUME NEW S, NEW list \in Seq(S), NEW s \in Seq(S), Beginning(s, list),
         \A m, n \in 1 .. Len(list) : list[m] = list[n] => m = n
  PROVE  Update!IsInjective(s)
<1>1. Len(s) \in Nat /\ Len(list) \in Nat /\ DOMAIN s = 1 .. Len(s)
  OBVIOUS
<1> QED
  BY <1>1 DEF Update!IsInjective, Beginning

LEMMA NothingBegins == \A list \in Seq(Update!Managed) : Beginning(<<>>, list)
BY DEF Beginning

LEMMA UpdateListsInit ==
  ASSUME MaxStops \in Nat, MaxFailures \in Nat, Update!Init PROVE UpdateLists /\ UpdateBounds
<1>1. Len(Update!Fresh.backedUp) = 0 /\ Len(Update!Fresh.installed) = 0
  BY DEF Update!Fresh
<1> QED
  BY <1>1, Runtimes DEF Update!Init, UpdateLists, UpdateBounds, Beginning

(* The lists of the runtimes, and of a journal, are sequences of files. *)
LEMMA JournalLists ==
  ASSUME RuntimeInv
  PROVE  /\ OldFiles \in Seq(Update!Managed) /\ NewFiles \in Seq(Update!Managed)
         /\ \A j \in disk \cup {journal} :
              /\ j \in Update!Journals
              /\ j.backedUp \in Seq(Update!Managed) /\ j.installed \in Seq(Update!Managed)
              /\ Len(j.backedUp) \in Nat /\ Len(j.installed) \in Nat
<1>1. /\ OldFiles \in Seq(Update!Managed) /\ NewFiles \in Seq(Update!Managed)
  BY UpdateAssumption DEF Update!FilesAssumption
<1>2. ASSUME NEW j \in disk \cup {journal}
      PROVE  /\ j \in Update!Journals
             /\ j.backedUp \in Seq(Update!Managed) /\ j.installed \in Seq(Update!Managed)
  <2>1. j \in Update!Journals
    BY DEF RuntimeInv, UpdateTypes
  <2>2. j.backedUp \in Seq(Update!Range(OldFiles)) /\ j.installed \in Seq(Update!Range(NewFiles))
    BY <2>1 DEF Update!Journals
  <2> QED
    BY <2>1, <2>2, Runtimes
<1> QED
  BY <1>1, <1>2

LEMMA UpdateListsBackup ==
  ASSUME RuntimeInv, UpdateLists, Update!Backup PROVE UpdateLists'
<1> DEFINE f == OldFiles[spot]
<1>1. /\ spot \in 1 .. Len(OldFiles) /\ root[f] = "old" /\ f \in Update!Managed /\ spot \in Nat
  BY Runtimes DEF RuntimeInv, UpdateForward, OutUpTo, Update!Backup, UpdateTypes
<1>2. /\ journal' = [journal EXCEPT !.state = "backing-up", !.backedUp = Append(@, f)]
      /\ helper' = "noteBackup" /\ spot' = spot /\ disk' = disk
  BY <1>1 DEF Update!Backup, Update!Goes
<1>3. journal'.backedUp = Append(journal.backedUp, f) /\ journal'.installed = journal.installed
  BY <1>2, JournalLists DEF Update!Journals
<1>4. Len(journal.backedUp) + 1 = spot /\ Beginning(journal.backedUp, OldFiles)
  BY DEF UpdateLists, Update!Backup
<1>5. Beginning(Append(journal.backedUp, f), OldFiles) /\ Len(Append(journal.backedUp, f)) = spot
  BY <1>1, <1>4, JournalLists, BeginningGrows
<1> QED
  BY <1>2, <1>3, <1>5 DEF UpdateLists

LEMMA UpdateListsInstall ==
  ASSUME RuntimeInv, UpdateLists, Update!Install PROVE UpdateLists'
<1> DEFINE f == NewFiles[spot]
<1>1. /\ spot \in 1 .. Len(NewFiles) /\ f \in Update!Managed /\ spot \in Nat
  BY Runtimes DEF RuntimeInv, UpdateForward, Update!Install, UpdateTypes
<1>2. /\ journal' = [journal EXCEPT !.state = "installing", !.installed = Append(@, f)]
      /\ helper' = "noteInstall" /\ spot' = spot /\ disk' = disk
  BY DEF Update!Install, Update!Goes
<1>3. journal'.installed = Append(journal.installed, f) /\ journal'.backedUp = journal.backedUp
  BY <1>2, JournalLists DEF Update!Journals
<1>4. Len(journal.installed) + 1 = spot /\ Beginning(journal.installed, NewFiles)
  BY DEF UpdateLists, Update!Install
<1>5. Beginning(Append(journal.installed, f), NewFiles) /\ Len(Append(journal.installed, f)) = spot
  BY <1>1, <1>4, JournalLists, BeginningGrows
<1> QED
  BY <1>2, <1>3, <1>5 DEF UpdateLists

LEMMA UpdateListsNext ==
  ASSUME RuntimeInv, UpdateLists, [Update!Next]_(Update!vars) PROVE UpdateLists'
<1> USE DEF UpdateLists
<1>0. /\ Update!Fresh.backedUp = <<>> /\ Update!Fresh.installed = <<>>
      /\ Beginning(Update!Fresh.backedUp, OldFiles) /\ Beginning(Update!Fresh.installed, NewFiles)
      /\ Len(<<>>) = 0 /\ spot \in Nat
  BY JournalLists, NothingBegins DEF Update!Fresh, RuntimeInv, UpdateTypes
<1>1. CASE Update!Check \/ Update!GivesUp
  BY <1>1 DEF Update!Check, Update!GivesUp, Update!Goes
<1>2. CASE Update!Prepare
  <2>1. Len(Update!Fresh.backedUp) + 1 = 1
    BY <1>0
  <2> QED
    BY <1>0, <1>2, <2>1 DEF Update!Prepare, Update!Goes
<1>3. CASE Update!NoteBackup \/ Update!NoteInstall
  BY <1>3 DEF Update!NoteBackup, Update!NoteInstall, Update!Goes
<1>4. CASE Update!BackedUp
  <2>1. Len(journal.installed) + 1 = 1
    BY <1>0, <1>4 DEF RuntimeInv, UpdateForward, OutUpTo, Update!BackedUp
  <2> QED
    BY <1>4, <2>1 DEF Update!BackedUp, Update!Goes
<1>5. CASE Update!Healthy
  <2>1. journal'.backedUp = journal.backedUp /\ journal'.installed = journal.installed
    BY <1>5, JournalLists DEF Update!Healthy, Update!Journals
  <2> QED
    BY <1>5, <2>1 DEF Update!Healthy, Update!Goes
<1>6. CASE Update!Commit \/ Update!Close \/ Update!Clean \/ Update!Unhealthy \/ Update!Fails
  BY <1>6 DEF Update!Commit, Update!Close, Update!Clean, Update!Unhealthy, Update!Fails,
     Update!Rollback, Update!Goes
<1>7. CASE Update!Recover
  BY <1>7 DEF Update!Recover, Update!Goes
<1>8. CASE Update!Unlink \/ Update!Restore \/ Update!RemoveExtraction \/ Update!RemoveBackup
           \/ Update!RemoveJournal \/ Update!Relaunch
  BY <1>8 DEF Update!Unlink, Update!Restore, Update!RemoveExtraction, Update!RemoveBackup,
     Update!RemoveJournal, Update!Relaunch, Update!Goes
<1>9. CASE Update!Stop \/ Update!RollbackFails
  BY <1>0, <1>9 DEF Update!Stop, Update!RollbackFails, Update!Goes
<1>10. CASE UNCHANGED Update!vars \/ \E f \in Update!Managed : Update!UserFile(f)
  BY <1>10 DEF Update!vars, Update!UserFile
<1> QED
  BY <1>1, <1>2, <1>3, <1>4, <1>5, <1>6, <1>7, <1>8, <1>9, <1>10, UpdateListsBackup,
     UpdateListsInstall DEF Update!Next, Update!Applies, Update!RollsBack, Update!World

LEMMA UpdateBoundsNext ==
  ASSUME MaxStops \in Nat, MaxFailures \in Nat, RuntimeInv, UpdateBounds, [Update!Next]_(Update!vars)
  PROVE  UpdateBounds'
<1> USE DEF UpdateBounds
<1>0. root \in [Update!Managed -> Update!Content]
  BY DEF RuntimeInv, UpdateTypes
<1>1. CASE Update!Applies
  BY <1>0, <1>1 DEF Update!Applies, Update!Check, Update!Prepare, Update!GivesUp, Update!Backup,
     Update!NoteBackup, Update!BackedUp, Update!Install, Update!NoteInstall, Update!Healthy,
     Update!Commit, Update!Close, Update!Clean, Update!Unhealthy, Update!Fails
<1>2. CASE Update!RollsBack
  BY <1>0, <1>2 DEF Update!RollsBack, Update!Recover, Update!Unlink, Update!Restore,
     Update!RemoveExtraction, Update!RemoveBackup, Update!RemoveJournal, Update!Relaunch
<1>3. CASE Update!World \/ UNCHANGED Update!vars
  BY <1>3 DEF Update!World, Update!Stop, Update!RollbackFails, Update!UserFile, Update!vars
<1> QED
  BY <1>1, <1>2, <1>3 DEF Update!Next

(* One file of the journal, or none. *)
LEMMA OneJournal == ASSUME \A j, k \in disk : j = k PROVE Update!Cardinality(disk) <= 1
<1>1. \A S : Update!Cardinality(S) = Cardinality(S)
  BY DEF Update!Cardinality, Update!IsFiniteSet, Cardinality, IsFiniteSet
<1>2. disk = {} \/ \E j : disk = {j}
  OBVIOUS
<1>3. Cardinality(disk) \in {0, 1}
  BY <1>2, FS_EmptySet, FS_Singleton
<1> QED
  BY <1>1, <1>3

LEMMA UpdateTypesSuffice == UpdateTypeInv => Update!TypeOK
<1> SUFFICES ASSUME UpdateTypeInv PROVE Update!TypeOK
  OBVIOUS
<1> USE DEF UpdateTypeInv
<1>1. Update!Cardinality(disk) <= 1
  BY OneJournal DEF RuntimeInv, UpdateTypes
<1>2. \A j \in disk \cup {journal} : Update!IsInjective(j.backedUp) /\ Update!IsInjective(j.installed)
  BY JournalLists, Runtimes, BeginningIsInjective DEF UpdateLists
<1>3. spot \in 0 .. Len(OldFiles) + Len(NewFiles) + 1
  <2>1. PICK m, n \in Nat : m = Len(OldFiles) /\ n = Len(NewFiles)
    BY Runtimes
  <2>2. Len(journal.backedUp) <= m /\ Len(journal.installed) <= n
        /\ Len(journal.backedUp) \in Nat /\ Len(journal.installed) \in Nat
    BY <2>1, JournalLists DEF UpdateLists, Beginning
  <2>3. spot \in Nat /\ (spot = 0 \/ spot <= m + 1 \/ spot <= n + 1)
    BY <2>1, <2>2 DEF RuntimeInv, UpdateTypes, UpdateBackward, UpdateLists
  <2> QED
    BY <2>1, <2>3
<1> QED
  BY <1>1, <1>2, <1>3 DEF RuntimeInv, UpdateTypes, UpdateBounds, Update!TypeOK

-----------------------------------------------------------------------------
(***************************************************************************)
(* The components side by side.                                            *)
(***************************************************************************)

(* What MCDesk asks of its bounds, which its configuration gives as numbers.   *)
DeskNumbers == /\ Numbered
               /\ {MaxActive, MaxRuns, MaxKills, MaxPlans, MaxFaults, Window, MaxAlive, MaxStops,
                   MaxFailures} \subseteq Nat

Names == {"limiter", "account", "qr", "diagnostics", "fetch", "planning", "settings", "app",
          "notifications", "actions", "window", "update"}

LEMMA DeskInitially ==
  ASSUME MCInit
  PROVE  /\ Init /\ Account!Init /\ Qr!Init /\ Dx!Init /\ Fetch!Init /\ Plan!Init /\ Setting!Init
         /\ App!Init /\ Notice!Init /\ Action!Init /\ Hours!Init /\ Update!Init
         /\ which \in Names
BY DEF MCInit, Names

(* A step of MCDesk is a step of each component, or leaves it as it is.        *)
LEMMA DeskSteps ==
  ASSUME [MCNext]_MCvars
  PROVE  /\ [Next]_vars /\ [Account!Next]_(Account!vars) /\ [Qr!Next]_(Qr!vars) /\ [Dx!Next]_(Dx!vars)
         /\ [Fetch!Next]_(Fetch!vars) /\ [Plan!Next]_(Plan!vars) /\ [Setting!Next]_(Setting!vars)
         /\ [App!Next]_(App!vars) /\ [Notice!Next]_(Notice!vars) /\ [Action!Next]_(Action!vars)
         /\ [Hours!Next]_(Hours!vars) /\ [Update!Next]_(Update!vars)
         /\ which' = which
<1>1. UNCHANGED account => UNCHANGED Account!vars
  BY DEF account, Account!vars
<1>2. UNCHANGED dx => UNCHANGED Dx!vars
  BY DEF dx, Dx!vars
<1>3. UNCHANGED fetch => UNCHANGED Fetch!vars
  BY DEF fetch, Fetch!vars
<1>4. UNCHANGED planning => UNCHANGED Plan!vars
  BY DEF planning, Plan!vars
<1>5. UNCHANGED settings => UNCHANGED Setting!vars
  BY DEF settings, Setting!vars
<1>6. UNCHANGED app => UNCHANGED App!vars
  BY DEF app, App!vars
<1>7. UNCHANGED notices => UNCHANGED Notice!vars
  BY DEF notices, Notice!vars
<1>8. UNCHANGED actions => UNCHANGED Action!vars
  BY DEF actions, Action!vars
<1>9. UNCHANGED hours => UNCHANGED Hours!vars
  BY DEF hours, Hours!vars
<1>10. UNCHANGED update => UNCHANGED Update!vars
  BY DEF update, Update!vars, Update!places
<1>11. UNCHANGED qr => UNCHANGED Qr!vars
  BY DEF qr, Qr!vars
<1>12. /\ which' = which
       /\ Next \/ UNCHANGED vars
       /\ Account!Next \/ UNCHANGED account
       /\ Qr!Next \/ UNCHANGED qr
       /\ Dx!Next \/ UNCHANGED dx
       /\ Fetch!Next \/ UNCHANGED fetch
       /\ Plan!Next \/ UNCHANGED planning
       /\ Setting!Next \/ UNCHANGED settings
       /\ App!Next \/ UNCHANGED app
       /\ Notice!Next \/ UNCHANGED notices
       /\ Action!Next \/ UNCHANGED actions
       /\ Hours!Next \/ UNCHANGED hours
       /\ Update!Next \/ UNCHANGED update
  <2>1. CASE MCNext
    BY <2>1, Zenon DEF MCNext
  <2>2. CASE UNCHANGED MCvars
    BY <2>2, Zenon DEF MCvars
  <2> QED
    BY <2>1, <2>2
<1> QED
  BY <1>1, <1>2, <1>3, <1>4, <1>5, <1>6, <1>7, <1>8, <1>9, <1>10, <1>11, <1>12, Zenon

LEMMA AccountTypes == ASSUME DeskNumbers PROVE Account!Init /\ [][Account!Next]_(Account!vars) => []Account!TypeOK
<1>1. Account!Init => AccInv /\ AccOwn /\ AccFew
  BY AccInit, AccOwnInit DEF DeskNumbers
<1>2. AccInv /\ AccOwn /\ AccFew /\ [Account!Next]_(Account!vars) => AccInv' /\ AccOwn' /\ AccFew'
  BY AccStep, AccGatewaysStep, AccSavedStep, AccFewStep DEF DeskNumbers, AccOwn
<1> QED
  BY <1>1, <1>2, AccTypesSuffice, PTL

LEMMA DiagnosticsTypes == ASSUME DeskNumbers PROVE Dx!Init /\ [][Dx!Next]_(Dx!vars) => []Dx!TypeOK
<1>1. Dx!Init => DxInv /\ DxNumbers
  BY DxInitially, DxNumbersInit DEF DeskNumbers
<1>2. DxInv /\ DxNumbers /\ [Dx!Next]_(Dx!vars) => DxInv' /\ DxNumbers'
  BY DxNextTypes, DxNextRunning, DxNextReported, DxNumbersStep DEF DxInv
<1> QED
  BY <1>1, <1>2, DxTypesSuffice, PTL

LEMMA PlanningTypes == ASSUME DeskNumbers PROVE Plan!Init /\ [][Plan!Next]_(Plan!vars) => []Plan!TypeOK
<1>1. Plan!Init => PlanInv /\ PlanSteps
  BY PlanInitially, PlanStepsInit DEF DeskNumbers
<1>2. PlanInv /\ PlanSteps /\ [Plan!Next]_(Plan!vars) => PlanInv' /\ PlanSteps'
  BY PlanNext, PlanStepsStep DEF DeskNumbers
<1> QED
  BY <1>1, <1>2, PlanTypesSuffice, PTL

LEMMA SettingsTypes == ASSUME DeskNumbers PROVE Setting!Init /\ [][Setting!Next]_(Setting!vars) => []Setting!TypeOK
<1>1. Setting!Init => SettingTypes /\ SettingSwitches
  BY SettingTypesInit DEF DeskNumbers
<1>2. SettingTypes /\ SettingSwitches /\ [Setting!Next]_(Setting!vars) => SettingTypes' /\ SettingSwitches'
  BY SettingTypesStep DEF DeskNumbers
<1> QED
  BY <1>1, <1>2, SettingTypesSuffice, PTL

LEMMA ActionsTypes == ASSUME DeskNumbers PROVE Action!Init /\ [][Action!Next]_(Action!vars) => []Action!TypeOK
<1>1. Action!Init => ActionInv /\ ActionLeaving
  BY ActionTypesInit DEF DeskNumbers
<1>2. ActionInv /\ ActionLeaving /\ [Action!Next]_(Action!vars) => ActionInv' /\ ActionLeaving'
  BY ActionTypesStep DEF DeskNumbers
<1> QED
  BY <1>1, <1>2, ActionTypesSuffice, PTL

LEMMA UpdatesTypes ==
  ASSUME DeskNumbers, Windows \subseteq {"user"}
  PROVE  Update!Init /\ [][Update!Next]_(Update!vars) => []Update!TypeOK
<1>1. Update!Init => UpdateTypeInv
  BY RuntimeInvInit, UpdateListsInit DEF UpdateTypeInv, DeskNumbers
<1>2. UpdateTypeInv /\ [Update!Next]_(Update!vars) => UpdateTypeInv'
  BY RuntimeInvNext, UpdateListsNext, UpdateBoundsNext DEF UpdateTypeInv, DeskNumbers
<1> QED
  BY <1>1, <1>2, UpdateTypesSuffice, PTL

(* The variables of the component that moves have their types, for every set  *)
(* of gateways, media and files and every bound: what the account switch, the  *)
(* diagnostics, the update, the planner, the settings, the exit, the actions,  *)
(* the notifications and the window write is what their readers expect.        *)
THEOREM TypesAreKept ==
  ASSUME DeskNumbers, Windows \subseteq {"user"}
  PROVE  MCSpec => []TypesOK
<1> DEFINE AllTypes == /\ TypeOK /\ Account!TypeOK /\ Dx!TypeOK /\ Fetch!TypeOK /\ Plan!TypeOK
                       /\ Setting!TypeOK /\ App!TypeOK /\ Notice!TypeOK /\ Action!TypeOK
                       /\ Hours!TypeOK /\ Update!TypeOK /\ which \in Names
<1>1. MCInit => which \in Names
  BY DeskInitially
<1>2. which \in Names /\ [MCNext]_MCvars => (which \in Names)'
  BY DeskSteps
<1>3. Init /\ [][Next]_vars => []TypeOK
  <2>1. Init => IInv
    BY InitIInv
  <2>2. IInv /\ [Next]_vars => IInv'
    BY NextIInv
  <2>3. IInv => TypeOK
    BY DEF IInv, QueueOK, TypeOK
  <2> QED
    BY <2>1, <2>2, <2>3, PTL
<1>4. Fetch!Init /\ [][Fetch!Next]_(Fetch!vars) => []Fetch!TypeOK
  <2>1. Fetch!Init => FetchTypes
    BY FetchTypesInit DEF DeskNumbers
  <2>2. FetchTypes /\ [Fetch!Next]_(Fetch!vars) => FetchTypes'
    BY FetchTypesStep DEF DeskNumbers
  <2> QED
    BY <2>1, <2>2, FetchTypesSuffice, PTL
<1>5. App!Init /\ [][App!Next]_(App!vars) => []App!TypeOK
  BY AppTypesInit, AppTypesStep, PTL
<1>6. Notice!Init /\ [][Notice!Next]_(Notice!vars) => []Notice!TypeOK
  <2>1. Notice!Init => NoticeTypes
    BY NoticeTypesInit DEF DeskNumbers
  <2>2. NoticeTypes /\ [Notice!Next]_(Notice!vars) => NoticeTypes'
    BY NoticeTypesStep DEF DeskNumbers
  <2> QED
    BY <2>1, <2>2, NoticeTypesSuffice, PTL
<1>7. Hours!Init /\ [][Hours!Next]_(Hours!vars) => []Hours!TypeOK
  <2>1. HoursTypes => Hours!TypeOK
    BY DEF HoursTypes
  <2> QED
    BY HoursTypesInit, HoursTypesStep, <2>1, PTL
<1>8. MCInit => /\ Init /\ Account!Init /\ Dx!Init /\ Fetch!Init /\ Plan!Init /\ Setting!Init
                /\ App!Init /\ Notice!Init /\ Action!Init /\ Hours!Init /\ Update!Init
  BY DeskInitially
<1>9. [MCNext]_MCvars =>
        /\ [Next]_vars /\ [Account!Next]_(Account!vars) /\ [Dx!Next]_(Dx!vars)
        /\ [Fetch!Next]_(Fetch!vars) /\ [Plan!Next]_(Plan!vars) /\ [Setting!Next]_(Setting!vars)
        /\ [App!Next]_(App!vars) /\ [Notice!Next]_(Notice!vars) /\ [Action!Next]_(Action!vars)
        /\ [Hours!Next]_(Hours!vars) /\ [Update!Next]_(Update!vars)
  BY DeskSteps
<1>10. AllTypes => TypesOK
  BY DEF TypesOK, Names
<1>11. MCSpec => []AllTypes
  BY <1>1, <1>2, <1>3, <1>4, <1>5, <1>6, <1>7, <1>8, <1>9, AccountTypes, DiagnosticsTypes,
     PlanningTypes, SettingsTypes, ActionsTypes, UpdatesTypes, PTL DEF MCSpec
<1> QED
  BY <1>10, <1>11, PTL

(* The same of what each component promises: in the run's own specification,  *)
(* whichever component moves, no switch of the account cuts a download, the    *)
(* pages and the saved session are of one account, the code on display is the  *)
(* one awaited, reports are accepted, media stay apart, what is confirmed is   *)
(* queued, settings are applied or undone, the user can reach the program,     *)
(* actions are known, the window is followed, a download resumes its own       *)
(* partial file, and an update leaves one whole runtime.                        *)
THEOREM DeskIsSafe ==
  ASSUME DeskNumbers, MaxGeneration \in Nat, Overlap = FALSE, Windows = {}
  PROVE  MCSpec => /\ [](PermitsInOrder /\ SwitchCutsNothing /\ Coherent /\ QrIsCurrent)
                   /\ [](ReportsAreRight /\ ResumesItsOwn /\ MediaApart /\ AppliedOrUndone)
                   /\ [](AppInReach /\ ActionsAreKnown /\ FollowsTheWeek)
                   /\ []RuntimeIsWhole
                   /\ ConfirmedIsQueued
<1>1. App!Init /\ [][App!Next]_(App!vars) => []AppInReach
  <2>1. App!Init => AppInv
    BY AppInit
  <2>2. AppInv /\ [App!Next]_(App!vars) => AppInv'
    BY AppStep
  <2>3. AppInv => AppInReach
    BY AppPromised DEF AppInReach
  <2> QED
    BY <2>1, <2>2, <2>3, PTL
<1>2. Action!Init /\ [][Action!Next]_(Action!vars) => []ActionsAreKnown
  <2>1. Action!Init => ActionInv
    BY ActionInit DEF DeskNumbers
  <2>2. ActionInv /\ [Action!Next]_(Action!vars) => ActionInv'
    BY ActionStep DEF DeskNumbers
  <2>3. ActionInv => ActionsAreKnown
    BY ActionPromised DEF ActionsAreKnown
  <2> QED
    BY <2>1, <2>2, <2>3, PTL
<1>3. Fetch!Init /\ [][Fetch!Next]_(Fetch!vars) => []ResumesItsOwn
  <2>1. Fetch!Init => FetchInv
    BY FetchTypesInit DEF DeskNumbers, Fetch!Init, FetchInv
  <2>2. FetchInv /\ [Fetch!Next]_(Fetch!vars) => FetchInv'
    BY FetchStep DEF DeskNumbers
  <2>3. FetchInv => ResumesItsOwn
    BY DEF FetchInv, ResumesItsOwn, Fetch!ResumesItsOwn
  <2> QED
    BY <2>1, <2>2, <2>3, PTL
<1>4. MCInit => /\ Init /\ Account!Init /\ Qr!Init /\ Dx!Init /\ Fetch!Init /\ Plan!Init /\ Setting!Init
                /\ App!Init /\ Action!Init /\ Hours!Init /\ Update!Init
  BY DeskInitially
<1>5. [MCNext]_MCvars =>
        /\ [Next]_vars /\ [Account!Next]_(Account!vars) /\ [Qr!Next]_(Qr!vars) /\ [Dx!Next]_(Dx!vars)
        /\ [Fetch!Next]_(Fetch!vars) /\ [Plan!Next]_(Plan!vars) /\ [Setting!Next]_(Setting!vars)
        /\ [App!Next]_(App!vars) /\ [Action!Next]_(Action!vars)
        /\ [Hours!Next]_(Hours!vars) /\ [Update!Next]_(Update!vars)
  BY DeskSteps
<1>6. MCSpec => Spec /\ Account!Spec /\ Qr!Spec /\ Plan!Spec /\ Setting!Spec /\ Hours!Spec /\ Update!Spec
  BY <1>4, <1>5, PTL DEF MCSpec, Spec, Account!Spec, Qr!Spec, Plan!Spec, Setting!Spec, Hours!Spec,
     Update!Spec
<1>7. MCSpec => [](PermitsInOrder /\ SwitchCutsNothing /\ Coherent /\ QrIsCurrent)
  <2>1. /\ Spec => []PermitsInOrder
        /\ Account!Spec => []SwitchCutsNothing
        /\ Account!Spec => []Coherent
        /\ Qr!Spec => []QrIsCurrent
    BY PermitsGoWhereDue, NoDownloadIsCut, OneAccountForAll, CodeIsAwaited DEF DeskNumbers
  <2> QED
    BY <1>6, <2>1, PTL
<1>8. MCSpec => [](ReportsAreRight /\ ResumesItsOwn /\ MediaApart /\ AppliedOrUndone)
  <2>1. /\ Dx!Init /\ [][Dx!Next]_Dx!vars => []ReportsAreRight
        /\ Plan!Spec => []MediaApart
        /\ Setting!Spec => []AppliedOrUndone
    BY ReportsAreAlwaysRight, MediaStayApart, SavedOrRestored
  <2> QED
    BY <1>3, <1>4, <1>5, <1>6, <2>1, PTL DEF MCSpec
<1>9. MCSpec => [](AppInReach /\ ActionsAreKnown /\ FollowsTheWeek)
  <2>1. Hours!Spec => []FollowsTheWeek
    BY WeekIsFollowed
  <2> QED
    BY <1>1, <1>2, <1>4, <1>5, <1>6, <2>1, PTL DEF MCSpec
<1>10. MCSpec => []RuntimeIsWhole /\ ConfirmedIsQueued
  <2>1. /\ Update!Spec => []RuntimeIsWhole
        /\ Plan!Spec => ConfirmedIsQueued
    BY OneWholeRuntime, WhatIsConfirmedIsQueued
  <2> QED
    BY <1>6, <2>1, PTL
<1> QED
  BY <1>7, <1>8, <1>9, <1>10, PTL
===============================================================================
