----------------------- MODULE DownloadSchedulerProofs -----------------------
(***************************************************************************)
(* DownloadScheduler, for any tasks with any number of files, any limits   *)
(* and bounds, and whichever of its disturbances happen.  A few facts hold *)
(* together and carry everything else: an operation has a runner exactly   *)
(* while it is active, a coroutine runs only while its runner gathers, a   *)
(* row or an item says DOWNLOADING only while somebody is there to write   *)
(* it again, and a dispatch key is in the lock once, for an operation that *)
(* waits for it.  They hold until a command fails or the grace period runs *)
(* out: then the process only ends, and the next one starts from rows that *)
(* recover_interrupted has put right.                                      *)
(***************************************************************************)
EXTENDS MCDownloadScheduler, FiniteSetTheorems, SequenceTheorems, WellFoundedInduction, TLAPS

-----------------------------------------------------------------------------
(* What the variables hold that a row, an item or a step is computed from.  *)
OpStates == {"none", "dispatch", "pending", "active"}
RunnerStates == {"none", "begin", "priority", "selected", "downloading", "list", "gather",
                 "final", "ended", "raised"}
Writing == {"download", "completing", "confirming", "failing", "pausing", "waiting",
            "waitingTask", "sleep", "retrying"}
WorkerStates == {"none", "permit", "paused", "failed", "completed", "raised"} \cup Writing

(* What a row says, and what a runner is about to write. *)
Marks == [status : Statuses \cup {"none", "recompute"}, why : Reasons]

Typed ==
  /\ row \in [Tasks -> Marks]
  /\ item \in [Items -> ItemStatuses]
  /\ reason \in [Tasks -> Reasons]
  /\ op \in [Tasks -> OpStates]
  /\ want \in [Tasks -> SUBSET Items]
  /\ runner \in [Tasks -> RunnerStates]
  /\ final \in [Tasks -> Marks]
  /\ worker \in [Items -> WorkerStates]
  /\ target \in Items
  /\ chosen \in SUBSET Tasks
  /\ process \in {"up", "grace", "cancelled", "gone"}
  /\ fault \in BOOLEAN

(* The processes in which rows, operations and coroutines belong together.  *)
Sane == ~fault /\ process \in {"up", "grace"}

(* A dispatch key is read once, for an operation that waits for it.         *)
Keyed(l, o) ==
  /\ \A k \in DOMAIN l : \A t \in Tasks : l[k] = Dispatcher(t) => o[t] = "dispatch"
  /\ \A j, k \in DOMAIN l : \A t \in Tasks :
       l[j] = Dispatcher(t) /\ l[k] = Dispatcher(t) => j = k

Seated == \A t \in Tasks : op[t] = "active" <=> runner[t] # "none"

Selected == \A t \in Tasks : want[t] \subseteq ItemsOf(t)

Gathered == \A i \in Items : worker[i] # "none" => runner[i[1]] = "gather"

Written == \A i \in Items : item[i] \in {"DOWNLOADING", "WAITING_RETRY"} =>
                              worker[i] \in Writing

Rows == \A t \in Tasks : row[t].status \in {"DOWNLOADING", "WAITING_RETRY"} =>
                           runner[t] \in {"list", "gather", "final"}

Finals == \A t \in Tasks : runner[t] = "final" =>
            final[t].status \in {"PAUSED", "PARTIAL_FAILURE", "COMPLETED", "recompute"}

Together ==
  /\ lock \in Seq(Callers)
  /\ Keyed(lock, op)
  /\ Seated /\ Selected /\ Gathered /\ Written /\ Rows /\ Finals

SchedulerInv == Typed /\ (Sane => Together)

(* a is in l, which InLock says of the lock.                                 *)
Among(a, l) == \E k \in DOMAIN l : l[k] = a
-----------------------------------------------------------------------------
(* What the steps do to the lock and to the dispatch keys in it.            *)
Keyless(a) == \A t \in Tasks : a # Dispatcher(t)

LEMMA CallersAre ==
  /\ Refresher \in Callers /\ Keyless(Refresher)
  /\ Repairer \in Callers /\ Keyless(Repairer)
  /\ \A t \in Tasks : Dispatcher(t) \in Callers
  /\ \A t \in Tasks : Pauser(t) \in Callers /\ Keyless(Pauser(t))
  /\ \A t \in Tasks : Resumer(t) \in Callers /\ Keyless(Resumer(t))
  /\ \A t \in Tasks : Runner(t) \in Callers /\ Keyless(Runner(t))
  /\ \A i \in Items : Worker(i) \in Callers /\ Keyless(Worker(i))
<1> DEFINE of(t) == {Pauser(t), Resumer(t), Dispatcher(t), Runner(t)}
           own == UNION {of(t) : t \in Tasks}
           items == {Worker(i) : i \in Items}
<1>1. Callers = {Refresher, Repairer} \cup items \cup own
  BY DEF Callers
<1>2. \A t \in Tasks : of(t) \subseteq own
  <2> HIDE DEF of
  <2> QED  OBVIOUS
<1>3. \A i \in Items : Worker(i) \in items
  OBVIOUS
<1>4. \A t \in Tasks : {Pauser(t), Resumer(t), Dispatcher(t), Runner(t)} \subseteq Callers
  <2> HIDE DEF own, items
  <2> QED  BY <1>1, <1>2
<1> HIDE DEF own, items
<1>5. \A i \in Items : Worker(i) \in Callers
  BY <1>1, <1>3
<1>6. Refresher \in Callers /\ Repairer \in Callers
  BY <1>1
<1>7. /\ Keyless(Refresher) /\ Keyless(Repairer)
      /\ \A t \in Tasks : Keyless(Pauser(t)) /\ Keyless(Resumer(t)) /\ Keyless(Runner(t))
      /\ \A i \in Items : Keyless(Worker(i))
  BY DEF Keyless, Refresher, Repairer, Pauser, Resumer, Runner, Worker, Dispatcher
<1> QED  BY <1>4, <1>5, <1>6, <1>7

LEMMA KeyedAppend ==
  ASSUME NEW l \in Seq(Callers), NEW o, Keyed(l, o), NEW a \in Callers, Keyless(a)
  PROVE  Append(l, a) \in Seq(Callers) /\ Keyed(Append(l, a), o)
<1> DEFINE m == Append(l, a)
<1>1. /\ m \in Seq(Callers) /\ Len(m) = Len(l) + 1 /\ Len(l) \in Nat
      /\ \A k \in 1..Len(l) : m[k] = l[k]
      /\ m[Len(l) + 1] = a
  BY AppendProperties, LenProperties
<1>2. DOMAIN l = 1..Len(l) /\ DOMAIN m = 1..Len(m)
  BY <1>1, LenProperties
<1> HIDE DEF m
<1>3. \A k \in DOMAIN m : \A t \in Tasks : m[k] = Dispatcher(t) => k \in DOMAIN l /\ l[k] = Dispatcher(t)
  BY <1>1, <1>2 DEF Keyless
<1>4. Keyed(m, o)
  BY <1>3 DEF Keyed
<1> QED  BY <1>1, <1>4 DEF m

LEMMA KeyedTail ==
  ASSUME NEW l \in Seq(Callers), NEW o, Keyed(l, o), l # <<>>
  PROVE  /\ Tail(l) \in Seq(Callers) /\ Keyed(Tail(l), o)
         /\ \A a : Among(a, Tail(l)) => Among(a, l)
         /\ \A a : Among(a, l) /\ l[1] # a => Among(a, Tail(l))
         /\ \A t \in Tasks : l[1] = Dispatcher(t) => ~Among(Dispatcher(t), Tail(l))
<1> DEFINE m == Tail(l)
<1>1. /\ m \in Seq(Callers) /\ Len(m) = Len(l) - 1 /\ Len(l) \in Nat \ {0}
      /\ \A k \in 1..Len(m) : m[k] = l[k + 1]
  BY HeadTailProperties, LenProperties, EmptySeq
<1>2. DOMAIN l = 1..Len(l) /\ DOMAIN m = 1..Len(m)
  BY <1>1, LenProperties
<1> HIDE DEF m
<1>3. \A k \in DOMAIN m : k \in Nat /\ k + 1 \in DOMAIN l /\ m[k] = l[k + 1] /\ k + 1 # 1
  BY <1>1, <1>2
<1>4. 1 \in DOMAIN l
  BY <1>1, <1>2
<1>5. \A k \in DOMAIN l : k # 1 => k - 1 \in DOMAIN m /\ m[k - 1] = l[k]
  BY <1>1, <1>2
<1>6. \A k \in DOMAIN m : \A t \in Tasks : m[k] = Dispatcher(t) => o[t] = "dispatch"
  BY <1>3 DEF Keyed
<1>7. ASSUME NEW j \in DOMAIN m, NEW k \in DOMAIN m, NEW t \in Tasks,
             m[j] = Dispatcher(t), m[k] = Dispatcher(t)
      PROVE  j = k
  <2>1. j + 1 = k + 1
    BY <1>3, <1>7 DEF Keyed
  <2> QED  BY <2>1, <1>3
<1>8. Keyed(m, o)
  BY <1>6, <1>7 DEF Keyed
<1>9. \A a : Among(a, m) => Among(a, l)
  BY <1>3 DEF Among
<1>10. \A a : Among(a, l) /\ l[1] # a => Among(a, m)
  BY <1>5 DEF Among
<1>11. \A t \in Tasks : l[1] = Dispatcher(t) => ~Among(Dispatcher(t), m)
  <2> SUFFICES ASSUME NEW t \in Tasks, l[1] = Dispatcher(t), NEW k \in DOMAIN m, m[k] = Dispatcher(t)
               PROVE  FALSE
    BY DEF Among
  <2>1. k + 1 \in DOMAIN l /\ l[k + 1] = Dispatcher(t) /\ k + 1 # 1
    BY <1>3
  <2> QED  BY <2>1, <1>4 DEF Keyed
<1> QED  BY <1>1, <1>8, <1>9, <1>10, <1>11 DEF m

LEMMA KeyedJoin ==
  ASSUME NEW l \in Seq(Callers), NEW m \in Seq(Callers), NEW o, Keyed(l, o), Keyed(m, o),
         \A t \in Tasks : ~(Among(Dispatcher(t), l) /\ Among(Dispatcher(t), m))
  PROVE  /\ l \o m \in Seq(Callers) /\ Keyed(l \o m, o)
         /\ \A a : Among(a, l) => Among(a, l \o m)
<1> DEFINE n == l \o m
<1>1. /\ n \in Seq(Callers) /\ Len(n) = Len(l) + Len(m)
      /\ \A k \in 1..(Len(l) + Len(m)) : n[k] = IF k <= Len(l) THEN l[k] ELSE m[k - Len(l)]
  BY ConcatProperties
<1>2. /\ DOMAIN l = 1..Len(l) /\ DOMAIN m = 1..Len(m) /\ DOMAIN n = 1..Len(n)
      /\ Len(l) \in Nat /\ Len(m) \in Nat
  BY <1>1, LenProperties
<1> HIDE DEF n
<1>3. \A k \in DOMAIN n : \/ k \in DOMAIN l /\ n[k] = l[k]
                          \/ /\ k \notin DOMAIN l /\ k - Len(l) \in DOMAIN m
                             /\ n[k] = m[k - Len(l)] /\ k \in Int
  BY <1>1, <1>2
<1>4. \A k \in DOMAIN n : \A t \in Tasks : n[k] = Dispatcher(t) => o[t] = "dispatch"
  BY <1>3 DEF Keyed
<1>5. ASSUME NEW j \in DOMAIN n, NEW k \in DOMAIN n, NEW t \in Tasks,
             n[j] = Dispatcher(t), n[k] = Dispatcher(t)
      PROVE  j = k
  <2>1. CASE j \in DOMAIN l /\ k \in DOMAIN l
    BY <2>1, <1>3, <1>5 DEF Keyed
  <2>2. CASE j \notin DOMAIN l /\ k \notin DOMAIN l
    <3>1. j - Len(l) = k - Len(l) /\ j \in Int /\ k \in Int
      BY <2>2, <1>3, <1>5 DEF Keyed
    <3> QED  BY <3>1, <1>2
  <2>3. CASE j \in DOMAIN l /\ k \notin DOMAIN l
    BY <2>3, <1>3, <1>5 DEF Among
  <2>4. CASE j \notin DOMAIN l /\ k \in DOMAIN l
    BY <2>4, <1>3, <1>5 DEF Among
  <2> QED  BY <2>1, <2>2, <2>3, <2>4
<1>6. Keyed(n, o)
  BY <1>4, <1>5 DEF Keyed
<1>7. \A a : Among(a, l) => Among(a, n)
  <2>1. \A k \in DOMAIN l : k \in DOMAIN n /\ n[k] = l[k]
    BY <1>1, <1>2
  <2> QED  BY <2>1 DEF Among
<1> QED  BY <1>1, <1>6, <1>7 DEF n

(* Nothing joins, or a caller without a key.                                *)
LEMMA KeyedLeaves ==
  ASSUME NEW o, lock \in Seq(Callers), Keyed(lock, o), lock # <<>>
  PROVE  /\ Tail(lock) \o <<>> \in Seq(Callers) /\ Keyed(Tail(lock) \o <<>>, o)
         /\ \A a \in Callers : Keyless(a) =>
              Tail(lock) \o <<a>> \in Seq(Callers) /\ Keyed(Tail(lock) \o <<a>>, o)
<1>1. /\ Tail(lock) \in Seq(Callers) /\ Keyed(Tail(lock), o)
  BY KeyedTail
<1>2. <<>> \in Seq(Callers) /\ Keyed(<<>>, o) /\ \A a : ~Among(a, <<>>)
  BY DEF Keyed, Among
<1>3. Tail(lock) \o <<>> \in Seq(Callers) /\ Keyed(Tail(lock) \o <<>>, o)
  <2>1. \A t \in Tasks : ~Among(Dispatcher(t), <<>>)
    BY <1>2
  <2> QED  BY <1>1, <1>2, <2>1, KeyedJoin
<1>4. ASSUME NEW a \in Callers, Keyless(a)
      PROVE  Tail(lock) \o <<a>> \in Seq(Callers) /\ Keyed(Tail(lock) \o <<a>>, o)
  <2>1. <<a>> \in Seq(Callers) /\ DOMAIN <<a>> = {1} /\ <<a>>[1] = a
    OBVIOUS
  <2>2. Keyed(<<a>>, o) /\ \A t \in Tasks : ~Among(Dispatcher(t), <<a>>)
    BY <1>4, <2>1 DEF Keyed, Among, Keyless
  <2> QED  BY <1>1, <2>1, <2>2, KeyedJoin
<1> QED  BY <1>3, <1>4

LEMMA KeyedOther ==
  ASSUME NEW l, NEW o, NEW p, Keyed(l, o),
         \A t \in Tasks : Among(Dispatcher(t), l) /\ o[t] = "dispatch" => p[t] = "dispatch"
  PROVE  Keyed(l, p)
BY DEF Keyed, Among

(* A pause takes the dispatch key out of the lock.                          *)
LEMMA KeyRemoved ==
  ASSUME NEW l \in Seq(Callers), NEW o, Keyed(l, o), NEW t \in Tasks
  PROVE  LET m == RemoveFirst(l, Dispatcher(t))
         IN  /\ m \in Seq(Callers) /\ Keyed(m, o) /\ ~Among(Dispatcher(t), m)
             /\ \A a : Among(a, l) /\ a # Dispatcher(t) => Among(a, m)
             /\ \A a : Among(a, m) => Among(a, l)
<1> DEFINE d == Dispatcher(t)
           m == RemoveFirst(l, d)
<1>1. DOMAIN l = 1..Len(l) /\ Len(l) \in Nat
  BY LenProperties
<1>2. CASE ~Among(d, l)
  BY <1>1, <1>2 DEF RemoveFirst, Among
<1>3. CASE Among(d, l)
  <2>1. PICK p \in 1..Len(l) : l[p] = d
    BY <1>1, <1>3 DEF Among
  <2>2. {i \in 1..Len(l) : l[i] = d} = {p}
    BY <1>1, <2>1 DEF Keyed
  <2>3. SelectInSeq(l, LAMBDA v : v = d) = p
    <3>1. p \in Nat /\ p <= p
      BY <1>1
    <3>2. Min({p}) = p
      BY <3>1 DEF Min
    <3> QED  BY <2>2, <3>2 DEF SelectInSeq
  <2>4. m = SubSeq(l, 1, p - 1) \o SubSeq(l, p + 1, Len(l))
    BY <2>1, <2>3 DEF RemoveFirst, RemoveAt
  <2> DEFINE u == SubSeq(l, 1, p - 1)
             v == SubSeq(l, p + 1, Len(l))
  <2>5. \A j \in 1..Len(l) : l[j] \in Callers
    BY ElementOfSeq
  <2>6. u \in Seq(Callers) /\ Len(u) = p - 1 /\ \A j \in 1..(p - 1) : u[j] = l[j]
    BY <1>1, <2>1, <2>5, SubSeqProperties, LenProperties
  <2>7. v \in Seq(Callers) /\ Len(v) = Len(l) - p /\ \A j \in 1..(Len(l) - p) : v[j] = l[p + j]
    <3>1. \A i \in p + 1 .. Len(l) : l[i] \in Callers
      BY <1>1, <2>1, <2>5
    <3>2. /\ v \in Seq(Callers) /\ Len(v) = IF p + 1 <= Len(l) THEN Len(l) - (p + 1) + 1 ELSE 0
          /\ \A i \in 1 .. Len(l) - (p + 1) + 1 : v[i] = l[p + 1 + i - 1]
      BY <1>1, <2>1, <3>1, SubSeqProperties
    <3> HIDE DEF v
    <3>3. ASSUME NEW j \in 1..(Len(l) - p) PROVE v[j] = l[p + j]
      <4>1. j \in 1 .. Len(l) - (p + 1) + 1 /\ p + 1 + j - 1 = p + j
        BY <1>1, <2>1
      <4> QED  BY <4>1, <3>2
    <3>4. Len(v) = Len(l) - p
      <4>1. p \in Int /\ Len(l) \in Int /\ p <= Len(l)
        BY <1>1, <2>1
      <4>2. CASE p + 1 <= Len(l)
        <5>1. Len(v) = Len(l) - (p + 1) + 1
          BY <4>2, <3>2
        <5> QED  BY <5>1, <4>1
      <4>3. CASE ~(p + 1 <= Len(l))
        <5>1. Len(v) = 0
          BY <4>3, <3>2
        <5> QED  BY <5>1, <4>1, <4>3
      <4> QED  BY <4>2, <4>3
    <3> QED  BY <3>2, <3>3, <3>4
  <2> HIDE DEF u, v, m, d
  <2>8. /\ u \o v \in Seq(Callers) /\ Len(u \o v) = Len(u) + Len(v)
        /\ \A i \in 1..(Len(u) + Len(v)) :
             (u \o v)[i] = IF i <= Len(u) THEN u[i] ELSE v[i - Len(u)]
    BY <2>6, <2>7, ConcatProperties
  <2>9. m = u \o v
    BY <2>4 DEF u, v
  <2>10. /\ m \in Seq(Callers) /\ DOMAIN m = 1..(Len(l) - 1)
         /\ \A i \in 1..(Len(l) - 1) : m[i] = l[IF i < p THEN i ELSE i + 1]
    <3>1. m \in Seq(Callers) /\ Len(m) = Len(l) - 1
      <4>1. Len(u) + Len(v) = Len(l) - 1
        BY <1>1, <2>1, <2>6, <2>7
      <4> QED  BY <4>1, <2>8, <2>9
    <3>2. DOMAIN m = 1..(Len(l) - 1)
      BY <3>1, LenProperties
    <3>3. ASSUME NEW i \in 1..(Len(l) - 1) PROVE m[i] = l[IF i < p THEN i ELSE i + 1]
      <4>1. m[i] = IF i <= p - 1 THEN u[i] ELSE v[i - (p - 1)]
        BY <1>1, <2>1, <2>6, <2>7, <2>8, <2>9
      <4>2. CASE i < p
        BY <4>1, <4>2, <1>1, <2>1, <2>6
      <4>3. CASE ~(i < p)
        <5>1. i - (p - 1) \in 1..(Len(l) - p) /\ p + (i - (p - 1)) = i + 1
          BY <4>3, <1>1, <2>1
        <5>2. v[i - (p - 1)] = l[i + 1]
          BY <5>1, <2>7
        <5> QED  BY <5>2, <4>1, <4>3, <1>1, <2>1
      <4> QED  BY <4>2, <4>3
    <3> QED  BY <3>1, <3>2, <3>3
  <2> DEFINE at(i) == IF i < p THEN i ELSE i + 1
  <2>11. /\ \A i \in DOMAIN m : at(i) \in DOMAIN l /\ at(i) # p /\ m[i] = l[at(i)]
         /\ \A i, j \in DOMAIN m : at(i) = at(j) => i = j
    BY <1>1, <2>1, <2>10
  <2>12. \A k \in DOMAIN l : k # p => \E i \in DOMAIN m : m[i] = l[k]
    <3> SUFFICES ASSUME NEW k \in DOMAIN l, k # p PROVE \E i \in DOMAIN m : m[i] = l[k]
      OBVIOUS
    <3>1. CASE k < p
      <4>1. k \in DOMAIN m /\ m[k] = l[k]
        BY <3>1, <1>1, <2>1, <2>10
      <4> QED  BY <4>1
    <3>2. CASE ~(k < p)
      <4>1. k - 1 \in DOMAIN m /\ m[k - 1] = l[k]
        <5>1. k - 1 \in 1..(Len(l) - 1) /\ ~(k - 1 < p) /\ (k - 1) + 1 = k
          BY <3>2, <1>1, <2>1
        <5> QED  BY <5>1, <2>10
      <4> QED  BY <4>1
    <3> QED  BY <3>1, <3>2
  <2> HIDE DEF at
  <2>13. Keyed(m, o)
    <3>1. \A k \in DOMAIN m : \A s \in Tasks : m[k] = Dispatcher(s) => o[s] = "dispatch"
      BY <2>11 DEF Keyed
    <3>2. \A j, k \in DOMAIN m : \A s \in Tasks :
            m[j] = Dispatcher(s) /\ m[k] = Dispatcher(s) => j = k
      BY <2>11 DEF Keyed
    <3> QED  BY <3>1, <3>2 DEF Keyed
  <2>14. ~Among(d, m)
    <3> SUFFICES ASSUME NEW i \in DOMAIN m, m[i] = d PROVE FALSE
      BY DEF Among
    <3>1. at(i) \in DOMAIN l /\ l[at(i)] = d /\ at(i) # p
      BY <2>11
    <3> QED  BY <3>1, <2>1, <1>1 DEF Keyed, d
  <2>15. \A a : Among(a, l) /\ a # d => Among(a, m)
    BY <2>1, <2>12 DEF Among
  <2>16. \A a : Among(a, m) => Among(a, l)
    BY <2>11 DEF Among
  <2> QED  BY <2>10, <2>13, <2>14, <2>15, <2>16 DEF m, d
<1> QED  BY <1>2, <1>3

(* The dispatch keys of new operations: each once.                          *)
LEMMA AscendingIs ==
  ASSUME NEW S \in SUBSET Nat, IsFiniteSet(S), NEW f \in Ascending(S)
  PROVE  /\ DOMAIN f = 1..Cardinality(S) /\ Cardinality(S) \in Nat
         /\ \A k \in DOMAIN f : f[k] \in S
         /\ \A j, k \in DOMAIN f : f[j] = f[k] => j = k
<1>1. Cardinality(S) \in Nat
  BY FS_CardinalityType
<1>2. /\ f \in [1..Cardinality(S) -> S]
      /\ \A j, k \in 1..Cardinality(S) : j < k => f[j] < f[k]
  BY DEF Ascending
<1>3. ASSUME NEW j \in 1..Cardinality(S), NEW k \in 1..Cardinality(S), f[j] = f[k]
      PROVE  j = k
  <2>1. f[j] \in Nat /\ f[k] \in Nat
    BY <1>2
  <2> QED  BY <2>1, <1>1, <1>2, <1>3
<1> QED  BY <1>1, <1>2, <1>3

LEMMA QueueIs ==
  ASSUME NEW S \in SUBSET Tasks, NEW q \in Queues(S), NEW o, \A t \in New(S) : o[t] = "dispatch"
  PROVE  /\ q \in Seq(Callers) /\ Keyed(q, o)
         /\ \A t \in Tasks : Among(Dispatcher(t), q) => t \in New(S)
         /\ \A a : Among(a, q) => \E t \in Tasks : a = Dispatcher(t)
<1>1. PICK f \in Ascending(New(S)) : q = [k \in DOMAIN f |-> Dispatcher(f[k])]
  BY DEF Queues
<1>2. New(S) \in SUBSET Nat /\ IsFiniteSet(New(S)) /\ New(S) \subseteq Tasks
  BY TasksAssumption, FS_Subset DEF New
<1>3. /\ DOMAIN f = 1..Cardinality(New(S)) /\ Cardinality(New(S)) \in Nat
      /\ \A k \in DOMAIN f : f[k] \in New(S)
      /\ \A j, k \in DOMAIN f : f[j] = f[k] => j = k
  BY <1>2, AscendingIs
<1>4. DOMAIN q = DOMAIN f /\ \A k \in DOMAIN f : q[k] = Dispatcher(f[k])
  BY <1>1
<1>5. \A t \in Tasks : Dispatcher(t) \in Callers
  BY CallersAre
<1>6. \A t, u \in Tasks : Dispatcher(t) = Dispatcher(u) => t = u
  BY DEF Dispatcher
<1>7. q \in Seq(Callers)
  BY <1>1, <1>2, <1>3, <1>5
<1>8. Keyed(q, o)
  BY <1>2, <1>3, <1>4, <1>6 DEF Keyed
<1>9. \A t \in Tasks : Among(Dispatcher(t), q) => t \in New(S)
  BY <1>2, <1>3, <1>4, <1>6 DEF Among
<1>10. \A a : Among(a, q) => \E t \in Tasks : a = Dispatcher(t)
  BY <1>2, <1>3, <1>4 DEF Among
<1> QED  BY <1>7, <1>8, <1>9, <1>10

(* What a shutdown keeps of the lock holds no dispatch key.                 *)
LEMMA KeylessKept ==
  ASSUME NEW l \in Seq(Callers), NEW f \in Ascending({k \in DOMAIN l : l[k][1] # "dispatch"}), NEW o
  PROVE  LET m == [k \in DOMAIN f |-> l[f[k]]]
         IN  /\ m \in Seq(Callers) /\ Keyed(m, o)
             /\ \A a : Among(a, m) => Among(a, l)
<1> DEFINE K == {k \in DOMAIN l : l[k][1] # "dispatch"}
           m == [k \in DOMAIN f |-> l[f[k]]]
<1>1. DOMAIN l = 1..Len(l) /\ Len(l) \in Nat /\ \A j \in 1..Len(l) : l[j] \in Callers
  BY LenProperties, ElementOfSeq
<1>2. K \in SUBSET Nat /\ IsFiniteSet(K)
  <2>1. 1..Len(l) \in SUBSET Nat /\ IsFiniteSet(1..Len(l)) /\ K \subseteq 1..Len(l)
    BY <1>1, FS_Interval
  <2> QED  BY <2>1, FS_Subset
<1>3. /\ DOMAIN f = 1..Cardinality(K) /\ Cardinality(K) \in Nat
      /\ \A k \in DOMAIN f : f[k] \in K
  BY <1>2, AscendingIs
<1>4. m \in Seq(Callers)
  <2>1. \A k \in 1..Cardinality(K) : l[f[k]] \in Callers
    BY <1>1, <1>3
  <2> DEFINE n == Cardinality(K)
  <2>2. m = [k \in 1..n |-> l[f[k]]] /\ n \in Nat
    BY <1>3
  <2> HIDE DEF n, m
  <2>3. [k \in 1..n |-> l[f[k]]] \in [1..n -> Callers]
    BY <2>1 DEF n
  <2> QED  BY <2>2, <2>3
<1>5. \A k \in DOMAIN m : \A t \in Tasks : m[k] # Dispatcher(t)
  <2> SUFFICES ASSUME NEW k \in DOMAIN m, NEW t \in Tasks, m[k] = Dispatcher(t) PROVE FALSE
    OBVIOUS
  <2>1. l[f[k]][1] # "dispatch" /\ l[f[k]] = Dispatcher(t)
    BY <1>3
  <2> QED  BY <2>1 DEF Dispatcher
<1>6. Keyed(m, o)
  BY <1>5 DEF Keyed
<1>7. ASSUME NEW a, Among(a, m) PROVE Among(a, l)
  <2>1. PICK k \in DOMAIN f : l[f[k]] = a
    BY <1>7 DEF Among
  <2>2. f[k] \in DOMAIN l
    BY <1>3
  <2> QED  BY <2>1, <2>2 DEF Among
<1> QED  BY <1>4, <1>6, <1>7

-----------------------------------------------------------------------------
(* The lock after a step that brings no dispatch key.                       *)
Behind(l) ==
  \/ l = lock
  \/ \E a \in Callers : Keyless(a) /\ l = Append(lock, a)
  \/ lock # <<>> /\ l = Tail(lock) \o <<>>
  \/ lock # <<>> /\ \E a \in Callers : Keyless(a) /\ l = Tail(lock) \o <<a>>

LEMMA LockStays ==
  ASSUME lock \in Seq(Callers), Keyed(lock, op), Behind(lock'),
         \A t \in Tasks : op[t] = "dispatch" => op'[t] = "dispatch"
  PROVE  lock' \in Seq(Callers) /\ Keyed(lock', op')
<1>1. Keyed(lock, op')
  BY KeyedOther
<1>2. CASE lock' = lock
  BY <1>1, <1>2
<1>3. CASE \E a \in Callers : Keyless(a) /\ lock' = Append(lock, a)
  BY <1>1, <1>3, KeyedAppend
<1>4. CASE lock # <<>> /\ lock' = Tail(lock) \o <<>>
  BY <1>1, <1>4, KeyedLeaves, Zenon
<1>5. CASE lock # <<>> /\ \E a \in Callers : Keyless(a) /\ lock' = Tail(lock) \o <<a>>
  BY <1>1, <1>5, KeyedLeaves, Zenon
<1> QED  BY <1>2, <1>3, <1>4, <1>5, Zenon DEF Behind

LEMMA Joining == \A a \in Callers : Keyless(a) => Behind(Append(lock, a))
BY DEF Behind
LEMMA Leaving ==
  \A t, a : Turn(t) => /\ Leaves(<<>>) => Behind(lock')
                       /\ Leaves(<<a>>) /\ a \in Callers /\ Keyless(a) => Behind(lock')
BY DEF Behind, Turn, Leaves

(* The states of operations and runners after _admit_available.             *)
LEMMA AdmittedIs ==
  ASSUME NEW ops \in [Tasks -> OpStates], NEW open, NEW rc \in [Tasks -> RunnerStates],
         Admitted(ops, open, rc)
  PROVE  /\ op' \in [Tasks -> OpStates] /\ runner' \in [Tasks -> RunnerStates]
         /\ \A t \in Tasks : \/ op'[t] = ops[t] /\ runner'[t] = rc[t]
                             \/ /\ op'[t] = "active" /\ runner'[t] = "begin"
                                /\ ops[t] = "pending" /\ process = "up"
BY DEF Admitted, OpStates, RunnerStates

LEMMA RecomputedIs ==
  ASSUME NEW t, NEW it
  PROVE  /\ Recomputed(t, it) \in Marks
         /\ Recomputed(t, it).status \in {"DOWNLOADING", "WAITING_RETRY"} =>
              \E i \in ItemsOf(t) : it[i] \in {"DOWNLOADING", "WAITING_RETRY"}
         /\ Recomputed(t, it).status = "COMPLETED" => \A i \in ItemsOf(t) : it[i] = "COMPLETED"
<1> DEFINE seen == {it[i] : i \in ItemsOf(t)}
<1>1. Recomputed(t, it) =
        CASE "DOWNLOADING" \in seen -> Row("DOWNLOADING", "none")
        [] "WAITING_RETRY" \in seen /\ "DOWNLOADING" \notin seen -> Row("WAITING_RETRY", "none")
        [] "FAILED" \in seen /\ {"DOWNLOADING", "WAITING_RETRY"} \cap seen = {} ->
             Row("PARTIAL_FAILURE", "none")
        [] "PAUSED" \in seen /\ {"DOWNLOADING", "WAITING_RETRY", "FAILED"} \cap seen = {} ->
             Row("PAUSED", "user")
        [] seen = {"COMPLETED"} -> Row("COMPLETED", "none")
        [] OTHER -> Row("QUEUED", "none")
  BY DEF Recomputed
<1>2. \A s : s \in seen => \E i \in ItemsOf(t) : it[i] = s
  OBVIOUS
<1>3. \A i \in ItemsOf(t) : it[i] \in seen
  OBVIOUS
<1> HIDE DEF seen
<1>4. CASE "DOWNLOADING" \in seen
  <2>1. Recomputed(t, it) = Row("DOWNLOADING", "none")
    BY <1>1, <1>4
  <2> QED  BY <2>1, <1>2, <1>4 DEF Row, Marks, Statuses, Reasons
<1>5. CASE "DOWNLOADING" \notin seen /\ "WAITING_RETRY" \in seen
  <2>1. Recomputed(t, it) = Row("WAITING_RETRY", "none")
    BY <1>1, <1>5
  <2> QED  BY <2>1, <1>2, <1>5 DEF Row, Marks, Statuses, Reasons
<1>6. CASE {"DOWNLOADING", "WAITING_RETRY"} \cap seen = {}
  <2>1. CASE seen = {"COMPLETED"}
    <3>1. Recomputed(t, it) = Row("COMPLETED", "none")
      BY <1>1, <1>6, <2>1
    <3> QED  BY <3>1, <1>3, <2>1 DEF Row, Marks, Statuses, Reasons
  <2>2. CASE seen # {"COMPLETED"}
    <3>1. Recomputed(t, it) \in
            {Row("PARTIAL_FAILURE", "none"), Row("PAUSED", "user"), Row("QUEUED", "none")}
      BY <1>1, <1>6, <2>2
    <3> QED  BY <3>1 DEF Row, Marks, Statuses, Reasons
  <2> QED  BY <2>1, <2>2
<1> QED  BY <1>4, <1>5, <1>6

-----------------------------------------------------------------------------
USE DEF db, memory, coroutines, schedule, integrity, life, user

(* Steps that touch no row, no operation and no coroutine.                  *)
LEMMA QuietKeeps ==
  ASSUME SchedulerInv, UNCHANGED <<row, item, op, want, runner, final, worker, process, fault>>,
         reason' \in [Tasks -> Reasons], target' \in Items, chosen' \in SUBSET Tasks,
         Behind(lock')
  PROVE  SchedulerInv'
<1>1. Typed'
  BY DEF SchedulerInv, Typed
<1>2. ASSUME Sane' PROVE Together'
  <2>1. Together
    BY <1>2 DEF SchedulerInv, Sane
  <2>2. lock' \in Seq(Callers) /\ Keyed(lock', op')
    BY <2>1, LockStays DEF Together
  <2> QED  BY <2>1, <2>2 DEF Together, Seated, Selected, Gathered, Written, Rows, Finals
<1> QED  BY <1>1, <1>2 DEF SchedulerInv

LEMMA QuietSteps ==
  ASSUME SchedulerInv,
         \/ \E t \in Tasks : CallResume(t)
         \/ \E i \in Items : VerifyStarts(i)
         \/ Edge \/ RefreshCloses \/ RefreshLists \/ RefreshReturns \/ RepairAsks
         \/ UNCHANGED vars
  PROVE  SchedulerInv'
<1>1. reason \in [Tasks -> Reasons] /\ target \in Items /\ chosen \in SUBSET Tasks
  BY DEF SchedulerInv, Typed
<1>2. CASE \E t \in Tasks : CallResume(t)
  <2> PICK t \in Tasks : CallResume(t)
    BY <1>2
  <2>1. Behind(lock')
    BY CallersAre, Joining DEF CallResume
  <2> QED  BY <2>1, <1>1, QuietKeeps DEF CallResume
<1>3. CASE \E i \in Items : VerifyStarts(i)
  BY <1>1, <1>3, QuietKeeps DEF VerifyStarts, Behind
<1>4. CASE Edge
  BY <1>1, <1>4, QuietKeeps DEF Edge, Behind
<1>5. CASE RefreshCloses
  <2>1. reason' \in [Tasks -> Reasons]
    BY <1>1, <1>5 DEF RefreshCloses, Reasons
  <2> QED  BY <2>1, <1>1, <1>5, QuietKeeps DEF RefreshCloses, Behind
<1>6. CASE RefreshLists
  <2>1. Behind(lock')
    BY <1>6, CallersAre, Leaving DEF RefreshLists
  <2>2. chosen' \in SUBSET Tasks
    BY <1>1, <1>6 DEF RefreshLists
  <2> QED  BY <2>1, <2>2, <1>1, <1>6, QuietKeeps DEF RefreshLists
<1>7. CASE RefreshReturns
  BY <1>1, <1>7, QuietKeeps DEF RefreshReturns, Behind
<1>8. CASE RepairAsks
  <2>1. Behind(lock')
    BY <1>8, CallersAre, Joining DEF RepairAsks, Behind
  <2> QED  BY <2>1, <1>1, <1>8, QuietKeeps DEF RepairAsks
<1>9. CASE UNCHANGED vars
  BY <1>1, <1>9, QuietKeeps DEF vars, Behind
<1> QED  BY <1>2, <1>3, <1>4, <1>5, <1>6, <1>7, <1>8, <1>9

(* Steps of one coroutine, which only runs while its runner gathers.        *)
LEMMA WorkKeeps ==
  ASSUME SchedulerInv, NEW i \in Items, worker[i] # "none",
         NEW p \in WorkerStates \ {"none"}, worker' = [worker EXCEPT ![i] = p],
         NEW s \in ItemStatuses, item' = [item EXCEPT ![i] = s],
         s \in {"DOWNLOADING", "WAITING_RETRY"} => p \in Writing,
         NEW r \in Marks, row' = [row EXCEPT ![i[1]] = r],
         UNCHANGED <<op, want, runner, final, target, chosen, process, fault>>,
         reason' \in [Tasks -> Reasons], Behind(lock')
  PROVE  SchedulerInv'
<1>0. i[1] \in Tasks
  BY DEF Items
<1>1. Typed'
  BY DEF SchedulerInv, Typed
<1>2. ASSUME Sane' PROVE Together'
  <2>1. Together /\ Typed
    BY <1>2 DEF SchedulerInv, Sane
  <2>2. lock' \in Seq(Callers) /\ Keyed(lock', op')
    BY <2>1, LockStays DEF Together
  <2>3. Seated' /\ Selected' /\ Finals'
    BY <2>1 DEF Together, Seated, Selected, Finals
  <2>4. runner[i[1]] = "gather"
    BY <2>1 DEF Together, Gathered
  <2>5. Gathered'
    BY <2>1, <2>4 DEF Together, Gathered, Typed
  <2>6. Written'
    BY <2>1 DEF Together, Written, Typed
  <2>7. Rows'
    BY <2>1, <2>4, <1>0 DEF Together, Rows, Typed
  <2> QED  BY <2>2, <2>3, <2>5, <2>6, <2>7 DEF Together
<1> QED  BY <1>1, <1>2 DEF SchedulerInv

LEMMA WorkSteps ==
  ASSUME SchedulerInv, NEW i \in Items,
         WorkerStep(i) \/ Chunk(i) \/ DownloadEnds(i)
  PROVE  SchedulerInv'
<1> USE DEF Typed
<1>1. Typed /\ i[1] \in Tasks
  BY DEF SchedulerInv, Items
<1>2. /\ item = [item EXCEPT ![i] = item[i]] /\ item[i] \in ItemStatuses
      /\ row = [row EXCEPT ![i[1]] = row[i[1]]] /\ row[i[1]] \in Marks
      /\ worker = [worker EXCEPT ![i] = worker[i]] /\ worker[i] \in WorkerStates
  BY <1>1
<1>3. Worker(i) \in Callers /\ Keyless(Worker(i))
  BY CallersAre
<1>4. Top(i) \in {"pausing", "download"}
  BY DEF Top
<1>5. \A p : Goes(i, p) => Behind(lock') /\ worker' = [worker EXCEPT ![i] = p]
  BY <1>3, Joining DEF Goes, Behind
<1> HIDE DEF Typed
<1>6. CASE Acquire(i)
  <2>1. Behind(lock') /\ worker' = [worker EXCEPT ![i] = Top(i)] /\ worker[i] # "none"
    BY <1>5, <1>6 DEF Acquire
  <2>2. Top(i) \in Writing /\ Top(i) \in WorkerStates \ {"none"}
    BY <1>4 DEF Writing, WorkerStates
  <2>3. UNCHANGED <<db, memory, runner, final, schedule, integrity, life>>
    BY <1>6 DEF Acquire
  <2> QED  BY <2>1, <2>2, <2>3, <1>1, <1>2, WorkKeeps DEF Typed
<1>7. CASE Chunk(i)
  <2>1. worker[i] = "download" /\ item' = [item EXCEPT ![i] = "DOWNLOADING"]
        /\ UNCHANGED <<row, memory, coroutines, lock, schedule, integrity, life>>
    BY <1>7 DEF Chunk
  <2>2. Behind(lock')
    BY <2>1 DEF Behind
  <2>3. worker' = [worker EXCEPT ![i] = "download"]
    BY <2>1, <1>2
  <2>4. "DOWNLOADING" \in ItemStatuses /\ "download" \in WorkerStates \ {"none"} /\ "download" \in Writing
    BY DEF ItemStatuses, WorkerStates, Writing
  <2> QED  BY <2>1, <2>2, <2>3, <2>4, <1>1, <1>2, WorkKeeps DEF Typed
<1>8. CASE DownloadEnds(i)
  <2>1. worker[i] # "none" /\ UNCHANGED <<db, flag, op, want, runner, final, schedule, integrity, life>>
    BY <1>8 DEF DownloadEnds, FloodWaits
  <2>2. reason' \in [Tasks -> Reasons]
    BY <1>1, <1>8 DEF DownloadEnds, Typed, Reasons
  <2>3. PICK p \in {"completing", "failing", "pausing", "waiting"} : Goes(i, p)
    BY <1>8 DEF DownloadEnds, FloodWaits
  <2>4. p \in Writing /\ p \in WorkerStates \ {"none"}
    BY DEF WorkerStates, Writing
  <2> QED  BY <2>1, <2>2, <2>3, <2>4, <1>1, <1>2, <1>5, WorkKeeps DEF Typed
<1>9. CASE Settle(i)
  <2>1. PICK s \in {"COMPLETED", "FAILED", "PAUSED"}, p \in {"confirming", "failed", "paused"} :
          item' = [item EXCEPT ![i] = s] /\ worker' = [worker EXCEPT ![i] = p]
    BY <1>9, Zenon DEF Settle
  <2>2. \E r \in Marks : row' = [row EXCEPT ![i[1]] = r]
    BY <1>2, <1>9, RecomputedIs DEF Settle
  <2>3. Behind(lock') /\ worker[i] # "none"
    BY <1>3, <1>9, Leaving DEF Settle
  <2>4. UNCHANGED <<memory, runner, final, schedule, integrity, life>>
    BY <1>9 DEF Settle
  <2>5. /\ p \in WorkerStates \ {"none"}
        /\ s \in ItemStatuses /\ s \notin {"DOWNLOADING", "WAITING_RETRY"}
    BY DEF WorkerStates, Writing, ItemStatuses
  <2> QED  BY <2>1, <2>2, <2>3, <2>4, <2>5, <1>1, WorkKeeps DEF Typed
<1>14. CASE Confirms(i)
  <2>1. /\ worker[i] # "none" /\ item' = [item EXCEPT ![i] = "COMPLETED"]
        /\ worker' = [worker EXCEPT ![i] = "completed"]
        /\ UNCHANGED <<row, memory, runner, final, schedule, integrity, life>>
    BY <1>14 DEF Confirms
  <2>2. Behind(lock')
    BY <1>14, Leaving DEF Confirms
  <2>3. "COMPLETED" \in ItemStatuses /\ "completed" \in WorkerStates \ {"none"}
    BY DEF ItemStatuses, WorkerStates
  <2> QED  BY <2>1, <2>2, <2>3, <1>1, <1>2, WorkKeeps DEF Typed
<1>10. CASE RetryItem(i)
  <2>1. /\ worker[i] # "none" /\ item' = [item EXCEPT ![i] = "WAITING_RETRY"]
        /\ worker' = [worker EXCEPT ![i] = "waitingTask"]
        /\ UNCHANGED <<row, memory, runner, final, schedule, integrity, life>>
    BY <1>10 DEF RetryItem
  <2>2. Behind(lock')
    BY <1>10, <1>3, Leaving DEF RetryItem
  <2>3. /\ "WAITING_RETRY" \in ItemStatuses
        /\ "waitingTask" \in WorkerStates \ {"none"} /\ "waitingTask" \in Writing
    BY DEF ItemStatuses, WorkerStates, Writing
  <2> QED  BY <2>1, <2>2, <2>3, <1>1, <1>2, WorkKeeps DEF Typed
<1>11. CASE RetryTask(i)
  <2>1. /\ worker[i] # "none" /\ row' = [row EXCEPT ![i[1]] = Row("WAITING_RETRY", "none")]
        /\ worker' = [worker EXCEPT ![i] = "sleep"]
        /\ UNCHANGED <<item, memory, runner, final, schedule, integrity, life>>
    BY <1>11 DEF RetryTask
  <2>2. Behind(lock')
    BY <1>11, Leaving DEF RetryTask
  <2>3. Row("WAITING_RETRY", "none") \in Marks /\ "sleep" \in WorkerStates \ {"none"} /\ "sleep" \in Writing
    BY DEF Row, Marks, Statuses, Reasons, WorkerStates, Writing
  <2> QED  BY <2>1, <2>2, <2>3, <1>1, <1>2, WorkKeeps DEF Typed
<1>12. CASE Wakes(i)
  <2>1. worker[i] # "none" /\ UNCHANGED <<db, memory, runner, final, schedule, integrity, life>>
    BY <1>12 DEF Wakes
  <2>2. PICK p \in {"pausing", "retrying"} : Goes(i, p)
    BY <1>12 DEF Wakes
  <2>3. p \in Writing /\ p \in WorkerStates \ {"none"}
    BY DEF WorkerStates, Writing
  <2> QED  BY <2>1, <2>2, <2>3, <1>1, <1>2, <1>5, WorkKeeps DEF Typed
<1>13. CASE Retries(i)
  <2>1. /\ worker[i] # "none" /\ row' = [row EXCEPT ![i[1]] = Row("DOWNLOADING", "none")]
        /\ worker' = [worker EXCEPT ![i] = Top(i)]
        /\ UNCHANGED <<item, memory, runner, final, schedule, integrity, life>>
    BY <1>13 DEF Retries
  <2>2. Behind(lock')
    BY <1>13, <1>3, Leaving DEF Retries
  <2>3. Row("DOWNLOADING", "none") \in Marks /\ Top(i) \in WorkerStates \ {"none"} /\ Top(i) \in Writing
    BY <1>4 DEF Row, Marks, Statuses, Reasons, WorkerStates, Writing
  <2> QED  BY <2>1, <2>2, <2>3, <1>1, <1>2, WorkKeeps DEF Typed
<1> QED  BY <1>6, <1>7, <1>8, <1>9, <1>10, <1>11, <1>12, <1>13, <1>14 DEF WorkerStep

(* New operations: their dispatch keys join the lock.                       *)
LEMMA TasksQueued ==
  ASSUME Typed, Together, NEW S \in SUBSET Tasks, RunTasks(S), NEW q \in Queues(S),
         NEW l \in Seq(Callers), Keyed(l, op), lock' = l \o q, UNCHANGED runner
  PROVE  /\ lock' \in Seq(Callers) /\ Keyed(lock', op')
         /\ Seated' /\ Selected'
<1>1. \A t \in New(S) : op'[t] = "dispatch" /\ op[t] = "none"
  BY DEF RunTasks, New
<1>2. /\ q \in Seq(Callers) /\ Keyed(q, op')
      /\ \A t \in Tasks : Among(Dispatcher(t), q) => t \in New(S)
  BY <1>1, QueueIs
<1>3. \A t \in Tasks : Among(Dispatcher(t), l) => op[t] = "dispatch"
  BY DEF Keyed, Among
<1>4. \A t \in Tasks : op[t] = "dispatch" => op'[t] = "dispatch"
  BY DEF RunTasks
<1>5. Keyed(l, op')
  BY <1>4, KeyedOther
<1>6. \A t \in Tasks : ~(Among(Dispatcher(t), l) /\ Among(Dispatcher(t), q))
  BY <1>1, <1>2, <1>3
<1>7. lock' \in Seq(Callers) /\ Keyed(lock', op')
  BY <1>2, <1>5, <1>6, KeyedJoin
<1>8. Seated'
  BY DEF RunTasks, New, Together, Seated
<1>9. Selected'
  BY DEF RunTasks, New, Together, Selected
<1> QED  BY <1>7, <1>8, <1>9

LEMMA RunTasksTyped ==
  ASSUME Typed, NEW S, RunTasks(S)
  PROVE  op' \in [Tasks -> OpStates] /\ want' \in [Tasks -> SUBSET Items]
BY DEF RunTasks, Typed, OpStates

(* What resume_tasks does of S, in the turn of its command.                 *)
LEMMA ResumesKeeps ==
  ASSUME SchedulerInv, NEW S \in SUBSET Tasks, Resumes(S), lock # <<>>, chosen' \in SUBSET Tasks,
         UNCHANGED <<item, runner, final, worker, target, process, fault>>
  PROVE  SchedulerInv'
<1>1. Typed
  BY DEF SchedulerInv
<1>2. row' = [t \in Tasks |-> IF t \in S THEN Row("QUEUED", "none") ELSE row[t]]
  BY DEF Resumes
<1>3. reason' = [t \in Tasks |-> IF t \in S THEN "none" ELSE reason[t]]
  BY DEF Resumes
<1>4. ShuttingDown \/ RunTasks(S)
  BY DEF Resumes
<1>5. op' \in [Tasks -> OpStates] /\ want' \in [Tasks -> SUBSET Items]
  BY <1>1, <1>4, RunTasksTyped DEF Resumes, Typed
<1>6. Typed'
  <2>1. row' \in [Tasks -> Marks]
    BY <1>1, <1>2 DEF Typed, Row, Marks, Statuses, Reasons
  <2>2. reason' \in [Tasks -> Reasons]
    BY <1>1, <1>3 DEF Typed, Reasons
  <2> QED  BY <2>1, <2>2, <1>1, <1>5 DEF Typed
<1>7. ASSUME Sane' PROVE Together'
  <2>1. Together
    BY <1>7 DEF SchedulerInv, Sane
  <2>2. Gathered' /\ Written' /\ Finals'
    BY <2>1 DEF Together, Gathered, Written, Finals
  <2>3. Rows'
    BY <2>1, <1>2 DEF Together, Rows, Row
  <2>4. lock' \in Seq(Callers) /\ Keyed(lock', op') /\ Seated' /\ Selected'
    <3>1. CASE ShuttingDown
      <4>1. lock' = Tail(lock) \o <<>> /\ UNCHANGED <<op, want>>
        BY <3>1 DEF Resumes, Leaves
      <4>2. Behind(lock')
        BY <4>1 DEF Behind
      <4> QED  BY <4>1, <4>2, <2>1, LockStays DEF Together, Seated, Selected
    <3>2. CASE ~ShuttingDown
      <4>1. RunTasks(S) /\ \E q \in Queues(S) : Leaves(q)
        BY <3>2 DEF Resumes
      <4>2. PICK q \in Queues(S) : lock' = Tail(lock) \o q
        BY <4>1 DEF Leaves
      <4>3. Tail(lock) \in Seq(Callers) /\ Keyed(Tail(lock), op)
        BY <2>1, KeyedTail DEF Together
      <4> QED  BY <4>1, <4>2, <4>3, <2>1, <1>1, TasksQueued
    <3> QED  BY <3>1, <3>2
  <2> QED  BY <2>2, <2>3, <2>4 DEF Together
<1> QED  BY <1>6, <1>7 DEF SchedulerInv

LEMMA ResumeSteps ==
  ASSUME SchedulerInv, RefreshResumes \/ \E t \in Tasks : Resume(t)
  PROVE  SchedulerInv'
<1>1. CASE RefreshResumes
  <2>1. Resumes(Resumable(chosen)) /\ lock # <<>>
        /\ UNCHANGED <<item, runner, final, worker, target, process, fault>>
    BY <1>1 DEF RefreshResumes, Turn
  <2>2. Resumable(chosen) \subseteq Tasks
    BY DEF Resumable, SchedulerInv, Typed
  <2>3. chosen' \in SUBSET Tasks
    BY <1>1, <2>2 DEF RefreshResumes
  <2> QED  BY <2>1, <2>2, <2>3, ResumesKeeps
<1>2. CASE \E t \in Tasks : Resume(t)
  <2> PICK t \in Tasks : Resume(t)
    BY <1>2
  <2>1. Resumes(Resumable({t})) /\ lock # <<>>
        /\ UNCHANGED <<item, runner, final, worker, target, process, fault>>
    BY DEF Resume, Turn
  <2>2. Resumable({t}) \subseteq Tasks /\ chosen' \in SUBSET Tasks
    BY DEF Resumable, Resume, SchedulerInv, Typed
  <2> QED  BY <2>1, <2>2, ResumesKeeps
<1> QED  BY <1>1, <1>2

LEMMA RestoreQueueKeeps == ASSUME SchedulerInv, RestoreQueue PROVE SchedulerInv'
<1> DEFINE S == {t \in Tasks : row[t].status = "QUEUED"}
<1>1. /\ RunTasks(S) /\ \E q \in Queues(S) : lock' = lock \o q
      /\ ~fault /\ process = "up"
      /\ UNCHANGED <<row, item, reason, runner, final, worker, target, chosen, process, fault>>
  BY DEF RestoreQueue
<1>2. Typed /\ Together
  BY <1>1 DEF SchedulerInv, Sane
<1>3. S \subseteq Tasks
  OBVIOUS
<1> HIDE DEF S
<1>4. Typed'
  BY <1>1, <1>2, RunTasksTyped DEF Typed
<1>5. PICK q \in Queues(S) : lock' = lock \o q
  BY <1>1
<1>6. lock' \in Seq(Callers) /\ Keyed(lock', op') /\ Seated' /\ Selected'
  BY <1>1, <1>2, <1>3, <1>5, TasksQueued DEF Together
<1>7. Together'
  BY <1>1, <1>2, <1>6 DEF Together, Gathered, Written, Rows, Finals
<1> QED  BY <1>4, <1>7 DEF SchedulerInv

LEMMA PauseKeeps == ASSUME SchedulerInv, NEW t \in Tasks, Pause(t) PROVE SchedulerInv'
<1>1. /\ Turn(Pauser(t)) /\ Leaves(<<>>)
      /\ UNCHANGED <<item, memory, runner, final, worker, target, chosen, process, fault>>
  BY DEF Pause
<1>2. row' \in {row, [row EXCEPT ![t] = Row("PAUSED", "user")]}
  <2>1. CASE row[t].status \in {"QUEUED", "DOWNLOADING", "WAITING_RETRY"}
    BY <2>1 DEF Pause
  <2>2. CASE row[t].status \notin {"QUEUED", "DOWNLOADING", "WAITING_RETRY"}
    BY <2>2 DEF Pause, SchedulerInv, Typed
  <2> QED  BY <2>1, <2>2
<1>3. Typed'
  BY <1>1, <1>2 DEF SchedulerInv, Typed, Row, Marks, Statuses, Reasons
<1>4. ASSUME Sane' PROVE Together'
  <2>1. Together /\ Typed
    BY <1>1, <1>4 DEF SchedulerInv, Sane
  <2>2. Behind(lock')
    BY <1>1, Leaving
  <2>3. lock' \in Seq(Callers) /\ Keyed(lock', op')
    BY <1>1, <2>1, <2>2, LockStays DEF Together
  <2>4. Rows'
    BY <1>1, <1>2, <2>1 DEF Together, Typed, Rows, Row
  <2> QED  BY <1>1, <2>1, <2>3, <2>4 DEF Together, Seated, Selected, Gathered, Written, Finals
<1> QED  BY <1>3, <1>4 DEF SchedulerInv

LEMMA CompletesIs == ASSUME Typed, NEW S, Completes(S) PROVE chosen' \in SUBSET Tasks
BY DEF Completes, Typed

LEMMA CallPauseKeeps == ASSUME SchedulerInv, NEW t \in Tasks, CallPause(t) PROVE SchedulerInv'
<1> DEFINE gone == IF op[t] \in {"dispatch", "pending"} THEN {t} ELSE {}
           l == IF t \in gone THEN RemoveFirst(lock, Dispatcher(t)) ELSE lock
<1>1. /\ op' = [op EXCEPT ![t] = IF t \in gone THEN "none" ELSE @]
      /\ lock' = Append(l, Pauser(t))
      /\ Completes(gone)
      /\ reason' = [reason EXCEPT ![t] = IF op[t] = "active" THEN "user" ELSE @]
      /\ UNCHANGED <<row, item, want, runner, final, worker, target, process, fault>>
  BY DEF CallPause
<1>2. Typed
  BY DEF SchedulerInv
<1>3. Typed'
  <2>1. chosen' \in SUBSET Tasks
    BY <1>1, <1>2, CompletesIs
  <2>2. op' \in [Tasks -> OpStates] /\ reason' \in [Tasks -> Reasons]
    BY <1>1, <1>2 DEF Typed, OpStates, Reasons
  <2> QED  BY <1>1, <1>2, <2>1, <2>2 DEF Typed
<1>4. ASSUME Sane' PROVE Together'
  <2>1. Together
    BY <1>1, <1>4 DEF SchedulerInv, Sane
  <2>2. l \in Seq(Callers) /\ Keyed(l, op')
    <3>1. CASE t \in gone
      <4>1. l \in Seq(Callers) /\ Keyed(l, op) /\ ~Among(Dispatcher(t), l)
        BY <2>1, <3>1, KeyRemoved DEF Together
      <4>2. \A u \in Tasks : Among(Dispatcher(u), l) /\ op[u] = "dispatch" => op'[u] = "dispatch"
        BY <4>1, <1>1, <1>2 DEF Typed
      <4> QED  BY <4>1, <4>2, KeyedOther
    <3>2. CASE t \notin gone
      BY <3>2, <1>1, <1>2, <2>1 DEF Together, Typed
    <3> QED  BY <3>1, <3>2
  <2> HIDE DEF l
  <2>3. lock' \in Seq(Callers) /\ Keyed(lock', op')
    BY <1>1, <2>2, CallersAre, KeyedAppend
  <2>4. Seated'
    BY <1>1, <1>2, <2>1 DEF Together, Seated, Typed
  <2> QED  BY <1>1, <2>1, <2>3, <2>4 DEF Together, Selected, Gathered, Written, Rows, Finals
<1> QED  BY <1>3, <1>4 DEF SchedulerInv

(* Operations are admitted, after one of them may have left the table.      *)
LEMMA AdmitKeeps ==
  ASSUME Typed, Together, NEW ops \in [Tasks -> OpStates], NEW open,
         NEW rc \in [Tasks -> RunnerStates], Admitted(ops, open, rc),
         \A t \in Tasks : ops[t] = "active" <=> rc[t] # "none",
         \A t \in Tasks : \/ rc[t] = runner[t]
                          \/ rc[t] = "none" /\ runner[t] \notin {"list", "gather", "final"},
         UNCHANGED <<row, item, final, worker>>
  PROVE  Seated' /\ Gathered' /\ Written' /\ Rows' /\ Finals'
<1>1. \A t \in Tasks : \/ op'[t] = ops[t] /\ runner'[t] = rc[t]
                       \/ /\ op'[t] = "active" /\ runner'[t] = "begin"
                          /\ ops[t] = "pending"
  BY AdmittedIs
<1>2. Seated'
  BY <1>1 DEF Seated
<1>3. \A t \in Tasks : \/ runner'[t] = runner[t]
                       \/ /\ runner'[t] \in {"none", "begin"}
                          /\ runner[t] \notin {"list", "gather", "final"}
  BY <1>1
<1>4. \A i \in Items : i[1] \in Tasks
  BY DEF Items
<1>5. Gathered'
  BY <1>3, <1>4 DEF Together, Gathered
<1>6. Rows' /\ Finals'
  BY <1>3 DEF Together, Rows, Finals
<1> QED  BY <1>2, <1>5, <1>6 DEF Together, Written

LEMMA DispatchKeeps == ASSUME SchedulerInv, NEW t \in Tasks, Dispatch(t) PROVE SchedulerInv'
<1> DEFINE ops == [op EXCEPT ![t] = "pending"]
<1>1. /\ Turn(Dispatcher(t)) /\ lock' = Tail(lock) \o <<>>
      /\ Admitted(ops, admission, runner)
      /\ UNCHANGED <<row, item, reason, want, final, worker, target, chosen, process, fault>>
  BY DEF Dispatch, Leaves
<1>2. Typed /\ ops \in [Tasks -> OpStates] /\ runner \in [Tasks -> RunnerStates]
  BY DEF SchedulerInv, Typed, OpStates
<1>3. \A u \in Tasks : u # t => ops[u] = op[u]
  BY <1>2 DEF Typed
<1>4. ops[t] = "pending"
  BY <1>2 DEF Typed
<1> HIDE DEF ops
<1>5. /\ op' \in [Tasks -> OpStates] /\ runner' \in [Tasks -> RunnerStates]
      /\ \A u \in Tasks : op'[u] = ops[u] \/ ops[u] = "pending"
  BY <1>1, <1>2, AdmittedIs
<1>6. Typed'
  BY <1>1, <1>2, <1>5 DEF Typed
<1>7. ASSUME Sane' PROVE Together'
  <2>1. Together
    BY <1>1, <1>7 DEF SchedulerInv, Sane
  <2>2. lock # <<>> /\ lock[1] = Dispatcher(t)
    BY <1>1 DEF Turn
  <2>3. /\ Tail(lock) \in Seq(Callers) /\ Keyed(Tail(lock), op)
        /\ ~Among(Dispatcher(t), Tail(lock)) /\ Among(Dispatcher(t), lock)
    <3>1. 1 \in DOMAIN lock
      BY <2>1, <2>2, LenProperties, EmptySeq DEF Together
    <3> QED  BY <2>1, <2>2, <3>1, KeyedTail DEF Together, Among
  <2>4. op[t] = "dispatch"
    BY <2>1, <2>3 DEF Together, Keyed, Among
  <2>5. Keyed(Tail(lock), op')
    <3>1. \A u \in Tasks : Among(Dispatcher(u), Tail(lock)) /\ op[u] = "dispatch" => op'[u] = "dispatch"
      BY <1>3, <1>5, <2>3
    <3> QED  BY <2>3, <3>1, KeyedOther
  <2>6. lock' \in Seq(Callers) /\ Keyed(lock', op')
    <3>1. <<>> \in Seq(Callers) /\ Keyed(<<>>, op') /\ \A u \in Tasks : ~Among(Dispatcher(u), <<>>)
      BY DEF Keyed, Among
    <3> QED  BY <1>1, <2>3, <2>5, <3>1, KeyedJoin
  <2>7. \A u \in Tasks : ops[u] = "active" <=> runner[u] # "none"
    BY <1>3, <1>4, <2>1, <2>4 DEF Together, Seated
  <2>8. Seated' /\ Gathered' /\ Written' /\ Rows' /\ Finals'
    BY <1>1, <1>2, <2>1, <2>7, AdmitKeeps
  <2> QED  BY <1>1, <2>1, <2>6, <2>8 DEF Together, Selected
<1> QED  BY <1>6, <1>7 DEF SchedulerInv

LEMMA FinishOperationKeeps ==
  ASSUME SchedulerInv, NEW t \in Tasks, FinishOperation(t) PROVE SchedulerInv'
<1> DEFINE ops == [op EXCEPT ![t] = "none"]
           rc == [runner EXCEPT ![t] = "none"]
<1>1. /\ Admitted(ops, admission, rc) /\ runner[t] \in {"ended", "raised"}
      /\ want' = [want EXCEPT ![t] = {}]
      /\ UNCHANGED <<row, item, reason, final, worker, lock, target, process, fault>>
  BY DEF FinishOperation
<1>2. Typed /\ ops \in [Tasks -> OpStates] /\ rc \in [Tasks -> RunnerStates]
  BY DEF SchedulerInv, Typed, OpStates, RunnerStates
<1>3. /\ \A u \in Tasks : u # t => ops[u] = op[u] /\ rc[u] = runner[u]
      /\ ops[t] = "none" /\ rc[t] = "none"
  BY <1>2 DEF Typed
<1> HIDE DEF ops, rc
<1>4. /\ op' \in [Tasks -> OpStates] /\ runner' \in [Tasks -> RunnerStates]
      /\ \A u \in Tasks : op'[u] = ops[u] \/ ops[u] = "pending"
  BY <1>1, <1>2, AdmittedIs
<1>5. Typed'
  <2>1. chosen' \in SUBSET Tasks
    BY <1>2, CompletesIs DEF FinishOperation, Typed
  <2> QED  BY <1>1, <1>2, <1>4, <2>1 DEF Typed
<1>6. ASSUME Sane' PROVE Together'
  <2>1. Together
    BY <1>1, <1>6 DEF SchedulerInv, Sane
  <2>2. op[t] = "active"
    BY <1>1, <2>1 DEF Together, Seated
  <2>3. \A u \in Tasks : op[u] = "dispatch" => op'[u] = "dispatch"
    BY <1>3, <1>4, <2>2
  <2>4. lock' \in Seq(Callers) /\ Keyed(lock', op')
    BY <1>1, <2>1, <2>3, KeyedOther DEF Together
  <2>5. \A u \in Tasks : ops[u] = "active" <=> rc[u] # "none"
    BY <1>3, <2>1 DEF Together, Seated
  <2>6. \A u \in Tasks : \/ rc[u] = runner[u]
                         \/ rc[u] = "none" /\ runner[u] \notin {"list", "gather", "final"}
    BY <1>1, <1>3
  <2>7. Seated' /\ Gathered' /\ Written' /\ Rows' /\ Finals'
    BY <1>1, <1>2, <2>1, <2>5, <2>6, AdmitKeeps
  <2>8. Selected'
    BY <1>1, <1>2, <2>1 DEF Together, Selected, Typed
  <2> QED  BY <2>4, <2>7, <2>8 DEF Together
<1> QED  BY <1>5, <1>6 DEF SchedulerInv

LEMMA RefreshOpensKeeps == ASSUME SchedulerInv, RefreshOpens PROVE SchedulerInv'
<1>1. /\ Admitted(op, TRUE, runner) /\ lock' = Append(lock, Refresher)
      /\ UNCHANGED <<row, item, reason, want, final, worker, target, chosen, process, fault>>
  BY DEF RefreshOpens
<1>2. Typed /\ op \in [Tasks -> OpStates] /\ runner \in [Tasks -> RunnerStates]
  BY DEF SchedulerInv, Typed
<1>3. /\ op' \in [Tasks -> OpStates] /\ runner' \in [Tasks -> RunnerStates]
      /\ \A u \in Tasks : op'[u] = op[u] \/ op[u] = "pending"
  BY <1>1, <1>2, AdmittedIs
<1>4. Typed'
  BY <1>1, <1>2, <1>3 DEF Typed
<1>5. ASSUME Sane' PROVE Together'
  <2>1. Together
    BY <1>1, <1>5 DEF SchedulerInv, Sane
  <2>2. \A u \in Tasks : op[u] = "dispatch" => op'[u] = "dispatch"
    BY <1>3
  <2>3. Behind(lock')
    BY <1>1, CallersAre, Joining
  <2>4. lock' \in Seq(Callers) /\ Keyed(lock', op')
    BY <2>1, <2>2, <2>3, LockStays DEF Together
  <2>5. \A u \in Tasks : op[u] = "active" <=> runner[u] # "none"
    BY <2>1 DEF Together, Seated
  <2>6. Seated' /\ Gathered' /\ Written' /\ Rows' /\ Finals'
    BY <1>1, <1>2, <2>1, <2>5, AdmitKeeps
  <2> QED  BY <1>1, <2>1, <2>4, <2>6 DEF Together, Selected
<1> QED  BY <1>4, <1>5 DEF SchedulerInv

(* Steps of a runner that read and write no row.                            *)
LEMMA RunKeeps ==
  ASSUME SchedulerInv, NEW t \in Tasks, NEW p \in RunnerStates \ {"none", "final", "gather"},
         runner' = [runner EXCEPT ![t] = p], runner[t] \in {"begin", "priority", "selected"},
         reason' \in [Tasks -> Reasons], Behind(lock'),
         UNCHANGED <<row, item, op, want, final, worker, target, chosen, process, fault>>
  PROVE  SchedulerInv'
<1>1. Typed'
  BY DEF SchedulerInv, Typed
<1>2. ASSUME Sane' PROVE Together'
  <2>1. Together /\ Typed
    BY <1>2 DEF SchedulerInv, Sane
  <2>2. lock' \in Seq(Callers) /\ Keyed(lock', op')
    BY <2>1, LockStays DEF Together
  <2>3. /\ \A u \in Tasks : u # t => runner'[u] = runner[u]
        /\ runner'[t] = p
    BY <2>1 DEF Typed
  <2>4. Seated' /\ Rows' /\ Finals'
    BY <2>1, <2>3 DEF Together, Seated, Rows, Finals
  <2>5. Gathered'
    BY <2>1, <2>3 DEF Together, Gathered, Items
  <2> QED  BY <2>1, <2>2, <2>4, <2>5 DEF Together, Selected, Written
<1> QED  BY <1>1, <1>2 DEF SchedulerInv

LEMMA RunSteps ==
  ASSUME SchedulerInv, NEW t \in Tasks, RunnerBegins(t) \/ RunnerCleared(t) \/ RunnerSelected(t)
  PROVE  SchedulerInv'
<1>1. reason \in [Tasks -> Reasons] /\ Runner(t) \in Callers /\ Keyless(Runner(t))
  BY CallersAre DEF SchedulerInv, Typed
<1>2. CASE RunnerBegins(t)
  <2>1. PICK p \in {"priority", "raised"} : runner' = [runner EXCEPT ![t] = p]
    BY <1>2 DEF RunnerBegins
  <2>2. Behind(lock')
    BY <1>1, <1>2, Joining DEF RunnerBegins, Behind
  <2>3. p \in RunnerStates \ {"none", "final", "gather"}
    BY DEF RunnerStates
  <2>4. /\ runner[t] = "begin"
        /\ UNCHANGED <<db, memory, final, worker, schedule, integrity, life>>
    BY <1>2 DEF RunnerBegins
  <2> QED  BY <1>1, <2>1, <2>2, <2>3, <2>4, RunKeeps
<1>3. CASE RunnerCleared(t)
  <2>1. PICK p \in {"downloading", "selected"} : runner' = [runner EXCEPT ![t] = p]
    BY <1>3 DEF RunnerCleared
  <2>2. Behind(lock')
    BY <1>1, <1>3, Leaving DEF RunnerCleared
  <2>3. p \in RunnerStates \ {"none", "final", "gather"}
    BY DEF RunnerStates
  <2>4. /\ runner[t] = "priority"
        /\ UNCHANGED <<db, memory, final, worker, schedule, integrity, life>>
    BY <1>3 DEF RunnerCleared
  <2> QED  BY <1>1, <2>1, <2>2, <2>3, <2>4, RunKeeps
<1>4. CASE RunnerSelected(t)
  <2>1. PICK p \in {"downloading", "raised"} : runner' = [runner EXCEPT ![t] = p]
    BY <1>4 DEF RunnerSelected
  <2>2. Behind(lock')
    BY <1>1, <1>4, Leaving DEF RunnerSelected
  <2>3. p \in RunnerStates \ {"none", "final", "gather"}
    BY DEF RunnerStates
  <2>4. reason' \in [Tasks -> Reasons]
    BY <1>1, <1>4 DEF RunnerSelected, Reasons
  <2>5. /\ runner[t] = "selected"
        /\ UNCHANGED <<db, op, want, final, worker, schedule, integrity, process, fault>>
    BY <1>4 DEF RunnerSelected
  <2> QED  BY <2>1, <2>2, <2>3, <2>4, <2>5, RunKeeps
<1> QED  BY <1>2, <1>3, <1>4

LEMMA RunnerDownloadingKeeps ==
  ASSUME SchedulerInv, NEW t \in Tasks, RunnerDownloading(t) PROVE SchedulerInv'
<1>1. /\ row' = [row EXCEPT ![t] = Row("DOWNLOADING", "none")]
      /\ runner[t] = "downloading" /\ Turn(Runner(t))
      /\ UNCHANGED <<item, op, want, reason, final, target, chosen, process, fault>>
  BY DEF RunnerDownloading
<1>2. Typed
  BY DEF SchedulerInv
<1>3. \/ runner' = [runner EXCEPT ![t] = "list"] /\ Leaves(<<Runner(t)>>) /\ worker' = worker
      \/ runner' = [runner EXCEPT ![t] = "gather"] /\ Leaves(<<>>) /\ Spawns(t, want[t])
  BY DEF RunnerDownloading
<1>4. /\ worker' \in [Items -> WorkerStates]
      /\ \A i \in Items : \/ worker'[i] = worker[i]
                          \/ i \in want[t] /\ worker'[i] = "permit" /\ runner'[t] = "gather"
  BY <1>2, <1>3 DEF Spawns, Typed, WorkerStates
<1>5. runner' \in [Tasks -> RunnerStates] /\ runner'[t] \in {"list", "gather"}
      /\ \A u \in Tasks : u # t => runner'[u] = runner[u]
  BY <1>2, <1>3 DEF Typed, RunnerStates
<1>6. Typed'
  <2>1. row' \in [Tasks -> Marks]
    BY <1>1, <1>2 DEF Typed, Row, Marks, Statuses, Reasons
  <2> QED  BY <1>1, <1>2, <1>4, <1>5, <2>1 DEF Typed
<1>7. ASSUME Sane' PROVE Together'
  <2>1. Together
    BY <1>1, <1>7 DEF SchedulerInv, Sane
  <2>2. Behind(lock')
    BY <1>1, <1>3, CallersAre, Leaving
  <2>3. lock' \in Seq(Callers) /\ Keyed(lock', op')
    BY <1>1, <2>1, <2>2, LockStays DEF Together
  <2>4. Seated' /\ Rows' /\ Finals'
    BY <1>1, <1>2, <1>5, <2>1 DEF Together, Seated, Rows, Finals, Typed
  <2>5. \A i \in Items : worker[i] # "none" => i[1] # t
    BY <1>1, <2>1 DEF Together, Gathered
  <2>6. \A i \in want[t] : i[1] = t
    BY <2>1 DEF Together, Selected, ItemsOf
  <2>7. Gathered'
    BY <1>4, <1>5, <2>1, <2>5, <2>6 DEF Together, Gathered, Items
  <2>8. Written'
    <3>1. \A i \in Items : item[i] \in {"DOWNLOADING", "WAITING_RETRY"} => worker[i] # "none"
      BY <2>1 DEF Together, Written, Writing
    <3> QED  BY <1>1, <1>4, <2>1, <2>5, <2>6, <3>1 DEF Together, Written
  <2> QED  BY <1>1, <2>1, <2>3, <2>4, <2>7, <2>8 DEF Together, Selected
<1> QED  BY <1>6, <1>7 DEF SchedulerInv

LEMMA RunnerListsKeeps ==
  ASSUME SchedulerInv, NEW t \in Tasks, RunnerLists(t) PROVE SchedulerInv'
<1>1. /\ runner' = [runner EXCEPT ![t] = "gather"]
      /\ runner[t] = "list" /\ Turn(Runner(t)) /\ Leaves(<<>>)
      /\ Spawns(t, Unfinished(t))
      /\ UNCHANGED <<row, item, op, want, reason, final, target, chosen, process, fault>>
  BY DEF RunnerLists
<1>2. Typed
  BY DEF SchedulerInv
<1>3. /\ worker' \in [Items -> WorkerStates]
      /\ \A i \in Items : worker'[i] = worker[i]
                          \/ (i[1] = t /\ worker'[i] = "permit"
                              /\ item[i] \in {"QUEUED", "PAUSED", "WAITING_RETRY", "FAILED"})
  BY <1>1, <1>2 DEF Spawns, Typed, WorkerStates, Unfinished, ItemsOf
<1>4. runner' \in [Tasks -> RunnerStates] /\ runner'[t] = "gather"
      /\ \A u \in Tasks : u # t => runner'[u] = runner[u]
  BY <1>1, <1>2 DEF Typed, RunnerStates
<1>5. Typed'
  BY <1>1, <1>2, <1>3, <1>4 DEF Typed
<1>6. ASSUME Sane' PROVE Together'
  <2>1. Together
    BY <1>1, <1>6 DEF SchedulerInv, Sane
  <2>2. Behind(lock')
    BY <1>1, CallersAre, Leaving
  <2>3. lock' \in Seq(Callers) /\ Keyed(lock', op')
    BY <1>1, <2>1, <2>2, LockStays DEF Together
  <2>4. Seated' /\ Rows' /\ Finals'
    BY <1>1, <1>4, <2>1 DEF Together, Seated, Rows, Finals
  <2>5. \A i \in Items : worker[i] # "none" => i[1] # t
    BY <1>1, <2>1 DEF Together, Gathered
  <2>6. Gathered'
    BY <1>3, <1>4, <2>1 DEF Together, Gathered, Items
  <2>7. Written'
    <3>1. \A i \in Items : item[i] \in {"DOWNLOADING", "WAITING_RETRY"} => worker[i] # "none"
      BY <2>1 DEF Together, Written, Writing
    <3> QED  BY <1>1, <1>3, <2>1, <2>5, <3>1 DEF Together, Written
  <2> QED  BY <1>1, <2>1, <2>3, <2>4, <2>6, <2>7 DEF Together, Selected
<1> QED  BY <1>5, <1>6 DEF SchedulerInv

LEMMA RunnerGatheredKeeps ==
  ASSUME SchedulerInv, NEW t \in Tasks, RunnerGathered(t) PROVE SchedulerInv'
<1>1. /\ runner[t] = "gather" /\ \A i \in ItemsOf(t) : Ended(i)
      /\ worker' = [i \in Items |-> IF i \in ItemsOf(t) THEN "none" ELSE worker[i]]
      /\ UNCHANGED <<row, item, op, want, target, chosen, process, fault>>
  BY DEF RunnerGathered
<1>2. Typed
  BY DEF SchedulerInv
<1> DEFINE some(s) == \E i \in ItemsOf(t) : worker[i] = s
<1>3. \/ /\ process = "cancelled" /\ runner' = [runner EXCEPT ![t] = "ended"]
         /\ reason' = [reason EXCEPT ![t] = "none"] /\ UNCHANGED <<final, lock>>
      \/ /\ process # "cancelled" /\ runner' = [runner EXCEPT ![t] = "final"]
         /\ lock' = Append(lock, Runner(t))
         /\ reason' = [reason EXCEPT ![t] = IF some("paused") THEN "none" ELSE @]
         /\ final' = [final EXCEPT ![t] =
                   CASE some("paused") ->
                          Row("PAUSED", IF reason[t] = "none" THEN "user" ELSE reason[t])
                     [] ~some("paused") /\ want[t] # {} -> Row("recompute", "none")
                     [] ~some("paused") /\ want[t] = {} /\ some("failed") ->
                          Row("PARTIAL_FAILURE", "none")
                     [] OTHER -> Row("COMPLETED", "none")]
  BY DEF RunnerGathered
<1> HIDE DEF some
<1>4. reason' \in [Tasks -> Reasons] /\ runner' \in [Tasks -> RunnerStates]
  BY <1>2, <1>3 DEF Typed, Reasons, RunnerStates
<1>5. process # "cancelled" =>
        \E s \in {"PAUSED", "PARTIAL_FAILURE", "COMPLETED", "recompute"} : \E w \in Reasons :
          final' = [final EXCEPT ![t] = Row(s, w)]
  <2> SUFFICES ASSUME process # "cancelled"
               PROVE  \E s \in {"PAUSED", "PARTIAL_FAILURE", "COMPLETED", "recompute"} :
                        \E w \in Reasons : final' = [final EXCEPT ![t] = Row(s, w)]
    OBVIOUS
  <2>1. "none" \in Reasons /\ (IF reason[t] = "none" THEN "user" ELSE reason[t]) \in Reasons
    BY <1>2 DEF Typed, Reasons
  <2>2. CASE some("paused")
    <3>1. final' = [final EXCEPT ![t] =
           Row("PAUSED", IF reason[t] = "none" THEN "user" ELSE reason[t])]
      BY <1>3, <2>2
    <3> QED  BY <2>1, <3>1
  <2>3. CASE ~some("paused")
    <3>1. \/ final' = [final EXCEPT ![t] = Row("recompute", "none")]
          \/ final' = [final EXCEPT ![t] = Row("PARTIAL_FAILURE", "none")]
          \/ final' = [final EXCEPT ![t] = Row("COMPLETED", "none")]
      <4>1. CASE want[t] # {}
        BY <1>3, <2>3, <4>1
      <4>2. CASE want[t] = {} /\ some("failed")
        BY <1>3, <2>3, <4>2
      <4>3. CASE want[t] = {} /\ ~some("failed")
        BY <1>3, <2>3, <4>3
      <4> QED  BY <4>1, <4>2, <4>3
    <3> QED  BY <2>1, <3>1
  <2> QED  BY <2>2, <2>3
<1>6. final' \in [Tasks -> Marks]
  BY <1>2, <1>3, <1>5 DEF Typed, Row, Marks, Statuses
<1>7. worker' \in [Items -> WorkerStates]
  BY <1>1, <1>2 DEF Typed, WorkerStates
<1>8. Typed'
  BY <1>1, <1>2, <1>4, <1>6, <1>7 DEF Typed
<1>9. ASSUME Sane' PROVE Together'
  <2>1. Together /\ process # "cancelled"
    BY <1>1, <1>9 DEF SchedulerInv, Sane
  <2>2. Behind(lock')
    BY <1>3, <2>1, CallersAre, Joining
  <2>3. lock' \in Seq(Callers) /\ Keyed(lock', op')
    BY <1>1, <2>1, <2>2, LockStays DEF Together
  <2>4. /\ \A u \in Tasks : u # t => runner'[u] = runner[u] /\ final'[u] = final[u]
        /\ runner'[t] = "final"
        /\ final'[t].status \in {"PAUSED", "PARTIAL_FAILURE", "COMPLETED", "recompute"}
    BY <1>2, <1>3, <1>5, <2>1 DEF Typed, Row
  <2>5. Seated' /\ Rows' /\ Finals'
    BY <1>1, <2>1, <2>4 DEF Together, Seated, Rows, Finals
  <2>6. Gathered'
    BY <1>1, <2>1, <2>4 DEF Together, Gathered, Items, ItemsOf
  <2>7. Written'
    <3>1. \A i \in ItemsOf(t) : worker[i] \notin Writing
      BY <1>1 DEF Ended, Writing
    <3> QED  BY <1>1, <2>1, <3>1 DEF Together, Written
  <2> QED  BY <1>1, <2>1, <2>3, <2>5, <2>6, <2>7 DEF Together, Selected
<1> QED  BY <1>8, <1>9 DEF SchedulerInv

(* No item of a task is left as downloading once its runner has gathered.   *)
LEMMA NoneIsWriting ==
  ASSUME Together, NEW t \in Tasks, runner[t] # "gather", NEW i \in ItemsOf(t)
  PROVE  item[i] \notin {"DOWNLOADING", "WAITING_RETRY"}
BY DEF Together, Written, Gathered, ItemsOf, Writing

LEMMA RunnerWritesKeeps ==
  ASSUME SchedulerInv, NEW t \in Tasks, RunnerWrites(t) PROVE SchedulerInv'
<1> DEFINE r == IF final[t].status = "recompute" THEN Recomputed(t, item) ELSE final[t]
<1>1. /\ Turn(Runner(t)) /\ runner[t] = "final" /\ Leaves(<<>>)
      /\ row' = [row EXCEPT ![t] = r]
      /\ final' = [final EXCEPT ![t] = Row("none", "none")]
      /\ reason' = [reason EXCEPT ![t] = "none"]
      /\ runner' = [runner EXCEPT ![t] = "ended"]
      /\ UNCHANGED <<item, op, want, worker, target, chosen, process, fault>>
  BY DEF RunnerWrites
<1>2. Typed
  BY DEF SchedulerInv
<1> HIDE DEF r
<1>3. /\ final' \in [Tasks -> Marks]
      /\ reason' \in [Tasks -> Reasons] /\ runner' \in [Tasks -> RunnerStates]
  BY <1>1, <1>2 DEF Typed, Row, Marks, Statuses, Reasons, RunnerStates
<1>4. r \in Marks
  BY <1>2, RecomputedIs DEF r, Typed
<1>5. Typed'
  BY <1>1, <1>2, <1>3, <1>4 DEF Typed
<1>6. ASSUME Sane' PROVE Together'
  <2>1. Together
    BY <1>1, <1>6 DEF SchedulerInv, Sane
  <2>2. Behind(lock')
    BY <1>1, Leaving
  <2>3. lock' \in Seq(Callers) /\ Keyed(lock', op')
    BY <1>1, <2>1, <2>2, LockStays DEF Together
  <2>4. /\ \A u \in Tasks : u # t => runner'[u] = runner[u] /\ final'[u] = final[u] /\ row'[u] = row[u]
        /\ runner'[t] = "ended" /\ row'[t] = r
    BY <1>1, <1>2 DEF Typed
  <2>5. r.status \notin {"DOWNLOADING", "WAITING_RETRY"}
    <3>1. CASE final[t].status = "recompute"
      BY <3>1, <1>1, <2>1, RecomputedIs, NoneIsWriting DEF r
    <3>2. CASE final[t].status # "recompute"
      BY <3>2, <1>1, <2>1 DEF r, Together, Finals
    <3> QED  BY <3>1, <3>2
  <2>6. Seated' /\ Rows' /\ Finals'
    BY <1>1, <2>1, <2>4, <2>5 DEF Together, Seated, Rows, Finals
  <2>7. Gathered'
    BY <1>1, <2>1, <2>4 DEF Together, Gathered, Items
  <2> QED  BY <1>1, <2>1, <2>3, <2>6, <2>7 DEF Together, Selected, Written
<1> QED  BY <1>5, <1>6 DEF SchedulerInv

(* Verification and repair write one item and its task's row.               *)
LEMMA MendKeeps ==
  ASSUME SchedulerInv,
         NEW s \in {"QUEUED", "FAILED", "COMPLETED", item[target]},
         item' = [item EXCEPT ![target] = s],
         NEW r \in Marks, row' = [row EXCEPT ![target[1]] = r],
         r = row[target[1]] \/ r = Row("PARTIAL_FAILURE", "none") \/ r = Recomputed(target[1], item'),
         Behind(lock'),
         UNCHANGED <<op, want, reason, runner, final, worker, target, chosen, process, fault>>
  PROVE  SchedulerInv'
<1>1. Typed /\ target[1] \in Tasks /\ target \in ItemsOf(target[1])
  BY DEF SchedulerInv, Typed, Items, ItemsOf
<1>2. s \in ItemStatuses
  BY <1>1 DEF Typed, ItemStatuses
<1>3. Typed'
  BY <1>1, <1>2 DEF Typed
<1>4. ASSUME Sane' PROVE Together'
  <2>1. Together
    BY <1>4 DEF SchedulerInv, Sane
  <2>2. lock' \in Seq(Callers) /\ Keyed(lock', op')
    BY <2>1, LockStays DEF Together
  <2>3. \A i \in Items : item'[i] \in {"DOWNLOADING", "WAITING_RETRY"} =>
                           item[i] \in {"DOWNLOADING", "WAITING_RETRY"}
    BY <1>1 DEF Typed
  <2>4. Written'
    BY <2>1, <2>3 DEF Together, Written
  <2>5. \A i \in Items : item'[i] \in {"DOWNLOADING", "WAITING_RETRY"} => runner[i[1]] = "gather"
    BY <2>1, <2>4 DEF Together, Gathered, Written, Writing
  <2>6. r.status \in {"DOWNLOADING", "WAITING_RETRY"} => runner[target[1]] \in {"list", "gather", "final"}
    <3>1. CASE r = row[target[1]]
      BY <3>1, <1>1, <2>1 DEF Together, Rows
    <3>2. CASE r = Row("PARTIAL_FAILURE", "none")
      BY <3>2 DEF Row
    <3>3. CASE r = Recomputed(target[1], item')
      <4>1. r.status \in {"DOWNLOADING", "WAITING_RETRY"} =>
              \E i \in ItemsOf(target[1]) : item'[i] \in {"DOWNLOADING", "WAITING_RETRY"}
        BY <3>3, RecomputedIs
      <4> QED  BY <4>1, <2>5 DEF ItemsOf
    <3> QED  BY <3>1, <3>2, <3>3
  <2>7. Rows'
    BY <1>1, <2>1, <2>6 DEF Together, Rows, Typed
  <2> QED  BY <2>1, <2>2, <2>4, <2>7 DEF Together, Seated, Selected, Gathered, Finals
<1> QED  BY <1>3, <1>4 DEF SchedulerInv

LEMMA MendSteps ==
  ASSUME SchedulerInv, VerifyEnds \/ RepairPrepares \/ RepairRecomputes PROVE SchedulerInv'
<1>1. Typed /\ item = [item EXCEPT ![target] = item[target]]
      /\ row = [row EXCEPT ![target[1]] = row[target[1]]] /\ row[target[1]] \in Marks
  BY DEF SchedulerInv, Typed, Items
<1>2. Row("PARTIAL_FAILURE", "none") \in Marks /\ \A it : Recomputed(target[1], it) \in Marks
  BY RecomputedIs DEF Row, Marks, Statuses, Reasons
<1>3. CASE VerifyEnds
  <2>1. UNCHANGED <<memory, coroutines, lock, schedule, target, life>>
    BY <1>3 DEF VerifyEnds
  <2>2. Behind(lock')
    BY <2>1 DEF Behind
  <2>3. CASE /\ item' = [item EXCEPT ![target] = "FAILED"]
             /\ row' = [row EXCEPT ![target[1]] = Row("PARTIAL_FAILURE", "none")]
    BY <2>1, <2>2, <2>3, <1>2, MendKeeps
  <2>4. CASE /\ item' = [item EXCEPT ![target] = "COMPLETED"]
             /\ row' = [row EXCEPT ![target[1]] = Recomputed(target[1], item')]
    BY <2>1, <2>2, <2>4, <1>2, MendKeeps
  <2> QED  BY <1>3, <2>3, <2>4 DEF VerifyEnds
<1>4. CASE RepairPrepares
  <2>1. UNCHANGED <<memory, coroutines, lock, schedule, target, life>>
    BY <1>4 DEF RepairPrepares
  <2>2. Behind(lock')
    BY <2>1 DEF Behind
  <2>3. CASE /\ item' = [item EXCEPT ![target] = "QUEUED"]
             /\ row' = [row EXCEPT ![target[1]] = Recomputed(target[1], item')]
    BY <2>1, <2>2, <2>3, <1>2, MendKeeps
  <2>4. CASE UNCHANGED db
    <3>1. item' = [item EXCEPT ![target] = item[target]] /\ row' = [row EXCEPT ![target[1]] = row[target[1]]]
      BY <2>4, <1>1
    <3> QED  BY <2>1, <2>2, <3>1, <1>1, MendKeeps
  <2> QED  BY <1>4, <2>3, <2>4 DEF RepairPrepares
<1>5. CASE RepairRecomputes
  <2>1. /\ row' = [row EXCEPT ![target[1]] = Recomputed(target[1], item)] /\ item' = item
        /\ UNCHANGED <<memory, coroutines, schedule, target, life>>
    BY <1>5 DEF RepairRecomputes
  <2>2. Behind(lock')
    BY <1>5, Leaving DEF RepairRecomputes
  <2>3. item' = [item EXCEPT ![target] = item[target]]
    BY <1>1, <2>1
  <2> QED  BY <2>1, <2>2, <2>3, <1>2, MendKeeps
<1> QED  BY <1>3, <1>4, <1>5

(* A repair queues its own operation, if the task has none.                 *)
LEMMA RepairQueuesKeeps ==
  ASSUME SchedulerInv, RepairQueues, NEW l,
         Together => l \in Seq(Callers) /\ Keyed(l, op),
         op[target[1]] = "none" => \/ lock' = Append(l, Dispatcher(target[1]))
                                   \/ lock' = l \o <<Dispatcher(target[1])>>,
         op[target[1]] # "none" /\ Together => lock' \in Seq(Callers) /\ Keyed(lock', op),
         UNCHANGED <<row, item, reason, runner, final, worker, target, chosen, process, fault>>
  PROVE  SchedulerInv'
<1> DEFINE t == target[1]
<1>1. Typed /\ t \in Tasks /\ target \in ItemsOf(t)
  BY DEF SchedulerInv, Typed, Items, ItemsOf
<1>2. \/ /\ op[t] = "none" /\ op' = [op EXCEPT ![t] = "dispatch"]
         /\ want' = [want EXCEPT ![t] = {target}]
      \/ op[t] # "none" /\ UNCHANGED <<op, want>>
  BY DEF RepairQueues
<1>3. op' \in [Tasks -> OpStates] /\ want' \in [Tasks -> SUBSET Items]
  BY <1>1, <1>2 DEF Typed, OpStates
<1>4. Typed'
  BY <1>1, <1>3 DEF Typed
<1>5. ASSUME Sane' PROVE Together'
  <2>1. Together
    BY <1>5 DEF SchedulerInv, Sane
  <2>2. lock' \in Seq(Callers) /\ Keyed(lock', op')
    <3>1. CASE op[t] # "none"
      BY <3>1, <1>2, <2>1
    <3>2. CASE op[t] = "none"
      <4> DEFINE q == <<Dispatcher(t)>>
      <4>1. l \in Seq(Callers) /\ Keyed(l, op)
        BY <2>1
      <4>2. lock' = l \o q
        <5>1. CASE lock' = Append(l, Dispatcher(t))
          BY <5>1, <4>1, AppendIsConcat
        <5> QED  BY <3>2, <5>1
      <4>3. \A u \in Tasks : op[u] = "dispatch" => op'[u] = "dispatch"
        BY <1>1, <1>2 DEF Typed
      <4>4. Keyed(l, op')
        BY <4>1, <4>3, KeyedOther
      <4>5. q \in Seq(Callers) /\ DOMAIN q = {1} /\ q[1] = Dispatcher(t)
        BY <1>1, CallersAre
      <4>6. \A u \in Tasks : Dispatcher(u) = Dispatcher(t) => u = t
        BY DEF Dispatcher
      <4>7. op'[t] = "dispatch"
        BY <1>1, <1>2, <3>2 DEF Typed
      <4>8. Keyed(q, op')
        BY <4>5, <4>6, <4>7 DEF Keyed
      <4>9. \A u \in Tasks : ~(Among(Dispatcher(u), l) /\ Among(Dispatcher(u), q))
        BY <3>2, <4>1, <4>5, <4>6 DEF Among, Keyed
      <4> HIDE DEF q
      <4> QED  BY <4>1, <4>2, <4>4, <4>5, <4>8, <4>9, KeyedJoin
    <3> QED  BY <3>1, <3>2
  <2>3. Seated'
    BY <1>1, <1>2, <2>1 DEF Together, Seated, Typed
  <2>4. Selected'
    BY <1>1, <1>2, <2>1 DEF Together, Selected, Typed
  <2> QED  BY <2>1, <2>2, <2>3, <2>4 DEF Together, Gathered, Written, Rows, Finals
<1> QED  BY <1>4, <1>5 DEF SchedulerInv

LEMMA RepairSteps ==
  ASSUME SchedulerInv, RepairRuns \/ RepairChecks PROVE SchedulerInv'
<1>1. CASE RepairRuns
  <2>1. UNCHANGED <<row, item, reason, runner, final, worker, target, chosen, process, fault>>
    BY <1>1 DEF RepairRuns
  <2>2. Together => lock \in Seq(Callers) /\ Keyed(lock, op)
    BY DEF Together
  <2>3. CASE op[target[1]] = "none"
    <3>1. RepairQueues /\ lock' = Append(lock, Dispatcher(target[1]))
      BY <1>1, <2>3 DEF RepairRuns
    <3> QED  BY <2>1, <2>2, <2>3, <3>1, RepairQueuesKeeps
  <2>4. CASE op[target[1]] # "none"
    <3>1. UNCHANGED <<op, want, lock>>
      BY <1>1, <2>4 DEF RepairRuns
    <3>2. /\ reason' \in [Tasks -> Reasons] /\ target' \in Items /\ chosen' \in SUBSET Tasks
          /\ Behind(lock')
      BY <2>1, <3>1 DEF SchedulerInv, Typed, Behind
    <3> QED  BY <2>1, <3>1, <3>2, QuietKeeps
  <2> QED  BY <2>3, <2>4
<1>2. CASE RepairChecks
  <2>1. /\ Turn(Repairer)
        /\ UNCHANGED <<row, item, reason, runner, final, worker, target, chosen, process, fault>>
    BY <1>2 DEF RepairChecks
  <2>2. Together => /\ Tail(lock) \in Seq(Callers) /\ Keyed(Tail(lock), op)
                    /\ Tail(lock) \o <<>> \in Seq(Callers) /\ Keyed(Tail(lock) \o <<>>, op)
    BY <2>1, KeyedTail, KeyedLeaves DEF Together, Turn
  <2>3. CASE item[target] = "QUEUED"
    <3>1. /\ RepairQueues
          /\ Leaves(IF op[target[1]] = "none" THEN <<Dispatcher(target[1])>> ELSE <<>>)
      BY <1>2, <2>3 DEF RepairChecks
    <3> QED  BY <2>1, <2>2, <3>1, RepairQueuesKeeps DEF Leaves
  <2>4. CASE item[target] # "QUEUED"
    <3>1. UNCHANGED <<op, want>> /\ (Leaves(<<>>) \/ Leaves(<<Repairer>>))
      BY <1>2, <2>4 DEF RepairChecks
    <3>2. Behind(lock')
      BY <2>1, <3>1, CallersAre, Leaving
    <3>3. reason' \in [Tasks -> Reasons] /\ target' \in Items /\ chosen' \in SUBSET Tasks
      BY <2>1 DEF SchedulerInv, Typed
    <3> QED  BY <2>1, <3>1, <3>2, <3>3, QuietKeeps
  <2> QED  BY <2>3, <2>4
<1> QED  BY <1>1, <1>2

LEMMA CommandFailsKeeps == ASSUME SchedulerInv, CommandFails PROVE SchedulerInv'
<1>1. /\ fault' = TRUE
      /\ UNCHANGED <<row, item, want, final, target, chosen, process>>
      /\ \E hit : op' = [u \in Tasks |-> IF u \in hit THEN "none" ELSE op[u]]
      /\ \/ worker' = worker
         \/ \E i : worker' = [worker EXCEPT ![i] = "raised"]
      /\ \/ UNCHANGED <<runner, reason>>
         \/ \E t : /\ runner' = [runner EXCEPT ![t] = "raised"]
                   /\ reason' = [reason EXCEPT ![t] = "none"]
  <2> DEFINE kind == lock[1][1]
             t == lock[1][2]
             hit == {u \in Tasks : \/ (op[u] = "pending" /\ ~fault)
                                   \/ (kind = "dispatch" /\ u = t)}
             raises == kind = "run" \/ (kind = "item" /\ runner[t] = "gather")
  <2>1. /\ fault' = TRUE
        /\ UNCHANGED <<row, item, want, final, target, chosen, process>>
    BY DEF CommandFails, HandleFault
  <2>2. /\ op' = [u \in Tasks |-> IF u \in hit THEN "none" ELSE op[u]]
        /\ worker' = IF kind = "item" THEN [worker EXCEPT ![<<t, lock[1][3]>>] = "raised"] ELSE worker
        /\ runner' = IF raises THEN [runner EXCEPT ![t] = "raised"] ELSE runner
        /\ reason' = IF raises THEN [reason EXCEPT ![t] = "none"] ELSE reason
    BY DEF CommandFails
  <2> HIDE DEF kind, t, hit, raises
  <2>3. worker' = worker \/ \E i : worker' = [worker EXCEPT ![i] = "raised"]
    BY <2>2
  <2>4. \/ UNCHANGED <<runner, reason>>
        \/ \E u : /\ runner' = [runner EXCEPT ![u] = "raised"]
                  /\ reason' = [reason EXCEPT ![u] = "none"]
    BY <2>2
  <2> QED  BY <2>1, <2>2, <2>3, <2>4
<1>2. Typed
  BY DEF SchedulerInv
<1>3. op' \in [Tasks -> OpStates] /\ worker' \in [Items -> WorkerStates]
  BY <1>1, <1>2 DEF Typed, OpStates, WorkerStates
<1>4. runner' \in [Tasks -> RunnerStates] /\ reason' \in [Tasks -> Reasons]
  BY <1>1, <1>2 DEF Typed, RunnerStates, Reasons
<1>5. Typed'
  BY <1>1, <1>2, <1>3, <1>4 DEF Typed
<1> QED  BY <1>1, <1>5 DEF SchedulerInv, Sane

LEMMA ShutdownKeeps == ASSUME SchedulerInv, Shutdown PROVE SchedulerInv'
<1>1. /\ process = "up" /\ process' = "grace"
      /\ op' = [t \in Tasks |-> IF t \in Active THEN "active" ELSE "none"]
      /\ Completes(Tasks \ Active)
      /\ \E kept \in Ascending({k \in DOMAIN lock : lock[k][1] # "dispatch"}) :
           lock' = [k \in DOMAIN kept |-> lock[kept[k]]]
      /\ UNCHANGED <<row, item, reason, want, runner, final, worker, target, fault>>
  BY DEF Shutdown
<1>2. Typed
  BY DEF SchedulerInv
<1>3. Typed'
  <2>1. chosen' \in SUBSET Tasks
    BY <1>1, <1>2, CompletesIs
  <2>2. op' \in [Tasks -> OpStates]
    BY <1>1 DEF OpStates
  <2> QED  BY <1>1, <1>2, <2>1, <2>2 DEF Typed
<1>4. ASSUME Sane' PROVE Together'
  <2>1. Together
    BY <1>1, <1>4 DEF SchedulerInv, Sane
  <2>2. PICK kept \in Ascending({k \in DOMAIN lock : lock[k][1] # "dispatch"}) :
           lock' = [k \in DOMAIN kept |-> lock[kept[k]]]
    BY <1>1
  <2>3. lock' \in Seq(Callers) /\ Keyed(lock', op')
    BY <2>1, <2>2, KeylessKept DEF Together
  <2>4. Seated'
    BY <1>1, <2>1 DEF Together, Seated, Active
  <2> QED  BY <1>1, <2>1, <2>3, <2>4 DEF Together, Selected, Gathered, Written, Rows, Finals
<1> QED  BY <1>3, <1>4 DEF SchedulerInv

LEMMA EndKeeps == ASSUME SchedulerInv, GraceEnds \/ Exits \/ Crashes PROVE SchedulerInv'
<1>1. Typed
  BY DEF SchedulerInv
<1>2. CASE GraceEnds
  <2>1. /\ process' = "cancelled"
        /\ UNCHANGED <<row, item, op, want, final, target, chosen, fault>>
    BY <1>2 DEF GraceEnds
  <2>2. worker' \in [Items -> WorkerStates]
    BY <1>1, <1>2 DEF GraceEnds, Typed, WorkerStates, Writing
  <2>3. runner' \in [Tasks -> RunnerStates] /\ reason' \in [Tasks -> Reasons]
    BY <1>1, <1>2 DEF GraceEnds, Typed, RunnerStates, Reasons
  <2>4. Typed'
    BY <1>1, <2>1, <2>2, <2>3 DEF Typed
  <2> QED  BY <2>1, <2>4 DEF SchedulerInv, Sane
<1>3. CASE Exits \/ Crashes
  <2>1. process' = "gone" /\ UNCHANGED <<db, memory, coroutines, schedule, integrity, fault>>
    BY <1>3 DEF Exits, Crashes, Gone
  <2>2. Typed'
    BY <1>1, <2>1 DEF Typed
  <2> QED  BY <2>1, <2>2 DEF SchedulerInv, Sane
<1> QED  BY <1>2, <1>3

(* A process begins with nothing in the lock but the first refresh.         *)
LEMMA FirstLock ==
  ASSUME NEW open, NEW o
  PROVE  Memory(open).lock \in Seq(Callers) /\ Keyed(Memory(open).lock, o)
<1>1. Memory(open).lock \in {<<>>, <<Refresher>>}
  BY DEF Memory
<1>2. <<Refresher>> \in Seq(Callers) /\ Keyed(<<Refresher>>, o)
  BY CallersAre DEF Keyed, Keyless
<1>3. <<>> \in Seq(Callers) /\ Keyed(<<>>, o)
  BY DEF Keyed
<1> QED  BY <1>1, <1>2, <1>3

LEMMA MemoryIs == 
  ASSUME NEW open
  PROVE  /\ Memory(open).reason = [t \in Tasks |-> "none"]
         /\ Memory(open).op = [t \in Tasks |-> "none"]
         /\ Memory(open).want = [t \in Tasks |-> {}]
         /\ Memory(open).runner = [t \in Tasks |-> "none"]
         /\ Memory(open).final = [t \in Tasks |-> Row("none", "none")]
         /\ Memory(open).worker = [i \in Items |-> "none"]
BY DEF Memory

LEMMA RestartKeeps == ASSUME SchedulerInv, Restart PROVE SchedulerInv'
<1> DEFINE m == Memory(window)
<1>1. /\ row' = [t \in Tasks |-> RecoveredRow(row[t])]
      /\ item' = [i \in Items |-> RecoveredItem(item[i])]
      /\ reason' = m.reason /\ op' = m.op /\ want' = m.want /\ runner' = m.runner
      /\ final' = m.final /\ worker' = m.worker /\ lock' = m.lock
      /\ chosen' = {} /\ fault' = FALSE /\ process' = "up" /\ target' = target
  BY DEF Restart
<1>2. /\ reason' = [t \in Tasks |-> "none"] /\ op' = [t \in Tasks |-> "none"]
      /\ want' = [t \in Tasks |-> {}] /\ runner' = [t \in Tasks |-> "none"]
      /\ final' = [t \in Tasks |-> Row("none", "none")] /\ worker' = [i \in Items |-> "none"]
  BY <1>1, MemoryIs
<1>3. Typed
  BY DEF SchedulerInv
<1>4. Row("none", "none") \in Marks /\ Row("QUEUED", "none") \in Marks
  BY DEF Row, Marks, Statuses, Reasons
<1>5. Typed'
  <2>1. row' \in [Tasks -> Marks]
    BY <1>1, <1>3, <1>4 DEF Typed, RecoveredRow
  <2>2. item' \in [Items -> ItemStatuses]
    BY <1>1, <1>3 DEF Typed, RecoveredItem, ItemStatuses
  <2>3. /\ final' \in [Tasks -> Marks] /\ op' \in [Tasks -> OpStates]
        /\ runner' \in [Tasks -> RunnerStates] /\ worker' \in [Items -> WorkerStates]
        /\ reason' \in [Tasks -> Reasons] /\ want' \in [Tasks -> SUBSET Items]
    BY <1>2, <1>4 DEF OpStates, RunnerStates, WorkerStates, Reasons
  <2> QED  BY <1>1, <1>3, <2>1, <2>2, <2>3 DEF Typed
<1>6. lock' \in Seq(Callers) /\ Keyed(lock', op')
  BY <1>1, FirstLock
<1>7. Seated' /\ Selected' /\ Gathered' /\ Finals'
  BY <1>2 DEF Seated, Selected, Gathered, Finals, Items
<1>8. Written' /\ Rows'
  BY <1>1 DEF Written, Rows, RecoveredRow, RecoveredItem, Row
<1> QED  BY <1>5, <1>6, <1>7, <1>8 DEF SchedulerInv, Together

LEMMA SchedulerInit == Init => SchedulerInv
<1> SUFFICES ASSUME Init PROVE SchedulerInv
  OBVIOUS
<1> DEFINE m == Memory(TRUE)
<1>1. /\ reason = [t \in Tasks |-> "none"] /\ op = [t \in Tasks |-> "none"]
      /\ want = [t \in Tasks |-> {}] /\ runner = [t \in Tasks |-> "none"]
      /\ final = [t \in Tasks |-> Row("none", "none")] /\ worker = [i \in Items |-> "none"]
  BY MemoryIs DEF Init
<1>2. /\ row \in [Tasks -> {Row("QUEUED", "none"), Row("PAUSED", "schedule")}]
      /\ item = [i \in Items |-> IF row[i[1]].status = "PAUSED" THEN "PAUSED" ELSE "QUEUED"]
      /\ chosen = {} /\ process = "up" /\ fault = FALSE /\ target \in Items /\ lock = m.lock
  BY DEF Init
<1>3. /\ Row("none", "none") \in Marks /\ Row("QUEUED", "none") \in Marks
      /\ Row("PAUSED", "schedule") \in Marks
  BY DEF Row, Marks, Statuses, Reasons
<1>4. Typed
  <2>1. row \in [Tasks -> Marks] /\ item \in [Items -> ItemStatuses]
    BY <1>2, <1>3 DEF ItemStatuses
  <2>2. /\ final \in [Tasks -> Marks] /\ op \in [Tasks -> OpStates]
        /\ runner \in [Tasks -> RunnerStates] /\ worker \in [Items -> WorkerStates]
        /\ reason \in [Tasks -> Reasons] /\ want \in [Tasks -> SUBSET Items]
    BY <1>1, <1>3 DEF OpStates, RunnerStates, WorkerStates, Reasons
  <2> QED  BY <1>2, <2>1, <2>2 DEF Typed
<1>5. lock \in Seq(Callers) /\ Keyed(lock, op)
  BY <1>2, FirstLock
<1>6. Seated /\ Selected /\ Gathered /\ Finals
  BY <1>1 DEF Seated, Selected, Gathered, Finals, Items
<1>7. Written /\ Rows
  BY <1>2 DEF Written, Rows, Row
<1> QED  BY <1>4, <1>5, <1>6, <1>7 DEF SchedulerInv, Together

LEMMA SchedulerStep == ASSUME SchedulerInv, [Next]_vars PROVE SchedulerInv'
<1>1. CASE \E t \in Tasks : \/ CallPause(t) \/ Pause(t) \/ CallResume(t) \/ Resume(t)
                            \/ Dispatch(t) \/ RunnerStep(t)
  BY <1>1, CallPauseKeeps, PauseKeeps, QuietSteps, ResumeSteps, DispatchKeeps, RunSteps,
     RunnerDownloadingKeeps, RunnerListsKeeps, RunnerGatheredKeeps, RunnerWritesKeeps,
     FinishOperationKeeps DEF RunnerStep
<1>2. CASE \E i \in Items : WorkerStep(i) \/ Chunk(i) \/ DownloadEnds(i) \/ VerifyStarts(i)
  BY <1>2, WorkSteps, QuietSteps
<1>3. CASE Edge \/ RefreshStep
  BY <1>3, QuietSteps, RefreshOpensKeeps, ResumeSteps DEF RefreshStep
<1>4. CASE RepairStep
  BY <1>4, QuietSteps, MendSteps, RepairSteps DEF RepairStep
<1>5. CASE CommandFails \/ Shutdown \/ GraceEnds \/ Exits \/ Crashes \/ RestoreQueue
  BY <1>5, CommandFailsKeeps, ShutdownKeeps, EndKeeps, RestoreQueueKeeps
<1>6. CASE Restart \/ UNCHANGED vars
  BY <1>6, RestartKeeps, QuietSteps
<1> QED  BY <1>1, <1>2, <1>3, <1>4, <1>5, <1>6 DEF Next

LEMMA SchedulerPromised == SchedulerInv => NoZombie
<1> SUFFICES ASSUME SchedulerInv, Healthy PROVE NoZombie
  BY DEF NoZombie, NothingOutlivesItsOperation, NoZombieRow
<1>1. Together
  BY DEF SchedulerInv, Sane, Healthy
<1> QED  BY <1>1 DEF Together, Seated, Gathered, Rows, NoZombie, NothingOutlivesItsOperation,
                     NoZombieRow, ItemsOf

(* Rows, operations and coroutines end together.                            *)
THEOREM NothingIsLeftBehind == Spec => []NoZombie
<1>1. SchedulerInv /\ [Next]_vars => SchedulerInv'
  BY SchedulerStep
<1> QED  BY SchedulerInit, <1>1, SchedulerPromised, PTL DEF Spec

-----------------------------------------------------------------------------
(* Without repairs: what the rows of a task's items say of its own row.     *)
Unrepaired == repair = "idle" /\ \A t \in Tasks : want[t] = {}

(* The results of the coroutines are the rows of their items; the end of    *)
(* the grace may write over one.                                            *)
Results == \A i \in Items :
  /\ worker[i] \in {"completed", "confirming"} => item[i] = "COMPLETED"
  /\ i \in cut => \/ worker[i] = "none"
                  \/ process = "cancelled" /\ worker[i] \in {"pausing", "paused"}
  /\ worker[i] \notin {"none", "completed", "confirming", "raised"} =>
       item[i] # "COMPLETED" \/ i \in cut

(* An item that counts for its task.                                        *)
Counts(i) == item[i] = "COMPLETED" \/ (i \in cut /\ item[i] = "PAUSED")

(* What is gathered, or about to be written, is what the rows say.          *)
Decided ==
  /\ \A i \in Items : /\ worker[i] # "raised"
                      /\ runner[i[1]] = "gather" /\ worker[i] = "none" => item[i] = "COMPLETED"
  /\ \A t \in Tasks : runner[t] = "final" =>
       /\ final[t].status # "recompute"
       /\ final[t].status = "COMPLETED" => \A i \in ItemsOf(t) : item[i] = "COMPLETED"

(* A runner that was cancelled writes no more.                              *)
Halted == \A t \in Tasks : runner[t] \in {"none", "gather", "ended", "raised"}

(* A task whose items are about to be listed counts as downloading.         *)
Listing == \A t \in Tasks : runner[t] = "list" => row[t].status # "COMPLETED"

WholeInv ==
  /\ CompletedMeansAll
  /\ Unrepaired
  /\ Listing
  /\ ~fault /\ process # "gone" => Results
  /\ Sane => Decided
  /\ ~fault /\ process = "cancelled" => Halted

(* Steps of the queue, which change no item and complete no row.            *)
LEMMA WholeQuiet ==
  ASSUME WholeInv, UNCHANGED <<item, final, worker, process, fault, cut>>,
         Unrepaired', \A t \in Tasks : row'[t].status = "COMPLETED" => row[t].status = "COMPLETED",
         \A t \in Tasks : \/ runner'[t] = runner[t]
                          \/ /\ runner'[t] \notin {"gather", "final"}
                             /\ runner'[t] = "list" => row'[t].status # "COMPLETED"
                             /\ ~fault /\ process = "cancelled" =>
                                  runner'[t] \in {"none", "ended", "raised"}
  PROVE  WholeInv'
<1>1. CompletedMeansAll' /\ Listing'
  BY DEF WholeInv, CompletedMeansAll, Listing
<1>2. Results => Results'
  BY DEF Results
<1>3. Decided => Decided'
  BY DEF Decided, Items
<1>4. ~fault /\ process = "cancelled" /\ Halted => Halted'
  BY DEF Halted
<1> QED  BY <1>1, <1>2, <1>3, <1>4 DEF WholeInv, Sane

LEMMA WholeQuietSteps ==
  ASSUME Integrity = FALSE, SchedulerInv, WholeInv,
         \/ \E t \in Tasks : \/ CallPause(t) \/ Pause(t) \/ CallResume(t) \/ Resume(t)
                             \/ Dispatch(t) \/ RunnerBegins(t) \/ RunnerCleared(t)
                             \/ RunnerSelected(t) \/ FinishOperation(t)
         \/ Edge \/ RefreshStep \/ RestoreQueue \/ UNCHANGED vars
  PROVE  WholeInv'
<1>1. repair = "idle" /\ (\A t \in Tasks : want[t] = {}) /\ Typed
  BY DEF WholeInv, Unrepaired, SchedulerInv
<1>2. \A S : Completes(S) => repair' = "idle"
  BY <1>1 DEF Completes
<1>3. \A S : RunTasks(S) => \A t \in Tasks : want'[t] = {}
  BY <1>1 DEF RunTasks
<1>4. \A S : Resumes(S) => /\ \A t \in Tasks : want'[t] = {}
                           /\ \A t \in Tasks : row'[t].status = "COMPLETED" => row[t].status = "COMPLETED"
  BY <1>1, <1>3 DEF Resumes, Row
<1>5. Row("PAUSED", "user").status # "COMPLETED"
  BY DEF Row
<1>6. \A u, t \in Tasks : want[t] = {} /\ (want' = [want EXCEPT ![u] = {}] => want'[t] = {})
  BY <1>1 DEF Typed
<1>7. ASSUME NEW t \in Tasks, CallPause(t) PROVE WholeInv'
  <2>1. /\ repair' = "idle" /\ UNCHANGED <<row, item, want, runner, final, worker, process, fault, cut>>
    BY <1>2, <1>7 DEF CallPause
  <2> QED  BY <1>1, <2>1, WholeQuiet DEF Unrepaired
<1>8. ASSUME NEW t \in Tasks, Pause(t) PROVE WholeInv'
  <2>1. /\ UNCHANGED <<item, want, runner, final, worker, process, fault, cut, repair>>
        /\ \A u \in Tasks : row'[u].status = "COMPLETED" => row[u].status = "COMPLETED"
    BY <1>1, <1>5, <1>8 DEF Pause, Typed
  <2> QED  BY <1>1, <2>1, WholeQuiet DEF Unrepaired
<1>9. ASSUME NEW t \in Tasks, CallResume(t) PROVE WholeInv'
  BY <1>1, <1>9, WholeQuiet DEF CallResume, Unrepaired
<1>10. ASSUME NEW t \in Tasks, Resume(t) PROVE WholeInv'
  <2>1. /\ UNCHANGED <<item, runner, final, worker, process, fault, cut, repair>>
        /\ Resumes(Resumable({t}))
    BY <1>10 DEF Resume
  <2> QED  BY <1>1, <1>4, <2>1, WholeQuiet DEF Unrepaired
<1>11. ASSUME NEW t \in Tasks, Dispatch(t) PROVE WholeInv'
  <2>1. /\ UNCHANGED <<row, item, want, final, worker, process, fault, cut, repair>>
        /\ Admitted([op EXCEPT ![t] = "pending"], admission, runner)
    BY <1>11 DEF Dispatch
  <2>2. \A u \in Tasks : runner'[u] = runner[u] \/ (runner'[u] = "begin" /\ process = "up")
    BY <2>1 DEF Admitted
  <2> QED  BY <1>1, <2>1, <2>2, WholeQuiet DEF Unrepaired
<1>12. ASSUME NEW t \in Tasks, RunnerBegins(t) \/ RunnerCleared(t) \/ RunnerSelected(t) PROVE WholeInv'
  <2>1. /\ UNCHANGED <<row, item, want, final, worker, process, fault, cut, repair>>
        /\ runner[t] \in {"begin", "priority", "selected"}
        /\ \E p \in {"priority", "raised", "downloading", "selected"} : runner' = [runner EXCEPT ![t] = p]
    <3>1. CASE RunnerBegins(t)
      BY <3>1 DEF RunnerBegins
    <3>2. CASE RunnerCleared(t)
      BY <3>2 DEF RunnerCleared
    <3>3. CASE RunnerSelected(t)
      BY <3>3 DEF RunnerSelected
    <3> QED  BY <1>12, <3>1, <3>2, <3>3
  <2>2. ~fault => process # "cancelled"
    BY <2>1 DEF WholeInv, Halted
  <2>3. \A u \in Tasks : runner'[u] = runner[u] \/ runner'[u] \notin {"gather", "final", "list"}
    BY <1>1, <2>1 DEF Typed
  <2> QED  BY <1>1, <2>1, <2>2, <2>3, WholeQuiet DEF Unrepaired
<1>13. ASSUME NEW t \in Tasks, FinishOperation(t) PROVE WholeInv'
  <2>1. /\ UNCHANGED <<row, item, final, worker, process, fault, cut>>
        /\ want' = [want EXCEPT ![t] = {}]
        /\ Admitted([op EXCEPT ![t] = "none"], admission, [runner EXCEPT ![t] = "none"])
    BY <1>13 DEF FinishOperation
  <2>2. repair' = "idle"
    BY <1>1, <1>2, <1>13 DEF FinishOperation
  <2>3. \A u \in Tasks : \/ runner'[u] = runner[u]
                         \/ runner'[u] = "begin" /\ process = "up"
                         \/ runner'[u] = "none"
    BY <1>1, <2>1 DEF Admitted, Typed
  <2>4. Unrepaired'
    BY <1>6, <2>1, <2>2 DEF Unrepaired
  <2> QED  BY <2>1, <2>3, <2>4, WholeQuiet
<1>14. CASE Edge
  BY <1>1, <1>14, WholeQuiet DEF Edge, Unrepaired
<1>15. CASE RefreshStep
  <2>1. CASE RefreshCloses
    BY <1>1, <2>1, WholeQuiet DEF RefreshCloses, Unrepaired
  <2>2. CASE RefreshOpens
    <3>1. /\ UNCHANGED <<row, item, want, final, worker, process, fault, cut, repair>>
          /\ Admitted(op, TRUE, runner)
      BY <2>2 DEF RefreshOpens
    <3>2. \A u \in Tasks : runner'[u] = runner[u] \/ (runner'[u] = "begin" /\ process = "up")
      BY <3>1 DEF Admitted
    <3> QED  BY <1>1, <3>1, <3>2, WholeQuiet DEF Unrepaired
  <2>3. CASE RefreshLists
    BY <1>1, <2>3, WholeQuiet DEF RefreshLists, Unrepaired
  <2>4. CASE RefreshResumes
    <3>1. /\ UNCHANGED <<item, runner, final, worker, process, fault, cut, repair>>
          /\ Resumes(Resumable(chosen))
      BY <2>4 DEF RefreshResumes
    <3> QED  BY <1>1, <1>4, <3>1, WholeQuiet DEF Unrepaired
  <2>5. CASE RefreshReturns
    BY <1>1, <2>5, WholeQuiet DEF RefreshReturns, Unrepaired
  <2> QED  BY <1>15, <2>1, <2>2, <2>3, <2>4, <2>5 DEF RefreshStep
<1>16. CASE RestoreQueue
  <2>1. /\ UNCHANGED <<row, item, runner, final, worker, process, fault, cut, repair>>
        /\ \E S : RunTasks(S)
    BY <1>16 DEF RestoreQueue
  <2> QED  BY <1>1, <1>3, <2>1, WholeQuiet DEF Unrepaired
<1>17. CASE UNCHANGED vars
  BY <1>1, <1>17, WholeQuiet DEF vars, Unrepaired
<1> QED  BY <1>7, <1>8, <1>9, <1>10, <1>11, <1>12, <1>13, <1>14, <1>15, <1>16, <1>17

(* A step of one coroutine: its item is completed with it.                  *)
LEMMA WholeWork ==
  ASSUME SchedulerInv, WholeInv, process # "gone",
         NEW i \in Items, worker[i] \notin {"none", "completed", "paused", "raised"},
         worker'[i] \notin {"none", "raised"},
         \A j \in Items : j # i => worker'[j] = worker[j] /\ item'[j] = item[j],
         \A t \in Tasks : t # i[1] => row'[t] = row[t],
         ~fault => \/ /\ item'[i] = "COMPLETED" /\ worker'[i] \in {"confirming", "completed"}
                      /\ worker[i] # "pausing"
                   \/ /\ item'[i] # "COMPLETED" /\ worker'[i] \notin {"confirming", "completed"}
                      /\ worker[i] # "confirming"
                      /\ worker[i] = "pausing" => item'[i] = "PAUSED" /\ worker'[i] = "paused",
         fault => item'[i] = item[i] /\ row'[i[1]] = row[i[1]],
         \/ row'[i[1]].status # "COMPLETED"
         \/ row'[i[1]] = row[i[1]]
         \/ \A j \in ItemsOf(i[1]) : item'[j] = "COMPLETED",
         UNCHANGED <<want, runner, final, repair, process, fault, cut>>
  PROVE  WholeInv'
<1>1. i[1] \in Tasks /\ i \in ItemsOf(i[1]) /\ \A t \in Tasks : ItemsOf(t) \subseteq Items
  BY DEF Items, ItemsOf
<1>2. ~fault => /\ Results
                /\ i \in cut => worker[i] = "pausing"
                /\ i \notin cut /\ worker[i] # "confirming" => item[i] # "COMPLETED"
  BY DEF WholeInv, Results
<1>3. CompletedMeansAll'
  <2> SUFFICES ASSUME NEW t \in Tasks, row'[t].status = "COMPLETED", NEW j \in ItemsOf(t)
               PROVE  Counts(j)'
    BY DEF CompletedMeansAll, Counts
  <2>1. row[t].status = "COMPLETED" => \A k \in ItemsOf(t) : Counts(k)
    BY DEF WholeInv, CompletedMeansAll, Counts
  <2>2. CASE j # i /\ row'[t] = row[t]
    BY <2>1, <2>2, <1>1 DEF Counts
  <2>3. CASE j = i /\ row'[t] = row[t]
    <3>1. Counts(i)
      BY <2>1, <2>3
    <3>2. CASE fault
      <4>1. item'[i] = item[i]
        BY <3>2
      <4> QED  BY <3>1, <2>3, <4>1 DEF Counts
    <3>3. CASE ~fault /\ item'[i] = "COMPLETED"
      BY <2>3, <3>3 DEF Counts
    <3>4. CASE ~fault /\ item'[i] # "COMPLETED"
      <4>1. worker[i] # "confirming" /\ (worker[i] = "pausing" => item'[i] = "PAUSED")
        BY <3>4
      <4>2. i \in cut
        BY <1>2, <3>1, <3>4, <4>1 DEF Counts
      <4> QED  BY <1>2, <2>3, <3>4, <4>1, <4>2 DEF Counts
    <3> QED  BY <3>2, <3>3, <3>4
  <2>4. CASE row'[t] # row[t]
    <3>1. t = i[1]
      BY <2>4
    <3> QED  BY <2>4, <3>1 DEF Counts
  <2> QED  BY <2>2, <2>3, <2>4
<1>4. ~fault => Results'
  BY <1>2 DEF Results
<1>5. Unrepaired' /\ Listing'
  <2>1. ~fault => runner[i[1]] # "list"
    <3>1. CASE Sane
      BY <3>1 DEF SchedulerInv, Together, Gathered
    <3>2. CASE ~Sane /\ ~fault
      <4>1. process \notin {"up", "grace", "gone"}
        BY <3>2 DEF Sane
      <4> QED  BY <1>1, <4>1, <3>2 DEF SchedulerInv, Typed, WholeInv, Halted
    <3> QED  BY <3>1, <3>2
  <2> QED  BY <1>1, <2>1 DEF WholeInv, Unrepaired, Listing
<1>6. Sane => Decided'
  <2> SUFFICES ASSUME Sane PROVE Decided'
    OBVIOUS
  <2>1. Together /\ Decided
    BY DEF SchedulerInv, WholeInv
  <2>2. runner[i[1]] = "gather"
    BY <2>1 DEF Together, Gathered
  <2>3. \A t \in Tasks : runner[t] = "final" => \A j \in ItemsOf(t) : item'[j] = item[j]
    BY <2>2 DEF ItemsOf
  <2> QED  BY <2>1, <2>2, <2>3 DEF Decided
<1>7. Halted => Halted'
  BY DEF Halted
<1> QED  BY <1>3, <1>4, <1>5, <1>6, <1>7 DEF WholeInv, Sane

LEMMA WholeWorkSteps ==
  ASSUME SchedulerInv, WholeInv, Alive, NEW i \in Items,
         WorkerStep(i) \/ Chunk(i) \/ DownloadEnds(i)
  PROVE  WholeInv'
<1>1. /\ Typed /\ process # "gone" /\ i[1] \in Tasks
      /\ ~fault /\ worker[i] \in {"permit", "download", "sleep"} => item[i] # "COMPLETED"
      /\ ~fault /\ worker[i] = "confirming" => item[i] = "COMPLETED"
      /\ ~fault /\ worker[i] \in {"completing", "failing", "waiting", "waitingTask", "retrying"} =>
           item[i] # "COMPLETED"
  BY DEF SchedulerInv, Items, Alive, WholeInv, Results
<1>2. ASSUME NEW p, worker' = [worker EXCEPT ![i] = p]
      PROVE  worker'[i] = p /\ \A j \in Items : j # i => worker'[j] = worker[j]
  BY <1>1, <1>2 DEF Typed
<1>3. ASSUME NEW s, item' = [item EXCEPT ![i] = s]
      PROVE  item'[i] = s /\ \A j \in Items : j # i => item'[j] = item[j]
  BY <1>1, <1>3 DEF Typed
<1>4. ASSUME NEW r, row' = [row EXCEPT ![i[1]] = r]
      PROVE  row'[i[1]] = r /\ \A t \in Tasks : t # i[1] => row'[t] = row[t]
  BY <1>1, <1>4 DEF Typed
<1>5. ASSUME NEW p \in {"completing", "failing", "pausing", "waiting", "retrying", "download"}, Goes(i, p),
             worker[i] \in {"permit", "download", "sleep"},
             UNCHANGED <<row, item, want, runner, final, repair, process, fault, cut>>
      PROVE  WholeInv'
  <2>1. worker'[i] = p /\ \A j \in Items : j # i => worker'[j] = worker[j]
    BY <1>2, <1>5 DEF Goes
  <2> QED  BY <1>1, <1>5, <2>1, WholeWork
<1>6. Top(i) \in {"pausing", "download"}
  BY DEF Top
<1>7. CASE Acquire(i)
  BY <1>5, <1>6, <1>7 DEF Acquire
<1>8. CASE Chunk(i)
  <2>1. /\ worker[i] = "download" /\ item' = [item EXCEPT ![i] = "DOWNLOADING"] /\ ~fault
        /\ UNCHANGED <<row, worker, want, runner, final, repair, process, fault, cut>>
    BY <1>8 DEF Chunk
  <2>2. item'[i] = "DOWNLOADING" /\ \A j \in Items : j # i => item'[j] = item[j]
    BY <1>3, <2>1
  <2> QED  BY <1>1, <2>1, <2>2, WholeWork
<1>9. CASE DownloadEnds(i)
  <2>1. PICK p \in {"completing", "failing", "pausing", "waiting"} : Goes(i, p)
    BY <1>9 DEF DownloadEnds, FloodWaits
  <2>2. worker[i] = "download" /\ UNCHANGED <<row, item, want, runner, final, repair, process, fault, cut>>
    BY <1>9 DEF DownloadEnds
  <2> QED  BY <1>5, <2>1, <2>2
<1>10. CASE Settle(i)
  <2>1. /\ ~fault /\ worker[i] \in {"completing", "failing", "pausing"}
        /\ UNCHANGED <<want, runner, final, repair, process, fault, cut>>
    BY <1>10 DEF Settle, Turn
  <2>2. CASE worker[i] = "completing"
    <3>1. /\ item' = [item EXCEPT ![i] = "COMPLETED"] /\ worker' = [worker EXCEPT ![i] = "confirming"]
          /\ row' = [row EXCEPT ![i[1]] = Recomputed(i[1], item')]
      BY <1>10, <2>2, Zenon DEF Settle
    <3>2. /\ row'[i[1]] = Recomputed(i[1], item')
          /\ \A t \in Tasks : t # i[1] => row'[t] = row[t]
      BY <1>1, <3>1 DEF Typed
    <3>3. Recomputed(i[1], item').status = "COMPLETED" => \A j \in ItemsOf(i[1]) : item'[j] = "COMPLETED"
      BY RecomputedIs
    <3>4. \/ row'[i[1]].status # "COMPLETED"
          \/ \A j \in ItemsOf(i[1]) : item'[j] = "COMPLETED"
      BY <3>2, <3>3
    <3>5. /\ item'[i] = "COMPLETED" /\ worker'[i] = "confirming"
          /\ \A j \in Items : j # i => worker'[j] = worker[j] /\ item'[j] = item[j]
      BY <1>2, <1>3, <3>1
    <3> QED  BY <1>1, <2>1, <2>2, <3>2, <3>4, <3>5, WholeWork
  <2>3. CASE worker[i] = "failing"
    <3>1. /\ item' = [item EXCEPT ![i] = "FAILED"] /\ worker' = [worker EXCEPT ![i] = "failed"]
          /\ row' = row
      BY <1>10, <2>3, Zenon DEF Settle
    <3> QED  BY <1>1, <1>2, <1>3, <2>1, <2>3, <3>1, WholeWork
  <2>4. CASE worker[i] = "pausing"
    <3>1. /\ item' = [item EXCEPT ![i] = "PAUSED"] /\ worker' = [worker EXCEPT ![i] = "paused"]
          /\ row' = row
      BY <1>10, <2>4, Zenon DEF Settle
    <3> QED  BY <1>1, <1>2, <1>3, <2>1, <2>4, <3>1, WholeWork
  <2> QED  BY <2>1, <2>2, <2>3, <2>4
<1>15. CASE Confirms(i)
  <2>1. /\ worker[i] = "confirming" /\ ~fault
        /\ item' = [item EXCEPT ![i] = "COMPLETED"] /\ worker' = [worker EXCEPT ![i] = "completed"]
        /\ UNCHANGED <<row, want, runner, final, repair, process, fault, cut>>
    BY <1>15 DEF Confirms, Turn
  <2> QED  BY <1>1, <1>2, <1>3, <2>1, WholeWork
<1>11. CASE RetryItem(i)
  <2>1. /\ worker[i] = "waiting" /\ item' = [item EXCEPT ![i] = "WAITING_RETRY"] /\ ~fault
        /\ worker' = [worker EXCEPT ![i] = "waitingTask"]
        /\ UNCHANGED <<row, want, runner, final, repair, process, fault, cut>>
    BY <1>11 DEF RetryItem, Turn
  <2> QED  BY <1>1, <1>2, <1>3, <2>1, WholeWork
<1>12. CASE RetryTask(i)
  <2>1. /\ worker[i] = "waitingTask" /\ row' = [row EXCEPT ![i[1]] = Row("WAITING_RETRY", "none")] /\ ~fault
        /\ worker' = [worker EXCEPT ![i] = "sleep"]
        /\ UNCHANGED <<item, want, runner, final, repair, process, fault, cut>>
    BY <1>12 DEF RetryTask, Turn
  <2>2. row'[i[1]].status # "COMPLETED"
    BY <1>4, <2>1 DEF Row
  <2> QED  BY <1>1, <1>2, <1>4, <2>1, <2>2, WholeWork
<1>13. CASE Wakes(i)
  <2>1. PICK p \in {"pausing", "retrying"} : Goes(i, p)
    BY <1>13 DEF Wakes
  <2> QED  BY <1>5, <1>13, <2>1 DEF Wakes
<1>14. CASE Retries(i)
  <2>1. /\ worker[i] = "retrying" /\ row' = [row EXCEPT ![i[1]] = Row("DOWNLOADING", "none")] /\ ~fault
        /\ worker' = [worker EXCEPT ![i] = Top(i)]
        /\ UNCHANGED <<item, want, runner, final, repair, process, fault, cut>>
    BY <1>14 DEF Retries, Turn
  <2>2. row'[i[1]].status # "COMPLETED"
    BY <1>4, <2>1 DEF Row
  <2> QED  BY <1>1, <1>2, <1>4, <1>6, <2>1, <2>2, WholeWork
<1> QED  BY <1>7, <1>8, <1>9, <1>10, <1>11, <1>12, <1>13, <1>14, <1>15 DEF WorkerStep

LEMMA WholeDownloading ==
  ASSUME SchedulerInv, WholeInv, NEW t \in Tasks, RunnerDownloading(t)
  PROVE  WholeInv'
<1>1. Typed /\ want[t] = {} /\ Unrepaired
  BY DEF SchedulerInv, WholeInv, Unrepaired
<1>2. /\ row' = [row EXCEPT ![t] = Row("DOWNLOADING", "none")]
      /\ runner' = [runner EXCEPT ![t] = "list"] /\ runner[t] = "downloading" /\ ~fault
      /\ UNCHANGED <<item, want, final, worker, repair, process, fault, cut>>
  BY <1>1 DEF RunnerDownloading, Turn
<1>3. process # "cancelled"
  BY <1>2 DEF WholeInv, Halted
<1>4. \A u \in Tasks : row'[u].status = "COMPLETED" => row[u].status = "COMPLETED"
  BY <1>1, <1>2 DEF Typed, Row
<1>5. \A u \in Tasks : \/ runner'[u] = runner[u]
                       \/ runner'[u] = "list" /\ row'[u].status # "COMPLETED"
  BY <1>1, <1>2 DEF Typed, Row
<1> QED  BY <1>1, <1>2, <1>3, <1>4, <1>5, WholeQuiet DEF Unrepaired

LEMMA WholeLists ==
  ASSUME SchedulerInv, WholeInv, NEW t \in Tasks, RunnerLists(t)
  PROVE  WholeInv'
<1>1. /\ runner' = [runner EXCEPT ![t] = "gather"] /\ runner[t] = "list" /\ ~fault
      /\ worker' = [i \in Items |-> IF i \in Unfinished(t) THEN "permit" ELSE worker[i]]
      /\ cut' = cut \ Unfinished(t)
      /\ UNCHANGED <<row, item, want, final, repair, process, fault>>
  BY DEF RunnerLists, Turn, Spawns
<1>2. Typed /\ process # "cancelled" /\ (process # "gone" => Results)
  BY <1>1 DEF SchedulerInv, WholeInv, Halted
<1>3. CompletedMeansAll' /\ Unrepaired' /\ Listing'
  <2>1. \A u \in Tasks : runner'[u] = "list" => runner[u] = "list"
    BY <1>1, <1>2 DEF Typed
  <2>2. \A u \in Tasks, i \in Items : u # t /\ i \in ItemsOf(u) => i \notin Unfinished(t)
    BY DEF Unfinished, ItemsOf
  <2>3. row[t].status # "COMPLETED"
    BY <1>1 DEF WholeInv, Listing
  <2>4. ASSUME NEW u \in Tasks, row'[u].status = "COMPLETED", NEW i \in ItemsOf(u)
        PROVE  item'[i] = "COMPLETED" \/ (i \in cut' /\ item'[i] = "PAUSED")
    <3>1. u # t /\ row[u].status = "COMPLETED" /\ i \in Items
      BY <1>1, <2>3, <2>4 DEF ItemsOf
    <3>2. item[i] = "COMPLETED" \/ (i \in cut /\ item[i] = "PAUSED")
      BY <2>4, <3>1 DEF WholeInv, CompletedMeansAll
    <3> QED  BY <1>1, <2>2, <2>4, <3>1, <3>2
  <2>5. CompletedMeansAll'
    BY <2>4 DEF CompletedMeansAll
  <2>6. Unrepaired'
    BY <1>1 DEF WholeInv, Unrepaired
  <2>7. Listing'
    BY <1>1, <2>1 DEF WholeInv, Listing
  <2> QED  BY <2>5, <2>6, <2>7
<1>4. \A i \in Unfinished(t) : item[i] # "COMPLETED"
  BY DEF Unfinished
<1>5. process # "gone" => Results'
  BY <1>1, <1>2, <1>4 DEF Results
<1>6. ASSUME Sane PROVE Decided'
  <2>1. Together /\ Decided
    BY <1>6 DEF SchedulerInv, WholeInv
  <2>2. \A u \in Tasks : u # t => runner'[u] = runner[u]
    BY <1>1, <1>2 DEF Typed
  <2>3. runner'[t] = "gather"
    BY <1>1, <1>2 DEF Typed
  <2>4. ASSUME NEW i \in ItemsOf(t), i \notin Unfinished(t) PROVE item[i] = "COMPLETED"
    <3>1. item[i] \notin {"DOWNLOADING", "WAITING_RETRY"}
      BY <1>1, <2>1, NoneIsWriting
    <3>2. item[i] \in ItemStatuses
      BY <1>2 DEF Typed, ItemsOf
    <3> QED  BY <2>4, <3>1, <3>2 DEF Unfinished, ItemStatuses
  <2>5. \A i \in Items : worker'[i] # "raised"
    BY <1>1, <2>1 DEF Decided
  <2>6. ASSUME NEW i \in Items, runner'[i[1]] = "gather", worker'[i] = "none"
        PROVE  item[i] = "COMPLETED"
    <3>1. CASE i[1] = t
      BY <1>1, <2>4, <2>6, <3>1 DEF ItemsOf
    <3>2. CASE i[1] # t
      <4>1. i[1] \in Tasks /\ i \notin Unfinished(t)
        BY <3>2 DEF Items, Unfinished, ItemsOf
      <4> QED  BY <1>1, <2>1, <2>2, <2>6, <3>2, <4>1 DEF Decided
    <3> QED  BY <3>1, <3>2
  <2>7. \A u \in Tasks : runner'[u] = "final" =>
          /\ final'[u].status # "recompute"
          /\ final'[u].status = "COMPLETED" => \A i \in ItemsOf(u) : item'[i] = "COMPLETED"
    BY <1>1, <2>1, <2>2, <2>3 DEF Decided
  <2> QED  BY <1>1, <2>5, <2>6, <2>7 DEF Decided
<1> QED  BY <1>1, <1>2, <1>3, <1>5, <1>6 DEF WholeInv, Sane

LEMMA WholeGathered ==
  ASSUME SchedulerInv, WholeInv, Alive, NEW t \in Tasks, RunnerGathered(t)
  PROVE  WholeInv'
<1> DEFINE some(s) == \E i \in ItemsOf(t) : worker[i] = s
<1>1. /\ runner[t] = "gather" /\ \A i \in ItemsOf(t) : Ended(i)
      /\ worker' = [i \in Items |-> IF i \in ItemsOf(t) THEN "none" ELSE worker[i]]
      /\ UNCHANGED <<row, item, want, repair, process, fault, cut>>
  BY DEF RunnerGathered
<1>2. Typed /\ want[t] = {} /\ process # "gone" /\ (~fault => Results)
  BY DEF SchedulerInv, WholeInv, Unrepaired, Alive
<1>3. /\ process = "cancelled" => runner' = [runner EXCEPT ![t] = "ended"]
      /\ process # "cancelled" =>
           /\ runner' = [runner EXCEPT ![t] = "final"]
           /\ final' = [final EXCEPT ![t] =
                   CASE some("paused") ->
                          Row("PAUSED", IF reason[t] = "none" THEN "user" ELSE reason[t])
                     [] ~some("paused") /\ want[t] # {} -> Row("recompute", "none")
                     [] ~some("paused") /\ want[t] = {} /\ some("failed") ->
                          Row("PARTIAL_FAILURE", "none")
                     [] OTHER -> Row("COMPLETED", "none")]
  BY DEF RunnerGathered
<1> HIDE DEF some
<1>4. ASSUME process # "cancelled"
      PROVE  /\ \A u \in Tasks : u # t => final'[u] = final[u]
             /\ final'[t].status # "recompute"
             /\ final'[t].status = "COMPLETED" => ~some("paused") /\ ~some("failed")
  <2>1. /\ final \in [Tasks -> Marks]
        /\ \A s, w : Row(s, w).status = s
    BY <1>2 DEF Typed, Row
  <2>2. CASE some("paused")
    <3>1. final' = [final EXCEPT ![t] =
           Row("PAUSED", IF reason[t] = "none" THEN "user" ELSE reason[t])]
      BY <1>3, <1>4, <2>2
    <3> QED  BY <2>1, <3>1
  <2>3. CASE ~some("paused") /\ some("failed")
    <3>1. final' = [final EXCEPT ![t] = Row("PARTIAL_FAILURE", "none")]
      BY <1>2, <1>3, <1>4, <2>3
    <3> QED  BY <2>1, <3>1
  <2>4. CASE ~some("paused") /\ ~some("failed")
    <3>1. final' = [final EXCEPT ![t] = Row("COMPLETED", "none")]
      BY <1>2, <1>3, <1>4, <2>4
    <3> QED  BY <2>1, <2>4, <3>1
  <2> QED  BY <2>2, <2>3, <2>4
<1> USE DEF some
<1>5. CompletedMeansAll' /\ Unrepaired' /\ Listing'
  <2>1. \A u \in Tasks : runner'[u] = "list" => runner[u] = "list"
    BY <1>2, <1>3 DEF Typed
  <2> QED  BY <1>1, <2>1 DEF WholeInv, CompletedMeansAll, Unrepaired, Listing
<1>6. ~fault => Results'
  BY <1>1, <1>2 DEF Results
<1>7. ASSUME Sane PROVE Decided'
  <2>1. Decided /\ Results /\ process # "cancelled"
    BY <1>2, <1>7 DEF WholeInv, Sane
  <2>2. /\ \A u \in Tasks : u # t => runner'[u] = runner[u] /\ final'[u] = final[u]
        /\ runner'[t] = "final" /\ final'[t].status # "recompute"
        /\ final'[t].status = "COMPLETED" => ~some("paused") /\ ~some("failed")
    BY <1>2, <1>3, <1>4, <2>1 DEF Typed
  <2>3. ASSUME ~some("paused"), ~some("failed"), NEW i \in ItemsOf(t) PROVE item[i] = "COMPLETED"
    <3>1. i \in Items /\ i[1] = t
      BY DEF ItemsOf
    <3>2. worker[i] \in {"none", "completed"}
      BY <1>1, <2>1, <2>3, <3>1 DEF Ended, Decided
    <3> QED  BY <1>1, <2>1, <3>1, <3>2 DEF Decided, Results
  <2>4. ASSUME NEW i \in Items
        PROVE  /\ worker'[i] # "raised"
               /\ runner'[i[1]] = "gather" /\ worker'[i] = "none" => item[i] = "COMPLETED"
    <3>1. i[1] \in Tasks /\ (i \in ItemsOf(t) <=> i[1] = t)
      BY DEF Items, ItemsOf
    <3> QED  BY <1>1, <2>1, <2>2, <3>1 DEF Decided
  <2>5. \A u \in Tasks : runner'[u] = "final" =>
          /\ final'[u].status # "recompute"
          /\ final'[u].status = "COMPLETED" => \A i \in ItemsOf(u) : item[i] = "COMPLETED"
    BY <2>1, <2>2, <2>3 DEF Decided
  <2> QED  BY <1>1, <2>4, <2>5 DEF Decided
<1>8. ~fault /\ process = "cancelled" => Halted'
  BY <1>2, <1>3 DEF WholeInv, Halted, Typed
<1> QED  BY <1>1, <1>5, <1>6, <1>7, <1>8 DEF WholeInv, Sane

LEMMA WholeWrites ==
  ASSUME SchedulerInv, WholeInv, Alive, NEW t \in Tasks, RunnerWrites(t)
  PROVE  WholeInv'
<1>1. /\ runner[t] = "final" /\ ~fault
      /\ row' = [row EXCEPT ![t] =
                   IF final[t].status = "recompute" THEN Recomputed(t, item) ELSE final[t]]
      /\ final' = [final EXCEPT ![t] = Row("none", "none")]
      /\ runner' = [runner EXCEPT ![t] = "ended"]
      /\ UNCHANGED <<item, want, worker, repair, process, fault, cut>>
  BY DEF RunnerWrites, Turn
<1>2. Typed /\ Sane
  BY <1>1 DEF SchedulerInv, WholeInv, Halted, Sane, Alive
<1>3. Decided /\ Results
  BY <1>2 DEF WholeInv, Sane
<1>4. row' = [row EXCEPT ![t] = final[t]]
  BY <1>1, <1>3 DEF Decided
<1>5. CompletedMeansAll'
  BY <1>1, <1>2, <1>3, <1>4 DEF WholeInv, CompletedMeansAll, Decided, Typed
<1>6. \A u \in Tasks : u # t => runner'[u] = runner[u] /\ final'[u] = final[u]
  BY <1>1, <1>2 DEF Typed
<1>7. runner'[t] = "ended"
  BY <1>1, <1>2 DEF Typed
<1>8. Decided'
  <2>1. \A i \in Items : runner'[i[1]] = "gather" => runner[i[1]] = "gather"
    BY <1>6, <1>7 DEF Items
  <2>2. \A u \in Tasks : runner'[u] = "final" => runner[u] = "final" /\ final'[u] = final[u]
    BY <1>6, <1>7
  <2> QED  BY <1>1, <1>3, <2>1, <2>2 DEF Decided
<1>9. Listing'
  BY <1>1, <1>2, <1>6, <1>7 DEF WholeInv, Listing, Typed
<1> QED  BY <1>1, <1>2, <1>3, <1>5, <1>8, <1>9 DEF WholeInv, Unrepaired, Results, Sane

LEMMA WholeEnds ==
  ASSUME SchedulerInv, WholeInv, CommandFails \/ Shutdown \/ GraceEnds \/ Exits \/ Crashes
  PROVE  WholeInv'
<1>1. CompletedMeansAll /\ Listing /\ repair = "idle" /\ (\A t \in Tasks : want[t] = {}) /\ Typed
  BY DEF WholeInv, Unrepaired, SchedulerInv
<1>2. CASE CommandFails
  <2>1. fault' = TRUE /\ UNCHANGED <<row, item, want, cut>> /\ repair' = "idle"
    BY <1>1, <1>2 DEF CommandFails, HandleFault
  <2>2. \A t \in Tasks : runner'[t] = "list" => runner[t] = "list"
    <3>1. \/ runner' = runner
          \/ \E t : runner' = [runner EXCEPT ![t] = "raised"]
      BY <1>2 DEF CommandFails
    <3> QED  BY <1>1, <3>1 DEF Typed
  <2> QED  BY <1>1, <2>1, <2>2 DEF WholeInv, CompletedMeansAll, Unrepaired, Listing, Sane
<1>3. CASE Shutdown
  <2>1. /\ process = "up" /\ process' = "grace"
        /\ UNCHANGED <<row, item, want, runner, final, worker, fault, cut>> /\ repair' = "idle"
    BY <1>1, <1>3 DEF Shutdown, Completes
  <2>2. (Results => Results') /\ (Decided => Decided')
    BY <2>1 DEF Results, Decided
  <2> QED  BY <1>1, <2>1, <2>2 DEF WholeInv, CompletedMeansAll, Unrepaired, Listing, Sane
<1>4. CASE GraceEnds
  <2>1. /\ process = "grace" /\ process' = "cancelled"
        /\ UNCHANGED <<row, item, want, repair, fault>>
        /\ worker' = [i \in Items |->
             IF worker[i] \in {"download", "completing", "confirming"} THEN "pausing"
             ELSE IF Ended(i) THEN worker[i] ELSE "raised"]
        /\ runner' = [t \in Tasks |-> IF t \in Active /\ runner[t] # "gather" THEN "ended"
                                       ELSE runner[t]]
        /\ cut' = cut \cup {i \in Items : worker[i] = "confirming"}
    BY <1>4 DEF GraceEnds
  <2>2. ~fault => Results'
    BY <2>1 DEF WholeInv, Results, Ended
  <2>3. ASSUME ~fault PROVE Halted'
    <3>1. Seated
      BY <2>1, <2>3 DEF SchedulerInv, Sane, Together
    <3> QED  BY <2>1, <3>1 DEF Seated, Active, Halted
  <2>4. Listing'
    BY <1>1, <2>1 DEF Listing
  <2>5. CompletedMeansAll'
    BY <1>1, <2>1 DEF CompletedMeansAll
  <2> QED  BY <1>1, <2>1, <2>2, <2>3, <2>4, <2>5 DEF WholeInv, Unrepaired, Sane
<1>5. CASE Exits \/ Crashes
  <2>1. process' = "gone" /\ UNCHANGED <<row, item, want, runner, repair, cut>>
    BY <1>5 DEF Exits, Crashes, Gone
  <2> QED  BY <1>1, <2>1 DEF WholeInv, CompletedMeansAll, Unrepaired, Listing, Sane
<1> QED  BY <1>2, <1>3, <1>4, <1>5

LEMMA WholeRestart == ASSUME SchedulerInv, WholeInv, Restart PROVE WholeInv'
<1>1. /\ row' = [t \in Tasks |-> RecoveredRow(row[t])]
      /\ item' = [i \in Items |-> RecoveredItem(item[i])]
      /\ runner' = Memory(window).runner /\ want' = Memory(window).want
      /\ worker' = Memory(window).worker /\ repair' = "idle" /\ process' = "up" /\ cut' = cut
  BY DEF Restart
<1>2. /\ want' = [t \in Tasks |-> {}] /\ runner' = [t \in Tasks |-> "none"]
      /\ worker' = [i \in Items |-> "none"]
  BY <1>1, MemoryIs
<1>3. CompletedMeansAll'
  <2>1. \A t \in Tasks : row'[t].status = "COMPLETED" => row[t].status = "COMPLETED"
    BY <1>1 DEF RecoveredRow, Row
  <2>2. \A i \in Items : item[i] \in {"COMPLETED", "PAUSED"} => item'[i] = item[i]
    BY <1>1 DEF RecoveredItem
  <2> QED  BY <1>1, <2>1, <2>2 DEF WholeInv, CompletedMeansAll, ItemsOf
<1>4. Results' /\ Decided' /\ Unrepaired' /\ Listing'
  BY <1>1, <1>2 DEF Results, Decided, Unrepaired, Listing, Items
<1> QED  BY <1>1, <1>3, <1>4 DEF WholeInv

LEMMA WholeInit == Init => WholeInv
<1> SUFFICES ASSUME Init PROVE WholeInv
  OBVIOUS
<1>1. /\ want = [t \in Tasks |-> {}] /\ runner = [t \in Tasks |-> "none"]
      /\ worker = [i \in Items |-> "none"]
  BY MemoryIs DEF Init
<1>2. /\ row \in [Tasks -> {Row("QUEUED", "none"), Row("PAUSED", "schedule")}]
      /\ repair = "idle" /\ process = "up" /\ cut = {}
  BY DEF Init
<1>3. CompletedMeansAll
  BY <1>2 DEF CompletedMeansAll, Row
<1>4. Results /\ Decided /\ Unrepaired /\ Listing
  BY <1>1, <1>2 DEF Results, Decided, Unrepaired, Listing, Items
<1> QED  BY <1>2, <1>3, <1>4 DEF WholeInv

LEMMA WholeStep ==
  ASSUME Integrity = FALSE, SchedulerInv, WholeInv, [Next]_vars PROVE WholeInv'
<1>1. repair = "idle"
  BY DEF WholeInv, Unrepaired
<1>2. CASE Alive /\ \E t \in Tasks : \/ CallPause(t) \/ Pause(t) \/ CallResume(t) \/ Resume(t)
                                     \/ Dispatch(t) \/ RunnerStep(t)
  BY <1>2, WholeQuietSteps, WholeDownloading, WholeLists, WholeGathered, WholeWrites DEF RunnerStep
<1>3. CASE Alive /\ \E i \in Items : WorkerStep(i) \/ Chunk(i) \/ DownloadEnds(i)
  BY <1>3, WholeWorkSteps
<1>4. CASE \E i \in Items : VerifyStarts(i)
  BY <1>4 DEF VerifyStarts
<1>5. CASE Edge \/ RefreshStep \/ RestoreQueue \/ UNCHANGED vars
  BY <1>5, WholeQuietSteps
<1>6. CASE RepairStep
  BY <1>1, <1>6 DEF RepairStep, VerifyEnds, RepairPrepares, RepairRuns, RepairAsks, RepairChecks,
                    RepairRecomputes
<1>7. CASE CommandFails \/ Shutdown \/ GraceEnds \/ Exits \/ Crashes
  BY <1>7, WholeEnds
<1>8. CASE Restart
  BY <1>8, WholeRestart
<1> QED  BY <1>2, <1>3, <1>4, <1>5, <1>6, <1>7, <1>8 DEF Next

(* A task that counts as completed has only completed items, unless files   *)
(* are repaired: a repair writes the damaged item before its task's row.     *)
THEOREM CompletedIsComplete == ASSUME Integrity = FALSE PROVE Spec => []CompletedMeansAll
<1>1. SchedulerInv /\ [Next]_vars => SchedulerInv'
  BY SchedulerStep
<1>2. SchedulerInv /\ WholeInv /\ [Next]_vars => WholeInv'
  BY WholeStep
<1>3. WholeInv => CompletedMeansAll
  BY DEF WholeInv
<1> QED  BY SchedulerInit, WholeInit, <1>1, <1>2, <1>3, PTL DEF Spec

-----------------------------------------------------------------------------
(* Who is in the lock after a step.                                         *)
LEMMA AmongAppend ==
  ASSUME NEW l \in Seq(Callers), NEW b \in Callers, NEW a
  PROVE  Among(a, Append(l, b)) <=> Among(a, l) \/ a = b
<1> DEFINE m == Append(l, b)
<1>1. /\ m \in Seq(Callers) /\ Len(m) = Len(l) + 1 /\ Len(l) \in Nat
      /\ \A k \in 1..Len(l) : m[k] = l[k]
      /\ m[Len(l) + 1] = b
  BY AppendProperties, LenProperties
<1>2. DOMAIN l = 1..Len(l) /\ DOMAIN m = 1..Len(m)
  BY <1>1, LenProperties
<1> HIDE DEF m
<1>3. Among(a, m) => Among(a, l) \/ a = b
  <2>1. \A k \in DOMAIN m : (k \in DOMAIN l /\ m[k] = l[k]) \/ m[k] = b
    BY <1>1, <1>2
  <2> QED  BY <2>1 DEF Among
<1>4. Among(a, l) => Among(a, m)
  <2>1. \A k \in DOMAIN l : k \in DOMAIN m /\ m[k] = l[k]
    BY <1>1, <1>2
  <2> QED  BY <2>1 DEF Among
<1>5. Among(b, m)
  <2>1. Len(l) + 1 \in DOMAIN m
    BY <1>1, <1>2
  <2> QED  BY <1>1, <2>1 DEF Among
<1> QED  BY <1>3, <1>4, <1>5 DEF m

LEMMA AmongTail ==
  ASSUME NEW l \in Seq(Callers), l # <<>>, NEW a
  PROVE  /\ Among(a, Tail(l)) => Among(a, l)
         /\ Among(a, l) /\ l[1] # a => Among(a, Tail(l))
<1> DEFINE m == Tail(l)
<1>1. /\ m \in Seq(Callers) /\ Len(m) = Len(l) - 1 /\ Len(l) \in Nat \ {0}
      /\ \A k \in 1..Len(m) : m[k] = l[k + 1]
  BY HeadTailProperties, LenProperties, EmptySeq
<1>2. DOMAIN l = 1..Len(l) /\ DOMAIN m = 1..Len(m)
  BY <1>1, LenProperties
<1> HIDE DEF m
<1>3. \A k \in DOMAIN m : k + 1 \in DOMAIN l /\ m[k] = l[k + 1]
  BY <1>1, <1>2
<1>4. \A k \in DOMAIN l : k # 1 => k - 1 \in DOMAIN m /\ m[k - 1] = l[k]
  BY <1>1, <1>2
<1>5. Among(a, m) => Among(a, l)
  BY <1>3 DEF Among
<1>6. Among(a, l) /\ l[1] # a => Among(a, m)
  BY <1>4 DEF Among
<1> QED  BY <1>5, <1>6 DEF m

LEMMA AmongJoin ==
  ASSUME NEW l \in Seq(Callers), NEW m \in Seq(Callers), NEW a
  PROVE  Among(a, l \o m) <=> Among(a, l) \/ Among(a, m)
<1> DEFINE n == l \o m
<1>1. /\ n \in Seq(Callers) /\ Len(n) = Len(l) + Len(m)
      /\ \A k \in 1..(Len(l) + Len(m)) : n[k] = IF k <= Len(l) THEN l[k] ELSE m[k - Len(l)]
  BY ConcatProperties
<1>2. /\ DOMAIN l = 1..Len(l) /\ DOMAIN m = 1..Len(m) /\ DOMAIN n = 1..Len(n)
      /\ Len(l) \in Nat /\ Len(m) \in Nat
  BY <1>1, LenProperties
<1> HIDE DEF n
<1>3. Among(a, n) => Among(a, l) \/ Among(a, m)
  <2>1. \A k \in DOMAIN n : \/ k \in DOMAIN l /\ n[k] = l[k]
                            \/ k - Len(l) \in DOMAIN m /\ n[k] = m[k - Len(l)]
    BY <1>1, <1>2
  <2> QED  BY <2>1 DEF Among
<1>4. Among(a, l) => Among(a, n)
  <2>1. \A k \in DOMAIN l : k \in DOMAIN n /\ n[k] = l[k]
    BY <1>1, <1>2
  <2> QED  BY <2>1 DEF Among
<1>5. Among(a, m) => Among(a, n)
  <2>1. \A k \in DOMAIN m : Len(l) + k \in DOMAIN n /\ n[Len(l) + k] = m[k]
    BY <1>1, <1>2
  <2> QED  BY <2>1 DEF Among
<1> QED  BY <1>3, <1>4, <1>5 DEF n

(* Whoever waits for the lock keeps waiting until its turn.                 *)
LEMMA LockTurns ==
  ASSUME lock \in Seq(Callers), NEW b, Turn(b), NEW q \in Seq(Callers), Leaves(q), NEW a
  PROVE  /\ Among(a, lock') => Among(a, lock) \/ Among(a, q)
         /\ Among(a, lock) /\ a # b => Among(a, lock')
         /\ Among(a, q) => Among(a, lock')
<1>1. lock # <<>> /\ lock[1] = b /\ lock' = Tail(lock) \o q
  BY DEF Turn, Leaves
<1>2. Tail(lock) \in Seq(Callers)
  BY <1>1, HeadTailProperties
<1> QED  BY <1>1, <1>2, AmongTail, AmongJoin

-----------------------------------------------------------------------------
(* Without repairs and refusals a task that is queued is served.            *)
Served ==
  /\ QueuedIsServed
  /\ Sane => \A t \in Tasks : /\ runner[t] \notin {"selected", "raised"}
                              /\ runner[t] = "ended" => row[t].status # "QUEUED"

(* What QueuedIsServed says of one task.                                    *)
Serves(t) == row[t].status = "QUEUED" => op[t] # "none" \/ Among(Pauser(t), lock)

LEMMA ServesAll ==
  ASSUME repair = "idle", lock \in Seq(Callers)
  PROVE  QueuedIsServed <=> (Healthy /\ restored => \A t \in Tasks : Serves(t))
<1>1. \A a : InLock(a) <=> Among(a, lock)
  BY LenProperties DEF InLock, Contains, Among
<1> QED  BY <1>1 DEF QueuedIsServed, Serves

LEMMA ServedKept ==
  ASSUME SchedulerInv, WholeInv, Served, SchedulerInv', repair' = "idle",
         Sane' => Sane, Healthy' => Healthy, restored' => restored,
         Healthy' => \A t \in Tasks :
           \/ Serves(t)'
           \/ /\ row'[t].status = "QUEUED" => row[t].status = "QUEUED"
              /\ op[t] # "none" => op'[t] # "none"
              /\ Among(Pauser(t), lock) => Among(Pauser(t), lock'),
         Sane' => \A t \in Tasks :
           \/ runner'[t] \notin {"selected", "raised", "ended"}
           \/ runner'[t] = "ended" /\ row'[t].status # "QUEUED"
           \/ runner'[t] = runner[t] /\ row'[t] = row[t]
  PROVE  Served'
<1>1. repair = "idle"
  BY DEF WholeInv, Unrepaired
<1>2. ASSUME Healthy', restored', NEW t \in Tasks PROVE Serves(t)'
  <2>1. Healthy /\ restored /\ Sane /\ Sane'
    BY <1>2 DEF Healthy, Sane
  <2>2. lock \in Seq(Callers)
    BY <2>1 DEF SchedulerInv, Together
  <2>3. Serves(t)
    BY <1>1, <2>1, <2>2, ServesAll DEF Served
  <2> QED  BY <1>2, <2>3 DEF Serves
<1>3. QueuedIsServed'
  <2>1. CASE Healthy'
    <3>1. lock' \in Seq(Callers)
      BY <2>1 DEF SchedulerInv, Together, Healthy, Sane
    <3>2. \A a : InLock(a)' <=> Among(a, lock')
      BY <3>1, LenProperties DEF InLock, Contains, Among
    <3> QED  BY <1>2, <3>2 DEF QueuedIsServed, Serves
  <2>2. CASE ~Healthy'
    BY <2>2 DEF QueuedIsServed
  <2> QED  BY <2>1, <2>2
<1> QED  BY <1>3 DEF Served

(* A step that leaves rows, operations and runners, and takes nobody but    *)
(* the caller out of the lock.                                              *)
LEMMA ServedStill ==
  ASSUME SchedulerInv, WholeInv, Served, SchedulerInv', repair' = "idle",
         UNCHANGED <<row, op, runner, process, restored, fault>>,
         Sane => \A t \in Tasks : Among(Pauser(t), lock) => Among(Pauser(t), lock')
  PROVE  Served'
BY ServedKept DEF Sane, Healthy

LEMMA ServedCalls ==
  ASSUME SchedulerInv, WholeInv, Served, SchedulerInv', repair' = "idle", NEW u \in Tasks,
         CallPause(u) \/ Pause(u) \/ CallResume(u)
  PROVE  Served'
<1>1. /\ Typed
      /\ Sane => lock \in Seq(Callers) /\ Keyed(lock, op)
      /\ Pauser(u) \in Callers /\ Resumer(u) \in Callers
  BY CallersAre DEF SchedulerInv, Together
<1>2. CASE CallPause(u)
  <2> DEFINE gone == IF op[u] \in {"dispatch", "pending"} THEN {u} ELSE {}
             l == IF u \in gone THEN RemoveFirst(lock, Dispatcher(u)) ELSE lock
  <2>1. /\ op' = [op EXCEPT ![u] = IF u \in gone THEN "none" ELSE @]
        /\ lock' = Append(l, Pauser(u))
        /\ UNCHANGED <<row, runner, process, restored, fault>>
    BY <1>2 DEF CallPause
  <2>2. ASSUME Sane
        PROVE  l \in Seq(Callers) /\ \A t \in Tasks : Among(Pauser(t), lock) => Among(Pauser(t), l)
    <3>1. \A t \in Tasks : Pauser(t) # Dispatcher(u)
      BY DEF Pauser, Dispatcher
    <3>2. CASE u \in gone
      BY <1>1, <2>2, <3>1, <3>2, KeyRemoved
    <3>3. CASE u \notin gone
      BY <1>1, <2>2, <3>3
    <3> QED  BY <3>2, <3>3
  <2> HIDE DEF gone, l
  <2>3. ASSUME Sane, NEW t \in Tasks
        PROVE  /\ Among(Pauser(t), lock) => Among(Pauser(t), lock')
               /\ Among(Pauser(u), lock')
    BY <1>1, <2>1, <2>2, <2>3, AmongAppend
  <2>4. \A t \in Tasks : t # u => op'[t] = op[t]
    BY <1>1, <2>1 DEF Typed
  <2>5. Healthy => Sane
    BY DEF Healthy, Sane
  <2>6. Healthy' => \A t \in Tasks :
           \/ Serves(t)'
           \/ /\ row'[t].status = "QUEUED" => row[t].status = "QUEUED"
              /\ op[t] # "none" => op'[t] # "none"
              /\ Among(Pauser(t), lock) => Among(Pauser(t), lock')
    BY <2>1, <2>3, <2>4, <2>5 DEF Healthy, Serves
  <2> QED  BY <2>1, <2>6, ServedKept DEF Sane, Healthy
<1>3. CASE Pause(u)
  <2>1. /\ Turn(Pauser(u)) /\ Leaves(<<>>) /\ \A t \in Tasks : runner[t] # "ended"
        /\ row' = [row EXCEPT ![u] =
               IF @.status \in {"QUEUED", "DOWNLOADING", "WAITING_RETRY"}
               THEN Row("PAUSED", "user") ELSE @]
        /\ UNCHANGED <<op, runner, process, restored, fault>>
    BY <1>3 DEF Pause, Turn
  <2>2. row'[u].status # "QUEUED" /\ \A t \in Tasks : t # u => row'[t] = row[t]
    BY <1>1, <2>1 DEF Typed, Row
  <2>3. \A t \in Tasks : Pauser(t) = Pauser(u) => t = u
    BY DEF Pauser
  <2>4. <<>> \in Seq(Callers)
    OBVIOUS
  <2>5. Sane => \A t \in Tasks : t # u /\ Among(Pauser(t), lock) => Among(Pauser(t), lock')
    BY <1>1, <2>1, <2>3, <2>4, LockTurns
  <2>6. Sane => \A t \in Tasks : runner[t] \notin {"selected", "raised", "ended"}
    BY <2>1 DEF Served
  <2>7. Healthy => Sane
    BY DEF Healthy, Sane
  <2> QED  BY <2>1, <2>2, <2>5, <2>6, <2>7, ServedKept DEF Sane, Healthy, Serves
<1>4. CASE CallResume(u)
  <2>1. lock' = Append(lock, Resumer(u)) /\ UNCHANGED <<row, op, runner, process, restored, fault>>
    BY <1>4 DEF CallResume
  <2>2. Sane => \A t \in Tasks : Among(Pauser(t), lock) => Among(Pauser(t), lock')
    BY <1>1, <2>1, AmongAppend
  <2> QED  BY <2>1, <2>2, ServedStill
<1> QED  BY <1>2, <1>3, <1>4

LEMMA ServedResumes ==
  ASSUME SchedulerInv, WholeInv, Served, SchedulerInv', repair' = "idle",
         NEW b, Turn(b), \A t \in Tasks : b # Pauser(t), NEW S \in SUBSET Tasks, Resumes(S),
         UNCHANGED <<runner, process, restored, fault>>
  PROVE  Served'
<1>1. /\ row' = [t \in Tasks |-> IF t \in S THEN Row("QUEUED", "none") ELSE row[t]]
      /\ process = "up" => RunTasks(S) /\ \E q \in Queues(S) : Leaves(q)
  BY DEF Resumes, ShuttingDown
<1>2. ASSUME Healthy', NEW t \in Tasks
      PROVE  \/ Serves(t)'
             \/ /\ row'[t].status = "QUEUED" => row[t].status = "QUEUED"
                /\ op[t] # "none" => op'[t] # "none"
                /\ Among(Pauser(t), lock) => Among(Pauser(t), lock')
  <2>1. process = "up" /\ lock \in Seq(Callers)
    BY <1>2 DEF Healthy, SchedulerInv, Together, Sane
  <2>2. op' = [v \in Tasks |-> IF v \in New(S) THEN "dispatch" ELSE op[v]]
    BY <1>1, <2>1 DEF RunTasks
  <2>3. CASE t \in S
    BY <2>2, <2>3 DEF Serves, New
  <2>4. CASE t \notin S
    <3>1. row'[t] = row[t] /\ op'[t] = op[t]
      BY <1>1, <2>2, <2>4 DEF New
    <3>2. PICK q \in Queues(S) : Leaves(q)
      BY <1>1, <2>1
    <3>3. q \in Seq(Callers)
      BY <2>2, QueueIs DEF New
    <3>4. Among(Pauser(t), lock) => Among(Pauser(t), lock')
      BY <2>1, <3>2, <3>3, LockTurns
    <3> QED  BY <3>1, <3>4
  <2> QED  BY <2>3, <2>4
<1>3. Sane => \A t \in Tasks : runner[t] \notin {"selected", "raised", "ended"}
  BY DEF Served, Turn
<1> QED  BY <1>2, <1>3, ServedKept DEF Sane, Healthy

(* Operations are admitted or leave the table; nobody leaves the lock but   *)
(* its head.                                                                *)
LEMMA ServedAdmits ==
  ASSUME SchedulerInv, WholeInv, Served, SchedulerInv', repair' = "idle",
         NEW ops \in [Tasks -> OpStates], NEW open, NEW rc \in [Tasks -> RunnerStates],
         Admitted(ops, open, rc),
         \A t \in Tasks : \/ op[t] # "none" => ops[t] # "none"
                          \/ Sane => row[t].status # "QUEUED",
         \A t \in Tasks : rc[t] = runner[t] \/ rc[t] = "none",
         UNCHANGED <<row, process, restored, fault>>,
         Sane => \A t \in Tasks : Among(Pauser(t), lock) => Among(Pauser(t), lock')
  PROVE  Served'
<1>1. \A t \in Tasks : \/ op'[t] = ops[t] /\ runner'[t] = rc[t]
                       \/ op'[t] = "active" /\ runner'[t] = "begin"
  BY AdmittedIs
<1>2. Healthy' => \A t \in Tasks :
           \/ Serves(t)'
           \/ /\ row'[t].status = "QUEUED" => row[t].status = "QUEUED"
              /\ op[t] # "none" => op'[t] # "none"
              /\ Among(Pauser(t), lock) => Among(Pauser(t), lock')
  BY <1>1 DEF Serves, Healthy, Sane
<1>3. \A t \in Tasks : \/ runner'[t] \in {"begin", "none"}
                       \/ runner'[t] = runner[t] /\ row'[t] = row[t]
  BY <1>1
<1> QED  BY <1>2, <1>3, ServedKept DEF Sane, Healthy

(* A step of a runner or of one of its coroutines, whose operation is       *)
(* active.                                                                  *)
LEMMA ServedRuns ==
  ASSUME SchedulerInv, WholeInv, Served, SchedulerInv', repair' = "idle", NEW u \in Tasks,
         Sane => op[u] = "active",
         \A t \in Tasks : t # u => row'[t] = row[t] /\ runner'[t] = runner[t],
         Sane => \/ runner'[u] \notin {"selected", "raised", "ended"}
                 \/ runner'[u] = "ended" /\ row'[u].status # "QUEUED",
         UNCHANGED <<op, process, restored, fault>>,
         \/ lock' = lock
         \/ \E b \in Callers : lock' = Append(lock, b)
         \/ \E b : Turn(b) /\ (\A t \in Tasks : b # Pauser(t))
                   /\ \E q \in Seq(Callers) : Leaves(q)
  PROVE  Served'
<1>1. ASSUME Sane, NEW t \in Tasks, Among(Pauser(t), lock)
      PROVE  Among(Pauser(t), lock')
  <2>1. lock \in Seq(Callers)
    BY <1>1 DEF SchedulerInv, Together
  <2>2. CASE \E b \in Callers : lock' = Append(lock, b)
    BY <1>1, <2>1, <2>2, AmongAppend
  <2>3. CASE \E b : Turn(b) /\ (\A v \in Tasks : b # Pauser(v)) /\ \E q \in Seq(Callers) : Leaves(q)
    BY <1>1, <2>1, <2>3, LockTurns
  <2> QED  BY <1>1, <2>2, <2>3
<1>2. Sane' => Sane
  BY DEF Sane
<1>3. Healthy' => Healthy /\ Sane
  BY DEF Sane, Healthy
<1>4. \A t \in Tasks : t # u => row'[t] = row[t] /\ op'[t] = op[t]
  OBVIOUS
<1>5. Sane => Serves(u)'
  BY DEF Serves
<1>6. Healthy' => \A t \in Tasks :
         \/ Serves(t)'
         \/ /\ row'[t].status = "QUEUED" => row[t].status = "QUEUED"
            /\ op[t] # "none" => op'[t] # "none"
            /\ Among(Pauser(t), lock) => Among(Pauser(t), lock')
  BY <1>1, <1>3, <1>4, <1>5
<1> QED  BY <1>2, <1>3, <1>6, ServedKept

LEMMA ServedRunSteps ==
  ASSUME Maintenance = FALSE, SchedulerInv, WholeInv, Served, SchedulerInv', repair' = "idle",
         Alive, NEW u \in Tasks,
         \/ RunnerBegins(u) \/ RunnerCleared(u) \/ RunnerSelected(u) \/ RunnerDownloading(u)
         \/ RunnerLists(u) \/ RunnerGathered(u) \/ RunnerWrites(u)
  PROVE  Served'
<1>1. /\ Typed /\ want[u] = {}
      /\ Sane => Seated /\ Finals /\ Decided
      /\ Runner(u) \in Callers /\ <<Runner(u)>> \in Seq(Callers) /\ <<>> \in Seq(Callers)
  BY CallersAre DEF SchedulerInv, WholeInv, Unrepaired, Together
<1>2. \A t \in Tasks : Runner(u) # Pauser(t)
  BY DEF Runner, Pauser
<1>3. Sane /\ runner[u] # "none" => op[u] = "active"
  BY <1>1 DEF Seated
<1>4. ASSUME NEW p, runner' = [runner EXCEPT ![u] = p]
      PROVE  runner'[u] = p /\ \A t \in Tasks : t # u => runner'[t] = runner[t]
  BY <1>1, <1>4 DEF Typed
<1>5. CASE RunnerBegins(u)
  <2>1. /\ runner[u] = "begin" /\ runner' = [runner EXCEPT ![u] = "priority"]
        /\ lock' = Append(lock, Runner(u)) /\ UNCHANGED <<row, op, process, restored, fault>>
    BY <1>5 DEF RunnerBegins
  <2> QED  BY <1>1, <1>3, <1>4, <2>1, ServedRuns
<1>6. CASE RunnerCleared(u)
  <2>1. /\ runner[u] = "priority" /\ runner' = [runner EXCEPT ![u] = "downloading"]
        /\ Turn(Runner(u)) /\ Leaves(<<Runner(u)>>) /\ UNCHANGED <<row, op, process, restored, fault>>
    BY <1>1, <1>6 DEF RunnerCleared
  <2> QED  BY <1>1, <1>2, <1>3, <1>4, <2>1, ServedRuns
<1>7. CASE RunnerSelected(u)
  <2>1. Turn(Runner(u)) /\ runner[u] = "selected" /\ UNCHANGED <<process, fault>>
    BY <1>7 DEF RunnerSelected
  <2>2. ~Sane
    BY <2>1 DEF Served
  <2>3. ~Sane' /\ ~Healthy'
    BY <2>1, <2>2 DEF Sane, Healthy
  <2> QED  BY <2>3 DEF Served, QueuedIsServed
<1>8. CASE RunnerDownloading(u)
  <2>1. /\ runner[u] = "downloading" /\ runner' = [runner EXCEPT ![u] = "list"]
        /\ row' = [row EXCEPT ![u] = Row("DOWNLOADING", "none")]
        /\ Turn(Runner(u)) /\ Leaves(<<Runner(u)>>) /\ UNCHANGED <<op, process, restored, fault>>
    BY <1>1, <1>8 DEF RunnerDownloading
  <2>2. \A t \in Tasks : t # u => row'[t] = row[t]
    BY <1>1, <2>1 DEF Typed
  <2> QED  BY <1>1, <1>2, <1>3, <1>4, <2>1, <2>2, ServedRuns
<1>9. CASE RunnerLists(u)
  <2>1. /\ runner[u] = "list" /\ runner' = [runner EXCEPT ![u] = "gather"]
        /\ Turn(Runner(u)) /\ Leaves(<<>>) /\ UNCHANGED <<row, op, process, restored, fault>>
    BY <1>9 DEF RunnerLists
  <2> QED  BY <1>1, <1>2, <1>3, <1>4, <2>1, ServedRuns
<1>10. CASE RunnerGathered(u)
  <2>1. /\ runner[u] = "gather" /\ UNCHANGED <<row, op, process, restored, fault>>
        /\ process = "cancelled" => UNCHANGED lock
        /\ process # "cancelled" => lock' = Append(lock, Runner(u))
        /\ \E p \in {"ended", "final"} : runner' = [runner EXCEPT ![u] = p]
        /\ process # "cancelled" => runner' = [runner EXCEPT ![u] = "final"]
    BY <1>10 DEF RunnerGathered
  <2>2. Sane => runner'[u] = "final"
    BY <1>4, <2>1 DEF Sane
  <2>3. \A t \in Tasks : t # u => runner'[t] = runner[t]
    BY <1>4, <2>1
  <2>4. lock' = lock \/ lock' = Append(lock, Runner(u))
    BY <2>1
  <2>5. \/ lock' = lock
        \/ \E b \in Callers : lock' = Append(lock, b)
    BY <1>1, <2>4
  <2> QED  BY <1>3, <2>1, <2>2, <2>3, <2>5, ServedRuns
<1>11. CASE RunnerWrites(u)
  <2>1. /\ runner[u] = "final" /\ runner' = [runner EXCEPT ![u] = "ended"]
        /\ row' = [row EXCEPT ![u] =
               IF final[u].status = "recompute" THEN Recomputed(u, item) ELSE final[u]]
        /\ Turn(Runner(u)) /\ Leaves(<<>>) /\ UNCHANGED <<op, process, restored, fault>>
    BY <1>11 DEF RunnerWrites
  <2>2. Sane => row'[u].status # "QUEUED"
    <3>1. Sane => row'[u] = final[u]
      BY <1>1, <2>1 DEF Decided, Typed
    <3> QED  BY <1>1, <2>1, <3>1 DEF Decided, Finals
  <2>3. \A t \in Tasks : t # u => row'[t] = row[t]
    BY <1>1, <2>1 DEF Typed
  <2> QED  BY <1>1, <1>2, <1>3, <1>4, <2>1, <2>2, <2>3, ServedRuns
<1> QED  BY <1>5, <1>6, <1>7, <1>8, <1>9, <1>10, <1>11

LEMMA ServedWorkSteps ==
  ASSUME SchedulerInv, WholeInv, Served, SchedulerInv', repair' = "idle", NEW i \in Items,
         WorkerStep(i) \/ Chunk(i) \/ DownloadEnds(i)
  PROVE  Served'
<1>1. /\ Typed /\ i[1] \in Tasks
      /\ Sane => Seated /\ Gathered
      /\ Worker(i) \in Callers /\ <<Worker(i)>> \in Seq(Callers) /\ <<>> \in Seq(Callers)
  BY CallersAre DEF SchedulerInv, Together, Items
<1>2. \A t \in Tasks : Worker(i) # Pauser(t)
  BY DEF Worker, Pauser
<1>3. worker[i] # "none" /\ UNCHANGED <<op, runner, process, restored, fault>>
  BY DEF WorkerStep, Chunk, DownloadEnds, Acquire, Settle, Confirms, RetryItem, RetryTask, Wakes, Retries
<1>4. Sane => op[i[1]] = "active" /\ runner'[i[1]] = "gather"
  BY <1>1, <1>3 DEF Seated, Gathered
<1>5. \A t \in Tasks : t # i[1] => row'[t] = row[t]
  BY <1>1 DEF WorkerStep, Chunk, DownloadEnds, Acquire, Settle, Confirms, RetryItem, RetryTask, Wakes,
     Retries, Typed
<1>6. \A p : Goes(i, p) => lock' = lock \/ \E b \in Callers : lock' = Append(lock, b)
  BY <1>1 DEF Goes
<1>7. \/ lock' = lock
      \/ \E b \in Callers : lock' = Append(lock, b)
      \/ \E b : Turn(b) /\ (\A t \in Tasks : b # Pauser(t))
                /\ \E q \in Seq(Callers) : Leaves(q)
  <2>1. CASE Acquire(i) \/ DownloadEnds(i) \/ Wakes(i)
    BY <1>6, <2>1 DEF Acquire, DownloadEnds, FloodWaits, Wakes
  <2>2. CASE Chunk(i)
    BY <2>2 DEF Chunk
  <2>3. CASE Settle(i) \/ Confirms(i) \/ RetryTask(i)
    BY <1>1, <1>2, <2>3 DEF Settle, Confirms, RetryTask
  <2>4. CASE RetryItem(i) \/ Retries(i)
    BY <1>1, <1>2, <2>4 DEF RetryItem, Retries
  <2> QED  BY <2>1, <2>2, <2>3, <2>4 DEF WorkerStep
<1> QED  BY <1>1, <1>3, <1>4, <1>5, <1>7, ServedRuns

LEMMA ServedQueueSteps ==
  ASSUME SchedulerInv, WholeInv, Served, SchedulerInv', repair' = "idle",
         \/ \E t \in Tasks : Resume(t) \/ Dispatch(t) \/ FinishOperation(t)
         \/ Edge \/ RefreshStep \/ UNCHANGED vars
  PROVE  Served'
<1>1. /\ Typed /\ <<>> \in Seq(Callers) /\ <<Refresher>> \in Seq(Callers) /\ Refresher \in Callers
      /\ Sane => lock \in Seq(Callers)
      /\ \A t, u \in Tasks : /\ Resumer(t) # Pauser(u) /\ Dispatcher(t) # Pauser(u)
                             /\ Refresher # Pauser(u)
  BY CallersAre DEF SchedulerInv, Together, Pauser, Resumer, Dispatcher, Refresher
<1>2. /\ op \in [Tasks -> OpStates] /\ runner \in [Tasks -> RunnerStates]
  BY <1>1 DEF Typed
<1>3. ASSUME NEW u \in Tasks, Resume(u) PROVE Served'
  <2>1. /\ Turn(Resumer(u)) /\ Resumes(Resumable({u})) /\ Resumable({u}) \in SUBSET Tasks
        /\ UNCHANGED <<runner, process, restored, fault>>
    BY <1>3 DEF Resume, Resumable
  <2> QED  BY <1>1, <2>1, ServedResumes
<1>4. ASSUME NEW u \in Tasks, Dispatch(u) PROVE Served'
  <2> DEFINE ops == [op EXCEPT ![u] = "pending"]
  <2>1. /\ Turn(Dispatcher(u)) /\ Leaves(<<>>) /\ Admitted(ops, admission, runner)
        /\ UNCHANGED <<row, process, restored, fault>>
    BY <1>4 DEF Dispatch
  <2>2. ops \in [Tasks -> OpStates] /\ \A t \in Tasks : op[t] # "none" => ops[t] # "none"
    BY <1>2 DEF OpStates
  <2>3. Sane => \A t \in Tasks : Among(Pauser(t), lock) => Among(Pauser(t), lock')
    BY <1>1, <2>1, LockTurns
  <2> HIDE DEF ops
  <2> QED  BY <1>2, <2>1, <2>2, <2>3, ServedAdmits
<1>5. ASSUME NEW u \in Tasks, FinishOperation(u) PROVE Served'
  <2> DEFINE ops == [op EXCEPT ![u] = "none"]
             rc == [runner EXCEPT ![u] = "none"]
  <2>1. /\ Admitted(ops, admission, rc) /\ runner[u] \in {"ended", "raised"}
        /\ UNCHANGED <<row, lock, process, restored, fault>>
    BY <1>5 DEF FinishOperation
  <2>2. /\ ops \in [Tasks -> OpStates] /\ rc \in [Tasks -> RunnerStates]
        /\ \A t \in Tasks : rc[t] = runner[t] \/ rc[t] = "none"
        /\ \A t \in Tasks : t # u => ops[t] = op[t]
    BY <1>2 DEF OpStates, RunnerStates
  <2>3. Sane => row[u].status # "QUEUED"
    BY <2>1 DEF Served
  <2>4. \A t \in Tasks : \/ op[t] # "none" => ops[t] # "none"
                         \/ Sane => row[t].status # "QUEUED"
    BY <2>2, <2>3
  <2> HIDE DEF ops, rc
  <2> QED  BY <2>1, <2>2, <2>4, ServedAdmits
<1>6. CASE Edge \/ RefreshCloses \/ RefreshReturns \/ UNCHANGED vars
  <2>1. UNCHANGED <<row, op, runner, lock, process, restored, fault>>
    BY <1>6 DEF Edge, RefreshCloses, RefreshReturns, vars
  <2> QED  BY <2>1, ServedStill
<1>7. CASE RefreshOpens
  <2>1. /\ Admitted(op, TRUE, runner) /\ lock' = Append(lock, Refresher)
        /\ UNCHANGED <<row, process, restored, fault>>
    BY <1>7 DEF RefreshOpens
  <2>2. Sane => \A t \in Tasks : Among(Pauser(t), lock) => Among(Pauser(t), lock')
    BY <1>1, <2>1, AmongAppend
  <2> QED  BY <1>2, <2>1, <2>2, ServedAdmits
<1>8. CASE RefreshLists
  <2>1. /\ Turn(Refresher) /\ (Leaves(<<>>) \/ Leaves(<<Refresher>>))
        /\ UNCHANGED <<row, op, runner, process, restored, fault>>
    BY <1>8 DEF RefreshLists
  <2>2. Sane => \A t \in Tasks : Among(Pauser(t), lock) => Among(Pauser(t), lock')
    BY <1>1, <2>1, LockTurns
  <2> QED  BY <2>1, <2>2, ServedStill
<1>9. CASE RefreshResumes
  <2>1. /\ Turn(Refresher) /\ Resumes(Resumable(chosen)) /\ Resumable(chosen) \in SUBSET Tasks
        /\ UNCHANGED <<runner, process, restored, fault>>
    BY <1>1, <1>9 DEF RefreshResumes, Resumable, Typed
  <2> QED  BY <1>1, <2>1, ServedResumes
<1> QED  BY <1>3, <1>4, <1>5, <1>6, <1>7, <1>8, <1>9 DEF RefreshStep

LEMMA ServedRestores ==
  ASSUME SchedulerInv, WholeInv, Served, SchedulerInv', repair' = "idle", RestoreQueue
  PROVE  Served'
<1> DEFINE S == {t \in Tasks : row[t].status = "QUEUED"}
<1>1. /\ RunTasks(S) /\ UNCHANGED <<row, runner, process, fault>>
  BY DEF RestoreQueue
<1>2. \A t \in Tasks : Serves(t)'
  BY <1>1 DEF RunTasks, New, Serves
<1>3. QueuedIsServed'
  <2>1. CASE Healthy'
    <3>1. lock' \in Seq(Callers)
      BY <2>1 DEF SchedulerInv, Together, Healthy, Sane
    <3>2. \A a : InLock(a)' <=> Among(a, lock')
      BY <3>1, LenProperties DEF InLock, Contains, Among
    <3> QED  BY <1>2, <3>2 DEF QueuedIsServed, Serves
  <2>2. CASE ~Healthy'
    BY <2>2 DEF QueuedIsServed
  <2> QED  BY <2>1, <2>2
<1> QED  BY <1>1, <1>3 DEF Served, Sane

LEMMA ServedEnds ==
  ASSUME Served, CommandFails \/ Shutdown \/ GraceEnds \/ Exits \/ Crashes \/ Restart
  PROVE  Served'
<1>1. CASE CommandFails \/ GraceEnds \/ Exits \/ Crashes
  <2>1. ~Sane' /\ ~Healthy'
    BY <1>1 DEF CommandFails, HandleFault, GraceEnds, Exits, Crashes, Gone, Sane, Healthy
  <2> QED  BY <2>1 DEF Served, QueuedIsServed
<1>2. CASE Shutdown
  <2>1. /\ process = "up" /\ process' = "grace" /\ UNCHANGED <<row, runner, fault>>
    BY <1>2 DEF Shutdown
  <2>2. QueuedIsServed'
    BY <2>1 DEF QueuedIsServed, Healthy
  <2> QED  BY <2>1, <2>2 DEF Served, Sane
<1>3. CASE Restart
  <2>1. runner' = [t \in Tasks |-> "none"] /\ restored' = FALSE
    BY <1>3, MemoryIs DEF Restart
  <2> QED  BY <2>1 DEF Served, QueuedIsServed
<1> QED  BY <1>1, <1>2, <1>3

LEMMA ServedInit == Init => Served
<1> SUFFICES ASSUME Init PROVE Served
  OBVIOUS
<1>1. runner = [t \in Tasks |-> "none"] /\ restored = FALSE
  BY MemoryIs DEF Init
<1> QED  BY <1>1 DEF Served, QueuedIsServed

LEMMA ServedStep ==
  ASSUME Integrity = FALSE, Maintenance = FALSE, SchedulerInv, WholeInv, Served, [Next]_vars,
         SchedulerInv', WholeInv'
  PROVE  Served'
<1>1. repair = "idle" /\ repair' = "idle"
  BY DEF WholeInv, Unrepaired
<1>2. CASE Alive /\ \E t \in Tasks : \/ CallPause(t) \/ Pause(t) \/ CallResume(t) \/ Resume(t)
                                     \/ Dispatch(t) \/ RunnerStep(t)
  BY <1>1, <1>2, ServedCalls, ServedQueueSteps, ServedRunSteps DEF RunnerStep
<1>3. CASE \E i \in Items : WorkerStep(i) \/ Chunk(i) \/ DownloadEnds(i)
  BY <1>1, <1>3, ServedWorkSteps
<1>4. CASE \E i \in Items : VerifyStarts(i)
  BY <1>4 DEF VerifyStarts
<1>5. CASE Edge \/ RefreshStep \/ UNCHANGED vars
  BY <1>1, <1>5, ServedQueueSteps
<1>6. CASE RepairStep
  BY <1>1, <1>6 DEF RepairStep, VerifyEnds, RepairPrepares, RepairRuns, RepairAsks, RepairChecks,
                    RepairRecomputes
<1>7. CASE CommandFails \/ Shutdown \/ GraceEnds \/ Exits \/ Crashes \/ Restart
  BY <1>7, ServedEnds
<1>8. CASE RestoreQueue
  BY <1>1, <1>8, ServedRestores
<1> QED  BY <1>2, <1>3, <1>4, <1>5, <1>6, <1>7, <1>8 DEF Next

(* A queued task is in the queue, or its pause is on the way, after races   *)
(* of pause and continue and after a restart: nothing that was accepted is  *)
(* forgotten, unless a repair or an exclusive maintenance crosses it.        *)
THEOREM NothingAcceptedIsForgotten ==
  ASSUME Integrity = FALSE, Maintenance = FALSE PROVE Spec => []QueuedIsServed
<1>1. SchedulerInv /\ [Next]_vars => SchedulerInv'
  BY SchedulerStep
<1>2. SchedulerInv /\ WholeInv /\ [Next]_vars => WholeInv'
  BY WholeStep
<1>3. SchedulerInv /\ WholeInv /\ Served /\ [Next]_vars /\ SchedulerInv' /\ WholeInv' => Served'
  BY ServedStep
<1>4. Served => QueuedIsServed
  BY DEF Served
<1> QED  BY SchedulerInit, WholeInit, ServedInit, <1>1, <1>2, <1>3, <1>4, PTL DEF Spec

-----------------------------------------------------------------------------
(* The last thing the user asked of a task is a pause that nothing overtook. *)
Paused(t) == asked[t] = "pause"

(* What the window resumes when it opens.                                   *)
Window == Row("PAUSED", "schedule")

(* The operation is about to end, or to write what it has decided.          *)
Ends == {"final", "ended", "raised"}

(* A coroutine of the task runs.                                            *)
Running(t) == \E i \in ItemsOf(t) : worker[i] \notin {"none", "raised"}

(* Nothing is on its way that would queue a paused task, its operation ends *)
(* without a new file, and its row is not one of the window's.              *)
Stops(t) == Paused(t) =>
  /\ row[t] # Window
  /\ ~fault /\ runner[t] = "final" => final[t] # Window
  /\ process = "up" /\ Running(t) => flag[t]
  /\ Sane => /\ ~Among(Resumer(t), lock)
             /\ ~(refresh = "resume" /\ t \in chosen)
             /\ op[t] \in {"none", "active"}
             /\ op[t] = "active" => /\ flag[t] /\ want[t] = {}
                                    /\ runner[t] \in Ends \/ reason[t] = "user"

(* A runner with selected items has some.                                   *)
Listed == Sane => \A t \in Tasks : runner[t] = "selected" => want[t] # {}

Stopped == Listed /\ \A t \in Tasks : Stops(t)

(* A step that takes nothing back of a pause.                               *)
Steady(t) ==
  /\ row'[t] = row[t] \/ row'[t] # Window
  /\ fault => fault'
  /\ process' = "up" => process = "up"
  /\ Sane' => Sane
  /\ ~fault' /\ runner'[t] = "final" => \/ runner[t] = "final" /\ final'[t] = final[t]
                                        \/ final'[t] # Window
  /\ process' = "up" => /\ flag[t] => flag'[t]
                        /\ Running(t)' => Running(t) \/ flag'[t]
  /\ Sane' => /\ Among(Resumer(t), lock') => Among(Resumer(t), lock)
              /\ refresh' = "resume" /\ t \in chosen' =>
                   (refresh = "resume" /\ t \in chosen) \/ row[t] = Window
              /\ op'[t] \in {"none", op[t]}
              /\ op'[t] = "active" =>
                   /\ flag[t] => flag'[t]
                   /\ want'[t] = want[t]
                   /\ \/ runner'[t] \in Ends
                      \/ runner[t] \notin Ends /\ reason'[t] \in {reason[t], "user"}

(* The flags and what was asked.                                            *)
Noted == /\ flag \in [Tasks -> BOOLEAN]
         /\ asked \in [Tasks -> {"none", "pause", "overtaken", "resume"}]

LEMMA NotedStep == ASSUME SchedulerInv, Noted, [Next]_vars PROVE Noted'
<1> DEFINE Asks == {"none", "pause", "overtaken", "resume"}
<1>1. Typed
  BY DEF SchedulerInv
<1>2. ASSUME NEW t \in Tasks, CallPause(t) \/ Pause(t) \/ CallResume(t) PROVE Noted'
  BY <1>2 DEF Noted, CallPause, Pause, CallResume
<1>3. ASSUME NEW t \in Tasks, Resume(t) PROVE Noted'
  BY <1>3 DEF Noted, Resume, Resumes
<1>4. ASSUME NEW t \in Tasks, Dispatch(t) PROVE Noted'
  BY <1>4 DEF Noted, Dispatch
<1>5. ASSUME NEW t \in Tasks, RunnerStep(t) PROVE Noted'
  BY <1>5 DEF Noted, RunnerStep, RunnerBegins, RunnerCleared, RunnerSelected, RunnerDownloading,
              RunnerLists, RunnerGathered, RunnerWrites, FinishOperation
<1>6. ASSUME NEW i \in Items, WorkerStep(i) \/ Chunk(i) \/ DownloadEnds(i) \/ VerifyStarts(i)
      PROVE  Noted'
  BY <1>6 DEF Noted, WorkerStep, Acquire, Settle, Confirms, RetryItem, RetryTask, Wakes, Retries, Chunk,
              DownloadEnds, VerifyStarts
<1>7. CASE Edge \/ RefreshStep
  BY <1>7 DEF Noted, Edge, RefreshStep, RefreshCloses, RefreshOpens, RefreshLists, RefreshResumes,
              RefreshReturns, Resumes
<1>8. CASE RepairStep
  BY <1>8 DEF Noted, RepairStep, VerifyEnds, RepairPrepares, RepairRuns, RepairQueues, RepairAsks,
              RepairChecks, RepairRecomputes
<1>9. CASE CommandFails \/ Shutdown \/ GraceEnds
  BY <1>9 DEF Noted, CommandFails, HandleFault, Shutdown, GraceEnds
<1>10. CASE Exits \/ Crashes
  BY <1>10 DEF Noted, Exits, Crashes, Gone
<1>11. CASE RestoreQueue
  BY <1>11 DEF Noted, RestoreQueue
<1>12. CASE Restart
  BY <1>12 DEF Noted, Restart, Memory
<1>13. CASE UNCHANGED vars
  BY <1>13 DEF Noted, vars
<1> QED  BY <1>2, <1>3, <1>4, <1>5, <1>6, <1>7, <1>8, <1>9, <1>10, <1>11, <1>12, <1>13 DEF Next

LEMMA StopsKept ==
  ASSUME NEW t \in Tasks, Stops(t), Paused(t)' => Paused(t) /\ Steady(t)
  PROVE  Stops(t)'
<1> SUFFICES ASSUME Paused(t)' PROVE Stops(t)'
  BY DEF Stops
<1>1. Paused(t) /\ Steady(t)
  OBVIOUS
<1>2. row[t] # Window
  BY <1>1 DEF Stops
<1>3. row'[t] # Window'
  BY <1>1, <1>2 DEF Steady, Window, Row
<1>4. ~fault' /\ runner'[t] = "final" => final'[t] # Window'
  BY <1>1 DEF Steady, Stops, Window, Row
<1>5. process' = "up" /\ Running(t)' => flag'[t]
  BY <1>1 DEF Steady, Stops
<1>6. ASSUME Sane'
      PROVE  /\ ~Among(Resumer(t), lock')
             /\ ~(refresh' = "resume" /\ t \in chosen')
             /\ op'[t] \in {"none", "active"}
             /\ op'[t] = "active" => /\ flag'[t] /\ want'[t] = {}
                                     /\ runner'[t] \in Ends \/ reason'[t] = "user"
  <2>1. /\ ~Among(Resumer(t), lock)
        /\ ~(refresh = "resume" /\ t \in chosen)
        /\ op[t] \in {"none", "active"}
        /\ op[t] = "active" => /\ flag[t] /\ want[t] = {}
                               /\ runner[t] \in Ends \/ reason[t] = "user"
    BY <1>1, <1>6 DEF Steady, Stops
  <2> QED  BY <1>1, <1>2, <1>6, <2>1 DEF Steady
<1>7. (Sane =>
        /\ ~Among(Resumer(t), lock)
        /\ ~(refresh = "resume" /\ t \in chosen)
        /\ op[t] \in {"none", "active"}
        /\ op[t] = "active" => /\ flag[t] /\ want[t] = {}
                               /\ runner[t] \in Ends \/ reason[t] = "user")'
  BY <1>6 DEF Among, Resumer, Ends
<1> QED  BY <1>3, <1>4, <1>5, <1>7 DEF Stops

LEMMA ListedKept ==
  ASSUME Listed, Sane' => Sane,
         \A t \in Tasks : runner'[t] = "selected" =>
           want'[t] # {} \/ (runner[t] = "selected" /\ want'[t] = want[t])
  PROVE  Listed'
BY DEF Listed

(* Nobody asks to continue t.                                               *)
NotAsked(t) == Among(Resumer(t), lock') => Among(Resumer(t), lock)

LEMMA NobodyAsks ==
  ASSUME lock \in Seq(Callers), NEW t \in Tasks, NEW a \in Callers, a # Resumer(t)
  PROVE  /\ lock' = Append(lock, a) => NotAsked(t)
         /\ \A b : Turn(b) /\ Leaves(<<a>>) => NotAsked(t)
         /\ \A b : Turn(b) /\ Leaves(<<>>) => NotAsked(t)
<1>1. <<a>> \in Seq(Callers) /\ <<>> \in Seq(Callers)
  OBVIOUS
<1>2. ~Among(Resumer(t), <<a>>) /\ ~Among(Resumer(t), <<>>)
  BY DEF Among
<1>3. lock' = Append(lock, a) => NotAsked(t)
  BY AmongAppend DEF NotAsked
<1>4. ASSUME NEW b, Turn(b), Leaves(<<a>>) PROVE NotAsked(t)
  BY <1>1, <1>2, <1>4, LockTurns DEF NotAsked
<1>5. ASSUME NEW b, Turn(b), Leaves(<<>>) PROVE NotAsked(t)
  BY <1>1, <1>2, <1>5, LockTurns DEF NotAsked
<1> QED  BY <1>3, <1>4, <1>5

LEMMA OthersAsk ==
  ASSUME NEW t \in Tasks
  PROVE  /\ Refresher # Resumer(t) /\ Repairer # Resumer(t)
         /\ \A u \in Tasks : /\ Pauser(u) # Resumer(t) /\ Runner(u) # Resumer(t)
                             /\ Dispatcher(u) # Resumer(t)
                             /\ u # t => Resumer(u) # Resumer(t)
         /\ \A i \in Items : Worker(i) # Resumer(t)
BY DEF Refresher, Repairer, Resumer, Pauser, Runner, Dispatcher, Worker

LEMMA StopsCallPause ==
  ASSUME SchedulerInv, Noted, NEW t \in Tasks, Stops(t), NEW u \in Tasks, CallPause(u)
  PROVE  Stops(t)'
<1> DEFINE gone == IF op[u] \in {"dispatch", "pending"} THEN {u} ELSE {}
           l == IF u \in gone THEN RemoveFirst(lock, Dispatcher(u)) ELSE lock
<1>1. /\ flag' = [flag EXCEPT ![u] = TRUE]
      /\ reason' = [reason EXCEPT ![u] = IF op[u] = "active" THEN "user" ELSE @]
      /\ op' = [op EXCEPT ![u] = IF u \in gone THEN "none" ELSE @]
      /\ lock' = Append(l, Pauser(u))
      /\ chosen' = IF refresh = "waiting" THEN chosen \ gone ELSE chosen
      /\ asked' = [asked EXCEPT ![u] = IF Overtaken(u) THEN "overtaken" ELSE "pause"]
      /\ row[u].status \in {"QUEUED", "DOWNLOADING", "WAITING_RETRY"}
      /\ UNCHANGED <<row, want, runner, final, worker, process, refresh, fault>>
  BY DEF CallPause, Completes
<1>2. Typed /\ (Sane => lock \in Seq(Callers) /\ Keyed(lock, op))
  BY DEF SchedulerInv, Together
<1>3. ASSUME Sane PROVE Among(Resumer(t), lock') => Among(Resumer(t), lock)
  <2>1. /\ l \in Seq(Callers)
        /\ Among(Resumer(t), l) => Among(Resumer(t), lock)
    <3>1. CASE u \in gone
      BY <1>2, <1>3, <3>1, KeyRemoved
    <3>2. CASE u \notin gone
      BY <1>2, <1>3, <3>2
    <3> QED  BY <3>1, <3>2
  <2> HIDE DEF gone, l
  <2> QED  BY <1>1, <2>1, AmongAppend, CallersAre, OthersAsk
<1>4. CASE t # u
  <2>1. /\ UNCHANGED <<row, want, runner, final, worker, process, refresh, fault>>
        /\ flag'[t] = flag[t] /\ reason'[t] = reason[t] /\ op'[t] = op[t] /\ asked'[t] = asked[t]
        /\ chosen' \subseteq chosen
    BY <1>1, <1>2, <1>4 DEF Typed, Noted
  <2>2. Sane' <=> Sane
    BY <2>1 DEF Sane
  <2>3. Running(t)' <=> Running(t)
    BY <2>1 DEF Running
  <2>4. Sane /\ Stops(t) /\ Paused(t) /\ op[t] = "active" => runner[t] \in Ends \/ reason[t] = "user"
    BY DEF Stops
  <2>5. Paused(t)' => Paused(t)
    BY <2>1 DEF Paused
  <2>6. Paused(t) => Steady(t)
    BY <1>3, <2>1, <2>2, <2>3, <2>4 DEF Steady
  <2> QED  BY <2>5, <2>6, StopsKept
<1>5. CASE t = u
  <2> SUFFICES ASSUME Paused(t)' PROVE Stops(t)'
    BY DEF Stops
  <2>1. asked'[t] = "pause" /\ ~Overtaken(t)
    BY <1>1, <1>5 DEF Paused, Noted
  <2>2. /\ ~Among(Resumer(t), lock) /\ ~(refresh = "resume" /\ t \in chosen)
        /\ final[t].status # "PAUSED" /\ want[t] = {}
    BY <2>1 DEF Overtaken, Among
  <2>3. row'[t] # Window' /\ final'[t] # Window'
    BY <1>1, <1>5, <2>2 DEF Window, Row
  <2>4. /\ (op[t] = "active" => reason'[t] = "user") /\ op'[t] \in {"none", "active"}
        /\ (op'[t] = "active" => op[t] = "active")
        /\ want'[t] = {} /\ ~(refresh' = "resume" /\ t \in chosen')
    BY <1>1, <1>2, <1>5, <2>2 DEF Typed, OpStates
  <2>5. Sane' <=> Sane
    BY <1>1 DEF Sane
  <2>6. flag'[t]
    BY <1>1, <1>5 DEF Noted
  <2> QED  BY <1>3, <2>2, <2>3, <2>4, <2>5, <2>6 DEF Stops, Among, Resumer, Sane, Ends
<1> QED  BY <1>4, <1>5

LEMMA StopsCalls ==
  ASSUME SchedulerInv, Noted, NEW t \in Tasks, Stops(t), NEW u \in Tasks, Pause(u) \/ CallResume(u)
  PROVE  Stops(t)'
<1>1. Typed /\ (Sane => lock \in Seq(Callers))
  BY DEF SchedulerInv, Together
<1>2. CASE Pause(u)
  <2>1. /\ Turn(Pauser(u)) /\ Leaves(<<>>)
        /\ row' = [row EXCEPT ![u] =
               IF @.status \in {"QUEUED", "DOWNLOADING", "WAITING_RETRY"}
               THEN Row("PAUSED", "user") ELSE @]
        /\ UNCHANGED <<memory, runner, final, worker, process, refresh, chosen, asked, fault>>
    BY <1>2 DEF Pause
  <2>2. row'[t] = row[t] \/ row'[t] = Row("PAUSED", "user")
    BY <1>1, <2>1 DEF Typed
  <2>3. Row("PAUSED", "user") # Window
    BY DEF Row, Window
  <2>4. Sane => NotAsked(t)
    BY <1>1, <2>1, NobodyAsks, CallersAre, OthersAsk
  <2>5. Paused(t) /\ Stops(t) => Steady(t)
    BY <2>1, <2>2, <2>3, <2>4 DEF Steady, NotAsked, Sane, Running, Stops
  <2> QED  BY <2>1, <2>5, StopsKept DEF Paused
<1>3. CASE CallResume(u)
  <2>1. /\ lock' = Append(lock, Resumer(u)) /\ asked' = [asked EXCEPT ![u] = "resume"]
        /\ UNCHANGED <<db, memory, runner, final, worker, process, refresh, chosen, fault>>
    BY <1>3 DEF CallResume
  <2>2. Paused(t)' => Paused(t) /\ t # u
    BY <2>1 DEF Paused, Noted
  <2>3. Sane /\ t # u => NotAsked(t)
    BY <1>1, <2>1, NobodyAsks, CallersAre, OthersAsk
  <2>4. Paused(t) /\ t # u /\ Stops(t) => Steady(t)
    BY <2>1, <2>3 DEF Steady, NotAsked, Sane, Running, Stops
  <2> QED  BY <2>2, <2>4, StopsKept
<1> QED  BY <1>2, <1>3

(* What resume_tasks does of S, in which t is not.                          *)
LEMMA StopsResumes ==
  ASSUME SchedulerInv, NEW t \in Tasks, Stops(t), NEW b, Turn(b), NEW S \in SUBSET Tasks,
         Resumes(S), Paused(t) /\ Sane => t \notin S,
         Paused(t) /\ refresh' = "resume" /\ t \in chosen' => refresh = "resume" /\ t \in chosen,
         UNCHANGED <<runner, final, worker, process, asked, fault>>
  PROVE  Stops(t)'
<1>1. Typed /\ (Sane => lock \in Seq(Callers))
  BY DEF SchedulerInv, Together
<1>2. row'[t] = row[t] \/ row'[t] = Row("QUEUED", "none")
  BY DEF Resumes
<1>3. Row("QUEUED", "none") # Window
  BY DEF Row, Window
<1>4. ASSUME Paused(t), Sane
      PROVE  /\ flag'[t] = flag[t] /\ reason'[t] = reason[t]
             /\ op'[t] = op[t] /\ want'[t] = want[t] /\ NotAsked(t)
  <2>1. t \notin S /\ flag'[t] = flag[t] /\ reason'[t] = reason[t]
    BY <1>4 DEF Resumes
  <2>2. CASE ShuttingDown
    <3>1. Leaves(<<>>) /\ UNCHANGED <<op, want>>
      BY <2>2 DEF Resumes
    <3> QED  BY <1>1, <1>4, <2>1, <3>1, NobodyAsks, CallersAre, OthersAsk
  <2>3. CASE ~ShuttingDown
    <3>1. RunTasks(S) /\ \E q \in Queues(S) : Leaves(q)
      BY <2>3 DEF Resumes
    <3>2. op'[t] = op[t] /\ want'[t] = want[t] /\ \A v \in New(S) : op'[v] = "dispatch"
      BY <2>1, <3>1 DEF RunTasks, New
    <3>3. PICK q \in Queues(S) : Leaves(q)
      BY <3>1
    <3>4. q \in Seq(Callers) /\ \A a : Among(a, q) => \E u \in Tasks : a = Dispatcher(u)
      BY <3>2, QueueIs
    <3>5. ~Among(Resumer(t), q)
      BY <3>4, OthersAsk
    <3>6. NotAsked(t)
      BY <1>1, <1>4, <3>3, <3>4, <3>5, LockTurns DEF NotAsked
    <3> QED  BY <2>1, <3>2, <3>6
  <2> QED  BY <2>2, <2>3
<1>5. Paused(t) => Steady(t)
  <2>1. process = "up" => Sane
    BY DEF Sane, Turn
  <2>2. (Sane' <=> Sane) /\ (Running(t)' <=> Running(t))
    BY DEF Sane, Running
  <2>3. Paused(t) /\ Sane /\ op[t] = "active" => runner[t] \in Ends \/ reason[t] = "user"
    BY DEF Stops
  <2> QED  BY <1>2, <1>3, <1>4, <2>1, <2>2, <2>3 DEF Steady, NotAsked
<1> QED  BY <1>5, StopsKept DEF Paused

LEMMA StopsResumeSteps ==
  ASSUME SchedulerInv, NEW t \in Tasks, Stops(t), RefreshResumes \/ \E u \in Tasks : Resume(u)
  PROVE  Stops(t)'
<1>1. ASSUME NEW u \in Tasks, Resume(u) PROVE Stops(t)'
  <2>1. /\ Turn(Resumer(u)) /\ Resumes(Resumable({u}))
        /\ UNCHANGED <<runner, final, worker, process, asked, fault, refresh, chosen>>
    BY <1>1 DEF Resume
  <2>2. Resumable({u}) \in SUBSET Tasks
    BY DEF Resumable
  <2>3. Sane => Among(Resumer(u), lock)
    <3>1. Sane => lock # <<>> /\ lock[1] = Resumer(u) /\ lock \in Seq(Callers)
      BY <2>1 DEF Turn, SchedulerInv, Together
    <3>2. Sane => 1 \in DOMAIN lock
      BY <3>1, EmptySeq, LenProperties
    <3> QED  BY <3>1, <3>2 DEF Among
  <2>4. Paused(t) /\ Sane => t \notin Resumable({u})
    BY <2>3 DEF Stops, Resumable
  <2> QED  BY <2>1, <2>2, <2>4, StopsResumes
<1>2. CASE RefreshResumes
  <2>1. /\ Turn(Refresher) /\ Resumes(Resumable(chosen)) /\ refresh = "resume" /\ refresh' = "waiting"
        /\ UNCHANGED <<runner, final, worker, process, asked, fault>>
    BY <1>2 DEF RefreshResumes
  <2>2. Resumable(chosen) \in SUBSET Tasks
    BY DEF Resumable, SchedulerInv, Typed
  <2>3. Paused(t) /\ Sane => t \notin Resumable(chosen)
    BY <2>1 DEF Stops, Resumable
  <2> QED  BY <2>1, <2>2, <2>3, StopsResumes
<1> QED  BY <1>1, <1>2

LEMMA StopsRestores ==
  ASSUME SchedulerInv, Noted, NEW t \in Tasks, Stops(t), RestoreQueue
  PROVE  Stops(t)'
<1> DEFINE S == {u \in Tasks : row[u].status = "QUEUED"}
<1>1. /\ RunTasks(S) /\ \E q \in Queues(S) : lock' = lock \o q
      /\ asked' = [u \in Tasks |-> IF u \in New(S) /\ asked[u] = "pause" THEN "overtaken"
                                   ELSE asked[u]]
      /\ process = "up" /\ ~fault
      /\ UNCHANGED <<row, flag, reason, runner, final, worker, process, refresh, chosen, fault>>
  BY DEF RestoreQueue
<1>2. Sane /\ lock \in Seq(Callers) /\ S \in SUBSET Tasks
  BY <1>1 DEF Sane, SchedulerInv, Together
<1> HIDE DEF S
<1>3. Paused(t)' => Paused(t) /\ t \notin New(S)
  BY <1>1 DEF Paused
<1>4. /\ \A u \in New(S) : op'[u] = "dispatch"
      /\ t \notin New(S) => op'[t] = op[t] /\ want'[t] = want[t]
  BY <1>1, <1>2 DEF RunTasks, New
<1>5. NotAsked(t)
  <2>1. PICK q \in Queues(S) : lock' = lock \o q
    BY <1>1
  <2>2. q \in Seq(Callers) /\ \A a : Among(a, q) => \E u \in Tasks : a = Dispatcher(u)
    BY <1>2, <1>4, QueueIs
  <2>3. ~Among(Resumer(t), q)
    BY <2>2, OthersAsk
  <2> QED  BY <1>2, <2>1, <2>2, <2>3, AmongJoin DEF NotAsked
<1>6. Paused(t) /\ t \notin New(S) /\ Stops(t) => Steady(t)
  BY <1>1, <1>2, <1>4, <1>5 DEF Steady, NotAsked, Sane, Running, Stops
<1> QED  BY <1>3, <1>6, StopsKept

(* Operations are admitted or leave the table.                              *)
LEMMA StopsAdmits ==
  ASSUME NEW t \in Tasks, Stops(t),
         NEW ops \in [Tasks -> OpStates], NEW open, NEW rc \in [Tasks -> RunnerStates],
         Admitted(ops, open, rc), Paused(t) /\ Sane => ops[t] \in {"none", op[t]},
         rc[t] = runner[t] \/ rc[t] = "none",
         Sane /\ ops[t] = "active" => want'[t] = want[t] /\ rc[t] = runner[t],
         Paused(t) /\ refresh' = "resume" /\ t \in chosen' => refresh = "resume" /\ t \in chosen,
         Sane => NotAsked(t),
         UNCHANGED <<row, flag, reason, final, worker, process, asked, fault>>
  PROVE  Stops(t)'
<1>1. \/ op'[t] = ops[t] /\ runner'[t] = rc[t]
      \/ op'[t] = "active" /\ runner'[t] = "begin" /\ ops[t] = "pending"
  BY AdmittedIs
<1>2. ASSUME Paused(t) PROVE Steady(t)
  <2>1. Sane => ops[t] # "pending" /\ (op[t] = "active" => runner[t] \in Ends \/ reason[t] = "user")
    BY <1>2 DEF Stops
  <2> QED  BY <1>1, <1>2, <2>1 DEF Steady, NotAsked, Sane, Running
<1> QED  BY <1>2, StopsKept DEF Paused

LEMMA StopsQueueSteps ==
  ASSUME SchedulerInv, NEW t \in Tasks, Stops(t),
         RefreshOpens \/ \E u \in Tasks : Dispatch(u) \/ FinishOperation(u)
  PROVE  Stops(t)'
<1>1. Typed /\ (Sane => lock \in Seq(Callers) /\ Seated)
  BY DEF SchedulerInv, Together
<1>2. ASSUME NEW u \in Tasks, Dispatch(u) PROVE Stops(t)'
  <2> DEFINE ops == [op EXCEPT ![u] = "pending"]
  <2>1. /\ Turn(Dispatcher(u)) /\ Leaves(<<>>) /\ Admitted(ops, admission, runner)
        /\ UNCHANGED <<row, flag, reason, want, final, worker, process, refresh, chosen, asked, fault>>
    BY <1>2 DEF Dispatch
  <2>2. ops \in [Tasks -> OpStates] /\ runner \in [Tasks -> RunnerStates] /\ (t # u => ops[t] = op[t])
    BY <1>1 DEF Typed, OpStates
  <2>3. Sane => op[u] = "dispatch"
    <3>1. Sane => lock # <<>> /\ lock[1] = Dispatcher(u) /\ 1 \in DOMAIN lock
      BY <1>1, <2>1, EmptySeq, LenProperties DEF Turn
    <3> QED  BY <3>1 DEF SchedulerInv, Together, Keyed
  <2>4. Paused(t) /\ Sane => t # u
    BY <2>3 DEF Stops
  <2>5. Sane => NotAsked(t)
    BY <1>1, <2>1, NobodyAsks, CallersAre, OthersAsk
  <2> HIDE DEF ops
  <2> QED  BY <2>1, <2>2, <2>4, <2>5, StopsAdmits
<1>3. ASSUME NEW u \in Tasks, FinishOperation(u) PROVE Stops(t)'
  <2> DEFINE ops == [op EXCEPT ![u] = "none"]
             rc == [runner EXCEPT ![u] = "none"]
  <2>1. /\ Admitted(ops, admission, rc) /\ want' = [want EXCEPT ![u] = {}]
        /\ refresh' = "resume" /\ t \in chosen' => refresh = "resume" /\ t \in chosen
        /\ UNCHANGED <<row, flag, reason, final, worker, lock, process, asked, fault>>
    <3>1. CASE runner[u] = "ended"
      BY <1>3, <3>1 DEF FinishOperation, Completes
    <3>2. CASE runner[u] # "ended"
      BY <1>3, <3>2 DEF FinishOperation
    <3> QED  BY <3>1, <3>2
  <2>2. /\ ops \in [Tasks -> OpStates] /\ rc \in [Tasks -> RunnerStates]
        /\ ops[t] \in {"none", op[t]} /\ (rc[t] = runner[t] \/ rc[t] = "none")
        /\ (ops[t] = "active" => want'[t] = want[t] /\ rc[t] = runner[t])
    BY <1>1, <2>1 DEF Typed, OpStates, RunnerStates
  <2>3. NotAsked(t)
    BY <2>1 DEF NotAsked
  <2> HIDE DEF ops, rc
  <2> QED  BY <2>1, <2>2, <2>3, StopsAdmits
<1>4. CASE RefreshOpens
  <2>1. /\ Admitted(op, TRUE, runner) /\ refresh' = "list" /\ lock' = Append(lock, Refresher)
        /\ UNCHANGED <<row, flag, reason, want, final, worker, process, chosen, asked, fault>>
    BY <1>4 DEF RefreshOpens
  <2>2. op \in [Tasks -> OpStates] /\ runner \in [Tasks -> RunnerStates]
    BY <1>1 DEF Typed
  <2>3. Sane => NotAsked(t)
    BY <1>1, <2>1, NobodyAsks, CallersAre, OthersAsk
  <2> QED  BY <2>1, <2>2, <2>3, StopsAdmits
<1> QED  BY <1>2, <1>3, <1>4

(* A step of u's runner that writes no row and spawns nothing.              *)
LEMMA StopsRunners ==
  ASSUME SchedulerInv, Noted, Listed, NEW t \in Tasks, Stops(t), NEW u \in Tasks,
         RunnerBegins(u) \/ RunnerCleared(u) \/ RunnerSelected(u)
  PROVE  Stops(t)'
<1>1. Typed /\ (Sane => lock \in Seq(Callers))
  BY DEF SchedulerInv, Together
<1>2. /\ UNCHANGED <<row, op, want, final, worker, process, refresh, chosen, asked, fault>>
      /\ \E p \in {"priority", "raised", "downloading", "selected"} : runner' = [runner EXCEPT ![u] = p]
      /\ runner[u] \in {"begin", "priority", "selected"}
      /\ runner[u] # "selected" => UNCHANGED <<flag, reason>>
      /\ flag' = flag \/ (runner[u] = "selected" /\ Turn(Runner(u)) /\ flag' = [flag EXCEPT ![u] = FALSE])
      /\ reason' = reason \/ (reason' = [reason EXCEPT ![u] = "none"] /\ runner'[u] = "raised")
  <2>1. CASE RunnerBegins(u)
    BY <2>1 DEF RunnerBegins
  <2>2. CASE RunnerCleared(u)
    BY <2>2 DEF RunnerCleared
  <2>3. CASE RunnerSelected(u)
    BY <1>1, <2>3 DEF RunnerSelected, Typed
  <2> QED  BY <2>1, <2>2, <2>3
<1>3. Sane => NotAsked(t)
  <2>1. CASE RunnerBegins(u)
    BY <1>1, <2>1, NobodyAsks, CallersAre, OthersAsk DEF RunnerBegins, NotAsked
  <2>2. CASE RunnerCleared(u)
    BY <1>1, <2>2, NobodyAsks, CallersAre, OthersAsk DEF RunnerCleared
  <2>3. CASE RunnerSelected(u)
    BY <1>1, <2>3, NobodyAsks, CallersAre, OthersAsk DEF RunnerSelected
  <2> QED  BY <2>1, <2>2, <2>3
<1>4. ASSUME Paused(t), t = u, runner[u] = "selected", ~fault PROVE ~Sane
  <2>1. SUFFICES ASSUME Sane PROVE FALSE
    OBVIOUS
  <2>2. op[t] = "active" /\ want[t] # {}
    BY <1>4, <2>1 DEF Listed, SchedulerInv, Together, Seated
  <2> QED  BY <1>4, <2>1, <2>2 DEF Stops
<1>5. ASSUME Paused(t) PROVE Steady(t)
  <2>1. (Sane' <=> Sane) /\ (Running(t)' <=> Running(t))
    BY <1>2 DEF Sane, Running
  <2>2. Sane => flag'[t] = flag[t]
    BY <1>1, <1>2, <1>4, <1>5 DEF Noted, Turn
  <2>3. process' = "up" => flag'[t] = flag[t]
    BY <1>1, <1>2, <2>2 DEF Noted, Turn, Sane
  <2>4. runner'[t] = "final" => runner[t] = "final"
    BY <1>1, <1>2 DEF Typed
  <2>5. runner'[t] \in Ends \/ (runner[t] \notin Ends /\ reason'[t] = reason[t])
    BY <1>1, <1>2 DEF Typed, Ends
  <2> QED  BY <1>2, <1>3, <2>1, <2>2, <2>3, <2>4, <2>5 DEF Steady, NotAsked
<1> QED  BY <1>2, <1>5, StopsKept DEF Paused

(* The coroutines of u's files start.                                       *)
LEMMA StopsSpawns ==
  ASSUME SchedulerInv, NEW t \in Tasks, Stops(t), NEW u \in Tasks,
         RunnerDownloading(u) \/ RunnerLists(u)
  PROVE  Stops(t)'
<1>1. Typed /\ (Sane => lock \in Seq(Callers) /\ Seated /\ Selected)
  BY DEF SchedulerInv, Together
<1>2. /\ UNCHANGED <<flag, reason, op, want, final, process, refresh, chosen, asked, fault>>
      /\ row' = row \/ row' = [row EXCEPT ![u] = Row("DOWNLOADING", "none")]
      /\ \E p \in {"list", "gather"} : runner' = [runner EXCEPT ![u] = p]
      /\ runner[u] \in {"downloading", "list"} /\ ~fault
  <2>1. CASE RunnerDownloading(u)
    BY <2>1 DEF RunnerDownloading, Turn
  <2>2. CASE RunnerLists(u)
    BY <2>2 DEF RunnerLists, Turn
  <2> QED  BY <2>1, <2>2
<1>3. Sane => \A i \in Items : i[1] # u => worker'[i] = worker[i]
  <2>1. CASE RunnerDownloading(u)
    <3>1. want[u] = {} \/ Spawns(u, want[u])
      BY <2>1 DEF RunnerDownloading
    <3>2. want[u] = {} => worker' = worker
      BY <2>1 DEF RunnerDownloading
    <3>3. Sane => want[u] \subseteq ItemsOf(u)
      BY <1>1 DEF Selected
    <3> QED  BY <1>1, <3>1, <3>2, <3>3 DEF Spawns, ItemsOf
  <2>2. CASE RunnerLists(u)
    BY <2>2 DEF RunnerLists, Spawns, Unfinished, ItemsOf
  <2> QED  BY <2>1, <2>2
<1>4. Sane => NotAsked(t)
  <2>1. CASE RunnerDownloading(u)
    BY <1>1, <2>1, NobodyAsks, CallersAre, OthersAsk DEF RunnerDownloading
  <2>2. CASE RunnerLists(u)
    BY <1>1, <2>2, NobodyAsks, CallersAre, OthersAsk DEF RunnerLists
  <2> QED  BY <2>1, <2>2
<1>5. ASSUME Paused(t) PROVE Steady(t)
  <2>1. Row("DOWNLOADING", "none") # Window
    BY DEF Row, Window
  <2>2. row'[t] = row[t] \/ row'[t] # Window
    BY <1>1, <1>2, <2>1 DEF Typed
  <2>3. process = "up" => Sane
    BY <1>2 DEF Sane
  <2>4. Sane /\ Running(t)' => Running(t) \/ flag[t]
    <3>1. CASE t = u
      BY <1>1, <1>2, <1>5, <3>1 DEF Stops, Seated
    <3>2. CASE t # u
      BY <1>3, <3>2 DEF Running, ItemsOf
    <3> QED  BY <3>1, <3>2
  <2>5. Sane' <=> Sane
    BY <1>2 DEF Sane
  <2>6. runner'[t] = runner[t] \/ (runner[t] \notin Ends /\ runner'[t] \notin Ends)
    BY <1>1, <1>2 DEF Typed, Ends
  <2>7. Sane /\ op[t] = "active" => runner[t] \in Ends \/ reason[t] = "user"
    BY <1>5 DEF Stops
  <2> QED  BY <1>2, <1>4, <2>2, <2>3, <2>4, <2>5, <2>6, <2>7 DEF Steady, NotAsked, Ends
<1> QED  BY <1>2, <1>5, StopsKept DEF Paused

LEMMA StopsGathered ==
  ASSUME SchedulerInv, NEW t \in Tasks, Stops(t), NEW u \in Tasks, RunnerGathered(u), Alive
  PROVE  Stops(t)'
<1> DEFINE some(s) == \E i \in ItemsOf(u) : worker[i] = s
<1>1. Typed /\ (Sane => lock \in Seq(Callers) /\ Seated)
  BY DEF SchedulerInv, Together
<1>2. /\ UNCHANGED <<row, flag, op, want, process, refresh, chosen, asked, fault>>
      /\ runner[u] = "gather"
      /\ worker' = [i \in Items |-> IF i \in ItemsOf(u) THEN "none" ELSE worker[i]]
      /\ process = "cancelled" => /\ runner' = [runner EXCEPT ![u] = "ended"]
                                  /\ UNCHANGED final
      /\ process # "cancelled" =>
           /\ runner' = [runner EXCEPT ![u] = "final"]
           /\ lock' = Append(lock, Runner(u))
           /\ final' = [final EXCEPT ![u] =
                CASE some("paused") ->
                       Row("PAUSED", IF reason[u] = "none" THEN "user" ELSE reason[u])
                  [] ~some("paused") /\ want[u] # {} -> Row("recompute", "none")
                  [] ~some("paused") /\ want[u] = {} /\ some("failed") ->
                       Row("PARTIAL_FAILURE", "none")
                  [] OTHER -> Row("COMPLETED", "none")]
           /\ reason' = [reason EXCEPT ![u] = IF some("paused") THEN "none" ELSE @]
  BY DEF RunnerGathered
<1> HIDE DEF some
<1>3. Sane => NotAsked(t) /\ process # "cancelled"
  BY <1>1, <1>2, NobodyAsks, CallersAre, OthersAsk DEF Sane
<1>4. ASSUME Paused(t), t = u, Sane PROVE final'[t] # Window
  <2>1. reason[u] = "user"
    BY <1>1, <1>2, <1>4 DEF Seated, Stops, Ends
  <2>2. \A s, w : Row(s, w).status = s /\ Row(s, w).why = w
    BY DEF Row
  <2>3. final'[u] = CASE some("paused") ->
                       Row("PAUSED", IF reason[u] = "none" THEN "user" ELSE reason[u])
                  [] ~some("paused") /\ want[u] # {} -> Row("recompute", "none")
                  [] ~some("paused") /\ want[u] = {} /\ some("failed") ->
                       Row("PARTIAL_FAILURE", "none")
                  [] OTHER -> Row("COMPLETED", "none")
    BY <1>1, <1>2, <1>3, <1>4 DEF Typed
  <2>4. CASE some("paused")
    <3>1. final'[u] = Row("PAUSED", "user")
      BY <2>1, <2>3, <2>4
    <3> QED  BY <1>4, <2>2, <3>1 DEF Window
  <2>5. CASE ~some("paused")
    <3>1. final'[u] \in {Row("recompute", "none"), Row("PARTIAL_FAILURE", "none"), Row("COMPLETED", "none")}
      BY <2>3, <2>5
    <3> QED  BY <1>4, <2>2, <3>1 DEF Window
  <2> QED  BY <2>4, <2>5
<1>5. ASSUME Paused(t) PROVE Steady(t)
  <2>1. Sane' <=> Sane
    BY <1>2 DEF Sane
  <2>2. ~fault /\ process # "cancelled" => Sane
    BY DEF Sane, Alive
  <2>3. ~fault /\ runner'[t] = "final" => \/ runner[t] = "final" /\ final'[t] = final[t]
                                          \/ final'[t] # Window
    <3>1. CASE process = "cancelled"
      BY <1>1, <1>2, <3>1 DEF Typed
    <3>2. CASE process # "cancelled" /\ t = u
      BY <1>4, <1>5, <2>2, <3>2
    <3>3. CASE process # "cancelled" /\ t # u
      BY <1>1, <1>2, <3>3 DEF Typed
    <3> QED  BY <3>1, <3>2, <3>3
  <2>4. Running(t)' => Running(t)
    BY <1>2 DEF Running, ItemsOf
  <2>5. Sane => \/ runner'[t] \in Ends
                \/ runner'[t] = runner[t] /\ reason'[t] = reason[t]
    BY <1>1, <1>2, <1>3 DEF Typed, Ends
  <2>6. Sane /\ op[t] = "active" => runner[t] \in Ends \/ reason[t] = "user"
    BY <1>5 DEF Stops
  <2> QED  BY <1>2, <1>3, <2>1, <2>3, <2>4, <2>5, <2>6 DEF Steady, NotAsked
<1> QED  BY <1>2, <1>5, StopsKept DEF Paused

LEMMA OpenRows ==
  /\ \A t, it : Recomputed(t, it) # Window
  /\ \A t : Row("WAITING_RETRY", "none") # Window /\ Row("DOWNLOADING", "none") # Window
  /\ Row("PARTIAL_FAILURE", "none") # Window
<1>1. \A s, w : Row(s, w).status = s /\ Row(s, w).why = w
  BY DEF Row
<1>2. ASSUME NEW t, NEW it PROVE Recomputed(t, it) # Window
  <2>1. Recomputed(t, it) \in
          {Row("DOWNLOADING", "none"), Row("WAITING_RETRY", "none"), Row("PARTIAL_FAILURE", "none"),
           Row("PAUSED", "user"), Row("COMPLETED", "none"), Row("QUEUED", "none")}
    BY DEF Recomputed
  <2> QED  BY <1>1, <2>1 DEF Window
<1> QED  BY <1>1, <1>2 DEF Window

LEMMA StopsWrites ==
  ASSUME SchedulerInv, NEW t \in Tasks, Stops(t), NEW u \in Tasks, RunnerWrites(u)
  PROVE  Stops(t)'
<1>1. Typed /\ (Sane => lock \in Seq(Callers))
  BY DEF SchedulerInv, Together
<1>2. /\ Turn(Runner(u)) /\ runner[u] = "final" /\ Leaves(<<>>) /\ ~fault
      /\ row' = [row EXCEPT ![u] =
                   IF final[u].status = "recompute" THEN Recomputed(u, item) ELSE final[u]]
      /\ final' = [final EXCEPT ![u] = Row("none", "none")]
      /\ reason' = [reason EXCEPT ![u] = "none"]
      /\ runner' = [runner EXCEPT ![u] = "ended"]
      /\ UNCHANGED <<flag, op, want, worker, process, refresh, chosen, asked, fault>>
  BY DEF RunnerWrites, Turn
<1>3. Sane => NotAsked(t)
  BY <1>1, <1>2, NobodyAsks, CallersAre, OthersAsk
<1>4. ASSUME Paused(t) PROVE Steady(t)
  <2>1. row'[t] = row[t] \/ row'[t] # Window
    <3>1. CASE t = u
      <4>1. final[t] # Window
        BY <1>2, <1>4, <3>1 DEF Stops
      <4>2. row'[t] = IF final[u].status = "recompute" THEN Recomputed(u, item) ELSE final[u]
        BY <1>1, <1>2, <3>1 DEF Typed
      <4> QED  BY <3>1, <4>1, <4>2, OpenRows
    <3>2. CASE t # u
      BY <1>1, <1>2, <3>2 DEF Typed
    <3> QED  BY <3>1, <3>2
  <2>2. \/ t # u /\ runner'[t] = runner[t] /\ reason'[t] = reason[t] /\ final'[t] = final[t]
        \/ runner'[t] = "ended"
    BY <1>1, <1>2 DEF Typed
  <2>3. (Sane' <=> Sane) /\ (Running(t)' <=> Running(t))
    BY <1>2 DEF Sane, Running
  <2>4. Sane /\ op[t] = "active" => runner[t] \in Ends \/ reason[t] = "user"
    BY <1>4 DEF Stops
  <2> QED  BY <1>2, <1>3, <2>1, <2>2, <2>3, <2>4 DEF Steady, NotAsked, Ends
<1> QED  BY <1>2, <1>4, StopsKept DEF Paused

(* A step of one coroutine of u = i[1].                                     *)
LEMMA StopsWorks ==
  ASSUME SchedulerInv, NEW t \in Tasks, Stops(t), NEW i \in Items,
         WorkerStep(i) \/ Chunk(i) \/ DownloadEnds(i)
  PROVE  Stops(t)'
<1>1. Typed /\ (Sane => lock \in Seq(Callers) /\ Seated /\ Gathered)
  BY DEF SchedulerInv, Together
<1>2. /\ UNCHANGED <<flag, op, want, runner, final, process, refresh, chosen, asked, fault>>
      /\ \E r \in {Row("WAITING_RETRY", "none"), Row("DOWNLOADING", "none"), Recomputed(i[1], item')} :
           row' = row \/ row' = [row EXCEPT ![i[1]] = r]
      /\ reason' = reason \/ reason' = [reason EXCEPT ![i[1]] = "user"]
      /\ worker[i] \notin {"none", "raised"}
      /\ \E p : worker' = [worker EXCEPT ![i] = p]
  <2>1. CASE Acquire(i)
    BY <2>1 DEF Acquire, Goes
  <2>2. CASE Settle(i)
    BY <2>2 DEF Settle
  <2>3. CASE RetryItem(i)
    BY <2>3 DEF RetryItem
  <2>4. CASE RetryTask(i)
    BY <2>4 DEF RetryTask
  <2>5. CASE Wakes(i)
    BY <2>5 DEF Wakes, Goes
  <2>6. CASE Retries(i)
    BY <2>6 DEF Retries
  <2>7. CASE Chunk(i)
    <3>1. worker' = [worker EXCEPT ![i] = worker[i]]
      BY <1>1, <2>7 DEF Chunk, Typed
    <3> QED  BY <2>7, <3>1 DEF Chunk
  <2>8. CASE DownloadEnds(i)
    BY <2>8 DEF DownloadEnds, FloodWaits, Goes
  <2>9. CASE Confirms(i)
    BY <2>9 DEF Confirms
  <2> QED  BY <2>1, <2>2, <2>3, <2>4, <2>5, <2>6, <2>7, <2>8, <2>9 DEF WorkerStep
<1>3. Sane => NotAsked(t)
  <2>1. \A p : Goes(i, p) /\ Sane => NotAsked(t)
    BY <1>1, NobodyAsks, CallersAre, OthersAsk DEF Goes, NotAsked
  <2>2. CASE Acquire(i) \/ Wakes(i) \/ DownloadEnds(i)
    BY <2>1, <2>2 DEF Acquire, Wakes, DownloadEnds, FloodWaits
  <2>3. CASE Settle(i) \/ Confirms(i) \/ RetryItem(i) \/ RetryTask(i)
    BY <1>1, <2>3, NobodyAsks, CallersAre, OthersAsk DEF Settle, Confirms, RetryItem, RetryTask
  <2>4. CASE Retries(i)
    BY <1>1, <2>4, NobodyAsks, CallersAre, OthersAsk DEF Retries
  <2>5. CASE Chunk(i)
    BY <2>5 DEF Chunk, NotAsked
  <2> QED  BY <2>2, <2>3, <2>4, <2>5 DEF WorkerStep
<1>4. ASSUME Paused(t) PROVE Steady(t)
  <2>1. row'[t] = row[t] \/ row'[t] # Window
    BY <1>1, <1>2, OpenRows DEF Typed
  <2>2. reason'[t] \in {reason[t], "user"}
    BY <1>1, <1>2 DEF Typed
  <2>3. Running(t)' => Running(t)
    <3>1. \A j \in Items : worker'[j] \notin {"none", "raised"} => worker[j] \notin {"none", "raised"}
      BY <1>1, <1>2 DEF Typed
    <3> QED  BY <3>1 DEF Running, ItemsOf
  <2>4. Sane' <=> Sane
    BY <1>2 DEF Sane
  <2>5. Sane /\ op[t] = "active" => runner[t] \in Ends \/ reason[t] = "user"
    BY <1>4 DEF Stops
  <2> QED  BY <1>2, <1>3, <2>1, <2>2, <2>3, <2>4, <2>5 DEF Steady, NotAsked
<1> QED  BY <1>2, <1>4, StopsKept DEF Paused

(* The window and the repair.                                               *)
LEMMA StopsControls ==
  ASSUME SchedulerInv, Noted, NEW t \in Tasks, Stops(t),
         \/ Edge \/ RefreshCloses \/ RefreshLists \/ RefreshReturns
         \/ RepairStep \/ \E i \in Items : VerifyStarts(i)
  PROVE  Stops(t)'
<1>1. Typed /\ (Sane => lock \in Seq(Callers) /\ Seated)
  BY DEF SchedulerInv, Together
<1>2. Sane /\ Paused(t) /\ op[t] = "active" => runner[t] \in Ends \/ reason[t] = "user"
  BY DEF Stops
<1>3. CASE Edge \/ RefreshReturns
  <2>1. /\ UNCHANGED <<row, flag, reason, op, want, runner, final, worker, lock, process, asked, fault>>
        /\ refresh' = "resume" /\ t \in chosen' => refresh = "resume" /\ t \in chosen
    BY <1>3 DEF Edge, RefreshReturns
  <2>2. Paused(t) => Steady(t)
    BY <1>2, <2>1 DEF Steady, Sane, Running
  <2> QED  BY <2>1, <2>2, StopsKept DEF Paused
<1>4. CASE RefreshCloses
  <2>1. /\ reason' = [v \in Tasks |-> IF v \in Active /\ reason[v] = "none" THEN "schedule"
                                      ELSE reason[v]]
        /\ flag' = [v \in Tasks |-> flag[v] \/ v \in Active]
        /\ UNCHANGED <<row, op, want, runner, final, worker, lock, process, refresh, chosen, asked, fault>>
    BY <1>4 DEF RefreshCloses
  <2>2. (flag[t] => flag'[t]) /\ (reason[t] = "user" => reason'[t] = "user")
    BY <2>1
  <2>3. Paused(t) => Steady(t)
    BY <1>2, <2>1, <2>2 DEF Steady, Sane, Running
  <2> QED  BY <2>1, <2>3, StopsKept DEF Paused
<1>5. CASE RefreshLists
  <2>1. UNCHANGED <<row, flag, reason, op, want, runner, final, worker, process, asked, fault>>
    BY <1>5 DEF RefreshLists
  <2>2. Sane => NotAsked(t)
    BY <1>1, <1>5, NobodyAsks, CallersAre, OthersAsk DEF RefreshLists
  <2>3. refresh' = "resume" /\ t \in chosen' => row[t] = Window
    BY <1>5 DEF RefreshLists, Window
  <2>4. Paused(t) => Steady(t)
    BY <1>2, <2>1, <2>2, <2>3 DEF Steady, Sane, Running, NotAsked
  <2> QED  BY <2>1, <2>4, StopsKept DEF Paused
<1>6. CASE RepairStep \/ \E i \in Items : VerifyStarts(i)
  <2>1. /\ UNCHANGED <<flag, reason, runner, final, worker, process, refresh, chosen, fault>>
        /\ \E r \in {Row("PARTIAL_FAILURE", "none"), Recomputed(target[1], item'), Recomputed(target[1], item)} :
             row' = row \/ row' = [row EXCEPT ![target[1]] = r]
    BY <1>6 DEF RepairStep, VerifyStarts, VerifyEnds, RepairPrepares, RepairRuns, RepairAsks,
                RepairChecks, RepairRecomputes
  <2>2. \/ UNCHANGED <<op, want, asked>>
        \/ /\ op[target[1]] = "none" /\ op' = [op EXCEPT ![target[1]] = "dispatch"]
           /\ want' = [want EXCEPT ![target[1]] = {target}]
           /\ asked' = [asked EXCEPT ![target[1]] = "resume"]
    BY <1>6 DEF RepairStep, VerifyStarts, VerifyEnds, RepairPrepares, RepairRuns, RepairAsks,
                RepairChecks, RepairRecomputes, RepairQueues
  <2>3. Sane => NotAsked(t)
    <3>1. target[1] \in Tasks
      BY <1>1 DEF Typed, Items
    <3>2. CASE VerifyEnds \/ RepairPrepares \/ \E i \in Items : VerifyStarts(i)
      BY <3>2 DEF VerifyEnds, RepairPrepares, VerifyStarts, NotAsked
    <3>3. CASE RepairRuns
      BY <1>1, <3>1, <3>3, NobodyAsks, CallersAre, OthersAsk DEF RepairRuns, NotAsked
    <3>4. CASE RepairAsks
      BY <1>1, <3>4, NobodyAsks, CallersAre, OthersAsk DEF RepairAsks, NotAsked
    <3>5. CASE RepairChecks
      <4>1. \/ Leaves(<<>>) \/ Leaves(<<Repairer>>) \/ Leaves(<<Dispatcher(target[1])>>)
        BY <3>5 DEF RepairChecks
      <4> QED  BY <1>1, <3>1, <3>5, <4>1, NobodyAsks, CallersAre, OthersAsk DEF RepairChecks
    <3>6. CASE RepairRecomputes
      BY <1>1, <3>6, NobodyAsks, CallersAre, OthersAsk DEF RepairRecomputes
    <3> QED  BY <1>6, <3>2, <3>3, <3>4, <3>5, <3>6 DEF RepairStep
  <2>4. row'[t] = row[t] \/ row'[t] # Window
    BY <1>1, <2>1, OpenRows DEF Typed
  <2>5. Paused(t)' => Paused(t) /\ op'[t] = op[t] /\ want'[t] = want[t]
    BY <1>1, <2>2 DEF Paused, Noted, Typed
  <2>6. Paused(t) /\ Paused(t)' => Steady(t)
    BY <1>2, <2>1, <2>3, <2>4, <2>5 DEF Steady, Sane, Running, NotAsked
  <2> QED  BY <2>5, <2>6, StopsKept
<1> QED  BY <1>3, <1>4, <1>5, <1>6

(* The end of a process and the beginning of the next.                      *)
LEMMA StopsEnds ==
  ASSUME SchedulerInv, NEW t \in Tasks, Stops(t),
         CommandFails \/ Shutdown \/ GraceEnds \/ Exits \/ Crashes
  PROVE  Stops(t)'
<1>1. Typed /\ (Sane => lock \in Seq(Callers))
  BY DEF SchedulerInv, Together
<1>2. Paused(t)' => Paused(t)
  <2>1. CASE CommandFails \/ Shutdown \/ GraceEnds
    BY <2>1 DEF CommandFails, Shutdown, GraceEnds, Paused
  <2>2. CASE Exits \/ Crashes
    <3>1. asked'[t] \in {"none", "overtaken", asked[t]}
      BY <2>2 DEF Exits, Crashes, Gone
    <3> QED  BY <3>1 DEF Paused
  <2> QED  BY <2>1, <2>2
<1>3. CASE CommandFails
  <2>1. /\ fault' = TRUE /\ (flag[t] => flag'[t]) /\ UNCHANGED <<row, process>>
        /\ worker' = worker \/ \E j : worker' = [worker EXCEPT ![j] = "raised"]
    BY <1>3 DEF CommandFails, HandleFault
  <2>2. Running(t)' => Running(t)
    BY <1>1, <2>1 DEF Running, ItemsOf, Typed
  <2>3. ~Sane'
    BY <2>1 DEF Sane
  <2>4. Steady(t)
    BY <2>1, <2>2, <2>3 DEF Steady
  <2> QED  BY <1>2, <2>4, StopsKept
<1>4. CASE Shutdown
  <2>1. /\ process = "up" /\ process' = "grace"
        /\ flag' = [v \in Tasks |-> flag[v] \/ v \in Active]
        /\ op' = [v \in Tasks |-> IF v \in Active THEN "active" ELSE "none"]
        /\ (refresh' = "resume" /\ t \in chosen' => refresh = "resume" /\ t \in chosen)
        /\ UNCHANGED <<row, reason, want, runner, final, worker, fault>>
    BY <1>4 DEF Shutdown, Completes
  <2>2. Sane => NotAsked(t)
    <3>1. PICK kept \in Ascending({k \in DOMAIN lock : lock[k][1] # "dispatch"}) :
                 lock' = [k \in DOMAIN kept |-> lock[kept[k]]]
      BY <1>4 DEF Shutdown
    <3>2. Sane => \A a : Among(a, lock') => Among(a, lock)
      BY <1>1, <3>1, KeylessKept
    <3> QED  BY <3>2 DEF NotAsked
  <2>3. Sane /\ Paused(t) /\ op[t] = "active" => runner[t] \in Ends \/ reason[t] = "user"
    BY DEF Stops
  <2>4. Paused(t) => Steady(t)
    BY <2>1, <2>2, <2>3 DEF Steady, Sane, NotAsked, Active
  <2> QED  BY <1>2, <2>4, StopsKept
<1>5. CASE GraceEnds
  <2>1. /\ process' = "cancelled" /\ UNCHANGED <<row, flag, final, fault>>
        /\ runner'[t] \in {"ended", runner[t]}
    BY <1>5 DEF GraceEnds
  <2>2. Paused(t) => Steady(t)
    BY <2>1 DEF Steady, Sane
  <2> QED  BY <1>2, <2>2, StopsKept
<1>6. CASE Exits \/ Crashes
  <2>1. process' = "gone" /\ UNCHANGED <<row, flag, runner, final, worker, fault>>
    BY <1>6 DEF Exits, Crashes, Gone
  <2>2. Paused(t) => Steady(t)
    BY <2>1 DEF Steady, Sane
  <2> QED  BY <1>2, <2>2, StopsKept
<1> QED  BY <1>3, <1>4, <1>5, <1>6

LEMMA StopsRestart == ASSUME SchedulerInv, NEW t \in Tasks, Stops(t), Restart PROVE Stops(t)'
<1>1. /\ row' = [u \in Tasks |-> RecoveredRow(row[u])]
      /\ runner' = [u \in Tasks |-> "none"] /\ op' = [u \in Tasks |-> "none"]
      /\ worker' = [i \in Items |-> "none"] /\ chosen' = {} /\ asked' = asked
      /\ lock' \in {<<>>, <<Refresher>>}
  BY DEF Restart, Memory
<1>2. row'[t] = row[t] \/ row'[t] = Row("QUEUED", "none")
  BY <1>1 DEF RecoveredRow
<1>3. Row("QUEUED", "none") # Window
  BY DEF Row, Window
<1>4. ~Running(t)'
  BY <1>1 DEF Running, ItemsOf
<1>5. ~Among(Resumer(t), lock')
  <2>1. Refresher # Resumer(t)
    BY OthersAsk
  <2> QED  BY <1>1, <2>1 DEF Among
<1>6. op'[t] = "none" /\ runner'[t] = "none" /\ (Paused(t)' => row'[t] # Window)
  BY <1>1, <1>2, <1>3 DEF Stops, Paused
<1> QED  BY <1>1, <1>4, <1>5, <1>6 DEF Stops, Among, Resumer, Window, Row

LEMMA ListedStep == ASSUME SchedulerInv, Listed, [Next]_vars PROVE Listed'
<1>1. Typed /\ (Sane => Seated)
  BY DEF SchedulerInv, Together
<1>2. ASSUME NEW t \in Tasks, CallPause(t) \/ Pause(t) \/ CallResume(t) PROVE Listed'
  BY <1>2, ListedKept DEF CallPause, Pause, CallResume, Sane
<1>3. \A S : RunTasks(S) /\ Sane =>
        \A t \in Tasks : runner[t] = "selected" => want'[t] = want[t]
  BY <1>1 DEF RunTasks, New, Seated
<1>4. ASSUME RefreshResumes \/ \E t \in Tasks : Resume(t) PROVE Listed'
  <2>1. UNCHANGED <<runner, process, fault>> /\ \E S : Resumes(S)
    BY <1>4 DEF RefreshResumes, Resume
  <2>2. Sane => \A t \in Tasks : runner[t] = "selected" => want'[t] = want[t]
    BY <1>3, <2>1 DEF Resumes
  <2> QED  BY <2>1, <2>2 DEF Listed, Sane
<1>5. CASE RestoreQueue
  <2>1. UNCHANGED <<runner, process, fault>> /\ \E S : RunTasks(S)
    BY <1>5 DEF RestoreQueue
  <2> QED  BY <1>3, <2>1 DEF Listed, Sane
<1>6. ASSUME NEW t \in Tasks, Dispatch(t) \/ FinishOperation(t) PROVE Listed'
  <2>1. CASE Dispatch(t)
    <3>1. Admitted([op EXCEPT ![t] = "pending"], admission, runner) /\ UNCHANGED <<want, process, fault>>
      BY <2>1 DEF Dispatch
    <3>2. \A u \in Tasks : runner'[u] \in {"begin", runner[u]}
      BY <3>1 DEF Admitted
    <3> QED  BY <3>1, <3>2, ListedKept DEF Sane
  <2>2. CASE FinishOperation(t)
    <3>1. /\ Admitted([op EXCEPT ![t] = "none"], admission, [runner EXCEPT ![t] = "none"])
          /\ want' = [want EXCEPT ![t] = {}] /\ UNCHANGED <<process, fault>>
      BY <2>2 DEF FinishOperation
    <3>2. \A u \in Tasks : \/ runner'[u] \in {"begin", "none"}
                           \/ u # t /\ runner'[u] = runner[u]
      BY <1>1, <3>1 DEF Admitted, Typed
    <3>3. \A u \in Tasks : u # t => want'[u] = want[u]
      BY <1>1, <3>1 DEF Typed
    <3> QED  BY <3>1, <3>2, <3>3, ListedKept DEF Sane
  <2> QED  BY <1>6, <2>1, <2>2
<1>7. ASSUME NEW t \in Tasks, \/ RunnerBegins(t) \/ RunnerCleared(t) \/ RunnerSelected(t)
                              \/ RunnerDownloading(t) \/ RunnerLists(t) \/ RunnerGathered(t)
                              \/ RunnerWrites(t)
      PROVE  Listed'
  <2>1. /\ UNCHANGED <<want, process, fault>>
        /\ \E p \in {"priority", "raised", "downloading", "list", "gather", "final", "ended", "selected"} :
             /\ runner' = [runner EXCEPT ![t] = p]
             /\ p = "selected" => want[t] # {}
    <3>1. CASE RunnerBegins(t)
      BY <3>1 DEF RunnerBegins
    <3>2. CASE RunnerCleared(t)
      BY <3>2 DEF RunnerCleared
    <3>3. CASE RunnerSelected(t)
      BY <3>3 DEF RunnerSelected
    <3>4. CASE RunnerDownloading(t)
      BY <3>4 DEF RunnerDownloading
    <3>5. CASE RunnerLists(t)
      BY <3>5 DEF RunnerLists
    <3>6. CASE RunnerGathered(t)
      BY <3>6 DEF RunnerGathered
    <3>7. CASE RunnerWrites(t)
      BY <3>7 DEF RunnerWrites
    <3> QED  BY <1>7, <3>1, <3>2, <3>3, <3>4, <3>5, <3>6, <3>7
  <2>2. \A u \in Tasks : runner'[u] = "selected" => runner[u] = "selected" \/ want[u] # {}
    BY <1>1, <2>1 DEF Typed
  <2> QED  BY <2>1, <2>2, ListedKept DEF Sane
<1>8. ASSUME NEW i \in Items, WorkerStep(i) \/ Chunk(i) \/ DownloadEnds(i) \/ VerifyStarts(i)
      PROVE  Listed'
  <2>1. UNCHANGED <<want, runner, process, fault>>
    BY <1>8 DEF WorkerStep, Acquire, Settle, Confirms, RetryItem, RetryTask, Wakes, Retries, Chunk,
                DownloadEnds, VerifyStarts
  <2> QED  BY <2>1 DEF Listed, Sane
<1>9. CASE Edge \/ RefreshCloses \/ RefreshLists \/ RefreshReturns
  <2>1. UNCHANGED <<want, runner, process, fault>>
    BY <1>9 DEF Edge, RefreshCloses, RefreshLists, RefreshReturns
  <2> QED  BY <2>1 DEF Listed, Sane
<1>10. CASE RefreshOpens
  <2>1. Admitted(op, TRUE, runner) /\ UNCHANGED <<want, process, fault>>
    BY <1>10 DEF RefreshOpens
  <2>2. \A u \in Tasks : runner'[u] \in {"begin", runner[u]}
    BY <2>1 DEF Admitted
  <2> QED  BY <2>1, <2>2, ListedKept DEF Sane
<1>11. CASE RepairStep
  <2>1. /\ UNCHANGED <<runner, process, fault>>
        /\ want' = want \/ want' = [want EXCEPT ![target[1]] = {target}]
    BY <1>11 DEF RepairStep, VerifyEnds, RepairPrepares, RepairRuns, RepairAsks, RepairChecks,
                 RepairRecomputes, RepairQueues
  <2>2. \A u \in Tasks : want'[u] = want[u] \/ want'[u] # {}
    BY <1>1, <2>1 DEF Typed
  <2> QED  BY <2>1, <2>2, ListedKept DEF Sane
<1>12. CASE CommandFails \/ GraceEnds \/ Exits \/ Crashes
  <2>1. ~Sane'
    BY <1>12 DEF CommandFails, HandleFault, GraceEnds, Exits, Crashes, Gone, Sane
  <2> QED  BY <2>1 DEF Listed
<1>13. CASE Shutdown
  <2>1. UNCHANGED <<want, runner, fault>> /\ process = "up"
    BY <1>13 DEF Shutdown
  <2> QED  BY <2>1 DEF Listed, Sane
<1>14. CASE Restart
  <2>1. runner' = [u \in Tasks |-> "none"]
    BY <1>14 DEF Restart, Memory
  <2> QED  BY <2>1 DEF Listed
<1>15. CASE UNCHANGED vars
  BY <1>15 DEF Listed, Sane, vars
<1> QED  BY <1>2, <1>4, <1>5, <1>6, <1>7, <1>8, <1>9, <1>10, <1>11, <1>12, <1>13, <1>14, <1>15
         DEF Next, RunnerStep, RefreshStep

LEMMA StoppedStep == ASSUME SchedulerInv, Noted, Stopped, [Next]_vars PROVE Stopped'
<1>1. Listed /\ Listed'
  BY ListedStep DEF Stopped
<1> SUFFICES ASSUME NEW t \in Tasks PROVE Stops(t)'
  BY <1>1 DEF Stopped
<1>2. Stops(t)
  BY DEF Stopped
<1>3. ASSUME NEW u \in Tasks, CallPause(u) \/ Pause(u) \/ CallResume(u) PROVE Stops(t)'
  BY <1>2, <1>3, StopsCallPause, StopsCalls
<1>4. ASSUME NEW u \in Tasks, RunnerStep(u), Alive PROVE Stops(t)'
  BY <1>1, <1>2, <1>4, StopsRunners, StopsSpawns, StopsGathered, StopsWrites, StopsQueueSteps
     DEF RunnerStep
<1>5. CASE RefreshResumes \/ \E u \in Tasks : Resume(u)
  BY <1>2, <1>5, StopsResumeSteps
<1>6. CASE RefreshOpens \/ \E u \in Tasks : Dispatch(u)
  BY <1>2, <1>6, StopsQueueSteps
<1>7. ASSUME NEW i \in Items, WorkerStep(i) \/ Chunk(i) \/ DownloadEnds(i) PROVE Stops(t)'
  BY <1>2, <1>7, StopsWorks
<1>8. CASE \/ Edge \/ RefreshCloses \/ RefreshLists \/ RefreshReturns
           \/ RepairStep \/ \E i \in Items : VerifyStarts(i)
  BY <1>2, <1>8, StopsControls
<1>9. CASE CommandFails \/ Shutdown \/ GraceEnds \/ Exits \/ Crashes
  BY <1>2, <1>9, StopsEnds
<1>10. CASE RestoreQueue
  BY <1>2, <1>10, StopsRestores
<1>11. CASE Restart
  BY <1>2, <1>11, StopsRestart
<1>12. CASE UNCHANGED vars
  BY <1>2, <1>12 DEF vars, Stops, Paused, Window, Row, Running, ItemsOf, Sane, Among, Resumer, Ends
<1> QED  BY <1>3, <1>4, <1>5, <1>6, <1>7, <1>8, <1>9, <1>10, <1>11, <1>12 DEF Next, RefreshStep

LEMMA StoppedInit == Init => Noted /\ Stopped
<1> SUFFICES ASSUME Init PROVE Noted /\ Stopped
  OBVIOUS
<1>1. /\ asked = [t \in Tasks |-> "none"] /\ flag = [t \in Tasks |-> FALSE]
      /\ runner = [t \in Tasks |-> "none"]
  BY DEF Init, Memory
<1> QED  BY <1>1 DEF Noted, Stopped, Listed, Stops, Paused

(* A file starts only where the flag is looked at.                          *)
LEMMA StartsAtTop ==
  ASSUME SchedulerInv, [Next]_vars, NEW i \in Items, Starts(i)
  PROVE  worker[i] \in {"permit", "retrying"} /\ ~flag[i[1]] /\ process = "up"
<1>1. Typed /\ worker[i] # "download" /\ worker'[i] = "download"
  BY DEF SchedulerInv, Starts
<1>2. ASSUME NEW j \in Items, Acquire(j) \/ Retries(j)
      PROVE  worker[i] \in {"permit", "retrying"} /\ ~flag[i[1]] /\ process = "up"
  <2>1. worker' = [worker EXCEPT ![j] = Top(j)] /\ worker[j] \in {"permit", "retrying"}
    BY <1>2 DEF Acquire, Retries, Goes
  <2>2. i = j /\ Top(i) = "download"
    BY <1>1, <2>1 DEF Typed
  <2> QED  BY <2>1, <2>2 DEF Top, Stopping, ShuttingDown
<1>3. ASSUME NEW j \in Items, NEW p, p # "download", worker' = [worker EXCEPT ![j] = p] PROVE FALSE
  BY <1>1, <1>3 DEF Typed
<1>4. ASSUME NEW j \in Items, \/ Settle(j) \/ Confirms(j) \/ RetryItem(j) \/ RetryTask(j)
                              \/ Wakes(j) \/ DownloadEnds(j)
      PROVE  FALSE
  <2>1. \E p : p # "download" /\ worker' = [worker EXCEPT ![j] = p]
    <3>1. CASE Settle(j) \/ Confirms(j)
      BY <3>1 DEF Settle, Confirms
    <3>2. CASE RetryItem(j) \/ RetryTask(j)
      BY <3>2 DEF RetryItem, RetryTask
    <3>3. CASE Wakes(j)
      BY <3>3 DEF Wakes, Goes
    <3>4. CASE DownloadEnds(j)
      BY <3>4 DEF DownloadEnds, FloodWaits, Goes
    <3> QED  BY <1>4, <3>1, <3>2, <3>3, <3>4
  <2> QED  BY <1>3, <2>1
<1>5. ASSUME NEW t \in Tasks, RunnerStep(t) PROVE FALSE
  <2>1. \A S : Spawns(t, S) => worker'[i] \in {"permit", worker[i]}
    BY DEF Spawns
  <2>2. CASE RunnerDownloading(t) \/ RunnerLists(t)
    BY <1>1, <2>1, <2>2 DEF RunnerDownloading, RunnerLists
  <2>3. CASE RunnerGathered(t)
    BY <1>1, <2>3 DEF RunnerGathered
  <2>4. CASE \/ RunnerBegins(t) \/ RunnerCleared(t) \/ RunnerSelected(t) \/ RunnerWrites(t)
             \/ FinishOperation(t)
    BY <1>1, <2>4 DEF RunnerBegins, RunnerCleared, RunnerSelected, RunnerWrites, FinishOperation
  <2> QED  BY <1>5, <2>2, <2>3, <2>4 DEF RunnerStep
<1>6. CASE CommandFails
  <2>1. worker' = worker \/ \E j : worker' = [worker EXCEPT ![j] = "raised"]
    BY <1>6 DEF CommandFails
  <2> QED  BY <1>1, <2>1 DEF Typed
<1>7. CASE GraceEnds
  BY <1>1, <1>7 DEF GraceEnds
<1>8. CASE Restart
  BY <1>1, <1>8 DEF Restart, Memory
<1>9. ASSUME UNCHANGED worker PROVE FALSE
  BY <1>1, <1>9
<1>10. CASE \/ \E t \in Tasks : CallPause(t) \/ Pause(t) \/ CallResume(t) \/ Resume(t) \/ Dispatch(t)
            \/ \E j \in Items : Chunk(j) \/ VerifyStarts(j)
            \/ Edge \/ RefreshStep \/ Shutdown \/ Exits \/ Crashes \/ RestoreQueue \/ UNCHANGED vars
  <2>1. UNCHANGED worker
    BY <1>10 DEF CallPause, Pause, CallResume, Resume, Dispatch, Chunk, VerifyStarts, Edge,
                 RefreshStep, RefreshCloses, RefreshOpens, RefreshLists, RefreshResumes,
                 RefreshReturns, Shutdown, Exits, Crashes, Gone, RestoreQueue, vars
  <2> QED  BY <1>9, <2>1
<1>11. CASE RepairStep
  <2>1. UNCHANGED worker
    BY <1>11 DEF RepairStep, VerifyEnds, RepairPrepares, RepairRuns, RepairAsks, RepairChecks,
                 RepairRecomputes
  <2> QED  BY <1>9, <2>1
<1> QED  BY <1>2, <1>4, <1>5, <1>6, <1>7, <1>8, <1>10, <1>11 DEF Next, WorkerStep

(* After a pause has returned no file of the task starts until the user     *)
(* asks for it, whatever the window, repairs, faults and restarts do.       *)
THEOREM PausedStaysPaused == Spec => PauseStops
<1>1. SchedulerInv /\ [Next]_vars => SchedulerInv'
  BY SchedulerStep
<1>2. SchedulerInv /\ Noted /\ [Next]_vars => Noted'
  BY NotedStep
<1>3. SchedulerInv /\ Noted /\ Stopped /\ [Next]_vars => Stopped'
  BY StoppedStep
<1>4. SchedulerInv /\ Stopped /\ [Next]_vars => [NoPausedStart]_vars
  <2> SUFFICES ASSUME SchedulerInv, Stopped, [Next]_vars, NEW i \in Items, Starts(i),
                      asked[i[1]] = "pause"
               PROVE  FALSE
    BY DEF NoPausedStart
  <2>1. worker[i] \in {"permit", "retrying"} /\ ~flag[i[1]] /\ process = "up"
    BY StartsAtTop
  <2>2. i[1] \in Tasks /\ Running(i[1])
    BY <2>1 DEF Running, ItemsOf, Items
  <2> QED  BY <2>1, <2>2 DEF Stopped, Stops, Paused
<1> QED  BY SchedulerInit, StoppedInit, <1>1, <1>2, <1>3, <1>4, PTL DEF Spec, PauseStops

-----------------------------------------------------------------------------
(* Behind a closed gate whatever is at work is asked to pause, or its pause *)
(* was taken back; after a fault the gate may open again, and nothing is at *)
(* work that was not asked.                                                 *)
Shut(t) == process = "up" =>
  /\ ~fault /\ ~admission /\ op[t] = "active" => flag[t] \/ t \in defied
  /\ fault /\ Running(t) => flag[t]

(* The window resumes its tasks with the gate open.                         *)
Opening == process = "up" /\ ~fault /\ refresh \in {"list", "resume"} => admission

(* A step that leaves the gate alone and takes back no pause.               *)
LEMMA ShutKept ==
  ASSUME NEW t \in Tasks, Shut(t), UNCHANGED <<admission, process, fault>>,
         flag[t] => flag'[t],
         op'[t] = "active" => op[t] = "active" \/ admission,
         t \in defied => t \in defied' \/ op'[t] # "active",
         fault /\ Running(t)' => Running(t)
  PROVE  Shut(t)'
BY DEF Shut

LEMMA RunningKept ==
  ASSUME NEW t \in Tasks,
         \A j \in Items : worker'[j] \notin {"none", "raised"} => worker[j] \notin {"none", "raised"}
  PROVE  Running(t)' => Running(t)
BY DEF Running, ItemsOf

(* Calls, commands, the window's own steps and repairs.                     *)
LEMMA ShutCalls ==
  ASSUME SchedulerInv, Noted, NEW t \in Tasks, Shut(t),
         \/ \E u \in Tasks : CallPause(u) \/ Pause(u) \/ CallResume(u)
         \/ \E i \in Items : VerifyStarts(i)
         \/ Edge \/ RefreshLists \/ RefreshReturns \/ RepairStep \/ RestoreQueue
  PROVE  Shut(t)'
<1>1. Typed
  BY DEF SchedulerInv
<1>2. UNCHANGED <<admission, process, fault, worker, defied>>
  <2>1. CASE \E u \in Tasks : CallPause(u) \/ Pause(u) \/ CallResume(u)
    BY <2>1 DEF CallPause, Pause, CallResume
  <2>2. CASE \E i \in Items : VerifyStarts(i)
    BY <2>2 DEF VerifyStarts
  <2>3. CASE Edge \/ RefreshLists \/ RefreshReturns \/ RestoreQueue
    BY <2>3 DEF Edge, RefreshLists, RefreshReturns, RestoreQueue
  <2>4. CASE RepairStep
    BY <2>4 DEF RepairStep, VerifyEnds, RepairPrepares, RepairRuns, RepairAsks, RepairChecks,
                RepairRecomputes
  <2> QED  BY <2>1, <2>2, <2>3, <2>4
<1>3. (flag[t] => flag'[t]) /\ (op'[t] = "active" => op[t] = "active")
  <2>1. ASSUME NEW u \in Tasks, CallPause(u)
        PROVE  (flag[t] => flag'[t]) /\ (op'[t] = "active" => op[t] = "active")
    <3>1. flag' = [flag EXCEPT ![u] = TRUE] /\ \E s \in {"none", op[u]} : op' = [op EXCEPT ![u] = s]
      BY <2>1 DEF CallPause
    <3> QED  BY <1>1, <3>1 DEF Typed, Noted
  <2>2. CASE \E u \in Tasks : Pause(u) \/ CallResume(u)
    BY <2>2 DEF Pause, CallResume
  <2>3. CASE \/ \E i \in Items : VerifyStarts(i)
             \/ Edge \/ RefreshLists \/ RefreshReturns
    BY <2>3 DEF VerifyStarts, Edge, RefreshLists, RefreshReturns
  <2>4. CASE RepairStep
    <3>1. UNCHANGED flag /\ (op' = op \/ op' = [op EXCEPT ![target[1]] = "dispatch"])
      BY <2>4 DEF RepairStep, VerifyEnds, RepairPrepares, RepairRuns, RepairAsks, RepairChecks,
                  RepairRecomputes, RepairQueues
    <3> QED  BY <1>1, <3>1 DEF Typed
  <2>5. CASE RestoreQueue
    <3>1. UNCHANGED flag /\ op'[t] \in {"dispatch", op[t]}
      BY <2>5 DEF RestoreQueue, RunTasks
    <3> QED  BY <3>1
  <2> QED  BY <2>1, <2>2, <2>3, <2>4, <2>5
<1> QED  BY <1>2, <1>3, ShutKept DEF Running

(* Runners and coroutines, and what is admitted while the gate is open.     *)
LEMMA ShutRuns ==
  ASSUME SchedulerInv, NEW t \in Tasks, Shut(t),
         \/ \E u \in Tasks : Dispatch(u) \/ (RunnerStep(u) /\ ~RunnerSelected(u))
         \/ \E i \in Items : WorkerStep(i) \/ Chunk(i) \/ DownloadEnds(i)
  PROVE  Shut(t)'
<1>1. Typed
  BY DEF SchedulerInv
<1>2. ASSUME NEW u \in Tasks,
             RunnerBegins(u) \/ RunnerCleared(u) \/ RunnerWrites(u) \/ RunnerGathered(u)
      PROVE  Shut(t)'
  <2>1. UNCHANGED <<admission, process, fault, flag, op, defied>>
    BY <1>2 DEF RunnerBegins, RunnerCleared, RunnerWrites, RunnerGathered
  <2>2. \A j \in Items : worker'[j] \in {"none", worker[j]}
    BY <1>2 DEF RunnerBegins, RunnerCleared, RunnerWrites, RunnerGathered
  <2> QED  BY <2>1, <2>2, RunningKept, ShutKept
<1>3. ASSUME NEW u \in Tasks, RunnerDownloading(u) \/ RunnerLists(u) PROVE Shut(t)'
  <2>1. UNCHANGED <<admission, process, fault, flag, op, defied>> /\ ~fault
    BY <1>3 DEF RunnerDownloading, RunnerLists, Turn
  <2> QED  BY <2>1, ShutKept
<1>4. ASSUME NEW u \in Tasks, Dispatch(u) \/ FinishOperation(u) PROVE Shut(t)'
  <2>1. UNCHANGED <<admission, process, fault, flag, worker>>
    BY <1>4 DEF Dispatch, FinishOperation
  <2>2. \E s \in {"none", "pending"} : \E rc : Admitted([op EXCEPT ![u] = s], admission, rc)
    BY <1>4 DEF Dispatch, FinishOperation
  <2>3. op'[t] = "active" => op[t] = "active" \/ admission
    <3>1. PICK s \in {"none", "pending"} : \E rc : Admitted([op EXCEPT ![u] = s], admission, rc)
      BY <2>2
    <3>2. PICK rc : Admitted([op EXCEPT ![u] = s], admission, rc)
      BY <3>1
    <3> DEFINE ops == [op EXCEPT ![u] = s]
    <3>3. ops[t] = "active" => op[t] = "active"
      BY <1>1 DEF Typed
    <3> HIDE DEF ops
    <3>4. admission \/ op'[t] = ops[t]
      BY <3>2 DEF Admitted, ops
    <3> QED  BY <3>3, <3>4
  <2>4. t \in defied => t \in defied' \/ op'[t] # "active"
    <3>1. CASE Dispatch(u)
      BY <3>1 DEF Dispatch
    <3>2. CASE FinishOperation(u) /\ u # t
      BY <3>2 DEF FinishOperation
    <3>3. CASE FinishOperation(u) /\ u = t
      <4> DEFINE ops == [op EXCEPT ![u] = "none"]
      <4>1. ops[t] = "none"
        BY <1>1, <3>3 DEF Typed
      <4>2. \E rc : Admitted(ops, admission, rc)
        BY <3>3 DEF FinishOperation
      <4> HIDE DEF ops
      <4> QED  BY <4>1, <4>2 DEF Admitted
    <3> QED  BY <1>4, <3>1, <3>2, <3>3
  <2> QED  BY <2>1, <2>3, <2>4, ShutKept DEF Running
<1>5. ASSUME NEW i \in Items, WorkerStep(i) \/ Chunk(i) \/ DownloadEnds(i) PROVE Shut(t)'
  <2>1. UNCHANGED <<admission, process, fault, flag, op, defied>>
    BY <1>5 DEF WorkerStep, Acquire, Settle, Confirms, RetryItem, RetryTask, Wakes, Retries, Chunk,
                DownloadEnds, Goes
  <2>2. \/ UNCHANGED worker
        \/ worker[i] \notin {"none", "raised"} /\ \E p : worker' = [worker EXCEPT ![i] = p]
    BY <1>5 DEF WorkerStep, Acquire, Settle, Confirms, RetryItem, RetryTask, Wakes, Retries, Chunk,
                DownloadEnds, FloodWaits, Goes
  <2>3. \A j \in Items : worker'[j] \notin {"none", "raised"} => worker[j] \notin {"none", "raised"}
    BY <1>1, <2>2 DEF Typed
  <2> QED  BY <2>1, <2>3, RunningKept, ShutKept
<1> QED  BY <1>2, <1>3, <1>4, <1>5 DEF RunnerStep

(* A pause is taken back where the gate is open, or where nothing runs.     *)
LEMMA ShutResumes ==
  ASSUME SchedulerInv, Noted, Opening, NEW t \in Tasks, Shut(t),
         RefreshResumes \/ \E u \in Tasks : Resume(u) \/ RunnerSelected(u)
  PROVE  Shut(t)'
<1>1. Typed /\ ~fault /\ UNCHANGED <<admission, process, fault>>
  BY DEF SchedulerInv, RefreshResumes, Resume, RunnerSelected, Turn
<1>2. CASE RefreshResumes
  <2>1. process = "up" => admission
    BY <1>1, <1>2 DEF RefreshResumes, Opening
  <2> QED  BY <1>1, <2>1 DEF Shut
<1>3. ASSUME NEW u \in Tasks, Resume(u) PROVE Shut(t)'
  <2>1. /\ op'[t] = op[t] \/ op'[t] = "dispatch"
        /\ t # u => flag'[t] = flag[t]
    BY <1>3 DEF Resume, Resumes, Resumable, RunTasks
  <2>2. t \in defied => t \in defied'
    BY <1>3 DEF Resume
  <2>3. t = u /\ op[t] = "active" => admission \/ t \in defied'
    BY <1>3 DEF Resume
  <2> QED  BY <1>1, <2>1, <2>2, <2>3 DEF Shut
<1>4. ASSUME NEW u \in Tasks, RunnerSelected(u) PROVE Shut(t)'
  <2>1. UNCHANGED op /\ \/ UNCHANGED <<flag, defied>>
                        \/ /\ flag' = [flag EXCEPT ![u] = FALSE]
                           /\ defied' = IF admission THEN defied ELSE defied \cup {u}
    BY <1>4 DEF RunnerSelected
  <2>2. t # u => flag'[t] = flag[t]
    BY <2>1 DEF Noted
  <2> QED  BY <1>1, <2>1, <2>2 DEF Shut
<1> QED  BY <1>2, <1>3, <1>4

(* The gate closes, or opens, or everything ends.                           *)
LEMMA ShutEnds ==
  ASSUME SchedulerInv, Noted, NEW t \in Tasks, Shut(t),
         \/ RefreshCloses \/ RefreshOpens \/ CommandFails
         \/ Shutdown \/ GraceEnds \/ Exits \/ Crashes \/ Restart
  PROVE  Shut(t)'
<1>1. Typed /\ (Sane => Seated /\ Gathered)
  BY DEF SchedulerInv, Together
<1>2. CASE RefreshCloses
  <2>1. /\ flag' = [u \in Tasks |-> flag[u] \/ u \in Active]
        /\ UNCHANGED <<op, worker, process, fault>>
    BY <1>2 DEF RefreshCloses
  <2>2. (flag[t] => flag'[t]) /\ (op[t] = "active" => flag'[t])
    BY <2>1 DEF Active
  <2> QED  BY <2>1, <2>2 DEF Shut, Running
<1>3. CASE RefreshOpens
  BY <1>3 DEF RefreshOpens, Shut, Running
<1>4. CASE CommandFails
  <2>1. /\ flag' = [u \in Tasks |-> flag[u] \/ (~fault /\ u \in Active)]
        /\ fault' /\ UNCHANGED process
        /\ worker' = worker \/ \E j : worker' = [worker EXCEPT ![j] = "raised"]
    BY <1>4 DEF CommandFails, HandleFault
  <2>2. Running(t)' => Running(t)
    BY <1>1, <2>1, RunningKept DEF Typed
  <2>3. (flag[t] => flag'[t]) /\ (~fault /\ op[t] = "active" => flag'[t])
    BY <2>1 DEF Active
  <2>4. process = "up" /\ ~fault /\ Running(t) => op[t] = "active"
    <3>1. Running(t) => \E i \in Items : i[1] = t /\ worker[i] # "none"
      BY DEF Running, ItemsOf
    <3> QED  BY <1>1, <3>1 DEF Sane, Seated, Gathered
  <2> QED  BY <2>1, <2>2, <2>3, <2>4 DEF Shut
<1>5. CASE Shutdown \/ GraceEnds \/ Exits \/ Crashes
  BY <1>5 DEF Shutdown, GraceEnds, Exits, Crashes, Gone, Shut
<1>6. CASE Restart
  BY <1>6 DEF Restart, Memory, Shut
<1> QED  BY <1>2, <1>3, <1>4, <1>5, <1>6

LEMMA ShutStep ==
  ASSUME SchedulerInv, Noted, Opening, \A t \in Tasks : Shut(t), [Next]_vars
  PROVE  \A t \in Tasks : Shut(t)'
<1> SUFFICES ASSUME NEW t \in Tasks PROVE Shut(t)'
  OBVIOUS
<1>1. CASE UNCHANGED vars
  BY <1>1 DEF vars, Shut, Running
<1>2. CASE ~UNCHANGED vars
  <2>2. ASSUME NEW u \in Tasks,
               \/ CallPause(u) \/ Pause(u) \/ CallResume(u) \/ Resume(u)
               \/ Dispatch(u) \/ RunnerStep(u)
        PROVE  Shut(t)'
    BY <2>2, ShutCalls, ShutRuns, ShutResumes
  <2>3. ASSUME NEW i \in Items, WorkerStep(i) \/ Chunk(i) \/ DownloadEnds(i) \/ VerifyStarts(i)
        PROVE  Shut(t)'
    BY <2>3, ShutCalls, ShutRuns
  <2>4. CASE Edge \/ RefreshStep \/ RepairStep \/ RestoreQueue
    BY <2>4, ShutCalls, ShutResumes, ShutEnds DEF RefreshStep
  <2>5. CASE CommandFails \/ Shutdown \/ GraceEnds \/ Exits \/ Crashes \/ Restart
    BY <2>5, ShutEnds
  <2> QED  BY <1>2, <2>2, <2>3, <2>4, <2>5 DEF Next
<1> QED  BY <1>1, <1>2

LEMMA OpeningStep == ASSUME Opening, [Next]_vars PROVE Opening'
<1>1. ASSUME NEW t \in Tasks,
             \/ CallPause(t) \/ Pause(t) \/ CallResume(t) \/ Resume(t) \/ Dispatch(t)
      PROVE  Opening'
  BY <1>1 DEF CallPause, Pause, CallResume, Resume, Dispatch, Opening
<1>2. ASSUME NEW t \in Tasks, RunnerStep(t) PROVE Opening'
  <2>1. UNCHANGED <<admission, process, fault>> /\ refresh' \in {refresh, "dead"}
    BY <1>2 DEF RunnerStep, RunnerBegins, RunnerCleared, RunnerSelected, RunnerDownloading,
                RunnerLists, RunnerGathered, RunnerWrites, FinishOperation
  <2> QED  BY <2>1 DEF Opening
<1>3. ASSUME NEW i \in Items, WorkerStep(i) \/ Chunk(i) \/ DownloadEnds(i) \/ VerifyStarts(i)
      PROVE  Opening'
  BY <1>3 DEF WorkerStep, Acquire, Settle, Confirms, RetryItem, RetryTask, Wakes, Retries, Chunk,
     DownloadEnds,
              VerifyStarts, Goes, Opening
<1>4. CASE Edge \/ RefreshStep
  BY <1>4 DEF Edge, RefreshStep, RefreshCloses, RefreshOpens, RefreshLists, RefreshResumes,
              RefreshReturns, Opening
<1>5. CASE RepairStep \/ RestoreQueue
  BY <1>5 DEF RepairStep, VerifyEnds, RepairPrepares, RepairRuns, RepairAsks, RepairChecks,
              RepairRecomputes, RestoreQueue, Opening
<1>6. CASE CommandFails
  BY <1>6 DEF CommandFails, HandleFault, Opening
<1>7. CASE Shutdown \/ GraceEnds \/ Exits \/ Crashes
  BY <1>7 DEF Shutdown, GraceEnds, Exits, Crashes, Gone, Opening
<1>8. CASE Restart
  <2>1. admission' = window /\ refresh' = IF window THEN "list" ELSE "idle"
    BY <1>8 DEF Restart, Memory
  <2> QED  BY <2>1 DEF Opening
<1>9. CASE UNCHANGED vars
  BY <1>9 DEF vars, Opening
<1> QED  BY <1>1, <1>2, <1>3, <1>4, <1>5, <1>6, <1>7, <1>8, <1>9 DEF Next

LEMMA ShutInit == Init => Opening /\ \A t \in Tasks : Shut(t)
BY DEF Init, Memory, Opening, Shut

(* Outside the window no file starts, whatever is refused, fails, stops or  *)
(* is restarted; except in an operation at work whose pause by the window a *)
(* continue or the repair of a file has taken back since it closed.         *)
THEOREM ClosedStaysShut == Spec => ClosedStartsNothing
<1> DEFINE Inv == SchedulerInv /\ Noted /\ Opening /\ \A t \in Tasks : Shut(t)
           Opened == \A i \in Items : Starts(i) => admission \/ i[1] \in defied
<1>1. Init => Inv
  BY SchedulerInit, StoppedInit, ShutInit
<1>2. Inv /\ [Next]_vars => Inv'
  BY SchedulerStep, NotedStep, OpeningStep, ShutStep
<1>3. Inv /\ [Next]_vars => [Opened]_vars
  <2> SUFFICES ASSUME Inv, [Next]_vars, NEW i \in Items, Starts(i)
               PROVE  admission \/ i[1] \in defied
    OBVIOUS
  <2>1. worker[i] \in {"permit", "retrying"} /\ ~flag[i[1]] /\ process = "up"
    BY StartsAtTop
  <2>2. i[1] \in Tasks /\ Running(i[1])
    BY <2>1 DEF Running, ItemsOf, Items
  <2>3. ~fault
    BY <2>1, <2>2 DEF Shut
  <2>4. op[i[1]] = "active"
    BY <2>1, <2>2, <2>3 DEF SchedulerInv, Sane, Together, Seated, Gathered
  <2> QED  BY <2>1, <2>2, <2>3, <2>4 DEF Shut
<1> HIDE DEF Inv
<1> QED  BY <1>1, <1>2, <1>3, PTL DEF Spec, ClosedStartsNothing

-----------------------------------------------------------------------------
(* A scheduler that nothing disturbs: it does not stop, and no command fails. *)
Calm == process = "up" /\ ~fault /\ stops = 0 /\ \A i \in Items : worker[i] # "raised"

(* The task's operation is past the item: it did not list it, or completed  *)
(* it before it was found damaged.                                          *)
Missed(i) ==
  /\ want[i[1]] = {}
  /\ \/ runner[i[1]] = "gather" /\ worker[i] \in {"none", "completed"}
     \/ runner[i[1]] = "final" /\ final[i[1]].status = "COMPLETED"

(* A repair knows of the item: it has not asked yet, or has its own         *)
(* operation, which has not begun to write.                                 *)
Attended(i) ==
  /\ target = i
  /\ \/ repair \in {"run", "joined"}
     \/ repair \in {"check", "read"} /\ op[i[1]] = "none"
     \/ /\ repair = "own" /\ op[i[1]] # "none" /\ want[i[1]] = {i}
        /\ runner[i[1]] \in {"none", "begin", "priority", "selected", "downloading"}

Remembered(i) == item[i] = "QUEUED" =>
  /\ row[i[1]].status = "COMPLETED" => Attended(i)
  /\ Missed(i) => target = i /\ repair \in {"run", "joined"}

(* The runner of selected items completes no task by itself.                *)
Modest == \A t \in Tasks : runner[t] = "final" /\ final[t].status = "COMPLETED" => want[t] = {}

(* Selected items are those of the repair, and only their runner refuses.   *)
Owned == \A t \in Tasks :
  /\ op[t] # "none" /\ want[t] # {} => repair = "own" /\ target[1] = t
  /\ runner[t] = "raised" => want[t] # {}

Mended == Modest /\ Owned /\ \A i \in Items : Remembered(i)

(* Nothing ends a calm scheduler.                                           *)
LEMMA CalmStays ==
  ASSUME Faults = FALSE, MaxStops = 0, Typed, Calm, [Next]_vars
  PROVE  /\ Calm'
         /\ ~(CommandFails \/ Shutdown \/ GraceEnds \/ Exits \/ Crashes \/ Restart)
<1>1. process = "up" /\ fault = FALSE /\ stops = 0 /\ ~(stops < MaxStops)
  BY DEF Calm, Typed
<1>2. ~(CommandFails \/ Shutdown \/ GraceEnds \/ Exits \/ Crashes \/ Restart)
  BY <1>1 DEF CommandFails, Shutdown, GraceEnds, Exits, Crashes, Restart
<1>3. ASSUME NEW i \in Items, WorkerStep(i) \/ DownloadEnds(i) PROVE Calm'
  <2>1. UNCHANGED <<process, fault, stops>>
    BY <1>3 DEF WorkerStep, Acquire, Settle, Confirms, RetryItem, RetryTask, Wakes, Retries, DownloadEnds
  <2>2. \E p : p # "raised" /\ worker' = [worker EXCEPT ![i] = p]
    <3>1. CASE Settle(i) \/ Confirms(i)
      BY <3>1 DEF Settle, Confirms
    <3>2. CASE RetryItem(i) \/ RetryTask(i)
      BY <3>2 DEF RetryItem, RetryTask
    <3>3. CASE Acquire(i) \/ Wakes(i) \/ Retries(i)
      BY <3>3 DEF Acquire, Wakes, Retries, Goes, Top
    <3>4. CASE DownloadEnds(i)
      BY <3>4 DEF DownloadEnds, FloodWaits, Goes
    <3> QED  BY <1>3, <3>1, <3>2, <3>3, <3>4 DEF WorkerStep
  <2> QED  BY <2>1, <2>2 DEF Calm, Typed
<1>4. ASSUME NEW t \in Tasks, RunnerStep(t) PROVE Calm'
  <2>1. UNCHANGED <<process, fault, stops>>
    BY <1>4 DEF RunnerStep, RunnerBegins, RunnerCleared, RunnerSelected, RunnerDownloading,
                RunnerLists, RunnerGathered, RunnerWrites, FinishOperation
  <2>2. \A i \in Items : worker'[i] \in {"permit", "none", worker[i]}
    BY <1>4 DEF RunnerStep, RunnerBegins, RunnerCleared, RunnerSelected, RunnerDownloading,
                RunnerLists, RunnerGathered, RunnerWrites, FinishOperation, Spawns
  <2> QED  BY <2>1, <2>2 DEF Calm
<1>5. CASE \/ \E t \in Tasks : CallPause(t) \/ Pause(t) \/ CallResume(t) \/ Resume(t) \/ Dispatch(t)
           \/ \E i \in Items : Chunk(i) \/ VerifyStarts(i)
           \/ Edge \/ RefreshStep \/ RestoreQueue \/ UNCHANGED vars
  <2>1. UNCHANGED <<process, fault, stops, worker>>
    BY <1>5 DEF CallPause, Pause, CallResume, Resume, Dispatch, Chunk, VerifyStarts, Edge,
                RefreshStep, RefreshCloses, RefreshOpens, RefreshLists, RefreshResumes,
                RefreshReturns, RestoreQueue, vars
  <2> QED  BY <1>2, <2>1 DEF Calm
<1>6. CASE RepairStep
  BY <1>2, <1>6 DEF RepairStep, VerifyEnds, RepairPrepares, RepairRuns, RepairAsks, RepairChecks,
              RepairRecomputes, Calm
<1> QED  BY <1>2, <1>3, <1>4, <1>5, <1>6 DEF Next

(* What keeps the promise for an item: the row completes with nothing       *)
(* queued, the operation does not pass it, and the repair goes on.          *)
LEMMA RememberedKept ==
  ASSUME NEW i \in Items, Remembered(i), item'[i] = "QUEUED" => item[i] = "QUEUED",
         item'[i] = "QUEUED" /\ row'[i[1]].status = "COMPLETED" =>
           row[i[1]].status = "COMPLETED" /\ (Attended(i) => Attended(i)'),
         item'[i] = "QUEUED" /\ Missed(i)' =>
           Missed(i) /\ (target = i /\ repair \in {"run", "joined"} =>
                           target' = i /\ repair' \in {"run", "joined"})
  PROVE  Remembered(i)'
BY DEF Remembered

(* A step that leaves the repair and the task's operation alone.            *)
LEMMA AttendedKept ==
  ASSUME NEW i \in Items, UNCHANGED <<target, repair>>,
         op'[i[1]] = "none" <=> op[i[1]] = "none",
         op[i[1]] # "none" => want'[i[1]] = want[i[1]],
         repair = "own" /\ runner[i[1]] \in {"none", "begin", "priority", "selected", "downloading"} =>
           runner'[i[1]] \in {"none", "begin", "priority", "selected", "downloading"}
  PROVE  Attended(i) => Attended(i)'
BY DEF Attended

LEMMA MissedKept ==
  ASSUME NEW i \in Items, UNCHANGED <<want, runner, final>>,
         worker'[i] \in {"none", "completed"} => worker[i] \in {"none", "completed"}
  PROVE  Missed(i)' => Missed(i)
BY DEF Missed

(* Steps that neither complete a row nor touch an operation or the repair.  *)
LEMMA MendedQuiet ==
  ASSUME SchedulerInv, Calm, NEW i \in Items, Remembered(i),
         \/ \E u \in Tasks : Pause(u) \/ CallResume(u)
         \/ \E j \in Items : Chunk(j) \/ DownloadEnds(j)
         \/ Edge \/ RefreshCloses \/ RefreshLists \/ RefreshReturns
  PROVE  Remembered(i)'
<1>1. Typed /\ i[1] \in Tasks
  BY DEF SchedulerInv, Items
<1>2. UNCHANGED <<op, want, runner, final, target, repair>>
  BY DEF Pause, CallResume, Chunk, DownloadEnds, Edge, RefreshCloses, RefreshLists, RefreshReturns
<1>3. item'[i] = "QUEUED" => item[i] = "QUEUED"
  <2>1. ASSUME NEW j \in Items, Chunk(j) PROVE item'[i] = "QUEUED" => item[i] = "QUEUED"
    BY <1>1, <2>1 DEF Chunk, Typed
  <2>2. ASSUME ~\E j \in Items : Chunk(j) PROVE UNCHANGED item
    BY <2>2 DEF Pause, CallResume, DownloadEnds, Edge, RefreshCloses, RefreshLists, RefreshReturns
  <2> QED  BY <2>1, <2>2
<1>4. row'[i[1]].status = "COMPLETED" => row[i[1]].status = "COMPLETED"
  <2>1. ASSUME NEW u \in Tasks, Pause(u)
        PROVE  row'[i[1]].status = "COMPLETED" => row[i[1]].status = "COMPLETED"
    <3>1. \/ UNCHANGED row
          \/ row' = [row EXCEPT ![u] = Row("PAUSED", "user")]
      BY <1>1, <2>1 DEF Pause, Typed
    <3> QED  BY <1>1, <3>1 DEF Typed, Row
  <2>2. ASSUME ~\E u \in Tasks : Pause(u) PROVE UNCHANGED row
    BY <2>2 DEF CallResume, Chunk, DownloadEnds, Edge, RefreshCloses, RefreshLists, RefreshReturns
  <2> QED  BY <2>1, <2>2
<1>5. worker'[i] \in {"none", "completed"} => worker[i] \in {"none", "completed"}
  <2>1. ASSUME NEW j \in Items, DownloadEnds(j)
        PROVE  worker'[i] \in {"none", "completed"} => worker[i] \in {"none", "completed"}
    <3>1. \E p : p \notin {"none", "completed"} /\ worker' = [worker EXCEPT ![j] = p]
      BY <2>1 DEF DownloadEnds, FloodWaits, Goes
    <3> QED  BY <1>1, <3>1 DEF Typed
  <2>2. ASSUME ~\E j \in Items : DownloadEnds(j) PROVE UNCHANGED worker
    BY <2>2 DEF Pause, CallResume, Chunk, Edge, RefreshCloses, RefreshLists, RefreshReturns
  <2> QED  BY <2>1, <2>2
<1> QED  BY <1>2, <1>3, <1>4, <1>5, RememberedKept, AttendedKept, MissedKept

(* The commands of the coroutines.                                          *)
LEMMA MendedWorks ==
  ASSUME SchedulerInv, Calm, NEW i \in Items, Remembered(i), NEW j \in Items, WorkerStep(j)
  PROVE  Remembered(i)'
<1>1. Typed /\ i[1] \in Tasks /\ j[1] \in Tasks /\ \A s, w : Row(s, w).status = s
  BY DEF SchedulerInv, Items, Row
<1>2. UNCHANGED <<op, want, runner, final, target, repair>>
  BY DEF WorkerStep, Acquire, Settle, Confirms, RetryItem, RetryTask, Wakes, Retries
<1>3. CASE Acquire(j) \/ RetryItem(j) \/ RetryTask(j) \/ Wakes(j) \/ Retries(j)
  <2>1. /\ item' = item \/ item' = [item EXCEPT ![j] = "WAITING_RETRY"]
        /\ \/ row' = row
           \/ row' = [row EXCEPT ![j[1]] = Row("WAITING_RETRY", "none")]
           \/ row' = [row EXCEPT ![j[1]] = Row("DOWNLOADING", "none")]
        /\ \E p : p \notin {"none", "completed"} /\ worker' = [worker EXCEPT ![j] = p]
    BY <1>3 DEF Acquire, RetryItem, RetryTask, Wakes, Retries, Goes, Top
  <2>2. /\ item'[i] = "QUEUED" => item[i] = "QUEUED"
        /\ row'[i[1]].status = "COMPLETED" => row[i[1]].status = "COMPLETED"
        /\ worker'[i] \in {"none", "completed"} => worker[i] \in {"none", "completed"}
    BY <1>1, <2>1 DEF Typed
  <2> QED  BY <1>2, <2>2, RememberedKept, AttendedKept, MissedKept
<1>4. CASE Settle(j)
  <2>1. /\ \E s \in {"COMPLETED", "FAILED", "PAUSED"} : item' = [item EXCEPT ![j] = s]
        /\ \E p : worker' = [worker EXCEPT ![j] = p]
        /\ row' = row \/ row' = [row EXCEPT ![j[1]] = Recomputed(j[1], item')]
    BY <1>4 DEF Settle
  <2>2. /\ item'[i] = "QUEUED" => i # j /\ item[i] = "QUEUED"
        /\ i # j => worker'[i] = worker[i]
    BY <1>1, <2>1 DEF Typed
  <2>3. item'[i] = "QUEUED" /\ row'[i[1]].status = "COMPLETED" => row[i[1]].status = "COMPLETED"
    <3>1. i \in ItemsOf(i[1])
      BY DEF ItemsOf
    <3>2. item'[i] = "QUEUED" => Recomputed(i[1], item').status # "COMPLETED"
      BY <3>1, RecomputedIs
    <3> QED  BY <1>1, <2>1, <3>2 DEF Typed
  <2> QED  BY <1>2, <2>2, <2>3, RememberedKept, AttendedKept, MissedKept
<1>5. CASE Confirms(j)
  <2>1. /\ item' = [item EXCEPT ![j] = "COMPLETED"] /\ row' = row
        /\ worker' = [worker EXCEPT ![j] = "completed"]
    BY <1>5 DEF Confirms
  <2>2. /\ item'[i] = "QUEUED" => i # j /\ item[i] = "QUEUED"
        /\ i # j => worker'[i] = worker[i]
    BY <1>1, <2>1 DEF Typed
  <2> QED  BY <1>2, <2>1, <2>2, RememberedKept, AttendedKept, MissedKept
<1> QED  BY <1>3, <1>4, <1>5 DEF WorkerStep

(* Calls and commands that queue operations or take them out of the queue.  *)
LEMMA MendedCallPause ==
  ASSUME SchedulerInv, Calm, NEW i \in Items, Remembered(i), NEW u \in Tasks, CallPause(u)
  PROVE  Remembered(i)'
<1>1. Typed /\ i[1] \in Tasks /\ Seated
  BY DEF SchedulerInv, Items, Together, Calm, Sane
<1>2. /\ row[u].status # "COMPLETED"
      /\ UNCHANGED <<row, item, want, runner, final, worker, target>>
      /\ op' = [op EXCEPT ![u] = IF op[u] \in {"dispatch", "pending"} THEN "none" ELSE @]
      /\ target[1] # u \/ op[u] \notin {"dispatch", "pending"} => UNCHANGED repair
  BY DEF CallPause, Completes
<1>3. CASE i[1] # u
  <2>1. op'[i[1]] = op[i[1]]
    BY <1>1, <1>2, <1>3 DEF Typed
  <2>2. target = i => UNCHANGED repair
    BY <1>2, <1>3
  <2> QED  BY <1>2, <2>1, <2>2, RememberedKept DEF Attended, Missed
<1>4. CASE i[1] = u
  <2>1. Missed(i) => op[u] = "active"
    BY <1>1, <1>4 DEF Missed, Seated
  <2>2. Missed(i) => UNCHANGED repair
    BY <1>2, <2>1
  <2>3. Missed(i)' => Missed(i)
    BY <1>2, MissedKept
  <2> QED  BY <1>2, <1>4, <2>2, <2>3, RememberedKept
<1> QED  BY <1>3, <1>4

(* New operations, for tasks whose rows are queued.                         *)
LEMMA MendedQueues ==
  ASSUME SchedulerInv, Calm, NEW i \in Items, Remembered(i), NEW S, RunTasks(S),
         \A t \in S \cap Tasks : row'[t].status # "COMPLETED",
         row'[i[1]].status = "COMPLETED" => row[i[1]].status = "COMPLETED",
         UNCHANGED <<item, runner, final, worker, repair, target>>
  PROVE  Remembered(i)'
<1>1. Typed /\ i[1] \in Tasks /\ Seated
  BY DEF SchedulerInv, Items, Together, Calm, Sane
<1>2. /\ i[1] \notin S => op'[i[1]] = op[i[1]] /\ want'[i[1]] = want[i[1]]
      /\ op[i[1]] # "none" => want'[i[1]] = want[i[1]]
  BY <1>1 DEF RunTasks, New
<1>3. Missed(i)' => Missed(i)
  <2>1. Missed(i)' => op[i[1]] # "none"
    BY <1>1 DEF Missed, Seated
  <2> QED  BY <1>2, <2>1 DEF Missed
<1>4. row'[i[1]].status = "COMPLETED" => (Attended(i) => Attended(i)')
  BY <1>1, <1>2 DEF Attended
<1> QED  BY <1>3, <1>4, RememberedKept

LEMMA MendedResumes ==
  ASSUME SchedulerInv, Calm, NEW i \in Items, Remembered(i),
         RefreshResumes \/ RestoreQueue \/ \E u \in Tasks : Resume(u)
  PROVE  Remembered(i)'
<1>1. Typed /\ i[1] \in Tasks /\ ~ShuttingDown /\ \A s, w : Row(s, w).status = s
  BY DEF SchedulerInv, Items, Calm, ShuttingDown, Row
<1>2. ASSUME NEW S, Resumes(S), UNCHANGED <<item, coroutines, integrity>> PROVE Remembered(i)'
  <2>1. /\ row' = [t \in Tasks |-> IF t \in S THEN Row("QUEUED", "none") ELSE row[t]]
        /\ RunTasks(S)
    BY <1>1, <1>2 DEF Resumes
  <2>2. /\ \A t \in S \cap Tasks : row'[t].status # "COMPLETED"
        /\ row'[i[1]].status = "COMPLETED" => row[i[1]].status = "COMPLETED"
    BY <1>1, <2>1
  <2> QED  BY <1>2, <2>1, <2>2, MendedQueues
<1>3. CASE RefreshResumes \/ \E u \in Tasks : Resume(u)
  BY <1>2, <1>3 DEF RefreshResumes, Resume
<1>4. CASE RestoreQueue
  <2>1. PICK S : /\ S = {t \in Tasks : row[t].status = "QUEUED"} /\ RunTasks(S)
                 /\ UNCHANGED <<row, item, coroutines, integrity>>
    BY <1>4 DEF RestoreQueue
  <2> QED  BY <2>1, MendedQueues
<1> QED  BY <1>3, <1>4

(* Admission, and the end of an operation.                                  *)
LEMMA MendedAdmits ==
  ASSUME SchedulerInv, Calm, NEW i \in Items, Remembered(i),
         RefreshOpens \/ \E u \in Tasks : Dispatch(u)
  PROVE  Remembered(i)'
<1>1. Typed /\ i[1] \in Tasks /\ Seated /\ Keyed(lock, op) /\ lock \in Seq(Callers)
  BY DEF SchedulerInv, Items, Together, Calm, Sane
<1>2. UNCHANGED <<row, item, want, final, worker, repair, target>>
  BY DEF RefreshOpens, Dispatch
<1>3. /\ op'[i[1]] = "none" <=> op[i[1]] = "none"
      /\ runner'[i[1]] = runner[i[1]] \/ (runner'[i[1]] = "begin" /\ runner[i[1]] = "none")
  <2>1. CASE RefreshOpens
    <3>1. Admitted(op, TRUE, runner)
      BY <2>1 DEF RefreshOpens
    <3>2. \/ op'[i[1]] = op[i[1]] /\ runner'[i[1]] = runner[i[1]]
          \/ op'[i[1]] = "active" /\ runner'[i[1]] = "begin" /\ op[i[1]] = "pending"
      BY <1>1, <3>1 DEF Admitted
    <3> QED  BY <1>1, <3>2 DEF Seated
  <2>2. ASSUME NEW u \in Tasks, Dispatch(u)
        PROVE  /\ op'[i[1]] = "none" <=> op[i[1]] = "none"
               /\ runner'[i[1]] = runner[i[1]] \/ (runner'[i[1]] = "begin" /\ runner[i[1]] = "none")
    <3> DEFINE ops == [op EXCEPT ![u] = "pending"]
    <3>1. Admitted(ops, admission, runner) /\ lock # <<>> /\ lock[1] = Dispatcher(u)
      BY <2>2 DEF Dispatch, Turn
    <3>2. 1 \in DOMAIN lock
      BY <1>1, <3>1, EmptySeq, LenProperties
    <3>3. op[u] = "dispatch"
      BY <1>1, <3>1, <3>2 DEF Keyed
    <3>4. /\ ops \in [Tasks -> OpStates] /\ runner \in [Tasks -> RunnerStates]
          /\ ops[i[1]] = op[i[1]] \/ (op[i[1]] = "dispatch" /\ ops[i[1]] = "pending")
      BY <1>1, <3>3 DEF Typed, OpStates
    <3> HIDE DEF ops
    <3>5. \/ op'[i[1]] = ops[i[1]] /\ runner'[i[1]] = runner[i[1]]
          \/ op'[i[1]] = "active" /\ runner'[i[1]] = "begin" /\ ops[i[1]] = "pending"
      BY <1>1, <3>1, <3>4, AdmittedIs
    <3> QED  BY <1>1, <3>4, <3>5 DEF Seated
  <2> QED  BY <2>1, <2>2
<1>4. Missed(i)' => Missed(i)
  BY <1>2, <1>3 DEF Missed
<1>5. Attended(i) => Attended(i)'
  BY <1>2, <1>3, AttendedKept
<1> QED  BY <1>2, <1>4, <1>5, RememberedKept

LEMMA MendedFinishes ==
  ASSUME SchedulerInv, Calm, Owned, NEW i \in Items, Remembered(i),
         NEW u \in Tasks, FinishOperation(u)
  PROVE  Remembered(i)'
<1> DEFINE ops == [op EXCEPT ![u] = "none"]
           rc == [runner EXCEPT ![u] = "none"]
<1>1. Typed /\ i[1] \in Tasks /\ Seated
  BY DEF SchedulerInv, Items, Together, Calm, Sane
<1>2. /\ runner[u] \in {"ended", "raised"} /\ Admitted(ops, admission, rc)
      /\ want' = [want EXCEPT ![u] = {}]
      /\ UNCHANGED <<row, item, final, worker, target>>
      /\ target[1] # u => UNCHANGED repair
      /\ repair \in {"run", "check", "read"} => UNCHANGED repair
      /\ repair = "joined" => repair' \in {"joined", "check"} \/ runner[u] = "raised"
  BY DEF FinishOperation, Completes
<1>3. /\ ops \in [Tasks -> OpStates] /\ rc \in [Tasks -> RunnerStates]
      /\ i[1] # u => ops[i[1]] = op[i[1]] /\ rc[i[1]] = runner[i[1]] /\ want'[i[1]] = want[i[1]]
      /\ i[1] = u => ops[i[1]] = "none" /\ rc[i[1]] = "none"
  BY <1>1, <1>2 DEF Typed, OpStates, RunnerStates
<1> HIDE DEF ops, rc
<1>4. \/ op'[i[1]] = ops[i[1]] /\ runner'[i[1]] = rc[i[1]]
      \/ op'[i[1]] = "active" /\ runner'[i[1]] = "begin" /\ ops[i[1]] = "pending"
  BY <1>1, <1>2, <1>3, AdmittedIs
<1>5. Missed(i)' => i[1] # u /\ Missed(i)
  BY <1>2, <1>3, <1>4 DEF Missed
<1>6. CASE i[1] # u
  <2>1. /\ op'[i[1]] = "none" <=> op[i[1]] = "none"
        /\ runner'[i[1]] = runner[i[1]] \/ (runner'[i[1]] = "begin" /\ runner[i[1]] = "none")
    BY <1>1, <1>3, <1>4, <1>6 DEF Seated
  <2>2. target = i => UNCHANGED repair
    BY <1>2, <1>6
  <2>3. Attended(i) => Attended(i)'
    BY <1>2, <1>3, <1>6, <2>1, <2>2 DEF Attended
  <2> QED  BY <1>2, <1>5, <2>2, <2>3, RememberedKept
<1>7. CASE i[1] = u
  <2>1. op'[i[1]] = "none" /\ op[i[1]] # "none"
    BY <1>1, <1>2, <1>3, <1>4, <1>7 DEF Seated
  <2>2. repair = "joined" /\ target = i => repair' = "check"
    <3>1. target = i => target[1] = u
      BY <1>7
    <3>2. repair = "joined" => runner[u] = "ended"
      BY <1>2, <1>7, <2>1 DEF Owned
    <3> QED  BY <3>1, <3>2 DEF FinishOperation, Completes
  <2>3. Attended(i) => Attended(i)'
    BY <1>2, <1>7, <2>1, <2>2 DEF Attended
  <2> QED  BY <1>2, <1>5, <1>7, <2>3, RememberedKept
<1> QED  BY <1>6, <1>7

(* A runner's steps up to the gathering.                                    *)
LEMMA MendedRuns ==
  ASSUME Maintenance = FALSE, SchedulerInv, Calm, NEW i \in Items, Remembered(i),
         NEW u \in Tasks,
         \/ RunnerBegins(u) \/ RunnerCleared(u) \/ RunnerSelected(u)
         \/ RunnerDownloading(u) \/ RunnerLists(u)
  PROVE  Remembered(i)'
<1> DEFINE Before == {"none", "begin", "priority", "selected", "downloading"}
<1>1. Typed /\ i[1] \in Tasks /\ \A s, w : Row(s, w).status = s
  BY DEF SchedulerInv, Items, Row
<1>2. UNCHANGED <<item, op, want, final, repair, target>>
  BY DEF RunnerBegins, RunnerCleared, RunnerSelected, RunnerDownloading, RunnerLists
<1>3. ASSUME RunnerBegins(u) \/ RunnerCleared(u) \/ RunnerSelected(u) PROVE Remembered(i)'
  <2>1. UNCHANGED <<row, worker>>
    BY <1>3 DEF RunnerBegins, RunnerCleared, RunnerSelected
  <2>2. \E p \in {"priority", "selected", "downloading", "raised"} : runner' = [runner EXCEPT ![u] = p]
    BY <1>3 DEF RunnerBegins, RunnerCleared, RunnerSelected
  <2>3. item[i] = "QUEUED" /\ want[i[1]] = {i} /\ runner[i[1]] \in Before => runner'[i[1]] \in Before
    <3>1. CASE i[1] # u
      BY <1>1, <2>2, <3>1 DEF Typed
    <3>2. CASE i[1] = u
      <4>1. item[i] = "QUEUED" /\ want[u] = {i} =>
              \E p \in {"priority", "selected", "downloading"} : runner' = [runner EXCEPT ![u] = p]
        BY <1>3, <3>2 DEF RunnerBegins, RunnerCleared, RunnerSelected
      <4> QED  BY <1>1, <3>2, <4>1 DEF Typed
    <3> QED  BY <3>1, <3>2
  <2>4. Missed(i)' => Missed(i)
    BY <1>1, <1>2, <2>1, <2>2 DEF Missed, Typed
  <2>5. item[i] = "QUEUED" /\ Attended(i) => Attended(i)'
    BY <1>2, <2>3 DEF Attended
  <2> QED  BY <1>2, <2>1, <2>4, <2>5, RememberedKept
<1>4. CASE RunnerDownloading(u)
  <2>1. /\ row' = [row EXCEPT ![u] = Row("DOWNLOADING", "none")]
        /\ want[u] = {} => runner' = [runner EXCEPT ![u] = "list"] /\ UNCHANGED worker
        /\ want[u] # {} => /\ runner' = [runner EXCEPT ![u] = "gather"]
                           /\ Spawns(u, want[u])
    BY <1>4 DEF RunnerDownloading
  <2>2. Selected
    BY DEF SchedulerInv, Together, Calm, Sane
  <2>3. i[1] # u => runner'[i[1]] = runner[i[1]] /\ worker'[i] = worker[i] /\ row'[i[1]] = row[i[1]]
    BY <1>1, <2>1, <2>2 DEF Typed, Spawns, Selected, ItemsOf
  <2>4. i[1] = u => row'[i[1]].status # "COMPLETED" /\ ~Missed(i)'
    BY <1>1, <1>2, <2>1 DEF Typed, Missed
  <2>5. i[1] # u => (Missed(i)' => Missed(i)) /\ (Attended(i) => Attended(i)')
    BY <1>2, <2>3 DEF Missed, Attended
  <2> QED  BY <1>2, <2>3, <2>4, <2>5, RememberedKept
<1>5. CASE RunnerLists(u)
  <2>1. /\ runner[u] = "list" /\ runner' = [runner EXCEPT ![u] = "gather"]
        /\ worker' = [k \in Items |-> IF k \in Unfinished(u) THEN "permit" ELSE worker[k]]
        /\ UNCHANGED row
    BY <1>5 DEF RunnerLists, Spawns
  <2>2. i[1] # u => runner'[i[1]] = runner[i[1]] /\ worker'[i] = worker[i]
    BY <1>1, <2>1 DEF Typed, Unfinished, ItemsOf
  <2>3. i[1] = u /\ item[i] = "QUEUED" => worker'[i] = "permit" /\ runner'[i[1]] = "gather"
    BY <1>1, <2>1 DEF Typed, Unfinished, ItemsOf
  <2>4. item[i] = "QUEUED" => (Missed(i)' => Missed(i))
    BY <1>2, <2>2, <2>3 DEF Missed
  <2>5. Attended(i) => Attended(i)'
    BY <1>2, <2>1, <2>2 DEF Attended
  <2> QED  BY <1>2, <2>1, <2>4, <2>5, RememberedKept
<1> QED  BY <1>3, <1>4, <1>5

(* What a gathering decides.                                                *)
LEMMA MendedGathers ==
  ASSUME SchedulerInv, Calm, NEW u \in Tasks, RunnerGathered(u)
  PROVE  /\ runner[u] = "gather" /\ runner' = [runner EXCEPT ![u] = "final"]
         /\ worker' = [k \in Items |-> IF k \in ItemsOf(u) THEN "none" ELSE worker[k]]
         /\ UNCHANGED <<row, item, op, want, repair, target>>
         /\ \A t \in Tasks : t # u => final'[t] = final[t]
         /\ final'[u].status = "COMPLETED" =>
              want[u] = {} /\ \A k \in ItemsOf(u) : worker[k] \in {"none", "completed"}
<1> DEFINE some(s) == \E i \in ItemsOf(u) : worker[i] = s
<1>1. Typed /\ process # "cancelled"
  BY DEF SchedulerInv, Calm
<1>2. /\ UNCHANGED <<row, item, op, want, repair, target>>
      /\ runner[u] = "gather" /\ \A k \in ItemsOf(u) : Ended(k)
      /\ worker' = [k \in Items |-> IF k \in ItemsOf(u) THEN "none" ELSE worker[k]]
      /\ runner' = [runner EXCEPT ![u] = "final"]
      /\ final' = [final EXCEPT ![u] =
                CASE some("paused") ->
                       Row("PAUSED", IF reason[u] = "none" THEN "user" ELSE reason[u])
                  [] ~some("paused") /\ want[u] # {} -> Row("recompute", "none")
                  [] ~some("paused") /\ want[u] = {} /\ some("failed") ->
                       Row("PARTIAL_FAILURE", "none")
                  [] OTHER -> Row("COMPLETED", "none")]
  BY <1>1 DEF RunnerGathered
<1> HIDE DEF some
<1>3. \A t \in Tasks : t # u => final'[t] = final[t]
  BY <1>1, <1>2 DEF Typed
<1>4. final'[u].status = "COMPLETED" => want[u] = {} /\ ~some("paused") /\ ~some("failed")
  <2>1. \A s, w : Row(s, w).status = s
    BY DEF Row
  <2>2. final'[u] = CASE some("paused") ->
                       Row("PAUSED", IF reason[u] = "none" THEN "user" ELSE reason[u])
                  [] ~some("paused") /\ want[u] # {} -> Row("recompute", "none")
                  [] ~some("paused") /\ want[u] = {} /\ some("failed") ->
                       Row("PARTIAL_FAILURE", "none")
                  [] OTHER -> Row("COMPLETED", "none")
    BY <1>1, <1>2 DEF Typed
  <2>3. CASE some("paused")
    <3>1. final'[u] = Row("PAUSED", IF reason[u] = "none" THEN "user" ELSE reason[u])
      BY <2>2, <2>3
    <3> QED  BY <2>1, <3>1
  <2>4. CASE ~some("paused") /\ want[u] # {}
    <3>1. final'[u] = Row("recompute", "none")
      BY <2>2, <2>4
    <3> QED  BY <2>1, <3>1
  <2>5. CASE ~some("paused") /\ want[u] = {} /\ some("failed")
    <3>1. final'[u] = Row("PARTIAL_FAILURE", "none")
      BY <2>2, <2>5
    <3> QED  BY <2>1, <3>1
  <2> QED  BY <2>3, <2>4, <2>5
<1>5. ~some("paused") /\ ~some("failed") =>
        \A k \in ItemsOf(u) : worker[k] \in {"none", "completed"}
  <2>1. ItemsOf(u) \subseteq Items
    BY DEF ItemsOf
  <2> QED  BY <1>2, <2>1 DEF some, Ended, Calm
<1> QED  BY <1>2, <1>3, <1>4, <1>5

LEMMA MendedEnds ==
  ASSUME SchedulerInv, Calm, Modest, NEW i \in Items, Remembered(i),
         NEW u \in Tasks, RunnerGathered(u) \/ RunnerWrites(u)
  PROVE  Remembered(i)'
<1>1. Typed /\ i[1] \in Tasks /\ i \in ItemsOf(i[1])
  BY DEF SchedulerInv, Items, ItemsOf
<1>2. CASE RunnerGathered(u)
  <2>1. UNCHANGED <<row, item, op, want, repair, target>>
    BY <1>2, MendedGathers
  <2>2. Missed(i)' => Missed(i)
    <3>1. CASE i[1] # u
      <4>1. runner'[i[1]] = runner[i[1]] /\ worker'[i] = worker[i] /\ final'[i[1]] = final[i[1]]
        BY <1>1, <1>2, <3>1, MendedGathers DEF Typed, ItemsOf
      <4> QED  BY <2>1, <4>1 DEF Missed
    <3>2. CASE i[1] = u
      <4>1. runner'[u] = "final" /\ runner[u] = "gather"
        BY <1>1, <1>2, MendedGathers DEF Typed
      <4>2. final'[u].status = "COMPLETED" => worker[i] \in {"none", "completed"}
        BY <1>1, <1>2, <3>2, MendedGathers
      <4> QED  BY <2>1, <3>2, <4>1, <4>2 DEF Missed
    <3> QED  BY <3>1, <3>2
  <2>3. Attended(i) => Attended(i)'
    <3>1. runner[u] = "gather" /\ (i[1] # u => runner'[i[1]] = runner[i[1]])
      BY <1>1, <1>2, MendedGathers DEF Typed
    <3> QED  BY <2>1, <3>1 DEF Attended
  <2> QED  BY <2>1, <2>2, <2>3, RememberedKept
<1>3. CASE RunnerWrites(u)
  <2>1. /\ runner[u] = "final" /\ runner' = [runner EXCEPT ![u] = "ended"]
        /\ final' = [final EXCEPT ![u] = Row("none", "none")]
        /\ row' = [row EXCEPT ![u] =
                     IF final[u].status = "recompute" THEN Recomputed(u, item) ELSE final[u]]
        /\ UNCHANGED <<item, op, want, worker, repair, target>>
    BY <1>3 DEF RunnerWrites
  <2>2. Missed(i)' => i[1] # u /\ Missed(i)
    BY <1>1, <2>1 DEF Missed, Typed
  <2>3. CASE i[1] # u
    <3>1. row'[i[1]] = row[i[1]] /\ runner'[i[1]] = runner[i[1]]
      BY <1>1, <2>1, <2>3 DEF Typed
    <3>2. Attended(i) => Attended(i)'
      BY <2>1, <3>1 DEF Attended
    <3> QED  BY <2>1, <2>2, <3>1, <3>2, RememberedKept
  <2>4. CASE i[1] = u
    <3>1. row'[u] = IF final[u].status = "recompute" THEN Recomputed(u, item) ELSE final[u]
      BY <1>1, <2>1 DEF Typed
    <3>2. item[i] = "QUEUED" => Recomputed(u, item).status # "COMPLETED"
      BY <1>1, <2>4, RecomputedIs
    <3>3. item[i] = "QUEUED" /\ row'[u].status = "COMPLETED" => final[u].status = "COMPLETED"
      BY <3>1, <3>2
    <3>4. item[i] = "QUEUED" /\ row'[u].status = "COMPLETED" => Missed(i)
      BY <2>1, <2>4, <3>3 DEF Missed, Modest
    <3>5. item[i] = "QUEUED" /\ row'[u].status = "COMPLETED" => Attended(i)'
      BY <2>1, <3>4 DEF Remembered, Attended
    <3> QED  BY <2>1, <2>2, <2>4, <3>5 DEF Remembered
  <2> QED  BY <2>3, <2>4
<1> QED  BY <1>2, <1>3

(* A verification, and the preparation of a repair: the damaged file is the *)
(* only one that becomes queued.                                            *)
LEMMA MendedVerifies ==
  ASSUME SchedulerInv, NEW i \in Items, Remembered(i),
         VerifyEnds \/ RepairPrepares \/ \E j \in Items : VerifyStarts(j)
  PROVE  Remembered(i)'
<1>1. Typed /\ i[1] \in Tasks /\ i \in ItemsOf(i[1]) /\ \A s, w : Row(s, w).status = s
  BY DEF SchedulerInv, Items, ItemsOf, Row
<1>2. item[i] = "QUEUED" => row[i[1]].status # "COMPLETED" /\ ~Missed(i)
  <2>1. repair \in {"idle", "verify", "damaged"}
    BY DEF VerifyEnds, RepairPrepares, VerifyStarts
  <2> QED  BY <2>1 DEF Remembered, Attended
<1>3. Missed(i)' => Missed(i)
  <2>1. UNCHANGED <<want, runner, final, worker>>
    BY DEF VerifyEnds, RepairPrepares, VerifyStarts
  <2> QED  BY <2>1 DEF Missed
<1>4. item'[i] = "QUEUED" => row'[i[1]].status # "COMPLETED" \/ (row' = row /\ item' = item)
  <2>1. \/ UNCHANGED <<row, item>>
        \/ /\ \E s : item' = [item EXCEPT ![target] = s]
           /\ \E r \in {Row("PARTIAL_FAILURE", "none"), Recomputed(target[1], item')} :
                row' = [row EXCEPT ![target[1]] = r]
    BY DEF VerifyEnds, RepairPrepares, VerifyStarts
  <2>2. item'[i] = "QUEUED" => Recomputed(i[1], item').status # "COMPLETED"
    BY <1>1, RecomputedIs
  <2>3. CASE i[1] = target[1]
    BY <1>1, <2>1, <2>2, <2>3 DEF Typed
  <2>4. CASE i[1] # target[1]
    <3>1. ~UNCHANGED <<row, item>> => item'[i] = item[i] /\ row'[i[1]] = row[i[1]]
      BY <1>1, <2>1, <2>4 DEF Typed
    <3> QED  BY <1>2, <2>1, <3>1
  <2> QED  BY <2>3, <2>4
<1>5. item'[i] = "QUEUED" => row'[i[1]].status # "COMPLETED"
  BY <1>2, <1>4
<1>6. item'[i] = "QUEUED" => item[i] = "QUEUED" \/ (target' = i /\ repair' = "run")
  <2>1. CASE RepairPrepares /\ item[target] = "FAILED"
    <3>1. item' = [item EXCEPT ![target] = "QUEUED"] /\ repair' = "run" /\ UNCHANGED target
      BY <2>1 DEF RepairPrepares
    <3> QED  BY <1>1, <3>1 DEF Typed
  <2>2. CASE VerifyEnds
    <3>1. \E s \in {"FAILED", "COMPLETED"} : item' = [item EXCEPT ![target] = s]
      BY <2>2 DEF VerifyEnds
    <3> QED  BY <1>1, <3>1 DEF Typed
  <2>3. CASE \/ RepairPrepares /\ item[target] # "FAILED"
             \/ \E j \in Items : VerifyStarts(j)
    BY <2>3 DEF RepairPrepares, VerifyStarts
  <2> QED  BY <2>1, <2>2, <2>3
<1> QED  BY <1>2, <1>3, <1>5, <1>6 DEF Remembered

(* run_items: its own operation, or the one it waits for and looks behind.  *)
LEMMA MendedRepairs ==
  ASSUME SchedulerInv, Calm, NEW i \in Items, Remembered(i),
         RepairRuns \/ RepairAsks \/ RepairChecks \/ RepairRecomputes
  PROVE  Remembered(i)'
<1>1. Typed /\ i[1] \in Tasks /\ target[1] \in Tasks /\ Seated /\ ~ShuttingDown
  BY DEF SchedulerInv, Items, Together, Calm, Sane, ShuttingDown, Typed
<1>2. UNCHANGED <<item, runner, final, worker, target>>
  BY DEF RepairRuns, RepairAsks, RepairChecks, RepairRecomputes
<1>3. CASE RepairRuns \/ RepairChecks
  <2>1. UNCHANGED row /\ repair \in {"run", "read"}
    BY <1>3 DEF RepairRuns, RepairChecks
  <2>2. \/ UNCHANGED <<op, want>>
        \/ /\ op[target[1]] = "none" /\ op' = [op EXCEPT ![target[1]] = "dispatch"]
           /\ want' = [want EXCEPT ![target[1]] = {target}]
    BY <1>3 DEF RepairRuns, RepairChecks, RepairQueues
  <2>3. \/ repair = "run" /\ repair' = "joined" /\ op[target[1]] # "none"
        \/ /\ repair' = "own" /\ op[target[1]] = "none"
           /\ op' = [op EXCEPT ![target[1]] = "dispatch"]
           /\ want' = [want EXCEPT ![target[1]] = {target}]
        \/ repair = "read" /\ (op[target[1]] # "none" \/ item[target] # "QUEUED")
    BY <1>3 DEF RepairRuns, RepairChecks, RepairQueues
  <2>4. op[target[1]] = "none" => runner[target[1]] = "none"
    BY <1>1 DEF Seated
  <2>5. Missed(i)' => Missed(i) /\ (i[1] = target[1] => op[target[1]] # "none")
    <3>1. Missed(i)' /\ i[1] = target[1] => op[target[1]] # "none"
      BY <1>2, <2>4 DEF Missed
    <3>2. op[target[1]] # "none" \/ i[1] # target[1] => want'[i[1]] = want[i[1]]
      BY <1>1, <2>2 DEF Typed
    <3> QED  BY <1>2, <3>1, <3>2 DEF Missed
  <2>6. item[i] = "QUEUED" /\ Missed(i)' => target = i /\ repair' \in {"run", "joined"}
    <3>1. item[i] = "QUEUED" /\ Missed(i)' => target = i /\ repair = "run" /\ op[target[1]] # "none"
      BY <2>1, <2>5 DEF Remembered
    <3> QED  BY <2>3, <3>1
  <2>7. item[i] = "QUEUED" /\ Attended(i) => Attended(i)'
    <3> SUFFICES ASSUME item[i] = "QUEUED", Attended(i) PROVE Attended(i)'
      OBVIOUS
    <3>1. target = i /\ (repair = "read" => op[i[1]] = "none")
      BY <2>1 DEF Attended
    <3>2. CASE repair' = "joined"
      BY <1>2, <3>1, <3>2 DEF Attended
    <3>3. CASE repair' = "own" /\ op[i[1]] = "none" /\ op' = [op EXCEPT ![i[1]] = "dispatch"]
               /\ want' = [want EXCEPT ![i[1]] = {i}]
      <4>1. op'[i[1]] = "dispatch" /\ want'[i[1]] = {i} /\ runner'[i[1]] = "none"
        BY <1>1, <1>2, <2>4, <3>1, <3>3 DEF Typed
      <4> QED  BY <1>2, <3>1, <3>3, <4>1 DEF Attended
    <3> QED  BY <2>3, <3>1, <3>2, <3>3
  <2> QED  BY <1>2, <2>1, <2>6, <2>7 DEF Remembered
<1>4. CASE RepairAsks
  <2>1. UNCHANGED <<row, op, want>> /\ repair = "check" /\ repair' = "read"
    BY <1>1, <1>4 DEF RepairAsks
  <2>2. (Missed(i)' => Missed(i)) /\ (Attended(i) => Attended(i)')
    BY <1>2, <2>1 DEF Missed, Attended
  <2> QED  BY <1>2, <2>1, <2>2, RememberedKept
<1>5. CASE RepairRecomputes
  <2>1. UNCHANGED <<op, want>> /\ repair = "recompute"
        /\ row' = [row EXCEPT ![target[1]] = Recomputed(target[1], item)]
    BY <1>5 DEF RepairRecomputes
  <2>2. item[i] = "QUEUED" => row[i[1]].status # "COMPLETED" /\ ~Missed(i)
    BY <2>1 DEF Remembered, Attended
  <2>3. item[i] = "QUEUED" => row'[i[1]].status # "COMPLETED"
    <3>1. i \in ItemsOf(i[1])
      BY DEF ItemsOf
    <3>2. item[i] = "QUEUED" => Recomputed(i[1], item).status # "COMPLETED"
      BY <3>1, RecomputedIs
    <3> QED  BY <1>1, <2>1, <2>2, <3>2 DEF Typed
  <2>4. Missed(i)' => Missed(i)
    BY <1>2, <2>1 DEF Missed
  <2> QED  BY <1>2, <2>2, <2>3, <2>4 DEF Remembered
<1> QED  BY <1>3, <1>4, <1>5

(* Who selects items, and who completes a task.                             *)
OwnedBy(t) == /\ op[t] # "none" /\ want[t] # {} => repair = "own" /\ target[1] = t
              /\ runner[t] = "raised" => want[t] # {}
ModestOf(t) == runner[t] = "final" /\ final[t].status = "COMPLETED" => want[t] = {}

(* Steps after which the operation is what it was, or has selected nothing. *)
LEMMA OwnedKept ==
  ASSUME NEW t \in Tasks, OwnedBy(t), ModestOf(t),
         op'[t] # "none" /\ want'[t] # {} =>
           op[t] # "none" /\ want[t] # {} /\ (target[1] = t => UNCHANGED <<repair, target>>),
         runner'[t] \in {"raised", "final"} =>
           runner'[t] = runner[t] /\ final'[t] = final[t] /\ want'[t] = want[t]
  PROVE  OwnedBy(t)' /\ ModestOf(t)'
BY DEF OwnedBy, ModestOf

LEMMA OwnedQueue ==
  ASSUME SchedulerInv, Calm, NEW t \in Tasks, OwnedBy(t), ModestOf(t),
         \/ \E u \in Tasks : \/ CallPause(u) \/ Pause(u) \/ CallResume(u) \/ Resume(u)
                             \/ Dispatch(u) \/ FinishOperation(u)
         \/ RefreshStep \/ RestoreQueue \/ Edge
  PROVE  OwnedBy(t)' /\ ModestOf(t)'
<1>1. Typed /\ Seated /\ lock \in Seq(Callers) /\ Keyed(lock, op) /\ ~ShuttingDown
  BY DEF SchedulerInv, Together, Calm, Sane, ShuttingDown
<1>2. ASSUME NEW u \in Tasks, CallPause(u) PROVE OwnedBy(t)' /\ ModestOf(t)'
  <2>1. /\ UNCHANGED <<want, runner, final, target>>
        /\ op' = [op EXCEPT ![u] = IF op[u] \in {"dispatch", "pending"} THEN "none" ELSE @]
        /\ target[1] # u \/ op[u] \notin {"dispatch", "pending"} => UNCHANGED repair
    BY <1>2 DEF CallPause, Completes
  <2>2. op'[t] # "none" => op[t] # "none" /\ (target[1] = t => UNCHANGED repair)
    BY <1>1, <2>1 DEF Typed
  <2> QED  BY <2>1, <2>2, OwnedKept
<1>3. CASE \/ \E u \in Tasks : Pause(u) \/ CallResume(u)
           \/ Edge \/ RefreshCloses \/ RefreshLists \/ RefreshReturns
  <2>1. UNCHANGED <<op, want, runner, final, repair, target>>
    BY <1>3 DEF Pause, CallResume, Edge, RefreshCloses, RefreshLists, RefreshReturns
  <2> QED  BY <2>1, OwnedKept
<1>4. CASE RefreshResumes \/ RestoreQueue \/ \E u \in Tasks : Resume(u)
  <2>1. PICK S : RunTasks(S) /\ UNCHANGED <<runner, final, repair, target>>
    BY <1>1, <1>4 DEF RefreshResumes, RestoreQueue, Resume, Resumes
  <2>2. want'[t] = want[t] \/ (op[t] = "none" /\ want'[t] = {})
    BY <1>1, <2>1 DEF RunTasks, New, Typed
  <2>3. op[t] = "none" => want'[t] = {} \/ op'[t] = "none"
    BY <1>1, <2>1 DEF RunTasks, New, Typed
  <2>4. op[t] = "none" => runner[t] = "none"
    BY <1>1 DEF Seated
  <2> QED  BY <2>1, <2>2, <2>3, <2>4, OwnedKept
<1>5. ASSUME NEW ops, NEW open, NEW rc, Admitted(ops, open, rc),
             UNCHANGED <<want, final, repair, target>>,
             ops[t] = op[t] \/ op[t] # "none", rc[t] = runner[t]
      PROVE  OwnedBy(t)' /\ ModestOf(t)'
  <2>1. \/ op'[t] = ops[t] /\ runner'[t] = rc[t]
        \/ runner'[t] = "begin" /\ ops[t] = "pending"
    BY <1>5 DEF Admitted
  <2> QED  BY <1>5, <2>1, OwnedKept
<1>6. ASSUME NEW u \in Tasks, Dispatch(u) PROVE OwnedBy(t)' /\ ModestOf(t)'
  <2>1. /\ Admitted([op EXCEPT ![u] = "pending"], admission, runner)
        /\ UNCHANGED <<want, final, repair, target>> /\ lock # <<>> /\ lock[1] = Dispatcher(u)
    BY <1>6 DEF Dispatch, Turn
  <2>2. 1 \in DOMAIN lock
    BY <1>1, <2>1, EmptySeq, LenProperties
  <2>3. op[u] = "dispatch"
    BY <1>1, <2>1, <2>2 DEF Keyed
  <2>4. [op EXCEPT ![u] = "pending"][t] = op[t] \/ op[t] # "none"
    BY <1>1, <2>3 DEF Typed
  <2> QED  BY <1>5, <2>1, <2>4
<1>7. CASE RefreshOpens
  BY <1>5, <1>7 DEF RefreshOpens
<1>8. ASSUME NEW u \in Tasks, FinishOperation(u) PROVE OwnedBy(t)' /\ ModestOf(t)'
  <2>1. /\ Admitted([op EXCEPT ![u] = "none"], admission, [runner EXCEPT ![u] = "none"])
        /\ want' = [want EXCEPT ![u] = {}] /\ UNCHANGED <<final, target>>
        /\ target[1] # u => UNCHANGED repair
    BY <1>8 DEF FinishOperation, Completes
  <2>2. CASE t = u
    <3>1. /\ want'[t] = {} /\ [op EXCEPT ![u] = "none"][t] = "none"
          /\ [runner EXCEPT ![u] = "none"][t] = "none"
      BY <1>1, <2>1, <2>2 DEF Typed
    <3>2. runner'[t] \in {"none", "begin"}
      BY <2>1, <3>1 DEF Admitted
    <3> QED  BY <3>1, <3>2 DEF OwnedBy, ModestOf
  <2>3. CASE t # u
    <3> DEFINE ops == [op EXCEPT ![u] = "none"]
               rc == [runner EXCEPT ![u] = "none"]
    <3>1. want'[t] = want[t] /\ ops[t] = op[t] /\ rc[t] = runner[t]
      BY <1>1, <2>1, <2>3 DEF Typed
    <3> HIDE DEF ops, rc
    <3>2. \/ op'[t] = ops[t] /\ runner'[t] = rc[t]
          \/ runner'[t] = "begin" /\ ops[t] = "pending"
      BY <2>1 DEF Admitted, ops, rc
    <3> QED  BY <2>1, <2>3, <3>1, <3>2, OwnedKept
  <2> QED  BY <2>2, <2>3
<1> QED  BY <1>2, <1>3, <1>4, <1>6, <1>7, <1>8 DEF RefreshStep

LEMMA OwnedRuns ==
  ASSUME Maintenance = FALSE, SchedulerInv, Calm, Listed, NEW t \in Tasks, OwnedBy(t), ModestOf(t),
         \/ \E u \in Tasks : RunnerStep(u) /\ ~FinishOperation(u)
         \/ \E i \in Items : WorkerStep(i) \/ Chunk(i) \/ DownloadEnds(i)
  PROVE  OwnedBy(t)' /\ ModestOf(t)'
<1>1. Typed /\ Sane
  BY DEF SchedulerInv, Calm, Sane
<1>2. ASSUME NEW u \in Tasks,
             RunnerBegins(u) \/ RunnerCleared(u) \/ RunnerDownloading(u) \/ RunnerLists(u)
      PROVE  OwnedBy(t)' /\ ModestOf(t)'
  <2>1. /\ UNCHANGED <<op, want, final, repair, target>>
        /\ \E p \in {"priority", "selected", "downloading", "list", "gather"} :
             runner' = [runner EXCEPT ![u] = p]
    BY <1>2 DEF RunnerBegins, RunnerCleared, RunnerDownloading, RunnerLists
  <2>2. runner'[t] \in {"raised", "final"} => runner'[t] = runner[t]
    BY <1>1, <2>1 DEF Typed
  <2> QED  BY <2>1, <2>2, OwnedKept
<1>3. ASSUME NEW u \in Tasks, RunnerSelected(u) PROVE OwnedBy(t)' /\ ModestOf(t)'
  <2>1. /\ UNCHANGED <<op, want, final, repair, target>> /\ runner[u] = "selected"
        /\ \E p \in {"downloading", "raised"} : runner' = [runner EXCEPT ![u] = p]
    BY <1>3 DEF RunnerSelected
  <2>2. want[u] # {}
    BY <1>1, <2>1 DEF Listed
  <2>3. t # u => runner'[t] = runner[t]
    BY <1>1, <2>1 DEF Typed
  <2>4. runner'[u] # "final"
    BY <1>1, <2>1 DEF Typed
  <2> QED  BY <2>1, <2>2, <2>3, <2>4 DEF OwnedBy, ModestOf
<1>4. ASSUME NEW u \in Tasks, RunnerGathered(u) PROVE OwnedBy(t)' /\ ModestOf(t)'
  <2>1. /\ UNCHANGED <<op, want, repair, target>> /\ runner' = [runner EXCEPT ![u] = "final"]
        /\ \A v \in Tasks : v # u => final'[v] = final[v]
        /\ final'[u].status = "COMPLETED" => want[u] = {}
    BY <1>4, MendedGathers
  <2>2. (t # u => runner'[t] = runner[t]) /\ runner'[u] = "final"
    BY <1>1, <2>1 DEF Typed
  <2> QED  BY <2>1, <2>2 DEF OwnedBy, ModestOf
<1>5. ASSUME NEW u \in Tasks, RunnerWrites(u) PROVE OwnedBy(t)' /\ ModestOf(t)'
  <2>1. /\ UNCHANGED <<op, want, repair, target>> /\ runner' = [runner EXCEPT ![u] = "ended"]
        /\ final' = [final EXCEPT ![u] = Row("none", "none")]
    BY <1>5 DEF RunnerWrites
  <2>2. runner'[t] \in {"raised", "final"} => runner'[t] = runner[t] /\ final'[t] = final[t]
    BY <1>1, <2>1 DEF Typed
  <2> QED  BY <2>1, <2>2, OwnedKept
<1>6. ASSUME NEW i \in Items, WorkerStep(i) \/ Chunk(i) \/ DownloadEnds(i)
      PROVE  OwnedBy(t)' /\ ModestOf(t)'
  <2>1. UNCHANGED <<op, want, runner, final, repair, target>>
    BY <1>6 DEF WorkerStep, Acquire, Settle, Confirms, RetryItem, RetryTask, Wakes, Retries, Chunk,
       DownloadEnds
  <2> QED  BY <2>1, OwnedKept
<1> QED  BY <1>2, <1>3, <1>4, <1>5, <1>6 DEF RunnerStep

LEMMA OwnedRepairs ==
  ASSUME SchedulerInv, Calm, NEW t \in Tasks, OwnedBy(t), ModestOf(t),
         RepairStep \/ \E i \in Items : VerifyStarts(i)
  PROVE  OwnedBy(t)' /\ ModestOf(t)'
<1>1. Typed /\ Seated /\ target[1] \in Tasks
  BY DEF SchedulerInv, Together, Calm, Sane, Typed, Items
<1>2. /\ UNCHANGED <<runner, final>> /\ repair # "own"
      /\ \/ UNCHANGED <<op, want>>
         \/ /\ op[target[1]] = "none" /\ op' = [op EXCEPT ![target[1]] = "dispatch"]
            /\ want' = [want EXCEPT ![target[1]] = {target}]
            /\ repair' = "own" /\ UNCHANGED target
  BY DEF RepairStep, VerifyStarts, VerifyEnds, RepairPrepares, RepairRuns, RepairAsks,
         RepairChecks, RepairRecomputes, RepairQueues
<1>3. CASE UNCHANGED <<op, want>>
  BY <1>2, <1>3 DEF OwnedBy, ModestOf
<1>4. CASE ~UNCHANGED <<op, want>>
  <2>1. t # target[1] => op'[t] = op[t] /\ want'[t] = want[t]
    BY <1>1, <1>2, <1>4 DEF Typed
  <2>2. t = target[1] => runner[t] = "none"
    BY <1>1, <1>2, <1>4 DEF Seated
  <2> QED  BY <1>2, <1>4, <2>1, <2>2 DEF OwnedBy, ModestOf
<1> QED  BY <1>3, <1>4

LEMMA MendedStep ==
  ASSUME Faults = FALSE, Maintenance = FALSE, MaxStops = 0,
         SchedulerInv, Listed, Calm, Mended, [Next]_vars
  PROVE  Mended'
<1>1. Typed /\ ~(CommandFails \/ Shutdown \/ GraceEnds \/ Exits \/ Crashes \/ Restart)
  BY CalmStays DEF SchedulerInv
<1>2. CASE UNCHANGED vars
  BY <1>2 DEF vars, Mended, Modest, Owned, Remembered, Missed, Attended
<1>3. CASE ~UNCHANGED vars
  <2>1. ASSUME NEW t \in Tasks PROVE OwnedBy(t)' /\ ModestOf(t)'
    <3>1. OwnedBy(t) /\ ModestOf(t)
      BY DEF Mended, Modest, Owned, OwnedBy, ModestOf
    <3>2. CASE \/ \E u \in Tasks : \/ CallPause(u) \/ Pause(u) \/ CallResume(u) \/ Resume(u)
                                   \/ Dispatch(u) \/ FinishOperation(u)
               \/ RefreshStep \/ RestoreQueue \/ Edge
      BY <3>1, <3>2, OwnedQueue
    <3>3. CASE \/ \E u \in Tasks : RunnerStep(u) /\ ~FinishOperation(u)
               \/ \E i \in Items : WorkerStep(i) \/ Chunk(i) \/ DownloadEnds(i)
      BY <3>1, <3>3, OwnedRuns
    <3>4. CASE RepairStep \/ \E i \in Items : VerifyStarts(i)
      BY <3>1, <3>4, OwnedRepairs
    <3> QED  BY <1>1, <1>3, <3>2, <3>3, <3>4 DEF Next
  <2>2. ASSUME NEW i \in Items PROVE Remembered(i)'
    <3>1. Remembered(i) /\ Modest /\ Owned
      BY DEF Mended
    <3>2. ASSUME NEW u \in Tasks,
                 \/ CallPause(u) \/ Pause(u) \/ CallResume(u) \/ Resume(u) \/ Dispatch(u)
          PROVE  Remembered(i)'
      BY <3>1, <3>2, MendedCallPause, MendedQuiet, MendedResumes, MendedAdmits
    <3>3. ASSUME NEW u \in Tasks, RunnerStep(u) PROVE Remembered(i)'
      BY <3>1, <3>3, MendedRuns, MendedEnds, MendedFinishes DEF RunnerStep
    <3>4. ASSUME NEW j \in Items, WorkerStep(j) \/ Chunk(j) \/ DownloadEnds(j) \/ VerifyStarts(j)
          PROVE  Remembered(i)'
      BY <3>1, <3>4, MendedWorks, MendedQuiet, MendedVerifies
    <3>5. CASE Edge \/ RefreshStep \/ RestoreQueue
      BY <3>1, <3>5, MendedQuiet, MendedResumes, MendedAdmits DEF RefreshStep
    <3>6. CASE RepairStep
      BY <3>1, <3>6, MendedVerifies, MendedRepairs DEF RepairStep
    <3> QED  BY <1>1, <1>3, <3>2, <3>3, <3>4, <3>5, <3>6 DEF Next
  <2> QED  BY <2>1, <2>2 DEF Mended, Modest, Owned, OwnedBy, ModestOf
<1> QED  BY <1>2, <1>3

LEMMA MendedInit == Init => Mended /\ Calm
<1> SUFFICES ASSUME Init PROVE Mended /\ Calm
  OBVIOUS
<1>1. /\ row \in [Tasks -> {Row("QUEUED", "none")} \cup
                            (IF WasPaused THEN {Row("PAUSED", "schedule")} ELSE {})]
      /\ process = "up" /\ fault = FALSE /\ stops = 0
      /\ op = [t \in Tasks |-> "none"] /\ runner = [t \in Tasks |-> "none"]
      /\ worker = [i \in Items |-> "none"]
  BY DEF Init, Memory
<1>2. \A t \in Tasks : row[t].status # "COMPLETED"
  BY <1>1 DEF Row
<1>3. \A i \in Items : i[1] \in Tasks
  BY DEF Items
<1> QED  BY <1>1, <1>2, <1>3 DEF Mended, Modest, Owned, Remembered, Missed, Calm

(* A repaired file is not forgotten in a task that counts as completed, for *)
(* schedulers without repairs, and for those that no failure, refusal or    *)
(* stop disturbs: these would drop the repair that still asks for the file. *)
THEOREM RepairedIsServed ==
  ASSUME Integrity = FALSE \/ (Faults = FALSE /\ Maintenance = FALSE /\ MaxStops = 0)
  PROVE  Spec => []RepairServed
<1>1. CompletedMeansAll => RepairServed
  <2>1. \A i \in Items : i[1] \in Tasks /\ i \in ItemsOf(i[1])
    BY DEF Items, ItemsOf
  <2> QED  BY <2>1 DEF CompletedMeansAll, RepairServed
<1>2. CASE Integrity = FALSE
  BY <1>1, <1>2, CompletedIsComplete, PTL
<1>3. CASE Faults = FALSE /\ Maintenance = FALSE /\ MaxStops = 0
  <2> DEFINE Inv == SchedulerInv /\ Stopped /\ Noted /\ Calm /\ Mended
  <2>1. Init => Inv
    BY SchedulerInit, StoppedInit, MendedInit
  <2>2. Inv /\ [Next]_vars => Inv'
    BY <1>3, SchedulerStep, StoppedStep, NotedStep, CalmStays, MendedStep DEF SchedulerInv, Stopped
  <2>3. Inv => RepairServed
    BY DEF Mended, Remembered, Attended, RepairServed
  <2> HIDE DEF Inv
  <2> QED  BY <2>1, <2>2, <2>3, PTL DEF Spec
<1> QED  BY <1>2, <1>3

=============================================================================
