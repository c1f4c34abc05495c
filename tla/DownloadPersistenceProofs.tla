---------------------- MODULE DownloadPersistenceProofs ----------------------
(***************************************************************************)
(* For any items, any number of updates, and whatever fails or is          *)
(* cancelled: an accepted update is neither lost nor overtaken, a row only *)
(* moves forward, and close() is final.  The argument keeps two things     *)
(* apart: who may write (the lock's queue holds each waiter once, and only *)
(* its head is at work) and what is written (a batch is newer than the row *)
(* and older than what is still pending).                                  *)
(***************************************************************************)
EXTENDS DownloadPersistence, SequenceTheorems, WellFoundedInduction, TLAPS
-----------------------------------------------------------------------------
(* The queue of the lock. *)
In(a, q)     == \E k \in 1 .. Len(q) : q[k] = a
Once(q)      == \A k, m \in 1 .. Len(q) : q[k] = q[m] => k = m
CallersFirst(q) == \A k, m \in 1 .. Len(q) : q[k] \in Callers /\ q[m] = Closer => k < m

(* r is q without its p-th place. *)
Shortened(q, r, p) ==
  /\ r \in Seq(Agents) /\ Len(r) = Len(q) - 1
  /\ \A k \in 1 .. Len(r) : r[k] = IF k < p THEN q[k] ELSE q[k + 1]

(* Where an agent owns the lock and has a repository call in flight, and    *)
(* where it owns it or waits for it.                                         *)
Busy   == {"flush", "command", "closeFlush"}
InLock == Busy \cup {"queued", "closeQueued"}

(* What each agent's coroutine can be doing. *)
Typed ==
  /\ issued \in [Items -> Nat] /\ accepted \in [Items -> Nat] /\ pending \in [Items -> Nat]
  /\ batch \in [Items -> Nat] /\ db \in [Items -> Nat] /\ acked \in [Items -> Nat]
  /\ mustSee \in [Items -> Nat]
  /\ thread \in {"none", "running", "committed", "failed"}
  /\ fault \in BOOLEAN /\ cancelled \subseteq Callers

PhasesTyped ==
  /\ phase \in [Agents -> Phases]
  /\ \A c \in Callers : phase[c] \in {"idle", "queued", "flush", "command"}
  /\ phase[Worker] \in {"none", "top", "asleep", "window", "exited", "queued", "flush"}
  /\ phase[Closer] \in {"idle", "queued", "flush", "closeQueued", "closeFlush", "join", "closed"}

(* Who waits for the lock waits once, and only its owner is at work. *)
Queued ==
  /\ lockq \in Seq(Agents) /\ Once(lockq)
  /\ \A a \in Agents : phase[a] \in InLock <=> In(a, lockq)

(* An item's numbers: what is written now is older than what is still       *)
(* pending, and newer than the row.                                          *)
Ordered(i) ==
  /\ accepted[i] <= issued[i] /\ db[i] <= issued[i] /\ acked[i] <= db[i]
  /\ batch[i] <= accepted[i] /\ mustSee[i] <= accepted[i]
  /\ pending[i] # 0 => pending[i] = accepted[i] /\ db[i] <= pending[i]
  /\ batch[i] # 0 => db[i] <= batch[i]

(* What is in flight: a batch belongs to a flush, a thread that committed    *)
(* left it in the rows, and an item's own call comes after its own updates.   *)
InFlight ==
  /\ (\A a \in Agents : phase[a] \notin {"flush", "closeFlush"}) => \A i \in Items : batch[i] = 0
  /\ thread = "committed" => \A i \in Items : batch[i] <= db[i]
  /\ \A i \in Items : /\ phase[i] \in {"flush", "command"} => pending[i] = 0
                      /\ phase[i] = "command" /\ thread = "committed" => db[i] = issued[i]
  /\ phase[Manager] = "flush" => \A i \in Items : mustSee[i] <= db[i] \/ mustSee[i] <= batch[i]

(* close() waits behind every call there is, and none comes after it. *)
Ending ==
  /\ closing <=> (phase[Closer] \in {"closeQueued", "closeFlush", "join"})
  /\ closed <=> (phase[Closer] = "closed")
  /\ phase[Closer] \in {"closeQueued", "closeFlush"} => CallersFirst(lockq)
  /\ phase[Closer] \in {"join", "closed"} =>
       /\ \A c \in Callers : phase[c] = "idle"
       /\ fault \/ \A i \in Items : pending[i] = 0
  /\ phase[Closer] = "closed" => phase[Worker] \in {"none", "exited"}

Locked     == PhasesTyped /\ Queued /\ OneWriter
InOrder    == /\ Typed /\ (\A i \in Items : Ordered(i))
              /\ InFlight /\ GlobalBarrierSees /\ AcceptedIsKept
PersistInv == Locked /\ InOrder /\ Ending

(* A waiter is appended. *)
LEMMA Joins ==
  ASSUME NEW q \in Seq(Agents), NEW a \in Agents, Once(q), ~In(a, q)
  PROVE  LET r == Append(q, a) IN
         /\ r \in Seq(Agents) /\ Once(r) /\ r # <<>>
         /\ \A b : In(b, r) <=> In(b, q) \/ b = a
         /\ q # <<>> => r[1] = q[1]
         /\ q = <<>> => r[1] = a
         /\ a = Closer /\ ~In(Closer, q) => CallersFirst(r)
         /\ a \notin Callers \cup {Closer} /\ CallersFirst(q) => CallersFirst(r)
<1> DEFINE r == Append(q, a)
<1>1. /\ r \in Seq(Agents) /\ r # <<>> /\ Len(r) = Len(q) + 1 /\ Len(q) \in Nat
      /\ \A i \in 1 .. Len(q) : r[i] = q[i]
      /\ r[Len(q) + 1] = a
  BY AppendProperties, LenProperties
<1>2. q # <<>> => Len(q) >= 1
  BY EmptySeq, <1>1
<1>3. q = <<>> => Len(q) = 0
  OBVIOUS
<1> HIDE DEF r
<1>4. Once(r)
  BY <1>1 DEF Once, In
<1>5. ASSUME NEW b PROVE In(b, r) <=> In(b, q) \/ b = a
  BY <1>1 DEF In
<1>6. a = Closer /\ ~In(Closer, q) => CallersFirst(r)
  <2> SUFFICES ASSUME a = Closer, ~In(Closer, q), NEW k \in 1 .. Len(r), NEW m \in 1 .. Len(r),
                      r[k] \in Callers, r[m] = Closer
               PROVE  k < m
    BY DEF CallersFirst
  <2>1. m = Len(q) + 1
    BY <1>1 DEF In
  <2>2. k # m
    BY AgentsAssumption DEF Callers
  <2> QED  BY <1>1, <2>1, <2>2
<1>7. a \notin Callers \cup {Closer} /\ CallersFirst(q) => CallersFirst(r)
  BY <1>1 DEF CallersFirst
<1> QED  BY <1>1, <1>2, <1>3, <1>4, <1>5, <1>6, <1>7 DEF r

(* The owner leaves from the head, a waiter from where it is. *)
LEMMA Leaves ==
  ASSUME NEW q \in Seq(Agents), NEW p \in 1 .. Len(q), NEW r, Shortened(q, r, p), Once(q)
  PROVE  /\ r \in Seq(Agents) /\ Once(r)
         /\ \A b : In(b, r) <=> In(b, q) /\ b # q[p]
         /\ p # 1 => r # <<>> /\ r[1] = q[1]
         /\ CallersFirst(q) => CallersFirst(r)
<1>1. Len(q) \in Nat /\ r \in Seq(Agents) /\ Len(r) = Len(q) - 1 /\ Len(r) \in Nat
  BY LenProperties DEF Shortened
<1> DEFINE from(k) == IF k < p THEN k ELSE k + 1
<1>2. \A k \in 1 .. Len(r) : from(k) \in 1 .. Len(q) /\ from(k) # p /\ r[k] = q[from(k)]
  BY <1>1 DEF Shortened
<1>3. \A k, m \in 1 .. Len(r) : /\ from(k) = from(m) => k = m
                                /\ from(k) < from(m) => k < m
  BY <1>1
<1>4. \A j \in 1 .. Len(q) : j # p => \E k \in 1 .. Len(r) : j = from(k)
  <2> SUFFICES ASSUME NEW j \in 1 .. Len(q), j # p PROVE \E k \in 1 .. Len(r) : j = from(k)
    OBVIOUS
  <2>1. CASE j < p
    <3>1. j \in 1 .. Len(r) /\ j = from(j)
      BY <2>1, <1>1
    <3> QED  BY <3>1
  <2>2. CASE j > p
    <3>1. j - 1 \in 1 .. Len(r) /\ j = from(j - 1)
      BY <2>2, <1>1
    <3> QED  BY <3>1
  <2> QED  BY <2>1, <2>2
<1>5. p # 1 => r # <<>> /\ r[1] = q[1]
  BY <1>1 DEF Shortened
<1> HIDE DEF from
<1>6. Once(r)
  BY <1>2, <1>3 DEF Once
<1>7. ASSUME NEW b PROVE In(b, r) <=> In(b, q) /\ b # q[p]
  <2>1. In(b, r) => In(b, q) /\ b # q[p]
    BY <1>2 DEF In, Once
  <2>2. In(b, q) /\ b # q[p] => In(b, r)
    BY <1>2, <1>4 DEF In
  <2> QED  BY <2>1, <2>2
<1>8. CallersFirst(q) => CallersFirst(r)
  BY <1>2, <1>3 DEF CallersFirst
<1> QED  BY <1>1, <1>5, <1>6, <1>7, <1>8

(* The head leaves. *)
LEMMA TailShortens ==
  ASSUME NEW q \in Seq(Agents), q # <<>> PROVE 1 \in 1 .. Len(q) /\ Shortened(q, Tail(q), 1)
<1>1. Len(q) \in Nat \ {0}
  BY EmptySeq
<1>2. Tail(q) \in Seq(Agents) /\ Len(Tail(q)) = Len(q) - 1
      /\ \A i \in 1 .. Len(Tail(q)) : Tail(q)[i] = q[i + 1]
  BY HeadTailProperties
<1> QED  BY <1>1, <1>2 DEF Shortened

(* Whoever is removed by name was at one place, and only that place goes. *)
LEMMA RemoveShortens ==
  ASSUME NEW q \in Seq(Agents), NEW a, In(a, q)
  PROVE  \E p \in 1 .. Len(q) : q[p] = a /\ Shortened(q, RemoveFirst(q, a), p)
<1> DEFINE P == {i \in 1 .. Len(q) : q[i] = a}
<1>1. P \subseteq Nat /\ P # {} /\ Len(q) \in Nat
  BY LenProperties DEF In
<1>2. PICK t \in P : \A y \in P : <<y, t>> \notin OpToRel(<, Nat)
  BY <1>1, NatLessThanWellFounded, WFMin
<1>3. ASSUME NEW y \in P PROVE t <= y
  <2>1. SUFFICES ASSUME y < t PROVE FALSE
    BY <1>1
  <2>2. y \in Nat /\ t \in Nat
    BY <1>1
  <2>3. <<y, t>> \in OpToRel(<, Nat)
    BY <2>1, <2>2, Zenon DEF OpToRel
  <2> QED  BY <2>3, <1>2
<1> DEFINE p == SelectInSeq(q, LAMBDA v : v = a)
<1>4. p \in P
  BY <1>1, <1>3 DEF SelectInSeq, Min
<1>5. RemoveFirst(q, a) = RemoveAt(q, p)
  BY <1>1 DEF RemoveFirst
<1> HIDE DEF p
<1>6. p \in 1 .. Len(q) /\ q[p] = a
  BY <1>4
<1> DEFINE u == SubSeq(q, 1, p - 1)
           v == SubSeq(q, p + 1, Len(q))
<1>7. /\ u \in Seq(Agents) /\ Len(u) = p - 1 /\ \A k \in 1 .. p - 1 : u[k] = q[k]
  <2>1. \A i \in 1 .. p - 1 : q[i] \in Agents
    BY <1>1, <1>6, ElementOfSeq
  <2> QED  BY <1>1, <1>6, <2>1, SubSeqProperties
<1>8. /\ v \in Seq(Agents) /\ Len(v) = Len(q) - p
      /\ \A k \in 1 .. Len(q) - p : v[k] = q[p + k]
  <2>1. \A i \in p + 1 .. Len(q) : q[i] \in Agents
    BY <1>1, <1>6, ElementOfSeq
  <2>2. /\ v \in Seq(Agents) /\ Len(v) = IF p + 1 <= Len(q) THEN Len(q) - (p + 1) + 1 ELSE 0
        /\ \A i \in 1 .. Len(q) - (p + 1) + 1 : v[i] = q[p + 1 + i - 1]
    BY <1>1, <1>6, <2>1, SubSeqProperties
  <2> QED  BY <1>1, <1>6, <2>2
<1> HIDE DEF u, v
<1>9. /\ u \o v \in Seq(Agents) /\ Len(u \o v) = Len(u) + Len(v)
      /\ \A k \in 1 .. Len(u) + Len(v) : (u \o v)[k] = IF k <= Len(u) THEN u[k] ELSE v[k - Len(u)]
  BY <1>7, <1>8, ConcatProperties
<1>10. Shortened(q, u \o v, p)
  <2>1. ASSUME NEW k \in 1 .. Len(q) - 1 PROVE (u \o v)[k] = IF k < p THEN q[k] ELSE q[k + 1]
    <3>1. CASE k < p
      BY <3>1, <1>1, <1>6, <1>7, <1>8, <1>9
    <3>2. CASE k >= p
      <4>1. k - Len(u) \in 1 .. Len(q) - p /\ p + (k - Len(u)) = k + 1 /\ ~(k <= Len(u))
        BY <3>2, <1>1, <1>6, <1>7
      <4>2. k \in 1 .. Len(u) + Len(v)
        BY <1>1, <1>6, <1>7, <1>8
      <4> QED  BY <3>2, <4>1, <4>2, <1>1, <1>6, <1>8, <1>9
    <3>3. k < p \/ k >= p
      BY <1>1, <1>6
    <3>4. k >= p => ~(k < p)
      BY <1>1, <1>6
    <3> QED  BY <3>1, <3>2, <3>3, <3>4, Zenon
  <2>2. u \o v \in Seq(Agents) /\ Len(u \o v) = Len(q) - 1
    BY <1>1, <1>6, <1>7, <1>8, <1>9
  <2> DEFINE w == u \o v
  <2> HIDE DEF w
  <2>3. w \in Seq(Agents) /\ Len(w) = Len(q) - 1
        /\ \A k \in 1 .. Len(q) - 1 : w[k] = IF k < p THEN q[k] ELSE q[k + 1]
    BY <2>1, <2>2 DEF w
  <2> QED  BY <2>3, Zenon DEF Shortened, w
<1> QED  BY <1>5, <1>6, <1>10 DEF RemoveAt, u, v

(* The agents are different. *)
LEMMA Apart ==
  /\ Agents = Items \cup {Manager, Worker, Closer} /\ Callers = Items \cup {Manager}
  /\ Manager \notin Items /\ Worker \notin Callers /\ Closer \notin Callers /\ Worker # Closer
BY AgentsAssumption DEF Agents, Callers

-----------------------------------------------------------------------------
(* What a step does to the lock. *)
(* An agent that owns nothing, or does not change, changes nothing. *)
LEMMA LockAside ==
  ASSUME Locked, NEW a \in Agents, NEW x \in Phases, phase' = [phase EXCEPT ![a] = x],
         phase[a] \notin InLock, x \notin InLock, UNCHANGED lockq, thread' = "none" <=> thread = "none"
  PROVE  Queued' /\ OneWriter'
<1>1. \A b \in Agents : phase'[b] = IF b = a THEN x ELSE phase[b]
  BY DEF Locked, PhasesTyped
<1>2. Queued'
  BY <1>1 DEF Locked, Queued, Once, In
<1>3. OneWriter'
  BY <1>1 DEF Locked, OneWriter, InLock, Busy, Owner
<1> QED  BY <1>2, <1>3

(* An agent begins to wait. *)
LEMMA LockJoins ==
  ASSUME Locked, NEW a \in Agents, NEW x \in {"queued", "closeQueued"}, phase' = [phase EXCEPT ![a] = x],
         phase[a] \notin InLock, lockq' = Append(lockq, a), UNCHANGED thread
  PROVE  /\ Queued' /\ OneWriter'
         /\ a = Closer => CallersFirst(lockq')
         /\ a \notin Callers \cup {Closer} /\ CallersFirst(lockq) => CallersFirst(lockq')
<1>1. \A b \in Agents : phase'[b] = IF b = a THEN x ELSE phase[b]
  BY DEF Locked, PhasesTyped
<1>2. ~In(a, lockq) /\ lockq \in Seq(Agents) /\ Once(lockq)
  BY DEF Locked, Queued
<1>3. /\ lockq' \in Seq(Agents) /\ Once(lockq')
      /\ \A b : In(b, lockq') <=> In(b, lockq) \/ b = a
      /\ lockq # <<>> => lockq' # <<>> /\ lockq'[1] = lockq[1]
      /\ a = Closer => CallersFirst(lockq')
      /\ a \notin Callers \cup {Closer} /\ CallersFirst(lockq) => CallersFirst(lockq')
  BY <1>2, Joins
<1>4. Queued'
  <2>1. Once(lockq)' /\ \A b : In(b, lockq)' <=> In(b, lockq) \/ b = a
    BY <1>3 DEF Once, In
  <2> QED  BY <1>1, <1>3, <2>1 DEF Locked, Queued, InLock
<1>5. OneWriter'
  BY <1>1, <1>3 DEF Locked, OneWriter, InLock, Busy, Owner
<1> QED  BY <1>3, <1>4, <1>5

(* A waiter gives up, or the owner releases the lock. *)
LEMMA LockLeaves ==
  ASSUME Locked, NEW a \in Agents, NEW x \in Phases, phase' = [phase EXCEPT ![a] = x],
         phase[a] \in InLock, x \notin InLock,
         lockq' = RemoveFirst(lockq, a) \/ (Owner(a) /\ lockq' = Tail(lockq)),
         thread' = IF Owner(a) THEN "none" ELSE thread
  PROVE  Queued' /\ OneWriter' /\ (CallersFirst(lockq) => CallersFirst(lockq'))
<1>1. \A b \in Agents : phase'[b] = IF b = a THEN x ELSE phase[b]
  BY DEF Locked, PhasesTyped
<1>2. In(a, lockq) /\ lockq \in Seq(Agents) /\ Once(lockq)
  BY DEF Locked, Queued
<1>3. \E p \in 1 .. Len(lockq) : lockq[p] = a /\ Shortened(lockq, lockq', p)
  <2>1. CASE lockq' = RemoveFirst(lockq, a)
    BY <1>2, <2>1, RemoveShortens
  <2>2. CASE Owner(a) /\ lockq' = Tail(lockq)
    <3>1. 1 \in 1 .. Len(lockq) /\ lockq[1] = a /\ Shortened(lockq, lockq', 1)
      BY <1>2, <2>2, TailShortens DEF Owner
    <3> QED  BY <3>1
  <2> QED  BY <2>1, <2>2
<1>4. PICK p \in 1 .. Len(lockq) : lockq[p] = a /\ Shortened(lockq, lockq', p)
  BY <1>3
<1>5. /\ lockq' \in Seq(Agents) /\ Once(lockq')
      /\ \A b : In(b, lockq') <=> In(b, lockq) /\ b # a
      /\ p # 1 => lockq' # <<>> /\ lockq'[1] = lockq[1]
      /\ CallersFirst(lockq) => CallersFirst(lockq')
  BY <1>2, <1>4, Leaves
<1>6. Queued'
  <2>1. Once(lockq)' /\ \A b : In(b, lockq)' <=> In(b, lockq) /\ b # a
    BY <1>5 DEF Once, In
  <2> QED  BY <1>1, <1>5, <2>1 DEF Locked, Queued, InLock
<1>7. Owner(a) <=> p = 1
  <2>1. lockq # <<>> /\ 1 \in 1 .. Len(lockq)
    BY <1>2, <1>4, EmptySeq, LenProperties
  <2> QED  BY <1>2, <1>4, <2>1 DEF Owner, Once
<1>8. OneWriter'
  <2>1. CASE Owner(a)
    <3>1. \A b \in Agents : phase'[b] \notin Busy
      BY <1>1, <2>1 DEF Locked, OneWriter, Owner, InLock, Busy
    <3> QED  BY <2>1, <3>1 DEF OneWriter, Busy
  <2>2. CASE ~Owner(a)
    <3>1. phase[a] \notin Busy
      BY <2>2 DEF Locked, OneWriter, Busy
    <3> QED  BY <1>1, <1>5, <1>7, <2>2, <3>1 DEF Locked, OneWriter, Owner, InLock, Busy
  <2> QED  BY <2>1, <2>2
<1> QED  BY <1>5, <1>6, <1>8

(* The owner hands a call to a thread. *)
LEMMA LockWorks ==
  ASSUME Locked, NEW a \in Agents, NEW x \in Busy, phase' = [phase EXCEPT ![a] = x],
         phase[a] \in InLock, Owner(a), UNCHANGED lockq, thread' # "none"
  PROVE  Queued' /\ OneWriter'
<1>1. \A b \in Agents : phase'[b] = IF b = a THEN x ELSE phase[b]
  BY DEF Locked, PhasesTyped
<1>2. Queued'
  BY <1>1 DEF Locked, Queued, Once, In, InLock
<1>3. OneWriter'
  BY <1>1 DEF Locked, OneWriter, InLock, Busy, Owner
<1> QED  BY <1>2, <1>3

(* close() goes to the end of the queue. *)
LEMMA LockAgain ==
  ASSUME Locked, phase' = [phase EXCEPT ![Closer] = "closeQueued"],
         lockq' = Append(RemoveFirst(lockq, Closer), Closer),
         \/ phase[Closer] \notin InLock /\ UNCHANGED thread
         \/ phase[Closer] \in InLock /\ Owner(Closer) /\ thread' = "none"
  PROVE  Queued' /\ OneWriter' /\ CallersFirst(lockq')
<1> DEFINE q == RemoveFirst(lockq, Closer)
<1>1. \A b \in Agents : phase'[b] = IF b = Closer THEN "closeQueued" ELSE phase[b]
  BY DEF Locked, PhasesTyped
<1>2. lockq \in Seq(Agents) /\ Once(lockq)
  BY DEF Locked, Queued
<1>3. /\ q \in Seq(Agents) /\ Once(q) /\ ~In(Closer, q)
      /\ \A b : In(b, q) <=> In(b, lockq) /\ b # Closer
  <2>1. CASE phase[Closer] \notin InLock
    <3>1. ~In(Closer, lockq)
      BY <2>1, Apart DEF Locked, Queued
    <3>2. q = lockq
      BY <3>1 DEF RemoveFirst, In
    <3> QED  BY <1>2, <3>1, <3>2
  <2>2. CASE phase[Closer] \in InLock
    <3>1. In(Closer, lockq)
      BY <2>2, Apart DEF Locked, Queued
    <3>2. PICK p \in 1 .. Len(lockq) : lockq[p] = Closer /\ Shortened(lockq, q, p)
      BY <1>2, <3>1, RemoveShortens
    <3> HIDE DEF q
    <3> QED  BY <1>2, <3>2, Leaves
  <2> QED  BY <2>1, <2>2
<1>4. lockq' = Append(q, Closer)
  OBVIOUS
<1> HIDE DEF q
<1>5. /\ lockq' \in Seq(Agents) /\ Once(lockq')
      /\ \A b : In(b, lockq') <=> In(b, q) \/ b = Closer
      /\ CallersFirst(lockq')
  BY <1>3, <1>4, Joins, Apart
<1>6. Queued'
  <2>1. Once(lockq)' /\ \A b : In(b, lockq)' <=> In(b, lockq) \/ b = Closer
    BY <1>3, <1>5 DEF Once, In
  <2> QED  BY <1>1, <1>5, <2>1 DEF Locked, Queued, InLock
<1>7. OneWriter'
  <2>1. CASE phase[Closer] \in InLock
    <3>1. \A b \in Agents : phase'[b] \notin Busy
      BY <1>1, <2>1 DEF Locked, OneWriter, Owner, InLock, Busy
    <3> QED  BY <2>1, <3>1 DEF OneWriter, Busy
  <2>2. CASE phase[Closer] \notin InLock
    <3>1. q = lockq
      BY <2>2, Apart DEF Locked, Queued, q, RemoveFirst, In
    <3>2. lockq # <<>> => lockq' # <<>> /\ lockq'[1] = lockq[1]
      BY <1>3, <1>4, <3>1, Joins, Apart
    <3> QED  BY <1>1, <2>2, <3>2 DEF Locked, OneWriter, Owner, InLock, Busy
  <2> QED  BY <2>1, <2>2
<1> QED  BY <1>5, <1>6, <1>7

-----------------------------------------------------------------------------
(* What a step does to the numbers. *)
(* Nobody's call is touched. *)
LEMMA NumbersAside ==
  ASSUME Locked, InOrder, NEW a \in Agents, NEW x \in Phases, phase' = [phase EXCEPT ![a] = x],
         phase[a] \notin Busy, x \notin Busy, cancelled' \subseteq Callers,
         UNCHANGED <<issued, accepted, pending, db, thread, batch, fault, acked, mustSee>>
  PROVE  InOrder'
<1> USE DEF Locked, InOrder
<1>1. \A b \in Agents : phase'[b] = IF b = a THEN x ELSE phase[b]
  BY DEF PhasesTyped
<1>2. Typed' /\ (\A i \in Items : Ordered(i))' /\ AcceptedIsKept'
  BY DEF Typed, Ordered, AcceptedIsKept
<1>3. InFlight' /\ GlobalBarrierSees'
  BY <1>1, Apart DEF InFlight, GlobalBarrierSees, Busy
<1> QED  BY <1>2, <1>3

(* The owner's calls are over: what was written is in the rows, or the        *)
(* fault is set.                                                              *)
LEMMA NumbersSettle ==
  ASSUME Locked, InOrder, NEW a \in Agents, NEW x \in Phases, phase' = [phase EXCEPT ![a] = x],
         Owner(a), x \notin Busy, cancelled' \subseteq Callers, batch' = NoBatch, thread' = "none",
         fault' = TRUE \/ (UNCHANGED fault /\ thread \in {"none", "committed"}),
         acked' \in [Items -> Nat], \A i \in Items : acked'[i] <= db[i],
         UNCHANGED <<issued, accepted, pending, db, mustSee>>
  PROVE  InOrder'
<1> USE DEF Locked, InOrder
<1>1. \A b \in Agents : phase'[b] = IF b = a THEN x ELSE phase[b]
  BY DEF PhasesTyped
<1>2. \A b \in Agents : phase'[b] \notin Busy
  BY <1>1 DEF OneWriter, Owner, Busy
<1>3. batch' \in [Items -> Nat] /\ \A i \in Items : batch'[i] = 0
  BY DEF NoBatch
<1>4. Typed'
  BY <1>3 DEF Typed
<1>5. ASSUME NEW i \in Items PROVE Ordered(i)'
  BY <1>3 DEF Typed, Ordered
<1>6. InFlight' /\ GlobalBarrierSees'
  BY <1>2, <1>3, Apart DEF InFlight, GlobalBarrierSees, Busy
<1>7. AcceptedIsKept'
  <2> SUFFICES ASSUME ~fault', NEW i \in Items
               PROVE  db[i] >= accepted[i] \/ pending[i] = accepted[i]
    BY DEF AcceptedIsKept
  <2>1. ~fault /\ thread \in {"none", "committed"}
    OBVIOUS
  <2> QED  BY <2>1 DEF AcceptedIsKept, InFlight, Typed
<1> QED  BY <1>4, <1>5, <1>6, <1>7

(* A flush begins: the selected updates go from the map to the thread. *)
LEMMA NumbersFlush ==
  ASSUME Locked, InOrder, NEW a \in Agents, NEW x \in {"flush", "closeFlush"},
         phase' = [phase EXCEPT ![a] = x], Owner(a), StartFlush(a), x = "closeFlush" => a = Closer,
         a \in Callers => ~fault,
         \/ phase[a] \in {"queued", "closeQueued"}
         \/ phase[a] \in {"flush", "closeFlush"} /\ thread = "committed" /\ a = Closer,
         UNCHANGED <<issued, accepted, db, cancelled, fault, acked, mustSee>>
  PROVE  InOrder'
<1> USE DEF Locked, InOrder
<1>1. \A b \in Agents : phase'[b] = IF b = a THEN x ELSE phase[b]
  BY DEF PhasesTyped
<1>2. \A b \in Agents : b # a => phase'[b] \notin Busy /\ phase[b] \notin Busy
  BY <1>1 DEF OneWriter, Owner, Busy
<1>3. \A i \in Items : /\ batch'[i] = IF i \in Selected(a) THEN pending[i] ELSE 0
                       /\ pending'[i] = IF i \in Selected(a) THEN 0 ELSE pending[i]
  BY DEF StartFlush
<1>4. batch' \in [Items -> Nat] /\ pending' \in [Items -> Nat] /\ thread' = "running"
  BY DEF StartFlush, Typed
<1>5. \A i \in Items : batch[i] <= db[i]
  <2>1. CASE thread = "committed"
    BY <2>1 DEF InFlight
  <2>2. CASE phase[a] \in {"queued", "closeQueued"}
    <3>1. \A b \in Agents : phase[b] \notin {"flush", "closeFlush"}
      BY <1>2, <2>2 DEF Busy
    <3> QED  BY <3>1 DEF InFlight, Typed
  <2> QED  BY <2>1, <2>2
<1>6. Typed'
  BY <1>4 DEF Typed
<1>7. ASSUME NEW i \in Items PROVE Ordered(i)'
  BY <1>3 DEF Typed, Ordered
<1>8. AcceptedIsKept'
  <2> SUFFICES ASSUME ~fault, NEW i \in Items
               PROVE  \/ db[i] >= accepted[i] \/ batch'[i] = accepted[i] \/ pending'[i] = accepted[i]
    BY <1>4 DEF AcceptedIsKept
  <2>1. \/ db[i] >= accepted[i] \/ batch[i] = accepted[i] \/ pending[i] = accepted[i]
    BY DEF AcceptedIsKept
  <2> QED  BY <2>1, <1>3, <1>5 DEF Typed
<1>9. GlobalBarrierSees'
  BY <1>1, Apart DEF GlobalBarrierSees
<1>10. InFlight'
  <2>1. ~(\A b \in Agents : phase'[b] \notin {"flush", "closeFlush"})
    BY <1>1
  <2>2. ASSUME NEW i \in Items, phase'[i] \in {"flush", "command"} PROVE pending'[i] = 0
    <3>1. i = a
      BY <2>2, <1>2, Apart DEF Busy
    <3> QED  BY <3>1, <1>3 DEF Selected
  <2>3. ASSUME NEW i \in Items PROVE phase'[i] # "command"
    BY <1>1, <1>2, Apart DEF Busy
  <2>4. ASSUME phase'[Manager] = "flush", NEW i \in Items
        PROVE  mustSee[i] <= db[i] \/ mustSee[i] <= batch'[i]
    <3>1. a = Manager /\ a \notin Items
      BY <2>4, <1>2, Apart DEF Busy
    <3>2. \/ db[i] >= accepted[i] \/ batch[i] = accepted[i] \/ pending[i] = accepted[i]
      BY <3>1, Apart DEF AcceptedIsKept
    <3>3. mustSee[i] <= accepted[i] /\ mustSee[i] \in Nat /\ db[i] \in Nat /\ accepted[i] \in Nat
          /\ pending[i] \in Nat
      BY DEF Ordered, Typed
    <3>4. pending[i] # 0 => i \in Selected(a)
      BY <3>1 DEF Selected
    <3>5. batch[i] <= db[i] /\ batch[i] \in Nat
      BY <1>5 DEF Typed
    <3>6. CASE pending[i] # 0
      BY <3>2, <3>3, <3>4, <3>5, <3>6, <1>3
    <3>7. CASE pending[i] = 0
      BY <3>2, <3>3, <3>5, <3>7
    <3> QED  BY <3>6, <3>7
  <2> QED  BY <2>1, <2>2, <2>3, <2>4, <1>4 DEF InFlight
<1> QED  BY <1>6, <1>7, <1>8, <1>9, <1>10

(* A command begins, behind its barrier. *)
LEMMA NumbersCommand ==
  ASSUME Locked, InOrder, NEW c \in Callers, phase' = [phase EXCEPT ![c] = "command"], Owner(c),
         \/ phase[c] = "queued" /\ Selected(c) = {} /\ ~fault
         \/ phase[c] = "flush" /\ thread = "committed",
         thread' = "running", \A i \in Items : batch'[i] = 0, batch' \in [Items -> Nat],
         UNCHANGED <<issued, accepted, pending, db, cancelled, fault, acked, mustSee>>
  PROVE  InOrder'
<1> USE DEF Locked, InOrder
<1>1. \A b \in Agents : phase'[b] = IF b = c THEN "command" ELSE phase[b]
  BY DEF PhasesTyped
<1>2. \A b \in Agents : b # c => phase'[b] \notin Busy /\ phase[b] \notin Busy
  BY <1>1 DEF OneWriter, Owner, Busy
<1>3. \A i \in Items : batch[i] <= db[i]
  <2>1. CASE thread = "committed"
    BY <2>1 DEF InFlight
  <2>2. CASE phase[c] = "queued"
    <3>1. \A b \in Agents : phase[b] \notin {"flush", "closeFlush"}
      BY <1>2, <2>2 DEF Busy
    <3> QED  BY <3>1 DEF InFlight, Typed
  <2> QED  BY <2>1, <2>2
<1>4. Typed' /\ (\A i \in Items : Ordered(i))'
  BY DEF Typed, Ordered
<1>5. AcceptedIsKept'
  <2> SUFFICES ASSUME ~fault, NEW i \in Items
               PROVE  db[i] >= accepted[i] \/ pending[i] = accepted[i]
    BY DEF AcceptedIsKept
  <2>1. \/ db[i] >= accepted[i] \/ batch[i] = accepted[i] \/ pending[i] = accepted[i]
    BY DEF AcceptedIsKept
  <2> QED  BY <2>1, <1>3 DEF Typed
<1>6. GlobalBarrierSees'
  <2> SUFFICES ASSUME c = Manager, NEW i \in Items PROVE db[i] >= mustSee[i]
    BY <1>1, <1>2, Apart DEF GlobalBarrierSees, Busy
  <2>1. mustSee[i] <= accepted[i] /\ mustSee[i] \in Nat /\ db[i] \in Nat /\ accepted[i] \in Nat
        /\ batch[i] \in Nat /\ batch[i] <= db[i]
    BY <1>3 DEF Ordered, Typed
  <2>2. CASE phase[c] = "queued"
    <3>1. pending[i] = 0
      BY <2>2, Apart DEF Selected
    <3>2. db[i] >= accepted[i] \/ batch[i] = accepted[i] \/ pending[i] = accepted[i]
      BY <2>2 DEF AcceptedIsKept
    <3> QED  BY <2>1, <3>1, <3>2
  <2>3. CASE phase[c] = "flush"
    <3>1. mustSee[i] <= db[i] \/ mustSee[i] <= batch[i]
      BY <2>3 DEF InFlight
    <3> QED  BY <2>1, <3>1
  <2> QED  BY <2>2, <2>3
<1>7. InFlight'
  <2>1. ASSUME NEW i \in Items, phase'[i] \in {"flush", "command"} PROVE pending'[i] = 0
    <3>1. i = c
      BY <2>1, <1>2, Apart DEF Busy
    <3> QED  BY <3>1 DEF Selected, InFlight
  <2>2. phase'[Manager] # "flush"
    BY <1>1, <1>2, Apart DEF Busy
  <2> QED  BY <2>1, <2>2 DEF InFlight
<1> QED  BY <1>4, <1>5, <1>6, <1>7

-----------------------------------------------------------------------------
(* The actions. *)
LEMMA RecordKeeps == ASSUME PersistInv, NEW j \in Items, RecordProgress(j) PROVE PersistInv'
<1> USE DEF PersistInv, Locked, InOrder
<1>1. /\ phase[j] = "idle" /\ ~fault /\ ~closing /\ ~closed
      /\ issued' = [issued EXCEPT ![j] = @ + 1]
      /\ accepted' = [accepted EXCEPT ![j] = issued[j] + 1]
      /\ pending' = [pending EXCEPT ![j] = issued[j] + 1]
      /\ UNCHANGED <<db, lockq, cancelled, thread, batch, fault, closing, closed, acked, mustSee>>
  BY DEF RecordProgress, Available
<1>2. \A b \in Agents : phase'[b] = IF b = Worker /\ phase[b] = "none" THEN "top" ELSE phase[b]
  BY Apart DEF RecordProgress, PhasesTyped
<1>3. /\ \A i \in Items \ {j} : /\ issued'[i] = issued[i] /\ accepted'[i] = accepted[i]
                                /\ pending'[i] = pending[i]
      /\ issued'[j] = issued[j] + 1 /\ accepted'[j] = issued[j] + 1 /\ pending'[j] = issued[j] + 1
  BY <1>1 DEF Typed
<1>4. PhasesTyped'
  BY <1>2, Apart DEF RecordProgress, PhasesTyped, Phases
<1>5. Queued' /\ OneWriter'
  BY <1>1, <1>2 DEF Queued, Once, In, InLock, Busy, OneWriter, Owner
<1>6. Typed'
  <2>1. issued[j] + 1 \in Nat
    BY DEF Typed
  <2> QED  BY <1>1, <2>1 DEF Typed
<1>7. ASSUME NEW i \in Items PROVE Ordered(i)'
  <2>1. CASE i = j
    BY <2>1, <1>1, <1>3 DEF Ordered, Typed
  <2>2. CASE i # j
    BY <2>2, <1>1, <1>3 DEF Ordered, Typed
  <2> QED  BY <2>1, <2>2
<1>8. InFlight'
  <2>2. ASSUME NEW i \in Items PROVE phase'[i] = phase[i]
    BY <1>2, Apart
  <2>3. phase'[Manager] = phase[Manager]
    BY <1>2, Apart
  <2>4. (\A a \in Agents : phase'[a] \notin {"flush", "closeFlush"}) => \A i \in Items : batch'[i] = 0
    BY <1>1, <1>2 DEF InFlight
  <2> QED  BY <1>1, <1>3, <2>2, <2>3, <2>4, Apart DEF InFlight, Typed
<1>9. GlobalBarrierSees' /\ AcceptedIsKept'
  <2>1. GlobalBarrierSees'
    BY <1>1, <1>2, Apart DEF GlobalBarrierSees
  <2>2. AcceptedIsKept'
    BY <1>1, <1>3 DEF AcceptedIsKept, Typed
  <2> QED  BY <2>1, <2>2
<1>10. Ending'
  BY <1>1, <1>2, Apart DEF Ending, CallersFirst, PhasesTyped
<1> QED  BY <1>4, <1>5, <1>6, <1>7, <1>8, <1>9, <1>10

(* A call of execute(): the item's own counter moves, its updates do not. *)
LEMMA CallKeeps == ASSUME PersistInv, NEW c \in Callers, CallExecute(c) PROVE PersistInv'
<1> USE DEF PersistInv
<1>1. /\ phase[c] = "idle" /\ ~fault /\ ~closing /\ ~closed
      /\ phase' = [phase EXCEPT ![c] = "queued"] /\ lockq' = Append(lockq, c) /\ c \in Agents
      /\ UNCHANGED <<accepted, pending, db, cancelled, thread, batch, fault, closing, closed, acked>>
  BY Apart DEF CallExecute, Available
<1>2. \A b \in Agents : phase'[b] = IF b = c THEN "queued" ELSE phase[b]
  BY <1>1 DEF Locked, PhasesTyped
<1>3. /\ issued' \in [Items -> Nat] /\ mustSee' \in [Items -> Nat]
      /\ \A i \in Items : /\ issued'[i] >= issued[i] /\ (i # c => issued'[i] = issued[i])
                          /\ mustSee'[i] <= accepted[i]
      /\ c # Manager => mustSee' = mustSee
  <2>1. CASE c \in Items /\ issued' = [issued EXCEPT ![c] = @ + 1] /\ UNCHANGED mustSee
    BY <2>1 DEF InOrder, Typed, Ordered
  <2>2. CASE c = Manager /\ mustSee' = accepted /\ UNCHANGED issued
    BY <2>2 DEF InOrder, Typed
  <2> QED  BY <2>1, <2>2 DEF CallExecute
<1>4. PhasesTyped'
  BY <1>1, <1>2, Apart DEF Locked, PhasesTyped, Phases
<1>5. Queued' /\ OneWriter'
  BY <1>1, LockJoins DEF InLock, Busy
<1>6. Typed' /\ AcceptedIsKept'
  BY <1>1, <1>3 DEF InOrder, Typed, AcceptedIsKept
<1>7. ASSUME NEW i \in Items PROVE Ordered(i)'
  <2>1. /\ issued[i] \in Nat /\ issued'[i] \in Nat /\ db[i] \in Nat /\ accepted[i] \in Nat
        /\ issued'[i] >= issued[i] /\ mustSee'[i] <= accepted[i]
    BY <1>3 DEF InOrder, Typed
  <2> QED  BY <1>1, <2>1 DEF InOrder, Ordered
<1>8. InFlight' /\ GlobalBarrierSees'
  <2>1. ASSUME NEW b \in Agents PROVE phase'[b] \in Busy <=> phase[b] \in Busy /\ b # c
    BY <1>1, <1>2 DEF Busy
  <2>2. (\A a \in Agents : phase'[a] \notin {"flush", "closeFlush"}) => \A i \in Items : batch'[i] = 0
    BY <1>1, <1>2 DEF InOrder, InFlight
  <2>3. phase'[Manager] \in Busy => mustSee' = mustSee /\ phase'[Manager] = phase[Manager]
    BY <1>2, <1>3, Apart DEF Busy
  <2>4. GlobalBarrierSees'
    BY <1>1, <1>2, <2>3 DEF InOrder, GlobalBarrierSees, Busy
  <2>5. ASSUME NEW i \in Items, phase'[i] \in {"flush", "command"}
        PROVE  phase[i] = phase'[i] /\ issued'[i] = issued[i]
    BY <2>5, <1>2, <1>3, Apart
  <2>6. \A i \in Items : /\ phase'[i] \in {"flush", "command"} => pending'[i] = 0
                         /\ phase'[i] = "command" /\ thread' = "committed" => db'[i] = issued'[i]
    BY <1>1, <2>5 DEF InOrder, InFlight
  <2>7. phase'[Manager] = "flush" => \A i \in Items : mustSee'[i] <= db'[i] \/ mustSee'[i] <= batch'[i]
    BY <1>1, <2>3 DEF InOrder, InFlight, Busy
  <2>8. thread' = "committed" => \A i \in Items : batch'[i] <= db'[i]
    BY <1>1 DEF InOrder, InFlight
  <2> QED  BY <2>2, <2>4, <2>6, <2>7, <2>8 DEF InFlight
<1>9. Ending'
  BY <1>1, <1>2, Apart DEF Ending, Locked, PhasesTyped
<1> QED  BY <1>4, <1>5, <1>6, <1>7, <1>8, <1>9 DEF Locked, InOrder

(* A caller leaves the lock, whatever it is told. *)
LEMMA LeaveEnds ==
  ASSUME PersistInv, NEW c \in Callers, NEW how, Leave(c, how), phase[c] \in InLock,
         fault => fault',
         UNCHANGED <<pending, closing, closed>>
  PROVE  /\ PhasesTyped' /\ cancelled' \subseteq Callers
         /\ thread' = (IF Owner(c) THEN "none" ELSE thread) => Queued' /\ OneWriter' /\ Ending'
<1> USE DEF PersistInv
<1>1. /\ lockq' = RemoveFirst(lockq, c) /\ phase' = [phase EXCEPT ![c] = "idle"]
      /\ cancelled' = cancelled \ {c} /\ c \in Agents
  BY Apart DEF Leave
<1>2. \A b \in Agents : phase'[b] = IF b = c THEN "idle" ELSE phase[b]
  BY <1>1 DEF Locked, PhasesTyped
<1>3. PhasesTyped' /\ cancelled' \subseteq Callers
  BY <1>1, <1>2, Apart DEF Locked, PhasesTyped, Phases, InOrder, Typed
<1>4. ASSUME thread' = IF Owner(c) THEN "none" ELSE thread PROVE Queued' /\ OneWriter' /\ Ending'
  <2>1. Queued' /\ OneWriter' /\ (CallersFirst(lockq) => CallersFirst(lockq'))
    BY <1>1, <1>4, LockLeaves DEF Phases, InLock, Busy
  <2>2. CallersFirst(lockq)' <=> CallersFirst(lockq')
    BY DEF CallersFirst
  <2>3. Ending'
    BY <1>2, <2>1, <2>2, Apart DEF Ending
  <2> QED  BY <2>1, <2>3
<1> QED  BY <1>3, <1>4

(* An owner that is not at work has no thread. *)
LEMMA OwnerRests == ASSUME Locked, NEW a \in Agents, Owner(a), phase[a] \notin Busy PROVE thread = "none"
BY DEF Locked, OneWriter, Owner, Busy

(* While the lock's owner flushes nothing, there is no batch. *)
LEMMA NoBatchYet ==
  ASSUME Locked, InOrder, NEW a \in Agents, Owner(a), phase[a] \notin {"flush", "closeFlush"}
  PROVE  batch = NoBatch /\ batch \in [Items -> Nat] /\ \A i \in Items : batch[i] = 0
<1>1. \A b \in Agents : phase[b] \notin {"flush", "closeFlush"}
  BY DEF Locked, OneWriter, Owner
<1>2. batch \in [Items -> Nat] /\ \A i \in Items : batch[i] = 0
  BY <1>1 DEF InOrder, InFlight, Typed
<1> QED  BY <1>2 DEF NoBatch

(* A caller gets the lock. *)
LEMMA EnterKeeps == ASSUME PersistInv, NEW c \in Callers, EnterExecute(c) PROVE PersistInv'
<1> USE DEF PersistInv
<1>0. /\ phase[c] = "queued" /\ Owner(c) /\ c \in Agents /\ phase[c] \in InLock /\ thread = "none"
      /\ batch = NoBatch /\ batch \in [Items -> Nat] /\ \A i \in Items : batch[i] = 0
      /\ UNCHANGED <<issued, accepted, db, fault, closing, closed, acked, mustSee>>
  BY Apart, OwnerRests, NoBatchYet DEF EnterExecute, InLock, Busy
<1>1. CASE ~Available
  <2>1. Leave(c, "error") /\ UNCHANGED <<pending, thread, batch>>
    BY <1>1 DEF EnterExecute
  <2>2. Locked' /\ cancelled' \subseteq Callers /\ Ending'
    BY <1>0, <2>1, LeaveEnds DEF Locked
  <2>3. InOrder'
    BY <1>0, <2>1, <2>2, NumbersAside DEF Leave, Busy, Phases
  <2> QED  BY <2>2, <2>3
<1>2. CASE Available /\ Selected(c) # {}
  <2>1. /\ StartFlush(c) /\ phase' = [phase EXCEPT ![c] = "flush"] /\ ~fault
        /\ UNCHANGED <<lockq, cancelled>>
    BY <1>2 DEF EnterExecute, Available
  <2>2. \A b \in Agents : phase'[b] = IF b = c THEN "flush" ELSE phase[b]
    BY <2>1 DEF Locked, PhasesTyped
  <2>3. PhasesTyped'
    BY <2>1, <2>2, Apart DEF Locked, PhasesTyped, Phases
  <2>4. Queued' /\ OneWriter'
    BY <1>0, <2>1, LockWorks DEF Busy, StartFlush
  <2>5. InOrder'
    BY <1>0, <2>1, NumbersFlush
  <2>6. Ending'
    BY <1>0, <1>2, <2>1, <2>2, Apart DEF Ending, Available, Locked, PhasesTyped
  <2> QED  BY <2>3, <2>4, <2>5, <2>6 DEF Locked
<1>3. CASE Available /\ Selected(c) = {}
  <2>1. /\ thread' = "running" /\ phase' = [phase EXCEPT ![c] = "command"] /\ ~fault
        /\ UNCHANGED <<lockq, cancelled, pending, batch>>
    BY <1>3 DEF EnterExecute, Available
  <2>2. \A b \in Agents : phase'[b] = IF b = c THEN "command" ELSE phase[b]
    BY <2>1 DEF Locked, PhasesTyped
  <2>3. PhasesTyped'
    BY <2>1, <2>2, Apart DEF Locked, PhasesTyped, Phases
  <2>4. Queued' /\ OneWriter'
    BY <1>0, <2>1, LockWorks DEF Busy
  <2>5. InOrder'
    BY <1>0, <1>3, <2>1, NumbersCommand
  <2>6. Ending'
    BY <1>0, <1>3, <2>1, <2>2, Apart DEF Ending, Available, Locked, PhasesTyped
  <2> QED  BY <2>3, <2>4, <2>5, <2>6 DEF Locked
<1> QED  BY <1>1, <1>2, <1>3

(* A cancellation waits for the thread, or takes a waiter out of the queue. *)
LEMMA CancelKeeps == ASSUME PersistInv, NEW c \in Callers, Cancel(c) \/ CancelQueued(c) PROVE PersistInv'
<1> USE DEF PersistInv
<1>1. CASE Cancel(c)
  BY <1>1 DEF Cancel, Locked, InOrder, PhasesTyped, Queued, OneWriter, Owner, Typed, Ordered,
     InFlight,
     GlobalBarrierSees, AcceptedIsKept, Ending, CallersFirst, Once, In
<1>2. CASE CancelQueued(c)
  <2>1. /\ Leave(c, "cancelled") /\ phase[c] = "queued" /\ phase[c] \in InLock
        /\ UNCHANGED <<issued, accepted, pending, db, thread, batch, fault, closing, closed,
                       acked, mustSee>>
    BY <1>2 DEF CancelQueued, InLock
  <2>2. thread' = IF Owner(c) THEN "none" ELSE thread
    BY <2>1, OwnerRests, Apart DEF Busy
  <2>3. Locked' /\ cancelled' \subseteq Callers /\ Ending'
    BY <2>1, <2>2, LeaveEnds DEF Locked
  <2>4. InOrder'
    BY <2>1, <2>3, NumbersAside, Apart DEF Leave, Busy, Phases
  <2> QED  BY <2>3, <2>4
<1> QED  BY <1>1, <1>2

(* The thread ends: only here a row changes. *)
LEMMA CommitMoves ==
  ASSUME PersistInv, ThreadCommits
  PROVE  /\ db' \in [Items -> Nat]
         /\ \A i \in Items : /\ db[i] <= db'[i] /\ db'[i] <= issued[i] /\ batch[i] <= db'[i]
                             /\ pending[i] # 0 => db'[i] <= pending[i]
                             /\ batch[i] # 0 => db'[i] <= batch[i]
                             /\ phase[i] = "command" => db'[i] = issued[i]
<1> USE DEF PersistInv
<1> DEFINE c == lockq[1]
<1>1. c \in Agents /\ Owner(c) /\ phase[c] \in Busy
  BY DEF ThreadCommits, Locked, OneWriter, Owner, Busy
<1>2. db' = [i \in Items |-> IF phase[c] = "command" THEN IF i = c THEN issued[i] ELSE db[i]
                                                   ELSE IF batch[i] # 0 THEN batch[i] ELSE db[i]]
  BY DEF ThreadCommits
<1> HIDE DEF c
<1>3. \A i \in Items : phase[i] = "command" => i = c
  BY <1>1, Apart DEF Locked, OneWriter, Owner
<1>4. phase[c] = "command" => \A i \in Items : batch[i] = 0
  BY <1>1, NoBatchYet DEF Locked
<1>5. ASSUME NEW i \in Items
      PROVE  /\ db'[i] \in Nat
             /\ db[i] <= db'[i] /\ db'[i] <= issued[i] /\ batch[i] <= db'[i]
             /\ pending[i] # 0 => db'[i] <= pending[i]
             /\ batch[i] # 0 => db'[i] <= batch[i]
             /\ phase[i] = "command" => db'[i] = issued[i]
  <2>1. /\ issued[i] \in Nat /\ db[i] \in Nat /\ batch[i] \in Nat /\ pending[i] \in Nat
        /\ accepted[i] \in Nat /\ accepted[i] <= issued[i] /\ db[i] <= issued[i] /\ batch[i] <= accepted[i]
        /\ pending[i] # 0 => pending[i] = accepted[i] /\ db[i] <= pending[i]
        /\ batch[i] # 0 => db[i] <= batch[i]
    BY DEF InOrder, Typed, Ordered
  <2>2. CASE phase[c] = "command" /\ i = c
    <3>1. pending[i] = 0 /\ batch[i] = 0 /\ db'[i] = issued[i]
      BY <1>2, <1>4, <2>2 DEF InOrder, InFlight
    <3> QED  BY <2>1, <3>1
  <2>3. CASE phase[c] = "command" /\ i # c
    <3>1. batch[i] = 0 /\ db'[i] = db[i] /\ phase[i] # "command"
      BY <1>2, <1>3, <1>4, <2>3
    <3> QED  BY <2>1, <3>1
  <2>4. CASE phase[c] # "command"
    <3>1. phase[i] # "command" /\ db'[i] = IF batch[i] # 0 THEN batch[i] ELSE db[i]
      BY <1>2, <1>3, <2>4
    <3> QED  BY <2>1, <3>1
  <2> QED  BY <2>2, <2>3, <2>4
<1>6. db' \in [Items -> Nat]
  BY <1>2, <1>5
<1> QED  BY <1>5, <1>6

(* A thread ends, one way or the other. *)
LEMMA ThreadKeeps == ASSUME PersistInv, ThreadCommits \/ ThreadFails PROVE PersistInv'
<1> USE DEF PersistInv
<1>1. /\ thread # "none" /\ thread' # "none"
      /\ UNCHANGED <<issued, accepted, pending, lockq, phase, cancelled, batch, fault, closing,
                     closed, acked, mustSee>>
  BY DEF ThreadCommits, ThreadFails
<1>2. Locked' /\ Ending'
  BY <1>1 DEF Locked, PhasesTyped, Queued, Once, In, OneWriter, Owner, Ending, CallersFirst
<1>3. CASE ThreadFails
  <2>1. thread' = "failed" /\ UNCHANGED db
    BY <1>3 DEF ThreadFails
  <2>2. Typed' /\ (\A i \in Items : Ordered(i))'
    BY <1>1, <2>1 DEF InOrder, Typed, Ordered
  <2>3. InFlight'
    BY <1>1, <2>1 DEF InOrder, InFlight
  <2>4. GlobalBarrierSees' /\ AcceptedIsKept'
    BY <1>1, <2>1 DEF InOrder, GlobalBarrierSees, AcceptedIsKept
  <2> QED  BY <1>2, <2>2, <2>3, <2>4 DEF InOrder
<1>4. CASE ThreadCommits
  <2>1. /\ db' \in [Items -> Nat] /\ thread' = "committed"
        /\ \A i \in Items : /\ db[i] <= db'[i] /\ db'[i] <= issued[i] /\ batch[i] <= db'[i]
                            /\ pending[i] # 0 => db'[i] <= pending[i]
                            /\ batch[i] # 0 => db'[i] <= batch[i]
                            /\ phase[i] = "command" => db'[i] = issued[i]
    BY <1>4, CommitMoves DEF ThreadCommits
  <2>2. Typed'
    BY <1>1, <2>1 DEF InOrder, Typed
  <2>3. ASSUME NEW i \in Items
        PROVE  /\ Ordered(i)'
               /\ mustSee[i] <= db[i] => mustSee[i] <= db'[i]
               /\ accepted[i] <= db[i] => accepted[i] <= db'[i]
    <3>1. /\ acked[i] \in Nat /\ db[i] \in Nat /\ db'[i] \in Nat /\ mustSee[i] \in Nat /\ accepted[i] \in Nat
      BY <2>1 DEF InOrder, Typed
    <3> QED  BY <1>1, <2>1, <3>1 DEF InOrder, Ordered
  <2>4. InFlight'
    BY <1>1, <2>1, <2>3 DEF InOrder, InFlight
  <2>5. GlobalBarrierSees' /\ AcceptedIsKept'
    <3>1. \A i \in Items : db[i] \in Nat /\ db'[i] \in Nat /\ mustSee[i] \in Nat /\ accepted[i] \in Nat
      BY <2>1 DEF InOrder, Typed
    <3>2. GlobalBarrierSees'
      BY <1>1, <2>3, <3>1 DEF InOrder, GlobalBarrierSees
    <3>3. AcceptedIsKept'
      BY <1>1, <2>1, <2>3, <3>1 DEF InOrder, AcceptedIsKept
    <3> QED  BY <3>2, <3>3
  <2> QED  BY <1>2, <2>2, <2>3, <2>4, <2>5 DEF InOrder
<1> QED  BY <1>3, <1>4

(* A caller's own call returns. *)
LEMMA BarrierKeeps == ASSUME PersistInv, NEW c \in Callers, BarrierDone(c) PROVE PersistInv'
<1> USE DEF PersistInv
<1>0. /\ phase[c] = "flush" /\ thread \in {"committed", "failed"} /\ Owner(c) /\ c \in Agents
      /\ phase[c] \in InLock /\ batch' = NoBatch /\ phase[c] \in Busy
      /\ UNCHANGED <<issued, accepted, pending, db, closing, closed, acked, mustSee>>
  BY Apart DEF BarrierDone, InLock, Busy, Locked, OneWriter
<1>1. CASE \/ thread = "failed" /\ SetFault /\ Leave(c, "error") /\ thread' = "none"
           \/ thread = "committed" /\ Leave(c, "cancelled") /\ thread' = "none" /\ UNCHANGED <<fault, wake>>
  <2>1. PICK how : Leave(c, how)
    BY <1>1
  <2>2. thread' = "none" /\ fault' \in {TRUE, fault}
        /\ (fault' = TRUE \/ (UNCHANGED fault /\ thread \in {"none", "committed"}))
    BY <1>1 DEF SetFault
  <2>3. PhasesTyped' /\ Queued' /\ OneWriter' /\ Ending' /\ cancelled' \subseteq Callers
    <3>1. fault => fault'
      BY <2>2
    <3>2. thread' = (IF Owner(c) THEN "none" ELSE thread)
      BY <1>0, <2>2
    <3>3. UNCHANGED <<pending, closing, closed>>
      BY <1>0
    <3> QED  BY <1>0, <2>1, <3>1, <3>2, <3>3, LeaveEnds
  <2>4. InOrder'
    <3>1. acked' \in [Items -> Nat] /\ \A i \in Items : acked'[i] <= db[i]
      BY <1>0 DEF InOrder, Typed, Ordered
    <3>2. phase' = [phase EXCEPT ![c] = "idle"]
      BY <2>1 DEF Leave
    <3>3. "idle" \in Phases /\ "idle" \notin Busy
      BY DEF Phases, Busy
    <3> QED  BY <1>0, <2>2, <2>3, <3>1, <3>2, <3>3, NumbersSettle
  <2> QED  BY <2>3, <2>4 DEF Locked
<1>2. CASE /\ thread = "committed" /\ phase' = [phase EXCEPT ![c] = "command"] /\ thread' = "running"
           /\ UNCHANGED <<lockq, cancelled, outcome, fault, wake>>
  <2>1. \A b \in Agents : phase'[b] = IF b = c THEN "command" ELSE phase[b]
    BY <1>2 DEF Locked, PhasesTyped
  <2>2. PhasesTyped'
    BY <1>2, <2>1, Apart DEF Locked, PhasesTyped, Phases
  <2>3. Queued' /\ OneWriter'
    BY <1>0, <1>2, LockWorks DEF Busy
  <2>4. batch' \in [Items -> Nat] /\ \A i \in Items : batch'[i] = 0
    BY <1>0 DEF NoBatch
  <2>5. InOrder'
    BY <1>0, <1>2, <2>4, NumbersCommand
  <2>6. Ending'
    BY <1>0, <1>2, <2>1, Apart DEF Ending, CallersFirst
  <2> QED  BY <2>2, <2>3, <2>5, <2>6 DEF Locked
<1> QED  BY <1>1, <1>2 DEF BarrierDone

(* A command returns; what is acknowledged is in the row. *)
LEMMA CommandKeeps == ASSUME PersistInv, NEW c \in Callers, CommandDone(c) PROVE PersistInv'
<1> USE DEF PersistInv
<1>0. /\ phase[c] = "command" /\ thread \in {"committed", "failed"} /\ Owner(c) /\ c \in Agents
      /\ phase[c] \in InLock /\ phase[c] \in Busy /\ thread' = "none"
      /\ UNCHANGED <<issued, accepted, pending, db, batch, closing, closed, mustSee>>
  BY Apart DEF CommandDone, InLock, Busy, Locked, OneWriter
<1>1. batch' = NoBatch
  BY <1>0, NoBatchYet DEF Locked
<1>2. PICK how : Leave(c, how)
  BY DEF CommandDone
<1>3. fault' \in {TRUE, fault} /\ (fault' = TRUE \/ (UNCHANGED fault /\ thread \in {"none", "committed"}))
  BY DEF CommandDone, SetFault
<1>4. PhasesTyped' /\ Queued' /\ OneWriter' /\ Ending' /\ cancelled' \subseteq Callers
  <2>1. fault => fault'
    BY <1>3
  <2>2. thread' = (IF Owner(c) THEN "none" ELSE thread)
    BY <1>0
  <2>3. UNCHANGED <<pending, closing, closed>>
    BY <1>0
  <2> QED  BY <1>0, <1>2, <2>1, <2>2, <2>3, LeaveEnds
<1>5. acked' \in [Items -> Nat] /\ \A i \in Items : acked'[i] <= db[i]
  <2>1. CASE UNCHANGED acked
    BY <2>1 DEF InOrder, Typed, Ordered
  <2>2. CASE c \in Items /\ thread = "committed" /\ acked' = [acked EXCEPT ![c] = issued[c]]
    <3>1. db[c] = issued[c] /\ issued[c] \in Nat
      BY <1>0, <2>2 DEF InOrder, InFlight, Typed
    <3> QED  BY <2>2, <3>1 DEF InOrder, Typed, Ordered
  <2> QED  BY <2>1, <2>2 DEF CommandDone
<1>6. InOrder'
  <2>1. phase' = [phase EXCEPT ![c] = "idle"]
    BY <1>2 DEF Leave
  <2>2. "idle" \in Phases /\ "idle" \notin Busy
    BY DEF Phases, Busy
  <2> QED  BY <1>0, <1>1, <1>3, <1>4, <1>5, <2>1, <2>2, NumbersSettle
<1> QED  BY <1>4, <1>6 DEF Locked

(* A worker outside the lock. *)
LEMMA WorkerKeeps ==
  ASSUME PersistInv, WorkerTop \/ WorkerWoken \/ WindowEnds PROVE PersistInv'
<1> USE DEF PersistInv
<1>1. /\ phase[Worker] \in {"top", "asleep", "window"} /\ Worker \in Agents
      /\ UNCHANGED <<issued, accepted, pending, db, cancelled, thread, batch, fault, closing,
                     closed, acked, mustSee>>
  BY Apart DEF WorkerTop, WorkerWoken, WindowEnds
<1>2. PICK x \in {"top", "asleep", "window", "exited", "queued"} :
        /\ phase' = [phase EXCEPT ![Worker] = x]
        /\ IF x = "queued" THEN lockq' = Append(lockq, Worker) ELSE UNCHANGED lockq
  BY DEF WorkerTop, WorkerWoken, WindowEnds
<1>3. \A b \in Agents : phase'[b] = IF b = Worker THEN x ELSE phase[b]
  BY <1>2 DEF Locked, PhasesTyped
<1>4. PhasesTyped'
  BY <1>1, <1>2, <1>3, Apart DEF Locked, PhasesTyped, Phases
<1>5. x \in Phases /\ x \notin Busy /\ phase[Worker] \notin InLock
  BY <1>1 DEF Phases, Busy, InLock
<1>6. InOrder'
  <2>1. cancelled' \subseteq Callers /\ phase[Worker] \notin Busy
    BY <1>1, <1>5 DEF InOrder, Typed, InLock
  <2> QED  BY <1>1, <1>2, <1>5, <2>1, NumbersAside
<1>7. Queued' /\ OneWriter' /\ (CallersFirst(lockq) => CallersFirst(lockq'))
  <2>1. CASE x = "queued"
    <3>1. phase' = [phase EXCEPT ![Worker] = "queued"] /\ lockq' = Append(lockq, Worker)
      BY <1>2, <2>1
    <3> QED  BY <1>1, <1>5, <3>1, LockJoins, Apart
  <2>2. CASE x # "queued"
    <3>1. lockq' = lockq /\ x \notin InLock /\ (thread' = "none" <=> thread = "none")
      BY <1>1, <1>2, <2>2 DEF InLock, Busy
    <3>2. Queued' /\ OneWriter'
      BY <1>1, <1>2, <1>5, <3>1, LockAside
    <3> QED  BY <3>1, <3>2
  <2> QED  BY <2>1, <2>2
<1>8. Ending'
  <2>1. CallersFirst(lockq)' <=> CallersFirst(lockq')
    BY DEF CallersFirst
  <2>2. phase[Closer] = "closed" => phase[Worker] \in {"none", "exited"}
    BY DEF Ending
  <2> QED  BY <1>1, <1>3, <1>7, <2>1, <2>2, Apart DEF Ending
<1> QED  BY <1>4, <1>6, <1>7, <1>8 DEF Locked

(* The worker in the lock. *)
LEMMA WorkerEnterKeeps == ASSUME PersistInv, WorkerEnter PROVE PersistInv'
<1> USE DEF PersistInv
<1>0. /\ phase[Worker] = "queued" /\ Owner(Worker) /\ Worker \in Agents /\ phase[Worker] \in InLock
      /\ phase[Worker] \notin Busy /\ thread = "none"
      /\ UNCHANGED <<issued, accepted, db, cancelled, fault, closing, closed, acked, mustSee>>
      /\ cancelled' \subseteq Callers
  BY Apart, OwnerRests DEF WorkerEnter, InLock, Busy, InOrder, Typed
<1>1. ASSUME NEW x \in {"exited", "top"}, lockq' = Tail(lockq), phase' = [phase EXCEPT ![Worker] = x],
             UNCHANGED <<pending, thread, batch>>
      PROVE  PersistInv'
  <2>1. \A b \in Agents : phase'[b] = IF b = Worker THEN x ELSE phase[b]
    BY <1>1 DEF Locked, PhasesTyped
  <2>2. PhasesTyped'
    BY <1>1, <2>1, Apart DEF Locked, PhasesTyped, Phases
  <2>3. x \in Phases /\ x \notin InLock /\ x \notin Busy
    BY <1>1 DEF Phases, InLock, Busy
  <2>4. thread' = IF Owner(Worker) THEN "none" ELSE thread
    BY <1>0, <1>1
  <2>5. Queued' /\ OneWriter' /\ (CallersFirst(lockq) => CallersFirst(lockq'))
    BY <1>0, <1>1, <2>3, <2>4, LockLeaves
  <2>6. InOrder'
    BY <1>0, <1>1, <2>3, NumbersAside
  <2>7. CallersFirst(lockq)' <=> CallersFirst(lockq')
    BY DEF CallersFirst
  <2>8. phase[Closer] # "closed"
    BY <1>0 DEF Ending
  <2>9. Ending'
    BY <1>0, <1>1, <2>1, <2>5, <2>7, <2>8, Apart DEF Ending
  <2> QED  BY <2>2, <2>5, <2>6, <2>9 DEF Locked
<1>2. ASSUME StartFlush(Worker), phase' = [phase EXCEPT ![Worker] = "flush"], UNCHANGED lockq,
             Selected(Worker) # {}
      PROVE  PersistInv'
  <2>1. \A b \in Agents : phase'[b] = IF b = Worker THEN "flush" ELSE phase[b]
    BY <1>2 DEF Locked, PhasesTyped
  <2>2. PhasesTyped'
    BY <1>2, <2>1, Apart DEF Locked, PhasesTyped, Phases
  <2>3. Queued' /\ OneWriter'
    BY <1>0, <1>2, LockWorks DEF Busy, StartFlush
  <2>4. InOrder'
    BY <1>0, <1>2, NumbersFlush, Apart
  <2>5. CallersFirst(lockq)' <=> CallersFirst(lockq)
    BY <1>2 DEF CallersFirst
  <2>6. phase[Closer] # "closed"
    BY <1>0 DEF Ending
  <2>7. \A i \in Items : pending[i] = 0 => pending'[i] = 0
    BY <1>2 DEF StartFlush
  <2>8. Ending'
    BY <1>0, <2>1, <2>5, <2>6, <2>7, Apart DEF Ending
  <2> QED  BY <2>2, <2>3, <2>4, <2>8 DEF Locked
<1> QED  BY <1>1, <1>2 DEF WorkerEnter

(* The worker's flush returns. *)
LEMMA WorkerFlushedKeeps == ASSUME PersistInv, WorkerFlushed PROVE PersistInv'
<1> USE DEF PersistInv
<1>0. /\ phase[Worker] = "flush" /\ thread \in {"committed", "failed"} /\ Owner(Worker)
      /\ Worker \in Agents /\ phase[Worker] \in InLock
      /\ thread' = "none" /\ batch' = NoBatch /\ lockq' = Tail(lockq)
      /\ UNCHANGED <<issued, accepted, pending, db, cancelled, closing, closed, acked, mustSee>>
      /\ cancelled' \subseteq Callers
  BY Apart DEF WorkerFlushed, InLock, Busy, Locked, OneWriter, InOrder, Typed
<1>1. PICK x \in {"exited", "top"} : phase' = [phase EXCEPT ![Worker] = x]
  BY DEF WorkerFlushed
<1>2. /\ fault => fault'
      /\ fault' = TRUE \/ (UNCHANGED fault /\ thread \in {"none", "committed"})
  BY <1>0 DEF WorkerFlushed, SetFault
<1>3. \A b \in Agents : phase'[b] = IF b = Worker THEN x ELSE phase[b]
  BY <1>1 DEF Locked, PhasesTyped
<1>4. PhasesTyped'
  BY <1>1, <1>3, Apart DEF Locked, PhasesTyped, Phases
<1>5. x \in Phases /\ x \notin InLock /\ x \notin Busy
  BY DEF Phases, InLock, Busy
<1>6. thread' = IF Owner(Worker) THEN "none" ELSE thread
  BY <1>0
<1>7. Queued' /\ OneWriter' /\ (CallersFirst(lockq) => CallersFirst(lockq'))
  BY <1>0, <1>1, <1>5, <1>6, LockLeaves
<1>8. InOrder'
  <2>1. acked' \in [Items -> Nat] /\ \A i \in Items : acked'[i] <= db[i]
    BY <1>0 DEF InOrder, Typed, Ordered
  <2> QED  BY <1>0, <1>1, <1>2, <1>5, <2>1, NumbersSettle
<1>9. Ending'
  <2>1. CallersFirst(lockq)' <=> CallersFirst(lockq')
    BY DEF CallersFirst
  <2>2. phase[Closer] # "closed"
    BY <1>0 DEF Ending
  <2> QED  BY <1>0, <1>2, <1>3, <1>7, <2>1, <2>2, Apart DEF Ending
<1> QED  BY <1>4, <1>7, <1>8, <1>9 DEF Locked

(* The closer asks for the lock, or goes to the end of its queue. *)
LEMMA CloserAsks ==
  ASSUME PersistInv, BeginClose, UNCHANGED <<pending, closed>>, fault => fault',
         \/ phase[Closer] = "idle" /\ UNCHANGED thread
         \/ phase[Closer] \in {"queued", "flush"} /\ Owner(Closer) /\ thread' = "none"
  PROVE  Locked' /\ Ending' /\ phase' = [phase EXCEPT ![Closer] = "closeQueued"] /\ "closeQueued" \in Phases
         /\ "closeQueued" \notin Busy /\ Closer \in Agents
<1> USE DEF PersistInv
<1>1. /\ closing' = TRUE /\ lockq' = Append(RemoveFirst(lockq, Closer), Closer) /\ Closer \in Agents
      /\ phase' = [phase EXCEPT ![Closer] = "closeQueued"]
  BY Apart DEF BeginClose
<1>2. \A b \in Agents : phase'[b] = IF b = Closer THEN "closeQueued" ELSE phase[b]
  BY <1>1 DEF Locked, PhasesTyped
<1>3. PhasesTyped'
  BY <1>1, <1>2, Apart DEF Locked, PhasesTyped, Phases
<1>4. \/ phase[Closer] \notin InLock /\ UNCHANGED thread
      \/ phase[Closer] \in InLock /\ Owner(Closer) /\ thread' = "none"
  BY DEF InLock, Busy
<1>5. Queued' /\ OneWriter' /\ CallersFirst(lockq')
  BY <1>1, <1>4, LockAgain
<1>6. Ending'
  <2>1. CallersFirst(lockq)' <=> CallersFirst(lockq')
    BY DEF CallersFirst
  <2>2. phase'[Closer] = "closeQueued"
    BY <1>1, <1>2
  <2>3. closed' = FALSE
    BY DEF Ending
  <2> QED  BY <1>1, <1>5, <2>1, <2>2, <2>3 DEF Ending
<1> QED  BY <1>1, <1>3, <1>5, <1>6 DEF Locked, Phases, Busy

(* A shutdown begins. *)
LEMMA CallDrainKeeps == ASSUME PersistInv, CallDrain PROVE PersistInv'
<1> USE DEF PersistInv
<1>0. /\ phase[Closer] = "idle" /\ Closer \in Agents /\ phase[Closer] \notin InLock
      /\ phase[Closer] \notin Busy /\ cancelled' \subseteq Callers
      /\ UNCHANGED <<issued, accepted, pending, db, cancelled, thread, batch, fault, closed,
                     acked, mustSee>>
  BY Apart DEF CallDrain, InLock, Busy, InOrder, Typed
<1>1. CASE Available
  <2>1. lockq' = Append(lockq, Closer) /\ phase' = [phase EXCEPT ![Closer] = "queued"] /\ UNCHANGED closing
    BY <1>1 DEF CallDrain
  <2>2. \A b \in Agents : phase'[b] = IF b = Closer THEN "queued" ELSE phase[b]
    BY <2>1 DEF Locked, PhasesTyped
  <2>3. PhasesTyped'
    BY <2>1, <2>2, Apart DEF Locked, PhasesTyped, Phases
  <2>4. Queued' /\ OneWriter'
    BY <1>0, <2>1, LockJoins
  <2>5. InOrder'
    <3>1. "queued" \in Phases /\ "queued" \notin Busy
      BY DEF Phases, Busy
    <3> QED  BY <1>0, <2>1, <3>1, NumbersAside
  <2>6. Ending'
    BY <1>0, <2>1, <2>2, Apart DEF Ending
  <2> QED  BY <2>3, <2>4, <2>5, <2>6 DEF Locked
<1>2. CASE ~Available
  <2>1. BeginClose
    BY <1>2 DEF CallDrain
  <2>2. Locked' /\ Ending' /\ phase' = [phase EXCEPT ![Closer] = "closeQueued"]
        /\ "closeQueued" \in Phases /\ "closeQueued" \notin Busy
    BY <1>0, <2>1, CloserAsks
  <2>3. InOrder'
    BY <1>0, <2>2, NumbersAside
  <2> QED  BY <2>2, <2>3
<1> QED  BY <1>1, <1>2

(* Whoever is at work owns the lock. *)
LEMMA CloserOwns ==
  ASSUME Locked, \/ phase[Closer] \in {"queued", "closeQueued"} /\ Owner(Closer)
                 \/ phase[Closer] \in {"flush", "closeFlush"}
  PROVE  /\ Owner(Closer) /\ Closer \in Agents /\ phase[Closer] \in InLock
         /\ phase[Closer] \in {"queued", "closeQueued"} => thread = "none"
<1>1. Closer \in Agents /\ Owner(Closer)
  BY Apart DEF Locked, OneWriter
<1>2. phase[Closer] \in {"queued", "closeQueued"} => phase[Closer] \notin Busy
  BY DEF Busy
<1> QED  BY <1>1, <1>2, OwnerRests DEF InLock, Busy

(* drain() and close() write what is pending. *)
LEMMA CloserFlushes ==
  ASSUME PersistInv, NEW x \in {"flush", "closeFlush"}, StartFlush(Closer), Owner(Closer),
         phase' = [phase EXCEPT ![Closer] = x], phase[Closer] \in InLock,
         \/ x = "flush" /\ phase[Closer] = "queued"
         \/ x = "flush" /\ phase[Closer] = "flush" /\ thread = "committed"
         \/ x = "closeFlush" /\ phase[Closer] = "closeQueued"
         \/ x = "closeFlush" /\ phase[Closer] = "closeFlush" /\ thread = "committed",
         UNCHANGED <<issued, accepted, db, lockq, cancelled, fault, closing, closed, acked, mustSee>>
  PROVE  PersistInv'
<1> USE DEF PersistInv
<1>1. Closer \in Agents /\ Closer \notin Callers
  BY Apart
<1>2. \A b \in Agents : phase'[b] = IF b = Closer THEN x ELSE phase[b]
  BY DEF Locked, PhasesTyped
<1>3. PhasesTyped'
  BY <1>2, Apart DEF Locked, PhasesTyped, Phases
<1>4. Queued' /\ OneWriter'
  BY <1>1, LockWorks DEF Busy, StartFlush
<1>5. InOrder'
  <2>1. \/ phase[Closer] \in {"queued", "closeQueued"}
        \/ phase[Closer] \in {"flush", "closeFlush"} /\ thread = "committed" /\ Closer = Closer
    OBVIOUS
  <2> QED  BY <1>1, <2>1, NumbersFlush
<1>6. Ending'
  <2>1. CallersFirst(lockq)' <=> CallersFirst(lockq)
    BY DEF CallersFirst
  <2>2. phase'[Closer] = x
    BY <1>1, <1>2
  <2> QED  BY <2>1, <2>2 DEF Ending
<1> QED  BY <1>3, <1>4, <1>5, <1>6 DEF Locked

(* When close() has the lock, every call has returned. *)
LEMMA CallsAreOver ==
  ASSUME PersistInv, phase[Closer] \in {"closeQueued", "closeFlush"}, Owner(Closer)
  PROVE  \A c \in Callers : phase[c] = "idle"
<1> USE DEF PersistInv
<1>1. CallersFirst(lockq) /\ lockq \in Seq(Agents) /\ lockq # <<>> /\ lockq[1] = Closer
  BY DEF Ending, Locked, Queued, Owner
<1>2. 1 \in 1 .. Len(lockq)
  BY <1>1, EmptySeq, LenProperties
<1>3. ASSUME NEW c \in Callers PROVE ~In(c, lockq)
  BY <1>1, <1>2 DEF In, CallersFirst
<1>4. ASSUME NEW c \in Callers PROVE phase[c] \notin InLock
  BY <1>3, Apart DEF Locked, Queued
<1> QED  BY <1>4 DEF Locked, PhasesTyped, InLock, Busy

(* close() leaves the lock and awaits the worker. *)
LEMMA CloserJoins ==
  ASSUME PersistInv, phase[Closer] \in {"closeQueued", "closeFlush"}, Owner(Closer),
         phase' = [phase EXCEPT ![Closer] = "join"], lockq' = Tail(lockq),
         thread' = "none", batch' = NoBatch,
         \/ fault' = TRUE
         \/ UNCHANGED fault /\ thread \in {"none", "committed"} /\ pending = NoBatch,
         UNCHANGED <<issued, accepted, pending, db, cancelled, closing, closed, acked, mustSee>>
  PROVE  PersistInv'
<1> USE DEF PersistInv
<1>1. Closer \in Agents /\ phase[Closer] \in InLock
  BY Apart DEF InLock, Busy
<1>2. \A b \in Agents : phase'[b] = IF b = Closer THEN "join" ELSE phase[b]
  BY DEF Locked, PhasesTyped
<1>3. PhasesTyped'
  BY <1>2, Apart DEF Locked, PhasesTyped, Phases
<1>4. "join" \in Phases /\ "join" \notin InLock /\ "join" \notin Busy
  BY DEF Phases, InLock, Busy
<1>5. thread' = IF Owner(Closer) THEN "none" ELSE thread
  OBVIOUS
<1>6. Queued' /\ OneWriter'
  BY <1>1, <1>4, <1>5, LockLeaves
<1>7. InOrder'
  <2>1. acked' \in [Items -> Nat] /\ \A i \in Items : acked'[i] <= db[i]
    BY DEF InOrder, Typed, Ordered
  <2>2. cancelled' \subseteq Callers
    BY DEF InOrder, Typed
  <2>3. fault' = TRUE \/ (UNCHANGED fault /\ thread \in {"none", "committed"})
    OBVIOUS
  <2> QED  BY <1>1, <1>4, <2>1, <2>2, <2>3, NumbersSettle
<1>8. Ending'
  <2>1. \A c \in Callers : phase'[c] = "idle"
    BY <1>2, CallsAreOver, Apart
  <2>2. fault' \/ \A i \in Items : pending'[i] = 0
    BY DEF NoBatch
  <2>3. phase'[Closer] = "join" /\ closing' = closing /\ closed' = closed
    BY <1>1, <1>2
  <2> QED  BY <2>1, <2>2, <2>3 DEF Ending
<1> QED  BY <1>3, <1>6, <1>7, <1>8 DEF Locked

(* A round of drain(). *)
LEMMA DrainKeeps == ASSUME PersistInv, DrainRound \/ DrainFails PROVE PersistInv'
<1> USE DEF PersistInv
<1>0. /\ \/ phase[Closer] = "queued" /\ Owner(Closer)
         \/ phase[Closer] = "flush" /\ thread = "committed"
         \/ phase[Closer] = "flush" /\ thread = "failed"
      /\ UNCHANGED <<issued, accepted, db, cancelled, closed, acked, mustSee>>
      /\ cancelled' \subseteq Callers
  BY DEF DrainRound, DrainFails, InOrder, Typed
<1>1. Owner(Closer) /\ phase[Closer] \in InLock /\ (phase[Closer] = "queued" => thread = "none")
  BY <1>0, CloserOwns
<1>2. CASE StartFlush(Closer) /\ phase' = [phase EXCEPT ![Closer] = "flush"]
           /\ UNCHANGED <<lockq, closing, fault>> /\ thread # "failed"
  <2>1. \/ phase[Closer] = "queued"
        \/ phase[Closer] = "flush" /\ thread = "committed"
    BY <1>0, <1>2
  <2> QED  BY <1>0, <1>1, <1>2, <2>1, CloserFlushes
<1>3. CASE BeginClose /\ thread' = "none" /\ batch' = NoBatch /\ UNCHANGED pending
           /\ (fault' = TRUE \/ (UNCHANGED fault /\ thread # "failed"))
  <2>1. fault' = TRUE \/ (UNCHANGED fault /\ thread \in {"none", "committed"})
    BY <1>0, <1>1, <1>3
  <2>2. fault => fault'
    BY <2>1
  <2>3. phase[Closer] \in {"queued", "flush"} /\ Owner(Closer)
    BY <1>0, <1>1
  <2>4. Locked' /\ Ending' /\ phase' = [phase EXCEPT ![Closer] = "closeQueued"]
        /\ "closeQueued" \in Phases /\ "closeQueued" \notin Busy /\ Closer \in Agents
    BY <1>0, <1>3, <2>2, <2>3, CloserAsks
  <2>5. acked' \in [Items -> Nat] /\ \A i \in Items : acked'[i] <= db[i]
    BY <1>0 DEF InOrder, Typed, Ordered
  <2>6. InOrder'
    BY <1>0, <1>1, <1>3, <2>1, <2>4, <2>5, NumbersSettle
  <2> QED  BY <2>4, <2>6
<1>4. ASSUME DrainRound, thread = "failed" PROVE FALSE
  BY <1>1, <1>4 DEF DrainRound
<1>5. ASSUME DrainRound
      PROVE  \/ StartFlush(Closer) /\ phase' = [phase EXCEPT ![Closer] = "flush"]
                /\ UNCHANGED <<lockq, closing, fault>> /\ thread # "failed"
             \/ BeginClose /\ thread' = "none" /\ batch' = NoBatch /\ UNCHANGED pending
                /\ UNCHANGED fault /\ thread # "failed"
  BY <1>4, <1>5 DEF DrainRound
<1>6. ASSUME DrainFails
      PROVE  BeginClose /\ thread' = "none" /\ batch' = NoBatch /\ UNCHANGED pending /\ fault' = TRUE
  BY <1>6 DEF DrainFails, SetFault
<1> QED  BY <1>2, <1>3, <1>5, <1>6

(* A round of close(). *)
LEMMA CloseKeeps == ASSUME PersistInv, CloseRound \/ CloseFails PROVE PersistInv'
<1> USE DEF PersistInv
<1>0. /\ \/ phase[Closer] = "closeQueued" /\ Owner(Closer)
         \/ phase[Closer] = "closeFlush" /\ thread = "committed"
         \/ phase[Closer] = "closeFlush" /\ thread = "failed"
      /\ UNCHANGED <<issued, accepted, db, cancelled, closing, closed, acked, mustSee>>
  BY DEF CloseRound, CloseFails
<1>1. Owner(Closer) /\ phase[Closer] \in InLock /\ (phase[Closer] = "closeQueued" => thread = "none")
  BY <1>0, CloserOwns
<1>2. CASE CloseRound
  <2>1. thread # "failed"
    BY <1>1, <1>2 DEF CloseRound
  <2>2. CASE StartFlush(Closer) /\ phase' = [phase EXCEPT ![Closer] = "closeFlush"] /\ UNCHANGED <<lockq, fault>>
    <3>1. \/ phase[Closer] = "closeQueued"
          \/ phase[Closer] = "closeFlush" /\ thread = "committed"
      BY <1>0, <2>1
    <3> QED  BY <1>0, <1>1, <2>2, <3>1, CloserFlushes
  <2>3. CASE /\ pending = NoBatch /\ lockq' = Tail(lockq) /\ phase' = [phase EXCEPT ![Closer] = "join"]
             /\ thread' = "none" /\ batch' = NoBatch /\ UNCHANGED <<pending, fault>>
    <3>1. thread \in {"none", "committed"} /\ phase[Closer] \in {"closeQueued", "closeFlush"}
      BY <1>0, <1>1, <2>1
    <3> QED  BY <1>0, <1>1, <2>3, <3>1, CloserJoins
  <2> QED  BY <1>2, <2>2, <2>3 DEF CloseRound
<1>3. CASE CloseFails
  <2>1. /\ phase[Closer] \in {"closeQueued", "closeFlush"} /\ lockq' = Tail(lockq)
        /\ phase' = [phase EXCEPT ![Closer] = "join"] /\ thread' = "none" /\ batch' = NoBatch
        /\ fault' = TRUE /\ UNCHANGED pending
    BY <1>3 DEF CloseFails, SetFault
  <2> QED  BY <1>0, <1>1, <2>1, CloserJoins
<1> QED  BY <1>2, <1>3

(* The worker has ended. *)
LEMMA JoinKeeps == ASSUME PersistInv, Join PROVE PersistInv'
<1> USE DEF PersistInv
<1>0. /\ phase[Closer] = "join" /\ Closer \in Agents /\ phase[Closer] \notin InLock
      /\ phase[Closer] \notin Busy /\ cancelled' \subseteq Callers /\ phase[Worker] \in {"none", "exited"}
      /\ phase' = [phase EXCEPT ![Closer] = "closed"] /\ closed' = TRUE /\ closing' = FALSE
      /\ UNCHANGED <<issued, accepted, pending, db, lockq, cancelled, thread, batch, fault, acked,
                     mustSee>>
  BY Apart DEF Join, InLock, Busy, InOrder, Typed
<1>1. \A b \in Agents : phase'[b] = IF b = Closer THEN "closed" ELSE phase[b]
  BY <1>0 DEF Locked, PhasesTyped
<1>2. PhasesTyped'
  BY <1>0, <1>1, Apart DEF Locked, PhasesTyped, Phases
<1>3. "closed" \in Phases /\ "closed" \notin InLock /\ "closed" \notin Busy
  BY DEF Phases, InLock, Busy
<1>4. Queued' /\ OneWriter'
  BY <1>0, <1>3, LockAside
<1>5. InOrder'
  BY <1>0, <1>3, NumbersAside
<1>6. Ending'
  <2>1. \A c \in Callers : phase'[c] = "idle"
    BY <1>0, <1>1, Apart DEF Ending
  <2>2. phase'[Closer] = "closed" /\ phase'[Worker] \in {"none", "exited"}
    BY <1>0, <1>1, Apart
  <2>3. fault' \/ \A i \in Items : pending'[i] = 0
    BY <1>0 DEF Ending
  <2>4. (closing <=> (phase[Closer] \in {"closeQueued", "closeFlush", "join"}))'
    BY <1>0, <2>2
  <2>5. (closed <=> (phase[Closer] = "closed"))'
    BY <1>0, <2>2
  <2> QED  BY <2>1, <2>2, <2>3, <2>4, <2>5 DEF Ending
<1> QED  BY <1>2, <1>4, <1>5, <1>6 DEF Locked

-----------------------------------------------------------------------------
(* Nothing is under way at the start. *)
LEMMA PersistInit == Init => PersistInv
<1> SUFFICES ASSUME Init PROVE PersistInv
  OBVIOUS
<1> USE DEF Init
<1>1. \A a \in Agents : phase[a] = IF a = Worker THEN "none" ELSE "idle"
  OBVIOUS
<1>2. PhasesTyped
  BY <1>1, Apart DEF PhasesTyped, Phases
<1>3. lockq \in Seq(Agents) /\ Len(lockq) = 0
  OBVIOUS
<1>4. Queued /\ OneWriter
  BY <1>1, <1>3 DEF Queued, Once, In, InLock, Busy, OneWriter
<1>5. InOrder
  <2>1. \A i \in Items : /\ issued[i] = 0 /\ accepted[i] = 0 /\ pending[i] = 0 /\ batch[i] = 0
                         /\ db[i] = 0 /\ acked[i] = 0 /\ mustSee[i] = 0
    BY DEF NoBatch
  <2>2. Typed
    BY DEF Typed, NoBatch
  <2>3. \A i \in Items : Ordered(i)
    BY <2>1 DEF Ordered
  <2>4. \A i \in Items \cup {Manager} : phase[i] = "idle"
    BY <1>1, Apart
  <2>5. InFlight /\ GlobalBarrierSees /\ AcceptedIsKept
    BY <2>1, <2>4 DEF InFlight, GlobalBarrierSees, AcceptedIsKept
  <2> QED  BY <2>2, <2>3, <2>5 DEF InOrder
<1>6. Ending
  <2>1. phase[Closer] = "idle"
    BY <1>1, Apart
  <2>2. closing <=> (phase[Closer] \in {"closeQueued", "closeFlush", "join"})
    BY <2>1
  <2>3. closed <=> (phase[Closer] = "closed")
    BY <2>1
  <2> QED  BY <2>1, <2>2, <2>3 DEF Ending
<1> QED  BY <1>2, <1>4, <1>5, <1>6 DEF PersistInv, Locked

(* Every step keeps the invariant. *)
LEMMA PersistStep == PersistInv /\ [Next]_vars => PersistInv'
<1> SUFFICES ASSUME PersistInv, [Next]_vars PROVE PersistInv'
  OBVIOUS
<1>1. CASE UNCHANGED vars
  BY <1>1 DEF vars, PersistInv, Locked, InOrder, PhasesTyped, Queued, OneWriter, Owner, Typed,
     Ordered,
     InFlight, GlobalBarrierSees, AcceptedIsKept, Ending, CallersFirst, Once, In
<1>2. CASE Next
  BY <1>2, RecordKeeps, CallKeeps, EnterKeeps, CancelKeeps, BarrierKeeps, CommandKeeps, ThreadKeeps,
     WorkerKeeps, WorkerEnterKeeps, WorkerFlushedKeeps, CallDrainKeeps, DrainKeeps, CloseKeeps, JoinKeeps
     DEF Next, CallerStep, WorkerStep, CloserStep
<1> QED  BY <1>1, <1>2

(* The invariant holds whatever the coordinator does. *)
THEOREM Persisted == Spec => []PersistInv
BY PersistInit, PersistStep, PTL DEF Spec

(* An accepted update is committed when its command returns, seen behind the *)
(* global barrier, kept until it is written, and written by one thread.     *)
THEOREM UpdatesSurvive == Spec => []UpdatesAreKept
<1>1. PersistInv => UpdatesAreKept
  BY DEF PersistInv, Locked, InOrder, Ordered, UpdatesAreKept, ReturnedIsCommitted
<1> QED  BY <1>1, Persisted, PTL

-----------------------------------------------------------------------------
(* A step of the coordinator is one of the store it implements, or none. *)
LEMMA StoreStep == PersistInv /\ [Next]_vars => [Store!Next]_(Store!vars)
<1> SUFFICES ASSUME PersistInv, [Next]_vars PROVE [Store!Next]_(Store!vars)
  OBVIOUS
<1> USE DEF Store!vars
<1>1. CASE UNCHANGED vars
  BY <1>1 DEF vars
<1>2. ASSUME NEW i \in Items, RecordProgress(i) PROVE [Store!Next]_(Store!vars)
  BY <1>2 DEF RecordProgress, Store!Next, Store!Issue
<1>3. ASSUME NEW c \in Callers, CallExecute(c) PROVE [Store!Next]_(Store!vars)
  BY <1>3 DEF CallExecute, Store!Next, Store!Issue
<1>4. CASE ThreadCommits
  <2>1. Store!Commit
    BY <1>4, CommitMoves DEF ThreadCommits, Store!Commit
  <2> QED  BY <2>1 DEF Store!Next
<1>5. ASSUME NEW c \in Callers, CommandDone(c) PROVE [Store!Next]_(Store!vars)
  <2>1. CASE c \in Items /\ thread = "committed" /\ acked' = [acked EXCEPT ![c] = issued[c]]
    <3>1. db[c] = issued[c]
      BY <1>5, <2>1 DEF CommandDone, PersistInv, InOrder, InFlight
    <3>2. Store!Acknowledge(c)
      BY <1>5, <2>1, <3>1 DEF CommandDone, Store!Acknowledge
    <3> QED  BY <2>1, <3>2 DEF Store!Next
  <2>2. CASE UNCHANGED acked
    BY <1>5, <2>2 DEF CommandDone
  <2> QED  BY <1>5, <2>1, <2>2 DEF CommandDone
<1>6. ASSUME NEW c \in Callers, Cancel(c) \/ EnterExecute(c) \/ CancelQueued(c) \/ BarrierDone(c)
      PROVE  [Store!Next]_(Store!vars)
  BY <1>6 DEF Cancel, EnterExecute, CancelQueued, BarrierDone
<1>7. CASE ThreadFails \/ WorkerStep
  BY <1>7 DEF ThreadFails, WorkerStep, WorkerTop, WorkerWoken, WindowEnds, WorkerEnter,
     WorkerFlushed
<1>8. CASE CallDrain \/ CloserStep
  BY <1>8 DEF CallDrain, CloserStep, DrainRound, DrainFails, CloseRound, CloseFails, Join
<1> QED  BY <1>1, <1>2, <1>3, <1>4, <1>5, <1>6, <1>7, <1>8 DEF Next, CallerStep

(* The coordinator implements ProgressStore. *)
THEOREM StoreImplemented == Spec => ImplementsStore
<1>1. Init => Store!Init
  BY DEF Init, Store!Init
<1> QED  BY <1>1, StoreStep, Persisted, PTL DEF Spec, ImplementsStore, Store!Spec

(* No row goes back to an older update. *)
THEOREM RowsGoForward == Spec => NoStaleOverwrite
<1>1. PersistInv /\ [Next]_vars => [\A i \in Items : db'[i] >= db[i]]_vars
  <2> SUFFICES ASSUME PersistInv, [Next]_vars, NEW i \in Items PROVE UNCHANGED vars \/ db'[i] >= db[i]
    OBVIOUS
  <2>1. db[i] \in Nat
    BY DEF PersistInv, InOrder, Typed
  <2>2. [Store!Next]_(Store!vars)
    BY StoreStep
  <2>3. UNCHANGED db \/ (db'[i] \in Nat /\ db[i] <= db'[i])
    BY <2>2 DEF Store!Next, Store!vars, Store!Commit, Store!Issue, Store!Acknowledge
  <2> QED  BY <2>1, <2>3
<1> QED  BY <1>1, Persisted, PTL DEF Spec, NoStaleOverwrite

(* After close() no row changes, no call is accepted, no thread runs, and   *)
(* nothing accepted is left in memory unless a write failed.                *)
THEOREM NothingAfterClose == Spec => ClosedIsFinal
<1> DEFINE Final == /\ UNCHANGED <<db, pending, accepted>>
                    /\ thread' = "none"
                    /\ pending # NoBatch => fault
<1>1. PersistInv /\ [Next]_vars => [closed => Final]_vars
  <2> SUFFICES ASSUME PersistInv, [Next]_vars, closed PROVE UNCHANGED vars \/ Final
    OBVIOUS
  <2>1. /\ phase[Closer] = "closed" /\ phase[Worker] \in {"none", "exited"}
        /\ \A c \in Callers : phase[c] = "idle"
        /\ fault \/ \A i \in Items : pending[i] = 0
    BY DEF PersistInv, Ending
  <2>2. pending # NoBatch => fault
    BY <2>1 DEF PersistInv, InOrder, Typed, NoBatch
  <2>3. thread = "none"
    BY <2>1, Apart DEF PersistInv, Locked, OneWriter
  <2>4. CASE Next
    BY <2>1, <2>3, <2>4, Apart DEF Next, RecordProgress, CallExecute, Available, Cancel,
       CallerStep, EnterExecute,
       CancelQueued, BarrierDone, CommandDone, ThreadCommits, ThreadFails, WorkerStep, WorkerTop, WorkerWoken,
       WindowEnds, WorkerEnter, WorkerFlushed, CallDrain, CloserStep, DrainRound, DrainFails, CloseRound,
       CloseFails, Join
  <2>5. CASE UNCHANGED vars
    BY <2>5
  <2> QED  BY <2>4, <2>5
<1> QED  BY <1>1, Persisted, PTL DEF Spec, ClosedIsFinal
==============================================================================
