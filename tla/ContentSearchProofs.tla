------------------------ MODULE ContentSearchProofs ------------------------
(***************************************************************************)
(* Two results about a search, for any dialog, albums, limits and bounds.    *)
(*                                                                         *)
(* No step takes a tick away (TicksSurvive): the only invariant it needs is *)
(* that the deque of intents is a sequence, since the step that takes an   *)
(* intent off it changes it.                                               *)
(*                                                                         *)
(* The search shows everything it passed over, within its limit            *)
(* (SearchShowsAll).  All that is ever written belongs to one set that the *)
(* server's list alone decides, the whole albums, newest first, that still *)
(* fit (Best): so commits of two operations of a generation, one of them   *)
(* left in its thread, may come in any order.  What is known of an offset  *)
(* (Passed) is known of the operation, of each call that is left and of    *)
(* the session, as long as their generation is the session's (SInv).       *)
(***************************************************************************)
EXTENDS ContentSearch, FiniteSetTheorems, WellFoundedInduction, TLAPS

IInv == \E S : intents \in Seq(S)

(* What a step may do to the ticks.                                        *)
Kept == \A m \in Messages : rows[m].sel /\ rows'[m].gen # 0 /\ ~rows'[m].sel
                              => m \in tasks \/ intents' # intents

(* A commit changes a tick only where a task has the medium.               *)
LEMMA WriteKeeps == ASSUME NEW job, Write(job) PROVE Kept
<1> SUFFICES ASSUME NEW m \in Messages, rows[m].sel, rows'[m].gen # 0, ~rows'[m].sel
             PROVE m \in tasks
  BY DEF Kept
<1> DEFINE added == [n \in Messages |-> IF n \in job.add THEN Upsert(n, job.gen) ELSE rows[n]]
<1>1. rows'[m] = added[m] \/ rows'[m] = NoRow
  BY DEF Write
<1>2. rows'[m] = added[m]
  BY <1>1 DEF NoRow
<1>3. added[m] = IF m \in job.add THEN Upsert(m, job.gen) ELSE rows[m]
  OBVIOUS
<1> HIDE DEF added
<1>4. rows'[m] = Upsert(m, job.gen)
  BY <1>2, <1>3
<1>5. rows'[m].sel = (rows[m].sel /\ m \notin tasks)
  BY <1>4 DEF Upsert
<1> QED
  BY <1>5

(* The deque stays a sequence.                                             *)
LEMMA InvInit == Init => IInv
<1> SUFFICES ASSUME Init PROVE intents \in Seq({})
  BY DEF IInv
<1> QED
  BY DEF Init

(* Every step only appends to it, takes its head or clears it.             *)
LEMMA InvNext == IInv /\ [Next]_vars => IInv'
<1> SUFFICES ASSUME IInv, [Next]_vars PROVE IInv'
  OBVIOUS
<1> PICK S : intents \in Seq(S)
  BY DEF IInv
<1>1. CASE \E m \in {0} \cup Messages, w \in {"on", "off", "all", "invert"} : Choose(m, w)
  <2> PICK m \in {0} \cup Messages, w \in {"on", "off", "all", "invert"} : Choose(m, w)
    BY <1>1
  <2> DEFINE i == [gen |-> session.gen, m |-> m, what |-> w]
  <2>1. intents' = Append(intents, i)
    BY DEF Choose
  <2> HIDE DEF i
  <2>2. intents \in Seq(S \cup {i})
    OBVIOUS
  <2>3. Append(intents, i) \in Seq(S \cup {i})
    BY <2>2
  <2> QED
    BY <2>1, <2>3 DEF IInv
<1>2. CASE PersistSelection
  <2>1. intents # <<>> /\ intents' = Tail(intents)
    BY <1>2 DEF PersistSelection
  <2>2. Tail(intents) \in Seq(S)
    BY <2>1
  <2> QED
    BY <2>1, <2>2 DEF IInv
<1>3. CASE Restart
  <2>1. intents' \in Seq(S)
    BY <1>3 DEF Restart
  <2> QED
    BY <2>1 DEF IInv
<1>4. CASE Operation
  BY <1>4 DEF Operation, List, Fetch, ExpandAlbums, CommitPage, Breaks, Finish, IInv
<1>5. CASE Threads
  BY <1>5 DEF Threads, ThreadRuns, IInv
<1>6. CASE Begin \/ Delete \/ PrepareDownload \/ CommitSelected \/ FinalizeQueue
  BY <1>6 DEF Begin, Delete, PrepareDownload, CommitSelected, FinalizeQueue, IInv
<1>7. CASE LoadMore \/ Fails \/ Cancel \/ CancelAgain \/ GoOffline \/ Activate
  BY <1>7 DEF LoadMore, Fails, Cancel, CancelAgain, GoOffline, Activate, IInv
<1>8. CASE UNCHANGED vars
  BY <1>8 DEF vars, IInv
<1> QED
  BY <1>1, <1>2, <1>3, <1>4, <1>5, <1>6, <1>7, <1>8 DEF Next, User

(* Every step keeps the ticks.                                             *)
LEMMA StepKeeps == IInv /\ [Next]_vars => [Kept]_vars
<1> SUFFICES ASSUME IInv, Next PROVE Kept \/ UNCHANGED rows
  BY DEF Kept, vars, catalog
<1>1. CASE CommitPage
  BY <1>1, WriteKeeps DEF CommitPage
<1>2. CASE Threads
  <2> PICK job \in threads : ThreadRuns(job)
    BY <1>2 DEF Threads
  <2>1. Write(job) \/ UNCHANGED rows
    BY DEF ThreadRuns, catalog
  <2> QED
    BY <2>1, WriteKeeps
<1>3. CASE PersistSelection
  <2>1. intents # <<>> /\ intents' = Tail(intents)
    BY <1>3 DEF PersistSelection
  <2>2. PICK S : intents \in Seq(S)
    BY DEF IInv
  <2>3. Len(intents') # Len(intents)
    BY <2>1, <2>2
  <2> QED
    BY <2>3 DEF Kept
<1>4. CASE FinalizeQueue
  BY <1>4 DEF FinalizeQueue, Kept
<1>5. CASE Delete
  BY <1>5 DEF Delete, Kept, NoRow
<1>6. CASE Begin \/ PrepareDownload \/ CommitSelected \/ LoadMore \/ Activate \/ Restart
  BY <1>6 DEF Begin, PrepareDownload, CommitSelected, LoadMore, Activate, Restart, catalog
<1>7. CASE List \/ Fetch \/ ExpandAlbums \/ Breaks \/ Finish
  BY <1>7 DEF List, Fetch, ExpandAlbums, Breaks, Finish, catalog
<1>8. CASE Fails \/ Cancel \/ CancelAgain \/ GoOffline
  BY <1>8 DEF Fails, Cancel, CancelAgain, GoOffline, catalog
<1>9. CASE \E m \in {0} \cup Messages, w \in {"on", "off", "all", "invert"} : Choose(m, w)
  BY <1>9 DEF Choose, catalog
<1> QED
  BY <1>1, <1>2, <1>3, <1>4, <1>5, <1>6, <1>7, <1>8, <1>9 DEF Next, Operation, User

(* A tick is only taken away by the user or by a task that has the medium: *)
(* no page that is committed, repeated or left in its thread, no           *)
(* cancellation and no recovery does it.                                   *)
THEOREM TicksSurvive == Spec => SelectionSurvives
<1>1. Spec => []IInv
  BY InvInit, InvNext, PTL DEF Spec
<1>2. IInv /\ [Next]_vars => [Kept]_vars
  BY StepKeeps
<1>3. [Kept]_vars => [Kept]_rows
  BY DEF vars, catalog
<1> QED
  BY <1>1, <1>2, <1>3, PTL DEF Spec, SelectionSurvives, Kept

-----------------------------------------------------------------------------
(* The hits of the server's list, and what the search would take if it went  *)
(* through them undisturbed: the whole albums, newest first, that still fit.  *)
Hit == Found \cap Hits

Greedy(l, S, G) ==
  /\ G \subseteq Messages /\ Cardinality(G) <= l
  /\ \A x \in G : \E m \in S : x \in Expand(m) /\ Expand(m) \subseteq G
  /\ \A m \in S : \/ Expand(m) \subseteq G
                  \/ Cardinality({x \in G : x > m}) + Cardinality(Expand(m)) > l

Best(l) == CHOOSE G \in SUBSET Messages : Greedy(l, Hit, G)

(* Every hit down to the offset c is in S with its whole album.               *)
Passed(c, S) == \A m \in Hit : c # 0 /\ m >= c => Expand(m) \subseteq S

Whole(T, S) == \A a \in Albums : a \cap T # {} => a \subseteq S

(* An offset is a number, and in the account there is something behind it.    *)
Offset(c) == c \in Nat /\ (scope = "all" /\ c # 0 => \E m \in Found : m < c)

(* What a commit that is still to come will leave, whenever it comes.          *)
Pending(job) ==
  /\ Offset(job.cursor) /\ job.add \subseteq Best(limit) /\ Whole(job.add, Current \cup job.add)
  /\ Passed(job.cursor, Current \cup job.add)
  /\ job.done /\ ~job.capped => \A m \in Hit : Expand(m) \subseteq Current \cup job.add

(* The shapes and numbers; a generation that was left does not come back.     *)
CatalogFits ==
  /\ scope \in {"single", "all"} /\ limit \in Nat /\ searches \in Nat
  /\ DOMAIN session = {"id", "gen", "status", "cursor", "exhausted", "capped"}
  /\ session.gen \in 0..searches /\ session.id \in 0..searches
  /\ session.id = 0 <=> session.gen = 0
  /\ \A m \in Messages : DOMAIN rows[m] = {"gen", "sel", "que"} /\ rows[m].gen \in 0..searches

JobFields == {"kind", "id", "gen", "cursor", "done", "add", "more", "capped"}

OpFits ==
  /\ DOMAIN op = {"pc", "id", "gen", "cursor", "stable", "taken", "page", "job"} /\ DOMAIN op.job = JobFields
  /\ op.pc \in {"idle", "list", "page", "album", "commit", "reads", "ends"}
  /\ op.pc # "idle" => op.gen \in 1..searches /\ op.id \in 1..searches
  /\ op.pc = "commit" => op.job.kind = "commit" /\ op.job.id = op.id /\ op.job.gen = op.gen
  /\ Offset(op.cursor) /\ (op.pc = "album" => op.page = RemotePage(op.cursor))

ThreadsFit == \A job \in threads : /\ DOMAIN job = JobFields
                                   /\ job.kind \in {"commit", "reads", "ends"}
                                   /\ job.gen \in 1..searches /\ job.id \in 1..searches

SessionRight == /\ Offset(session.cursor) /\ Current \subseteq Best(limit) /\ Whole(Current, Current)
                /\ Passed(session.cursor, Current)
                /\ session.exhausted /\ ~session.capped => \A m \in Hit : Expand(m) \subseteq Current

(* What the operation knows, as long as its generation is the session's.       *)
OpRight ==
  op.pc # "idle" /\ op.gen = session.gen =>
    /\ op.pc \in {"list", "ends"} => Passed(op.cursor, Current)
    /\ op.pc \in {"page", "album"} => /\ op.stable \subseteq Current /\ Whole(op.stable, op.stable)
                                      /\ Passed(op.cursor, op.stable)
    /\ op.pc = "commit" => Pending(op.job)

ThreadsRight == \A job \in threads : job.gen = session.gen =>
                  /\ job.kind = "commit" => Pending(job)
                  /\ job.kind = "ends" => Offset(job.cursor) /\ Passed(job.cursor, Current)

SInv == CatalogFits /\ SessionRight /\ OpFits /\ OpRight /\ ThreadsFit /\ ThreadsRight

(* Induction up to n, for a set of numbers.                                  *)
LEMMA UpTo ==
  ASSUME NEW n \in Nat, NEW Q, 0 \in Q, \A k \in 1 .. n : k - 1 \in Q => k \in Q
  PROVE  n \in Q
<1> DEFINE I == (0 .. n) \ Q
<1> SUFFICES ASSUME I # {} PROVE FALSE
  OBVIOUS
<1>1. PICK k \in I : \A i \in I : ~(i < k)
  <2>1. I \in SUBSET Nat
    OBVIOUS
  <2> HIDE DEF I
  <2>2. PICK k \in I : \A i \in I : <<i, k>> \notin OpToRel(<, Nat)
    BY <2>1, NatLessThanWellFounded, WFMin
  <2>3. \A i \in I : i < k => <<i, k>> \in OpToRel(<, Nat)
    BY <2>1, Zenon DEF OpToRel
  <2> QED
    BY <2>2, <2>3
<1>2. k \in 1 .. n /\ k - 1 \in 0 .. n /\ k - 1 < k
  BY <1>1
<1>3. k - 1 \in Q
  BY <1>1, <1>2
<1> QED
  BY <1>1, <1>2, <1>3

-----------------------------------------------------------------------------
(* An album stands for each of its messages, and two units do not mix.        *)
LEMMA ExpandIs ==
  ASSUME NEW m \in Messages
  PROVE  /\ m \in Expand(m) /\ Expand(m) \subseteq Messages
         /\ \A n \in Expand(m) : Expand(n) = Expand(m)
         /\ \A a \in Albums : a \cap Expand(m) # {} => Expand(m) = a
         /\ \A x, z \in Expand(m) : x .. z \subseteq Expand(m)
<1>1. CASE \E a \in Albums : m \in a
  <2>1. PICK a \in Albums : m \in a
    BY <1>1
  <2>2. \A n \in a : Expand(n) = a
    BY SearchAssumption DEF Expand
  <2> QED
    BY <2>1, <2>2, SearchAssumption
<1>2. CASE ~\E a \in Albums : m \in a
  <2>1. Expand(m) = {m}
    BY <1>2 DEF Expand
  <2>2. m .. m = {m}
    BY DEF Messages
  <2> QED
    BY <1>2, <2>1, <2>2
<1> QED
  BY <1>1, <1>2

(* Units lie behind each other, like the messages they stand for.            *)
LEMMA InOrder ==
  ASSUME NEW m \in Messages, NEW n \in Messages, m < n, n \notin Expand(m)
  PROVE  \A x \in Expand(m), y \in Expand(n) : x < y
<1> SUFFICES ASSUME NEW x \in Expand(m), NEW y \in Expand(n), ~(x < y) PROVE FALSE
  OBVIOUS
<1>1. Messages \subseteq Int
  BY SearchAssumption DEF Messages
<1>2. x \in Int /\ y \in Int /\ m \in Int /\ n \in Int /\ y <= x
  <2>1. Expand(m) \subseteq Messages /\ Expand(n) \subseteq Messages
    BY ExpandIs
  <2>2. x \in Int /\ y \in Int /\ m \in Int /\ n \in Int
    BY <1>1, <2>1
  <2>3. ~(x < y)
    OBVIOUS
  <2> QED
    BY <2>2, <2>3
<1>3. y \notin Expand(m) /\ m \notin Expand(n)
  BY ExpandIs
<1>4. CASE y < m
  <2>1. m \in y .. n
    BY <1>2, <1>4
  <2> QED
    BY <1>3, <2>1, ExpandIs
<1>5. CASE m <= y
  <2>1. y \in m .. x
    BY <1>2, <1>5
  <2> QED
    BY <1>3, <2>1, ExpandIs
<1> QED
  BY <1>2, <1>4, <1>5

(* The messages are finitely many numbers.                                   *)
LEMMA MessagesFinite ==
  /\ Messages \subseteq Nat /\ IsFiniteSet(Messages) /\ Hit \subseteq Messages
  /\ \A S \in SUBSET Messages : IsFiniteSet(S) /\ Cardinality(S) \in Nat
<1>1. IsFiniteSet(Messages) /\ Messages \subseteq Nat /\ Hit \subseteq Messages
  BY SearchAssumption, FS_Interval DEF Messages, Hit
<1>2. \A S \in SUBSET Messages : IsFiniteSet(S) /\ Cardinality(S) \in Nat
  BY <1>1, FS_Subset, FS_CardinalityType
<1> QED
  BY <1>1, <1>2

(* Sizes of sets of messages.                                                  *)
LEMMA Sizes ==
  ASSUME NEW S \in SUBSET Messages, NEW T \in SUBSET Messages
  PROVE  /\ S \subseteq T => Cardinality(S) <= Cardinality(T)
         /\ S \cap T = {} => Cardinality(S \cup T) = Cardinality(S) + Cardinality(T)
         /\ Cardinality(S \cup T) = Cardinality(S) + Cardinality(T \ S)
         /\ S # {} => Cardinality(S) >= 1
         /\ Cardinality(S) <= 1 => \A x, y \in S : x = y
<1>1. IsFiniteSet(S) /\ IsFiniteSet(T) /\ IsFiniteSet(T \ S) /\ IsFiniteSet(S \cap (T \ S))
      /\ Cardinality(S) \in Nat /\ Cardinality(T) \in Nat /\ Cardinality(T \ S) \in Nat
  <2>1. T \ S \in SUBSET Messages /\ S \cap (T \ S) \in SUBSET Messages
    OBVIOUS
  <2> QED
    BY <2>1, MessagesFinite
<1>2. S \subseteq T => Cardinality(S) <= Cardinality(T)
  BY <1>1, FS_Subset
<1>3. \A A, B : IsFiniteSet(A) /\ IsFiniteSet(B) /\ A \cap B = {} =>
        Cardinality(A \cup B) = Cardinality(A) + Cardinality(B)
  <2> SUFFICES ASSUME NEW A, NEW B, IsFiniteSet(A), IsFiniteSet(B), A \cap B = {}
               PROVE Cardinality(A \cup B) = Cardinality(A) + Cardinality(B)
    OBVIOUS
  <2>1. Cardinality(A \cup B) = Cardinality(A) + Cardinality(B) - Cardinality(A \cap B)
    BY FS_Union
  <2>2. Cardinality(A \cap B) = 0
    BY FS_EmptySet
  <2>3. Cardinality(A) \in Nat /\ Cardinality(B) \in Nat
    BY FS_CardinalityType
  <2> QED
    BY <2>1, <2>2, <2>3
<1>4. Cardinality(S \cup T) = Cardinality(S) + Cardinality(T \ S)
  <2>1. S \cup T = S \cup (T \ S) /\ S \cap (T \ S) = {}
    OBVIOUS
  <2> QED
    BY <1>1, <1>3, <2>1
<1>5. S # {} => Cardinality(S) >= 1
  <2>1. S # {} => Cardinality(S) # 0
    BY <1>1, FS_EmptySet
  <2> QED
    BY <1>1, <2>1
<1>6. ASSUME Cardinality(S) <= 1, NEW x \in S, NEW y \in S PROVE x = y
  <2>1. S # {} /\ Cardinality(S) = 1
    BY <1>1, <1>5, <1>6
  <2>2. \E z : S = {z}
    BY <1>1, <2>1, FS_Singleton
  <2> QED
    BY <2>2
<1> QED
  BY <1>1, <1>2, <1>3, <1>4, <1>5, <1>6

(* The next older unit is taken if it fits, and left if it does not.         *)
LEMMA GreedyStep ==
  ASSUME NEW l \in Nat, NEW S \in SUBSET Hit, NEW m \in Hit, \A n \in S : n > m,
         NEW G, Greedy(l, S, G)
  PROVE  \E H : Greedy(l, S \cup {m}, H)
<1> DEFINE E == Expand(m)
           over(H, n) == {x \in H : x > n}
<1>1. /\ m \in Messages /\ \A n \in S : n \in Messages
      /\ E \subseteq Messages /\ m \in E
  BY MessagesFinite, ExpandIs
<1>2. G \in SUBSET Messages /\ Cardinality(G) <= l /\ E \in SUBSET Messages
  BY <1>1 DEF Greedy
<1>3. Cardinality(G) \in Nat /\ Cardinality(E) \in Nat
  BY <1>2, MessagesFinite
<1>4. CASE E \subseteq G
  BY <1>4 DEF Greedy
<1>5. CASE ~(E \subseteq G)
  <2>1. E \cap G = {}
    <3> SUFFICES ASSUME NEW x \in E \cap G PROVE FALSE
      OBVIOUS
    <3>1. PICK n \in S : x \in Expand(n) /\ Expand(n) \subseteq G
      BY DEF Greedy
    <3>2. Expand(x) = E /\ Expand(x) = Expand(n)
      BY <1>1, <3>1, ExpandIs
    <3> QED
      BY <1>5, <3>1, <3>2
  <2>2. CASE Cardinality(G) + Cardinality(E) <= l
    <3> DEFINE H == G \cup E
    <3>1. Cardinality(H) = Cardinality(G) + Cardinality(E)
      BY <1>2, <2>1, Sizes
    <3>2. \A x \in H : \E n \in S \cup {m} : x \in Expand(n) /\ Expand(n) \subseteq H
      BY DEF Greedy
    <3>3. ASSUME NEW n \in S, ~(Expand(n) \subseteq H)
          PROVE Cardinality(over(H, n)) + Cardinality(Expand(n)) > l
      <4>1. Cardinality(over(G, n)) + Cardinality(Expand(n)) > l
        BY <3>3 DEF Greedy
      <4>2. over(G, n) \in SUBSET Messages /\ over(H, n) \in SUBSET Messages /\ over(G, n) \subseteq over(H, n)
        BY <1>2
      <4>3. Expand(n) \in SUBSET Messages
        BY <1>1, ExpandIs
      <4> DEFINE p == Cardinality(over(G, n))
                 q == Cardinality(over(H, n))
                 r == Cardinality(Expand(n))
      <4>4. p \in Nat /\ q \in Nat /\ r \in Nat
        BY <4>2, <4>3, MessagesFinite
      <4>5. p <= q
        BY <4>2, Sizes
      <4> HIDE DEF p, q, r
      <4>6. p + r > l
        BY <4>1 DEF p, r
      <4>7. q + r > l
        BY <4>4, <4>5, <4>6
      <4> QED
        BY <4>7 DEF q, r
    <3> QED
      BY <1>2, <2>2, <3>1, <3>2, <3>3 DEF Greedy
  <2>3. CASE ~(Cardinality(G) + Cardinality(E) <= l)
    <3>1. over(G, m) = G
      <4> SUFFICES ASSUME NEW x \in G PROVE x > m
        OBVIOUS
      <4>1. PICK n \in S : x \in Expand(n) /\ Expand(n) \subseteq G
        BY DEF Greedy
      <4>2. n \in Messages /\ m < n
        BY <1>1, MessagesFinite
      <4>3. n \notin E
        BY <2>1, <4>1, <4>2, ExpandIs
      <4>4. m < x
        BY <1>1, <4>1, <4>2, <4>3, InOrder
      <4> QED
        BY <1>1, <1>2, <4>4, MessagesFinite
    <3>2. Cardinality(over(G, m)) + Cardinality(E) > l
      BY <1>3, <2>3, <3>1
    <3>3. Greedy(l, S \cup {m}, G)
      BY <3>2 DEF Greedy
    <3> QED
      BY <3>3
  <2> QED
    BY <2>2, <2>3
<1> QED
  BY <1>4, <1>5

(* There is such a set for every limit: hit by hit, newest first.            *)
LEMMA BestIs == ASSUME NEW l \in Nat PROVE Greedy(l, Hit, Best(l))
<1> DEFINE upper(k) == {m \in Hit : m > Newest - k}
           Q == {k \in 0 .. Newest : \E G : Greedy(l, upper(k), G)}
<1>1. Newest \in Nat /\ Hit \subseteq 1 .. Newest
  BY SearchAssumption DEF Hit, Messages
<1>2. 0 \in Q
  <2>1. upper(0) = {}
    <3>1. \A n \in Hit : ~(n > Newest - 0)
      BY <1>1
    <3> QED
      BY <3>1
  <2>2. Greedy(l, {}, {})
    BY FS_EmptySet DEF Greedy
  <2> QED
    BY <1>1, <2>1, <2>2
<1>3. ASSUME NEW k \in 1 .. Newest, k - 1 \in Q PROVE k \in Q
  <2>1. PICK G : Greedy(l, upper(k - 1), G)
    BY <1>3
  <2> DEFINE m == Newest - k + 1
  <2>2. CASE m \in Hit
    <3>1. upper(k) = upper(k - 1) \cup {m}
      <4>1. \A n \in Hit : n > Newest - k <=> n > Newest - (k - 1) \/ n = m
        BY <1>1
      <4> HIDE DEF m
      <4> QED
        BY <2>2, <4>1
    <3>2. \A n \in upper(k - 1) : n > m
      BY <1>1
    <3>3. \E H : Greedy(l, upper(k - 1) \cup {m}, H)
      <4> HIDE DEF m
      <4> QED
        BY <2>1, <2>2, <3>2, GreedyStep
    <3> QED
      BY <1>1, <3>1, <3>3
  <2>3. CASE m \notin Hit
    <3>1. upper(k) = upper(k - 1)
      <4>1. \A n \in Hit : n > Newest - k <=> n > Newest - (k - 1) \/ n = m
        BY <1>1
      <4> HIDE DEF m
      <4> QED
        BY <2>3, <4>1
    <3> QED
      BY <1>1, <2>1, <3>1
  <2> QED
    BY <2>2, <2>3
<1> HIDE DEF Q
<1>4. Newest \in Q
  BY <1>1, <1>2, <1>3, UpTo
<1>5. PICK G : Greedy(l, upper(Newest), G)
  BY <1>4 DEF Q
<1>6. upper(Newest) = Hit
  <2>1. \A n \in Hit : n > Newest - Newest
    BY <1>1
  <2> QED
    BY <2>1
<1>7. G \in SUBSET Messages /\ Greedy(l, Hit, G)
  BY <1>5, <1>6 DEF Greedy
<1> QED
  BY <1>7, Zenon DEF Best

(* A set of messages has a newest and an oldest one.                         *)
LEMMA Ends ==
  ASSUME NEW S \in SUBSET Messages, S # {}
  PROVE  /\ Max(S) \in S /\ \A y \in S : Max(S) >= y
         /\ Min(S) \in S /\ \A y \in S : Min(S) <= y
<1>1. S \in SUBSET Nat /\ Newest \in Nat /\ \A y \in S : y <= Newest
  BY SearchAssumption DEF Messages
<1>2. ASSUME NEW I \in SUBSET Nat, I # {} PROVE \E x \in I : \A y \in I : x <= y
  <2>1. PICK x \in I : \A y \in I : <<y, x>> \notin OpToRel(<, Nat)
    BY <1>2, NatLessThanWellFounded, WFMin
  <2>2. \A y \in I : y < x => <<y, x>> \in OpToRel(<, Nat)
    BY Zenon DEF OpToRel
  <2>3. \A y \in I : ~(y < x)
    BY <2>1, <2>2, Zenon
  <2>4. \A y \in I : x <= y
    BY <1>2, <2>3
  <2> QED
    BY <2>4
<1>3. \E x \in S : \A y \in S : x <= y
  BY <1>1, <1>2
<1>4. \E x \in S : \A y \in S : x >= y
  <2> DEFINE I == {Newest - y : y \in S}
  <2>1. I \in SUBSET Nat /\ I # {}
    <3>1. \A y \in S : Newest - y \in Nat
      BY <1>1
    <3> QED
      BY <3>1
  <2>2. PICK i \in I : \A j \in I : i <= j
    BY <1>2, <2>1
  <2>3. PICK x \in S : i = Newest - x
    OBVIOUS
  <2>4. \A y \in S : Newest - x <= Newest - y
    BY <2>2, <2>3
  <2> QED
    BY <1>1, <2>4
<1> QED
  BY <1>3, <1>4 DEF Max, Min

(* A page is what the server lists next, without a gap.                       *)
LEMMA PageIs ==
  ASSUME NEW c \in Nat
  PROVE  /\ RemotePage(c) \subseteq Behind(c) /\ Behind(c) \subseteq Messages /\ Behind(c) \subseteq Found
         /\ \A m \in Behind(c), p \in RemotePage(c) : m >= p => m \in RemotePage(c)
         /\ Behind(c) # {} => RemotePage(c) # {}
         /\ Cardinality(RemotePage(c)) < PageSize => RemotePage(c) = Behind(c)
<1> DEFINE B == Behind(c)
           P == RemotePage(c)
           over(m) == {n \in B : n > m}
<1>1. PageSize \in Nat \ {0} /\ B \in SUBSET Messages /\ B \subseteq Found
  BY SearchAssumption DEF Behind
<1>2. P = {m \in B : Cardinality(over(m)) < PageSize}
  BY DEF RemotePage
<1> HIDE DEF B, P
<1>3. P \in SUBSET Messages /\ P \subseteq B
  BY <1>1, <1>2
<1>4. \A m \in B : over(m) \in SUBSET Messages /\ Cardinality(over(m)) \in Nat
  BY <1>1, MessagesFinite
<1>5. ASSUME NEW m \in B, NEW p \in P, m >= p PROVE m \in P
  <2>1. over(m) \subseteq over(p) /\ over(p) \in SUBSET Messages /\ p \in B
    <3>1. \A n \in B : n \in Nat /\ m \in Nat /\ p \in Nat
      BY <1>1, <1>3, MessagesFinite
    <3>2. \A n \in B : n > m => n > p
      BY <1>3, <1>5, <3>1
    <3>3. p \in B
      BY <1>3
    <3> QED
      BY <1>4, <3>2, <3>3
  <2>2. Cardinality(over(m)) <= Cardinality(over(p))
    BY <1>4, <2>1, Sizes
  <2>3. Cardinality(over(p)) < PageSize
    BY <1>2
  <2>4. Cardinality(over(m)) \in Nat /\ Cardinality(over(p)) \in Nat
    BY <1>4, <2>1
  <2>5. Cardinality(over(m)) < PageSize
    <3> HIDE DEF over
    <3> QED
      BY <1>1, <2>2, <2>3, <2>4
  <2> QED
    BY <1>2, <2>5
<1>6. ASSUME B # {} PROVE P # {}
  <2>1. Max(B) \in B /\ \A y \in B : Max(B) >= y
    BY <1>1, <1>6, Ends
  <2>2. over(Max(B)) = {}
    <3>1. \A y \in B : y \in Nat
      BY <1>1, MessagesFinite
    <3> QED
      BY <2>1, <3>1
  <2>3. Cardinality(over(Max(B))) < PageSize
    BY <1>1, <2>2, FS_EmptySet
  <2> QED
    BY <1>2, <2>1, <2>3
<1>7. ASSUME Cardinality(P) < PageSize, P # B PROVE FALSE
  <2> DEFINE R == B \ P
             m == Max(R)
  <2>1. R \in SUBSET Messages /\ R # {}
    BY <1>1, <1>3, <1>7
  <2>2. m \in R /\ \A y \in R : m >= y
    BY <2>1, Ends
  <2>3. over(m) \subseteq P
    <3> SUFFICES ASSUME NEW y \in B, y > m, y \notin P PROVE FALSE
      OBVIOUS
    <3>1. y \in R /\ y \in Nat /\ m \in Nat
      BY <1>1, <2>1, <2>2, MessagesFinite
    <3>2. m >= y
      BY <2>2, <3>1
    <3> HIDE DEF m
    <3> QED
      BY <3>1, <3>2
  <2>4. m \in B /\ ~(Cardinality(over(m)) < PageSize)
    BY <1>2, <2>2
  <2> HIDE DEF m
  <2>5. Cardinality(over(m)) <= Cardinality(P) /\ Cardinality(over(m)) \in Nat /\ Cardinality(P) \in Nat
    BY <1>3, <1>4, <2>3, <2>4, Sizes, MessagesFinite
  <2> HIDE DEF over
  <2> QED
    BY <1>1, <1>7, <2>4, <2>5
<1> QED
  BY <1>1, <1>3, <1>5, <1>6, <1>7 DEF B, P

-----------------------------------------------------------------------------
(* What is known when a page is gone through.                                 *)
PageKnown == /\ limit \in Nat /\ op.cursor \in Nat /\ op.page = RemotePage(op.cursor)
             /\ op.stable \subseteq Best(limit) /\ Whole(op.stable, op.stable)
             /\ Passed(op.cursor, op.stable)

(* A page's units are the expanded hits on it, apart from each other.        *)
LEMMA UnitsAre ==
  ASSUME PageKnown
  PROVE  /\ \A m \in op.page \cap Hits : m \in Hit /\ Expand(m) \in Units(op.page)
         /\ \A u \in Units(op.page) :
              /\ \E m \in op.page \cap Hits : u = Expand(m)
              /\ u \in SUBSET Messages /\ u # {}
              /\ Max(u) \in u /\ \A y \in u : Max(u) >= y
         /\ \A u, v \in Units(op.page) : u = v \/ u \cap v = {}
<1>1. op.page \subseteq Found /\ op.page \subseteq Messages
  BY PageIs DEF PageKnown
<1>2. \A m \in op.page \cap Hits : m \in Hit /\ m \in Messages /\ Expand(m) \in Units(op.page)
  BY <1>1 DEF Hit, Units
<1>3. \A u \in Units(op.page) : \E m \in op.page \cap Hits : u = Expand(m)
  BY DEF Units
<1>4. \A u \in Units(op.page) : u \in SUBSET Messages /\ u # {}
  BY <1>2, <1>3, ExpandIs
<1>5. \A u, v \in Units(op.page) : u = v \/ u \cap v = {}
  <2> SUFFICES ASSUME NEW m \in Messages, NEW n \in Messages, NEW x \in Expand(m) \cap Expand(n)
               PROVE Expand(m) = Expand(n)
    BY <1>2, <1>3
  <2> QED
    BY ExpandIs
<1>6. \A u \in Units(op.page) : Max(u) \in u /\ \A y \in u : Max(u) >= y
  BY <1>4, Ends
<1> QED
  BY <1>2, <1>3, <1>4, <1>5, <1>6

-----------------------------------------------------------------------------
(* The walk over the positions of a page, and that there is one.              *)
UnitAt(n) == UNION {u \in Units(op.page) : Max(u) = Newest + 1 - n}
NoneTaken == [taken |-> {}, skipped |-> FALSE, rest |-> {}]
Outcomes(f, n) == f = [k \in 0 .. n |-> IF k = 0 THEN {NoneTaken} ELSE {Take(s, UnitAt(k)) : s \in f[k - 1]}]

(* The recursive function exists for every number of positions.              *)
LEMMA OutcomesExist == ASSUME NEW n \in Nat PROVE \E f : Outcomes(f, n)
<1> DEFINE Q == {m \in 0 .. n : \E f : Outcomes(f, m)}
<1>1. 0 \in Q
  <2> DEFINE f == [k \in 0 .. 0 |-> {NoneTaken}]
  <2>1. Outcomes(f, 0)
    BY DEF Outcomes
  <2> HIDE DEF f
  <2> QED
    BY <2>1
<1>2. ASSUME NEW m \in 1 .. n, m - 1 \in Q PROVE m \in Q
  <2>1. PICK f : Outcomes(f, m - 1)
    BY <1>2
  <2> DEFINE next(F, k) == {Take(s, UnitAt(k)) : s \in F}
             h == [k \in 0 .. m |-> IF k = m THEN next(f[m - 1], m) ELSE f[k]]
             b == {NoneTaken}
  <2>2. f = [k \in 0 .. m - 1 |-> IF k = 0 THEN b ELSE next(f[k - 1], k)]
    BY <2>1 DEF Outcomes
  <2> HIDE DEF next, b
  <2>3. ASSUME NEW k \in 0 .. m PROVE h[k] = IF k = 0 THEN b ELSE next(h[k - 1], k)
    <3>1. CASE k = m
      <4>1. k # 0 /\ k - 1 \in 0 .. m /\ k - 1 # m
        BY <3>1
      <4>2. h[k] = next(f[k - 1], k) /\ h[k - 1] = f[k - 1]
        BY <3>1, <4>1
      <4> QED
        BY <4>1, <4>2
    <3>2. CASE k # m
      <4>1. k \in 0 .. m - 1 /\ h[k] = f[k]
        BY <3>2
      <4>2. f[k] = IF k = 0 THEN b ELSE next(f[k - 1], k)
        BY <2>2, <4>1
      <4>3. k # 0 => h[k - 1] = f[k - 1]
        BY <4>1
      <4> QED
        BY <4>1, <4>2, <4>3
    <3> QED
      BY <3>1, <3>2
  <2>4. h = [k \in 0 .. m |-> h[k]]
    OBVIOUS
  <2> HIDE DEF h
  <2>5. h = [k \in 0 .. m |-> IF k = 0 THEN b ELSE next(h[k - 1], k)]
    BY <2>3, <2>4
  <2>6. Outcomes(h, m)
    BY <2>5 DEF Outcomes, next, b
  <2> QED
    BY <2>6
<1> HIDE DEF Q
<1>3. n \in Q
  BY <1>1, <1>2, UpTo
<1> QED
  BY <1>3 DEF Q

(* What the page is accepted with is the end of that walk.                   *)
LEMMA AcceptedIs == \E f : Outcomes(f, Newest) /\ Accepted = f[Newest]
<1> DEFINE K == CHOOSE f : Outcomes(f, Newest)
<1>1. Outcomes(K, Newest)
  BY OutcomesExist, SearchAssumption
<1>2. Accepted = K[Newest]
  BY Zenon DEF Accepted, Outcomes, UnitAt, NoneTaken
<1> QED
  BY <1>1, <1>2

(* A unit is in the results, or it does not fit into the search at all, which *)
(* ends with this page then.                                                   *)
Settled(s, u) == \/ u \subseteq op.stable \cup s.taken
                 \/ /\ u \cap Best(limit) = {}
                    /\ s.skipped \/ Cardinality(op.stable \cup s.taken) >= limit

(* What the walk knows after n positions.                                      *)
WalkRight(s, n) ==
  /\ DOMAIN s = {"taken", "skipped", "rest"}
  /\ s.taken \subseteq Best(limit) /\ s.taken \subseteq UNION Units(op.page)
  /\ \A u \in Units(op.page) : u \cap s.taken # {} => u \subseteq op.stable \cup s.taken
  /\ s.rest = {} \/ s.rest \in Units(op.page)
  /\ \A u \in Units(op.page) : Max(u) > (IF s.rest = {} THEN Newest - n ELSE Max(s.rest)) => Settled(s, u)

(* The best results hold whole units, and a unit that they do not hold finds  *)
(* no room behind those they hold before it.                                   *)
LEMMA BestUnits ==
  ASSUME limit \in Nat
  PROVE  /\ Best(limit) \in SUBSET Messages /\ Cardinality(Best(limit)) <= limit
         /\ \A m \in Hit : Expand(m) \subseteq Best(limit) \/ Expand(m) \cap Best(limit) = {}
         /\ \A x \in Best(limit) : \E m \in Hit : x \in Expand(m) /\ Expand(m) \subseteq Best(limit)
         /\ \A m \in Hit : \/ Expand(m) \subseteq Best(limit)
                           \/ Cardinality({x \in Best(limit) : x > m}) + Cardinality(Expand(m)) > limit
<1> DEFINE G == Best(limit)
<1>1. Greedy(limit, Hit, G)
  BY BestIs
<1> HIDE DEF G
<1>2. \A x \in G : \E m \in Hit : x \in Expand(m) /\ Expand(m) \subseteq G
  BY <1>1 DEF Greedy
<1>3. ASSUME NEW m \in Hit, NEW x \in Expand(m) \cap G PROVE Expand(m) \subseteq G
  <2>1. PICK n \in Hit : x \in Expand(n) /\ Expand(n) \subseteq G
    BY <1>2
  <2>2. Expand(x) = Expand(m) /\ Expand(x) = Expand(n)
    BY <2>1, MessagesFinite, ExpandIs
  <2> QED
    BY <2>1, <2>2
<1>4. G \in SUBSET Messages /\ Cardinality(G) <= limit
      /\ \A m \in Hit : \/ Expand(m) \subseteq G
                        \/ Cardinality({x \in G : x > m}) + Cardinality(Expand(m)) > limit
  BY <1>1 DEF Greedy
<1> QED
  BY <1>2, <1>3, <1>4 DEF G

(* The best results before a unit of the page are there when it is reached.   *)
LEMMA BeforeUnit ==
  ASSUME PageKnown, NEW s, NEW n \in 1 .. Newest, WalkRight(s, n - 1), s.rest = {},
         NEW m \in op.page \cap Hits, Max(Expand(m)) = Newest + 1 - n, ~(Expand(m) \subseteq Best(limit)),
         NEW x \in Best(limit), x > m
  PROVE  x \in op.stable \cup s.taken
<1>1. limit \in Nat /\ op.cursor \in Nat /\ Newest \in Nat
  BY SearchAssumption DEF PageKnown
<1>2. m \in Hit /\ m \in Messages /\ m \in Nat /\ Expand(m) \in Units(op.page) /\ x \in Nat
  BY <1>1, UnitsAre, MessagesFinite, BestUnits
<1>3. PICK h \in Hit : x \in Expand(h) /\ Expand(h) \subseteq Best(limit)
  BY <1>1, BestUnits
<1>4. h \in Messages /\ h \in Nat /\ h \in Found /\ h \in Hits
  BY MessagesFinite DEF Hit
<1>5. m \notin Expand(h) /\ h \notin Expand(m)
  <2>1. m \in Expand(h) => Expand(m) = Expand(h)
    BY <1>4, ExpandIs
  <2>2. h \in Expand(m) => Expand(h) = Expand(m)
    BY <1>2, ExpandIs
  <2> QED
    BY <1>3, <2>1, <2>2
<1>6. h > m
  <2> SUFFICES ASSUME ~(h > m) PROVE FALSE
    OBVIOUS
  <2>1. h # m
    BY <1>2, <1>5, ExpandIs
  <2>2. h < m
    BY <1>2, <1>4, <2>1
  <2>3. m \in Expand(m)
    BY <1>2, ExpandIs
  <2>4. x < m
    BY <1>2, <1>3, <1>4, <1>5, <2>2, <2>3, InOrder
  <2> QED
    BY <1>2, <2>4
<1>7. CASE op.cursor # 0 /\ h >= op.cursor
  BY <1>3, <1>7 DEF PageKnown, Passed
<1>8. CASE ~(op.cursor # 0 /\ h >= op.cursor)
  <2>1. h \in Behind(op.cursor)
    BY <1>1, <1>4, <1>8 DEF Behind
  <2>2. h \in op.page
    <3>1. h >= m
      BY <1>2, <1>4, <1>6
    <3> QED
      BY <1>1, <2>1, <3>1, PageIs DEF PageKnown
  <2>3. Expand(h) \in Units(op.page)
    BY <1>4, <2>2, UnitsAre
  <2>4. Max(Expand(h)) > Newest - (n - 1)
    <3> DEFINE u == Expand(h)
               v == Expand(m)
    <3>1. Max(u) \in u /\ Max(v) \in v /\ Max(u) \in Nat
      <4>1. u \in Units(op.page) /\ v \in Units(op.page)
        BY <1>2, <2>3
      <4> HIDE DEF u, v
      <4>2. Max(u) \in u /\ Max(v) \in v /\ u \in SUBSET Messages
        BY <4>1, UnitsAre
      <4> QED
        BY <4>2, MessagesFinite
    <3>2. \A a \in v, b \in u : a < b
      BY <1>2, <1>4, <1>5, <1>6, InOrder
    <3>3. Max(v) < Max(u)
      BY <3>1, <3>2
    <3> HIDE DEF u, v
    <3>4. Max(v) = Newest + 1 - n
      BY DEF v
    <3>5. Max(u) > Newest - (n - 1)
      BY <1>1, <3>1, <3>3, <3>4
    <3> QED
      BY <3>5 DEF u
  <2>5. Settled(s, Expand(h))
    BY <2>3, <2>4 DEF WalkRight
  <2> QED
    BY <1>3, <2>5 DEF Settled
<1> QED
  BY <1>7, <1>8

(* A unit that fits is one of the best results, and one that does not fit into *)
(* the search is none of them.                                                  *)
LEMMA UnitFits ==
  ASSUME PageKnown, NEW s, NEW n \in 1 .. Newest, WalkRight(s, n - 1), s.rest = {},
         NEW u \in Units(op.page), Max(u) = Newest + 1 - n
  PROVE  Cardinality(u \ (op.stable \cup s.taken)) <= limit - Cardinality(op.stable \cup s.taken)
           <=> u \subseteq Best(limit)
<1> DEFINE G == Best(limit)
           T == op.stable \cup s.taken
<1>1. limit \in Nat /\ G \in SUBSET Messages /\ Cardinality(G) <= limit
  BY BestUnits DEF PageKnown
<1>2. T \subseteq G
  BY DEF PageKnown, WalkRight
<1>3. PICK m \in op.page \cap Hits : u = Expand(m)
  BY UnitsAre
<1>4. m \in Hit /\ u \in SUBSET Messages
  BY <1>3, UnitsAre
<1>5. T \in SUBSET Messages /\ Cardinality(T) \in Nat /\ Cardinality(u) \in Nat /\ Cardinality(u \ T) \in Nat
      /\ Cardinality(G) \in Nat
  <2>1. T \in SUBSET Messages /\ u \ T \in SUBSET Messages
    BY <1>1, <1>2, <1>4
  <2> QED
    BY <1>1, <1>4, <2>1, MessagesFinite
<1>6. ASSUME u \subseteq G PROVE Cardinality(u \ T) <= limit - Cardinality(T)
  <2>1. T \cup u \subseteq G /\ T \cup u \in SUBSET Messages
    BY <1>1, <1>2, <1>6
  <2>2. Cardinality(T \cup u) = Cardinality(T) + Cardinality(u \ T)
    BY <1>4, <1>5, Sizes
  <2>3. Cardinality(T \cup u) <= Cardinality(G)
    BY <1>1, <2>1, Sizes
  <2> HIDE DEF G, T
  <2> QED
    BY <1>1, <1>5, <2>2, <2>3
<1>7. ASSUME ~(u \subseteq G) PROVE ~(Cardinality(u \ T) <= limit - Cardinality(T))
  <2> DEFINE before == {x \in G : x > m}
  <2>1. u \cap G = {} /\ Cardinality(before) + Cardinality(u) > limit
    BY <1>1, <1>3, <1>4, <1>7, BestUnits DEF PageKnown
  <2>2. u \ T = u
    BY <1>2, <2>1
  <2>3. before \subseteq T
    BY <1>3, <1>7, BeforeUnit
  <2>4. before \in SUBSET Messages
    BY <1>1
  <2>5. Cardinality(before) <= Cardinality(T) /\ Cardinality(before) \in Nat
    BY <1>5, <2>3, <2>4, Sizes, MessagesFinite
  <2> DEFINE b == Cardinality(before)
             c == Cardinality(T)
             k == Cardinality(u)
  <2>6. b <= c /\ b \in Nat /\ c \in Nat /\ k \in Nat /\ b + k > limit
    BY <1>5, <2>1, <2>5
  <2>7. Cardinality(u \ T) = k
    BY <2>2
  <2> HIDE DEF b, c, k
  <2>8. ~(k <= limit - c)
    BY <1>1, <2>6
  <2> QED
    BY <2>7, <2>8 DEF c
<1> QED
  BY <1>6, <1>7

(* No unit is left out by a step of the walk.                                  *)
LEMMA TakeIs ==
  ASSUME PageKnown, NEW s, NEW n \in 1 .. Newest, WalkRight(s, n - 1)
  PROVE  WalkRight(Take(s, UnitAt(n)), n)
<1> DEFINE U == UnitAt(n)
           T == op.stable \cup s.taken
           new == U \ T
           t == Take(s, U)
<1>1. limit \in Nat /\ Newest \in Nat /\ n \in Nat /\ Newest - (n - 1) = Newest + 1 - n
  BY SearchAssumption DEF PageKnown
<1>2. \A u \in Units(op.page) : Max(u) \in Nat
  BY UnitsAre, MessagesFinite
<1>3. U = {} \/ (U \in Units(op.page) /\ Max(U) = Newest + 1 - n)
  <2> SUFFICES ASSUME NEW u \in Units(op.page), Max(u) = Newest + 1 - n PROVE U = u
    BY DEF UnitAt
  <2>1. \A v \in Units(op.page) : Max(v) = Max(u) => v = u
    <3> SUFFICES ASSUME NEW v \in Units(op.page), Max(v) = Max(u) PROVE v = u
      OBVIOUS
    <3>1. Max(v) \in v /\ Max(u) \in u
      BY UnitsAre
    <3> QED
      BY <3>1, UnitsAre
  <2> QED
    BY <2>1 DEF UnitAt
<1>4. \A u \in Units(op.page) : Max(u) = Newest + 1 - n => u \subseteq U
  BY DEF UnitAt
<1> HIDE DEF U
<1> SUFFICES WalkRight(t, n)
  BY DEF U
<1>5. \A u \in Units(op.page) : Max(u) > Newest - n => Max(u) > Newest - (n - 1) \/ Max(u) = Newest + 1 - n
  BY <1>1, <1>2
<1>6. CASE s.rest # {} \/ new = {}
  <2>1. t = s
    BY <1>6 DEF Take
  <2>2. CASE s.rest # {}
    BY <2>1, <2>2 DEF WalkRight
  <2>3. CASE s.rest = {} /\ new = {}
    <3>1. U \subseteq T
      BY <2>3
    <3>2. \A u \in Units(op.page) : Max(u) > Newest - n => Settled(s, u)
      BY <1>4, <1>5, <2>3, <3>1 DEF WalkRight, Settled
    <3> QED
      BY <2>1, <2>3, <3>2 DEF WalkRight
  <2> QED
    BY <1>6, <2>2, <2>3
<1>7. CASE ~(s.rest # {} \/ new = {})
  <2>1. s.rest = {} /\ U \in Units(op.page) /\ Max(U) = Newest + 1 - n /\ U # {} /\ U \in SUBSET Messages
    BY <1>3, <1>7, UnitsAre
  <2> DEFINE fits == Cardinality(new) <= limit - Cardinality(T)
  <2>2. fits <=> U \subseteq Best(limit)
    BY <2>1, UnitFits
  <2>3. T \in SUBSET Messages /\ new \in SUBSET Messages
    BY <1>1, <2>1, BestUnits DEF PageKnown, WalkRight
  <2>4. Cardinality(T) \in Nat /\ Cardinality(new) \in Nat /\ Cardinality(U) \in Nat
    BY <2>1, <2>3, MessagesFinite
  <2>5. CASE ~fits
    <3>1. t = [s EXCEPT !.skipped = @ \/ Cardinality(U) > 1]
      <4>1. Cardinality(new) > limit - Cardinality(T)
        BY <1>1, <2>4, <2>5
      <4> QED
        BY <1>7, <4>1 DEF Take
    <3>2. DOMAIN t = {"taken", "skipped", "rest"} /\ t.taken = s.taken /\ t.rest = s.rest
      BY <3>1 DEF WalkRight
    <3>3. (t.skipped <=> s.skipped \/ Cardinality(U) > 1)
      BY <3>1 DEF WalkRight
    <3>4. Cardinality(U) <= 1 => Cardinality(T) >= limit
      <4>1. Cardinality(new) <= Cardinality(U)
        BY <2>1, <2>3, Sizes
      <4> QED
        BY <1>1, <2>4, <2>5, <4>1
    <3>5. U \cap Best(limit) = {}
      <4>1. \E m \in Hit : U = Expand(m)
        BY <2>1, UnitsAre
      <4> QED
        BY <1>1, <2>2, <2>5, <4>1, BestUnits
    <3>6. Settled(t, U)
      BY <2>4, <3>2, <3>3, <3>4, <3>5 DEF Settled
    <3>7. \A u \in Units(op.page) : Max(u) = Newest + 1 - n => u = U
      BY <2>1, UnitsAre
    <3>8. \A u \in Units(op.page) : Settled(s, u) => Settled(t, u)
      BY <3>2, <3>3 DEF Settled
    <3> HIDE DEF t
    <3>9. \A u \in Units(op.page) : Max(u) > Newest - n => Settled(t, u)
      <4> SUFFICES ASSUME NEW u \in Units(op.page), Max(u) > Newest - n PROVE Settled(t, u)
        OBVIOUS
      <4>1. CASE Max(u) > Newest - (n - 1)
        BY <2>1, <3>8, <4>1 DEF WalkRight
      <4>2. CASE Max(u) = Newest + 1 - n
        BY <3>6, <3>7, <4>2
      <4> QED
        BY <1>5, <4>1, <4>2
    <3> QED
      BY <2>1, <3>2, <3>9 DEF WalkRight
  <2>6. CASE fits /\ Cardinality(new) > OpLimit - op.taken - Cardinality(s.taken)
    <3>1. ~(Cardinality(new) > limit - Cardinality(T))
      BY <1>1, <2>4, <2>6
    <3>2. t = [s EXCEPT !.rest = U]
      BY <1>7, <2>6, <3>1 DEF Take
    <3>3. DOMAIN t = {"taken", "skipped", "rest"} /\ t.taken = s.taken /\ t.rest = U /\ t.skipped = s.skipped
      BY <3>2 DEF WalkRight
    <3> HIDE DEF t
    <3>4. \A u \in Units(op.page) : Max(u) > Max(U) => Settled(t, u)
      BY <1>1, <2>1, <3>3 DEF WalkRight, Settled
    <3> QED
      BY <2>1, <3>3, <3>4 DEF WalkRight
  <2>7. CASE fits /\ ~(Cardinality(new) > OpLimit - op.taken - Cardinality(s.taken))
    <3>1. ~(Cardinality(new) > limit - Cardinality(T))
      BY <1>1, <2>4, <2>7
    <3>2. t = [s EXCEPT !.taken = @ \cup new]
      BY <1>7, <2>7, <3>1 DEF Take
    <3>3. DOMAIN t = {"taken", "skipped", "rest"} /\ t.taken = s.taken \cup new /\ t.rest = s.rest
          /\ t.skipped = s.skipped
      BY <3>2 DEF WalkRight
    <3>4. op.stable \cup t.taken = T \cup U
      BY <3>3
    <3> HIDE DEF t
    <3>5. t.taken \subseteq Best(limit) /\ t.taken \subseteq UNION Units(op.page)
      BY <2>1, <2>2, <2>7, <3>3 DEF WalkRight
    <3>6. \A u \in Units(op.page) : u \cap t.taken # {} => u \subseteq op.stable \cup t.taken
      <4> SUFFICES ASSUME NEW u \in Units(op.page), NEW x \in u \cap t.taken
                   PROVE u \subseteq T \cup U
        BY <3>4
      <4>1. CASE x \in s.taken
        BY <4>1 DEF WalkRight
      <4>2. CASE x \in U
        <5>1. u = U
          BY <2>1, <4>2, UnitsAre
        <5> QED
          BY <5>1
      <4> QED
        BY <3>3, <4>1, <4>2
    <3>7. Cardinality(T) <= Cardinality(T \cup U) /\ Cardinality(T \cup U) \in Nat
      <4>1. T \cup U \in SUBSET Messages
        BY <2>1, <2>3
      <4> QED
        BY <2>3, <4>1, Sizes, MessagesFinite
    <3>8. \A u \in Units(op.page) : Settled(s, u) => Settled(t, u)
      <4>1. Cardinality(T) >= limit => Cardinality(T \cup U) >= limit
        BY <1>1, <2>4, <3>7
      <4> QED
        BY <3>3, <3>4, <4>1 DEF Settled
    <3>9. \A u \in Units(op.page) : Max(u) > Newest - n => Settled(t, u)
      <4> SUFFICES ASSUME NEW u \in Units(op.page), Max(u) > Newest - n PROVE Settled(t, u)
        OBVIOUS
      <4>1. CASE Max(u) > Newest - (n - 1)
        BY <2>1, <3>8, <4>1 DEF WalkRight
      <4>2. CASE Max(u) = Newest + 1 - n
        BY <1>4, <3>4, <4>2 DEF Settled
      <4> QED
        BY <1>5, <4>1, <4>2
    <3> QED
      BY <2>1, <3>3, <3>5, <3>6, <3>9 DEF WalkRight
  <2> HIDE DEF fits
  <2> QED
    BY <2>5, <2>6, <2>7
<1> QED
  BY <1>6, <1>7

(* What a page's walk ends with.                                               *)
LEMMA WalkEnds ==
  ASSUME PageKnown, NEW s \in Accepted
  PROVE  WalkRight(s, Newest)
<1>1. PICK f : Outcomes(f, Newest) /\ Accepted = f[Newest]
  BY AcceptedIs
<1>2. Newest \in Nat
  BY SearchAssumption
<1> DEFINE next(F, k) == {Take(r, UnitAt(k)) : r \in F}
<1>3. f[0] = {NoneTaken} /\ \A k \in 1 .. Newest : f[k] = next(f[k - 1], k)
  <2>1. \A k \in 0 .. Newest : f[k] = IF k = 0 THEN {NoneTaken} ELSE next(f[k - 1], k)
    BY <1>1, Zenon DEF Outcomes
  <2> HIDE DEF next
  <2> QED
    BY <1>2, <2>1
<1> DEFINE Q == {k \in 0 .. Newest : \A r \in f[k] : WalkRight(r, k)}
<1>4. 0 \in Q
  <2>1. f[0] = {NoneTaken} /\ 0 \in 0 .. Newest
    BY <1>2, <1>3
  <2>2. \A u \in Units(op.page) : ~(Max(u) > Newest - 0)
    <3>1. \A u \in Units(op.page) : Max(u) \in 1 .. Newest
      BY UnitsAre DEF Messages
    <3> QED
      BY <1>2, <3>1
  <2>3. WalkRight(NoneTaken, 0)
    BY <2>2 DEF WalkRight, NoneTaken
  <2> QED
    BY <2>1, <2>3
<1>5. ASSUME NEW k \in 1 .. Newest, k - 1 \in Q PROVE k \in Q
  <2>1. f[k] = {Take(r, UnitAt(k)) : r \in f[k - 1]}
    BY <1>3, Zenon
  <2>2. \A r \in f[k - 1] : WalkRight(r, k - 1)
    BY <1>5
  <2>3. \A r \in f[k - 1] : WalkRight(Take(r, UnitAt(k)), k)
    BY <2>2, TakeIs
  <2>4. k \in 0 .. Newest
    BY <1>2
  <2> QED
    BY <2>1, <2>3, <2>4
<1> HIDE DEF Q
<1>6. Newest \in Q
  BY <1>2, <1>4, <1>5, UpTo
<1> QED
  BY <1>1, <1>6 DEF Q

-----------------------------------------------------------------------------
(* A hit that the offset has not passed yet and that is not older than some   *)
(* message of the page is on the page.                                        *)
LEMMA OnPage ==
  ASSUME PageKnown, NEW m \in Hit
  PROVE  /\ \/ Expand(m) \subseteq op.stable
            \/ m \in Behind(op.cursor)
         /\ m \in Behind(op.cursor) => \A p \in op.page : m >= p => m \in op.page \cap Hits
<1>1. m \in Found /\ m \in Hits /\ m \in Nat /\ op.cursor \in Nat
  BY MessagesFinite DEF Hit, PageKnown
<1>2. CASE op.cursor # 0 /\ m >= op.cursor
  <2>1. Expand(m) \subseteq op.stable
    BY <1>2 DEF PageKnown, Passed
  <2>2. m \notin Behind(op.cursor)
    BY <1>1, <1>2 DEF Behind
  <2> QED
    BY <2>1, <2>2
<1>3. CASE ~(op.cursor # 0 /\ m >= op.cursor)
  <2>1. m \in Behind(op.cursor)
    BY <1>1, <1>3 DEF Behind
  <2>2. \A p \in op.page : m >= p => m \in op.page
    BY <1>1, <2>1, PageIs DEF PageKnown
  <2> QED
    BY <1>1, <2>1, <2>2
<1> QED
  BY <1>2, <1>3

(* The last page holds everything that is left.                               *)
LEMMA LastPage ==
  ASSUME PageKnown, NEW m \in Hit, m \in Behind(op.cursor), IsLast(op.page)
  PROVE  m \in op.page \cap Hits
<1>1. m \in Found /\ m \in Hits /\ m \in Nat /\ op.cursor \in Nat
  BY MessagesFinite DEF Hit, PageKnown
<1>2. CASE scope = "single"
  <2>1. op.page = Behind(op.cursor)
    BY <1>1, <1>2, PageIs DEF PageKnown, IsLast
  <2> QED
    BY <1>1, <2>1
<1>3. CASE scope # "single"
  <2>1. PICK p \in op.page : p <= m
    BY <1>1, <1>3 DEF IsLast
  <2>2. p \in Nat
    <3>1. op.page \subseteq Messages
      BY PageIs DEF PageKnown
    <3> QED
      BY <3>1, MessagesFinite
  <2> QED
    BY <1>1, <2>1, <2>2, OnPage
<1> QED
  BY <1>2, <1>3

(* An empty page is the last one: an offset in the account has something       *)
(* behind it.                                                                 *)
LEMMA MorePages ==
  ASSUME PageKnown, Offset(op.cursor), scope \in {"single", "all"}, ~IsLast(op.page)
  PROVE  op.page # {}
<1> SUFFICES ASSUME op.page = {} PROVE FALSE
  OBVIOUS
<1>1. op.cursor \in Nat /\ Behind(op.cursor) = {}
  BY PageIs DEF PageKnown
<1>2. CASE scope = "single"
  <2>1. Cardinality(op.page) = 0
    BY FS_EmptySet
  <2>2. PageSize \in Nat \ {0}
    BY SearchAssumption
  <2>3. Cardinality(op.page) < PageSize
    BY <2>1, <2>2
  <2> QED
    BY <1>2, <2>3 DEF IsLast
<1>3. CASE scope # "single"
  <2>1. PICK m \in Found : TRUE
    BY <1>3 DEF IsLast
  <2>2. op.cursor # 0
    BY <1>1, <2>1 DEF Behind
  <2>3. PICK n \in Found : n < op.cursor
    BY <1>3, <2>2 DEF Offset
  <2> QED
    BY <1>1, <2>3 DEF Behind
<1> QED
  BY <1>2, <1>3

(* What a page's commit is.                                                   *)
LEMMA CommitIs ==
  ASSUME PageKnown, Offset(op.cursor), scope \in {"single", "all"}, NEW s \in Accepted
  PROVE  LET job == Commit(s)
             T == op.stable \cup s.taken
         IN  /\ DOMAIN job = JobFields
             /\ job.kind = "commit" /\ job.id = op.id /\ job.gen = op.gen /\ job.add = s.taken
             /\ s.taken \subseteq Best(limit) /\ Whole(s.taken, T) /\ Passed(job.cursor, T)
             /\ Offset(job.cursor)
             /\ job.done /\ ~job.capped => \A m \in Hit : Expand(m) \subseteq T
<1> DEFINE job == Commit(s)
           T == op.stable \cup s.taken
           full == Cardinality(T) >= limit
           over == full \/ s.skipped
           ends == s.rest = {} /\ IsLast(op.page)
           r == s.rest
           k == Trigger(r)
<1>1. WalkRight(s, Newest) /\ Newest \in Nat
  BY WalkEnds, SearchAssumption
<1>2. limit \in Nat /\ op.cursor \in Nat /\ op.page = RemotePage(op.cursor) /\ op.page \in SUBSET Messages
  BY PageIs DEF PageKnown
<1>3. /\ DOMAIN job = JobFields
      /\ job.kind = "commit" /\ job.id = op.id /\ job.gen = op.gen /\ job.add = s.taken
      /\ job.cursor = IF full \/ s.skipped \/ ends THEN 0
                      ELSE IF s.rest # {} THEN Deferred(s.rest) ELSE Min(op.page)
  BY DEF Commit, JobFields
<1>4. (job.done <=> over \/ ends) /\ (job.capped <=> over)
  BY Zenon DEF Commit
<1> HIDE DEF job
<1>5. Whole(s.taken, T)
  <2> SUFFICES ASSUME NEW a \in Albums, NEW x \in a \cap s.taken PROVE a \subseteq T
    BY DEF Whole
  <2>1. PICK u \in Units(op.page) : x \in u
    BY <1>1 DEF WalkRight
  <2>2. PICK m \in op.page \cap Hits : u = Expand(m)
    BY UnitsAre
  <2>3. m \in Messages
    BY <1>2
  <2>4. u = a
    BY <2>1, <2>2, <2>3, ExpandIs
  <2> QED
    BY <1>1, <2>1, <2>4 DEF WalkRight
<1>6. ASSUME ~over, NEW u \in Units(op.page), Settled(s, u) PROVE u \subseteq T
  BY <1>6 DEF Settled
<1>7. ASSUME ~over, r = {}, NEW m \in op.page \cap Hits PROVE Expand(m) \subseteq T
  <2>1. Expand(m) \in Units(op.page)
    BY UnitsAre
  <2>2. Max(Expand(m)) \in 1 .. Newest
    BY <2>1, UnitsAre DEF Messages
  <2>3. Max(Expand(m)) > Newest - Newest
    BY <1>1, <2>2
  <2>4. Settled(s, Expand(m))
    BY <1>1, <1>7, <2>1, <2>3 DEF WalkRight
  <2> QED
    BY <1>6, <1>7, <2>1, <2>4
<1>8. ASSUME job.done, ~job.capped, NEW m \in Hit PROVE Expand(m) \subseteq T
  <2>1. ~over /\ r = {} /\ IsLast(op.page)
    BY <1>4, <1>8
  <2>2. CASE m \in Behind(op.cursor)
    <3>1. m \in op.page \cap Hits
      BY <2>1, <2>2, LastPage
    <3> QED
      BY <1>7, <2>1, <3>1
  <2> QED
    BY <2>2, OnPage
<1>9. CASE over \/ ends
  <2>1. job.cursor = 0
    BY <1>3, <1>9
  <2>2. Passed(job.cursor, T) /\ Offset(job.cursor)
    BY <2>1 DEF Passed, Offset
  <2> QED
    BY <1>1, <1>3, <1>5, <1>8, <2>2 DEF WalkRight, job
<1>10. CASE ~over /\ r = {} /\ ~ends
  <2>1. ~IsLast(op.page) /\ job.cursor = Min(op.page)
    BY <1>3, <1>10
  <2>2. op.page # {}
    BY <2>1, MorePages
  <2>3. Min(op.page) \in op.page /\ \A y \in op.page : Min(op.page) <= y
    BY <1>2, <2>2, Ends
  <2>4. Passed(job.cursor, T)
    <3> SUFFICES ASSUME NEW m \in Hit, m >= Min(op.page) PROVE Expand(m) \subseteq T
      BY <2>1 DEF Passed
    <3>1. CASE m \in Behind(op.cursor)
      BY <1>7, <1>10, <2>3, <3>1, OnPage
    <3> QED
      BY <3>1, OnPage
  <2>5. Offset(job.cursor)
    <3>1. Min(op.page) \in Nat
      BY <1>2, <2>3, MessagesFinite
    <3>2. ASSUME scope = "all" PROVE \E m \in Found : m < Min(op.page)
      <4>1. PICK m \in Found : ~\E n \in op.page : n <= m
        BY <2>1, <3>2 DEF IsLast
      <4>2. m \in Nat
        BY SearchAssumption, MessagesFinite
      <4>3. ~(Min(op.page) <= m)
        BY <2>3, <4>1
      <4> QED
        BY <3>1, <4>2, <4>3
    <3> QED
      BY <2>1, <3>1, <3>2 DEF Offset
  <2> QED
    BY <1>1, <1>3, <1>5, <1>8, <2>4, <2>5 DEF WalkRight, job
<1>11. CASE ~over /\ r # {}
  <2>1. job.cursor = Deferred(r)
    BY <1>3, <1>11
  <2>2. CASE scope = "all"
    <3>1. job.cursor = op.cursor
      BY <2>1, <2>2 DEF Deferred
    <3>2. Passed(job.cursor, T) /\ Offset(job.cursor)
      BY <3>1 DEF PageKnown, Passed
    <3> QED
      BY <1>1, <1>3, <1>5, <1>8, <3>2 DEF WalkRight, job
  <2>3. CASE scope # "all"
    <3> DEFINE D == r \cap op.page \cap Hits
    <3>1. job.cursor = k + 1
      BY <2>1, <2>3 DEF Deferred
    <3>2. r \in Units(op.page)
      BY <1>1, <1>11 DEF WalkRight
    <3>3. PICK h \in op.page \cap Hits : r = Expand(h)
      BY <3>2, UnitsAre
    <3>4. h \in Messages /\ h \in D
      BY <1>2, <3>3, ExpandIs
    <3>5. D \in SUBSET Messages /\ D # {} /\ k = Max(D)
      BY <1>2, <3>4 DEF Trigger
    <3>6. k \in D /\ \A y \in D : k >= y
      BY <3>5, Ends
    <3>7. k \in Nat /\ k \in Messages /\ k \in op.page /\ r = Expand(k)
      <4>1. k \in Messages
        BY <3>5, <3>6
      <4>2. Expand(k) = Expand(h)
        BY <3>3, <3>4, <3>6, ExpandIs
      <4> QED
        BY <3>3, <3>6, <4>1, <4>2, MessagesFinite
    <3> HIDE DEF k
    <3>8. Passed(job.cursor, T)
      <4> SUFFICES ASSUME NEW m \in Hit, m >= k + 1 PROVE Expand(m) \subseteq T
        BY <3>1 DEF Passed
      <4>1. m \in Nat /\ m \in Messages /\ k < m /\ m >= k
        <5>1. m \in Nat /\ m \in Messages
          BY MessagesFinite
        <5> QED
          BY <3>7, <5>1
      <4>2. CASE m \in Behind(op.cursor)
        <5>1. m \in op.page \cap Hits
          BY <3>7, <4>1, <4>2, OnPage
        <5>2. m \notin Expand(k)
          <6>1. m \in r => m \in D
            BY <5>1
          <6>2. ~(k >= m)
            BY <3>7, <4>1
          <6> QED
            BY <3>6, <3>7, <6>1, <6>2
        <5>3. \A x \in Expand(k), y \in Expand(m) : x < y
          BY <3>7, <4>1, <5>2, InOrder
        <5>4. Expand(m) \in Units(op.page)
          BY <5>1, UnitsAre
        <5>5. Max(r) \in r /\ Max(Expand(m)) \in Expand(m) /\ Max(r) \in Nat /\ Max(Expand(m)) \in Nat
          <6>1. \A u \in Units(op.page) : Max(u) \in u /\ Max(u) \in Messages
            BY UnitsAre
          <6>2. \A u \in Units(op.page) : Max(u) \in u /\ Max(u) \in Nat
            BY <6>1, MessagesFinite
          <6> HIDE DEF r
          <6> QED
            BY <3>2, <5>4, <6>2
        <5>6. Max(Expand(m)) > Max(r)
          <6>1. Max(r) < Max(Expand(m))
            BY <3>7, <5>3, <5>5
          <6> QED
            BY <5>5, <6>1
        <5>7. Settled(s, Expand(m))
          BY <1>1, <1>11, <5>4, <5>6 DEF WalkRight
        <5> QED
          BY <1>6, <1>11, <5>4, <5>7
      <4> QED
        BY <4>2, OnPage
    <3>9. Offset(job.cursor)
      BY <2>3, <3>1, <3>7 DEF Offset
    <3> QED
      BY <1>1, <1>3, <1>5, <1>8, <3>8, <3>9 DEF WalkRight, job
  <2> QED
    BY <2>2, <2>3
<1> QED
  BY <1>9, <1>10, <1>11

-----------------------------------------------------------------------------
(* What was right of a generation stays right while its results only grow.    *)
LEMMA Grows ==
  ASSUME UNCHANGED fixed, Current \subseteq Current'
  PROVE  /\ \A job : Pending(job) => Pending(job)'
         /\ \A c : Passed(c, Current) => Passed(c, Current')
         /\ \A c : Offset(c) => Offset(c)'
<1>1. scope' = scope /\ limit' = limit
  BY DEF fixed
<1>2. \A c : Offset(c) => Offset(c)'
  BY <1>1 DEF Offset
<1>3. \A c, S, T : Passed(c, S) /\ S \subseteq T => Passed(c, T)
  BY DEF Passed
<1>4. \A S, T, U : Whole(U, S) /\ S \subseteq T => Whole(U, T)
  BY DEF Whole
<1>5. Best(limit)' = Best(limit)
  BY <1>1
<1>6. ASSUME NEW job, Pending(job) PROVE Pending(job)'
  <2> DEFINE S == Current \cup job.add
             T == Current' \cup job.add
  <2>1. S \subseteq T
    OBVIOUS
  <2>2. Offset(job.cursor)' /\ job.add \subseteq Best(limit)'
    BY <1>2, <1>5, <1>6 DEF Pending
  <2>3. Whole(job.add, T) /\ Passed(job.cursor, T)
    BY <1>3, <1>4, <1>6, <2>1 DEF Pending
  <2>4. job.done /\ ~job.capped => \A m \in Hit : Expand(m) \subseteq T
    BY <1>6, <2>1 DEF Pending
  <2> QED
    BY <2>2, <2>3, <2>4 DEF Pending
<1> QED
  BY <1>2, <1>3, <1>6

(* Nothing changes for a generation as long as nothing is written.            *)
LEMMA Quiet ==
  ASSUME UNCHANGED fixed, UNCHANGED catalog
  PROVE  /\ session' = session /\ Current' = Current /\ scope' = scope /\ limit' = limit
         /\ SessionRight => SessionRight'
         /\ \A job : Pending(job) => Pending(job)'
         /\ \A c : Offset(c) => Offset(c)'
<1>1. session' = session /\ rows' = rows /\ scope' = scope /\ limit' = limit
  BY DEF catalog, fixed
<1>2. Current' = Current
  BY <1>1 DEF Current
<1>3. \A c : Offset(c) => Offset(c)'
  BY <1>2, Grows
<1>4. SessionRight => SessionRight'
  BY <1>1, <1>2, <1>3 DEF SessionRight
<1> QED
  BY <1>1, <1>2, <1>3, <1>4, Grows

(* A commit of the session's generation adds its results to it.               *)
LEMMA WriteIs ==
  ASSUME CatalogFits, NEW job, Write(job), session.gen = job.gen, job.gen # 0, job.add \subseteq Messages
  PROVE  /\ Current' = Current \cup job.add
         /\ DOMAIN session' = {"id", "gen", "status", "cursor", "exhausted", "capped"}
         /\ session'.gen = session.gen /\ session'.id = session.id
         /\ session'.cursor = job.cursor /\ session'.exhausted = job.done /\ session'.capped = job.capped
         /\ \A m \in Messages : /\ DOMAIN rows'[m] = {"gen", "sel", "que"}
                                /\ rows'[m].gen \in {0, job.gen, rows[m].gen}
         /\ Current' = {m \in Messages : rows'[m].gen = job.gen}
<1> DEFINE added == [m \in Messages |-> IF m \in job.add THEN Upsert(m, job.gen) ELSE rows[m]]
<1>1. \A m \in Messages : /\ DOMAIN added[m] = {"gen", "sel", "que"}
                          /\ added[m].gen = IF m \in job.add THEN job.gen ELSE rows[m].gen
  BY DEF Upsert, CatalogFits
<1>2. rows' = IF job.done THEN [m \in Messages |-> IF added[m].gen = job.gen THEN added[m] ELSE NoRow]
              ELSE added
  BY DEF Write
<1>3. DOMAIN added = Messages
  OBVIOUS
<1> HIDE DEF added
<1>4. \A m \in Messages : rows'[m] = added[m] \/ (rows'[m] = NoRow /\ added[m].gen # job.gen)
  BY <1>2, <1>3, Zenon
<1>5. ASSUME NEW m \in Messages
      PROVE  /\ DOMAIN rows'[m] = {"gen", "sel", "que"}
             /\ rows'[m].gen = job.gen <=> m \in job.add \/ rows[m].gen = job.gen
             /\ rows'[m].gen \in {0, job.gen, rows[m].gen}
  <2>1. DOMAIN NoRow = {"gen", "sel", "que"} /\ NoRow.gen = 0
    BY DEF NoRow
  <2>2. CASE rows'[m] = added[m]
    BY <1>1, <2>2
  <2>3. CASE rows'[m] = NoRow /\ added[m].gen # job.gen
    BY <1>1, <2>1, <2>3
  <2> QED
    BY <1>4, <2>2, <2>3
<1>6. session' = [session EXCEPT !.cursor = job.cursor, !.exhausted = job.done,
                    !.capped = job.capped, !.status = IF job.done THEN "completed" ELSE "running"]
  BY DEF Write
<1>7. DOMAIN session = {"id", "gen", "status", "cursor", "exhausted", "capped"}
  BY DEF CatalogFits
<1>8. /\ DOMAIN session' = {"id", "gen", "status", "cursor", "exhausted", "capped"}
      /\ session'.gen = session.gen /\ session'.id = session.id
      /\ session'.cursor = job.cursor /\ session'.exhausted = job.done /\ session'.capped = job.capped
  <2>1. DOMAIN session' = DOMAIN session
    BY <1>6
  <2>2. session'.gen = session.gen /\ session'.id = session.id
    BY <1>6, <1>7
  <2>3. session'.cursor = job.cursor
    BY <1>6, <1>7
  <2>4. session'.exhausted = job.done /\ session'.capped = job.capped
    BY <1>6, <1>7
  <2> QED
    BY <1>7, <2>1, <2>2, <2>3, <2>4
<1>9. Current' = {m \in Messages : rows'[m].gen = job.gen}
  BY <1>8 DEF Current
<1>10. Current = {m \in Messages : rows[m].gen = job.gen}
  BY DEF Current
<1>11. Current' = Current \cup job.add
  BY <1>5, <1>9, <1>10
<1> QED
  BY <1>5, <1>8, <1>9, <1>11

(* There is no search at first.                                              *)
LEMMA SInvInit == Init => SInv
<1> SUFFICES ASSUME Init PROVE SInv
  OBVIOUS
<1>1. scope \in {"single", "all"} /\ limit \in Nat
  BY SearchAssumption DEF Init
<1>2. session = NoSession /\ rows = [m \in Messages |-> NoRow] /\ op = NoOp /\ threads = {} /\ searches = 0
  BY DEF Init
<1>3. DOMAIN NoRow = {"gen", "sel", "que"} /\ NoRow.gen = 0
  BY DEF NoRow
<1>4. Current = {}
  BY <1>2 DEF Current, NoSession
<1>5. CatalogFits
  BY <1>1, <1>2, <1>3 DEF CatalogFits, NoSession
<1>6. OpFits /\ OpRight
  BY <1>2 DEF OpFits, OpRight, NoOp, NoJob, JobFields, Offset
<1>7. SessionRight
  <2>1. {} \subseteq Best(limit)
    OBVIOUS
  <2> QED
    BY <1>2, <1>4, <2>1 DEF SessionRight, NoSession, Passed, Offset, Whole
<1>8. ThreadsFit /\ ThreadsRight
  BY <1>2 DEF ThreadsFit, ThreadsRight
<1> QED
  BY <1>5, <1>6, <1>7, <1>8 DEF SInv

-----------------------------------------------------------------------------
(* A new search starts from nothing; the results of the old generation and    *)
(* the calls that were left for it are none of its own.                       *)
LEMMA SInvBegin == ASSUME SInv, Begin PROVE SInv'
<1>1. /\ searches' = searches + 1 /\ rows' = rows /\ threads' = threads /\ scope' = scope /\ limit' = limit
      /\ session' = [NoSession EXCEPT !.id = IF session.id = 0 THEN searches + 1 ELSE session.id,
                                       !.gen = searches + 1, !.status = "running"]
      /\ op' = [NoOp EXCEPT !.pc = "list", !.id = session'.id, !.gen = session'.gen]
  BY DEF Begin, fixed
<1>2. CatalogFits /\ ThreadsFit
  BY DEF SInv
<1>3. searches \in Nat /\ session.id \in 0..searches
  BY <1>2 DEF CatalogFits
<1>4. /\ DOMAIN session' = {"id", "gen", "status", "cursor", "exhausted", "capped"}
      /\ session'.gen = searches + 1 /\ session'.cursor = 0 /\ session'.exhausted = FALSE
      /\ session'.id = IF session.id = 0 THEN searches + 1 ELSE session.id
  BY <1>1 DEF NoSession
<1>5. session'.id \in 1 .. searches + 1
  BY <1>3, <1>4
<1>6. Current' = {}
  <2>1. \A m \in Messages : rows'[m].gen # searches + 1
    BY <1>1, <1>2, <1>3 DEF CatalogFits
  <2> QED
    BY <1>4, <2>1 DEF Current
<1>7. CatalogFits'
  <2>1. \A m \in Messages : DOMAIN rows'[m] = {"gen", "sel", "que"} /\ rows'[m].gen \in 0 .. searches + 1
    BY <1>1, <1>2, <1>3 DEF CatalogFits
  <2>2. session'.id # 0 /\ session'.gen # 0
    BY <1>3, <1>4, <1>5
  <2> QED
    BY <1>1, <1>2, <1>3, <1>4, <1>5, <2>1, <2>2 DEF CatalogFits
<1>8. SessionRight'
  BY <1>4, <1>6 DEF SessionRight, Offset, Passed, Whole
<1>9. /\ DOMAIN op' = {"pc", "id", "gen", "cursor", "stable", "taken", "page", "job"} /\ op'.job = NoJob
      /\ op'.pc = "list" /\ op'.id = session'.id /\ op'.gen = session'.gen /\ op'.cursor = 0
  BY <1>1 DEF NoOp
<1>10. OpFits'
  <2>1. DOMAIN NoJob = JobFields
    BY DEF NoJob, JobFields
  <2> QED
    BY <1>1, <1>3, <1>4, <1>5, <1>9, <2>1 DEF OpFits, Offset
<1>11. OpRight'
  BY <1>9 DEF OpRight, Passed
<1>12. ThreadsFit' /\ ThreadsRight'
  <2>1. \A job \in threads : job.gen \in 1 .. searches + 1 /\ job.gen # searches + 1 /\ job.id \in 1 .. searches + 1
    BY <1>2, <1>3 DEF ThreadsFit
  <2> QED
    BY <1>1, <1>2, <1>4, <2>1 DEF ThreadsFit, ThreadsRight
<1> QED
  BY <1>7, <1>8, <1>10, <1>11, <1>12 DEF SInv

(* Nothing that is left belongs to a search that is deleted.                  *)
LEMMA SInvDelete == ASSUME SInv, Delete PROVE SInv'
<1>1. /\ session' = NoSession /\ rows' = [m \in Messages |-> NoRow]
      /\ op' = op /\ threads' = threads /\ searches' = searches /\ scope' = scope /\ limit' = limit
  BY DEF Delete, fixed, bounds
<1>2. CatalogFits /\ OpFits /\ ThreadsFit
  BY DEF SInv
<1>3. session'.gen = 0 /\ session'.id = 0 /\ session'.cursor = 0 /\ session'.exhausted = FALSE
      /\ DOMAIN session' = {"id", "gen", "status", "cursor", "exhausted", "capped"}
  BY <1>1 DEF NoSession
<1>4. Current' = {}
  BY <1>3 DEF Current
<1>5. CatalogFits'
  BY <1>1, <1>2, <1>3 DEF CatalogFits, NoRow
<1>6. SessionRight'
  BY <1>3, <1>4 DEF SessionRight, Offset, Passed, Whole
<1>7. OpFits' /\ ThreadsFit'
  BY <1>1, <1>2 DEF OpFits, ThreadsFit, Offset, RemotePage, Behind
<1>8. OpRight' /\ ThreadsRight'
  BY <1>1, <1>2, <1>3 DEF OpRight, ThreadsRight, OpFits, ThreadsFit, CatalogFits
<1> QED
  BY <1>5, <1>6, <1>7, <1>8 DEF SInv

(* While nothing is written, only the operation and the calls have to be      *)
(* looked at.                                                                 *)
LEMMA QuietStep ==
  ASSUME SInv, UNCHANGED fixed, UNCHANGED catalog, searches' = searches,
         op' = op \/ (OpFits' /\ OpRight'), threads' \subseteq threads \/ (ThreadsFit' /\ ThreadsRight')
  PROVE  SInv'
<1>1. /\ session' = session /\ Current' = Current /\ scope' = scope /\ limit' = limit /\ rows' = rows
      /\ SessionRight' /\ \A job : Pending(job) => Pending(job)'
      /\ \A c : Offset(c) => Offset(c)'
  BY Quiet DEF SInv, catalog
<1>2. CatalogFits'
  BY <1>1 DEF SInv, CatalogFits
<1>3. OpFits' /\ OpRight'
  <2> SUFFICES ASSUME op' = op PROVE OpFits' /\ OpRight'
    OBVIOUS
  <2>1. OpFits'
    BY <1>1 DEF SInv, OpFits, RemotePage, Behind
  <2>2. OpRight'
    BY <1>1 DEF SInv, OpRight
  <2> QED
    BY <2>1, <2>2
<1>4. ThreadsFit' /\ ThreadsRight'
  <2> SUFFICES ASSUME threads' \subseteq threads PROVE ThreadsFit' /\ ThreadsRight'
    OBVIOUS
  <2>1. ThreadsFit'
    BY <1>1 DEF SInv, ThreadsFit
  <2>2. ThreadsRight'
    BY <1>1 DEF SInv, ThreadsRight
  <2> QED
    BY <2>1, <2>2
<1> QED
  BY <1>1, <1>2, <1>3, <1>4 DEF SInv

(* An operation that is over knows nothing.                                   *)
LEMMA NoOpFits == op' = NoOp => OpFits' /\ OpRight'
<1> SUFFICES ASSUME op' = NoOp PROVE OpFits' /\ OpRight'
  OBVIOUS
<1>1. op'.pc = "idle" /\ op'.job = NoJob /\ op'.cursor = 0
      /\ DOMAIN op' = {"pc", "id", "gen", "cursor", "stable", "taken", "page", "job"}
  BY DEF NoOp
<1>2. DOMAIN NoJob = JobFields
  BY DEF NoJob, JobFields
<1> QED
  BY <1>1, <1>2 DEF OpFits, OpRight, Offset

(* A search that is broken off goes on from an offset that was passed.        *)
LEMMA SInvIncomplete ==
  ASSUME SInv, NEW c, Offset(c), Passed(c, Current), session' = Incomplete(c),
         UNCHANGED fixed, rows' = rows, searches' = searches,
         op' = op \/ (OpFits' /\ OpRight'), threads' \subseteq threads
  PROVE  SInv'
<1>1. OpFits /\ OpRight /\ SessionRight /\ CatalogFits /\ ThreadsFit /\ ThreadsRight
  BY DEF SInv
<1>2. scope' = scope /\ limit' = limit
  BY DEF fixed
<1>3. session' = [session EXCEPT !.status = "incomplete", !.cursor = c, !.exhausted = FALSE]
  BY DEF Incomplete
<1>4. DOMAIN session = {"id", "gen", "status", "cursor", "exhausted", "capped"}
  BY <1>1 DEF CatalogFits
<1>5. /\ DOMAIN session' = {"id", "gen", "status", "cursor", "exhausted", "capped"}
      /\ session'.gen = session.gen /\ session'.id = session.id /\ session'.cursor = c
      /\ session'.exhausted = FALSE
  BY <1>3, <1>4
<1>6. Current' = Current
  BY <1>5 DEF Current
<1>7. /\ \A job : Pending(job) => Pending(job)'
      /\ \A d : Offset(d) => Offset(d)'
  BY <1>6, Grows
<1>8. CatalogFits'
  BY <1>1, <1>2, <1>5 DEF CatalogFits
<1>9. SessionRight'
  BY <1>1, <1>2, <1>5, <1>6, <1>7 DEF SessionRight
<1>10. OpFits' /\ OpRight'
  <2> SUFFICES ASSUME op' = op PROVE OpFits' /\ OpRight'
    OBVIOUS
  <2>1. OpFits'
    BY <1>1, <1>7 DEF OpFits, RemotePage, Behind
  <2>2. OpRight'
    BY <1>1, <1>5, <1>6, <1>7 DEF OpRight
  <2> QED
    BY <2>1, <2>2
<1>11. ThreadsFit' /\ ThreadsRight'
  <2>1. ThreadsFit'
    BY <1>1 DEF ThreadsFit
  <2>2. ThreadsRight'
    BY <1>1, <1>5, <1>6, <1>7 DEF ThreadsRight
  <2> QED
    BY <2>1, <2>2
<1> QED
  BY <1>8, <1>9, <1>10, <1>11 DEF SInv

-----------------------------------------------------------------------------
(* More is loaded from the session's offset.                                 *)
LEMMA SInvLoadMore == ASSUME SInv, LoadMore PROVE SInv'
<1>1. /\ UNCHANGED fixed /\ UNCHANGED catalog /\ searches' = searches /\ threads' = threads /\ session.gen # 0
      /\ op' = [NoOp EXCEPT !.pc = "list", !.id = session.id, !.gen = session.gen, !.cursor = session.cursor]
  BY DEF LoadMore, bounds
<1>2. CatalogFits /\ SessionRight
  BY DEF SInv
<1>3. session' = session /\ Current' = Current /\ \A c : Offset(c) => Offset(c)'
  BY <1>1, Quiet
<1>4. /\ op'.pc = "list" /\ op'.id = session.id /\ op'.gen = session.gen /\ op'.cursor = session.cursor
      /\ DOMAIN op' = {"pc", "id", "gen", "cursor", "stable", "taken", "page", "job"} /\ op'.job = NoJob
  BY <1>1 DEF NoOp
<1>5. session.gen \in 1..searches /\ session.id \in 1..searches
  BY <1>1, <1>2 DEF CatalogFits
<1>6. OpFits'
  <2>1. DOMAIN NoJob = JobFields
    BY DEF NoJob, JobFields
  <2>2. Offset(session.cursor)'
    BY <1>2, <1>3 DEF SessionRight
  <2> QED
    BY <1>1, <1>3, <1>4, <1>5, <2>1, <2>2 DEF OpFits
<1>7. OpRight'
  BY <1>2, <1>3, <1>4 DEF OpRight, SessionRight
<1> QED
  BY <1>1, <1>6, <1>7, QuietStep

(* The rows that are read are results of this generation.                    *)
LEMMA SInvList == ASSUME SInv, List PROVE SInv'
<1>1. /\ UNCHANGED fixed /\ UNCHANGED catalog /\ searches' = searches /\ threads' = threads /\ op.pc = "list"
      /\ op' = [op EXCEPT !.pc = "page", !.stable = Current]
  BY DEF List, bounds
<1>2. OpFits /\ OpRight /\ SessionRight
  BY DEF SInv
<1>3. session' = session /\ Current' = Current /\ \A c : Offset(c) => Offset(c)'
  BY <1>1, Quiet
<1>4. /\ op'.pc = "page" /\ op'.id = op.id /\ op'.gen = op.gen /\ op'.cursor = op.cursor
      /\ op'.stable = Current /\ op'.job = op.job
      /\ DOMAIN op' = {"pc", "id", "gen", "cursor", "stable", "taken", "page", "job"}
  BY <1>1, <1>2 DEF OpFits
<1>5. OpFits'
  BY <1>1, <1>2, <1>3, <1>4 DEF OpFits
<1>6. OpRight'
  BY <1>1, <1>2, <1>3, <1>4 DEF OpRight, SessionRight
<1> QED
  BY <1>1, <1>5, <1>6, QuietStep

(* The page is asked for behind the offset of the operation.                 *)
LEMMA SInvFetch == ASSUME SInv, Fetch PROVE SInv'
<1>1. /\ UNCHANGED fixed /\ UNCHANGED catalog /\ searches' = searches /\ threads' = threads /\ op.pc = "page"
      /\ op' = [op EXCEPT !.pc = "album", !.page = RemotePage(op.cursor)]
  BY DEF Fetch, bounds
<1>2. OpFits /\ OpRight
  BY DEF SInv
<1>3. session' = session /\ Current' = Current /\ \A c : Offset(c) => Offset(c)'
  BY <1>1, Quiet
<1>4. /\ op'.pc = "album" /\ op'.id = op.id /\ op'.gen = op.gen /\ op'.cursor = op.cursor
      /\ op'.stable = op.stable /\ op'.job = op.job /\ op'.page = RemotePage(op.cursor)
      /\ DOMAIN op' = {"pc", "id", "gen", "cursor", "stable", "taken", "page", "job"}
  BY <1>1, <1>2 DEF OpFits
<1>5. OpFits'
  <2>1. RemotePage(op.cursor)' = RemotePage(op.cursor)
    BY <1>4 DEF RemotePage, Behind
  <2> QED
    BY <1>1, <1>2, <1>3, <1>4, <2>1 DEF OpFits
<1>6. OpRight'
  BY <1>1, <1>2, <1>3, <1>4 DEF OpRight
<1> QED
  BY <1>1, <1>5, <1>6, QuietStep

(* What a page adds belongs to the best results, whatever was committed since *)
(* the page was asked for.                                                    *)
LEMMA SInvExpandAlbums == ASSUME SInv, ExpandAlbums PROVE SInv'
<1>1. /\ UNCHANGED fixed /\ UNCHANGED catalog /\ searches' = searches /\ threads' = threads /\ op.pc = "album"
  BY DEF ExpandAlbums, bounds
<1>2. PICK s \in Accepted :
        op' = [op EXCEPT !.pc = "commit", !.job = Commit(s), !.taken = @ + Cardinality(s.taken)]
  BY DEF ExpandAlbums
<1>3. OpFits /\ OpRight /\ SessionRight /\ CatalogFits
  BY DEF SInv
<1>4. session' = session /\ Current' = Current /\ \A c : Offset(c) => Offset(c)'
  BY <1>1, Quiet
<1>5. /\ op'.pc = "commit" /\ op'.id = op.id /\ op'.gen = op.gen /\ op'.cursor = op.cursor
      /\ op'.job = Commit(s)
      /\ DOMAIN op' = {"pc", "id", "gen", "cursor", "stable", "taken", "page", "job"}
  BY <1>2, <1>3 DEF OpFits
<1>6. /\ DOMAIN Commit(s) = JobFields /\ Commit(s).kind = "commit"
      /\ Commit(s).id = op.id /\ Commit(s).gen = op.gen
  BY DEF Commit, JobFields
<1>7. OpFits'
  BY <1>1, <1>3, <1>4, <1>5, <1>6 DEF OpFits
<1>8. OpRight'
  <2> SUFFICES ASSUME op.gen = session.gen PROVE Pending(op.job)'
    <3>1. (op.pc # "idle" /\ op.gen = session.gen)' => op.gen = session.gen
      BY <1>4, <1>5
    <3> QED
      BY <1>5, <3>1 DEF OpRight
  <2>1. op.stable \subseteq Current /\ Whole(op.stable, op.stable) /\ Passed(op.cursor, op.stable)
    BY <1>1, <1>3 DEF OpRight
  <2>2. PageKnown
    BY <1>1, <1>3, <2>1 DEF PageKnown, OpFits, SessionRight, CatalogFits, Offset
  <2> DEFINE T == op.stable \cup s.taken
  <2>3. PICK job : job = Commit(s)
    OBVIOUS
  <2>4. /\ job.add = s.taken /\ s.taken \subseteq Best(limit) /\ Whole(s.taken, T) /\ Passed(job.cursor, T)
        /\ Offset(job.cursor) /\ (job.done /\ ~job.capped => \A m \in Hit : Expand(m) \subseteq T)
    BY <1>3, <2>2, <2>3, CommitIs DEF OpFits, CatalogFits
  <2>5. T \subseteq Current \cup job.add
    BY <2>1, <2>4
  <2> HIDE DEF T
  <2>6. Whole(job.add, Current \cup job.add) /\ Passed(job.cursor, Current \cup job.add)
    BY <2>4, <2>5 DEF Whole, Passed
  <2>7. job.done /\ ~job.capped => \A m \in Hit : Expand(m) \subseteq Current \cup job.add
    BY <2>4, <2>5
  <2>8. Pending(job)
    BY <2>4, <2>6, <2>7 DEF Pending
  <2>9. Pending(job)' /\ op'.job = job
    BY <1>1, <1>5, <2>3, <2>8, Quiet
  <2> QED
    BY <2>9 DEF Pending
<1> QED
  BY <1>1, <1>7, <1>8, QuietStep

(* The operation ends, or what it read of the session is what it will write.  *)
LEMMA SInvFinish == ASSUME SInv, Finish PROVE SInv'
<1>1. /\ UNCHANGED fixed /\ rows' = rows /\ searches' = searches /\ threads' = threads
      /\ op.pc \in {"reads", "ends"} /\ Finds(op, op.pc)
  BY DEF Finish, bounds
<1>2. OpFits /\ OpRight /\ SessionRight /\ CatalogFits /\ ThreadsFit /\ ThreadsRight
  BY DEF SInv
<1>3. CASE op.pc = "reads"
  <2>1. /\ session' = session /\ op' = [op EXCEPT !.pc = "ends", !.gen = session.gen, !.cursor = session.cursor]
        /\ UNCHANGED catalog /\ session.id = op.id
    BY <1>1, <1>3 DEF Finish, Finds, catalog
  <2>2. Current' = Current /\ \A c : Offset(c) => Offset(c)'
    BY <1>1, <2>1, Quiet
  <2>3. /\ op'.pc = "ends" /\ op'.id = op.id /\ op'.gen = session.gen /\ op'.cursor = session.cursor
        /\ op'.job = op.job
        /\ DOMAIN op' = {"pc", "id", "gen", "cursor", "stable", "taken", "page", "job"}
    BY <1>2, <2>1 DEF OpFits
  <2>4. op.id \in 1..searches /\ session.gen \in 1..searches
    BY <1>2, <1>3, <2>1 DEF OpFits, CatalogFits
  <2>5. OpFits'
    BY <1>1, <1>2, <2>1, <2>2, <2>3, <2>4 DEF OpFits, SessionRight
  <2>6. OpRight'
    BY <1>2, <2>1, <2>2, <2>3 DEF OpRight, SessionRight
  <2> QED
    BY <1>1, <2>1, <2>5, <2>6, QuietStep
<1>4. CASE op.pc = "ends"
  <2>1. session' = Incomplete(op.cursor) /\ op' = NoOp /\ session.gen = op.gen
    BY <1>1, <1>4 DEF Finish, Finds
  <2>2. Passed(op.cursor, Current) /\ Offset(op.cursor)
    BY <1>2, <1>4, <2>1 DEF OpRight, OpFits
  <2> QED
    BY <1>1, <2>1, <2>2, NoOpFits, SInvIncomplete
<1> QED
  BY <1>1, <1>3, <1>4

(* A page that is given up leaves at most its commit behind.                  *)
LEMMA SInvStops == ASSUME SInv, Fails \/ Cancel PROVE SInv'
<1>1. /\ UNCHANGED fixed /\ UNCHANGED catalog /\ searches' = searches
      /\ op' = NoOp \/ (op.pc # "idle" /\ op' = [op EXCEPT !.pc = "reads"])
           \/ (op.pc # "idle" /\ op' = [op EXCEPT !.pc = "reads", !.job = NoJob])
      /\ threads' = threads \/ (op.pc = "commit" /\ threads' = threads \cup {op.job})
  BY DEF Fails, Cancel, bounds
<1>2. OpFits /\ OpRight /\ ThreadsFit /\ ThreadsRight
  BY DEF SInv
<1>3. session' = session /\ Current' = Current /\ \A c : Offset(c) => Offset(c)'
  BY <1>1, Quiet
<1>4. OpFits' /\ OpRight'
  <2>1. DOMAIN NoJob = JobFields
    BY DEF NoJob, JobFields
  <2>2. CASE op' # NoOp
    <3>1. op.pc # "idle" /\ (op' = [op EXCEPT !.pc = "reads"] \/ op' = [op EXCEPT !.pc = "reads", !.job = NoJob])
      BY <1>1, <2>2
    <3>2. /\ op'.pc = "reads" /\ op'.id = op.id /\ op'.gen = op.gen /\ op'.cursor = op.cursor
          /\ op'.job \in {op.job, NoJob}
          /\ DOMAIN op' = {"pc", "id", "gen", "cursor", "stable", "taken", "page", "job"}
      BY <1>2, <3>1 DEF OpFits
    <3>3. OpFits'
      BY <1>1, <1>2, <1>3, <2>1, <3>1, <3>2 DEF OpFits
    <3>4. OpRight'
      BY <3>2 DEF OpRight
    <3> QED
      BY <3>3, <3>4
  <2> QED
    BY <2>2, NoOpFits
<1>5. threads' \subseteq threads \/ (ThreadsFit' /\ ThreadsRight')
  <2> SUFFICES ASSUME op.pc = "commit", threads' = threads \cup {op.job} PROVE ThreadsFit' /\ ThreadsRight'
    BY <1>1
  <2>1. /\ DOMAIN op.job = JobFields /\ op.job.kind = "commit" /\ op.job.gen = op.gen
        /\ op.job.gen \in 1..searches /\ op.job.id \in 1..searches
    BY <1>2 DEF OpFits
  <2>2. op.job.gen = session.gen => Pending(op.job)
    BY <1>2, <2>1 DEF OpRight
  <2>3. ThreadsFit'
    BY <1>1, <1>2, <2>1 DEF ThreadsFit
  <2>4. \A job \in threads \cup {op.job} : job.gen = session.gen /\ job.kind = "commit" => Pending(job)
    BY <1>2, <2>2 DEF ThreadsRight
  <2>5. \A job : Pending(job) => Pending(job)'
    BY <1>1, Quiet
  <2>6. \A job \in threads \cup {op.job} : job.gen = session.gen /\ job.kind = "ends"
          => Offset(job.cursor) /\ Passed(job.cursor, Current)
    BY <1>2, <2>1 DEF ThreadsRight
  <2>7. ThreadsRight'
    BY <1>3, <2>4, <2>5, <2>6 DEF ThreadsRight
  <2> QED
    BY <2>3, <2>7
<1> QED
  BY <1>1, <1>4, <1>5, QuietStep

(* The call that is left behind knows what the operation knew.               *)
LEMMA SInvCancelAgain == ASSUME SInv, CancelAgain PROVE SInv'
<1> DEFINE left == [NoJob EXCEPT !.kind = op.pc, !.id = op.id, !.gen = op.gen, !.cursor = op.cursor]
<1>1. /\ UNCHANGED fixed /\ UNCHANGED catalog /\ searches' = searches /\ op.pc \in {"reads", "ends"}
      /\ threads' = threads \cup {left} /\ op' = NoOp
  BY DEF CancelAgain, bounds
<1>2. OpFits /\ OpRight /\ ThreadsFit /\ ThreadsRight
  BY DEF SInv
<1>3. session' = session /\ Current' = Current /\ \A c : Offset(c) => Offset(c)'
  BY <1>1, Quiet
<1>4. PICK new : new = left
  OBVIOUS
<1>5. DOMAIN new = JobFields /\ new.kind = op.pc /\ new.id = op.id /\ new.gen = op.gen /\ new.cursor = op.cursor
  BY <1>4 DEF NoJob, JobFields
<1>6. new.gen \in 1..searches /\ new.id \in 1..searches
  BY <1>1, <1>2, <1>5 DEF OpFits
<1>7. threads' = threads \cup {new}
  BY <1>1, <1>4
<1> HIDE DEF left
<1>8. ThreadsFit'
  BY <1>1, <1>2, <1>5, <1>6, <1>7 DEF ThreadsFit
<1>9. ThreadsRight'
  <2>1. new.gen = session.gen /\ new.kind = "ends" => Offset(new.cursor) /\ Passed(new.cursor, Current)
    BY <1>1, <1>2, <1>5 DEF OpRight, OpFits
  <2>2. new.kind # "commit"
    BY <1>1, <1>5
  <2>3. \A job : Pending(job) => Pending(job)'
    BY <1>1, Quiet
  <2> QED
    BY <1>2, <1>3, <1>7, <2>1, <2>2, <2>3 DEF ThreadsRight
<1> QED
  BY <1>1, <1>8, <1>9, NoOpFits, QuietStep

(* A commit of the current generation leaves a session that is right, and     *)
(* every other commit that was pending is right behind it, too.               *)
LEMMA SInvWrite ==
  ASSUME SInv, NEW job, Pending(job), job.gen = session.gen, session.gen # 0, Write(job),
         UNCHANGED fixed, searches' = searches, op' = op \/ (OpFits' /\ OpRight'), threads' \subseteq threads
  PROVE  SInv'
<1>1. OpFits /\ OpRight /\ SessionRight /\ CatalogFits /\ ThreadsFit /\ ThreadsRight
  BY DEF SInv
<1>2. scope' = scope /\ limit' = limit
  BY DEF fixed
<1>3. Best(limit) \subseteq Messages /\ job.add \subseteq Best(limit)
  BY <1>1, BestUnits DEF CatalogFits, Pending
<1>4. /\ Current' = Current \cup job.add
      /\ DOMAIN session' = {"id", "gen", "status", "cursor", "exhausted", "capped"}
      /\ session'.gen = session.gen /\ session'.id = session.id
      /\ session'.cursor = job.cursor /\ session'.exhausted = job.done /\ session'.capped = job.capped
      /\ \A m \in Messages : /\ DOMAIN rows'[m] = {"gen", "sel", "que"}
                             /\ rows'[m].gen \in {0, job.gen, rows[m].gen}
  BY <1>1, <1>3, WriteIs
<1>5. Current \subseteq Current'
  BY <1>4
<1>6. /\ \A j : Pending(j) => Pending(j)'
      /\ \A c : Passed(c, Current) => Passed(c, Current')
      /\ \A c : Offset(c) => Offset(c)'
  BY <1>5, Grows
<1>7. CatalogFits'
  <2>1. \A m \in Messages : rows'[m].gen \in 0..searches
    BY <1>1, <1>4 DEF CatalogFits
  <2> QED
    BY <1>1, <1>2, <1>4, <2>1 DEF CatalogFits
<1>8. SessionRight'
  <2> DEFINE S == Current \cup job.add
  <2>1. Offset(job.cursor)' /\ S \subseteq Best(limit)
    BY <1>1, <1>3, <1>6 DEF Pending, SessionRight
  <2>2. Whole(S, S)
    BY <1>1 DEF SessionRight, Pending, Whole
  <2>3. Passed(job.cursor, S) /\ (job.done /\ ~job.capped => \A m \in Hit : Expand(m) \subseteq S)
    BY DEF Pending
  <2>4. Current' = S
    BY <1>4
  <2> HIDE DEF S
  <2>5. Offset(session.cursor)'
    BY <1>4, <2>1 DEF Offset
  <2> QED
    BY <1>2, <1>4, <2>1, <2>2, <2>3, <2>4, <2>5 DEF SessionRight
<1>9. OpFits' /\ OpRight'
  <2> SUFFICES ASSUME op' = op PROVE OpFits' /\ OpRight'
    OBVIOUS
  <2>1. OpFits'
    BY <1>1, <1>6 DEF OpFits, RemotePage, Behind
  <2>2. OpRight'
    BY <1>1, <1>4, <1>5, <1>6 DEF OpRight
  <2> QED
    BY <2>1, <2>2
<1>10. ThreadsFit' /\ ThreadsRight'
  <2>1. ThreadsFit'
    BY <1>1 DEF ThreadsFit
  <2>2. ThreadsRight'
    BY <1>1, <1>4, <1>6 DEF ThreadsRight
  <2> QED
    BY <2>1, <2>2
<1> QED
  BY <1>7, <1>8, <1>9, <1>10 DEF SInv

(* The next page starts with what this one left.                             *)
LEMMA SInvCommitPage == ASSUME SInv, CommitPage PROVE SInv'
<1> DEFINE goesOn == scope = "all" /\ ~op.job.done /\ op.job.more /\ op.taken < OpLimit
<1>1. /\ op.pc = "commit" /\ op.job.gen = session.gen /\ Write(op.job)
      /\ UNCHANGED fixed /\ searches' = searches /\ threads' = threads
      /\ op' = IF goesOn THEN [op EXCEPT !.pc = "page", !.cursor = op.job.cursor, !.job = NoJob,
                                         !.stable = {m \in Messages : rows'[m].gen = op.gen}]
               ELSE NoOp
  BY DEF CommitPage, IsCurrent, bounds
<1>2. OpFits /\ OpRight /\ SessionRight /\ CatalogFits
  BY DEF SInv
<1>3. op.job.gen = op.gen /\ session.gen # 0
  BY <1>1, <1>2 DEF OpFits
<1>4. Pending(op.job)
  BY <1>1, <1>2, <1>3 DEF OpRight
<1>5. PICK job : job = op.job
  OBVIOUS
<1>6. op.job.add \subseteq Messages
  BY <1>2, <1>4, BestUnits DEF Pending, CatalogFits
<1>7. /\ Current' = Current \cup op.job.add /\ session'.gen = session.gen
      /\ Current' = {m \in Messages : rows'[m].gen = op.job.gen}
  BY <1>1, <1>2, <1>3, <1>5, <1>6, WriteIs
<1>8. OpFits' /\ OpRight'
  <2>1. CASE goesOn
    <3>1. op' = [op EXCEPT !.pc = "page", !.cursor = op.job.cursor, !.job = NoJob,
                           !.stable = {m \in Messages : rows'[m].gen = op.gen}]
      BY <1>1, <2>1
    <3> HIDE DEF goesOn
    <3>2. /\ op'.pc = "page" /\ op'.id = op.id /\ op'.gen = op.gen /\ op'.cursor = op.job.cursor
          /\ op'.job = NoJob /\ op'.stable = {m \in Messages : rows'[m].gen = op.gen}
          /\ DOMAIN op' = {"pc", "id", "gen", "cursor", "stable", "taken", "page", "job"}
      BY <1>2, <3>1 DEF OpFits
    <3>3. op'.stable = Current'
      BY <1>3, <1>7, <3>2
    <3>4. DOMAIN NoJob = JobFields
      BY DEF NoJob, JobFields
    <3>5. Offset(op.cursor)'
      <4>1. Offset(job.cursor)
        BY <1>4, <1>5 DEF Pending
      <4>2. Offset(job.cursor)'
        BY <1>1, <1>7, <4>1, Grows
      <4> QED
        BY <1>5, <3>2, <4>2 DEF Offset
    <3>6. OpFits'
      BY <1>1, <1>2, <3>2, <3>4, <3>5 DEF OpFits
    <3>7. OpRight'
      <4> DEFINE S == Current \cup op.job.add
      <4>1. Whole(S, S) /\ Passed(op.job.cursor, S)
        BY <1>2, <1>4 DEF Pending, SessionRight, Whole
      <4>2. Current' = S
        BY <1>7
      <4> HIDE DEF S
      <4> QED
        BY <3>2, <3>3, <4>1, <4>2 DEF OpRight
    <3> QED
      BY <3>6, <3>7
  <2>2. CASE ~goesOn
    <3>1. op' = NoOp
      BY <1>1, <2>2
    <3> QED
      BY <3>1, NoOpFits
  <2> QED
    BY <2>1, <2>2
<1>9. threads' \subseteq threads
  BY <1>1
<1> QED
  BY <1>1, <1>3, <1>4, <1>5, <1>8, <1>9, SInvWrite

(* A call that was left writes what was right when it was left, or nothing.    *)
LEMMA SInvThreads == ASSUME SInv, Threads PROVE SInv'
<1> PICK job \in threads : ThreadRuns(job)
  BY DEF Threads
<1>1. UNCHANGED fixed /\ op' = op /\ searches' = searches
  BY DEF ThreadRuns, bounds
<1>2. SessionRight /\ CatalogFits /\ ThreadsFit /\ ThreadsRight
  BY DEF SInv
<1>3. /\ DOMAIN job = JobFields /\ job.kind \in {"commit", "reads", "ends"}
      /\ job.gen \in 1..searches /\ job.id \in 1..searches /\ job.gen # 0
  BY <1>2 DEF ThreadsFit, CatalogFits
<1> DEFINE read == [job EXCEPT !.kind = "ends", !.gen = session.gen, !.cursor = session.cursor]
<1>4. \/ job.kind = "commit" /\ job.gen = session.gen /\ Write(job) /\ threads' = threads \ {job}
      \/ job.kind = "reads" /\ session.id = job.id /\ threads' = (threads \ {job}) \cup {read} /\ UNCHANGED catalog
      \/ /\ job.kind = "ends" /\ job.gen = session.gen /\ session' = Incomplete(job.cursor) /\ rows' = rows
         /\ threads' = threads \ {job}
      \/ threads' = threads \ {job} /\ UNCHANGED catalog
  <2> DEFINE C == job.kind = "commit" /\ IsCurrent(job)
             R == job.kind = "reads" /\ Finds(job, "reads")
             E == job.kind = "ends" /\ Finds(job, "ends")
  <2>1. CASE C
    BY <1>3, <2>1 DEF ThreadRuns, IsCurrent
  <2>2. CASE R
    BY <1>3, <2>2 DEF ThreadRuns, Finds
  <2>3. CASE E
    BY <1>3, <2>3 DEF ThreadRuns, Finds
  <2>4. CASE ~C /\ ~R /\ ~E
    BY <2>4 DEF ThreadRuns
  <2> QED
    BY <2>1, <2>2, <2>3, <2>4
<1> HIDE DEF read
<1>5. CASE job.kind = "commit" /\ job.gen = session.gen /\ Write(job) /\ threads' = threads \ {job}
  <2>1. Pending(job) /\ session.gen # 0 /\ threads' \subseteq threads
    BY <1>2, <1>3, <1>5 DEF ThreadsRight
  <2> QED
    BY <1>1, <1>5, <2>1, SInvWrite
<1>6. CASE job.kind = "ends" /\ job.gen = session.gen /\ session' = Incomplete(job.cursor) /\ rows' = rows
           /\ threads' = threads \ {job}
  <2>1. Offset(job.cursor) /\ Passed(job.cursor, Current) /\ threads' \subseteq threads
    BY <1>2, <1>6 DEF ThreadsRight
  <2> QED
    BY <1>1, <1>6, <2>1, SInvIncomplete
<1>7. CASE job.kind = "reads" /\ session.id = job.id /\ threads' = (threads \ {job}) \cup {read} /\ UNCHANGED catalog
  <2>1. session' = session /\ Current' = Current /\ \A c : Offset(c) => Offset(c)'
    BY <1>1, <1>7, Quiet
  <2>2. PICK new : new = read
    OBVIOUS
  <2>3. DOMAIN new = JobFields /\ new.kind = "ends" /\ new.id = job.id /\ new.gen = session.gen
        /\ new.cursor = session.cursor
    BY <1>3, <2>2 DEF read, JobFields
  <2>4. new.gen \in 1..searches
    BY <1>2, <1>3, <1>7, <2>3 DEF CatalogFits
  <2>5. threads' = (threads \ {job}) \cup {new}
    BY <1>7, <2>2
  <2>6. ThreadsFit'
    BY <1>1, <1>2, <1>3, <2>3, <2>4, <2>5 DEF ThreadsFit
  <2>7. \A j : Pending(j) => Pending(j)'
    BY <1>1, <1>7, Quiet
  <2>8. ThreadsRight'
    BY <1>2, <2>1, <2>3, <2>5, <2>7 DEF ThreadsRight, SessionRight
  <2> QED
    BY <1>1, <1>7, <2>6, <2>8, QuietStep
<1>8. CASE threads' = threads \ {job} /\ UNCHANGED catalog
  <2>1. threads' \subseteq threads
    BY <1>8
  <2> QED
    BY <1>1, <1>8, <2>1, QuietStep
<1> QED
  BY <1>4, <1>5, <1>6, <1>7, <1>8

(* A tick, a queued row and a recovery are nothing to the results.            *)
LEMMA SInvMarks ==
  ASSUME SInv, UNCHANGED fixed, searches' = searches, op' = op, threads' = threads,
         DOMAIN session' = {"id", "gen", "status", "cursor", "exhausted", "capped"},
         session'.id = session.id, session'.gen = session.gen, session'.cursor = session.cursor,
         session'.exhausted = session.exhausted, session'.capped = session.capped,
         \A m \in Messages : DOMAIN rows'[m] = {"gen", "sel", "que"} /\ rows'[m].gen = rows[m].gen
  PROVE  SInv'
<1>1. OpFits /\ OpRight /\ SessionRight /\ CatalogFits /\ ThreadsFit /\ ThreadsRight
  BY DEF SInv
<1>2. scope' = scope /\ limit' = limit
  BY DEF fixed
<1>3. Current' = Current
  BY DEF Current
<1>4. /\ \A job : Pending(job) => Pending(job)'
      /\ \A d : Offset(d) => Offset(d)'
  BY <1>3, Grows
<1>5. CatalogFits'
  BY <1>1, <1>2 DEF CatalogFits
<1>6. SessionRight'
  BY <1>1, <1>2, <1>3, <1>4 DEF SessionRight
<1>7. OpFits'
  BY <1>1, <1>4 DEF OpFits, RemotePage, Behind
<1>8. OpRight'
  BY <1>1, <1>3, <1>4 DEF OpRight
<1>9. ThreadsFit' /\ ThreadsRight'
  <2>1. ThreadsFit'
    BY <1>1 DEF ThreadsFit
  <2>2. ThreadsRight'
    BY <1>1, <1>3, <1>4 DEF ThreadsRight
  <2> QED
    BY <2>1, <2>2
<1> QED
  BY <1>5, <1>6, <1>7, <1>8, <1>9 DEF SInv

(* What becomes of the rows when only ticks and queued marks are set.         *)
LEMMA SInvUser == ASSUME SInv, PersistSelection \/ FinalizeQueue \/ Activate PROVE SInv'
<1>1. CatalogFits
  BY DEF SInv
<1>2. /\ DOMAIN session = {"id", "gen", "status", "cursor", "exhausted", "capped"}
      /\ \A m \in Messages : DOMAIN rows[m] = {"gen", "sel", "que"}
  BY <1>1 DEF CatalogFits
<1>3. UNCHANGED fixed /\ searches' = searches /\ op' = op /\ threads' = threads
  BY DEF PersistSelection, FinalizeQueue, Activate, bounds
<1>4. CASE PersistSelection
  <2>1. \A m \in Messages : rows'[m] = rows[m] \/ rows'[m] = [rows[m] EXCEPT !.sel = Chosen(Head(intents), m)]
    BY <1>4 DEF PersistSelection
  <2>2. \A m \in Messages : DOMAIN rows'[m] = {"gen", "sel", "que"} /\ rows'[m].gen = rows[m].gen
    BY <1>2, <2>1
  <2>3. session' = session
    BY <1>4 DEF PersistSelection
  <2> QED
    BY <1>2, <1>3, <2>2, <2>3, SInvMarks
<1>5. CASE FinalizeQueue
  <2>1. \A m \in Messages : rows'[m] = rows[m] \/ rows'[m] = [rows[m] EXCEPT !.sel = FALSE, !.que = TRUE]
    BY <1>5 DEF FinalizeQueue
  <2>2. \A m \in Messages : DOMAIN rows'[m] = {"gen", "sel", "que"} /\ rows'[m].gen = rows[m].gen
    BY <1>2, <2>1
  <2>3. session' = session
    BY <1>5 DEF FinalizeQueue
  <2> QED
    BY <1>2, <1>3, <2>2, <2>3, SInvMarks
<1>6. CASE Activate
  <2>1. session' = session \/ session' = [session EXCEPT !.status = "incomplete"]
    BY <1>6 DEF Activate, Recovered
  <2>2. rows' = rows
    BY <1>6 DEF Activate
  <2>3. /\ DOMAIN session' = {"id", "gen", "status", "cursor", "exhausted", "capped"}
        /\ session'.id = session.id /\ session'.gen = session.gen /\ session'.cursor = session.cursor
        /\ session'.exhausted = session.exhausted /\ session'.capped = session.capped
    BY <1>2, <2>1
  <2> QED
    BY <1>2, <1>3, <2>2, <2>3, SInvMarks
<1> QED
  BY <1>4, <1>5, <1>6

(* Every step of a search keeps what is known of its offsets.                *)
LEMMA SInvNext == SInv /\ [Next]_vars => SInv'
<1> SUFFICES ASSUME SInv, [Next]_vars PROVE SInv'
  OBVIOUS
<1>1. CASE Begin \/ Delete \/ LoadMore \/ List \/ Fetch
  BY <1>1, SInvBegin, SInvDelete, SInvLoadMore, SInvList, SInvFetch
<1>2. CASE ExpandAlbums \/ CommitPage \/ Finish \/ Threads
  BY <1>2, SInvExpandAlbums, SInvCommitPage, SInvFinish, SInvThreads
<1>3. CASE Fails \/ Cancel \/ CancelAgain
  BY <1>3, SInvStops, SInvCancelAgain
<1>4. CASE PersistSelection \/ FinalizeQueue \/ Activate
  BY <1>4, SInvUser
<1>5. CASE Breaks
  <2>1. UNCHANGED fixed /\ UNCHANGED catalog /\ searches' = searches /\ threads' \subseteq threads /\ op' = NoOp
    BY <1>5 DEF Breaks, bounds
  <2> QED
    BY <2>1, NoOpFits, QuietStep
<1>6. CASE Restart
  <2>1. UNCHANGED fixed /\ UNCHANGED catalog /\ searches' = searches /\ threads' \subseteq threads /\ op' = NoOp
    BY <1>6 DEF Restart
  <2> QED
    BY <2>1, NoOpFits, QuietStep
<1>7. CASE \/ GoOffline \/ PrepareDownload \/ CommitSelected \/ UNCHANGED vars
           \/ \E m \in {0} \cup Messages, w \in {"on", "off", "all", "invert"} : Choose(m, w)
  <2>1. UNCHANGED fixed /\ UNCHANGED catalog /\ searches' = searches /\ threads' = threads /\ op' = op
    BY <1>7 DEF GoOffline, PrepareDownload, CommitSelected, Choose, vars, bounds
  <2> QED
    BY <2>1, QuietStep
<1> QED
  BY <1>1, <1>2, <1>3, <1>4, <1>5, <1>6, <1>7 DEF Next, Operation, User

(* A hit is a result with its whole album once the search is behind it, and   *)
(* all results belong to the best that fit.                                   *)
LEMMA SInvIsExact == SInv => SearchIsExact
<1> SUFFICES ASSUME SInv PROVE SearchIsExact
  OBVIOUS
<1>1. CatalogFits /\ SessionRight
  BY DEF SInv
<1>2. NothingSkipped
  BY <1>1 DEF NothingSkipped, SessionRight, Passed, Hit
<1>3. Cardinality(Current) <= limit
  <2>1. /\ Best(limit) \in SUBSET Messages /\ Cardinality(Best(limit)) <= limit
        /\ Current \in SUBSET Messages /\ Current \subseteq Best(limit) /\ limit \in Nat
    BY <1>1, BestUnits DEF CatalogFits, SessionRight, Current
  <2>2. Cardinality(Current) <= Cardinality(Best(limit))
    BY <2>1, Sizes
  <2>3. Cardinality(Current) \in Nat /\ Cardinality(Best(limit)) \in Nat
    BY <2>1, MessagesFinite
  <2> QED
    BY <2>1, <2>2, <2>3
<1>4. \A a \in Albums : a \subseteq Current \/ a \cap Current = {}
  BY <1>1 DEF SessionRight, Whole
<1> QED
  BY <1>2, <1>3, <1>4 DEF SearchIsExact, LimitKept

(* Nothing that the server lists is skipped and no limit is passed, whichever *)
(* pages are cut, fail, are cancelled, repeated or written late by their       *)
(* threads, in how many searches, and whatever the albums and limits are.      *)
THEOREM SearchShowsAll == Spec => []SearchIsExact
<1>1. Spec => []SInv
  BY SInvInit, SInvNext, PTL DEF Spec
<1> QED
  BY <1>1, SInvIsExact, PTL
=============================================================================
