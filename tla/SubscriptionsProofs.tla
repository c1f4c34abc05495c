------------------------ MODULE SubscriptionsProofs ------------------------
(***************************************************************************)
(* For any rules, matchers, albums, messages, edits, failures and stops:   *)
(* no medium is put into a task twice, and none of the messages that a     *)
(* rule's cursor has passed is left out.                                   *)
(***************************************************************************)
EXTENDS Subscriptions, FiniteSetTheorems, WellFoundedInduction, TLAPS

(* The counters of tasks never leave 0 and 1.                              *)
IInv == queued \in [Media -> {0, 1}]

(* Every step but the commit of a task leaves the counters alone, and that *)
(* one counts only what is in no task.                                     *)
LEMMA NextIInv == IInv /\ [Next]_vars => IInv'
<1> SUFFICES ASSUME IInv, [Next]_vars
             PROVE  IInv'
  OBVIOUS
<1>1. CASE RunCommit
  BY <1>1 DEF IInv, RunCommit, Fresh
<1>2. CASE UNCHANGED queued
  BY <1>2 DEF IInv
<1>3. Next /\ ~RunCommit => UNCHANGED queued
  <2>1. Service /\ ~RunCommit => UNCHANGED queued
    BY DEF Service, RunBase, RunLatest, RunPage, Begin, RunReady, RunAdvance, RunRejected, RunFailsWith
  <2>2. Editor => UNCHANGED queued
    BY DEF Editor, EditReads, EditSaves
  <2>3. World => UNCHANGED queued
    BY DEF World, Post, GoOffline, Restart, Shutdown, Activate, DeleteMessage
  <2>4. User => UNCHANGED queued
    BY DEF User, SmallEdit, SetEnabled, RunNow, Delete, Edit
  <2>5. ASSUME NEW r \in Rules, Tick(r) \/ EditFails(r) \/ RunBreaks(r) \/ Refused(r) \/ Activated
        PROVE  UNCHANGED queued
    BY <2>5 DEF Tick, EditFails, RunBreaks, RunFailsWith, Refused, Activated
  <2>6. Activated => UNCHANGED queued
    BY DEF Activated
  <2> QED
    BY <2>1, <2>2, <2>3, <2>4, <2>5, <2>6 DEF Next
<1> QED
  BY <1>1, <1>2, <1>3 DEF vars

(* A stop between the commit of a task and the cursor's reads the messages *)
(* again without a second download (subscription_service.py, planner.py).  *)
THEOREM OnceOnly == Spec => []QueuedOnce
<1>1. Init => IInv
  BY DEF Init, IInv
<1>2. IInv => QueuedOnce
  BY DEF IInv, QueuedOnce
<1> QED
  BY <1>1, <1>2, NextIInv, PTL DEF Spec
-----------------------------------------------------------------------------
(* What a run has read it has queued before the cursor moves.              *)
Shapes ==
  /\ rules \in [Rules -> Row] /\ run \in Work /\ edit \in Work
  /\ queued \in [Media -> Nat] /\ loop \in {"off", "on", "dead", "closed"}
  /\ posted \in 0..MaxPosts /\ start \in [Rules -> Ids] /\ crossed \subseteq Rules

LineIsDue ==
  /\ \A p \in line : p \in Rules \X Rules /\ p[1] # p[2] /\ IsDue(p[1]) /\ IsDue(p[2])
  /\ \A p, q \in line : p[2] = q[1] => <<p[1], q[2]>> \in line

(* A run and an edit are those of one rule and know its matcher.           *)
Owned(w) == /\ w.pc = "idle" => w = NoRun
            /\ w.pc # "idle" => w.copy.matcher \in Matchers /\ \E r \in Rules : w.rule = {r}
            /\ w.pc \in {"save", "ready", "page", "commit", "advance"} => w.snap # None
            /\ w.pc \in {"base", "ready"} => w.page = {}

Real == \A r \in Rules : /\ Exists(r) => rules[r].matcher \in Matchers
                         /\ ~Exists(r) => ~rules[r].enabled /\ rules[r].due = "never"

(* A run that reads has a cursor, and an edit none; a rule that is edited  *)
(* in its run is crossed.                                                   *)
Reading == {"latest", "page", "commit", "advance"}
Editing == /\ edit.pc \in {"idle", "base", "save"}
           /\ run.pc # "save"
           /\ edit.copy.cursor = None
           /\ run.pc \in Reading => run.copy.cursor # None
           /\ edit.pc # "idle" /\ edit.rule = run.rule => edit.rule \subseteq crossed

(* The messages that the run is about to put behind the cursor.            *)
Ahead == (run.copy.cursor + 1)..Processed \ gone

InStep(r) ==
  /\ rules[r].matcher = run.copy.matcher
  /\ run.pc \in Reading => rules[r].cursor = run.copy.cursor
  /\ run.pc = "commit" => Ahead \subseteq run.page
  /\ run.pc = "advance" => \A m \in Ahead : \A x \in Hits[run.copy.matcher][m] : queued[x] > 0

Passed(r) == \A m \in (start[r] + 1)..rules[r].cursor \ gone :
               \A x \in Hits[rules[r].matcher][m] : queued[x] > 0

(* The inductive invariant.                                                *)
Kept(r) == /\ run.rule = {r} => InStep(r)
           /\ start[r] # None => Passed(r)
ReadInv == /\ Shapes /\ LineIsDue /\ Owned(run) /\ Owned(edit) /\ Real /\ Editing
           /\ \A r \in Rules : Exists(r) /\ r \notin crossed => Kept(r)

(* The greatest of the messages is one of them.                            *)
LEMMA Largest == ASSUME NEW S \in SUBSET (0..MaxPosts), S # {}
                 PROVE  Max(S) \in S /\ \A x \in S : x <= Max(S)
<1> DEFINE T == {MaxPosts - x : x \in S}
<1>0. \A x \in S : x \in Nat /\ MaxPosts - x \in Nat
  <2>1. \A x \in S : x \in 0..MaxPosts
    OBVIOUS
  <2> QED
    BY <2>1, DialogAssumption
<1>1. T \subseteq Nat /\ T # {}
  BY <1>0
<1>2. PICK t \in T : \A y \in T : <<y, t>> \notin OpToRel(<, Nat)
  BY <1>1, NatLessThanWellFounded, WFMin
<1>3. ASSUME NEW y \in T
      PROVE  t <= y
  <2>1. SUFFICES ASSUME y < t
                 PROVE  FALSE
    <3>1. t \in Nat /\ y \in Nat
      BY <1>1
    <3> QED
      BY <3>1, <2>1
  <2>2. y \in Nat /\ t \in Nat
    BY <1>1
  <2>3. <<y, t>> \in OpToRel(<, Nat)
    BY <2>1, <2>2, Zenon DEF OpToRel
  <2> QED
    BY <2>3, <1>2
<1>4. PICK g \in S : t = MaxPosts - g
  OBVIOUS
<1>5. ASSUME NEW x \in S
      PROVE  g >= x
  <2>1. t <= MaxPosts - x
    BY <1>3
  <2> QED
    BY <2>1, <1>4, <1>0, DialogAssumption
<1> HIDE DEF T
<1>6. Max(S) \in S /\ \A x \in S : Max(S) >= x
  BY <1>5 DEF Max
<1> QED
  BY <1>6, <1>0

(* The smaller of the history's cutoff and the newest message.             *)
LEMMA Smaller == ASSUME NEW n \in Nat PROVE Min({Old, n}) \in Nat /\ Min({Old, n}) <= n
<1>1. \E x \in {Old, n} : \A y \in {Old, n} : x <= y
  BY DialogAssumption
<1>2. Min({Old, n}) \in {Old, n} /\ \A y \in {Old, n} : Min({Old, n}) <= y
  BY <1>1 DEF Min
<1> QED
  BY <1>2, DialogAssumption

LEMMA LatestIsPosted == ASSUME posted \in 0..MaxPosts PROVE Latest \in 0..MaxPosts
<1>1. {0} \cup (1..posted \ gone) \in SUBSET (0..MaxPosts)
  BY DialogAssumption
<1> QED
  BY <1>1, Largest DEF Latest

LEMMA PostsAreFinite == IsFiniteSet(1..MaxPosts)
BY FS_Interval, DialogAssumption

(* A page holds the oldest of the unread messages: what is older than one  *)
(* of them is in it, and a page that is not full holds all.                *)
LEMMA Oldest == ASSUME NEW U \in SUBSET (1..MaxPosts), NEW P,
                       P = {m \in U : Cardinality({n \in U : n < m}) < PageLimit}
                PROVE  /\ \A p \in P, m \in U : m <= p => m \in P
                       /\ Cardinality(P) < PageLimit => P = U
<1> DEFINE Older(m) == {n \in U : n < m}
<1>0. \A m \in U : m \in Nat
  <2>1. \A m \in U : m \in 1..MaxPosts
    OBVIOUS
  <2> QED
    BY <2>1, DialogAssumption
<1>1. IsFiniteSet(U)
  BY PostsAreFinite, FS_Subset
<1>2. ASSUME NEW A \in SUBSET U, NEW B \in SUBSET U, A \subseteq B
      PROVE  Cardinality(A) \in Nat /\ Cardinality(B) \in Nat /\ Cardinality(A) <= Cardinality(B)
  <2>1. IsFiniteSet(A) /\ IsFiniteSet(B)
    BY <1>1, FS_Subset
  <2> QED
    BY <2>1, <1>2, FS_Subset, FS_CardinalityType
<1>3. ASSUME NEW p \in P, NEW m \in U, m <= p
      PROVE  m \in P
  <2>1. Older(m) \subseteq Older(p)
    <3>1. \A n \in U : n < m => n < p
      BY <1>0, <1>3
    <3> QED
      BY <3>1
  <2>2. Cardinality(Older(m)) <= Cardinality(Older(p)) /\ Cardinality(Older(m)) \in Nat
        /\ Cardinality(Older(p)) \in Nat
    BY <2>1, <1>2
  <2> QED
    BY <2>2, DialogAssumption
<1>4. ASSUME Cardinality(P) < PageLimit, P # U
      PROVE  FALSE
  <2> DEFINE T == U \ P
  <2>1. T \subseteq Nat /\ T # {}
    BY <1>4, <1>0
  <2>2. PICK t \in T : \A y \in T : <<y, t>> \notin OpToRel(<, Nat)
    BY <2>1, NatLessThanWellFounded, WFMin
  <2>3. ASSUME NEW n \in Older(t), n \notin P
        PROVE  FALSE
    <3>1. n \in Nat /\ t \in Nat /\ n < t /\ n \in T
      BY <2>1, <2>3
    <3>2. <<n, t>> \in OpToRel(<, Nat)
      BY <3>1, Zenon DEF OpToRel
    <3> QED
      BY <3>1, <3>2, <2>2
  <2>4. Older(t) \subseteq P
    BY <2>3
  <2>5. Cardinality(Older(t)) <= Cardinality(P) /\ Cardinality(P) \in Nat
        /\ Cardinality(Older(t)) \in Nat
    BY <2>4, <1>2
  <2> QED
    BY <2>5, <1>4, DialogAssumption
<1> QED
  BY <1>3, <1>4
-----------------------------------------------------------------------------
LEMMA Empty == /\ None \in Ids /\ NoRule \in Row /\ NoRun \in Work
               /\ 0..MaxPosts \subseteq Ids /\ \A n \in 0..MaxPosts : n # None
<1>1. None \in Ids /\ 0..MaxPosts \subseteq Ids /\ \A n \in 0..MaxPosts : n # None
  BY DialogAssumption DEF Ids, None
<1>2. NoRule \in Row
  BY <1>1 DEF NoRule, Row
<1> QED
  BY <1>1, <1>2 DEF NoRun, Work

LEMMA ReadInvInit == Init => ReadInv
<1> SUFFICES ASSUME Init
             PROVE  ReadInv
  OBVIOUS
<1> USE DialogAssumption DEF Init, NoRun, NoRule, None
<1>1. NoRun \in Work
  BY DEF Work, Row, Ids
<1>2. Shapes
  BY <1>1 DEF Shapes, Row, Ids
<1>3. LineIsDue /\ Real
  BY DEF LineIsDue, Real, Exists
<1>4. Owned(run) /\ Owned(edit) /\ Editing
  BY DEF Owned, Editing, Reading
<1>5. \A r \in Rules : ~Exists(r)
  BY DEF Exists
<1> QED
  BY <1>2, <1>3, <1>4, <1>5 DEF ReadInv

(* Rules that leave the line, or go to its end, leave it an order.         *)
LEMMA Lined == ASSUME LineIsDue, NEW S \in SUBSET Rules, NEW T, T = Behind(S) \/ T = {},
                      NEW L, L = Without(S) \cup T
               PROVE  \A p, q \in L : p[2] = q[1] => <<p[1], q[2]>> \in L
<1> SUFFICES ASSUME NEW p \in L, NEW q \in L, p[2] = q[1]
             PROVE  <<p[1], q[2]>> \in L
  OBVIOUS
<1>1. CASE p \in Without(S) /\ q \in Without(S)
  <2>1. p \in line /\ q \in line /\ p[1] \notin S /\ q[2] \notin S
    BY <1>1 DEF Without
  <2>2. <<p[1], q[2]>> \in line
    BY <2>1 DEF LineIsDue
  <2> QED
    BY <2>1, <2>2 DEF Without
<1>2. CASE p \in Without(S) /\ q \in Behind(S) /\ T = Behind(S)
  <2>1. p \in line /\ p[1] \notin S /\ q[2] \in S
    BY <1>2 DEF Without, Behind
  <2>2. p[1] \in Rules /\ IsDue(p[1])
    BY <2>1 DEF LineIsDue
  <2> QED
    BY <1>2, <2>1, <2>2 DEF Behind
<1>3. CASE p \in Behind(S)
  <2>1. q[1] \in S
    BY <1>3 DEF Behind
  <2> QED
    BY <2>1 DEF Without, Behind
<1> QED
  BY <1>1, <1>2, <1>3

(* A row is written: the other rows stay, and the line is one of due rules.*)
LEMMA Written == ASSUME NEW r \in Rules, NEW row \in Row, Shapes, LineIsDue, Put(r, row)
                 PROVE  /\ rules' \in [Rules -> Row] /\ rules'[r] = row
                        /\ \A q \in Rules \ {r} : rules'[q] = rules[q]
                        /\ LineIsDue'
<1>1. rules' \in [Rules -> Row] /\ rules'[r] = row /\ \A q \in Rules \ {r} : rules'[q] = rules[q]
  BY DEF Put, Shapes
<1>2. \A p \in line' : p \in Rules \X Rules /\ p[1] # p[2] /\ IsDue(p[1])' /\ IsDue(p[2])'
  BY <1>1 DEF Put, LineIsDue, IsDue, Without, Behind
<1>3. \A p, q \in line' : p[2] = q[1] => <<p[1], q[2]>> \in line'
  <2>1. line' = Without({r}) \cup (IF row.due = "now" THEN Behind({r}) ELSE {})
    BY DEF Put
  <2> QED
    BY <2>1, Lined
<1> QED
  BY <1>1, <1>2, <1>3 DEF LineIsDue

LEMMA Waits == ASSUME NEW row \in Row, NEW t, t = [row EXCEPT !.state = "waiting", !.due = "now"]
               PROVE  /\ t \in Row /\ t.matcher = row.matcher /\ t.cursor = row.cursor
                      /\ t.enabled = row.enabled /\ t.state = "waiting" /\ t.due = "now"
BY DEF Row

(* Rules become due together.                                              *)
LEMMA MadeDue == ASSUME NEW states, Shapes, LineIsDue, Real, MakeDue(states)
                 PROVE  /\ rules' \in [Rules -> Row] /\ LineIsDue' /\ Real'
                        /\ \A r \in Rules : /\ Exists(r)' => Exists(r)
                                            /\ rules'[r].matcher = rules[r].matcher
                                            /\ rules'[r].cursor = rules[r].cursor
<1> DEFINE S == {r \in Rules : rules[r].enabled /\ rules[r].state \in states}
<1>1. \A r \in Rules : rules[r] \in Row
  BY DEF Shapes
<1>2. /\ \A r \in S : rules'[r] = [rules[r] EXCEPT !.state = "waiting", !.due = "now"]
      /\ \A r \in Rules \ S : rules'[r] = rules[r]
      /\ rules' = [r \in Rules |-> rules'[r]]
  BY DEF MakeDue
<1>3. line' = Without(S) \cup Behind(S)
  BY DEF MakeDue
<1>4. S \in SUBSET Rules /\ \A r \in S : Exists(r)
  BY DEF Real
<1> HIDE DEF S
<1>5. ASSUME NEW r \in S
      PROVE  /\ rules'[r] \in Row /\ rules'[r].state = "waiting" /\ rules'[r].due = "now"
             /\ rules'[r].matcher = rules[r].matcher /\ rules'[r].cursor = rules[r].cursor
             /\ rules'[r].enabled = rules[r].enabled
  <2>1. rules[r] \in Row /\ rules'[r] = [rules[r] EXCEPT !.state = "waiting", !.due = "now"]
    BY <1>1, <1>2, <1>4
  <2> QED
    BY <2>1, Waits
<1>6. rules' \in [Rules -> Row]
  BY <1>1, <1>2, <1>5
<1>7. \A r \in Rules : Exists(r)' <=> Exists(r)
  BY <1>2, <1>4, <1>5 DEF Exists
<1>8. Real'
  BY <1>2, <1>4, <1>5, <1>7 DEF Real
<1>9. \A p \in line' : p \in Rules \X Rules /\ p[1] # p[2] /\ IsDue(p[1])' /\ IsDue(p[2])'
  BY <1>2, <1>3, <1>4, <1>5 DEF LineIsDue, Without, Behind, IsDue
<1>10. \A p, q \in line' : p[2] = q[1] => <<p[1], q[2]>> \in line'
  BY <1>3, <1>4, Lined
<1> QED
  BY <1>2, <1>5, <1>6, <1>7, <1>8, <1>9, <1>10 DEF LineIsDue

(* A step that touches neither the cursor nor the matcher of a rule, and   *)
(* at most ends the run or the edit.                                       *)
LEMMA Gentle ==
  ASSUME ReadInv, rules' \in [Rules -> Row], LineIsDue', Real', UNCHANGED <<queued, start, crossed>>,
         posted' \in 0..MaxPosts, gone \subseteq gone', loop' \in {"off", "on", "dead", "closed"},
         run' = run \/ run' = NoRun, edit' = edit \/ edit' = NoRun,
         \A r \in Rules : Exists(r)' => /\ Exists(r)
                                        /\ rules'[r].matcher = rules[r].matcher
                                        /\ rules'[r].cursor = rules[r].cursor
  PROVE  ReadInv'
<1> USE DEF ReadInv
<1>1. NoRun \in Work /\ NoRun.pc = "idle" /\ NoRun.copy.cursor = None /\ NoRun.rule = {}
  BY DialogAssumption DEF NoRun, NoRule, Work, Row, Ids, None
<1>2. Shapes'
  BY <1>1 DEF Shapes
<1>3. Owned(run)' /\ Owned(edit)' /\ Editing'
  BY <1>1 DEF Owned, Editing, Reading
<1>4. ASSUME NEW r \in Rules, Exists(r)', r \notin crossed'
      PROVE  Kept(r)'
  <2>1. Kept(r) /\ r \notin crossed /\ Exists(r)
    BY <1>4
  <2>2. Passed(r) => Passed(r)'
    BY <1>4 DEF Passed
  <2>3. CASE run' = run
    <3>1. (Ahead \subseteq run.page => Ahead' \subseteq run'.page) /\ Ahead' \subseteq Ahead
      BY <2>3 DEF Ahead, Processed, HasMore
    <3>2. InStep(r) => InStep(r)'
      BY <2>3, <1>4, <3>1 DEF InStep
    <3> QED
      BY <2>1, <2>2, <2>3, <3>2 DEF Kept
  <2>4. CASE run' = NoRun
    BY <2>1, <2>2, <2>4, <1>1 DEF Kept
  <2> QED
    BY <2>3, <2>4
<1> QED
  BY <1>2, <1>3, <1>4

LEMMA Retouched ==
  ASSUME ReadInv, UNCHANGED <<dialog, queued, past>>, loop' \in {"off", "on", "dead", "closed"},
         run' = run \/ run' = NoRun, edit' = edit \/ edit' = NoRun,
         NEW r \in Rules, NEW row \in Row, Put(r, row), Exists(r), row.state # "none",
         row.matcher = rules[r].matcher, row.cursor = rules[r].cursor
  PROVE  ReadInv'
<1>1. /\ rules' \in [Rules -> Row] /\ rules'[r] = row /\ LineIsDue'
      /\ \A q \in Rules \ {r} : rules'[q] = rules[q]
  BY Written DEF ReadInv
<1>2. Exists(r)' /\ \A q \in Rules \ {r} : Exists(q)' <=> Exists(q)
  BY <1>1 DEF Exists
<1>3. Real'
  BY <1>1, <1>2 DEF ReadInv, Real
<1>4. \A q \in Rules : Exists(q)' => /\ Exists(q)
                                     /\ rules'[q].matcher = rules[q].matcher
                                     /\ rules'[q].cursor = rules[q].cursor
  BY <1>1, <1>2
<1>5. UNCHANGED <<posted, gone, queued, start, crossed>> /\ posted \in 0..MaxPosts
  BY DEF dialog, past, ReadInv, Shapes
<1> QED
  BY <1>1, <1>3, <1>4, <1>5, Gentle

(* No row is written.                                                      *)
LEMMA Untouched ==
  ASSUME ReadInv, UNCHANGED <<rules, line, queued, past>>, loop' \in {"off", "on", "dead", "closed"},
         run' = run \/ run' = NoRun, edit' = edit \/ edit' = NoRun,
         posted' \in 0..MaxPosts, gone \subseteq gone'
  PROVE  ReadInv'
<1>1. rules' \in [Rules -> Row] /\ LineIsDue' /\ Real'
  BY DEF ReadInv, Shapes, LineIsDue, Real, Exists, IsDue
<1>2. UNCHANGED <<queued, start, crossed>>
  BY DEF past
<1>3. \A q \in Rules : Exists(q)' => /\ Exists(q)
                                     /\ rules'[q].matcher = rules[q].matcher
                                     /\ rules'[q].cursor = rules[q].cursor
  BY DEF Exists
<1> QED
  BY <1>1, <1>2, <1>3, Gentle

LEMMA PostKeeps == ReadInv /\ Post => ReadInv'
BY Untouched, DialogAssumption DEF Post, ReadInv, Shapes, past

LEMMA DeleteMessageKeeps == ASSUME ReadInv, NEW m, DeleteMessage(m) PROVE ReadInv'
BY Untouched DEF DeleteMessage, ReadInv, Shapes, past

LEMMA GoOfflineKeeps == ReadInv /\ GoOffline => ReadInv'
BY Untouched DEF GoOffline, ReadInv, Shapes, past, dialog

LEMMA ActivatedKeeps == ReadInv /\ Activated => ReadInv'
BY Untouched DEF Activated, ReadInv, Shapes, past, dialog

LEMMA RunNowKeeps == ASSUME ReadInv, NEW r, RunNow(r) PROVE ReadInv'
BY Untouched DEF RunNow, ReadInv, Shapes, past, dialog

LEMMA StutterKeeps == ReadInv /\ UNCHANGED vars => ReadInv'
BY Untouched DEF vars, ReadInv, Shapes, past, dialog

LEMMA MakeDueKeeps ==
  ASSUME ReadInv, NEW states, MakeDue(states), UNCHANGED <<dialog, queued, past>>,
         loop' \in {"off", "on", "dead", "closed"},
         run' = run \/ run' = NoRun, edit' = edit \/ edit' = NoRun
  PROVE  ReadInv'
<1>1. UNCHANGED <<posted, gone, queued, start, crossed>> /\ posted \in 0..MaxPosts
  BY DEF dialog, past, ReadInv, Shapes
<1>2. Shapes /\ LineIsDue /\ Real
  BY DEF ReadInv
<1> QED
  BY <1>1, <1>2, MadeDue, Gentle

LEMMA ActivateKeeps == ASSUME ReadInv, NEW a, Activate(a) PROVE ReadInv'
<1>1. UNCHANGED <<dialog, queued, run, edit, loop, past>> /\ loop \in {"off", "on", "dead", "closed"}
  BY DEF Activate, ReadInv, Shapes
<1>2. CASE a = "mine"
  BY <1>1, <1>2, MakeDueKeeps DEF Activate
<1>3. CASE a # "mine"
  BY <1>1, <1>3, Untouched DEF Activate, dialog, ReadInv, Shapes
<1> QED
  BY <1>2, <1>3

LEMMA RestartKeeps == ReadInv /\ Restart => ReadInv'
BY MakeDueKeeps DEF Restart

LEMMA TickKeeps == ASSUME ReadInv, NEW r \in Rules, Tick(r) PROVE ReadInv'
<1> DEFINE row == [rules[r] EXCEPT !.due = "now"]
<1>1. rules[r] \in Row /\ Exists(r) /\ rules[r].state # "none"
  BY DEF ReadInv, Shapes, Real, Tick, Exists
<1>2. row \in Row /\ row.state # "none" /\ row.matcher = rules[r].matcher /\ row.cursor = rules[r].cursor
  BY <1>1 DEF Row
<1> HIDE DEF row
<1>3. Put(r, row) /\ UNCHANGED <<dialog, queued, past, loop, run, edit>> /\ loop \in {"off", "on",
                                 "dead", "closed"}
  BY DEF Tick, row, ReadInv, Shapes
<1> QED
  BY <1>1, <1>2, <1>3, Retouched

LEMMA SmallEditKeeps == ASSUME ReadInv, NEW r \in Rules, SmallEdit(r) PROVE ReadInv'
<1> DEFINE row == [rules[r] EXCEPT !.state = IF rules[r].enabled THEN "waiting" ELSE "paused",
                                   !.due = IF rules[r].enabled THEN "later" ELSE "never"]
<1>1. rules[r] \in Row /\ Exists(r)
  BY DEF ReadInv, Shapes, SmallEdit
<1>2. row \in Row /\ row.state # "none" /\ row.matcher = rules[r].matcher /\ row.cursor = rules[r].cursor
  BY <1>1 DEF Row
<1> HIDE DEF row
<1>3. Put(r, row) /\ UNCHANGED <<dialog, queued, past, loop, run, edit>> /\ loop \in {"off", "on",
                                 "dead", "closed"}
  BY DEF SmallEdit, row, ReadInv, Shapes
<1> QED
  BY <1>1, <1>2, <1>3, Retouched

LEMMA SetEnabledKeeps == ASSUME ReadInv, NEW r \in Rules, SetEnabled(r) PROVE ReadInv'
<1> DEFINE row == Enabled(rules[r], ~rules[r].enabled)
<1>1. rules[r] \in Row /\ Exists(r)
  BY DEF ReadInv, Shapes, SetEnabled
<1>2. row \in Row /\ row.state # "none" /\ row.matcher = rules[r].matcher /\ row.cursor = rules[r].cursor
  BY <1>1 DEF Enabled, Row
<1> HIDE DEF row
<1>3. Put(r, row) /\ UNCHANGED <<dialog, queued, past, loop, run, edit>> /\ loop \in {"off", "on",
                                 "dead", "closed"}
  BY DEF SetEnabled, row, ReadInv, Shapes
<1> QED
  BY <1>1, <1>2, <1>3, Retouched

(* What is selected is enabled, so it exists.                              *)
LEMMA SelectedExists == ASSUME ReadInv, NEW r \in Rules, Selected(r) PROVE Exists(r)
BY DEF ReadInv, Real, Selected, Asked, Due

LEMMA RefusedKeeps == ASSUME ReadInv, NEW r \in Rules, Refused(r) PROVE ReadInv'
<1> DEFINE row == [rules[r] EXCEPT !.state = "waiting", !.due = "later"]
<1>1. rules[r] \in Row /\ Exists(r)
  BY SelectedExists DEF ReadInv, Shapes, Refused
<1>2. row \in Row /\ row.state # "none" /\ row.matcher = rules[r].matcher /\ row.cursor = rules[r].cursor
  BY <1>1 DEF Row
<1> HIDE DEF row
<1>3. Put(r, row) /\ UNCHANGED <<dialog, queued, past, loop, run, edit>> /\ loop \in {"off", "on",
                                 "dead", "closed"}
  BY DEF Refused, row, ReadInv, Shapes
<1> QED
  BY <1>1, <1>2, <1>3, Retouched

FailStates == {"waiting_network", "auth_required", "paused", "failed"}

LEMMA RunFailsKeeps == ASSUME ReadInv, NEW r \in Rules, NEW s \in FailStates, RunFailsWith(r, s)
                       PROVE  ReadInv'
<1>1. rules[r] \in Row /\ run' = NoRun /\ UNCHANGED <<dialog, queued, past, edit>>
      /\ loop \in {"off", "on", "dead", "closed"}
  BY DEF ReadInv, Shapes, RunFailsWith
<1>2. CASE Exists(r) /\ svc = "mine"
  <2> DEFINE row == Recorded(r, s)
  <2>1. row \in Row /\ row.state # "none" /\ row.matcher = rules[r].matcher /\ row.cursor = rules[r].cursor
    BY <1>1 DEF Recorded, Row, FailStates
  <2> HIDE DEF row
  <2>2. Put(r, row) /\ loop' = loop
    BY <1>2 DEF RunFailsWith, row
  <2> QED
    BY <1>1, <1>2, <2>1, <2>2, Retouched
<1>3. CASE ~(Exists(r) /\ svc = "mine")
  <2>1. loop' = "dead" /\ UNCHANGED <<rules, line>>
    BY <1>3 DEF RunFailsWith
  <2>2. posted' \in 0..MaxPosts /\ gone' = gone /\ queued' = queued /\ past' = past
    BY <1>1 DEF dialog, ReadInv, Shapes
  <2> QED
    BY <1>1, <2>1, <2>2, Untouched
<1> QED
  BY <1>2, <1>3

LEMMA RunBreaksKeeps == ASSUME ReadInv, NEW r \in Rules, RunBreaks(r) PROVE ReadInv'
BY RunFailsKeeps DEF RunBreaks, FailStates

LEMMA RunRejectedKeeps == ASSUME ReadInv, NEW r \in Rules, RunRejected(r) PROVE ReadInv'
BY RunFailsKeeps DEF RunRejected, FailStates

LEMMA ShutdownKeeps == ReadInv /\ Shutdown => ReadInv'
<1> SUFFICES ASSUME ReadInv, Shutdown
             PROVE  ReadInv'
  OBVIOUS
<1>1. run' = NoRun /\ edit' = edit /\ loop' \in {"off", "on", "dead", "closed"}
      /\ UNCHANGED <<dialog, queued, past>> /\ run.rule \in SUBSET Rules
  BY DEF Shutdown, ReadInv, Shapes, Work
<1>2. CASE run.pc # "idle" /\ svc = "mine" /\ \A r \in run.rule : Exists(r)
  <2>1. PICK r \in run.rule : Put(r, [rules[r] EXCEPT !.state = "waiting", !.due = "now"])
    BY <1>2 DEF Shutdown
  <2> DEFINE row == [rules[r] EXCEPT !.state = "waiting", !.due = "now"]
  <2>2. r \in Rules /\ rules[r] \in Row /\ Exists(r)
    BY <1>1, <1>2 DEF ReadInv, Shapes
  <2>3. row \in Row /\ row.state # "none" /\ row.matcher = rules[r].matcher /\ row.cursor = rules[r].cursor
    BY <2>2 DEF Row
  <2>4. Put(r, row)
    BY <2>1
  <2> HIDE DEF row
  <2> QED
    BY <1>1, <2>2, <2>3, <2>4, Retouched
<1>3. CASE ~(run.pc # "idle" /\ svc = "mine" /\ \A r \in run.rule : Exists(r))
  <2>1. UNCHANGED <<rules,
                    line>> /\ posted' \in 0..MaxPosts /\ gone' = gone /\ queued' = queued /\ past' = past
    BY <1>1, <1>3 DEF Shutdown, dialog, ReadInv, Shapes
  <2> QED
    BY <1>1, <2>1, Untouched
<1> QED
  BY <1>2, <1>3
-----------------------------------------------------------------------------
LEMMA DeleteKeeps == ASSUME ReadInv, NEW r \in Rules, Delete(r) PROVE ReadInv'
<1> USE DEF ReadInv
<1>1. NoRule \in Row /\ NoRule.state = "none" /\ NoRule.enabled = FALSE /\ NoRule.due = "never"
  BY DialogAssumption DEF NoRule, Row, Ids, None
<1>2. Put(r, NoRule) /\ UNCHANGED <<posted, gone, queued, run, edit, loop, crossed>>
      /\ start' = [start EXCEPT ![r] = None]
  BY DEF Delete, dialog
<1>3. /\ rules' \in [Rules -> Row] /\ rules'[r] = NoRule /\ LineIsDue'
      /\ \A q \in Rules \ {r} : rules'[q] = rules[q]
  BY <1>1, <1>2, Written
<1>4. Shapes'
  BY <1>2, <1>3, Empty DEF Shapes
<1>5. Real'
  BY <1>1, <1>3 DEF Real, Exists
<1>6. Owned(run)' /\ Owned(edit)' /\ Editing'
  BY <1>2 DEF Owned, Editing
<1>7. ASSUME NEW q \in Rules, Exists(q)', q \notin crossed'
      PROVE  Kept(q)'
  <2>1. q # r
    BY <1>1, <1>3, <1>7 DEF Exists
  <2>2. rules'[q] = rules[q] /\ start'[q] = start[q]
    BY <1>2, <1>3, <2>1 DEF Shapes
  <2>3. Kept(q)
    BY <1>2, <1>7, <2>2 DEF Exists
  <2> QED
    BY <1>2, <2>2, <2>3 DEF Kept, InStep, Passed, Ahead, Processed, HasMore
<1> QED
  BY <1>3, <1>4, <1>5, <1>6, <1>7

LEMMA EditKeeps == ASSUME ReadInv, NEW r \in Rules, NEW k \in Matchers, Edit(r, k) PROVE ReadInv'
<1> USE DEF ReadInv
<1> DEFINE row == [NoRule EXCEPT !.matcher = k, !.enabled = IF Exists(r) THEN rules[r].enabled ELSE TRUE,
                                 !.state = "baselining"]
<1>1. row \in Row /\ row.state # "none" /\ row.matcher = k /\ row.cursor = None
  <2>1. rules[r] \in Row
    BY DEF Shapes
  <2> QED
    BY <2>1, Empty DEF NoRule, Row
<1>2. Put(r, row) /\ UNCHANGED <<posted, gone, queued, run, loop>>
      /\ start' = [start EXCEPT ![r] = None]
      /\ edit' = [NoRun EXCEPT !.pc = "base", !.rule = {r}, !.copy = row]
      /\ crossed' = IF run.rule = {r} THEN crossed \cup {r} ELSE crossed \ {r}
  BY DEF Edit, dialog
<1> HIDE DEF row
<1>3. /\ rules' \in [Rules -> Row] /\ rules'[r] = row /\ LineIsDue'
      /\ \A q \in Rules \ {r} : rules'[q] = rules[q]
  BY <1>1, <1>2, Written
<1>4. edit' \in Work /\ edit'.pc = "base" /\ edit'.rule = {r} /\ edit'.copy = row /\ edit'.page = {}
  BY <1>1, <1>2, Empty DEF NoRun, Work
<1>5. Shapes'
  BY <1>2, <1>3, <1>4, Empty DEF Shapes
<1>6. Real'
  BY <1>1, <1>3 DEF Real, Exists
<1>7. Owned(run)' /\ Owned(edit)'
  BY <1>1, <1>2, <1>4 DEF Owned
<1>8. Editing'
  BY <1>1, <1>2, <1>4 DEF Editing
<1>9. ASSUME NEW q \in Rules, Exists(q)', q \notin crossed'
      PROVE  Kept(q)'
  <2>1. CASE q = r
    BY <1>2, <1>9, <2>1 DEF Kept, Shapes
  <2>2. CASE q # r
    <3>1. rules'[q] = rules[q] /\ start'[q] = start[q]
      BY <1>2, <1>3, <2>2 DEF Shapes
    <3>2. Kept(q)
      BY <1>2, <1>9, <2>2, <3>1 DEF Exists
    <3> QED
      BY <1>2, <3>1, <3>2 DEF Kept, InStep, Passed, Ahead, Processed, HasMore
  <2> QED
    BY <2>1, <2>2
<1> QED
  BY <1>3, <1>5, <1>6, <1>7, <1>8, <1>9

LEMMA EditReadsKeeps == ReadInv /\ EditReads => ReadInv'
<1> SUFFICES ASSUME ReadInv, EditReads
             PROVE  ReadInv'
  OBVIOUS
<1> USE DEF ReadInv
<1>1. Latest \in 0..MaxPosts
  BY LatestIsPosted DEF Shapes
<1>2. edit' \in Work /\ edit'.pc = "save" /\ edit'.rule = edit.rule /\ edit'.copy = edit.copy
      /\ edit'.snap # None
  BY <1>1, Empty DEF EditReads, Shapes, Work
<1>3. UNCHANGED <<posted, gone, rules, line, queued, run, loop, start, crossed>> /\ edit.pc = "base"
  BY DEF EditReads, dialog, past
<1>4. Shapes'
  BY <1>2, <1>3 DEF Shapes
<1>5. LineIsDue' /\ Real'
  BY <1>3 DEF LineIsDue, Real, IsDue, Exists
<1>6. Owned(run)' /\ Owned(edit)' /\ Editing'
  BY <1>2, <1>3 DEF Owned, Editing
<1>7. \A q \in Rules : Exists(q)' /\ q \notin crossed' => Kept(q)'
  BY <1>3 DEF Kept, InStep, Passed, Ahead, Processed, HasMore, Exists
<1> QED
  BY <1>4, <1>5, <1>6, <1>7

(* The row that a baseline saves.                                          *)
LEMMA Based == ASSUME NEW o \in Work, o.snap # None, NEW running \in BOOLEAN
               PROVE  LET t == Ready(o, running)
                      IN  /\ t \in Row /\ t.state # "none" /\ t.matcher = o.copy.matcher
                          /\ t.cursor \in Ids /\ t.cursor # None /\ t.enabled = o.copy.enabled
                          /\ t.cursor <= o.snap
<1> DEFINE base == IF o.rule \subseteq WithHistory THEN Min({Old, o.snap}) ELSE o.snap
<1>1. o.snap \in Nat /\ o.snap <= MaxPosts /\ o.copy \in Row
  BY DialogAssumption DEF Work, Ids, None
<1>2. base \in Nat /\ base <= o.snap
  BY <1>1, Smaller
<1> HIDE DEF base
<1>3. base \in Ids /\ base # None /\ o.snap \in Ids /\ None \in Ids
  BY <1>1, <1>2, DialogAssumption DEF Ids, None
<1>4. Ready(o, running) =
        [o.copy EXCEPT !.cursor = base, !.through = IF base < o.snap THEN o.snap ELSE None,
           !.state = IF running THEN "running" ELSE IF o.copy.enabled THEN "waiting" ELSE "paused",
           !.due = IF running \/ ~o.copy.enabled THEN "never" ELSE IF base < o.snap THEN "now" ELSE "later"]
  BY DEF Ready, base
<1> QED
  BY <1>1, <1>2, <1>3, <1>4 DEF Row

(* The edit of a rule saves a row; a run of the rule has been crossed.     *)
LEMMA EditEnds ==
  ASSUME ReadInv, NEW r \in Rules, edit.pc # "idle", edit.rule = {r}, edit' = NoRun,
         NEW row \in Row, Put(r, row), row.state # "none", row.matcher = edit.copy.matcher,
         UNCHANGED <<dialog, queued, run, loop, crossed>>, start' \in [Rules -> Ids],
         \A q \in Rules \ {r} : start'[q] = start[q],
         row.cursor = None \/ start'[r] = row.cursor
  PROVE  ReadInv'
<1> USE DEF ReadInv
<1>1. /\ rules' \in [Rules -> Row] /\ rules'[r] = row /\ LineIsDue'
      /\ \A q \in Rules \ {r} : rules'[q] = rules[q]
  BY Written
<1>2. UNCHANGED <<posted, gone, queued, run, loop, crossed>>
  BY DEF dialog
<1>3. Shapes'
  BY <1>1, <1>2, Empty DEF Shapes
<1>4. Real'
  BY <1>1 DEF Real, Exists, Owned
<1>5. Owned(run)' /\ Owned(edit)' /\ Editing'
  BY <1>2 DEF Owned, Editing, NoRun, NoRule
<1>6. ASSUME NEW q \in Rules, Exists(q)', q \notin crossed'
      PROVE  Kept(q)'
  <2>1. CASE q = r
    <3>1. run'.rule # {r}
      BY <1>2, <1>6, <2>1 DEF Editing
    <3>2. (start'[r] + 1)..row.cursor = {} \/ start'[r] = None
      BY Empty DEF Ids, None
    <3> QED
      BY <1>1, <2>1, <3>1, <3>2 DEF Kept, Passed
  <2>2. CASE q # r
    <3>1. rules'[q] = rules[q] /\ start'[q] = start[q] /\ Kept(q)
      BY <1>1, <1>2, <1>6, <2>2 DEF Exists
    <3> QED
      BY <1>2, <3>1 DEF Kept, InStep, Passed, Ahead, Processed, HasMore
  <2> QED
    BY <2>1, <2>2
<1> QED
  BY <1>1, <1>3, <1>4, <1>5, <1>6

LEMMA EditSavesKeeps == ASSUME ReadInv, NEW r \in Rules, EditSaves(r) PROVE ReadInv'
<1> DEFINE row == Ready(edit, FALSE)
<1>1. edit \in Work /\ edit.snap # None /\ start \in [Rules -> Ids]
  BY DEF ReadInv, Shapes, Owned, EditSaves
<1>2. row \in Row /\ row.state # "none" /\ row.matcher = edit.copy.matcher /\ row.cursor \in Ids
  BY <1>1, Based
<1> HIDE DEF row
<1>3. edit.pc # "idle" /\ edit.rule = {r} /\ edit' = NoRun /\ Put(r, row)
      /\ UNCHANGED <<dialog, queued, run, loop, crossed>> /\ start' = [start EXCEPT ![r] = row.cursor]
  BY DEF EditSaves, row
<1>4. start' \in [Rules -> Ids] /\ start'[r] = row.cursor /\ \A q \in Rules \ {r} : start'[q] = start[q]
  BY <1>1, <1>2, <1>3
<1> QED
  BY <1>2, <1>3, <1>4, EditEnds

LEMMA EditFailsKeeps == ASSUME ReadInv, NEW r \in Rules, EditFails(r) PROVE ReadInv'
<1> DEFINE row == IF edit.copy.enabled THEN [edit.copy EXCEPT !.state = "failed", !.due = "now"]
                  ELSE [edit.copy EXCEPT !.state = "paused"]
<1>1. edit.copy \in Row /\ edit.copy.cursor = None /\ start \in [Rules -> Ids]
  BY DEF ReadInv, Shapes, Editing, Work
<1>2. row \in Row /\ row.state # "none" /\ row.matcher = edit.copy.matcher /\ row.cursor = None
  BY <1>1 DEF Row
<1> HIDE DEF row
<1>3. edit.pc # "idle" /\ edit.rule = {r} /\ edit' = NoRun /\ Put(r, row)
      /\ UNCHANGED <<dialog, queued, run, loop, crossed, start>>
  BY DEF EditFails, row, past
<1> QED
  BY <1>1, <1>2, <1>3, EditEnds

(* A run begins with a copy of its rule.                                   *)
LEMMA BeginKeeps == ASSUME ReadInv, NEW r \in Rules, Begin(r) PROVE ReadInv'
<1> USE DEF ReadInv
<1> DEFINE row == [rules[r] EXCEPT !.state = "running", !.due = "never"]
<1>1. rules[r] \in Row /\ Exists(r)
  BY SelectedExists DEF Shapes, Begin
<1>2. row \in Row /\ row.state # "none" /\ row.matcher = rules[r].matcher /\ row.cursor = rules[r].cursor
  BY <1>1 DEF Row
<1> HIDE DEF row
<1>3. Put(r, row) /\ UNCHANGED <<posted, gone, queued, edit, loop, start, crossed>> /\ edit = NoRun
  BY DEF Begin, row, dialog, past, Selected, Owned
<1>4. /\ rules' \in [Rules -> Row] /\ rules'[r] = row /\ LineIsDue'
      /\ \A q \in Rules \ {r} : rules'[q] = rules[q]
  BY <1>2, <1>3, Written
<1>5. /\ run' \in Work /\ run'.rule = {r} /\ run'.copy = rules[r] /\ run'.page = {}
      /\ run'.pc = IF rules[r].cursor = None THEN "base" ELSE "latest"
  BY <1>1, Empty DEF Begin, NoRun, Work
<1>6. Shapes'
  BY <1>3, <1>4, <1>5 DEF Shapes
<1>7. Real'
  BY <1>1, <1>2, <1>4 DEF Real, Exists
<1>8. Owned(run)' /\ Owned(edit)'
  BY <1>1, <1>3, <1>5 DEF Owned, Real
<1>9. Editing'
  BY <1>3, <1>5 DEF Editing, NoRun, Reading
<1>10. ASSUME NEW q \in Rules, Exists(q)', q \notin crossed'
       PROVE  Kept(q)'
  <2>1. Exists(q) /\ start'[q] = start[q] /\ rules'[q].matcher = rules[q].matcher
        /\ rules'[q].cursor = rules[q].cursor
    BY <1>1, <1>2, <1>3, <1>4, <1>10 DEF Exists
  <2>2. Kept(q)
    BY <1>3, <1>10, <2>1
  <2>3. run'.rule = {q} => InStep(q)'
    BY <1>2, <1>4, <1>5 DEF InStep, Reading
  <2> QED
    BY <1>3, <2>1, <2>2, <2>3 DEF Kept, Passed
<1> QED
  BY <1>4, <1>6, <1>7, <1>8, <1>9, <1>10

LEMMA HitsAreMedia == ASSUME NEW k \in Matchers, NEW m \in 1..MaxPosts PROVE Hits[k][m] \subseteq Media
BY DialogAssumption

(* A run goes on, and no row is written.                                   *)
LEMMA RunMoves ==
  ASSUME ReadInv, UNCHANGED <<dialog, rules, line, edit, loop, past>>,
         queued' \in [Media -> Nat], \A x \in Media : queued[x] > 0 => queued'[x] > 0,
         run' \in Work, run'.rule = run.rule, Owned(run)', Editing',
         \A r \in Rules \ crossed : Exists(r) /\ run.rule = {r} /\ InStep(r) => InStep(r)'
  PROVE  ReadInv'
<1> USE DEF ReadInv
<1>1. UNCHANGED <<posted, gone, rules, line, edit, loop, start, crossed>>
  BY DEF dialog, past
<1>2. Shapes'
  BY <1>1 DEF Shapes
<1>3. LineIsDue' /\ Real' /\ Owned(edit)'
  BY <1>1 DEF LineIsDue, Real, IsDue, Exists, Owned
<1>4. ASSUME NEW q \in Rules, Exists(q)', q \notin crossed'
      PROVE  Kept(q)'
  <2>1. Kept(q) /\ Exists(q) /\ q \in Rules \ crossed
    BY <1>1, <1>4 DEF Exists
  <2>2. ASSUME start[q] # None
        PROVE  Passed(q)'
    <3>1. rules[q].matcher \in Matchers /\ rules[q] \in Row /\ start[q] \in Ids
      BY <2>1 DEF Real, Shapes
    <3>2. (start[q] + 1)..rules[q].cursor \subseteq 1..MaxPosts
      BY <2>2, <3>1, DialogAssumption DEF Row, Ids, None
    <3>3. \A m \in (start[q] + 1)..rules[q].cursor : Hits[rules[q].matcher][m] \subseteq Media
      BY <3>1, <3>2, HitsAreMedia
    <3>4. Passed(q)
      BY <2>1, <2>2 DEF Kept
    <3>5. \A m \in (start[q] + 1)..rules[q].cursor \ gone :
            \A x \in Hits[rules[q].matcher][m] : queued'[x] > 0
      BY <3>3, <3>4 DEF Passed
    <3> QED
      BY <1>1, <3>5 DEF Passed
  <2> QED
    BY <1>1, <2>1, <2>2 DEF Kept
<1> QED
  BY <1>2, <1>3, <1>4, <1>1

LEMMA RunBaseKeeps == ReadInv /\ RunBase => ReadInv'
<1> SUFFICES ASSUME ReadInv, RunBase
             PROVE  ReadInv'
  OBVIOUS
<1>1. run.pc = "base" /\ UNCHANGED <<dialog, rules, line, queued, edit, loop, past>>
  BY DEF RunBase
<1>2. Latest \in 0..MaxPosts /\ run \in Work /\ queued \in [Media -> Nat]
  BY LatestIsPosted DEF ReadInv, Shapes
<1>3. /\ run' \in Work /\ run'.pc = "ready" /\ run'.rule = run.rule /\ run'.copy = run.copy
      /\ run'.snap # None /\ run'.page = run.page
  BY <1>2, Empty DEF RunBase, Work
<1>4. Owned(run)' /\ Editing'
  BY <1>1, <1>3 DEF ReadInv, Owned, Editing, Reading, past
<1>5. \A r \in Rules \ crossed : InStep(r) => InStep(r)'
  BY <1>1, <1>3 DEF InStep, Reading
<1> QED
  BY <1>1, <1>2, <1>3, <1>4, <1>5, RunMoves

LEMMA RunLatestKeeps == ReadInv /\ RunLatest => ReadInv'
<1> SUFFICES ASSUME ReadInv, RunLatest
             PROVE  ReadInv'
  OBVIOUS
<1>1. run.pc = "latest" /\ UNCHANGED <<dialog, rules, line, queued, edit, loop, past>>
  BY DEF RunLatest
<1>2. Latest \in 0..MaxPosts /\ run \in Work /\ queued \in [Media -> Nat]
  BY LatestIsPosted DEF ReadInv, Shapes
<1>3. /\ run' \in Work /\ run'.pc = "page" /\ run'.rule = run.rule /\ run'.copy = run.copy
      /\ run'.snap # None
  BY <1>2, Empty DEF RunLatest, Work, Row
<1>4. Owned(run)' /\ Editing'
  BY <1>1, <1>3 DEF ReadInv, Owned, Editing, Reading, past
<1>5. \A r \in Rules \ crossed : InStep(r) => InStep(r)'
  BY <1>1, <1>3 DEF InStep, Reading
<1> QED
  BY <1>1, <1>2, <1>3, <1>4, <1>5, RunMoves

(* A page holds everything up to the cursor it leads to.                   *)
LEMMA PageIsWhole == ASSUME run \in Work, run.snap # None, run.copy.cursor # None,
                            NEW w \in Work, w = [run EXCEPT !.pc = "commit", !.page = Page],
                            run' = w, gone' = gone
                     PROVE  Ahead' \subseteq w.page
<1> DEFINE U == {m \in (run.copy.cursor + 1)..run.snap : m \notin gone}
<1>1. run.copy.cursor \in 0..MaxPosts /\ run.snap \in 0..MaxPosts
  BY DialogAssumption DEF Work, Row, Ids, None
<1>2. U \in SUBSET (1..MaxPosts)
  BY <1>1, DialogAssumption
<1>3. Page = {m \in U : Cardinality({n \in U : n < m}) < PageLimit}
  BY DEF Page
<1>4. w.page = Page /\ w.snap = run.snap /\ w.copy = run.copy
  BY DEF Work
<1> HIDE DEF U
<1>5. /\ \A p \in Page, m \in U : m <= p => m \in Page
      /\ Cardinality(Page) < PageLimit => Page = U
  BY <1>2, <1>3, Oldest
<1>6. Page \in SUBSET U /\ \A m \in U : m \in Nat /\ m <= run.snap
  BY <1>1, <1>2, <1>3, DialogAssumption DEF U
<1>7. IsFiniteSet(Page) /\ Cardinality(Page) \in Nat
  <2>1. IsFiniteSet(Page)
    BY <1>2, <1>6, PostsAreFinite, FS_Subset
  <2> QED
    BY <2>1, FS_CardinalityType
<1>8. Processed' = IF Cardinality(Page) >= PageLimit /\ Max(Page \cup {0}) < run.snap
                   THEN Max(Page) ELSE run.snap
  BY <1>4 DEF Processed, HasMore
<1>9. Page # {} => Max(Page) \in Page /\ Max(Page \cup {0}) = Max(Page)
  <2> SUFFICES ASSUME Page # {}
               PROVE  Max(Page) \in Page /\ Max(Page \cup {0}) = Max(Page)
    OBVIOUS
  <2>1. Page \in SUBSET (0..MaxPosts) /\ Page \cup {0} \in SUBSET (0..MaxPosts)
    BY <1>2, <1>6, DialogAssumption
  <2>2. Max(Page) \in Page /\ \A x \in Page : x <= Max(Page)
    BY <2>1, Largest
  <2>3. Max(Page \cup {0}) \in Page \cup {0} /\ \A x \in Page \cup {0} : x <= Max(Page \cup {0})
    BY <2>1, Largest
  <2>4. \A x \in Page \cup {0} : x \in Nat
    BY <2>1, DialogAssumption
  <2> QED
    BY <2>2, <2>3, <2>4
<1>10. SUFFICES ASSUME NEW m \in U, m <= Processed'
                PROVE  m \in Page
  <2>1. Processed' \in Nat
    BY <1>1, <1>6, <1>7, <1>8, <1>9, FS_EmptySet, DialogAssumption
  <2>2. Ahead' = (run.copy.cursor + 1)..Processed' \ gone
    BY <1>4 DEF Ahead
  <2>3. Processed' <= run.snap
    BY <1>1, <1>6, <1>7, <1>8, <1>9, FS_EmptySet, DialogAssumption
  <2>4. \A m \in Ahead' : m \in U /\ m <= Processed'
    BY <1>1, <2>1, <2>2, <2>3 DEF U
  <2> QED
    BY <1>4, <1>10, <2>4
<1>11. CASE Cardinality(Page) < PageLimit
  BY <1>5, <1>11
<1>12. CASE Cardinality(Page) >= PageLimit /\ Max(Page \cup {0}) < run.snap
  <2>1. Page # {}
    BY <1>7, <1>12, FS_EmptySet, DialogAssumption
  <2> QED
    BY <1>5, <1>8, <1>9, <1>10, <1>12, <2>1
<1>13. CASE Cardinality(Page) >= PageLimit /\ ~(Max(Page \cup {0}) < run.snap)
  <2>1. Page # {}
    BY <1>7, <1>13, FS_EmptySet, DialogAssumption
  <2>2. Max(Page) \in Page /\ Max(Page) \in Nat /\ m <= Max(Page)
    BY <1>1, <1>6, <1>9, <1>13, <2>1, DialogAssumption
  <2> QED
    BY <1>5, <2>2
<1> QED
  BY <1>7, <1>11, <1>12, <1>13, DialogAssumption

LEMMA RunPageKeeps == ReadInv /\ RunPage => ReadInv'
<1> SUFFICES ASSUME ReadInv, RunPage
             PROVE  ReadInv'
  OBVIOUS
<1>1. run.pc = "page" /\ UNCHANGED <<dialog, rules, line, queued, edit, loop, past>> /\ gone' = gone
      /\ run' = [run EXCEPT !.pc = "commit", !.page = Page]
  BY DEF RunPage, dialog
<1>2. run \in Work /\ queued \in [Media -> Nat] /\ run.snap # None /\ run.copy.cursor # None
  BY <1>1 DEF ReadInv, Shapes, Owned, Editing, Reading
<1>3. Page \in SUBSET (1..MaxPosts)
  <2>1. run.copy.cursor \in 0..MaxPosts /\ run.snap \in 0..MaxPosts
    BY <1>2, DialogAssumption DEF Work, Row, Ids, None
  <2>2. (run.copy.cursor + 1)..run.snap \subseteq 1..MaxPosts
    BY <2>1, DialogAssumption
  <2>3. Page \subseteq (run.copy.cursor + 1)..run.snap
    BY DEF Page
  <2> QED
    BY <2>2, <2>3
<1>4. /\ run' \in Work /\ run'.pc = "commit" /\ run'.rule = run.rule /\ run'.copy = run.copy
      /\ run'.snap = run.snap
  BY <1>1, <1>2, <1>3 DEF Work
<1>5. Owned(run)' /\ Editing'
  BY <1>1, <1>2, <1>4 DEF ReadInv, Owned, Editing, Reading, past
<1>6. Ahead' \subseteq run'.page
  BY <1>1, <1>2, <1>4, PageIsWhole
<1>7. \A r \in Rules \ crossed : InStep(r) => InStep(r)'
  BY <1>1, <1>4, <1>6 DEF InStep, Reading
<1> QED
  BY <1>1, <1>2, <1>4, <1>5, <1>7, RunMoves

(* The commit queues what the page stands for.                             *)
LEMMA RunCommitKeeps == ReadInv /\ RunCommit => ReadInv'
<1> SUFFICES ASSUME ReadInv, RunCommit
             PROVE  ReadInv'
  OBVIOUS
<1>1. run.pc = "commit" /\ UNCHANGED <<dialog, rules, line, edit, loop, past>> /\ gone' = gone
      /\ run' = [run EXCEPT !.pc = "advance"]
      /\ queued' = [x \in Media |-> IF x \in Fresh(Matched) THEN queued[x] + 1 ELSE queued[x]]
  BY DEF RunCommit, dialog
<1>2. run \in Work /\ queued \in [Media -> Nat] /\ run.copy.matcher \in Matchers
  BY <1>1 DEF ReadInv, Shapes, Owned
<1>3. /\ queued' \in [Media -> Nat] /\ \A x \in Media : queued[x] > 0 => queued'[x] > 0
      /\ \A x \in Media \cap Matched : queued'[x] > 0
  BY <1>1, <1>2 DEF Fresh
<1>4. /\ run' \in Work /\ run'.pc = "advance" /\ run'.rule = run.rule /\ run'.copy = run.copy
      /\ run'.snap = run.snap /\ run'.page = run.page
  BY <1>1, <1>2 DEF Work
<1>5. Owned(run)' /\ Editing'
  BY <1>1, <1>2, <1>4 DEF ReadInv, Owned, Editing, Reading, past
<1>6. ASSUME NEW r \in Rules, InStep(r)
      PROVE  InStep(r)'
  <2>1. Ahead' = Ahead /\ Ahead \subseteq run.page
    BY <1>1, <1>4, <1>6 DEF Ahead, Processed, HasMore, InStep
  <2>2. \A m \in run.page : Hits[run.copy.matcher][m] \subseteq Media \cap Matched
    <3>1. run.page \subseteq 1..MaxPosts
      BY <1>2 DEF Work
    <3> QED
      BY <1>2, <3>1, HitsAreMedia DEF Matched
  <2> QED
    BY <1>1, <1>3, <1>4, <1>6, <2>1, <2>2 DEF InStep, Reading
<1> QED
  BY <1>1, <1>3, <1>4, <1>5, <1>6, RunMoves

(* The cursor moves over what has been queued.                             *)
LEMMA RunAdvanceKeeps == ASSUME ReadInv, NEW r \in Rules, RunAdvance(r) PROVE ReadInv'
<1> USE DEF ReadInv
<1> DEFINE row == [rules[r] EXCEPT !.cursor = Processed, !.state = "waiting", !.due = "later",
                             !.through = IF CompletesBackfill(r) THEN None ELSE @]
<1>1. run.pc = "advance" /\ run.rule = {r} /\ Exists(r) /\ rules[r] \in Row /\ run \in Work /\ run.snap # None
  BY DEF RunAdvance, MayAdvance, Shapes, Owned
<1>2. Processed \in 0..MaxPosts
  <2>1. run.snap \in 0..MaxPosts /\ run.page \in SUBSET (1..MaxPosts)
    BY <1>1, DialogAssumption DEF Work, Ids, None
  <2>2. CASE HasMore
    <3>1. IsFiniteSet(run.page) /\ Cardinality(run.page) >= PageLimit
      BY <2>1, <2>2, PostsAreFinite, FS_Subset DEF HasMore
    <3>2. run.page # {}
      BY <3>1, FS_EmptySet, DialogAssumption
    <3>3. run.page \in SUBSET (0..MaxPosts)
      BY <2>1, DialogAssumption
    <3> QED
      BY <2>1, <2>2, <3>2, <3>3, Largest DEF Processed
  <2> QED
    BY <2>1, <2>2 DEF Processed
<1>3. row \in Row /\ row.state # "none" /\ row.matcher = rules[r].matcher /\ row.cursor = Processed
  BY <1>1, <1>2, Empty DEF Row
<1> HIDE DEF row
<1>4. Put(r, row) /\ run' = NoRun /\ UNCHANGED <<posted, gone, queued, edit, loop, start, crossed>>
  BY DEF RunAdvance, row, dialog, past
<1>5. /\ rules' \in [Rules -> Row] /\ rules'[r] = row /\ LineIsDue'
      /\ \A q \in Rules \ {r} : rules'[q] = rules[q]
  BY <1>3, <1>4, Written
<1>6. Shapes'
  BY <1>4, <1>5, Empty DEF Shapes
<1>7. Real'
  BY <1>1, <1>3, <1>5 DEF Real, Exists
<1>8. Owned(run)' /\ Owned(edit)' /\ Editing'
  BY <1>4 DEF Owned, Editing, NoRun, NoRule, Reading
<1>9. ASSUME NEW q \in Rules, Exists(q)', q \notin crossed'
      PROVE  Kept(q)'
  <2>1. run'.rule # {q}
    BY <1>4 DEF NoRun
  <2>2. Exists(q) /\ Kept(q) /\ start'[q] = start[q]
    BY <1>1, <1>4, <1>5, <1>9 DEF Exists
  <2>3. CASE q # r
    BY <1>4, <1>5, <2>1, <2>2, <2>3 DEF Kept, Passed
  <2>4. ASSUME q = r, start[r] # None
        PROVE  Passed(r)'
    <3>1. InStep(r) /\ Passed(r)
      BY <1>1, <2>2, <2>4 DEF Kept
    <3>2. rules[r].cursor = run.copy.cursor /\ rules[r].matcher = run.copy.matcher
          /\ \A m \in Ahead : \A x \in Hits[run.copy.matcher][m] : queued[x] > 0
      BY <1>1, <3>1 DEF InStep, Reading
    <3>3. rules[r].cursor \in Int /\ start[r] \in Int /\ Processed \in Int
      BY <1>1, <1>2, DialogAssumption DEF Row, Ids, None, Shapes
    <3>4. \A m \in (start[r] + 1)..Processed : m \in (start[r] + 1)..rules[r].cursor
                                               \/ m \in (run.copy.cursor + 1)..Processed
      BY <3>2, <3>3
    <3> QED
      BY <1>3, <1>4, <1>5, <3>1, <3>2, <3>4 DEF Passed, Ahead
  <2> QED
    BY <1>4, <2>1, <2>3, <2>4 DEF Kept
<1> QED
  BY <1>5, <1>6, <1>7, <1>8, <1>9

(* A baseline: nothing is behind it that is not in front of its run.       *)
LEMMA RunReadyKeeps == ASSUME ReadInv, NEW r \in Rules, RunReady(r) PROVE ReadInv'
<1> USE DEF ReadInv
<1> DEFINE row == Ready(run, TRUE)
<1>1. run.pc = "ready" /\ run.rule = {r} /\ run \in Work /\ run.snap # None /\ run.page = {}
      /\ run.copy.matcher \in Matchers
  BY DEF RunReady, Shapes, Owned
<1>2. /\ row \in Row /\ row.state # "none" /\ row.matcher = run.copy.matcher /\ row.cursor \in Ids
      /\ row.cursor # None
  BY <1>1, Based
<1> HIDE DEF row
<1>3. /\ Put(r, row) /\ UNCHANGED <<posted, gone, queued, edit, loop, crossed>>
      /\ start' = [start EXCEPT ![r] = row.cursor]
      /\ run' = IF row.through = None THEN [run EXCEPT !.pc = "commit", !.copy = row, !.snap = row.cursor]
                ELSE [run EXCEPT !.pc = "latest", !.copy = row]
  BY DEF RunReady, row, dialog
<1>4. /\ rules' \in [Rules -> Row] /\ rules'[r] = row /\ LineIsDue'
      /\ \A q \in Rules \ {r} : rules'[q] = rules[q]
  BY <1>2, <1>3, Written
<1>5. /\ run' \in Work /\ run'.rule = {r} /\ run'.copy = row /\ run'.page = {}
      /\ run'.pc \in {"latest", "commit"} /\ (run'.pc = "commit" => run'.snap = row.cursor)
  BY <1>1, <1>2, <1>3 DEF Work
<1>6. Shapes'
  BY <1>2, <1>3, <1>4, <1>5 DEF Shapes
<1>7. Real'
  BY <1>1, <1>2, <1>4 DEF Real, Exists
<1>8. Owned(run)' /\ Owned(edit)'
  BY <1>1, <1>2, <1>3, <1>5 DEF Owned
<1>9. Editing'
  BY <1>1, <1>2, <1>3, <1>5 DEF Editing, Reading
<1>10. ASSUME NEW q \in Rules, Exists(q)', q \notin crossed'
       PROVE  Kept(q)'
  <2>1. row.cursor \in Int /\ (row.cursor + 1)..row.cursor = {}
    BY <1>2, DialogAssumption DEF Ids, None
  <2>2. CASE q = r
    <3>1. start'[r] = row.cursor
      BY <1>3 DEF Shapes
    <3>2. run'.pc = "commit" => Ahead' = {}
      <4>1. Cardinality(run'.page) = 0
        BY <1>5, FS_EmptySet
      <4>2. ~HasMore'
        BY <4>1, DialogAssumption DEF HasMore
      <4> QED
        BY <1>5, <2>1, <4>2 DEF Ahead, Processed
    <3> QED
      BY <1>2, <1>4, <1>5, <2>1, <2>2, <3>1, <3>2 DEF Kept, InStep, Passed
  <2>3. CASE q # r
    <3>1. rules'[q] = rules[q] /\ start'[q] = start[q] /\ Kept(q)
      BY <1>3, <1>4, <1>10, <2>3 DEF Exists, Shapes
    <3>2. run'.rule # {q}
      BY <1>5, <2>3
    <3> QED
      BY <1>3, <3>1, <3>2 DEF Kept, Passed
  <2> QED
    BY <2>2, <2>3
<1> QED
  BY <1>4, <1>6, <1>7, <1>8, <1>9, <1>10
-----------------------------------------------------------------------------
LEMMA ReadInvNext == ReadInv /\ [Next]_vars => ReadInv'
<1> SUFFICES ASSUME ReadInv, [Next]_vars
             PROVE  ReadInv'
  OBVIOUS
<1>1. CASE UNCHANGED vars
  BY <1>1, StutterKeeps
<1>2. CASE Service
  BY <1>2, RunBaseKeeps, RunLatestKeeps, RunPageKeeps, RunCommitKeeps, BeginKeeps, RunReadyKeeps,
     RunAdvanceKeeps, RunRejectedKeeps DEF Service
<1>3. CASE Editor
  BY <1>3, EditReadsKeeps, EditSavesKeeps DEF Editor
<1>4. CASE World
  BY <1>4, PostKeeps, GoOfflineKeeps, RestartKeeps, ShutdownKeeps, ActivateKeeps, DeleteMessageKeeps
     DEF World
<1>5. CASE User
  BY <1>5, SmallEditKeeps, SetEnabledKeeps, RunNowKeeps, DeleteKeeps, EditKeeps DEF User
<1>6. CASE Activated
  BY <1>6, ActivatedKeeps
<1>7. CASE \E r \in Rules : Tick(r) \/ EditFails(r) \/ RunBreaks(r) \/ Refused(r)
  BY <1>7, TickKeeps, EditFailsKeeps, RunBreaksKeeps, RefusedKeeps
<1> QED
  BY <1>1, <1>2, <1>3, <1>4, <1>5, <1>6, <1>7 DEF Next

LEMMA ReadInvSuffices == ReadInv => NothingMissed
<1> SUFFICES ASSUME ReadInv
             PROVE  NothingMissed
  OBVIOUS
<1>1. TypeOK
  BY DEF ReadInv, Shapes, LineIsDue, TypeOK
<1> QED
  BY <1>1 DEF ReadInv, NothingMissed, Kept, Passed

(* Whatever is posted, deleted, edited, stopped or fails: of the messages  *)
(* behind a rule's baseline and before its cursor (advance_subscription)   *)
(* none has been left out, unless the rule was edited while it ran.        *)
THEOREM NoneIsSkipped == Spec => []NothingMissed
BY ReadInvInit, ReadInvNext, ReadInvSuffices, PTL DEF Spec
=============================================================================
