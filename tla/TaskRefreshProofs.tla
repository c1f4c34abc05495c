--------------------------- MODULE TaskRefreshProofs ---------------------------
(***************************************************************************)
(* The task page (TaskRefresh, as Page of MCTasks), for any tasks, callers, *)
(* changes and events: it shows what the rows were, in their order, answers *)
(* a caller only with what he asked for, and shows nothing of a scheduler   *)
(* that was replaced.                                                       *)
(***************************************************************************)
EXTENDS MCTasks, TLAPS

(* What the variables hold that a step computes with.                        *)
Loads == [kind : {"none", "patch", "full"}, gen : 0 .. gen, rev : 0 .. fullRev,
          batch : [Shown -> 0 .. rev], rows : [Shown -> Nat], epoch : Nat]
Calls == [kind : {"idle", "patch", "full", "done", "failed"},
          target : [Shown -> 0 .. rev], rev : 0 .. fullRev, want : [Shown -> Nat]]
Typed ==
  /\ change \in [Shown -> Nat] /\ view \in [Shown -> Nat]
  /\ gen \in Nat /\ epoch \in Nat
  /\ rev \in Nat /\ dirty \in [Shown -> 0 .. rev] /\ applied \in [Shown -> 0 .. rev]
  /\ fullRev \in Nat /\ pendingFull \in 0 .. fullRev
  /\ load \in Loads /\ call \in [Viewers -> Calls]

(* The page is never ahead of the rows, and what the worker has read lies    *)
(* between them.                                                               *)
Between ==
  \A t \in Shown : /\ view[t] <= change[t]
                   /\ loader = "building" => view[t] <= load.rows[t] /\ load.rows[t] <= change[t]

(* A load of this generation has read the scheduler in use, unless that is   *)
(* being replaced.                                                             *)
OfThisScheduler == loader = "building" /\ load.gen = gen /\ ~switching => load.epoch = epoch

(* A caller wants what the rows were.  Whatever carries a revision as late   *)
(* as his shows it: the page for what was applied, the load for its batch,   *)
(* or for all rows.                                                            *)
WantedOf(k, t) ==
  /\ k.want[t] <= change[t]
  /\ k.kind = "patch" =>
       /\ k.target[t] = 0 => k.want[t] = 0
       /\ k.target[t] # 0 /\ k.target[t] <= applied[t] => k.want[t] <= view[t]
       /\ loader = "building" /\ k.target[t] # 0 /\ k.target[t] <= load.batch[t]
            => k.want[t] <= load.rows[t]
  /\ k.kind = "full" /\ loader = "building" /\ load.kind = "full" /\ k.rev <= load.rev
       => k.want[t] <= load.rows[t]
Wanted == \A c \in Viewers : \A t \in Shown : WantedOf(call[c], t)

PageInv == Typed /\ Between /\ OfThisScheduler /\ Wanted
-----------------------------------------------------------------------------
LEMMA PageInit == Page!Init => PageInv /\ Page!PageOfRows!Init
BY DEF Page!Init, PageInv, Typed, Loads, Calls, Between, OfThisScheduler, Wanted, WantedOf,
   Page!PageOfRows!Init, Page!Zero, Page!NoLoad, Page!Call

(* What the answers leave of the callers.                                    *)
LEMMA Answered ==
  ASSUME Typed, NEW S, NEW how \in {"done", "failed"}
  PROVE  /\ Page!Answer(S, how) \in [Viewers -> Calls]
         /\ \A c \in Viewers : IF c \in S THEN /\ Page!Answer(S, how)[c].kind = how
                                               /\ \A t \in Shown : Page!Answer(S, how)[c].want[t] = 0
                                          ELSE Page!Answer(S, how)[c] = call[c]
BY DEF Typed, Loads, Calls, Page!Answer, Page!Call, Page!Zero

LEMMA ChangeRowKeeps == ASSUME PageInv, NEW t \in Shown, Page!ChangeRow(t) PROVE PageInv'
BY DEF PageInv, Typed, Loads, Calls, Between, OfThisScheduler, Wanted, WantedOf, Page!ChangeRow,
   Page!life, Page!queue, Page!fulls

LEMMA SwitchKeeps == ASSUME PageInv, Page!SwitchScheduler PROVE PageInv'
BY DEF PageInv, Typed, Loads, Calls, Between, OfThisScheduler, Wanted, WantedOf,
   Page!SwitchScheduler, Page!queue, Page!fulls, Page!Spend

LEMMA MarkKeeps == ASSUME PageInv, NEW ids \in SUBSET Shown, Page!MarkProgress(ids) PROVE PageInv'
BY DEF PageInv, Typed, Loads, Calls, Between, OfThisScheduler, Wanted, WantedOf,
   Page!MarkProgress, Page!MarkDirty, Page!EnsureWorker, Page!life, Page!fulls

LEMMA RefreshKeeps ==
  ASSUME PageInv, NEW c \in Viewers, NEW ids \in SUBSET Shown, Page!RefreshNow(c, ids) PROVE PageInv'
<1> USE DEF PageInv
<1> DEFINE marks == [t \in Shown |-> IF t \in ids THEN rev + 1 ELSE 0]
           wish   == [t \in Shown |-> IF t \in ids THEN change[t] ELSE 0]
<1>1. /\ UNCHANGED <<change, view, gen, epoch, switching, applied, fullRev, pendingFull, load>>
      /\ rev' = rev + 1 /\ dirty' = [t \in Shown |-> IF t \in ids THEN rev + 1 ELSE dirty[t]]
      /\ call' = [call EXCEPT ![c] = Page!Call("patch", marks, 0, wish)]
      /\ loader' = "building" => loader = "building"
  BY DEF Page!RefreshNow, Page!MarkDirty, Page!EnsureWorker, Page!life, Page!fulls
<1>2. marks \in [Shown -> 0 .. rev + 1] /\ wish \in [Shown -> Nat]
  BY DEF Typed
<1>3. /\ call'[c].kind = "patch" /\ call'[c].target = marks /\ call'[c].want = wish
      /\ \A d \in Viewers : d # c => call'[d] = call[d]
  BY <1>1 DEF Typed, Loads, Calls, Page!Call
<1>4. Typed'
  <2>1. /\ rev' \in Nat /\ dirty' \in [Shown -> 0 .. rev'] /\ applied \in [Shown -> 0 .. rev']
        /\ load' \in Loads'
    BY <1>1 DEF Typed, Loads
  <2>2. Page!Call("patch", marks, 0, wish) \in Calls'
    BY <1>1, <1>2 DEF Typed, Calls, Page!Call
  <2>3. \A d \in Viewers : call[d] \in Calls'
    BY <1>1 DEF Typed, Calls
  <2>4. call' \in [Viewers -> Calls']
    BY <1>1, <2>2, <2>3 DEF Typed
  <2> QED
    BY <1>1, <2>1, <2>4 DEF Typed
<1>5. \A t \in Shown : applied[t] < rev + 1 /\ load.batch[t] < rev + 1
  BY DEF Typed, Loads
<1>6. ASSUME NEW d \in Viewers, NEW t \in Shown PROVE WantedOf(call[d], t)'
  <2>1. CASE d = c
    <3>1. /\ wish[t] <= change[t] /\ (marks[t] = 0 => wish[t] = 0)
          /\ marks[t] # 0 => marks[t] = rev + 1
      BY DEF Typed
    <3> QED
      BY <1>1, <1>3, <1>5, <2>1, <3>1 DEF WantedOf, Typed, Loads
  <2>2. CASE d # c
    BY <1>1, <1>3, <2>2 DEF Wanted, WantedOf
  <2> QED
    BY <2>1, <2>2
<1> QED
  BY <1>1, <1>4, <1>6 DEF Between, OfThisScheduler, Wanted

LEMMA AskKeeps == ASSUME PageInv, NEW c \in Viewers, Page!ReconcileNow(c) \/ Page!Activate(c) PROVE PageInv'
<1> USE DEF PageInv
<1>1. /\ UNCHANGED <<change, view, gen, epoch, switching, rev, dirty, applied, load>>
      /\ fullRev' = fullRev + 1 /\ pendingFull' = fullRev + 1
      /\ call' = [call EXCEPT ![c] = Page!Call("full", Page!Zero, fullRev + 1, change)]
      /\ loader' = "building" => loader = "building"
  BY DEF Page!ReconcileNow, Page!Activate, Page!EnsureWorker, Page!life, Page!queue
<1>2. /\ call'[c].kind = "full" /\ call'[c].rev = fullRev + 1 /\ call'[c].want = change
      /\ \A d \in Viewers : d # c => call'[d] = call[d]
  BY <1>1 DEF Typed, Loads, Calls, Page!Call
<1>3. Typed'
  <2>1. Page!Call("full", Page!Zero, fullRev + 1, change) \in
          [kind : {"idle", "patch", "full", "done", "failed"}, target : [Shown -> 0 .. rev],
           rev : 0 .. fullRev + 1, want : [Shown -> Nat]]
    BY DEF Page!Call, Page!Zero, Typed, Loads, Calls
  <2> QED
    BY <1>1, <2>1 DEF Typed, Loads, Calls
<1>4. load.rev < fullRev + 1
  BY DEF Typed, Loads, Calls
<1>5. Wanted'
  BY <1>1, <1>2, <1>4 DEF Wanted, WantedOf, Typed, Loads, Calls
<1> QED
  BY <1>1, <1>3, <1>5 DEF Between, OfThisScheduler

LEMMA AdvanceKeeps == ASSUME PageInv, Page!Deactivate \/ Page!ReplaceGeneration \/ Page!Close PROVE PageInv'
<1> USE DEF PageInv
<1>1. /\ UNCHANGED <<change, view, epoch, rev, loader, load>>
      /\ gen' = gen + 1 /\ dirty' = Page!Zero /\ applied' = Page!Zero
      /\ fullRev' \in {fullRev, fullRev + 1} /\ pendingFull' \in {0, fullRev'}
      /\ call' = Page!Answer({c \in Viewers : call[c].kind \in Page!Waiting}, "failed")
  BY DEF Page!Deactivate, Page!ReplaceGeneration, Page!Close, Page!AdvanceGeneration
<1>2. Typed'
  BY <1>1, Answered DEF Typed, Loads, Calls, Page!Zero
<1>3. \A c \in Viewers : /\ call'[c].kind \notin Page!Waiting
                         /\ \A t \in Shown : call'[c].want[t] <= change[t]
  <2> DEFINE S == {c \in Viewers : call[c].kind \in Page!Waiting}
  <2> SUFFICES ASSUME NEW c \in Viewers
               PROVE  call'[c].kind \notin Page!Waiting /\ \A t \in Shown : call'[c].want[t] <= change[t]
    OBVIOUS
  <2>1. CASE c \in S
    <3>1. call'[c].kind = "failed" /\ \A t \in Shown : call'[c].want[t] = 0
      BY <1>1, <2>1, Answered
    <3> QED
      BY <3>1 DEF Page!Waiting, Typed, Loads, Calls
  <2>2. CASE c \notin S
    BY <1>1, <2>2, Answered DEF Wanted, WantedOf
  <2> QED
    BY <2>1, <2>2
<1>4. Wanted'
  BY <1>1, <1>3 DEF Wanted, WantedOf, Page!Waiting
<1>5. OfThisScheduler'
  BY <1>1 DEF OfThisScheduler, Typed, Loads, Calls
<1> QED
  BY <1>1, <1>2, <1>4, <1>5 DEF Between

LEMMA StartKeeps == ASSUME PageInv, Page!StartPatch \/ Page!StartFull \/ Page!Sleep PROVE PageInv'
<1> USE DEF PageInv
<1>1. /\ UNCHANGED <<change, view, gen, epoch, switching, rev, applied, fullRev, call>>
      /\ loader' # "building" /\ dirty' \in {dirty, Page!Zero} /\ pendingFull' \in {pendingFull, 0}
  BY DEF Page!StartPatch, Page!StartFull, Page!Sleep, Page!life, Page!queue, Page!fulls
<1>2. /\ Page!NoLoad \in Loads
      /\ load' \in {load, [Page!NoLoad EXCEPT !.kind = "patch", !.gen = gen, !.batch = dirty],
                    [Page!NoLoad EXCEPT !.kind = "full", !.gen = gen,
                        !.rev = IF pendingFull # 0 THEN pendingFull ELSE fullRev]}
  BY DEF Page!StartPatch, Page!StartFull, Page!Sleep, Page!NoLoad, Page!Zero, Typed, Loads, Calls
<1>3. Typed'
  <2>1. dirty' \in [Shown -> 0 .. rev] /\ pendingFull' \in 0 .. fullRev
    BY <1>1 DEF Typed, Loads, Calls, Page!Zero
  <2>2. load' \in Loads
    <3>1. gen \in 0 .. gen /\ fullRev \in 0 .. fullRev /\ pendingFull \in 0 .. fullRev
          /\ dirty \in [Shown -> 0 .. rev]
      BY DEF Typed, Loads, Calls
    <3> QED
      BY <1>2, <3>1 DEF Typed, Loads, Calls
  <2> QED
    BY <1>1, <2>1, <2>2 DEF Typed, Loads, Calls
<1>4. Wanted'
  BY <1>1 DEF Wanted, WantedOf
<1> QED
  BY <1>1, <1>3, <1>4 DEF Between, OfThisScheduler

LEMMA ReadKeeps == ASSUME PageInv, Page!ReadRows PROVE PageInv'
<1> USE DEF PageInv
<1>1. /\ UNCHANGED <<change, view, gen, epoch, switching, rev, dirty, applied, fullRev, pendingFull, call>>
      /\ load' = [load EXCEPT !.rows = change, !.epoch = epoch]
  BY DEF Page!ReadRows, Page!life, Page!queue, Page!fulls
<1>2. Typed' /\ load'.rows = change /\ load'.epoch = epoch
  BY <1>1 DEF Typed, Loads, Calls
<1>3. Wanted'
  BY <1>1, <1>2 DEF Wanted, WantedOf
<1> QED
  BY <1>1, <1>2, <1>3 DEF Between, OfThisScheduler, Typed, Loads, Calls

(* What the worker leaves when it has nothing more to load.                  *)
LEMMA NoLoadIs ==
  ASSUME PageInv
  PROVE  Page!NoLoad \in Loads
BY DEF PageInv, Typed, Loads, Calls, Page!NoLoad, Page!Zero

LEMMA LargerIs ==
  ASSUME NEW n \in Nat, NEW f \in [Shown -> 0 .. n], NEW g \in [Shown -> 0 .. n]
  PROVE  /\ Page!Larger(f, g) \in [Shown -> 0 .. n]
         /\ \A t \in Shown : Page!Larger(f, g)[t] = IF f[t] > g[t] THEN f[t] ELSE g[t]
BY DEF Page!Larger

LEMMA ApplyPatchKeeps == ASSUME PageInv, Page!ApplyPatch PROVE PageInv'
<1> USE DEF PageInv
<1>1. /\ UNCHANGED <<change, gen, epoch, switching, rev, dirty, fullRev, pendingFull>>
      /\ loader = "building" /\ view' = Page!PatchedView /\ applied' = Page!Larger(load.batch, applied)
      /\ call' = Page!Answer(Page!PatchDone(Page!Larger(load.batch, applied)), "done")
      /\ loader' = "awake" /\ load' = Page!NoLoad
  BY DEF Page!ApplyPatch, Page!life, Page!fulls
<1>2. \A t \in Shown : /\ view'[t] = IF load.batch[t] # 0 THEN load.rows[t] ELSE view[t]
                       /\ applied'[t] = IF load.batch[t] > applied[t] THEN load.batch[t] ELSE applied[t]
  BY <1>1, LargerIs DEF Page!PatchedView, Typed, Loads, Calls
<1>3. Typed'
  <2>1. view' \in [Shown -> Nat]
    BY <1>1 DEF Page!PatchedView, Typed, Loads, Calls
  <2>2. applied' \in [Shown -> 0 .. rev]
    BY <1>1, LargerIs DEF Typed, Loads, Calls
  <2> QED
    BY <1>1, <2>1, <2>2, Answered, NoLoadIs DEF Typed, Loads, Calls
<1>4. Between'
  BY <1>1, <1>2 DEF Between, Typed, Loads, Calls
<1>5. \A c \in Viewers : \/ call'[c] = call[c]
                         \/ call'[c].kind = "done" /\ \A t \in Shown : call'[c].want[t] = 0
  BY <1>1, Answered
<1>6. ASSUME NEW c \in Viewers, NEW t \in Shown
      PROVE  WantedOf(call[c], t)'
  <2>1. CASE call'[c] = call[c]
    <3>1. WantedOf(call[c], t)
      BY DEF Wanted
    <3>2. /\ load.batch[t] \in Nat /\ applied[t] \in Nat /\ call[c].target[t] \in Nat
          /\ call[c].want[t] \in Nat /\ view[t] \in Nat /\ load.rows[t] \in Nat
      BY DEF Typed, Loads, Calls
    <3>3. view[t] <= load.rows[t]
      BY <1>1 DEF Between
    <3> QED
      BY <1>1, <1>2, <2>1, <3>1, <3>2, <3>3 DEF WantedOf
  <2>2. CASE call'[c].kind = "done" /\ \A u \in Shown : call'[c].want[u] = 0
    BY <1>1, <2>2 DEF WantedOf, Typed, Loads, Calls
  <2> QED
    BY <1>5, <2>1, <2>2
<1> QED
  BY <1>1, <1>3, <1>4, <1>6 DEF OfThisScheduler, Wanted

LEMMA ApplyFullKeeps == ASSUME PageInv, Page!ApplyFull PROVE PageInv'
<1> USE DEF PageInv
<1>1. /\ UNCHANGED <<change, gen, epoch, switching, rev, dirty, applied, fullRev, pendingFull>>
      /\ loader = "building" /\ view' = load.rows
      /\ call' = Page!Answer(Page!FullDone, "done")
      /\ loader' = "awake" /\ load' = Page!NoLoad
  BY DEF Page!ApplyFull, Page!FullView, Page!life, Page!queue
<1>2. Typed'
  BY <1>1, Answered, NoLoadIs DEF Typed, Loads, Calls
<1>3. Between'
  BY <1>1 DEF Between, Typed, Loads, Calls
<1>4. \A c \in Viewers : \/ call'[c] = call[c]
                         \/ call'[c].kind = "done" /\ \A t \in Shown : call'[c].want[t] = 0
  BY <1>1, Answered
<1>5. ASSUME NEW c \in Viewers, NEW t \in Shown
      PROVE  WantedOf(call[c], t)'
  <2>1. CASE call'[c] = call[c]
    <3>1. WantedOf(call[c], t) /\ view[t] <= load.rows[t]
      BY <1>1 DEF Wanted, Between
    <3>2. call[c].want[t] \in Nat /\ view[t] \in Nat /\ load.rows[t] \in Nat
      BY DEF Typed, Loads, Calls
    <3> QED
      BY <1>1, <2>1, <3>1, <3>2 DEF WantedOf
  <2>2. CASE call'[c].kind = "done" /\ \A u \in Shown : call'[c].want[u] = 0
    BY <1>1, <2>2 DEF WantedOf, Typed, Loads, Calls
  <2> QED
    BY <1>4, <2>1, <2>2
<1> QED
  BY <1>1, <1>2, <1>3, <1>5 DEF OfThisScheduler, Wanted

LEMMA FailKeeps == ASSUME PageInv, Page!FailPatch \/ Page!FailFull \/ Page!DropLoad PROVE PageInv'
<1> USE DEF PageInv
<1>1. /\ UNCHANGED <<change, view, gen, epoch, switching, rev, applied, fullRev, pendingFull>>
      /\ loader' = "awake" /\ load' = Page!NoLoad
      /\ dirty' = dirty \/ dirty' = Page!Larger(load.batch, dirty)
      /\ call' = call \/ \E S : call' = Page!Answer(S, "failed")
  BY DEF Page!FailPatch, Page!FailFull, Page!DropLoad, Page!life, Page!queue, Page!fulls
<1>2. Typed'
  <2>1. dirty' \in [Shown -> 0 .. rev]
    <3>1. rev \in Nat /\ dirty \in [Shown -> 0 .. rev] /\ load.batch \in [Shown -> 0 .. rev]
      BY DEF Typed, Loads, Calls
    <3> QED
      BY <1>1, <3>1, LargerIs
  <2> QED
    BY <1>1, <2>1, Answered, NoLoadIs DEF Typed, Loads, Calls
<1>3. \A c \in Viewers : \/ call'[c] = call[c]
                         \/ call'[c].kind = "failed" /\ \A t \in Shown : call'[c].want[t] = 0
  BY <1>1, Answered
<1>4. Wanted'
  BY <1>1, <1>3 DEF Wanted, WantedOf, Typed, Loads, Calls
<1> QED
  BY <1>1, <1>2, <1>4 DEF Between, OfThisScheduler
-----------------------------------------------------------------------------
LEMMA PageStep == PageInv /\ [Page!Next]_(Page!vars) => PageInv'
<1> SUFFICES ASSUME PageInv, [Page!Next]_(Page!vars) PROVE PageInv'
  OBVIOUS
<1>1. CASE Page!Next
  BY <1>1, ChangeRowKeeps, SwitchKeeps, MarkKeeps, RefreshKeeps, AskKeeps, AdvanceKeeps, StartKeeps,
     ReadKeeps, ApplyPatchKeeps, ApplyFullKeeps, FailKeeps DEF Page!Next, Page!Worker
<1>2. CASE UNCHANGED Page!vars
  BY <1>2 DEF Page!vars, Page!queue, Page!fulls, Page!life, PageInv, Typed, Loads, Calls, Between,
     OfThisScheduler, Wanted, WantedOf
<1> QED
  BY <1>1, <1>2

(* Only a row that changes and a view that is applied touch row and view.    *)
LEMMA OthersShowNothing ==
  ASSUME [Page!Next]_(Page!vars), ~Page!ApplyPatch, ~Page!ApplyFull, \A t \in Shown : ~Page!ChangeRow(t)
  PROVE  UNCHANGED <<change, view>>
BY DEF Page!Next, Page!Worker, Page!vars, Page!SwitchScheduler, Page!Deactivate,
   Page!ReplaceGeneration, Page!Close, Page!MarkProgress, Page!RefreshNow, Page!ReconcileNow,
   Page!Activate, Page!StartPatch, Page!StartFull, Page!Sleep, Page!ReadRows, Page!DropLoad,
   Page!FailPatch, Page!FailFull

(* What a load brings to the page is as new as what is there, and no newer   *)
(* than the rows.                                                              *)
LEMMA AppliedShows ==
  ASSUME PageInv, Page!ApplyPatch \/ Page!ApplyFull
  PROVE  /\ Page!PageOfRows!Show
         /\ ~switching => load.epoch = epoch
<1>1. loader = "building" /\ load.gen = gen /\ UNCHANGED change
  BY DEF Page!ApplyPatch, Page!ApplyFull, Page!IsStale
<1>2. /\ view' \in [Shown -> Nat]
      /\ \A t \in Shown : view'[t] \in {view[t], load.rows[t]}
  BY DEF Page!ApplyPatch, Page!ApplyFull, Page!PatchedView, Page!FullView, PageInv, Typed, Loads,
     Calls
<1>3. \A t \in Shown : /\ view[t] <= load.rows[t] /\ load.rows[t] <= change[t] /\ view[t] <= change[t]
                       /\ view[t] \in Nat
  BY <1>1 DEF PageInv, Between, Typed, Loads, Calls
<1> QED
  BY <1>1, <1>2, <1>3 DEF Page!PageOfRows!Show, PageInv, OfThisScheduler

LEMMA StepShows == PageInv /\ [Page!Next]_(Page!vars) => [Page!PageOfRows!Next]_<<change, view>>
<1> SUFFICES ASSUME PageInv, [Page!Next]_(Page!vars) PROVE [Page!PageOfRows!Next]_<<change, view>>
  OBVIOUS
<1>1. ASSUME NEW t \in Shown, Page!ChangeRow(t) PROVE Page!PageOfRows!Next
  BY <1>1 DEF Page!ChangeRow, Page!PageOfRows!Next, Page!PageOfRows!Write
<1>2. CASE Page!ApplyPatch \/ Page!ApplyFull
  BY <1>2, AppliedShows DEF Page!PageOfRows!Next
<1> QED
  BY <1>1, <1>2, OthersShowNothing

LEMMA StepIsFresh == PageInv /\ [Page!Next]_(Page!vars) => [view' # view /\ ~switching => load.epoch = epoch]_(Page!vars)
<1> SUFFICES ASSUME PageInv, [Page!Next]_(Page!vars), view' # view, ~switching PROVE load.epoch = epoch
  OBVIOUS
<1>1. ASSUME NEW t \in Shown, Page!ChangeRow(t) PROVE FALSE
  BY <1>1 DEF Page!ChangeRow
<1> QED
  BY <1>1, OthersShowNothing, AppliedShows

(* Nobody is answered with "done" but by what is applied.                    *)
LEMMA OthersAnswerNothing ==
  ASSUME PageInv, [Page!Next]_(Page!vars), ~Page!ApplyPatch, ~Page!ApplyFull, NEW c \in Viewers, call[c].kind \in Page!Waiting
  PROVE  call'[c].kind # "done"
<1>1. call[c].kind # "done" /\ call \in [Viewers -> Calls]
  BY DEF Page!Waiting, PageInv, Typed, Loads, Calls
<1>2. CASE call' = call
  BY <1>1, <1>2
<1>3. ASSUME NEW S, call' = Page!Answer(S, "failed") PROVE call'[c].kind # "done"
  <2>1. IF c \in S THEN Page!Answer(S, "failed")[c].kind = "failed" ELSE Page!Answer(S, "failed")[c] = call[c]
    BY Answered DEF PageInv
  <2> QED
    BY <1>1, <1>3, <2>1
<1>4. ASSUME NEW d \in Viewers, call[d].kind = "idle",
             NEW k, k.kind \in Page!Waiting, call' = [call EXCEPT ![d] = k]
      PROVE  call'[c].kind # "done"
  BY <1>1, <1>4 DEF Page!Waiting
<1>5. \/ call' = call
      \/ \E S : call' = Page!Answer(S, "failed")
      \/ \E d \in Viewers : \E k : call[d].kind = "idle" /\ k.kind \in Page!Waiting /\ call' = [call EXCEPT ![d] = k]
  <2>1. ASSUME NEW d \in Viewers, NEW ids \in SUBSET Shown, Page!RefreshNow(d, ids)
        PROVE  \E k : call[d].kind = "idle" /\ k.kind \in Page!Waiting /\ call' = [call EXCEPT ![d] = k]
    <3> DEFINE k == Page!Call("patch", [t \in Shown |-> IF t \in ids THEN rev + 1 ELSE 0], 0,
                              [t \in Shown |-> IF t \in ids THEN change[t] ELSE 0])
    <3>1. k.kind \in Page!Waiting
      BY DEF Page!Call, Page!Waiting
    <3> QED
      BY <2>1, <3>1 DEF Page!RefreshNow
  <2>2. ASSUME NEW d \in Viewers, Page!ReconcileNow(d) \/ Page!Activate(d)
        PROVE  \E k : call[d].kind = "idle" /\ k.kind \in Page!Waiting /\ call' = [call EXCEPT ![d] = k]
    <3> DEFINE k == Page!Call("full", Page!Zero, fullRev + 1, change)
    <3>1. k.kind \in Page!Waiting
      BY DEF Page!Call, Page!Waiting
    <3> QED
      BY <2>2, <3>1 DEF Page!ReconcileNow, Page!Activate
  <2>3. CASE Page!Deactivate \/ Page!ReplaceGeneration \/ Page!Close \/ Page!FailPatch \/ Page!FailFull
    BY <2>3 DEF Page!Deactivate, Page!ReplaceGeneration, Page!Close, Page!AdvanceGeneration,
       Page!FailPatch, Page!FailFull
  <2>4. CASE \/ Page!SwitchScheduler \/ Page!StartPatch \/ Page!StartFull \/ Page!Sleep \/ Page!ReadRows \/ Page!DropLoad
             \/ \E t \in Shown : Page!ChangeRow(t)
             \/ \E ids \in SUBSET Shown : Page!MarkProgress(ids)
    BY <2>4 DEF Page!SwitchScheduler, Page!StartPatch, Page!StartFull, Page!Sleep, Page!ReadRows,
       Page!DropLoad, Page!ChangeRow, Page!MarkProgress
  <2>5. CASE UNCHANGED Page!vars
    BY <2>5 DEF Page!vars
  <2> QED
    BY <2>1, <2>2, <2>3, <2>4, <2>5 DEF Page!Next, Page!Worker
<1> QED
  BY <1>2, <1>3, <1>4, <1>5

(* Whoever is answered by what is applied finds the rows he asked for.       *)
LEMMA StepAnswers ==
  ASSUME PageInv, [Page!Next]_(Page!vars), NEW c \in Viewers, call[c].kind \in Page!Waiting, call'[c].kind = "done",
         NEW t \in Shown
  PROVE  view'[t] >= call[c].want[t]
<1> USE DEF PageInv
<1>1. /\ WantedOf(call[c], t) /\ call[c].kind \in {"patch", "full"}
      /\ call[c].want[t] \in Nat /\ view[t] \in Nat /\ load.rows[t] \in Nat
      /\ call[c].target[t] \in Nat /\ applied[t] \in Nat /\ load.batch[t] \in Nat
  BY DEF Wanted, Typed, Loads, Calls, Page!Waiting
<1>2. CASE Page!ApplyPatch
  <2>1. /\ loader = "building" /\ view'[t] = IF load.batch[t] # 0 THEN load.rows[t] ELSE view[t]
        /\ view[t] <= load.rows[t]
    BY <1>2 DEF Page!ApplyPatch, Page!PatchedView, Between
  <2>2. c \in Page!PatchDone(Page!Larger(load.batch, applied))
    <3> DEFINE S == Page!PatchDone(Page!Larger(load.batch, applied))
    <3>1. c \notin S => call'[c] = call[c]
      BY <1>2, Answered DEF Page!ApplyPatch
    <3> QED
      BY <1>1, <3>1
  <2>3. call[c].kind = "patch" /\ call[c].target[t] <= Page!Larger(load.batch, applied)[t]
    BY <2>2 DEF Page!PatchDone
  <2>4. call[c].target[t] <= load.batch[t] \/ call[c].target[t] <= applied[t]
    BY <2>3 DEF Page!Larger
  <2> QED
    BY <1>1, <2>1, <2>3, <2>4 DEF WantedOf
<1>3. CASE Page!ApplyFull
  <2>1. loader = "building" /\ load.kind = "full" /\ view'[t] = load.rows[t]
    BY <1>3 DEF Page!ApplyFull, Page!FullView
  <2>2. c \in Page!FullDone
    <3> DEFINE S == Page!FullDone
    <3>1. c \notin S => call'[c] = call[c]
      BY <1>3, Answered DEF Page!ApplyFull
    <3> QED
      BY <1>1, <3>1
  <2> QED
    BY <1>1, <2>1, <2>2 DEF Page!FullDone, WantedOf
<1> QED
  BY <1>2, <1>3, OthersAnswerNothing

(* The page implements TaskView, shows whoever refreshes what he asked for,  *)
(* and never what a load has read of a replaced scheduler: a load of an      *)
(* older generation is dropped, a patch answers only those whose revisions   *)
(* it carries.                                                                 *)
THEOREM PageIsCurrent == Page!Spec => PageKeepsUp
<1>1. Page!Spec => []PageInv
  BY PageInit, PageStep, PTL DEF Page!Spec
<1>2. Page!Spec => Page!ImplementsView
  <2>1. Page!Init => Page!PageOfRows!Init
    BY PageInit
  <2> QED
    BY <1>1, <2>1, StepShows, PTL DEF Page!Spec, Page!ImplementsView, Page!PageOfRows!Spec
<1>3. Page!Spec => Page!RefreshedIsShown
  <2>1. PageInv /\ [Page!Next]_(Page!vars) => [\A c \in Viewers : call[c].kind \in Page!Waiting /\ call'[c].kind = "done" =>
                                                \A t \in Shown : view'[t] >= call[c].want[t]]_(Page!vars)
    BY StepAnswers
  <2> QED
    BY <1>1, <2>1, PTL DEF Page!Spec, Page!RefreshedIsShown
<1>4. Page!Spec => Page!NoStaleApplied
  BY <1>1, StepIsFresh, PTL DEF Page!Spec, Page!NoStaleApplied
<1> QED
  BY <1>2, <1>3, <1>4 DEF PageKeepsUp, Page!PageKeepsUp
================================================================================
