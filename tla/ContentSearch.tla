---------------------------- MODULE ContentSearch ----------------------------
(***************************************************************************)
(* One content search: its session and rows in the catalogue (catalog.py), *)
(* the operation that begins it or loads more of it (content_browser.py),  *)
(* the pages Telegram answers (gateway.py), the ticks of the user and the  *)
(* queueing of what is ticked (controller.py).                             *)
(*                                                                         *)
(* Data: the messages of SearchState.  An offset is exclusive; None of     *)
(* an offset is 0.  A generation is a number of its own, also that of a    *)
(* search deleted and begun again, which has another id.                   *)
(*                                                                         *)
(* A wait that Telegram asks for is a page that takes longer.  A database  *)
(* call in a thread outlives the coroutine that is cancelled while it      *)
(* waits: `threads` holds these calls.                                     *)
(***************************************************************************)
EXTENDS SearchState, Sequences, FiniteSetsExt, SequencesExt

VARIABLES op, threads,             \* _fetch_page; calls it no longer waits for
          queue,                   \* queue_content_selection
          online, searches, faults, user

fixed == <<scope, limit>>
catalog == <<session, rows>>
bounds == <<searches, faults, user>>
vars == <<fixed, catalog, op, threads, intents, queue, tasks, online, bounds>>

NoSession == [id |-> 0, gen |-> 0, status |-> "none", cursor |-> 0, exhausted |-> FALSE, capped |-> FALSE]
NoRow == [gen |-> 0, sel |-> FALSE, que |-> FALSE]
NoJob == [kind |-> "none", id |-> 0, gen |-> 0, cursor |-> 0, done |-> FALSE, add |-> {}, more |-> FALSE,
          capped |-> FALSE]
NoOp == [pc |-> "idle", id |-> 0, gen |-> 0, cursor |-> 0, stable |-> {}, taken |-> 0, page |-> {},
         job |-> NoJob]
NoQueue == [pc |-> "idle", items |-> {}]

Init == /\ scope \in {"single", "all"} /\ limit \in Limits
        /\ session = NoSession /\ rows = [m \in Messages |-> NoRow]
        /\ op = NoOp /\ threads = {}
        /\ intents = <<>> /\ queue = NoQueue /\ tasks = {}
        /\ online = TRUE /\ searches = 0 /\ faults = 0 /\ user = 0

Fault == faults < MaxFaults /\ faults' = faults + 1
Spend == user < MaxTicks /\ user' = user + 1
-----------------------------------------------------------------------------
(* start_search: the session is new or gets another generation; its rows   *)
(* stay until the search completes.                                        *)
Begin == /\ online /\ op.pc = "idle" /\ searches < MaxSearches
         /\ searches' = searches + 1
         /\ session' = [NoSession EXCEPT !.id = IF session.id = 0 THEN searches + 1 ELSE session.id,
                                          !.gen = searches + 1, !.status = "running"]
         /\ op' = [NoOp EXCEPT !.pc = "list", !.id = session'.id, !.gen = session'.gen]
         /\ UNCHANGED <<fixed, rows, threads, intents, queue, tasks, online, faults, user>>

(* load_more: the snapshot it reads is that of the generation it continues.*)
LoadMore == /\ online /\ op.pc = "idle" /\ session.gen # 0 /\ ~session.exhausted
            /\ op' = [NoOp EXCEPT !.pc = "list", !.id = session.id, !.gen = session.gen,
                                   !.cursor = session.cursor]
            /\ UNCHANGED <<fixed, catalog, threads, intents, queue, tasks, online, bounds>>

(* _fetch_page reads the rows there are.                                   *)
List == /\ op.pc = "list"
        /\ op' = [op EXCEPT !.pc = "page", !.stable = Current]
        /\ UNCHANGED <<fixed, catalog, threads, intents, queue, tasks, online, bounds>>

Behind(cursor) == {m \in Found : cursor = 0 \/ m < cursor}

(* search_media_page, search_all_media_page: the newest messages behind    *)
(* the offset.                                                             *)
RemotePage(cursor) == {m \in Behind(cursor) : Cardinality({n \in Behind(cursor) : n > m}) < PageSize}

(* A short page, or a global answer without a next rate, is the last one.  *)
IsLast(page) == IF scope = "single" THEN Cardinality(page) < PageSize
                ELSE \A m \in Found : \E n \in page : n <= m

Fetch == /\ op.pc = "page" /\ online
         /\ op' = [op EXCEPT !.pc = "album", !.page = RemotePage(op.cursor)]
         /\ UNCHANGED <<fixed, catalog, threads, intents, queue, tasks, online, bounds>>

(* _deduplicate_hits and _album_units: one unit per album, newest first.   *)
Units(page) == {Expand(m) : m \in page \cap Hits}

(* The offset to go on with when a unit does not fit into this operation.  *)
Trigger(u) == Max(u \cap op.page \cap Hits)

(* Mutant: the search goes on behind the unit that did not fit.            *)
DeferredBehind(u) == IF scope = "all" THEN op.cursor ELSE Trigger(u)

Deferred(u) == IF scope = "all" THEN op.cursor ELSE Trigger(u) + 1

(* Mutant: what will never fit is left for the next operation, too.        *)
TakeOrLeave(s, u) ==
  LET new == u \ (op.stable \cup s.taken)
      page == Min({OpLimit - op.taken, limit - Cardinality(op.stable)}) - Cardinality(s.taken)
  IN  IF s.rest # {} \/ new = {} THEN s
      ELSE IF Cardinality(new) > page THEN [s EXCEPT !.rest = u]
      ELSE [s EXCEPT !.taken = @ \cup new]

(* The loop over the units: taken so far, whether one was over the limit,  *)
(* and the one that is left for the next operation.                        *)
Take(s, u) ==
  LET new   == u \ (op.stable \cup s.taken)
      total == limit - Cardinality(op.stable \cup s.taken)
      page  == OpLimit - op.taken - Cardinality(s.taken)
  IN  IF s.rest # {} \/ new = {} THEN s
      ELSE IF Cardinality(new) > total THEN [s EXCEPT !.skipped = @ \/ Cardinality(u) > 1]
      ELSE IF Cardinality(new) > page  THEN [s EXCEPT !.rest = u]
      ELSE [s EXCEPT !.taken = @ \cup new]

(* The units of the page, newest first: the one outcome there is.          *)
Accepted ==
  LET outcome[n \in 0 .. Newest] ==
        IF n = 0 THEN {[taken |-> {}, skipped |-> FALSE, rest |-> {}]}
        ELSE {Take(s, UNION {u \in Units(op.page) : Max(u) = Newest + 1 - n}) : s \in outcome[n - 1]}
  IN  outcome[Newest]

(* What the page's commit will write.                                      *)
Commit(s) ==
  LET full == Cardinality(op.stable \cup s.taken) >= limit
      done == full \/ s.skipped \/ (s.rest = {} /\ IsLast(op.page))
  IN  [kind |-> "commit", id |-> op.id, gen |-> op.gen, done |-> done, add |-> s.taken,
       cursor |-> IF done THEN 0 ELSE IF s.rest # {} THEN Deferred(s.rest) ELSE Min(op.page),
       more |-> s.rest = {}, capped |-> full \/ s.skipped]

ExpandAlbums == /\ op.pc = "album"
                /\ \E s \in Accepted :
                     op' = [op EXCEPT !.pc = "commit", !.job = Commit(s), !.taken = @ + Cardinality(s.taken)]
                /\ UNCHANGED <<fixed, catalog, threads, intents, queue, tasks, online, bounds>>
-----------------------------------------------------------------------------
(* Mutant: a row that is found again is a new row.                         *)
UpsertFresh(m, gen) == [gen |-> gen, sel |-> FALSE, que |-> m \in tasks]

(* A row that is found again keeps its tick, unless a task has the medium. *)
Upsert(m, gen) == [gen |-> gen, sel |-> rows[m].sel /\ m \notin tasks, que |-> rows[m].que \/ m \in tasks]

IsCurrent(job) == session.gen = job.gen

(* commit_search_page; a completed search drops the rows of others.        *)
Write(job) ==
  LET added == [m \in Messages |-> IF m \in job.add THEN Upsert(m, job.gen) ELSE rows[m]]
  IN  /\ rows' = IF job.done THEN [m \in Messages |-> IF added[m].gen = job.gen THEN added[m] ELSE NoRow]
                 ELSE added
      /\ session' = IF session.gen # job.gen THEN session
                    ELSE [session EXCEPT !.cursor = job.cursor, !.exhausted = job.done,
                            !.capped = job.capped, !.status = IF job.done THEN "completed" ELSE "running"]

(* The page is committed; a search of one dialog ends, one of the account  *)
(* goes on to the next page while it may.                                  *)
CommitPage ==
  LET goesOn == scope = "all" /\ ~op.job.done /\ op.job.more /\ op.taken < OpLimit
  IN  /\ op.pc = "commit" /\ IsCurrent(op.job)
      /\ Write(op.job)
      /\ op' = IF goesOn THEN [op EXCEPT !.pc = "page", !.cursor = op.job.cursor, !.job = NoJob,
                                         !.stable = {m \in Messages : rows'[m].gen = op.gen}]
               ELSE NoOp
      /\ UNCHANGED <<fixed, threads, intents, queue, tasks, online, bounds>>

(* What finish_cancelled finds: the search by its id, and then only if no  *)
(* newer generation has begun.                                             *)
Finds(job, kind) == IF kind = "reads" THEN session.id = job.id ELSE session.gen = job.gen

(* StaleSearchError, KeyError, and the ValueError of a gateway that is gone. *)
Breaks == /\ \/ op.pc = "commit" /\ ~IsCurrent(op.job)
             \/ op.pc = "page" /\ ~online
             \/ op.pc \in {"reads", "ends"} /\ ~Finds(op, op.pc)
          /\ op' = NoOp
          /\ UNCHANGED <<fixed, catalog, threads, intents, queue, tasks, online, bounds>>

(* GatewayError or a wait that is too long.                                *)
Fails == /\ op.pc \in {"page", "album"} /\ Fault
         /\ op' = [op EXCEPT !.pc = "reads"]
         /\ UNCHANGED <<fixed, catalog, threads, intents, queue, tasks, online, searches, user>>

(* cancel_content_search, or a newer search that replaces this one.  The   *)
(* rows are read before the handler is entered: nothing marks that search. *)
(* A call that has begun in its thread goes on without the coroutine.      *)
Cancel ==
  /\ op.pc \in {"list", "page", "album", "commit"} /\ Fault
  /\ threads' \in {threads} \cup (IF op.pc = "commit" THEN {threads \cup {op.job}} ELSE {})
  /\ op' = IF op.pc = "list" THEN NoOp ELSE [op EXCEPT !.pc = "reads", !.job = NoJob]
  /\ UNCHANGED <<fixed, catalog, intents, queue, tasks, online, searches, user>>

CancelAgain ==
  /\ op.pc \in {"reads", "ends"}
  /\ threads' = threads \cup {[NoJob EXCEPT !.kind = op.pc, !.id = op.id, !.gen = op.gen, !.cursor = op.cursor]}
  /\ op' = NoOp
  /\ UNCHANGED <<fixed, catalog, intents, queue, tasks, online, bounds>>

(* finish_cancelled and its like: get_session, then finish_search with     *)
(* what was read.                                                          *)
Incomplete(cursor) == [session EXCEPT !.status = "incomplete", !.cursor = cursor, !.exhausted = FALSE]

Finish == /\ op.pc \in {"reads", "ends"} /\ Finds(op, op.pc)
          /\ IF op.pc = "reads" THEN op' = [op EXCEPT !.pc = "ends", !.gen = session.gen, !.cursor = session.cursor]
                                     /\ UNCHANGED session
             ELSE session' = Incomplete(op.cursor) /\ op' = NoOp
          /\ UNCHANGED <<fixed, rows, threads, intents, queue, tasks, online, bounds>>

ThreadRuns(job) ==
  /\ job \in threads
  /\ CASE job.kind = "commit" /\ IsCurrent(job) -> Write(job) /\ threads' = threads \ {job}
       [] job.kind = "reads" /\ Finds(job, "reads") ->
            /\ threads' = (threads \ {job})
                 \cup {[job EXCEPT !.kind = "ends", !.gen = session.gen, !.cursor = session.cursor]}
            /\ UNCHANGED catalog
       [] job.kind = "ends" /\ Finds(job, "ends") ->
            session' = Incomplete(job.cursor) /\ threads' = threads \ {job} /\ UNCHANGED rows
       [] OTHER -> threads' = threads \ {job} /\ UNCHANGED catalog
  /\ UNCHANGED <<fixed, op, intents, queue, tasks, online, bounds>>
-----------------------------------------------------------------------------
(* delete_history.                                                         *)
Delete == /\ session.gen # 0
          /\ session' = NoSession /\ rows' = [m \in Messages |-> NoRow]
          /\ UNCHANGED <<fixed, op, threads, intents, queue, tasks, online, bounds>>

GoOffline == /\ online /\ Fault
             /\ online' = FALSE
             /\ UNCHANGED <<fixed, catalog, op, threads, intents, queue, tasks, searches, user>>

(* recover_interrupted_searches.                                           *)
Recovered == IF session.status = "running" THEN [session EXCEPT !.status = "incomplete"] ELSE session

Activate == /\ ~online
            /\ online' = TRUE /\ session' = Recovered
            /\ UNCHANGED <<fixed, rows, op, threads, intents, queue, tasks, bounds>>

(* The process stops anywhere and is started again.                        *)
Restart == /\ Fault
           /\ op' = NoOp /\ threads' = {} /\ intents' = <<>> /\ queue' = NoQueue
           /\ online' = FALSE
           /\ UNCHANGED <<fixed, catalog, tasks, searches, user>>
-----------------------------------------------------------------------------
(* submit_content_selection with what the page shows.                      *)
Choose(m, what) == /\ Spend
                   /\ IF what \in {"on", "off"} THEN m \in Current ELSE m = 0 /\ Current # {}
                   /\ intents' = Append(intents, [gen |-> session.gen, m |-> m, what |-> what])
                   /\ UNCHANGED <<fixed, catalog, op, threads, queue, tasks, online, searches, faults>>

(* apply_selection: a patch of one row, all of them, or the opposite.      *)
Chosen(i, m) == CASE i.what = "all"    -> ~rows[m].que
                  [] i.what = "invert" -> ~rows[m].que /\ ~rows[m].sel
                  [] m = i.m           -> i.what = "on"
                  [] OTHER             -> rows[m].sel

(* An intent of another generation, or a tick of a queued row, is refused. *)
Applies(i) == /\ i.gen = session.gen
              /\ i.what \in {"on", "off"} => i.m \in Current /\ (i.what = "on" => ~rows[i.m].que)

PersistSelection ==
  /\ intents # <<>>
  /\ rows' = [m \in Messages |-> IF Applies(Head(intents)) /\ m \in Current
                                 THEN [rows[m] EXCEPT !.sel = Chosen(Head(intents), m)] ELSE rows[m]]
  /\ intents' = Tail(intents)
  /\ UNCHANGED <<fixed, session, op, threads, queue, tasks, online, bounds>>

Ticked == {m \in Current : rows[m].sel}

(* queue_content_selection: prepare_download in a thread, then the user    *)
(* confirms or not, then the deduplicating commit, then finalize_queue.    *)
PrepareDownload == /\ queue.pc = "idle" /\ online /\ Ticked \ tasks # {}
                   /\ queue' = [pc |-> "confirm", items |-> {m \in Ticked : ~rows[m].que} \ tasks]
                   /\ UNCHANGED <<fixed, catalog, op, threads, intents, tasks, online, bounds>>

CommitSelected == /\ queue.pc = "confirm"
                  /\ \/ tasks' = tasks \cup queue.items
                        /\ queue' = IF queue.items \subseteq tasks THEN NoQueue
                                    ELSE [queue EXCEPT !.pc = "finalize"]
                     \/ tasks' = tasks /\ queue' = NoQueue
                  /\ UNCHANGED <<fixed, catalog, op, threads, intents, online, bounds>>

(* mark_queued for the ticked rows that a task has.                        *)
FinalizeQueue == /\ queue.pc = "finalize"
                 /\ rows' = [m \in Messages |-> IF m \in Ticked \cap tasks
                                                THEN [rows[m] EXCEPT !.sel = FALSE, !.que = TRUE] ELSE rows[m]]
                 /\ queue' = NoQueue
                 /\ UNCHANGED <<fixed, session, op, threads, intents, tasks, online, bounds>>
-----------------------------------------------------------------------------
Operation == List \/ Fetch \/ ExpandAlbums \/ CommitPage \/ Breaks \/ Finish
Threads == \E job \in threads : ThreadRuns(job)
User == \/ Begin \/ Delete \/ PrepareDownload \/ CommitSelected
        \/ \E m \in {0} \cup Messages, w \in {"on", "off", "all", "invert"} : Choose(m, w)

Next == \/ Operation \/ Threads \/ LoadMore \/ User \/ PersistSelection \/ FinalizeQueue
        \/ Fails \/ Cancel \/ CancelAgain \/ GoOffline \/ Activate \/ Restart

Spec == Init /\ [][Next]_vars

(* Telegram answers, threads run, the connection comes back, and the user  *)
(* goes on asking for more.                                                *)
FairSpec == Spec /\ WF_vars(Operation) /\ WF_vars(Threads) /\ WF_vars(LoadMore) /\ WF_vars(Activate)
-----------------------------------------------------------------------------
(* The types, two threads per cancellation, and no tick on a queued row.   *)
TypeOK == /\ session.status \in {"none", "running", "completed", "incomplete"}
          /\ session.exhausted <=> session.status = "completed"
          /\ op.pc \in {"idle", "list", "page", "album", "commit", "reads", "ends"}
          /\ Cardinality(threads) <= 2 * faults
          /\ \A m \in Messages : rows[m].que => ~rows[m].sel

(* Whoever goes on asking for more gets to the end of the search, although *)
(* pages fail, are cancelled or overtaken by calls left in their threads.  *)
SearchEnds == []<>(session.gen = 0 \/ session.exhausted)

=============================================================================
