--------------------------- MODULE Subscriptions ---------------------------
(***************************************************************************)
(* Automatic subscriptions: the rules of one account in the catalogue      *)
(* (catalog.py), the service that gives a rule its baseline and reads the  *)
(* messages behind its cursor page by page (subscription_service.py), the  *)
(* loop that runs due rules one at a time (subscription_scheduler.py) and  *)
(* the user, the connection and stops of the program around them.          *)
(*                                                                         *)
(* Data: all rules watch one dialog, whose messages are 1..posted; Hits    *)
(* are the media, albums included, that a message stands for under a       *)
(* matcher.  Time: next_run_at is never, later or now; <<q, r>> is in      *)
(* `line` when q has become due before r.  None of a message id is -1.     *)
(***************************************************************************)
EXTENDS Integers, Sequences, FiniteSetsExt, SequencesExt

CONSTANTS Rules, Matchers, Media,
          Hits,          \* [Matchers -> [1..MaxPosts -> SUBSET Media]]
          WithHistory,   \* rules with history_days > 0
          Old,           \* the last message before the history's cutoff
          PageLimit,     \* PAGE_LIMIT
          InitialPosts, MaxPosts, MaxUser, MaxFaults   \* bounds

ASSUME DialogAssumption ==
  /\ MaxPosts \in Nat /\ InitialPosts \in 0..MaxPosts /\ Old \in Nat /\ PageLimit \in Nat \ {0}
  /\ Hits \in [Matchers -> [1..MaxPosts -> SUBSET Media]]

VARIABLES posted, gone,  \* the dialog: its last message, the deleted ones
          rules, line,   \* subscription_rules
          queued,        \* how often a medium is in a task
          run,           \* run_rule in progress
          edit,          \* create_rule or update_rule in progress
          loop, pending, \* the scheduler's runner, its deque
          online, svc, account,  \* gateway bound; account of service, scheduler
          start, crossed,        \* history: first message owed; edited in a run
          user, faults           \* bounded events so far

dialog == <<posted, gone>>
link == <<online, svc, account>>
past == <<start, crossed>>
vars == <<dialog, rules, line, queued, run, edit, loop, pending, link, past, user, faults>>

None == -1
NoRule == [matcher |-> None, enabled |-> FALSE, state |-> "none", cursor |-> None,
           through |-> None, due |-> "never"]
NoRun == [pc |-> "idle", rule |-> {}, copy |-> NoRule, snap |-> None, page |-> {}]
Exists(r) == rules[r].state # "none"
Latest == Max({0} \cup (1..posted \ gone))            \* latest_message_id
Spend == user < MaxUser /\ user' = user + 1
Fault == faults < MaxFaults /\ faults' = faults + 1

(* Only rules that are due stand in the line; those of S leave it, or go   *)
(* to its end together.                                                     *)
IsDue(r) == rules[r].due = "now"
Without(S) == {p \in line : {p[1], p[2]} \cap S = {}}
Behind(S) == {r \in Rules \ S : IsDue(r)} \X S

(* A row is written; being due now puts it at the end of the line.         *)
Put(r, row) == /\ rules' = [rules EXCEPT ![r] = row]
               /\ line' = IF row.due = "now" THEN Without({r}) \cup Behind({r}) ELSE Without({r})

(* recover_interrupted_subscriptions, resume_connection_blocked_subscriptions *)
MakeDue(states) ==
  LET S == {r \in Rules : rules[r].enabled /\ rules[r].state \in states}
  IN  /\ rules' = [r \in Rules |-> IF r \in S THEN [rules[r] EXCEPT !.state = "waiting", !.due = "now"]
                                   ELSE rules[r]]
      /\ line' = Without(S) \cup Behind(S)

Init == /\ posted = InitialPosts /\ gone = {}
        /\ rules = [r \in Rules |-> NoRule] /\ line = {}
        /\ queued = [x \in Media |-> 0]
        /\ run = NoRun /\ edit = NoRun
        /\ loop = "off" /\ pending = <<>>
        /\ online = FALSE /\ svc = "other" /\ account = "none"
        /\ start = [r \in Rules |-> None] /\ crossed = {}
        /\ user = 0 /\ faults = 0
-----------------------------------------------------------------------------
(* The world: messages, time, the connection and the process.              *)
Post == /\ posted < MaxPosts
        /\ posted' = posted + 1
        /\ UNCHANGED <<gone, rules, line, queued, run, edit, loop, pending, link, past, user, faults>>

DeleteMessage(m) == /\ m \in 1..posted \ gone /\ Fault
                    /\ gone' = gone \cup {m}
                    /\ UNCHANGED <<posted, rules, line, queued, run, edit, loop, pending, link, past, user>>

Tick(r) == /\ rules[r].due = "later"
           /\ Put(r, [rules[r] EXCEPT !.due = "now"])
           /\ UNCHANGED <<dialog, queued, run, edit, loop, pending, link, past, user, faults>>

(* submit_credentials and _handle_session_expired: go_offline,             *)
(* set_account(None).                                                      *)
Disconnected == /\ online' = FALSE /\ account' = "none" /\ UNCHANGED svc
                /\ pending' = IF account = "none" THEN pending ELSE <<>>

GoOffline == /\ online /\ Fault
             /\ Disconnected
             /\ UNCHANGED <<dialog, rules, line, queued, run, edit, loop, past, user>>

(* bind_online and activate_content_account up to its last await: the      *)
(* service has the new account, the scheduler still the old one.           *)
Activate(a) == /\ loop # "closed" /\ (svc # a \/ ~online)
               /\ svc = "other" \/ Fault
               /\ svc = "other" => UNCHANGED faults
               /\ online' = TRUE /\ svc' = a /\ UNCHANGED account
               /\ IF a = "mine" THEN MakeDue({"waiting_network", "auth_required"})
                  ELSE UNCHANGED <<rules, line>>
               /\ UNCHANGED <<dialog, queued, run, edit, loop, pending, past, user>>

(* set_account and start: a runner that has ended is replaced.             *)
Activated == /\ online /\ (account # svc \/ loop # "on")
             /\ account' = svc /\ loop' = "on"
             /\ pending' = IF account = svc THEN pending ELSE <<>>
             /\ UNCHANGED <<dialog, rules, line, queued, run, edit, online, svc, past, user, faults>>

(* The process stops at any await, or between two transactions, and is     *)
(* started again.                                                          *)
Restart == /\ Fault \/ (loop = "closed" /\ UNCHANGED faults)
           /\ run' = NoRun /\ edit' = NoRun /\ loop' = "off" /\ pending' = <<>>
           /\ online' = FALSE /\ svc' = "other" /\ account' = "none"
           /\ MakeDue({"running", "baselining"})
           /\ UNCHANGED <<dialog, queued, past, user>>
-----------------------------------------------------------------------------
(* _establish_baseline: the end that saves the copy it was given.          *)
Ready(o, running) ==
  LET base == IF o.rule \subseteq WithHistory THEN Min({Old, o.snap}) ELSE o.snap
      more == base < o.snap
  IN  [o.copy EXCEPT !.cursor = base, !.through = IF more THEN o.snap ELSE None,
         !.state = IF running THEN "running" ELSE IF o.copy.enabled THEN "waiting" ELSE "paused",
         !.due = IF running \/ ~o.copy.enabled THEN "never" ELSE IF more THEN "now" ELSE "later"]

(* create_rule, and update_rule with another matcher, up to the await.     *)
Edit(r, k) ==
  LET row == [NoRule EXCEPT !.matcher = k, !.enabled = IF Exists(r) THEN rules[r].enabled ELSE TRUE,
                            !.state = "baselining"]
  IN  /\ online /\ svc = "mine" /\ edit.pc = "idle" /\ rules[r].matcher # k /\ Spend
      /\ Put(r, row)
      /\ edit' = [NoRun EXCEPT !.pc = "base", !.rule = {r}, !.copy = row]
      /\ crossed' = IF run.rule = {r} THEN crossed \cup {r} ELSE crossed \ {r}
      /\ start' = [start EXCEPT ![r] = None]
      /\ UNCHANGED <<dialog, queued, run, loop, pending, link, faults>>

EditReads == /\ edit.pc = "base"
             /\ edit' = [edit EXCEPT !.pc = "save", !.snap = Latest]
             /\ UNCHANGED <<dialog, rules, line, queued, run, loop, pending, link, past, user, faults>>

EditSaves(r) == /\ edit.pc = "save" /\ edit.rule = {r}
                /\ Put(r, Ready(edit, FALSE))
                /\ start' = [start EXCEPT ![r] = Ready(edit, FALSE).cursor]
                /\ edit' = NoRun
                /\ UNCHANGED <<dialog, queued, run, loop, pending, link, crossed, user, faults>>

EditFails(r) == /\ edit.pc \in {"base", "save"} /\ edit.rule = {r} /\ Fault
                /\ Put(r, IF edit.copy.enabled THEN [edit.copy EXCEPT !.state = "failed", !.due = "now"]
                          ELSE [edit.copy EXCEPT !.state = "paused"])
                /\ edit' = NoRun
                /\ UNCHANGED <<dialog, queued, run, loop, pending, link, past, user>>

(* update_rule that keeps the matcher.                                     *)
SmallEdit(r) == /\ online /\ svc = "mine" /\ edit.pc = "idle" /\ Exists(r) /\ Spend
                /\ Put(r, [rules[r] EXCEPT !.state = IF rules[r].enabled THEN "waiting" ELSE "paused",
                                           !.due = IF rules[r].enabled THEN "later" ELSE "never"])
                /\ UNCHANGED <<dialog, queued, run, edit, loop, pending, link, past, faults>>

Wake(r) == pending' = IF run.rule = {r} \/ Contains(pending, r) THEN pending ELSE Append(pending, r)

Enabled(row, b) == [row EXCEPT !.enabled = b, !.state = IF b THEN "waiting" ELSE "paused",
                               !.due = IF b THEN "now" ELSE "never"]

SetEnabled(r) == /\ svc = "mine" /\ Exists(r) /\ Spend
                 /\ Put(r, Enabled(rules[r], ~rules[r].enabled))
                 /\ IF rules[r].enabled THEN UNCHANGED pending ELSE Wake(r)
                 /\ UNCHANGED <<dialog, queued, run, edit, loop, link, past, faults>>

RunNow(r) == /\ svc = "mine" /\ Exists(r) /\ Spend
             /\ Wake(r)
             /\ UNCHANGED <<dialog, rules, line, queued, run, edit, loop, link, past, faults>>

Delete(r) == /\ svc = "mine" /\ Exists(r) /\ Spend
             /\ Put(r, NoRule)
             /\ start' = [start EXCEPT ![r] = None]
             /\ UNCHANGED <<dialog, queued, run, edit, loop, pending, link, crossed, faults>>
-----------------------------------------------------------------------------
(* _next_rule: a rule of the deque that may run, else one that is due      *)
(* before all others; nothing while the user's own request runs.           *)
Asked == {i \in 1..Len(pending) : svc = "mine" /\ rules[pending[i]].enabled}

(* Mutant: a broken network waits for the connection to come back.         *)
DueStatesButNetwork == {"waiting", "failed"}

DueStates == {"waiting", "waiting_network", "failed"}

Due == {r \in Rules : svc = "mine" /\ IsDue(r) /\ rules[r].enabled /\ rules[r].state \in DueStates}

Selected(r) == /\ loop = "on" /\ run.pc = "idle" /\ account = "mine" /\ edit.pc = "idle"
               /\ IF Asked # {} THEN \E i \in Asked : r = pending[i] /\ \A j \in Asked : i <= j
                  ELSE r \in Due /\ \A q \in Due : <<q, r>> \notin line

(* Behind the chosen rule the deque keeps its order.                       *)
Taken == pending' = IF Asked = {} THEN <<>> ELSE SubSeq(pending, Min(Asked) + 1, Len(pending))

(* _execute and run_rule up to its first await, or a refusal by maintenance.*)
Begin(r) ==
  /\ Selected(r) /\ Taken /\ online
  /\ Put(r, [rules[r] EXCEPT !.state = "running", !.due = "never"])
  /\ run' = [NoRun EXCEPT !.pc = IF rules[r].cursor = None THEN "base" ELSE "latest",
                          !.rule = {r}, !.copy = rules[r]]
  /\ UNCHANGED <<dialog, queued, edit, loop, link, past, user, faults>>

Refused(r) ==
  /\ Selected(r) /\ Taken /\ Fault
  /\ Put(r, [rules[r] EXCEPT !.state = "waiting", !.due = "later"])
  /\ UNCHANGED <<dialog, queued, run, edit, loop, link, past, user>>

RunBase == /\ run.pc = "base"
           /\ run' = [run EXCEPT !.pc = "ready", !.snap = Latest]
           /\ UNCHANGED <<dialog, rules, line, queued, edit, loop, pending, link, past, user, faults>>

(* A baseline without a history to catch up with ends the run.             *)
RunReady(r) ==
  LET ready == Ready(run, TRUE)
  IN  /\ run.pc = "ready" /\ run.rule = {r}
      /\ Put(r, ready)
      /\ start' = [start EXCEPT ![r] = ready.cursor]
      /\ run' = IF ready.through = None
                THEN [run EXCEPT !.pc = "commit", !.copy = ready, !.snap = ready.cursor]
                ELSE [run EXCEPT !.pc = "latest", !.copy = ready]
      /\ UNCHANGED <<dialog, queued, edit, loop, pending, link, crossed, user, faults>>

RunLatest == /\ run.pc = "latest"
             /\ run' = [run EXCEPT !.pc = "page",
                          !.snap = IF run.copy.through # None THEN run.copy.through ELSE Latest]
             /\ UNCHANGED <<dialog, rules, line, queued, edit, loop, pending, link, past, user, faults>>

(* incremental_messages: the oldest messages behind the cursor.            *)
Page == LET unread == {m \in (run.copy.cursor + 1)..run.snap : m \notin gone}
        IN  {m \in unread : Cardinality({n \in unread : n < m}) < PageLimit}

RunPage == /\ run.pc = "page"
           /\ run' = [run EXCEPT !.pc = "commit", !.page = Page]
           /\ UNCHANGED <<dialog, rules, line, queued, edit, loop, pending, link, past, user, faults>>

(* _match_messages: the hits of a page, their albums completed.            *)
Matched == UNION {Hits[run.copy.matcher][m] : m \in run.page}

(* Mutant: what is queued already is queued again.                         *)
FreshAll(S) == S

(* existing_media_keys before and create_task_deduplicating in the commit. *)
Fresh(S) == {x \in S : queued[x] = 0}

RunCommit ==
  /\ run.pc = "commit"
  /\ queued' = [x \in Media |-> IF x \in Fresh(Matched) THEN queued[x] + 1 ELSE queued[x]]
  /\ run' = [run EXCEPT !.pc = "advance"]
  /\ UNCHANGED <<dialog, rules, line, edit, loop, pending, link, past, user, faults>>

HasMore == Cardinality(run.page) >= PageLimit /\ Max(run.page \cup {0}) < run.snap

(* Mutant: a full page is taken for the last one.                          *)
ProcessedAll == run.snap

Processed == IF HasMore THEN Max(run.page) ELSE run.snap

CompletesBackfill(r) == run.copy.through # None /\ ~HasMore

(* advance_subscription refuses a cursor that would go back, and the end   *)
(* of a backfill the row does not have.                                    *)
MayAdvance(r) == /\ Exists(r)
                 /\ rules[r].cursor <= Processed
                 /\ CompletesBackfill(r) => rules[r].through = Processed

RunAdvance(r) ==
  /\ run.pc = "advance" /\ run.rule = {r} /\ MayAdvance(r)
  /\ Put(r, [rules[r] EXCEPT !.cursor = Processed, !.state = "waiting", !.due = "later",
                             !.through = IF CompletesBackfill(r) THEN None ELSE @])
  /\ run' = NoRun
  /\ UNCHANGED <<dialog, queued, edit, loop, pending, link, past, user, faults>>

(* _record_failure with what run_rule raised.  The row of another account, *)
(* or one that is gone, is a KeyError that ends the runner.                *)
Recorded(r, state) == [rules[r] EXCEPT !.state = state,
                         !.enabled = @ /\ state # "paused",
                         !.due = IF state \in {"auth_required", "paused"} THEN "never" ELSE "later"]

RunFailsWith(r, state) ==
  /\ IF Exists(r) /\ svc = "mine" THEN Put(r, Recorded(r, state)) /\ UNCHANGED loop
     ELSE loop' = "dead" /\ UNCHANGED <<rules, line>>
  /\ run' = NoRun
  /\ IF state = "auth_required" /\ svc = "mine" /\ Exists(r) THEN Disconnected
     ELSE UNCHANGED <<link, pending>>
  /\ UNCHANGED <<dialog, queued, edit, past, user>>

RunBreaks(r) ==
  /\ run.pc \in {"base", "ready", "latest", "page", "commit"} /\ run.rule = {r} /\ Fault
  /\ \E s \in {"waiting_network", "auth_required", "paused", "failed"} : RunFailsWith(r, s)

RunRejected(r) ==
  /\ run.pc = "advance" /\ run.rule = {r} /\ ~MayAdvance(r)
  /\ RunFailsWith(r, "failed") /\ UNCHANGED faults

(* The scheduler's shutdown cancels the run at its await.                  *)
Shutdown ==
  /\ loop = "on" /\ Fault
  /\ loop' = "closed" /\ run' = NoRun
  /\ IF run.pc # "idle" /\ svc = "mine" /\ \A r \in run.rule : Exists(r)
     THEN \E r \in run.rule : Put(r, [rules[r] EXCEPT !.state = "waiting", !.due = "now"])
     ELSE UNCHANGED <<rules, line>>
  /\ online' = FALSE /\ account' = "none" /\ UNCHANGED svc
  /\ pending' = <<>>
  /\ UNCHANGED <<dialog, queued, edit, past, user>>
-----------------------------------------------------------------------------
Service == \/ RunBase \/ RunLatest \/ RunPage \/ RunCommit
           \/ \E r \in Rules : Begin(r) \/ RunReady(r) \/ RunAdvance(r) \/ RunRejected(r)
Editor == EditReads \/ \E r \in Rules : EditSaves(r)
World == Post \/ GoOffline \/ Restart \/ Shutdown \/ Activate("mine") \/ Activate("other")
         \/ \E m \in 1..MaxPosts : DeleteMessage(m)
User == \E r \in Rules : \/ SmallEdit(r) \/ SetEnabled(r) \/ RunNow(r) \/ Delete(r)
                         \/ \E k \in Matchers : Edit(r, k)

Next == \/ Service \/ Editor \/ World \/ User \/ Activated
        \/ \E r \in Rules : Tick(r) \/ EditFails(r) \/ RunBreaks(r) \/ Refused(r)

Spec == Init /\ [][Next]_vars

(* The event loop runs what is ready, answers arrive or fail, time passes, *)
(* and an activation that has begun goes on.                               *)
FairSpec == Spec /\ WF_vars(Service) /\ WF_vars(Editor) /\ WF_vars(Activated)
                 /\ \A r \in Rules : WF_vars(Tick(r))
-----------------------------------------------------------------------------
Ids == None..MaxPosts
Row == [matcher : Matchers \cup {None}, enabled : BOOLEAN,
        state : {"none", "baselining", "waiting", "running", "paused", "waiting_network",
                 "auth_required", "failed"},
        cursor : Ids, through : Ids, due : {"never", "later", "now"}]
Work == [pc : {"idle", "base", "save", "ready", "latest", "page", "commit", "advance"},
         rule : SUBSET Rules, copy : Row, snap : Ids, page : SUBSET (1..MaxPosts)]

(* The types; the line is an order of rules that are due.                  *)
TypeOK ==
  /\ rules \in [Rules -> Row] /\ run \in Work /\ edit \in Work
  /\ queued \in [Media -> Nat] /\ loop \in {"off", "on", "dead", "closed"}
  /\ \A p \in line : p \in Rules \X Rules /\ p[1] # p[2] /\ IsDue(p[1]) /\ IsDue(p[2])
  /\ \A p, q \in line : p[2] = q[1] => <<p[1], q[2]>> \in line

(* A medium is put into a task once, however often its message is read     *)
(* again after a stop between the commit of its task and the cursor's.     *)
QueuedOnce == \A x \in Media : queued[x] <= 1

(* Nothing is skipped: behind the baseline and before the cursor, every    *)
(* message that is still there has its media queued, unless the rule was   *)
(* edited while it ran.                                                    *)
NothingMissed ==
  TypeOK /\ \A r \in Rules : Exists(r) /\ start[r] # None /\ r \notin crossed =>
    \A m \in (start[r] + 1)..rules[r].cursor \ gone :
      \A x \in Hits[rules[r].matcher][m] : queued[x] > 0

(* A rule that fails does not end the runner of all rules.                 *)
RunnerLives == loop # "dead"

(* When a rule stays enabled and the program online, whatever the dialog   *)
(* shows behind the baseline is queued in the end: no failure, stop or     *)
(* refused run leaves a rule that is not run again, as long as the runner  *)
(* has not ended with an error (which may leave a rule running for good).  *)
Able(r) == /\ Exists(r) /\ rules[r].enabled /\ online /\ svc = "mine" /\ account = "mine"
           /\ loop = "on"
Queued(r) == /\ start[r] # None
             /\ \A m \in (start[r] + 1)..posted \ gone :
                  \A x \in Hits[rules[r].matcher][m] : queued[x] > 0
CaughtUp == []RunnerLives =>
  \A r \in Rules : <>[](Able(r) /\ r \notin crossed) => <>[]Queued(r)

(* A deleted rule comes back only when the user creates one.               *)
DeletedStaysDeleted == [][\A r \in Rules : ~Exists(r) /\ Exists(r)' => user' > user]_vars
=============================================================================
