----------------------------- MODULE TaskPlanning -----------------------------
(***************************************************************************)
(* From links, ticked results or a subscription's matches to a task:       *)
(* TaskPlanner (planner.py) with batch_import.py, links.py, the names of   *)
(* files.py, the inserting commands of repository.py and the controller's  *)
(* scans.  Four flows plan at the same time; each reads what is queued and *)
(* what is on disk when it builds its preview, waits for the user, and     *)
(* commits later.                                                          *)
(***************************************************************************)
EXTENDS Integers, FiniteSets, SequencesExt

CONSTANTS
  Posts,         \* what the peers hold, oldest first: [peer, names, msg, name];
                 \* names: the texts by which links reach the peer, its id too
  Lines,         \* the pasted links: [form, ref, msg], msg = -1 is none
  MaxBatchMedia,
  MaxPlans       \* bound: plans of one session

Flows == {"scan", "batch", "queue", "subscription"}

VARIABLES
  rows,      \* media_items: [task, media, target]
  tasks,     \* the ids in tasks
  files,     \* the paths with a file
  naming,    \* the file name template: "name", or "id" for {stem}__{message_id}
  flow,      \* per flow: [pc, left (links), found (media), plan, task]
  plans      \* the plans begun so far; also the next id

vars == <<rows, tasks, files, naming, flow, plans>>

Resting == [pc |-> "idle", left |-> <<>>, found |-> <<>>, plan |-> <<>>, task |-> 0]
(* (peer_ref, message_id, media_id): the peer as the flow writes it. *)
Media   == [post : ToSet(Posts), ref : UNION {m.names : m \in ToSet(Posts)}]

Init == /\ rows = {} /\ tasks = {} /\ plans = 0 /\ naming = "name"
        /\ files \in SUBSET {<<Posts[1].name>>, <<Posts[1].name, "_", Posts[1].msg>>}
        /\ flow = [f \in Flows |-> Resting]

Queued == {r.media : r \in rows}
Keys(plan) == {plan[k].media : k \in DOMAIN plan}
(* A subscription plans and commits without an await: only the threads of   *)
(* "queue" get between.                                                      *)
Free(f) == f \in {"queue", "subscription"} \/ flow["subscription"].pc # "confirm"

(* The messages of the peers are told apart, and a peer's id reaches it.     *)
PostsAssumption == /\ Posts \in Seq(ToSet(Posts)) /\ IsInjective(Posts)
                   /\ \A m \in ToSet(Posts) : m.peer \in m.names

(* The elements of a sequence that are in a set, in their order.             *)
Kept(s, S) ==
  LET kept[n \in 0 .. Len(s)] == IF n = 0 THEN <<>>
                                 ELSE IF s[n] \in S THEN Append(kept[n - 1], s[n]) ELSE kept[n - 1]
  IN  kept[Len(s)]

-----------------------------------------------------------------------------
(* parse_telegram_link: t.me/s/x and t.me/x are one link; a message 0 is    *)
(* refused, with whatever else has no known form.                            *)
Valid(line)  == line.form # "bad" /\ line.msg # 0
Parsed(line) == [line EXCEPT !.form = IF @ = "preview" THEN "public" ELSE @]

(* parse_batch_links: invalid lines are issues, repeated links are dropped. *)
Links == LET valid == SelectSeq(Lines, Valid)
             links == [k \in DOMAIN valid |-> Parsed(valid[k])]
         IN  FoldLeft(LAMBDA s, l : IF l \in ToSet(s) THEN s ELSE Append(s, l), <<>>, links)

(* What a scan of a link finds: its one message, or the peer's messages.     *)
(* Their keys name the peer as the link does: a public and a private link of *)
(* one channel give one message two keys.                                     *)
Served(link) ==
  LET posts == Kept(Posts, {m \in ToSet(Posts) : link.ref \in m.names /\ link.msg \in {-1, m.msg}})
  IN  [k \in DOMAIN posts |-> [post |-> posts[k], ref |-> link.ref]]

(* A content page and a subscription name the peer by its id. *)
Ticked(chosen) == LET posts == Kept(Posts, chosen)
                  IN  [k \in DOMAIN posts |-> [post |-> posts[k], ref |-> posts[k].peer]]

(* scan_batch: a medium that two links serve is taken once. *)
Merged(found, new) == found \o Kept(new, Media \ ToSet(found))

(* render_download_target and disambiguate_target. *)
Rendered(m) == IF naming = "id" THEN <<m.post.name, "__", m.post.msg>> ELSE <<m.post.name>>
Disambiguated(base, m) == IF Len(base) = 3 THEN base ELSE base \o <<"_", m.post.msg>>

(* Mutant: the name with the message's number is taken unseen. *)
AvailableUnseen(m, used) ==
  IF Rendered(m) \notin used \cup files THEN Rendered(m) ELSE Disambiguated(Rendered(m), m)

(* _available_target: the plain name, else with the message's number, else  *)
(* with the first sequence number that is free.                              *)
Available(m, used) ==
  LET base == Rendered(m)
      ided == Disambiguated(base, m)
      choices == <<base, ided>> \o [n \in 1 .. Cardinality(used \cup files) |-> ided \o <<"_", n + 1>>]
  IN  choices[SelectInSeq(choices, LAMBDA t : t \notin used \cup files)]

Targeted(plan, m) ==
  Append(plan, [media |-> m, target |-> Available(m, {plan[k].target : k \in DOMAIN plan})])

(* _build_preview: once each, without what is queued, each with its target. *)
Built(found) ==
  LET new == Kept(found, Media \ Queued)
      plan[n \in 0 .. Len(new)] == IF n = 0 THEN <<>> ELSE Targeted(plan[n - 1], new[n])
  IN  plan[Len(new)]

-----------------------------------------------------------------------------
To(f, step) == flow' = [flow EXCEPT ![f] = step]

(* scan_link, scan_links, queue_content_selection with ticked results, and a *)
(* subscription's matches.                                                   *)
Begin(f) ==
  /\ flow[f].pc = "idle" /\ plans < MaxPlans /\ Free(f)
  /\ plans' = plans + 1
  /\ \/ /\ f = "scan" /\ \E k \in DOMAIN Links :
                           To(f, [Resting EXCEPT !.pc = "scanning", !.left = <<Links[k]>>, !.task = plans'])
     \/ /\ f = "batch" /\ \E n \in DOMAIN Links :
                            To(f, [Resting EXCEPT !.pc = "scanning", !.left = SubSeq(Links, 1, n), !.task = plans'])
     \/ /\ f \in {"queue", "subscription"}
        /\ \E chosen \in (SUBSET ToSet(Posts)) \ {{}} :
             To(f, [Resting EXCEPT !.pc = "scanning", !.task = plans', !.found = Ticked(chosen)])
  /\ UNCHANGED <<rows, tasks, files, naming>>

(* One link's messages arrive; too many media refuse the batch. *)
ScanLink(f) ==
  /\ flow[f].pc = "scanning" /\ flow[f].left # <<>> /\ Free(f)
  /\ LET found == Merged(flow[f].found, Served(Head(flow[f].left))) IN
     To(f, IF f = "batch" /\ Len(found) > MaxBatchMedia THEN Resting
           ELSE [flow[f] EXCEPT !.found = found, !.left = Tail(@)])
  /\ UNCHANGED <<rows, tasks, files, naming, plans>>

(* Nothing new to plan is an error the user sees. *)
Preview(f) ==
  /\ flow[f].pc = "scanning" /\ flow[f].left = <<>> /\ Free(f)
  /\ To(f, IF Built(flow[f].found) = <<>> THEN Resting
           ELSE [flow[f] EXCEPT !.pc = "confirm", !.found = <<>>, !.plan = Built(flow[f].found)])
  /\ UNCHANGED <<rows, tasks, files, naming, plans>>

(* create_task_deduplicating: the media of a plan that no row has (UNIQUE). *)
New(f) == {i \in ToSet(flow[f].plan) : i.media \notin Queued}
Rows(f, new) == {[task |-> flow[f].task, media |-> i.media, target |-> i.target] : i \in new}

(* Mutants: a medium queued meanwhile refuses the plan; a plan of which      *)
(* nothing is left becomes a task.                                            *)
CommitAllOrNothing(f) ==
  /\ flow[f].pc = "confirm" /\ Free(f)
  /\ LET new == IF New(f) = ToSet(flow[f].plan) THEN New(f) ELSE {} IN
     /\ rows' = rows \cup Rows(f, new)
     /\ tasks' = IF new = {} THEN tasks ELSE tasks \cup {flow[f].task}
  /\ To(f, Resting)
  /\ UNCHANGED <<files, naming, plans>>

CommitEmpty(f) ==
  /\ flow[f].pc = "confirm" /\ Free(f)
  /\ rows' = rows \cup Rows(f, New(f)) /\ tasks' = tasks \cup {flow[f].task}
  /\ To(f, Resting)
  /\ UNCHANGED <<files, naming, plans>>

(* The user confirms: one transaction inserts the task and its new media;    *)
(* with none it is rolled back.                                               *)
Commit(f) ==
  /\ flow[f].pc = "confirm" /\ Free(f)
  /\ rows' = rows \cup Rows(f, New(f))
  /\ tasks' = IF New(f) = {} THEN tasks ELSE tasks \cup {flow[f].task}
  /\ To(f, Resting)
  /\ UNCHANGED <<files, naming, plans>>

(* The gateway fails, the download folder is not available, the user         *)
(* declines, the action is cancelled.                                         *)
GiveUp(f) ==
  /\ flow[f].pc # "idle" /\ Free(f)
  /\ To(f, Resting)
  /\ UNCHANGED <<rows, tasks, files, naming, plans>>

(* configure_naming, after a preview or before. *)
Configure ==
  /\ naming = "name" /\ naming' = "id"
  /\ UNCHANGED <<rows, tasks, files, flow, plans>>

(* The downloader leaves a file at a row's target. *)
Download(r) ==
  /\ r.target \notin files
  /\ files' = files \cup {r.target}
  /\ UNCHANGED <<rows, tasks, naming, flow, plans>>

Next == \/ \E f \in Flows : Begin(f) \/ ScanLink(f) \/ Preview(f) \/ Commit(f) \/ GiveUp(f)
        \/ Configure
        \/ \E r \in rows : Download(r)

Spec == Init /\ [][Next]_vars

-----------------------------------------------------------------------------
(* The records the variables hold.                                           *)
TypeOK ==
  /\ naming \in {"name", "id"} /\ plans \in 0 .. MaxPlans /\ tasks \subseteq 1 .. plans
  /\ \A r \in rows : r.media \in Media /\ r.task \in tasks
  /\ \A f \in Flows : /\ flow[f].pc \in {"idle", "scanning", "confirm"}
                      /\ flow[f].task \in 0 .. plans

(* Within one plan and one task no two media share a file, though all are    *)
(* named alike, the peers number their messages alike, and one message may    *)
(* be there under two names of its peer.                                       *)
TargetsApart ==
  /\ \A r, s \in rows : r.task = s.task /\ r.target = s.target => r = s
  /\ \A f \in Flows : \A j, k \in DOMAIN flow[f].plan :
       flow[f].plan[j].target = flow[f].plan[k].target => j = k

(* What the user confirms is queued, by this plan or by another that was     *)
(* quicker, however much of it was queued since the preview.                  *)
ConfirmedIsQueued ==
  [][\A f \in Flows : Commit(f) => Keys(flow[f].plan) \subseteq {r.media : r \in rows'}]_vars

(* "Files of the same name from different messages get `_<message_id>`":     *)
(* two messages never share a file.                                           *)
OwnTarget == \A r, s \in rows : r.media.post # s.media.post => r.target # s.target
=============================================================================
