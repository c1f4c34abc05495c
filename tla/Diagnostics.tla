------------------------------ MODULE Diagnostics ------------------------------
(***************************************************************************)
(* The health diagnosis: the service that runs its checks one after the    *)
(* other (diagnostics.py), the page and the controller around it           *)
(* (ui/diagnostics.py, controller.py) and the store of the last report     *)
(* (diagnostic_store.py).  The checks themselves and the store's white     *)
(* list are DiagnosticProbes; a diagnosis here takes two checks that       *)
(* follow each other, and a report on disk or on the page is known by the  *)
(* number of its diagnosis (0: none).                                      *)
(***************************************************************************)
EXTENDS DiagnosticProbes

CONSTANT MaxRuns                                             \* bound: diagnoses of one session

VARIABLES
  first,      \* the first of the two checks, by its place in Ids
  run,        \* the number of the diagnosis under way, or of the last one
  service,    \* "idle", "running": _active_task
  child,      \* "none", "working", "cancelled": _active_child
  event,      \* _cancel_event is set
  results,    \* the results so far
  report,     \* the report on its way from the service to the store, or NoReport
  page,       \* the page: its report, the running and cancelling flags, its error
  cancelling, \* a click on cancel waits for the service
  loading,    \* the report an activation of the page has read, or Nothing
  disk,       \* the report in latest.json
  package     \* the report in the last exported package

vars == <<first, run, service, child, event, results, report, page, cancelling, loading, disk, package>>

Nothing  == MaxRuns + 1
NoReport == [status |-> "none", results |-> <<>>]
Check(i) == first + i - 1
Name(i)  == Ids[Check(i)]

Init ==
  /\ first \in 1 .. Len(Ids) - 1
  /\ run = 0 /\ service = "idle" /\ child = "none" /\ event = FALSE /\ results = <<>> /\ report = NoReport
  /\ page = [report |-> 0, running |-> FALSE, cancelling |-> FALSE, error |-> FALSE]
  /\ cancelling = FALSE /\ loading = Nothing /\ disk = 0 /\ package = 0

-----------------------------------------------------------------------------
(* run_diagnostics: the button is disabled while the page is running.      *)
Start ==
  /\ ~page.running /\ run < MaxRuns
  /\ run' = run + 1
  /\ page' = [page EXCEPT !.running = TRUE, !.cancelling = FALSE, !.error = FALSE]
  /\ service' = "running" /\ event' = FALSE /\ results' = <<>>
  /\ UNCHANGED <<first, child, report, cancelling, loading, disk, package>>

Cancelled == Result("cancelled", "check-cancelled", {})

(* The turn of _run between two checks: the next one is started, or        *)
(* answered in its place once the diagnosis is cancelled.                   *)
Begin ==
  /\ service = "running" /\ child = "none" /\ Len(results) < 2
  /\ IF event
       THEN /\ results' = Append(results, Cancelled)
            /\ UNCHANGED child
       ELSE child' = "working" /\ UNCHANGED results
  /\ UNCHANGED <<first, run, service, event, report, page, cancelling, loading, disk, package>>

(* _execute_probe: the check's own result, an error it lets through, or     *)
(* its cancellation; a check in a thread that has not begun notices the      *)
(* cancellation too.                                                         *)
Ends ==
  /\ child # "none"
  /\ \E r \in IF child = "cancelled" THEN {Cancelled}
              ELSE Outcomes[Check(Len(results) + 1)] \cup {Result("failed", "probe-failed", {})}
                   \cup (IF event THEN {Cancelled} ELSE {}) :
       results' = Append(results, r)
  /\ child' = "none"
  /\ UNCHANGED <<first, run, service, event, report, page, cancelling, loading, disk, package>>

Reduced(rs, cancelled) ==
  LET has(s) == \E i \in DOMAIN rs : rs[i].status = s IN
  CASE cancelled -> "cancelled"
    [] ~cancelled /\ has("failed") -> "failed"
    [] ~cancelled /\ ~has("failed") /\ has("warning") -> "warning"
    [] ~cancelled /\ ~has("failed") /\ ~has("warning") -> IF has("passed") THEN "passed" ELSE "warning"

Finish ==
  /\ service = "running" /\ child = "none" /\ Len(results) = 2
  /\ report' = [status |-> Reduced(results, event), results |-> results]
  /\ service' = "idle" /\ results' = <<>>
  /\ UNCHANGED <<first, run, child, event, page, cancelling, loading, disk, package>>

-----------------------------------------------------------------------------
(* cancel_diagnostics: a check that waits for the network is interrupted,   *)
(* one that works in a thread is let finish.                                *)
Cancel ==
  /\ page.running /\ ~page.cancelling /\ ~cancelling
  /\ cancelling' = TRUE
  /\ page' = [page EXCEPT !.cancelling = TRUE]
  /\ event' = (event \/ service = "running")
  /\ child' = IF service = "running" /\ child = "working" /\ ~Threaded(Name(Len(results) + 1))
                THEN "cancelled" ELSE child
  /\ UNCHANGED <<first, run, service, results, report, loading, disk, package>>

CancelEnds ==
  /\ cancelling /\ service = "idle"
  /\ cancelling' = FALSE
  /\ page' = [page EXCEPT !.cancelling = FALSE]
  /\ UNCHANGED <<first, run, service, child, event, results, report, loading, disk, package>>

-----------------------------------------------------------------------------
(* _validate_report_contract, and what _parse_report asks of the total.     *)
Accepted(r) ==
  /\ \A i \in DOMAIN r.results : Listed(Name(i), r.results[i])
  /\ r.status = Reduced(r.results, r.status = "cancelled")

(* persist_report in its thread, then the page: what cannot be written is    *)
(* not shown.                                                                *)
Save ==
  /\ report # NoReport
  /\ \E written \in BOOLEAN :
       IF written /\ Accepted(report)
         THEN /\ disk' = run
              /\ page' = [page EXCEPT !.report = run, !.running = FALSE, !.cancelling = FALSE]
         ELSE /\ page' = [page EXCEPT !.error = TRUE, !.running = FALSE, !.cancelling = FALSE]
              /\ UNCHANGED disk
  /\ report' = NoReport
  /\ UNCHANGED <<first, run, service, child, event, results, cancelling, loading, package>>

(* activate_diagnostics: the file is read in a thread and shown when the     *)
(* coroutine gets its turn.                                                  *)
Activate ==
  /\ loading = Nothing /\ loading' = disk
  /\ UNCHANGED <<first, run, service, child, event, results, report, page, cancelling, disk, package>>

ShowLoaded ==
  /\ loading # Nothing
  /\ page' = [page EXCEPT !.report = loading]
  /\ loading' = Nothing
  /\ UNCHANGED <<first, run, service, child, event, results, report, cancelling, disk, package>>

(* export_diagnostics takes the report the page shows.                       *)
Export ==
  /\ ~page.running /\ page.report # 0
  /\ package' = page.report
  /\ UNCHANGED <<first, run, service, child, event, results, report, page, cancelling, loading, disk>>

Next == \/ Start \/ Begin \/ Ends \/ Finish \/ Cancel \/ CancelEnds \/ Save
        \/ Activate \/ ShowLoaded \/ Export

(* The event loop serves the runner and the canceller, the thread pool the   *)
(* store; every check has a time limit of its own.                           *)
Fairness == /\ WF_vars(Begin) /\ WF_vars(Ends) /\ WF_vars(Finish) /\ WF_vars(CancelEnds) /\ WF_vars(Save)

FairSpec == Init /\ [][Next]_vars /\ Fairness

-----------------------------------------------------------------------------
TypeOK ==
  /\ first \in 1 .. Len(Ids) - 1 /\ run \in 0 .. MaxRuns /\ service \in {"idle", "running"}
  /\ child \in {"none", "working", "cancelled"} /\ event \in BOOLEAN /\ Len(results) <= 2
  /\ page.report \in 0 .. run /\ disk \in 0 .. run /\ loading \in 0 .. run \cup {Nothing}
  /\ package \in 0 .. run /\ cancelling \in BOOLEAN

(* Every report the nine checks can lead to passes the store's white list,   *)
(* whose entries are kept by hand in another file: none is lost for a word   *)
(* the list does not know.                                                   *)
ReportsAreAccepted == report # NoReport => Accepted(report)

(* After a cancellation nothing more is checked: in a report every result    *)
(* that follows a cancelled one is cancelled, and the total says so.          *)
CancelledIsSuffix ==
  report # NoReport =>
    \A i, j \in DOMAIN report.results :
      /\ i < j /\ report.results[i].status = "cancelled" => report.results[j].status = "cancelled"
      /\ report.results[i].status = "cancelled" => report.status = "cancelled"

(* A diagnosis that was started ends with the page free for the next one,    *)
(* whatever the checks, the store and the user do; no click on cancel stays   *)
(* without an answer.                                                         *)
DiagnosisEnds == /\ page.running ~> ~page.running
                 /\ cancelling ~> ~cancelling
=============================================================================
