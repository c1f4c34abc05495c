-------------------------------- MODULE MCTasks --------------------------------
(***************************************************************************)
(* A task whose files are verified and repaired (DownloadScheduler), the   *)
(* page that shows tasks to several callers (TaskRefresh, as Page) and the *)
(* search that finds the media of new ones (ContentSearch, as Search), in  *)
(* one run: `kind` chooses the one that moves, the others stay in their    *)
(* first states.                                                            *)
(*                                                                         *)
(* Of the dialog, message 4 is single; album 3, 2 is found by its older    *)
(* part; 1 is a text without a medium.  Under the smaller limit the album  *)
(* does not fit any more.                                                   *)
(***************************************************************************)
EXTENDS DownloadScheduler, SearchState

CONSTANTS Shown, Viewers, MaxChanges, MaxEvents   \* TaskRefresh: its tasks, its callers and bounds

OneTask == {1}
TwoFiles == <<2>>
MCFound == {1, 2, 4}
MCHits == {2, 4}
MCAlbums == {{3, 2}}

VARIABLES kind,
  change, view, dash, epoch, switching, gen, active, closed, rev, dirty, immediate, applied,
  fullRev, pendingFull, progress, reconcile, loader, wake, load, call, spent,
  browse, threads, queue, online, searches, faults, ticks

page == <<change, view, dash, epoch, switching, gen, active, closed, rev, dirty, immediate, applied,
          fullRev, pendingFull, progress, reconcile, loader, wake, load, call, spent>>
search == <<scope, limit, session, rows, browse, threads, intents, queue, tasks, online, searches,
            faults, ticks>>

Page == INSTANCE TaskRefresh WITH Tasks <- Shown, Callers <- Viewers, row <- change, worker <- loader
Search == INSTANCE ContentSearch WITH op <- browse, user <- ticks

MCInit == /\ kind \in {"repairs", "page", "search"} /\ Init /\ Page!Init /\ Search!Init
          /\ kind # "search" => scope = "all" /\ limit = (CHOOSE l \in Limits : TRUE)
MCNext == /\ UNCHANGED kind
          /\ \/ kind = "repairs" /\ Next /\ UNCHANGED <<page, search>>
             \/ kind = "page" /\ Page!Next /\ UNCHANGED <<vars, search>>
             \/ kind = "search" /\ Search!Next /\ UNCHANGED <<vars, page>>

(* The fairness of ContentSearch; the safety of the others needs none.       *)
MCSpec == /\ MCInit /\ [][MCNext]_<<kind, vars, page, search>>
          /\ WF_search(kind = "search" /\ Search!Operation)
          /\ WF_search(kind = "search" /\ Search!Threads)
          /\ WF_search(kind = "search" /\ Search!LoadMore)
          /\ WF_search(kind = "search" /\ Search!Activate)
-----------------------------------------------------------------------------
(* The page shows rows, never goes back, and shows what was asked for.       *)
PageKeepsUp == Page!PageKeepsUp

(* Whoever goes on asking for more gets to the end of the search.            *)
SearchEnds == Search!SearchEnds
================================================================================
