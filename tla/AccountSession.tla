---------------------------- MODULE AccountSession ----------------------------
(***************************************************************************)
(* The account the application works for: which gateway is the current     *)
(* one, which gateway the content browser and the subscriptions are bound  *)
(* to, whose account they show, which scheduler may start downloads, and   *)
(* which session the vault keeps.  Four coroutines of the event loop       *)
(* change them between each other's awaits: a log-in being finished (on    *)
(* the current gateway, or on a candidate that replaces it), the user who  *)
(* cancels it, the handler of an expired session, and the connection       *)
(* monitor (controller.py, account_access.py, connectivity.py).            *)
(*                                                                         *)
(* A gateway is numbered in the order it is made; the scheduler built for  *)
(* gateway g is scheduler g, and 0 is "none".  The download window is      *)
(* always open here; subscription probes and content operations are only   *)
(* the awaits they cost.                                                   *)
(***************************************************************************)
EXTENDS Integers, FiniteSets

CONSTANTS
  Gateways,     \* 1 .. n: the gateways one session of the program may make
  Accounts,     \* the Telegram accounts the user owns
  MaxActive,    \* bound on the downloads running at once
  Events        \* what may interfere in this instance: a part of AllEvents

VARIABLES
  gws,          \* gws[g]: connected?, and the account signed in on it
  gw,           \* AppController.gateway
  bound,        \* the gateway of ContentBrowser and SubscriptionService
  shown,        \* the account they show: [browser, timer]
  scheds,       \* scheds[g]: admission open?, downloads running
  sched,        \* AppController.scheduler
  disk, mem,    \* the session in the vault, and in self.secrets
  cand,         \* AppController._candidate_login
  asking,       \* start_candidate_login between its guard and its result
  fin,          \* the coroutine that finishes a log-in
  cxl,          \* cancel_login
  mon,          \* a check of the connection, and the handler it may call
  handled,      \* _session_expiry_handled
  crossed       \* history: the coroutines have crossed, see Coherent

vars == <<gws, gw, bound, shown, scheds, sched, disk, mem, cand, asking, fin, cxl,
          mon, handled, crossed>>
svc  == <<gw, bound, shown, scheds, sched, disk, mem, handled>>

AllEvents == {"cancel",       \* the user closes the log-in dialog
              "revoke",       \* Telegram revokes a session
              "drop"}         \* the current connection breaks
None == "none"
Idle == [pc |-> "idle", g |-> 0, qr |-> FALSE, old |-> 0, osched |-> 0, omem |-> None,
         saved |-> FALSE]
Rested == [pc |-> "idle", g |-> 0, osched |-> 0]

Init ==
  \E a \in Accounts :
    /\ gws = [g \in Gateways |-> [made |-> g = 1, up |-> FALSE, revoked |-> FALSE,
                                  acct |-> IF g = 1 THEN a ELSE None]]
    /\ gw = 1 /\ bound = 1 /\ sched = 1
    /\ shown = [browser |-> a, timer |-> a]
    /\ scheds = [g \in Gateways \cup {0} |-> [open |-> g = 1, active |-> 0]]
    /\ disk = a /\ mem = a
    /\ cand = 0 /\ asking = FALSE /\ fin = Idle /\ cxl = FALSE
    /\ mon = Rested /\ handled = FALSE /\ crossed = FALSE

Unmade == {g \in Gateways : ~gws[g].made}
Fresh  == CHOOSE g \in Unmade : \A h \in Unmade : g <= h
Made(up) == [gws EXCEPT ![Fresh] = [@ EXCEPT !.made = TRUE, !.up = up]]
SignedIn(g) == g # 0 /\ gws[g].acct # None
Disconnected(g) == [h \in Gateways |-> IF h = g THEN [gws[h] EXCEPT !.up = FALSE] ELSE gws[h]]
Shut(s) == [scheds EXCEPT ![s] = [open |-> FALSE, active |-> 0]]
Opened(s, o) == [scheds EXCEPT ![s].open = o /\ s # 0]

-----------------------------------------------------------------------------
(* Downloads run in the scheduler of the account they were started for.    *)
StartDownload ==
  /\ scheds[sched].open /\ scheds[sched].active < MaxActive /\ SignedIn(sched)
  /\ scheds' = [scheds EXCEPT ![sched].active = @ + 1]
  /\ UNCHANGED <<gws, gw, bound, shown, sched, disk, mem, handled, cand, asking, fin, cxl, mon, crossed>>

EndDownload ==
  \E s \in Gateways :
    /\ scheds[s].active > 0
    /\ scheds' = [scheds EXCEPT ![s].active = @ - 1]
    /\ UNCHANGED <<gws, gw, bound, shown, sched, disk, mem, handled, cand, asking, fin, cxl, mon, crossed>>

-----------------------------------------------------------------------------
(* Starting a candidate: refused while one exists or a download runs.  The  *)
(* user confirms and a gateway with an empty session is connected; the QR   *)
(* code that is then asked for cancels a waiter still at work.              *)
StartCandidate ==
  /\ ~asking /\ cand = 0 /\ scheds[sched].active = 0 /\ Unmade # {}
  /\ asking' = TRUE
  /\ UNCHANGED <<gws, svc, cand, fin, cxl, mon, crossed>>

(* Telegram has said yes to the QR code, its waiter has not saved the session. *)
Unsaved == fin.qr /\ fin.pc = "first"

CandidateConnects ==
  /\ asking /\ asking' = FALSE
  /\ \/ /\ Unmade # {}
        /\ cand' = Fresh /\ gws' = Made(TRUE)
        /\ fin' = IF fin.qr THEN Idle ELSE fin
        /\ crossed' = (crossed \/ Unsaved)
     \/ UNCHANGED <<gws, cand, fin, crossed>>
  /\ UNCHANGED <<svc, cxl, mon>>

(* _login_gateway: the candidate when there is one. *)
LoginGateway == IF cand # 0 THEN cand ELSE gw

(* The sign-in succeeds on the gateway the dialog logs in: submit_code,     *)
(* submit_password or the waiter of a QR code calls _finish_login.  A       *)
(* waiter can be cancelled, a submitted code cannot.                        *)
SignIn ==
  LET g == LoginGateway IN
  /\ fin.pc = "idle" /\ ~cxl
  /\ g # 0 /\ gws[g].up /\ gws[g].acct = None
  /\ \E a \in Accounts, qr \in BOOLEAN :
       /\ gws' = [gws EXCEPT ![g].acct = a]
       /\ fin' = [Idle EXCEPT !.g = g, !.qr = qr, !.pc = IF cand # 0 THEN "identify" ELSE "first"]
  /\ UNCHANGED <<svc, cand, asking, cxl, mon, crossed>>

(* _finish_login without a candidate: the session of the current gateway is *)
(* saved, then the name of its account is asked for.                        *)
FinishFirst ==
  /\ fin.pc = "first"
  /\ IF gw = 0 THEN fin' = Idle /\ UNCHANGED <<mem, disk>>
     ELSE /\ mem' = gws[gw].acct /\ disk' = gws[gw].acct
          /\ fin' = [fin EXCEPT !.pc = "name", !.g = gw]
  /\ UNCHANGED <<gws, gw, bound, shown, scheds, sched, handled, cand, asking, cxl, mon, crossed>>

FinishName ==
  /\ fin.pc = "name"
  /\ \/ gws[fin.g].up /\ handled' = FALSE /\ fin' = [fin EXCEPT !.pc = "show"]
     \/ fin' = Idle /\ UNCHANGED handled
  /\ UNCHANGED <<gws, gw, bound, shown, scheds, sched, disk, mem, cand, asking, cxl, mon, crossed>>

(* activate_content_account: the profile is read through the bound gateway; *)
(* errors are shown and swallowed here.                                     *)
FinishShow ==
  /\ fin.pc = "show"
  /\ fin' = Idle
  /\ \/ /\ SignedIn(bound) /\ gws[bound].up
        /\ shown' = [browser |-> gws[bound].acct, timer |-> gws[bound].acct]
     \/ UNCHANGED shown
  /\ UNCHANGED <<gws, gw, bound, scheds, sched, disk, mem, handled, cand, asking, cxl, mon, crossed>>

-----------------------------------------------------------------------------
(* The handler of an expired session has taken the services down. *)
Expiring == mon.pc \in {"shut", "fresh", "bind"}

(* _discard_candidate_login *)
Discard == cand' = 0 /\ gws' = Disconnected(cand)

(* Finishing a candidate: both profiles are read; another account needs the *)
(* user's word.  The guard on running downloads and the start of            *)
(* _commit_candidate_services follow without an await: the new services are *)
(* built, the old ones remembered, the old admission closed.                *)
(* Mutant: the guard of start_candidate_login is thought to be enough. *)
NoDownloadsAtStart == TRUE

NoDownloads == scheds[sched].active = 0

CommitOrRefuse ==
  IF NoDownloads
  THEN /\ fin' = [fin EXCEPT !.pc = "quiet", !.old = gw, !.osched = sched, !.omem = mem]
       /\ scheds' = [Opened(sched, FALSE) EXCEPT ![fin.g] = [open |-> TRUE, active |-> 0]]
       /\ crossed' = (crossed \/ Expiring)
       /\ UNCHANGED <<cand, gws>>
  ELSE Discard /\ fin' = Idle /\ UNCHANGED <<scheds, crossed>>

OldAccount == IF SignedIn(gw) /\ gws[gw].up THEN gws[gw].acct ELSE shown.browser

Identify ==
  /\ fin.pc = "identify"
  /\ \/ gws[fin.g].up /\ gws[fin.g].acct = OldAccount /\ CommitOrRefuse
     \/ /\ gws[fin.g].up /\ gws[fin.g].acct # OldAccount
        /\ fin' = [fin EXCEPT !.pc = "confirm"]
        /\ UNCHANGED <<cand, gws, scheds, crossed>>
     \/ Discard /\ fin' = Idle /\ UNCHANGED <<scheds, crossed>>             \* an error
  /\ UNCHANGED <<gw, bound, shown, sched, disk, mem, handled, asking, cxl, mon>>

Confirm ==
  /\ fin.pc = "confirm"
  /\ \/ CommitOrRefuse
     \/ Discard /\ fin' = Idle /\ UNCHANGED <<scheds, crossed>>             \* the user says no
  /\ UNCHANGED <<gw, bound, shown, sched, disk, mem, handled, asking, cxl, mon>>

(* The probe and the content operations have ended: binding, vault, then    *)
(* the controller's own fields, without an await.                           *)
CommitSwap ==
  /\ fin.pc = "quiet"
  /\ bound' = fin.g /\ gw' = fin.g /\ sched' = fin.g
  /\ disk' = gws[fin.g].acct /\ mem' = gws[fin.g].acct
  /\ fin' = [fin EXCEPT !.pc = "activate", !.saved = TRUE]
  /\ UNCHANGED <<gws, shown, scheds, handled, cand, asking, cxl, mon, crossed>>

CommitActivate ==                     \* ContentBrowser.activate_account
  /\ fin.pc = "activate" /\ gws[fin.g].up
  /\ shown' = [shown EXCEPT !.browser = gws[fin.g].acct]
  /\ fin' = [fin EXCEPT !.pc = "resume"]
  /\ UNCHANGED <<gws, gw, bound, scheds, sched, disk, mem, handled, cand, asking, cxl, mon, crossed>>

CommitDone ==                         \* the subscriptions resumed: committed
  /\ fin.pc = "resume"
  /\ shown' = [shown EXCEPT !.timer = gws[fin.g].acct]
  /\ cand' = 0 /\ handled' = FALSE
  /\ fin' = [fin EXCEPT !.pc = "cleanup"]
  /\ UNCHANGED <<gws, gw, bound, scheds, sched, disk, mem, asking, cxl, mon, crossed>>

(* The old scheduler ends its downloads, then the old gateway disconnects.  *)
CommitCleanup ==
  /\ fin.pc = "cleanup"
  /\ scheds' = Shut(fin.osched)
  /\ fin' = [fin EXCEPT !.pc = "close"]
  /\ UNCHANGED <<gws, gw, bound, shown, sched, disk, mem, handled, cand, asking, cxl, mon, crossed>>

CommitClose ==
  /\ fin.pc = "close"
  /\ gws' = Disconnected(fin.old)
  /\ fin' = Idle
  /\ UNCHANGED <<svc, cand, asking, cxl, mon, crossed>>

(* The finally block of a commit that did not reach its end: fields,        *)
(* binding and vault go back and admission is opened; then the new          *)
(* scheduler is shut down and the candidate discarded.                      *)
(* Mutant: the roll-back puts the fields back and forgets the binding. *)
RestoreFields ==
  /\ gw' = fin.old /\ sched' = fin.osched /\ mem' = fin.omem
  /\ disk' = IF fin.saved THEN fin.omem ELSE disk
  /\ scheds' = Opened(fin.osched, TRUE)
  /\ fin' = [fin EXCEPT !.pc = "undo"]
  /\ UNCHANGED bound

Restore ==
  /\ gw' = fin.old /\ sched' = fin.osched /\ mem' = fin.omem /\ bound' = fin.old
  /\ disk' = IF fin.saved THEN fin.omem ELSE disk
  /\ scheds' = Opened(fin.osched, TRUE)
  /\ fin' = [fin EXCEPT !.pc = "undo"]

Committing == fin.pc \in {"quiet", "activate", "resume"}

CommitFails ==
  /\ Committing /\ Restore
  /\ UNCHANGED <<gws, shown, handled, cand, asking, cxl, mon, crossed>>

Undo ==
  /\ fin.pc = "undo"
  /\ scheds' = Shut(fin.g)
  /\ Discard /\ fin' = Idle
  /\ UNCHANGED <<gw, bound, shown, sched, disk, mem, handled, asking, cxl, mon, crossed>>

-----------------------------------------------------------------------------
(* cancel_login, from the open dialog: it cancels a waiter of a QR code     *)
(* wherever that is and waits for it to end.                                *)
CancelLogin ==
  /\ "cancel" \in Events /\ ~cxl /\ cxl' = TRUE
  /\ cand # 0 \/ (gw # 0 /\ (~SignedIn(gw) \/ fin.pc \in {"first", "name"}))
  /\ IF fin.qr /\ Committing THEN Restore
     ELSE fin' = (IF fin.qr THEN Idle ELSE fin) /\ UNCHANGED <<gw, sched, mem, bound, disk, scheds>>
  /\ crossed' = (crossed \/ Unsaved)
  /\ UNCHANGED <<gws, shown, handled, cand, asking, mon>>

(* Then the candidate is discarded or, when there is none (any more), the   *)
(* current gateway disconnected.                                            *)
CancelEnds ==
  /\ cxl /\ cxl' = FALSE
  /\ fin.qr => fin.pc = "idle"
  /\ IF cand # 0 THEN Discard ELSE gws' = Disconnected(gw) /\ UNCHANGED cand
  /\ UNCHANGED <<svc, asking, fin, mon, crossed>>

-----------------------------------------------------------------------------
(* The network and Telegram. *)
Drop ==
  /\ "drop" \in Events /\ gw # 0 /\ gws[gw].up
  /\ gws' = Disconnected(gw)
  /\ UNCHANGED <<svc, cand, asking, fin, cxl, mon, crossed>>

Revoke ==
  /\ "revoke" \in Events /\ SignedIn(gw) /\ \A g \in Gateways : ~gws[g].revoked
  /\ gws' = [gws EXCEPT ![gw].revoked = TRUE]
  /\ UNCHANGED <<svc, cand, asking, fin, cxl, mon, crossed>>

(* ensure_telegram_online: reconnect the gateway that was current when the  *)
(* check began (ConnectionRecovery), then verify the one that is current.   *)
Check ==
  /\ mon.pc = "idle" /\ gw # 0
  /\ mon' = [mon EXCEPT !.pc = IF gws[gw].up THEN "verify" ELSE "connect", !.g = gw]
  /\ UNCHANGED <<gws, svc, cand, asking, fin, cxl, crossed>>

Reconnect ==
  /\ mon.pc = "connect"
  /\ \/ gws' = [gws EXCEPT ![mon.g].up = TRUE] /\ mon' = [mon EXCEPT !.pc = "verify", !.g = gw]
     \/ UNCHANGED gws /\ mon' = Rested
  /\ UNCHANGED <<svc, cand, asking, fin, cxl, crossed>>

Verify ==
  /\ mon.pc = "verify"
  /\ IF mon.g # 0 /\ gws[mon.g].revoked /\ ~handled
     THEN handled' = TRUE /\ mon' = [mon EXCEPT !.pc = "quiet"]
     ELSE mon' = Rested /\ UNCHANGED handled
  /\ UNCHANGED <<gws, gw, bound, shown, scheds, sched, disk, mem, cand, asking, fin, cxl, crossed>>

(* _handle_session_expired after its first awaits: offline, the session is  *)
(* removed, the services that are current now are taken down.               *)
ExpireOffline ==
  /\ mon.pc = "quiet"
  /\ bound' = 0 /\ shown' = [shown EXCEPT !.timer = None]
  /\ mem' = None /\ disk' = None
  /\ gw' = 0 /\ sched' = 0
  /\ mon' = [pc |-> "shut", g |-> gw, osched |-> sched]
  /\ crossed' = (crossed \/ Committing)
  /\ UNCHANGED <<gws, scheds, handled, cand, asking, fin, cxl>>

ExpireShut ==
  /\ mon.pc = "shut"
  /\ scheds' = Shut(mon.osched)
  /\ mon' = [mon EXCEPT !.pc = "fresh"]
  /\ UNCHANGED <<gws, gw, bound, shown, sched, disk, mem, handled, cand, asking, fin, cxl, crossed>>

ExpireFresh ==
  /\ mon.pc = "fresh" /\ Unmade # {}
  /\ gw' = Fresh
  /\ gws' = [Disconnected(mon.g) EXCEPT ![Fresh] = [@ EXCEPT !.made = TRUE]]
  /\ mon' = [mon EXCEPT !.pc = "bind", !.g = Fresh]
  /\ UNCHANGED <<bound, shown, scheds, sched, disk, mem, handled, cand, asking, fin, cxl, crossed>>

ExpireBind ==
  /\ mon.pc = "bind"
  /\ bound' = mon.g /\ sched' = mon.g
  /\ scheds' = Opened(mon.g, TRUE)
  /\ \E ok \in BOOLEAN : gws' = [gws EXCEPT ![mon.g].up = ok]
  /\ mon' = Rested
  /\ UNCHANGED <<gw, shown, disk, mem, handled, cand, asking, fin, cxl, crossed>>

-----------------------------------------------------------------------------
Finish == \/ FinishFirst \/ FinishName \/ FinishShow \/ Identify \/ Confirm \/ CommitSwap
          \/ CommitActivate \/ CommitDone \/ CommitCleanup \/ CommitClose \/ CommitFails \/ Undo
Expire == ExpireOffline \/ ExpireShut \/ ExpireFresh \/ ExpireBind

Next ==
  \/ StartDownload \/ EndDownload \/ StartCandidate \/ CandidateConnects \/ SignIn
  \/ Finish \/ CancelLogin \/ CancelEnds \/ Drop \/ Revoke \/ Check \/ Reconnect \/ Verify
  \/ Expire

Spec == Init /\ [][Next]_vars
Fairness == WF_vars(Finish) /\ WF_vars(CancelEnds) /\ WF_vars(Expire)
FairSpec == Spec /\ Fairness

-----------------------------------------------------------------------------
Rest == fin.pc = "idle" /\ mon.pc = "idle" /\ ~cxl /\ ~asking

(* Type invariant. *)
TypeOK ==
  /\ {gw, bound, sched, cand} \subseteq Gateways \cup {0}
  /\ {disk, mem, shown.browser, shown.timer} \subseteq Accounts \cup {None}
  /\ \A s \in Gateways : scheds[s].active \in 0 .. MaxActive

(* Changing the account never ends a download that runs for the old one:    *)
(* the admission is closed before the first await after the guard, so the   *)
(* old scheduler is idle when it is shut down at the end of the commit.     *)
SwitchCutsNothing == fin.pc = "cleanup" => scheds[fin.osched].active = 0

(* When no log-in, cancellation, check or expiry is at work, the content    *)
(* pages, the subscriptions and the scheduler all use the current gateway,  *)
(* and the saved session is its account's, however the last one ended.      *)
(* Nothing in the code keeps two crossings apart, and after them it may not  *)
(* be so: an expiry that takes the services down while a commit replaces     *)
(* them (the roll-back of the one and the binding of the other do not look   *)
(* at what is current), and a waiter that is stopped after Telegram's yes.   *)
Coherent ==
  Rest /\ ~crossed =>
    /\ bound = gw /\ sched = gw
    /\ SignedIn(gw) => disk = gws[gw].acct

(* A log-in that was finished on Telegram's side ends here as well.         *)
LoginEnds == fin.pc # "idle" ~> fin.pc = "idle"

(* After a log-in that failed or was cancelled the pages show the account   *)
(* of the gateway they use (the account-safe re-login design document: the  *)
(* roll-back restores the display of the old account).                      *)
RollbackRestoresAccount == Rest /\ SignedIn(bound) => shown.browser = gws[bound].acct
=============================================================================
