------------------------------ MODULE UpdateFetch ------------------------------
(***************************************************************************)
(* A check for updates and the download of the package it finds            *)
(* (update.py, update_sources.py, update_download.py, update_contract.py,  *)
(* controller.py).  The two sources publish manifests for the installed    *)
(* release ("old") or for one newer version, which may have been issued    *)
(* twice ("a", "b": one file name, two contents).  Files are sequences of  *)
(* pieces; what follows the launch of the helper is UpdateTransaction.     *)
(***************************************************************************)
EXTENDS Naturals, Sequences

CONSTANTS
  Trouble,      \* what may go wrong: a subset of AllTrouble
  MaxKills      \* bound: times the program is killed
AllTrouble == {"answers", "decline", "busy", "space", "content", "network", "range", "locked", "helper"}

VARIABLES
  stage,   \* where the check stands
  target,  \* the issue whose manifest was accepted
  order,   \* the sources that are left to try
  pack,    \* the package in staging
  part,    \* the partial file
  meta,    \* its metadata: the issue it is for
  stream,  \* the rest of the answer being read
  begun,   \* auxiliary: the issue whose download began the partial file
  kills

vars == <<stage, target, order, pack, part, meta, stream, begun, kills>>

Sources == {"github", "modelscope"}
None    == <<>>                                              \* no such file: there are no empty ones
Content == [a |-> <<"a", "a">>, b |-> <<"b">>, junk |-> <<"x", "x", "x">>]
Size    == Len(Content[target])

Init == /\ stage = "idle" /\ target = "a" /\ order = <<>> /\ kills = 0
        /\ pack = None /\ part = None /\ meta = "none" /\ stream = <<>> /\ begun = "a"

-----------------------------------------------------------------------------
(* _check_source and verify_manifest: a source has a signed manifest, or it *)
(* cannot be reached, or what it says is refused.                           *)
Answers == IF "answers" \in Trouble THEN {"old", "a", "b", "unavailable", "invalid"} ELSE {"a"}

(* reconcile_sources: the sources to download from in the order of their    *)
(* answers, none when there is nothing to install or nothing to trust.       *)
Reconciled(answer, first, second) ==
  LET newer == {s \in Sources : answer[s] \in {"a", "b"}}
      Named(s) == IF s \in newer THEN <<s>> ELSE <<>> IN
  CASE \E s \in Sources : answer[s] = "invalid" -> <<>>
    [] newer = Sources /\ answer[first] # answer[second] -> <<>>
    [] OTHER -> Named(first) \o Named(second)

(* check_for_update: a manifest that asks for a newer updater is blocked.   *)
Check ==
  /\ stage = "idle"
  /\ \E answer \in [Sources -> Answers], first, second \in Sources :
       /\ first # second
       /\ order' = Reconciled(answer, first, second)
       /\ order' # <<>>
       /\ target' = answer[order'[1]]
  /\ stage' = "asked"
  /\ UNCHANGED <<pack, part, meta, stream, begun, kills>>

Answer ==
  /\ stage = "asked"
  /\ \/ stage' = "prepare"
     \/ {"decline", "busy"} \cap Trouble # {} /\ stage' = "idle"
  /\ UNCHANGED <<target, order, pack, part, meta, stream, begun, kills>>

-----------------------------------------------------------------------------
(* Mutant: the metadata is rewritten, the partial file stays. *)
PrepareKeeps ==
  /\ stage = "prepare" /\ stage' = "describe"
  /\ UNCHANGED <<target, order, pack, part, meta, stream, begun, kills>>

(* _prepare_partial: the partial file of another issue is dropped before    *)
(* its metadata is rewritten.                                                *)
Prepare ==
  /\ stage = "prepare"
  /\ part' = IF meta \in {"none", target} THEN part ELSE None
  /\ stage' = "describe"
  /\ UNCHANGED <<target, order, pack, meta, stream, begun, kills>>

Describe ==
  /\ stage = "describe"
  /\ meta' = target /\ stage' = "existing"
  /\ UNCHANGED <<target, order, pack, part, stream, begun, kills>>

(* verify_asset *)
Whole(file) == file = Content[target]

Existing ==
  /\ stage = "existing"
  /\ IF Whole(pack) THEN stage' = "launch" /\ UNCHANGED pack
                    ELSE stage' = "open" /\ pack' = None
  /\ UNCHANGED <<target, order, part, meta, stream, begun, kills>>

(* The next source is tried, and the check fails after the last. *)
NextSource == /\ order' = Tail(order)
              /\ stage' = IF Len(order) = 1 THEN "idle" ELSE "open"

(* _download_from up to the answer: a range is asked for when a part is     *)
(* there; a server may ignore it, and has none to give at the end of the    *)
(* file.                                                                     *)
Open ==
  /\ stage = "open"
  /\ LET kept == IF Len(part) > Size THEN None ELSE part IN
     \E served \in {target} \cup (IF "content" \in Trouble THEN {"a", "b", "junk"} ELSE {}) :
       LET all == Content[served]
           ranged == kept # None /\ Len(kept) < Len(all) IN
       \/ /\ kept = None \/ "range" \in Trouble
          /\ part' = None /\ stream' = all
          /\ stage' = "reading" /\ begun' = target /\ UNCHANGED order
       \/ /\ ranged
          /\ part' = kept /\ stream' = SubSeq(all, Len(kept) + 1, Len(all))
          /\ stage' = "reading" /\ UNCHANGED <<begun, order>>
       \/ /\ (kept # None /\ ~ranged) \/ {"range", "network"} \cap Trouble # {}
          /\ part' = kept /\ stream' = <<>>
          /\ NextSource /\ UNCHANGED begun
  /\ UNCHANGED <<target, pack, meta, kills>>

(* Too little space ends the check. *)
NoSpace ==
  /\ stage = "open" /\ "space" \in Trouble
  /\ part' = IF Len(part) > Size THEN None ELSE part
  /\ stage' = "idle" /\ order' = <<>>
  /\ UNCHANGED <<target, pack, meta, stream, begun, kills>>

Read ==
  /\ stage = "reading" /\ stream # <<>> /\ Len(part) < Size
  /\ part' = Append(part, Head(stream)) /\ stream' = Tail(stream)
  /\ UNCHANGED <<stage, target, order, pack, meta, begun, kills>>

(* The answer is over, breaks off, or goes on past the size of the manifest. *)
ReadEnds ==
  /\ stage = "reading"
  /\ \/ stream = <<>> \/ Len(part) = Size \/ "network" \in Trouble
  /\ IF stream = <<>> /\ Len(part) = Size
       THEN stage' = "verify" /\ UNCHANGED order
       ELSE NextSource
  /\ stream' = <<>>
  /\ UNCHANGED <<target, pack, part, meta, begun, kills>>

Promote ==
  /\ stage = "verify" /\ Whole(part)
  /\ \/ pack' = part /\ part' = None /\ stage' = "promoted" /\ UNCHANGED order
     \/ "locked" \in Trouble /\ NextSource /\ UNCHANGED <<pack, part>>
  /\ UNCHANGED <<target, meta, stream, begun, kills>>

Promoted ==
  /\ stage = "promoted"
  /\ meta' = "none" /\ stage' = "launch"
  /\ UNCHANGED <<target, order, pack, part, stream, begun, kills>>

(* A file that fails the verification is dropped and the next source starts  *)
(* over.                                                                      *)
Discard ==
  /\ stage = "verify" /\ ~Whole(part)
  /\ part' = None /\ meta' = "none" /\ stage' = "discarded"
  /\ UNCHANGED <<target, order, pack, stream, begun, kills>>

Discarded ==
  /\ stage = "discarded"
  /\ meta' = target /\ NextSource
  /\ UNCHANGED <<target, pack, part, stream, begun, kills>>

(* _apply_update after the download: the package is verified once more, the  *)
(* helper is copied and started, the application is asked to quit.            *)
Launch ==
  /\ stage = "launch"
  /\ \/ stage' = IF Whole(pack) THEN "launched" ELSE "idle"
     \/ "helper" \in Trouble /\ stage' = "idle"
  /\ UNCHANGED <<target, order, pack, part, meta, stream, begun, kills>>

(* The program is killed, or the power fails: pieces that were not yet       *)
(* flushed may be lost or spoilt.                                             *)
Kill ==
  /\ stage \notin {"idle", "launched"} /\ kills < MaxKills
  /\ kills' = kills + 1
  /\ stage' = "idle" /\ stream' = <<>> /\ order' = <<>>
  /\ \/ UNCHANGED part
     \/ /\ stage = "reading"
        /\ \/ \E n \in 0 .. Len(part) : part' = SubSeq(part, 1, n)
           \/ \E n \in DOMAIN part : part' = [part EXCEPT ![n] = "x"]
  /\ UNCHANGED <<target, pack, meta, begun>>

Work == \/ Answer \/ Prepare \/ Describe \/ Existing \/ Open \/ NoSpace \/ Read \/ ReadEnds
        \/ Promote \/ Promoted \/ Discard \/ Discarded \/ Launch
Next == Check \/ Work \/ Kill

(* The user answers, the check's coroutine and its thread go on; that the    *)
(* user checks again is assumed only where a retry is asked about.            *)
Fairness == WF_vars(Work)
FairSpec == Init /\ [][Next]_vars /\ Fairness
RetrySpec == FairSpec /\ WF_vars(Check)

-----------------------------------------------------------------------------
TypeOK ==
  /\ stage \in {"idle", "asked", "prepare", "describe", "existing", "open", "reading", "verify",
                "promoted", "discarded", "launch", "launched"}
  /\ target \in {"a", "b"} /\ meta \in {"none", "a", "b"} /\ begun \in {"a", "b"}
  /\ kills \in 0 .. MaxKills /\ order \in Seq(Sources) /\ Len(part) <= 3

(* A download goes on only from a partial file that was begun for the issue  *)
(* whose manifest was accepted, whatever a re-issue of the package, stops      *)
(* between the file and its metadata, and sources that broke off left there.   *)
ResumesItsOwn ==
  part # None /\ stage \notin {"idle", "asked", "prepare"} => begun = target

(* An accepted update comes to an end: the helper is started or the check    *)
(* can be repeated.                                                           *)
FetchEnds == (stage = "prepare") ~> (stage \in {"idle", "launched"})

(* "The update package supports resuming": with sources that serve the       *)
(* signed package, an update that was interrupted once is installed when the  *)
(* user asks again.                                                           *)
InterruptedUpdateArrives == <>(stage = "launched")
=============================================================================
