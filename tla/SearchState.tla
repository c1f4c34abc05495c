----------------------------- MODULE SearchState -----------------------------
(***************************************************************************)
(* What a content search works on, and what it promises: the dialog, the   *)
(* limit, the search's session and rows in the catalogue (catalog.py), the *)
(* ticks on their way there, and the media that tasks have.  Module        *)
(* ContentSearch says how it changes.                                       *)
(*                                                                         *)
(* The dialog, or the account, is the messages 1..Newest, newest first;    *)
(* Found are those the server lists for the keyword, Hits those with a     *)
(* medium that passes the filters, Albums the groups of media.  A message  *)
(* and its medium are one number.                                           *)
(***************************************************************************)
EXTENDS Integers, FiniteSets

CONSTANTS Newest, Found, Hits, Albums,
          PageSize,                \* _SEARCH_PAGE_SIZE
          OpLimit,                 \* 100 results per operation
          Limits,                  \* item_limit: one of these
          MaxSearches, MaxFaults, MaxTicks  \* bounds

Messages == 1..Newest

(* A medium is in one album, and an album's messages follow each other:    *)
(* expand_album looks for them around the one that was found.              *)
ASSUME SearchAssumption ==
  /\ Newest \in Nat /\ PageSize \in Nat \ {0} /\ OpLimit \in Nat /\ Limits \subseteq Nat
  /\ Found \subseteq Messages /\ Hits \subseteq Messages /\ Albums \subseteq SUBSET Messages
  /\ \A a, b \in Albums : a = b \/ a \cap b = {}
  /\ \A a \in Albums : \A x, z \in a : x .. z \subseteq a

VARIABLES scope, limit,            \* of the search
          session, rows,           \* search_sessions, search_results
          intents,                 \* the user's selection deque
          tasks                    \* media that are in a task

(* _select_result_rows: the results of the session's generation.           *)
Current == {m \in Messages : session.gen # 0 /\ rows[m].gen = session.gen}

(* expand_album: a hit of a group stands for the whole group.              *)
Expand(m) == {m} \cup UNION {a \in Albums : m \in a}

-----------------------------------------------------------------------------
(* Nothing that the server lists is skipped: behind the offset, and when   *)
(* the search is over, every hit is a result with its whole album - unless *)
(* the limit ended it - whichever pages were cut, repeated or cancelled.   *)
NothingSkipped ==
  \A m \in Found \cap Hits :
    (session.exhausted /\ ~session.capped) \/ (session.cursor # 0 /\ m >= session.cursor)
      => Expand(m) \subseteq Current

(* The search never holds more results than the user asked for, also when  *)
(* a cancelled page is committed next to the one that repeats it, and an   *)
(* album is in it whole or not at all.                                     *)
LimitKept == /\ Cardinality(Current) <= limit
             /\ \A a \in Albums : a \subseteq Current \/ a \cap Current = {}

(* A search, a cancellation or a recovery takes no tick away from a result *)
(* that it finds again, unless a task has the medium.                      *)
SelectionSurvives ==
  [][\A m \in Messages : rows[m].sel /\ rows'[m].gen # 0 /\ ~rows'[m].sel => m \in tasks \/ intents' # intents]_rows

(* A search shows everything it passed over, within its limit.              *)
SearchIsExact == NothingSkipped /\ LimitKept
=============================================================================
