----------------------------- MODULE DownloadWindow -----------------------------
(***************************************************************************)
(* The weekly download window (download_schedule.py, settings.py): whether *)
(* a minute is inside it and when that changes next, and the loop that     *)
(* evaluates it.  A week has Days days of Minutes minutes.                  *)
(***************************************************************************)
EXTENDS Naturals, FiniteSetsExt

CONSTANTS Days, Minutes

WeekAssumption == Days \in Nat \ {0} /\ Minutes \in Nat \ {0}

VARIABLES
  set,      \* the settings
  now,      \* the minute of the week
  state,    \* the last evaluation: [allowed, next], or Failed
  loop      \* the loop: "runs", or "ended" by an evaluation that raised

vars == <<set, now, state, loop>>

Week   == Days * Minutes
Failed == [allowed |-> FALSE, next |-> 0]
(* Defaults: no window, every day, from minute 0 to minute 0. *)
Default == [enabled |-> FALSE, weekdays |-> 0 .. Days - 1, start |-> 0, end |-> 0]
Settings == [enabled : BOOLEAN, weekdays : (SUBSET (0 .. Days - 1)) \ {{}},
             start : 0 .. Minutes - 1, end : 0 .. Minutes - 1]

(* Mutant: the hours after midnight are those of the day they fall on. *)
AllowedSameDay(s, t) ==
  LET day == (t \div Minutes) % Days  minute == t % Minutes IN
  \/ ~s.enabled
  \/ s.start = s.end /\ day \in s.weekdays
  \/ s.start < s.end /\ day \in s.weekdays /\ s.start <= minute /\ minute < s.end
  \/ s.start > s.end /\ day \in s.weekdays /\ (minute >= s.start \/ minute < s.end)

(* _allowed_at *)
AllowedAt(s, t) ==
  LET day == (t \div Minutes) % Days  minute == t % Minutes IN
  \/ ~s.enabled
  \/ s.start = s.end /\ day \in s.weekdays
  \/ s.start < s.end /\ day \in s.weekdays /\ s.start <= minute /\ minute < s.end
  \/ /\ s.start > s.end
     /\ \/ day \in s.weekdays /\ minute >= s.start
        \/ (day + Days - 1) % Days \in s.weekdays /\ minute < s.end

(* evaluate_download_schedule: the minutes until the state changes, searched  *)
(* a day beyond the week; none without a window.  It raises when it finds     *)
(* none.                                                                       *)
Evaluated(s, t) ==
  LET allowed == AllowedAt(s, t)
      changes == {n \in 1 .. Week + Minutes : AllowedAt(s, t + n) # allowed} IN
  CASE ~s.enabled -> [allowed |-> TRUE, next |-> 0]
    [] s.enabled /\ changes # {} -> [allowed |-> allowed, next |-> Min(changes)]
    [] OTHER -> Failed

Init == /\ set = Default /\ now = 0 /\ loop = "runs"
        /\ state = Evaluated(set, now)

(* reconfigure: the new settings are evaluated at once. *)
Reconfigure == /\ set' \in Settings
               /\ state' = Evaluated(set', now)
               /\ UNCHANGED <<now, loop>>

(* _run sleeps for a minute at most; a computer that slept wakes up later. *)
Wake == /\ loop = "runs"
        /\ now' \in 0 .. Week - 1 /\ now' # now
        /\ state' = Evaluated(set, now')
        /\ loop' = IF state' = Failed THEN "ended" ELSE loop
        /\ UNCHANGED set

Next == Reconfigure \/ Wake
Spec == Init /\ [][Next]_vars

-----------------------------------------------------------------------------
TypeOK == set \in Settings /\ now \in 0 .. Week - 1 /\ loop \in {"runs", "ended"}

(* The minutes of the window that begins on each selected day: equal times    *)
(* are the whole day, and one that ends before it starts ends on the next.     *)
Open(s) ==
  LET minutes == IF s.start = s.end THEN 0 .. Minutes - 1
                 ELSE s.start .. (s.start + ((s.end + Minutes - s.start) % Minutes) - 1) IN
  {(d * Minutes + m) % Week : d \in s.weekdays, m \in minutes}

(* The evaluation agrees with the minutes the settings describe: it says      *)
(* whether the present one is among them, and the next change is the first    *)
(* minute for which the answer differs.                                        *)
FollowsTheWeek ==
  set.enabled /\ state # Failed =>
    LET in(t) == (t % Week) \in Open(set) IN
    /\ state.allowed = in(now)
    /\ in(now + state.next) # in(now)
    /\ \A n \in 1 .. state.next - 1 : in(now + n) = in(now)

(* "Equal times mean that the selected days are open all day": settings that  *)
(* the program accepts can be evaluated.                                       *)
EqualTimesOpenTheDay == state # Failed
=============================================================================
