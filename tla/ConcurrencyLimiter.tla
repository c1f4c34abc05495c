------------------------- MODULE ConcurrencyLimiter -------------------------
(***************************************************************************)
(* AdjustableConcurrencyLimiter (resource_control.py): the permits every   *)
(* media download takes before it touches the network.  All the code runs  *)
(* on one asyncio event loop, so a method runs without interruption from   *)
(* one `await` to the next; what is interleaved is the gap between the     *)
(* moment a waiter's future is resolved (or its task is cancelled) and the *)
(* moment the loop resumes that task.                                      *)
(***************************************************************************)
EXTENDS Integers, FiniteSets, SequencesExt

CONSTANTS Callers,   \* the asyncio tasks that use the limiter
          Key,       \* the fairness key a caller passes: its download task's id
          NoKey,     \* Python's None, the key of `async with limiter`
          MaxLimit   \* the largest limit that _validate_limit accepts

ASSUME CallersAssumption == IsFiniteSet(Callers)
ASSUME MaxLimitAssumption == MaxLimit \in 1..5

VARIABLES limit, active,
          waiters,     \* the deque; a caller stands for its _ConcurrencyWaiter
          lastKey,     \* _last_granted_key
          pc,          \* where each caller's coroutine stands
          cancelled,   \* callers whose task.cancel() is not delivered yet
          passed       \* auxiliary: how often a caller was passed over while first

vars == <<limit, active, waiters, lastKey, pc, cancelled, passed>>

(***************************************************************************)
(* "granted": the future is resolved, the permit is counted in `active`,   *)
(* and the loop has not resumed the caller yet.                            *)
(***************************************************************************)
Places == {"idle", "waiting", "granted", "holding"}

Holders(p) == {c \in Callers : p[c] \in {"granted", "holding"}}

QueueOf(a, w, k, p, s) ==
  [active |-> a, waiters |-> w, lastKey |-> k, pc |-> p, passed |-> s]

Queue == QueueOf(active, waiters, lastKey, pc, passed)

QueueState == [active : Nat,
               waiters : Seq(Callers),
               lastKey : {Key[c] : c \in Callers} \cup {NoKey},
               pc : [Callers -> Places],
               passed : [Callers -> Nat]]
-----------------------------------------------------------------------------
(* _pop_next_waiter: the first waiter of another task than the one granted *)
(* last, and the head when there is none.                                  *)
NextIndex(q) ==
  LET other == SelectInSeq(q.waiters, LAMBDA c : Key[c] # q.lastKey)
  IN  IF q.lastKey # NoKey /\ other # 0 THEN other ELSE 1

(* The chosen waiter leaves the deque with a permit.                       *)
Grant(q) ==
  LET i == NextIndex(q)
      c == q.waiters[i]
      head == q.waiters[1]
  IN  [active  |-> q.active + 1,
       waiters |-> RemoveAt(q.waiters, i),
       lastKey |-> Key[c],
       pc      |-> [q.pc EXCEPT ![c] = "granted"],
       passed  |-> [q.passed EXCEPT ![head] = IF i = 1 THEN 0 ELSE @ + 1]]

(***************************************************************************)
(* One round of the loop of _wake_waiters.  A future in the deque is never *)
(* done: only this loop resolves it, after popping it, and the shield      *)
(* keeps a cancellation away from it; so the code's `continue` is dead.    *)
(***************************************************************************)
GrantOne(lim, q) == IF q.active < lim /\ q.waiters # <<>> THEN Grant(q) ELSE q

(* The whole loop: `active` starts at 0 or more and the limit is at most   *)
(* 5, so five rounds always reach the loop's exit.                         *)
WakeWaiters(lim, q) ==
  GrantOne(lim, GrantOne(lim, GrantOne(lim, GrantOne(lim, GrantOne(lim, q)))))

Become(q) == /\ active' = q.active
             /\ waiters' = q.waiters
             /\ lastKey' = q.lastKey
             /\ pc' = q.pc
             /\ passed' = q.passed
-----------------------------------------------------------------------------
Init == /\ limit \in 1..MaxLimit
        /\ active = 0
        /\ waiters = <<>>
        /\ lastKey = NoKey
        /\ pc = [c \in Callers |-> "idle"]
        /\ cancelled = {}
        /\ passed = [c \in Callers |-> 0]

AcquireNow(c) ==
  /\ pc[c] = "idle"
  /\ active < limit /\ waiters = <<>>
  /\ Become(QueueOf(active + 1, waiters, Key[c], [pc EXCEPT ![c] = "holding"], passed))
  /\ UNCHANGED <<limit, cancelled>>

AcquireWait(c) ==
  /\ pc[c] = "idle"
  /\ ~(active < limit /\ waiters = <<>>)
  /\ Become(WakeWaiters(limit, QueueOf(active, Append(waiters, c), lastKey,
                                      [pc EXCEPT ![c] = "waiting"], passed)))
  /\ UNCHANGED <<limit, cancelled>>

(* The loop resumes a caller whose future is resolved: acquire returns.    *)
Resume(c) ==
  /\ pc[c] = "granted" /\ c \notin cancelled
  /\ pc' = [pc EXCEPT ![c] = "holding"]
  /\ UNCHANGED <<limit, active, waiters, lastKey, cancelled, passed>>

(* task.cancel() on a caller inside acquire.                               *)
RequestCancel(c) ==
  /\ pc[c] \in {"waiting", "granted"} /\ c \notin cancelled
  /\ cancelled' = cancelled \cup {c}
  /\ UNCHANGED <<limit, active, waiters, lastKey, pc, passed>>

(* Mutant: a caller still in the deque also gives a permit back.           *)
AbandonWaitAndRelease(c) ==
  /\ c \in cancelled /\ pc[c] = "waiting"
  /\ Become(WakeWaiters(limit, QueueOf(active - 1, RemoveFirst(waiters, c), lastKey,
                                       [pc EXCEPT ![c] = "idle"],
                                       [passed EXCEPT ![c] = 0])))
  /\ cancelled' = cancelled \ {c}
  /\ UNCHANGED limit

(* The CancelledError arrives while the caller still is in the deque ...   *)
AbandonWait(c) ==
  /\ c \in cancelled /\ pc[c] = "waiting"
  /\ Become(WakeWaiters(limit, QueueOf(active, RemoveFirst(waiters, c), lastKey,
                                       [pc EXCEPT ![c] = "idle"],
                                       [passed EXCEPT ![c] = 0])))
  /\ cancelled' = cancelled \ {c}
  /\ UNCHANGED limit

(* Mutants: the permit granted meanwhile is kept, or wakes nobody.         *)
ReturnPermitNot(c) ==
  /\ c \in cancelled /\ pc[c] = "granted"
  /\ Become(WakeWaiters(limit, QueueOf(active, waiters, lastKey,
                                       [pc EXCEPT ![c] = "idle"], passed)))
  /\ cancelled' = cancelled \ {c}
  /\ UNCHANGED limit

ReturnPermitSilently(c) ==
  /\ c \in cancelled /\ pc[c] = "granted"
  /\ Become(QueueOf(active - 1, waiters, lastKey, [pc EXCEPT ![c] = "idle"], passed))
  /\ cancelled' = cancelled \ {c}
  /\ UNCHANGED limit

(* ... or after the permit was granted: it is given back.                  *)
ReturnPermit(c) ==
  /\ c \in cancelled /\ pc[c] = "granted"
  /\ Become(WakeWaiters(limit, QueueOf(active - 1, waiters, lastKey,
                                       [pc EXCEPT ![c] = "idle"], passed)))
  /\ cancelled' = cancelled \ {c}
  /\ UNCHANGED limit

(* Every caller releases in a `finally`, so only a holder releases and the *)
(* RuntimeError of an unpaired release is not reachable.                   *)
Release(c) ==
  /\ pc[c] = "holding"
  /\ Become(WakeWaiters(limit, QueueOf(active - 1, waiters, lastKey,
                                       [pc EXCEPT ![c] = "idle"], passed)))
  /\ UNCHANGED <<limit, cancelled>>

SetLimit(value) ==
  /\ limit' = value
  /\ Become(WakeWaiters(value, Queue))
  /\ UNCHANGED cancelled

Next == \/ \E c \in Callers : \/ AcquireNow(c) \/ AcquireWait(c) \/ Resume(c)
                              \/ RequestCancel(c) \/ AbandonWait(c)
                              \/ ReturnPermit(c) \/ Release(c)
        \/ \E value \in 1..MaxLimit : SetLimit(value)

(* The event loop delivers what is due, and a download ends or fails.      *)
(* Nobody is obliged to ask, to cancel or to change the limit.  These are  *)
(* weak fairness of Resume, AbandonWait, ReturnPermit and Release, which   *)
(* stay enabled until they happen, written as what they bring about.       *)
Fairness == \A c \in Callers : /\ []<>(pc[c] # "granted")
                               /\ []<>(c \notin cancelled)
                               /\ []<>(pc[c] # "holding")

Spec == Init /\ [][Next]_vars
FairSpec == Spec /\ Fairness
-----------------------------------------------------------------------------
(* Every variable has its type.                                            *)
TypeOK == /\ limit \in 1..MaxLimit
          /\ Queue \in QueueState
          /\ cancelled \in SUBSET Callers

(* `active` counts exactly the callers that own a permit, through grants,  *)
(* cancellations that cross a grant, and releases.                         *)
PermitConservation == active = Cardinality(Holders(pc))

(* The deque holds each waiting caller once and nobody else: a cancelled   *)
(* or granted caller leaves no entry behind to swallow a later permit.     *)
QueueIsWaiting ==
  /\ \A c \in Callers : pc[c] = "waiting" <=> c \in ToSet(waiters)
  /\ IsInjective(waiters)

(* No lost wakeup: nobody waits while a permit is free, whatever the order *)
(* of releases, cancellations and changes of the limit.                    *)
NoIdlePermit == waiters # <<>> => active >= limit

(* The rotation bypasses the first waiter at most once: a task with a long *)
(* backlog and its rivals cannot push a waiter back for ever.              *)
BoundedBypass == \A c \in Callers : passed[c] <= 1

(* A lowered limit takes no permit away, but no step grants a permit past  *)
(* the limit in force: `active` only grows up to the limit.                *)
NoGrantPastLimit == [][active' > active => active' <= limit']_vars

(* A single grant never goes twice running to one download task while a    *)
(* caller of another task stays in the queue.                              *)
Rotation ==
  [][\A c, d \in Callers :
       /\ pc[c] = "waiting" /\ pc'[c] = "granted" /\ active' <= active + 1
       /\ \A e \in Callers \ {c} : pc[e] = "waiting" => pc'[e] # "granted"
       /\ pc[d] = "waiting" /\ pc'[d] = "waiting" /\ Key[d] # Key[c]
       => Key[c] # lastKey \/ lastKey = NoKey]_vars

(* A waiting caller stops waiting: it is granted a permit or cancelled.    *)
WaitEnds == \A c \in Callers : []<>(pc[c] # "waiting")

(* Permits go where they are due: none is lost or counted twice through    *)
(* cancellations that cross a grant, the deque holds who waits, no permit  *)
(* idles while somebody waits, and nobody is bypassed twice.               *)
PermitsInOrder == PermitConservation /\ QueueIsWaiting /\ NoIdlePermit /\ BoundedBypass
=============================================================================
