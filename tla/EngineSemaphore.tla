--------------------------- MODULE EngineSemaphore ---------------------------
(***************************************************************************)
(* userver engine: CancellableSemaphore, and Semaphore, which is the same  *)
(* inside a TaskCancellationBlocker.  The pool of PostgreSQL connections   *)
(* counts its connections with the second and waits for an idle one, in    *)
(* its queue, on the first.                                                *)
(*                                                                         *)
(* A task that finds no free unit registers as a possible sleeper, tries   *)
(* again under the lock of the wait list and, if that fails, appends       *)
(* itself and sleeps.  An unlock gives the unit back with one atomic       *)
(* subtraction, and only then looks for sleepers and wakes the first.  The *)
(* unit is not handed over: the woken task competes for it like any other. *)
(* All requests are for one unit (lock_shared, unlock_shared).             *)
(***************************************************************************)
EXTENDS TaskContext, WaitList, FiniteSets

CONSTANTS
    InitialCapacity,
    Capacities,     \* values SetCapacity is called with
    MaxResizes,     \* bound on its calls
    MaxLocks,       \* bound on the lock calls of a task
    Cancelled       \* tasks one of which may be cancelled

ASSUME SemaphoreAssumption ==
    /\ IsFiniteSet(Tasks)
    /\ Blockers \subseteq Tasks
    /\ Timed \subseteq Tasks
    /\ InitialCapacity \in Nat
    /\ Capacities \subseteq Nat
    /\ MaxResizes \in Nat
    /\ MaxLocks \in Nat
    /\ Cancelled \subseteq Tasks

VARIABLES
    acquired,       \* acquired_locks_
    capacity,       \* capacity_
    sleepies,       \* lock_waiters_.sleepies_
    waiting,        \* lock_waiters_.waiting_contexts_
    status,         \* SemaphoreWaitStrategy::status_ of each task
    locks,          \* lock calls made by each task
    resizer,        \* where SetCapacity is
    resizes,
    swallowed       \* history: a woken task was cancelled before it tried again

semaphoreVars == <<acquired, capacity, sleepies, waiting, status, locks, resizer, resizes, swallowed>>
vars == <<pc, contextVars, semaphoreVars>>

Labels == {"out", "sleep", "again", "setup", "recheck", "yield", "asleep", "awake", "exchange",
           "in", "notify"}

Waiting == {waiting[i] : i \in DOMAIN waiting}

TypeOK ==
    /\ pc \in [Tasks -> Labels]
    /\ ContextTypeOK
    /\ acquired \in Nat
    /\ capacity \in Nat
    /\ sleepies \in Nat
    /\ waiting \in Seq(Tasks)
    /\ status \in [Tasks -> {"kTransientFailure", "kPermanentFailure"}]
    /\ locks \in [Tasks -> 0..MaxLocks]
    /\ resizer \in {"idle", "notify"}
    /\ resizes \in 0..MaxResizes
    /\ swallowed \in BOOLEAN

Init ==
    /\ pc = [t \in Tasks |-> "out"]
    /\ ContextInit
    /\ acquired = 0
    /\ capacity = InitialCapacity
    /\ sleepies = 0
    /\ waiting = <<>>
    /\ status = [t \in Tasks |-> "kTransientFailure"]
    /\ locks = [t \in Tasks |-> 0]
    /\ resizer = "idle"
    /\ resizes = 0
    /\ swallowed = FALSE

-----------------------------------------------------------------------------
DoTryLock ==
    IF capacity < 1 THEN "kPermanentFailure"
    ELSE IF acquired < capacity THEN "kSuccess"
    ELSE "kTransientFailure"

\* Mutant: a task sleeps with the lock of the wait list.
MutListUnlocked == \A t \in Tasks : pc[t] \notin {"recheck", "asleep"}

\* WaitList::Lock is held across two steps only by a task between its attempt
\* and its Append.
ListUnlocked == \A t \in Tasks : pc[t] # "recheck"

\* LockSlowPath returns; its wait strategy is destroyed, and with it status_
\* and the WaitersScopeCounter.
Leave(t, label) ==
    /\ pc' = [pc EXCEPT ![t] = label]
    /\ sleepies' = sleepies - 1
    /\ status' = [status EXCEPT ![t] = "kTransientFailure"]

\* Mutant: the task is not counted as a sleeper.
MutLockFastPath(t) ==
    /\ pc[t] = "out"
    /\ locks[t] < MaxLocks
    /\ locks' = [locks EXCEPT ![t] = @ + 1]
    /\ \/ /\ DoTryLock = "kSuccess"
          /\ acquired' = acquired + 1
          /\ pc' = [pc EXCEPT ![t] = "in"]
       \/ /\ DoTryLock = "kTransientFailure"
          /\ pc' = [pc EXCEPT ![t] = "sleep"]
          /\ UNCHANGED acquired
    /\ UNCHANGED <<contextVars, capacity, sleepies, waiting, status, resizer, resizes, swallowed>>

\* try_lock_shared_until: one attempt, then the slow path.
LockFastPath(t) ==
    /\ pc[t] = "out"
    /\ locks[t] < MaxLocks
    /\ locks' = [locks EXCEPT ![t] = @ + 1]
    /\ \/ /\ DoTryLock = "kSuccess"
          /\ acquired' = acquired + 1
          /\ pc' = [pc EXCEPT ![t] = "in"]
          /\ UNCHANGED sleepies
       \/ /\ DoTryLock = "kPermanentFailure"
          /\ UNCHANGED <<pc, acquired, sleepies>>
       \/ /\ DoTryLock = "kTransientFailure"
          /\ pc' = [pc EXCEPT ![t] = "sleep"]
          /\ sleepies' = sleepies + 1
          /\ UNCHANGED acquired
    /\ UNCHANGED <<contextVars, capacity, waiting, status, resizer, resizes, swallowed>>

\* Sleep, up to SetupWakeups: a cancelled task does not sleep (nor try again).
Sleep(t) ==
    /\ pc[t] \in {"sleep", "again"}
    /\ IF ShouldCancel(t)
          THEN /\ Leave(t, "out")
               /\ swallowed' = (swallowed \/ pc[t] = "again")
          ELSE /\ pc' = [pc EXCEPT ![t] = "setup"]
               /\ UNCHANGED <<sleepies, status, swallowed>>
    /\ UNCHANGED <<contextVars, acquired, capacity, waiting, locks, resizer, resizes>>

\* SetupWakeups under WaitList::Lock: the second attempt.  After a permanent
\* failure the task goes to sleep although it is in no wait list.
SetupWakeups(t) ==
    /\ pc[t] = "setup"
    /\ ListUnlocked
    /\ \/ /\ DoTryLock = "kSuccess"
          /\ acquired' = acquired + 1
          /\ NextEpoch(t)
          /\ Leave(t, "in")
          /\ UNCHANGED timer
       \/ /\ DoTryLock = "kPermanentFailure"
          /\ status' = [status EXCEPT ![t] = "kPermanentFailure"]
          /\ ArmDeadlineTimer(t)
          /\ pc' = [pc EXCEPT ![t] = "yield"]
          /\ UNCHANGED <<acquired, flags, epoch, sleepies>>
       \/ /\ DoTryLock = "kTransientFailure"
          /\ pc' = [pc EXCEPT ![t] = "recheck"]
          /\ UNCHANGED <<acquired, flags, epoch, timer, sleepies, status>>
    /\ UNCHANGED <<runs, cancellation, cancelEpoch, capacity, waiting, locks, resizer, resizes, swallowed>>

\* ... and, if a unit was free by now, the next round, else Append.  With
\* capacity 0 the code's capacity - 1 wraps around.
AppendWaiter(t) ==
    /\ pc[t] = "recheck"
    /\ IF capacity = 0 \/ acquired <= capacity - 1
          THEN /\ NextEpoch(t)
               /\ pc' = [pc EXCEPT ![t] = "sleep"]
               /\ UNCHANGED <<waiting, timer>>
          ELSE /\ waiting' = Append(waiting, t)
               /\ ArmDeadlineTimer(t)
               /\ pc' = [pc EXCEPT ![t] = "yield"]
               /\ UNCHANGED <<flags, epoch>>
    /\ UNCHANGED <<runs, cancellation, cancelEpoch, acquired, capacity, sleepies, status, locks,
                   resizer, resizes, swallowed>>

DisableWakeups(t) ==
    /\ pc[t] = "awake"
    /\ ListUnlocked
    /\ waiting' = Unlink(waiting, t)
    /\ pc' = [pc EXCEPT ![t] = "exchange"]
    /\ UNCHANGED <<contextVars, acquired, capacity, sleepies, status, locks, resizer, resizes, swallowed>>

\* Mutant: a wakeup by the wait list is taken for the unit itself.
MutLockSlowPath(t) ==
    /\ pc[t] = "exchange"
    /\ NextEpoch(t)
    /\ Leave(t, IF GetPrimaryWakeupSource(flags[t]) = "kWaitList" THEN "in" ELSE "out")
    /\ UNCHANGED <<runs, timer, cancellation, cancelEpoch, acquired, capacity, waiting, locks,
                   resizer, resizes, swallowed>>

\* Sleep returns to LockSlowPath.
LockSlowPath(t) ==
    /\ pc[t] = "exchange"
    /\ NextEpoch(t)
    /\ IF /\ status[t] = "kTransientFailure"
          /\ GetPrimaryWakeupSource(flags[t]) = "kWaitList"
          THEN /\ pc' = [pc EXCEPT ![t] = "again"]
               /\ UNCHANGED <<sleepies, status>>
          ELSE Leave(t, "out")
    /\ UNCHANGED <<runs, timer, cancellation, cancelEpoch, acquired, capacity, waiting, locks,
                   resizer, resizes, swallowed>>

unlock_shared(t) ==
    /\ pc[t] = "in"
    /\ acquired' = acquired - 1
    /\ pc' = [pc EXCEPT ![t] = "notify"]
    /\ UNCHANGED <<contextVars, capacity, sleepies, waiting, status, locks, resizer, resizes, swallowed>>

\* ... GetCountOfSleepies, then WakeupOne under WaitList::Lock.
WakeupOne(t) ==
    /\ pc[t] = "notify"
    /\ sleepies > 0 => ListUnlocked
    /\ pc' = [pc EXCEPT ![t] = "out"]
    /\ IF sleepies > 0 /\ waiting # <<>>
          THEN /\ Wakeup({Head(waiting)}, "kWaitList")
               /\ waiting' = Tail(waiting)
          ELSE UNCHANGED <<flags, runs, waiting>>
    /\ UNCHANGED <<epoch, timer, cancellation, cancelEpoch, acquired, capacity, sleepies, status, locks,
                   resizer, resizes, swallowed>>

SetCapacity(c) ==
    /\ resizer = "idle"
    /\ resizes < MaxResizes
    /\ capacity' = c
    /\ resizer' = "notify"
    /\ resizes' = resizes + 1
    /\ UNCHANGED <<pc, contextVars, acquired, sleepies, waiting, status, locks, swallowed>>

\* ... GetCountOfSleepies, then WakeupAll under WaitList::Lock.
WakeupAll ==
    /\ resizer = "notify"
    /\ sleepies > 0 => ListUnlocked
    /\ resizer' = "idle"
    /\ IF sleepies > 0
          THEN /\ Wakeup(Waiting, "kWaitList")
               /\ waiting' = <<>>
          ELSE UNCHANGED <<flags, runs, waiting>>
    /\ UNCHANGED <<pc, epoch, timer, cancellation, cancelEpoch, acquired, capacity, sleepies, status, locks,
                   resizes, swallowed>>

-----------------------------------------------------------------------------
\* Somebody cancels a task (a closed HTTP connection, a shutdown).
Cancel(t) ==
    /\ t \in Cancelled
    /\ \A u \in Tasks : cancellation[u] = "none"
    /\ RequestCancel(t)
    /\ UNCHANGED semaphoreVars

\* ... and goes on with RequestCancel.
FinishCancel(t) ==
    /\ GetEpoch(t) \/ CancelWakeup(t)
    /\ UNCHANGED semaphoreVars

\* The engine's part: the yielded coroutine, the task processor, the timer.
Engine(t) ==
    /\ Suspend(t) \/ Resume(t) \/ TimerFires(t)
    /\ UNCHANGED semaphoreVars

Step(t) ==
    \/ Sleep(t) \/ SetupWakeups(t) \/ AppendWaiter(t) \/ DisableWakeups(t) \/ LockSlowPath(t)
    \/ unlock_shared(t) \/ WakeupOne(t)
    \/ Engine(t)

Next ==
    \/ \E t \in Tasks : LockFastPath(t) \/ Step(t) \/ Cancel(t) \/ FinishCancel(t)
    \/ \E c \in Capacities : SetCapacity(c)
    \/ WakeupAll

Spec == Init /\ [][Next]_vars

\* Threads run: a running task goes on, a scheduled one is resumed, an armed
\* timer fires, who holds a unit gives it back.  Nobody has to lock, to cancel
\* or to change the capacity.
FairSpec ==
    /\ Spec
    /\ \A t \in Tasks : WF_vars(Step(t)) /\ WF_vars(FinishCancel(t))
    /\ WF_vars(WakeupAll)
-----------------------------------------------------------------------------
\* Properties

InSlowPath(t) == pc[t] \in Labels \ {"out", "in", "notify"}

\* Asleep, and nobody has woken it.
Blocked(t) == pc[t] = "asleep" /\ runs[t] = 0

\* Woken by the wait list, or past the point where a cancellation would stop
\* it: the task will try to take a unit.
WillTry(t) ==
    \/ pc[t] \in {"again", "setup"}
    \/ pc[t] \in {"yield", "asleep", "awake", "exchange"} /\ "kWaitList" \in flags[t]

\* Every unit counted in acquired_locks_ is held by exactly one task that is
\* past its lock call and before its unlock, whichever of the two attempts of
\* the lock got it.
AcquiredExact == acquired = Cardinality({t \in Tasks : pc[t] = "in"})

\* However many timers, cancellations and unlocks wake the same sleep, a task
\* is in the task processor's queue at most once and only while its coroutine
\* is suspended (the UASSERT of Schedule), and a sleep that ends knows why (the
\* UINVARIANT of GetPrimaryWakeupSource).
ScheduledOnce ==
    \A t \in Tasks :
        /\ runs[t] <= 1
        /\ runs[t] = 1 => pc[t] = "asleep"
        /\ pc[t] = "exchange" => GetPrimaryWakeupSource(flags[t]) # "kNone"

\* No lost wakeup: while a task is blocked in the wait list, each free unit has
\* somebody on the way to it, an unlock that has yet to look at the wait list
\* or a task that will try to take it.  In particular a task that was woken by
\* the wait list while its deadline passed still takes the unit or passes it
\* on.  The one exception is a woken task that is cancelled before it tries.
NoLostWakeup ==
    (\E t \in Waiting : Blocked(t)) =>
        \/ capacity <= acquired + Cardinality({t \in Tasks : pc[t] = "notify" \/ WillTry(t)})
        \/ resizer = "notify"
        \/ swallowed

\* A task sleeps in the wait list or has been woken, unless the semaphore had
\* no capacity when it tried: nothing but its deadline or a cancellation ends
\* that sleep.
AsleepIsListed ==
    \A t \in Tasks : Blocked(t) => t \in Waiting \/ status[t] = "kPermanentFailure"

\* Once RequestCancel is over, a task that honours cancellation does not stay
\* asleep: whatever the task did between the three steps of RequestCancel, the
\* cancellation woke the sleep or the next sleep sees it.
CancelDelivered ==
    \A t \in Tasks :
        cancellation[t] = "sent" /\ IsCancellable(t) =>
            /\ ~Blocked(t)
            /\ pc[t] = "yield" => flags[t] \cap Sources # {}

\* A timeout belongs to the sleep it ends: the timer of an earlier sleep, which
\* stays armed, does not time out a later one.
TimeoutIsOwn ==
    \A t \in Tasks :
        pc[t] \in {"yield", "asleep"} /\ "kDeadlineTimer" \in flags[t] => timer[t] = NoTimer

\* Every lock call ends, if those who hold units give them back: with the unit,
\* with a timeout or with a cancellation.  The exceptions are the two above and
\* a semaphore that stays without capacity.
LockEnds ==
    \A t \in Tasks :
        InSlowPath(t) ~> (~InSlowPath(t) \/ swallowed \/ capacity = 0
                          \/ status[t] = "kPermanentFailure")

-----------------------------------------------------------------------------
\* The inductive invariant behind the properties.

\* A sleep has begun and its epoch is not over.
Sleeps == {"yield", "asleep", "awake", "exchange"}

\* The wakeups that end the sleep of a task.
Effective(t) == flags[t] \cap IF IsCancellable(t) THEN Sources ELSE Sources \ {"kCancelRequest"}

\* sleep_state_ tells where the task is, and exactly a suspended task that an
\* effective wakeup has reached is in the task processor's queue.
FlagsFit(t) ==
    /\ "kSleeping" \in flags[t] <=> pc[t] = "asleep"
    /\ "kNonCancellable" \in flags[t] <=> ~IsCancellable(t) /\ pc[t] \in Sleeps \ {"yield"}
    /\ "kWaitList" \in flags[t] \/ "kDeadlineTimer" \in flags[t] => pc[t] \in Sleeps
    /\ runs[t] = IF pc[t] = "asleep" /\ Effective(t) # {} THEN 1 ELSE 0
    /\ pc[t] \in {"awake", "exchange"} => Effective(t) # {}

\* A sleeper is in the wait list until it is woken from there or wakes up.
ListFits(t) ==
    /\ t \in Waiting => pc[t] \in Sleeps \ {"exchange"} /\ "kWaitList" \notin flags[t]
    /\ t \in Waiting \/ "kWaitList" \in flags[t] => status[t] = "kTransientFailure"
    /\ pc[t] \in {"yield", "asleep"} =>
          t \in Waiting \/ "kWaitList" \in flags[t] \/ status[t] = "kPermanentFailure"
    /\ status[t] = "kPermanentFailure" => pc[t] \in Sleeps

\* An armed timer is of this sleep or of an earlier one.
TimerFits(t) ==
    /\ timer[t] <= epoch[t]
    /\ pc[t] \notin Sleeps => timer[t] < epoch[t]
    /\ "kDeadlineTimer" \in flags[t] => timer[t] = NoTimer

\* A cancellation that found the task past its look at ShouldCancel is for the
\* sleep that the task is about to begin or in.
CancelFits(t) ==
    IsCancellable(t) /\ pc[t] \in Sleeps \cup {"setup", "recheck"} =>
        /\ cancellation[t] = "loaded" => cancelEpoch[t] = epoch[t]
        /\ cancellation[t] = "sent" => "kCancelRequest" \in flags[t]

Fits(t) == FlagsFit(t) /\ ListFits(t) /\ TimerFits(t) /\ CancelFits(t)

TasksFit == \A t \in Tasks : Fits(t)

\* sleepies_ counts the tasks in LockSlowPath; nobody is listed twice.
SleepersExact ==
    /\ sleepies = Cardinality({t \in Tasks : InSlowPath(t)})
    /\ \A i, j \in DOMAIN waiting : waiting[i] = waiting[j] => i = j

\* On the way to a unit.
Coming == {t \in Tasks : pc[t] = "notify" \/ WillTry(t)}

\* NoLostWakeup for whoever is listed, asleep or not yet.
UnitsCovered ==
    waiting # <<>> => capacity <= acquired + Cardinality(Coming) \/ resizer = "notify" \/ swallowed

SemaphoreInv == TypeOK /\ TasksFit /\ AcquiredExact /\ SleepersExact /\ UnitsCovered
=============================================================================
