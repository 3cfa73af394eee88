----------------------------- MODULE TaskContext -----------------------------
(***************************************************************************)
(* userver engine: how a task (coroutine) goes to sleep and is woken up.   *)
(*                                                                         *)
(* The whole protocol runs over one atomic word per task, sleep_state_:    *)
(* a set of flags and the number of the current sleep (the epoch).  Who    *)
(* wakes a task adds its flag; the task is handed to the task processor    *)
(* (Schedule) by whoever finds it asleep and not yet woken.  The task      *)
(* itself announces that it sleeps only after its coroutine has yielded,   *)
(* so a wakeup may come before the task is asleep, and timers, cancelling  *)
(* tasks and wait lists may all wake the same sleep.                       *)
(*                                                                         *)
(* The module holds the parts of TaskContext that every wait strategy      *)
(* shares; a module that EXTENDS it adds the strategy and its own labels   *)
(* of pc.  Atomic accesses are sequentially consistent.                    *)
(***************************************************************************)
EXTENDS Naturals

CONSTANTS
    Tasks,
    Blockers,       \* tasks that sleep inside a TaskCancellationBlocker
    Timed           \* tasks that sleep with a reachable deadline

VARIABLES
    pc,             \* where each task is
    flags,          \* sleep_state_.flags
    epoch,          \* sleep_state_.epoch
    runs,           \* how often the task is in the task processor's queue
    timer,          \* epoch the armed deadline_timer_ will wake, or NoTimer
    cancellation,   \* progress of RequestCancel
    cancelEpoch     \* the epoch RequestCancel has read

contextVars == <<flags, epoch, runs, timer, cancellation, cancelEpoch>>

NoTimer == 0
Sources == {"kWaitList", "kDeadlineTimer", "kCancelRequest"}
Flags   == Sources \cup {"kSleeping", "kNonCancellable"}

ContextTypeOK ==
    /\ flags \in [Tasks -> SUBSET Flags]
    /\ epoch \in [Tasks -> Nat \ {0}]
    /\ runs \in [Tasks -> Nat]
    /\ timer \in [Tasks -> Nat]
    /\ cancellation \in [Tasks -> {"none", "requested", "loaded", "sent"}]
    /\ cancelEpoch \in [Tasks -> Nat]

\* Running tasks that have not slept yet: DoStep has cleared kSleeping and
\* kWakeupByBootstrap.  Epochs begin at 1, so that NoTimer is none of them.
ContextInit ==
    /\ flags = [t \in Tasks |-> {}]
    /\ epoch = [t \in Tasks |-> 1]
    /\ runs = [t \in Tasks |-> 0]
    /\ timer = [t \in Tasks |-> NoTimer]
    /\ cancellation = [t \in Tasks |-> "none"]
    /\ cancelEpoch = [t \in Tasks |-> 0]

-----------------------------------------------------------------------------
\* Waking a task

IsCancellable(t) == t \notin Blockers

\* Mutant: a sleep does not look for a cancellation it was not woken by.
MutShouldCancel(t) == FALSE

ShouldCancel(t) == cancellation[t] # "none" /\ IsCancellable(t)

\* Mutant: any wakeup of a sleeping task schedules it.
MutShouldSchedule(prev, source) == "kSleeping" \in prev

\* Only the first wakeup of a sleeping task schedules it.  A cancellation that
\* came while cancellation was blocked does not count as a wakeup.
ShouldSchedule(prev, source) ==
    LET woken == IF source # "kCancelRequest" /\ "kNonCancellable" \in prev
                    THEN prev \ {"kNonCancellable", "kCancelRequest"}
                    ELSE prev
    IN woken = {"kSleeping"}

\* Wakeup(source, NoEpoch) of every task of S.
Wakeup(S, source) ==
    /\ flags' = [t \in Tasks |-> IF t \in S THEN flags[t] \cup {source} ELSE flags[t]]
    /\ runs' = [t \in Tasks |->
                  IF t \in S /\ ShouldSchedule(flags[t], source) THEN runs[t] + 1 ELSE runs[t]]

\* Mutant: a wakeup meant for an earlier sleep is taken.
MutWakeupEpoch(t, source, e) == Wakeup({t}, source)

\* Wakeup(source, epoch): ignored when that sleep is over.
WakeupEpoch(t, source, e) ==
    IF epoch[t] = e /\ ~(source = "kCancelRequest" /\ "kNonCancellable" \in flags[t])
       THEN Wakeup({t}, source)
       ELSE UNCHANGED <<flags, runs>>

\* RequestCancel sets the reason, reads the epoch, then wakes that epoch: three
\* accesses, and the task may move between them.
RequestCancel(t) ==
    /\ cancellation[t] = "none"
    /\ cancellation' = [cancellation EXCEPT ![t] = "requested"]
    /\ UNCHANGED <<pc, flags, epoch, runs, timer, cancelEpoch>>

GetEpoch(t) ==
    /\ cancellation[t] = "requested"
    /\ cancellation' = [cancellation EXCEPT ![t] = "loaded"]
    /\ cancelEpoch' = [cancelEpoch EXCEPT ![t] = epoch[t]]
    /\ UNCHANGED <<pc, flags, epoch, runs, timer>>

CancelWakeup(t) ==
    /\ cancellation[t] = "loaded"
    /\ cancellation' = [cancellation EXCEPT ![t] = "sent"]
    /\ WakeupEpoch(t, "kCancelRequest", cancelEpoch[t])
    /\ cancelEpoch' = [cancelEpoch EXCEPT ![t] = 0]
    /\ UNCHANGED <<pc, epoch, timer>>

\* The deadline timer's thread; the timer of a sleep that is over stays armed.
TimerFires(t) ==
    /\ timer[t] # NoTimer
    /\ timer' = [timer EXCEPT ![t] = NoTimer]
    /\ WakeupEpoch(t, "kDeadlineTimer", timer[t])
    /\ UNCHANGED <<pc, epoch, cancellation, cancelEpoch>>

-----------------------------------------------------------------------------
\* The task's own steps

ArmDeadlineTimer(t) ==
    timer' = IF t \in Timed THEN [timer EXCEPT ![t] = epoch[t]] ELSE timer

\* A sleep ends: its flags are dropped with its epoch.
NextEpoch(t) ==
    /\ flags' = [flags EXCEPT ![t] = {}]
    /\ epoch' = [epoch EXCEPT ![t] = @ + 1]

\* Mutant: a wakeup that came before kSleeping was set is overlooked.
MutSuspend(t) ==
    /\ pc[t] = "yield"
    /\ pc' = [pc EXCEPT ![t] = "asleep"]
    /\ flags' = [flags EXCEPT ![t] =
                   @ \cup {"kSleeping"} \cup IF IsCancellable(t) THEN {} ELSE {"kNonCancellable"}]
    /\ UNCHANGED <<epoch, runs, timer, cancellation, cancelEpoch>>

\* DoStep after the coroutine has yielded.
Suspend(t) ==
    LET blocked == IF IsCancellable(t) THEN {} ELSE {"kNonCancellable"}
        woken   == IF IsCancellable(t) THEN flags[t] ELSE flags[t] \ {"kCancelRequest"}
    IN /\ pc[t] = "yield"
       /\ pc' = [pc EXCEPT ![t] = "asleep"]
       /\ flags' = [flags EXCEPT ![t] = @ \cup {"kSleeping"} \cup blocked]
       /\ runs' = IF woken = {} THEN runs ELSE [runs EXCEPT ![t] = @ + 1]
       /\ UNCHANGED <<epoch, timer, cancellation, cancelEpoch>>

\* DoStep when the task processor takes the task from its queue.
Resume(t) ==
    /\ pc[t] = "asleep"
    /\ runs[t] > 0
    /\ pc' = [pc EXCEPT ![t] = "awake"]
    /\ runs' = [runs EXCEPT ![t] = @ - 1]
    /\ flags' = [flags EXCEPT ![t] = @ \ {"kSleeping"}]
    /\ UNCHANGED <<epoch, timer, cancellation, cancelEpoch>>

\* Mutant: a deadline that passed takes precedence over the wait list.
MutGetPrimaryWakeupSource(fs) ==
    IF "kDeadlineTimer" \in fs THEN "kDeadlineTimer"
    ELSE IF "kWaitList" \in fs THEN "kWaitList"
    ELSE IF "kCancelRequest" \in fs THEN "kCancelRequest"
    ELSE "kNone"

\* Why Sleep returned; kNone is the UINVARIANT of the code.
GetPrimaryWakeupSource(fs) ==
    IF "kWaitList" \in fs THEN "kWaitList"
    ELSE IF "kDeadlineTimer" \in fs THEN "kDeadlineTimer"
    ELSE IF "kCancelRequest" \in fs /\ "kNonCancellable" \notin fs THEN "kCancelRequest"
    ELSE "kNone"
=============================================================================
