------------------------------- MODULE PgPool -------------------------------
(***************************************************************************)
(* userver postgresql: detail::ConnectionPool, the pool behind every       *)
(* pg_cluster_->Execute of the C++ services.                               *)
(*                                                                         *)
(* Idle connections are in a queue.  A request that finds none counts      *)
(* itself as waiting, asks for one more connection, made by a task of its  *)
(* own, and sleeps in the queue's semaphore (EngineSemaphore) until        *)
(* somebody pushes a connection: not necessarily the one it asked for.     *)
(* size_semaphore_ bounds the connections; a connection gives its unit     *)
(* back when the task that closes it has ended.  A periodic task drops or  *)
(* pings idle connections; the destructor stops all of these in turn.      *)
(*                                                                         *)
(* Atomic here: a Push with its wakeup, a Pop with the counters around it. *)
(***************************************************************************)
EXTENDS WaitList, FiniteSets

CONSTANTS
    Requests,               \* each of them acquires one connection, once
    InitialSettings,        \* PoolSettings the pool is built with
    NewSettings,            \* PoolSettings of later calls of SetSettings
    CcLimits,               \* limits set by the congestion control
    RecentErrorsThreshold,  \* recent_errors_threshold
    PendingConnectsMax,     \* kPendingConnectsMax
    IdleDropLimit,          \* kIdleDropLimit
    MaxUpdates,             \* bound on the changes of settings
    MaxFaults               \* bound on failures, timeouts and cancellations

\* A connecting_limit of 0 stands for kUnlimitedConnecting.
PoolSettings == [min_size : Nat, max_size : Nat, max_queue_size : Nat, connecting_limit : Nat]

ASSUME PoolAssumption ==
    /\ IsFiniteSet(Requests)
    /\ InitialSettings \in PoolSettings /\ NewSettings \subseteq PoolSettings
    /\ InitialSettings.min_size <= InitialSettings.max_size
    /\ \E s \in NewSettings \cup {InitialSettings} :
          \A other \in NewSettings \cup {InitialSettings} : other.max_size <= s.max_size
    /\ CcLimits \subseteq Nat
    /\ {RecentErrorsThreshold, PendingConnectsMax, IdleDropLimit, MaxUpdates, MaxFaults} \subseteq Nat

\* Enough for the largest pool and the connect tasks that wait for a unit.
LargestSize ==
    LET sizes == {s.max_size : s \in NewSettings \cup {InitialSettings}}
    IN CHOOSE n \in sizes : \A m \in sizes : m <= n
Connections  == 1..(LargestSize + PendingConnectsMax + 1)
NoConnection == 0

VARIABLES
    stage,          \* where each connection is, from the task that makes it on
    ver,            \* version of the settings each connection was made with
    version,        \* conn_settings_.version
    settings,       \* settings_, with the capacities of both semaphores
    ccMax,          \* cc_max_connections_
    sizeUsed,       \* units taken from size_semaphore_
    errors,         \* recent_conn_errors_
    pc, conn, seen, \* of each request: label, connection, version Pop has read
    cancelled,
    sleepers,       \* the wait list of the queue's semaphore
    waitCount,      \* wait_count_
    used,           \* stats_.connection.used
    mpc, mconn, mcount, dropLeft, mmin,     \* MaintainConnections and its locals
    mver,           \* version AcquireImmediate has read
    phase,          \* of ~ConnectionPool
    updates, faults,
    unlucky,        \* history: requests that saw an attempt fail or a connection go
    swallowed,      \* history: a woken request was cancelled
    late            \* history: connections pushed after Clear has emptied the queue

poolVars    == <<stage, ver, sizeUsed, errors, unlucky, late>>
settingVars == <<version, settings, ccMax, updates>>
requestVars == <<pc, conn, seen, cancelled, sleepers, waitCount, swallowed>>
maintVars   == <<mpc, mconn, mcount, dropLeft, mmin, mver>>
vars == <<poolVars, settingVars, requestVars, maintVars, used, phase, faults>>

Stages == {"none", "lock", "slot", "handshake", "failing", "idle", "held", "cleanup", "pinged", "closing",
           "leaked"}
Labels == {"start", "pop", "queue", "full", "create", "wait", "asleep", "holding", "done"}

TypeOK ==
    /\ stage \in [Connections -> Stages]
    /\ ver \in [Connections -> Nat]
    /\ settings \in PoolSettings
    /\ {version, ccMax, sizeUsed, errors, waitCount, used, mcount, mmin, mver} \subseteq Nat
    /\ pc \in [Requests -> Labels]
    /\ conn \in [Requests -> Connections \cup {NoConnection}]
    /\ seen \in [Requests -> Nat]
    /\ cancelled \subseteq Requests /\ unlucky \subseteq Requests /\ late \subseteq Connections
    /\ sleepers \in Seq(Requests)
    /\ mpc \in {"rest", "acquire", "next", "ping", "close", "check"}
    /\ mconn \in Connections \cup {NoConnection}
    /\ dropLeft \in 0..IdleDropLimit
    /\ phase \in {"live", "stopMaintain", "stopConnect", "drain", "closeTasks", "destroyed"}
    /\ updates \in 0..MaxUpdates /\ faults \in 0..MaxFaults /\ swallowed \in BOOLEAN

In(s) == {k \in Connections : stage[k] = s}

Sleeping == {sleepers[i] : i \in DOMAIN sleepers}
Woken(r) == pc[r] = "asleep" /\ r \notin Sleeping

\* Init(InitMode::kAsync): min_size connect tasks with a unit each.
Init ==
    /\ stage = [k \in Connections |-> IF k <= InitialSettings.min_size THEN "slot" ELSE "none"]
    /\ ver = [k \in Connections |-> 0]
    /\ version = 0 /\ settings = InitialSettings /\ ccMax = 0
    /\ sizeUsed = InitialSettings.min_size /\ errors = 0
    /\ pc = [r \in Requests |-> "start"]
    /\ conn = [r \in Requests |-> NoConnection]
    /\ seen = [r \in Requests |-> 0]
    /\ cancelled = {} /\ sleepers = <<>> /\ waitCount = 0 /\ used = 0
    /\ mpc = "rest" /\ mconn = NoConnection /\ mcount = 0 /\ dropLeft = 0 /\ mmin = 0 /\ mver = 0
    /\ phase = "live" /\ updates = 0 /\ faults = 0
    /\ unlucky = {} /\ swallowed = FALSE /\ late = {}

-----------------------------------------------------------------------------
\* Pieces of the pool's operations

Fault == faults < MaxFaults /\ faults' = faults + 1

\* Waiting in Pop for a connection that others push.
Queued == {r \in Requests : pc[r] \in {"create", "wait", "asleep"}}

\* DeleteConnection: the close task takes over the unit.
DeleteConnection(k) ==
    /\ stage' = [stage EXCEPT ![k] = "closing"]
    /\ unlucky' = unlucky \cup Queued

\* Mutant: nobody is woken.
MutEnqueue(k) ==
    /\ stage' = [stage EXCEPT ![k] = "idle"]
    /\ UNCHANGED <<sleepers, late>>

\* PushNoblock into the queue, which wakes the first sleeper.
Enqueue(k) ==
    /\ stage' = [stage EXCEPT ![k] = "idle"]
    /\ sleepers' = IF sleepers = <<>> THEN sleepers ELSE Tail(sleepers)
    /\ late' = IF phase = "closeTasks" /\ stage[k] = "cleanup" THEN late \cup {k} ELSE late

Outdated(k, v) == ver[k] < v

\* Push; an expired connection is one of the faults.
Push(k) ==
    \/ /\ Outdated(k, version)
       /\ DeleteConnection(k)
       /\ UNCHANGED <<sleepers, late, faults>>
    \/ /\ ~Outdated(k, version)
       /\ Fault
       /\ DeleteConnection(k)
       /\ UNCHANGED <<sleepers, late>>
    \/ /\ ~Outdated(k, version)
       /\ Enqueue(k)
       /\ UNCHANGED <<unlucky, faults>>

\* Those that hold a lock of connecting_semaphore_.
Connecting   == In("handshake") \cup In("failing")
ConnectTasks == In("lock") \cup In("slot") \cup Connecting

\* A connect task starts, with the settings as they are.
Start(s) ==
    \E k \in In("none") :
        /\ \A j \in In("none") : k <= j
        /\ stage' = [stage EXCEPT ![k] = s]
        /\ ver' = [ver EXCEPT ![k] = version]

\* Mutant: no task is started that would have to wait for a unit.
MutTryCreateConnectionAsync ==
    \/ /\ errors < RecentErrorsThreshold
       /\ sizeUsed < settings.max_size
       /\ Start("slot")
       /\ sizeUsed' = sizeUsed + 1
       /\ UNCHANGED unlucky
    \/ /\ errors < RecentErrorsThreshold
       /\ sizeUsed >= settings.max_size
       /\ UNCHANGED <<stage, ver, sizeUsed, unlucky>>
    \/ /\ errors >= RecentErrorsThreshold
       /\ unlucky' = unlucky \cup Queued
       /\ UNCHANGED <<stage, ver, sizeUsed>>

TryCreateConnectionAsync ==
    \/ /\ errors < RecentErrorsThreshold
       /\ sizeUsed < settings.max_size
       /\ Start("slot")
       /\ sizeUsed' = sizeUsed + 1
       /\ UNCHANGED unlucky
    \/ /\ errors < RecentErrorsThreshold
       /\ sizeUsed >= settings.max_size
       /\ Cardinality(ConnectTasks) <= PendingConnectsMax
       /\ Start("lock")
       /\ UNCHANGED <<sizeUsed, unlucky>>
    \/ /\ errors < RecentErrorsThreshold
       /\ sizeUsed >= settings.max_size
       /\ Cardinality(ConnectTasks) > PendingConnectsMax
       /\ UNCHANGED <<stage, ver, sizeUsed, unlucky>>
    \/ /\ errors >= RecentErrorsThreshold
       /\ unlucky' = unlucky \cup Queued
       /\ UNCHANGED <<stage, ver, sizeUsed>>

-----------------------------------------------------------------------------
\* Connect and DoConnect: a connect task

GetSizeLock(k) ==
    /\ stage[k] = "lock"
    /\ sizeUsed < settings.max_size
    /\ sizeUsed' = sizeUsed + 1
    /\ stage' = [stage EXCEPT ![k] = "slot"]
    /\ UNCHANGED <<ver, errors, unlucky, late, settingVars, requestVars, maintVars, used, phase, faults>>

GetConnectingLock(k) ==
    /\ stage[k] = "slot"
    /\ settings.connecting_limit = 0 \/ Cardinality(Connecting) < settings.connecting_limit
    /\ stage' = [stage EXCEPT ![k] = "handshake"]
    /\ UNCHANGED <<ver, sizeUsed, errors, unlucky, late, settingVars, requestVars, maintVars, used, phase,
                   faults>>

\* kConnectingTimeout passes in the wait for one of the two semaphores.
ConnectingTimeout(k) ==
    /\ stage[k] \in {"lock", "slot"}
    /\ stage' = [stage EXCEPT ![k] = "none"]
    /\ sizeUsed' = IF stage[k] = "slot" THEN sizeUsed - 1 ELSE sizeUsed
    /\ unlucky' = unlucky \cup Queued
    /\ ver' = [ver EXCEPT ![k] = 0]
    /\ UNCHANGED <<errors, late, settingVars, requestVars, maintVars, used, phase, faults>>

Connected(k) ==
    /\ stage[k] = "handshake"
    /\ Push(k)
    /\ UNCHANGED <<ver, sizeUsed, errors, settingVars, pc, conn, seen, cancelled, waitCount, swallowed, maintVars,
                   used, phase>>

\* Connection::Connect throws, and the task is over; only a ConnectionError
\* counts as recent.
ConnectFails(k) ==
    /\ stage[k] = "handshake"
    /\ Fault
    /\ DeleteConnection(k)
    /\ errors' \in {errors, errors + 1}
    /\ UNCHANGED <<ver, sizeUsed, late, settingVars, requestVars, maintVars, used, phase>>

\* ... or it gets into CloseWithError, which waits for Close() first, with the
\* connecting lock still held.
CloseWithError(k) ==
    /\ stage[k] = "handshake"
    /\ Fault
    /\ stage' = [stage EXCEPT ![k] = "failing"]
    /\ UNCHANGED <<ver, sizeUsed, errors, unlucky, late, settingVars, requestVars, maintVars, used, phase>>

\* Close() is over: the unit is back, the exception is counted, the task ends.
ErrorThrown(k) ==
    /\ stage[k] = "failing"
    /\ stage' = [stage EXCEPT ![k] = "none"]
    /\ ver' = [ver EXCEPT ![k] = 0]
    /\ sizeUsed' = sizeUsed - 1
    /\ errors' \in {errors, errors + 1}
    /\ unlucky' = unlucky \cup Queued
    /\ UNCHANGED <<late, settingVars, requestVars, maintVars, used, phase, faults>>

\* The task made by PGConnectionWrapper::Close ends.
CloseEnds(k) ==
    /\ stage[k] = "closing"
    /\ stage' = [stage EXCEPT ![k] = "none"]
    /\ ver' = [ver EXCEPT ![k] = 0]
    /\ sizeUsed' = sizeUsed - 1
    /\ UNCHANGED <<errors, unlucky, late, settingVars, requestVars, maintVars, used, phase, faults>>

\* kRecentErrorPeriod passes.
ErrorsExpire ==
    /\ errors > 0
    /\ errors' = 0
    /\ UNCHANGED <<stage, ver, sizeUsed, unlucky, late, settingVars, requestVars, maintVars, used, phase,
                   faults>>

-----------------------------------------------------------------------------
\* Acquire and Pop: a request

Leave(r) == pc' = [pc EXCEPT ![r] = "done"]

\* Pop is over; what happened to the request while it waited is forgotten.
EndPop(r) ==
    /\ waitCount' = waitCount - 1
    /\ cancelled' = cancelled \ {r}
    /\ unlucky' = unlucky \ {r}

\* Mutant: the connection stays in the queue.
MutTake(r, k) ==
    /\ conn' = [conn EXCEPT ![r] = k]
    /\ pc' = [pc EXCEPT ![r] = "holding"]
    /\ used' = used + 1
    /\ UNCHANGED stage

\* Pop returns connection k, Acquire counts it.
Take(r, k) ==
    /\ stage' = [stage EXCEPT ![k] = "held"]
    /\ conn' = [conn EXCEPT ![r] = k]
    /\ pc' = [pc EXCEPT ![r] = "holding"]
    /\ used' = used + 1

\* A request cancelled or late before Pop fails at once, with no effect.
Acquire(r) ==
    /\ pc[r] = "start"
    /\ phase = "live"
    /\ pc' = [pc EXCEPT ![r] = "pop"]
    /\ seen' = [seen EXCEPT ![r] = version]
    /\ UNCHANGED <<poolVars, settingVars, conn, cancelled, sleepers, waitCount, swallowed, maintVars, used,
                   phase, faults>>

\* One turn of the PopNoblock loop.
PopNoblock(r) ==
    /\ pc[r] = "pop"
    /\ \/ \E k \in In("idle") :
             \/ /\ Outdated(k, seen[r])
                /\ DeleteConnection(k)
                /\ UNCHANGED <<pc, conn, seen, cancelled, used, faults>>
             \/ /\ ~Outdated(k, seen[r])
                /\ Fault
                /\ DeleteConnection(k)
                /\ UNCHANGED <<pc, conn, seen, cancelled, used>>
             \/ /\ ~Outdated(k, seen[r])
                /\ Take(r, k)
                /\ seen' = [seen EXCEPT ![r] = 0]
                /\ cancelled' = cancelled \ {r}
                /\ UNCHANGED <<unlucky, faults>>
       \/ /\ In("idle") = {}
          /\ pc' = [pc EXCEPT ![r] = "queue"]
          /\ seen' = [seen EXCEPT ![r] = 0]
          /\ UNCHANGED <<stage, conn, cancelled, unlucky, used, faults>>
    /\ UNCHANGED <<ver, sizeUsed, errors, late, settingVars, sleepers, waitCount, swallowed,
                   maintVars, phase>>

\* SizeGuard wg(wait_count_), then the comparison with max_queue_size.
EnterQueue(r) ==
    /\ pc[r] = "queue"
    /\ waitCount' = waitCount + 1
    /\ pc' = [pc EXCEPT ![r] = IF waitCount' > settings.max_queue_size THEN "full" ELSE "create"]
    /\ UNCHANGED <<poolVars, settingVars, conn, seen, cancelled, sleepers, swallowed, maintVars, used, phase,
                   faults>>

\* Mutant: the guard is not destroyed.
MutQueueFull(r) ==
    /\ pc[r] = "full"
    /\ Leave(r)
    /\ UNCHANGED <<poolVars, settingVars, conn, seen, cancelled, sleepers, waitCount, swallowed, maintVars, used,
                   phase, faults>>

\* The exception leaves Pop.
QueueFull(r) ==
    /\ pc[r] = "full"
    /\ Leave(r)
    /\ EndPop(r)
    /\ UNCHANGED <<stage, ver, sizeUsed, errors, late, settingVars, conn, seen, sleepers, swallowed, maintVars,
                   used, phase, faults>>

Create(r) ==
    /\ pc[r] = "create"
    /\ TryCreateConnectionAsync
    /\ pc' = [pc EXCEPT ![r] = "wait"]
    /\ UNCHANGED <<errors, late, settingVars, conn, seen, cancelled, sleepers, waitCount, swallowed, maintVars,
                   used, phase, faults>>

\* The blocking Pop.  Its first attempt is made even if the request is
\* cancelled; a woken request that is cancelled makes none.  The settings are
\* not compared.
PopBlocking(r) ==
    /\ pc[r] = "wait" \/ Woken(r)
    /\ \/ \E k \in In("idle") :
             /\ pc[r] = "wait" \/ r \notin cancelled
             /\ Take(r, k)
             /\ EndPop(r)
             /\ UNCHANGED <<sleepers, swallowed>>
       \/ /\ r \in cancelled
          /\ pc[r] = "wait" => In("idle") = {}
          /\ Leave(r)
          /\ EndPop(r)
          /\ swallowed' = (swallowed \/ Woken(r))
          /\ UNCHANGED <<stage, conn, sleepers, used>>
       \/ /\ r \notin cancelled
          /\ In("idle") = {}
          /\ pc' = [pc EXCEPT ![r] = "asleep"]
          /\ sleepers' = Append(sleepers, r)
          /\ UNCHANGED <<stage, conn, cancelled, waitCount, unlucky, swallowed, used>>
    /\ UNCHANGED <<ver, sizeUsed, errors, late, settingVars, seen, maintVars, phase, faults>>

\* A sleep nobody has ended is ended by the deadline or by a cancellation.
SleepEnds(r) ==
    /\ Leave(r)
    /\ EndPop(r)
    /\ sleepers' = Unlink(sleepers, r)

DeadlinePasses(r) ==
    /\ r \in Sleeping
    /\ Fault
    /\ SleepEnds(r)
    /\ UNCHANGED <<stage, ver, sizeUsed, errors, late, settingVars, conn, seen, swallowed, maintVars, used, phase>>

\* A cancelled request wakes up, unless it is awake.
Cancel(r) ==
    /\ pc[r] \in {"pop", "queue", "create", "wait", "asleep"}
    /\ r \notin cancelled
    /\ Fault
    /\ IF r \in Sleeping
          THEN SleepEnds(r)
          ELSE /\ cancelled' = cancelled \cup {r}
               /\ UNCHANGED <<pc, sleepers, waitCount, unlucky>>
    /\ UNCHANGED <<stage, ver, sizeUsed, errors, late, settingVars, conn, seen, swallowed, maintVars, used, phase>>

\* Release of connection k: broken, idle again, or in the middle of a query and
\* handed, still counted as used, to a task that cleans it up.
Release(k) ==
    \/ /\ Fault
       /\ DeleteConnection(k)
       /\ used' = used - 1
       /\ UNCHANGED <<sleepers, late>>
    \/ /\ Push(k)
       /\ used' = used - 1
    \/ /\ Fault
       /\ stage' = [stage EXCEPT ![k] = "cleanup"]
       /\ UNCHANGED <<sleepers, unlucky, late, used>>

\* ~ConnectionPtr: the request is over.
ReleaseHeld(r) ==
    /\ pc[r] = "holding"
    /\ Release(conn[r])
    /\ Leave(r)
    /\ conn' = [conn EXCEPT ![r] = NoConnection]
    /\ UNCHANGED <<ver, sizeUsed, errors, settingVars, seen, cancelled, waitCount, swallowed, maintVars, phase>>

\* CleanupConnection, in a task of close_task_storage_.
CleanupConnection(k) ==
    /\ stage[k] = "cleanup"
    /\ \/ Push(k)
       \/ DeleteConnection(k) /\ UNCHANGED <<sleepers, late, faults>>
    /\ used' = used - 1
    /\ UNCHANGED <<ver, sizeUsed, errors, settingVars, pc, conn, seen, cancelled, waitCount, swallowed, maintVars,
                   phase>>

-----------------------------------------------------------------------------
\* MaintainConnections, every kMaintainInterval

MaintainConnections ==
    /\ mpc = "rest"
    /\ phase = "live"
    /\ waitCount = 0
    /\ mpc' = "acquire"
    /\ mcount' = sizeUsed
    /\ dropLeft' = IdleDropLimit
    /\ mmin' = settings.min_size
    /\ UNCHANGED <<poolVars, settingVars, requestVars, mconn, mver, used, phase, faults>>

\* The next turn of the loop, if the count is not used up: AcquireImmediate
\* reads the settings.
AcquireImmediate ==
    /\ mpc = "acquire"
    /\ \/ /\ mcount > 0
          /\ mpc' = "next"
          /\ mver' = version
       \/ /\ mcount = 0
          /\ mpc' = "check"
          /\ UNCHANGED mver
    /\ UNCHANGED <<poolVars, settingVars, requestVars, mconn, mcount, dropLeft, mmin, used, phase, faults>>

\* AcquireImmediate drops a connection and goes on, or takes one, which is
\* dropped or pinged; or nothing is idle.
Maintain ==
    /\ mpc = "next"
    /\ \/ \E k \in In("idle") :
             \/ /\ Outdated(k, mver)
                /\ DeleteConnection(k)
                /\ UNCHANGED <<mpc, mconn, dropLeft, mver, used, faults>>
             \/ /\ ~Outdated(k, mver)
                /\ Fault
                /\ DeleteConnection(k)
                /\ UNCHANGED <<mpc, mconn, dropLeft, mver, used>>
             \/ /\ ~Outdated(k, mver)
                /\ mcount > mmin
                /\ dropLeft > 0
                /\ DeleteConnection(k)
                /\ mpc' = "close"
                /\ mconn' = k
                /\ dropLeft' = dropLeft - 1
                /\ mver' = 0
                /\ UNCHANGED <<used, faults>>
             \/ /\ ~Outdated(k, mver)
                /\ mcount <= mmin \/ dropLeft = 0
                /\ stage' = [stage EXCEPT ![k] = "pinged"]
                /\ used' = used + 1
                /\ mpc' = "ping"
                /\ mconn' = k
                /\ mver' = 0
                /\ UNCHANGED <<dropLeft, unlucky, faults>>
       \/ /\ In("idle") = {}
          /\ mpc' = "check"
          /\ mver' = 0
          /\ UNCHANGED <<stage, mconn, dropLeft, unlucky, used, faults>>
    /\ UNCHANGED <<ver, sizeUsed, errors, late, settingVars, requestVars, mcount, mmin, phase>>

\* The loop goes on while the connections it meets have been idle for long.
NextTurn ==
    /\ mpc' \in {"acquire", "check"}
    /\ mcount' = mcount - 1
    /\ mconn' = NoConnection
    /\ UNCHANGED <<dropLeft, mmin, mver>>

\* Mutant: the unit of the dropped connection is given back a second time.
MutDropped ==
    /\ mpc = "close"
    /\ stage[mconn] # "closing"
    /\ NextTurn
    /\ sizeUsed' = sizeUsed - 1
    /\ UNCHANGED <<stage, ver, errors, unlucky, late, settingVars, requestVars, used, phase, faults>>

\* Close().Wait() of the dropped connection returns.
Dropped ==
    /\ mpc = "close"
    /\ stage[mconn] # "closing"
    /\ NextTurn
    /\ UNCHANGED <<poolVars, settingVars, requestVars, used, phase, faults>>

\* Ping ends, well or not, and the connection is released.
Pinged ==
    /\ mpc = "ping"
    /\ Release(mconn)
    /\ NextTurn
    /\ UNCHANGED <<ver, sizeUsed, errors, settingVars, pc, conn, seen, cancelled, waitCount, swallowed, phase>>

CheckMinPoolSizeUnderflow ==
    /\ mpc = "check"
    /\ mpc' = "rest"
    /\ mcount' = 0
    /\ dropLeft' = 0
    /\ mmin' = 0
    /\ IF sizeUsed < settings.min_size
          THEN TryCreateConnectionAsync
          ELSE UNCHANGED <<stage, ver, sizeUsed, unlucky>>
    /\ UNCHANGED <<errors, late, settingVars, requestVars, mconn, mver, used, phase, faults>>

-----------------------------------------------------------------------------
\* Settings

SetMaxConnectionsCc(n) ==
    /\ n # ccMax
    /\ ccMax' = n
    /\ UNCHANGED <<poolVars, version, settings, updates, requestVars, maintVars, used, phase, faults>>

\* SetSettings: nothing happens when the settings are the ones in force, even
\* if the congestion control's limit is new.
SetSettings(s) ==
    /\ updates < MaxUpdates
    /\ updates' = updates + 1
    /\ s # settings
    /\ settings' = [s EXCEPT !.max_size = IF ccMax > 0 /\ ccMax < @ THEN ccMax ELSE @]
    /\ UNCHANGED <<poolVars, version, ccMax, requestVars, maintVars, used, phase, faults>>

\* SetConnectionSettings with a change that RequiresConnectionReset.
SetConnectionSettings ==
    /\ updates < MaxUpdates
    /\ updates' = updates + 1
    /\ version' = version + 1
    /\ UNCHANGED <<poolVars, settings, ccMax, requestVars, maintVars, used, phase, faults>>

-----------------------------------------------------------------------------
\* ~ConnectionPool, when no request has the pool any more

Advance(from, to) ==
    /\ phase = from
    /\ phase' = to
    /\ UNCHANGED <<ver, sizeUsed, errors, late, settingVars, requestVars, maintVars, used, faults>>

Destroy ==
    /\ \A r \in Requests : pc[r] \in {"start", "done"}
    /\ Advance("live", "stopMaintain")
    /\ UNCHANGED <<stage, unlucky>>

StopMaintainTask ==
    /\ mpc = "rest"
    /\ Advance("stopMaintain", "stopConnect")
    /\ UNCHANGED <<stage, unlucky>>

\* Mutant: the connect tasks are not waited for.
MutStopConnectTasks ==
    /\ Advance("stopConnect", "drain")
    /\ UNCHANGED <<stage, unlucky>>

StopConnectTasks ==
    /\ ConnectTasks = {}
    /\ Advance("stopConnect", "drain")
    /\ UNCHANGED <<stage, unlucky>>

\* Clear: first the queue ...
Drain ==
    /\ stage' = [k \in Connections |-> IF stage[k] = "idle" THEN "closing" ELSE stage[k]]
    /\ Advance("drain", "closeTasks")
    /\ UNCHANGED unlucky

\* Mutant: the queue must be empty by then.
MutCloseTasksEnd ==
    /\ In("cleanup") \cup In("closing") \cup In("idle") = {}
    /\ Advance("closeTasks", "destroyed")
    /\ UNCHANGED <<stage, unlucky>>

\* ... then the close tasks.  ~GenericQueue drops the pointers still in the
\* queue, but not the connections.
CloseTasksEnd ==
    /\ In("cleanup") \cup In("closing") = {}
    /\ stage' = [k \in Connections |-> IF stage[k] = "idle" THEN "leaked" ELSE stage[k]]
    /\ Advance("closeTasks", "destroyed")
    /\ UNCHANGED unlucky

-----------------------------------------------------------------------------
ConnectionStep(k) ==
    GetSizeLock(k) \/ GetConnectingLock(k) \/ Connected(k) \/ ConnectFails(k) \/ CloseWithError(k)
    \/ ErrorThrown(k) \/ CloseEnds(k) \/ CleanupConnection(k) \/ ConnectingTimeout(k)

RequestStep(r) ==
    PopNoblock(r) \/ EnterQueue(r) \/ QueueFull(r) \/ Create(r) \/ PopBlocking(r) \/ ReleaseHeld(r)

MaintainStep == AcquireImmediate \/ Maintain \/ Dropped \/ Pinged \/ CheckMinPoolSizeUnderflow
DestroyStep  == StopMaintainTask \/ StopConnectTasks \/ Drain \/ CloseTasksEnd

Next ==
    \/ \E k \in Connections : ConnectionStep(k)
    \/ \E r \in Requests : Acquire(r) \/ RequestStep(r) \/ DeadlinePasses(r) \/ Cancel(r)
    \/ MaintainConnections \/ MaintainStep
    \/ ErrorsExpire
    \/ \E n \in CcLimits : SetMaxConnectionsCc(n)
    \/ \E s \in NewSettings : SetSettings(s)
    \/ SetConnectionSettings
    \/ Destroy \/ DestroyStep

Spec == Init /\ [][Next]_vars

\* Tasks run and PostgreSQL answers, well or not: connecting, closing and
\* cleaning up end, and so does the use of a connection.  No deadline of a
\* request has to pass, and no request, update or maintenance has to begin.
FairSpec ==
    /\ Spec
    /\ \A k \in Connections : WF_vars(ConnectionStep(k))
    /\ \A r \in Requests : WF_vars(RequestStep(r))
    /\ WF_vars(MaintainStep)
    /\ WF_vars(DestroyStep)

-----------------------------------------------------------------------------
\* Properties

\* Who gives what back when: each unit of size_semaphore_ belongs to exactly one
\* connection, from the connect task that took it to the end of the task that
\* closes it, whatever failed in between; connection.used counts what is out
\* of the queue, wait_count_ the requests inside Pop's second half.
AccountsExact ==
    /\ sizeUsed = Cardinality({k \in Connections : stage[k] \notin {"none", "lock"}})
    /\ used = Cardinality(In("held") \cup In("cleanup") \cup In("pinged"))
    /\ waitCount = Cardinality({r \in Requests : pc[r] = "full"} \cup Queued)

\* No two requests, nor a request and the maintenance task, ever work on the
\* same connection, and no connection in use is in the queue or being closed.
OneOwner ==
    /\ \A r \in Requests : pc[r] = "holding" => stage[conn[r]] = "held"
    /\ \A r, q \in Requests : r # q /\ pc[r] = "holding" /\ pc[q] = "holding" => conn[r] # conn[q]
    /\ mpc = "ping" => stage[mconn] = "pinged"

\* While a request sleeps, every idle connection has a request that was woken
\* for it and will take it, or another idle one.  The exception is a request
\* that was woken and cancelled: it takes nothing and wakes nobody.
IdleIsOffered ==
    sleepers # <<>> => \/ Cardinality(In("idle")) <= Cardinality({r \in Requests : Woken(r)})
                       \/ swallowed

\* After the destructor every connection is closed and its unit is back (the
\* UASSERT of ~CancellableSemaphore), except those a clean-up task pushed after
\* Clear had emptied the queue: nobody deletes these.
LeakIsLatePush ==
    phase = "destroyed" =>
        /\ \A k \in Connections : stage[k] = IF k \in late THEN "leaked" ELSE "none"
        /\ sizeUsed = Cardinality(late)

\* Pop's wait ends without a deadline, if the connections in use are given back,
\* unless something went wrong while the request waited: too many recent errors,
\* an attempt that failed, a connection that was dropped, a wakeup that was
\* swallowed.  A request that is refused a connect task of its own because enough
\* of them are pending loses nothing by it.
WaitEnds ==
    \A r \in Requests : r \in Queued ~> (r \notin Queued \/ r \in unlucky \/ swallowed)

\* The destructor ends: no task it waits for waits for something that the
\* destructor does later.
DestroyEnds == phase = "stopMaintain" ~> phase = "destroyed"

-----------------------------------------------------------------------------
\* The inductive invariant behind the properties.

\* A connection is held by the request that has it, pinged by the maintenance
\* task that has it, and by nobody else.
Owned ==
    /\ \A r \in Requests : pc[r] = "holding" => conn[r] \in Connections
    /\ \A k \in In("held") : \E r \in Requests : pc[r] = "holding" /\ conn[r] = k
    /\ mpc = "ping" => mconn \in Connections
    /\ \A k \in In("pinged") : mpc = "ping" /\ mconn = k
    /\ mpc \in {"next", "ping", "close"} => mcount > 0

\* The wait list holds each of its requests once, and they sleep.
SleepersFit ==
    /\ \A r \in Sleeping : pc[r] = "asleep"
    /\ \A i, j \in DOMAIN sleepers : sleepers[i] = sleepers[j] => i = j

\* The semaphore and the count of connect tasks bound the connections.
Bounded ==
    /\ settings.max_size <= LargestSize
    /\ sizeUsed <= LargestSize
    /\ Cardinality(In("lock")) <= PendingConnectsMax + 1

\* What each step of the destructor can rely on.
PhaseFits ==
    /\ phase # "live" => \A r \in Requests : pc[r] \in {"start", "done"}
    /\ phase \notin {"live", "stopMaintain"} => mpc = "rest"
    /\ phase \in {"drain", "closeTasks", "destroyed"} => ConnectTasks = {}
    /\ phase = "closeTasks" => late = In("idle")
    /\ phase \notin {"closeTasks", "destroyed"} => late = {}
    /\ IF phase = "destroyed"
          THEN \A k \in Connections : stage[k] = IF k \in late THEN "leaked" ELSE "none"
          ELSE In("leaked") = {}

PoolInv ==
    /\ TypeOK /\ Owned /\ OneOwner /\ AccountsExact /\ SleepersFit /\ IdleIsOffered /\ Bounded
    /\ PhaseFits

\* The numbering of connections never runs out: whenever a connect task may
\* start there is a number for it.
SpareConnection ==
    sizeUsed < settings.max_size \/ Cardinality(ConnectTasks) <= PendingConnectsMax => In("none") # {}
=============================================================================
