----------------------------- MODULE RateLimiter -----------------------------
(***************************************************************************)
(* mongo-api: check_rate_limit, the fixed-window counter in Redis that     *)
(* guards POST /messages.                                                  *)
(*                                                                         *)
(* A request computes the number of the current window from the clock,     *)
(* increments the counter of that window and, if it created the counter,   *)
(* gives it a time to live of RATE_WINDOW.  These are three separate       *)
(* steps: the clock may move, and other threads of the API's thread pool   *)
(* may run, between them.  Counters of different client addresses are      *)
(* different keys, so the module is about one address.                     *)
(***************************************************************************)
EXTENDS Naturals, FiniteSets

CONSTANTS
    Threads,        \* worker threads of the API
    RATE_LIMIT,
    RATE_WINDOW,    \* length of a window and time to live of a counter, in ticks
    MaxWindow,      \* bound on the clock: the last window
    MaxArrivals,    \* bound on the requests of a window
    MaxFaults       \* bound on failing Redis calls

ASSUME RateAssumption ==
    /\ RATE_LIMIT \in Nat \ {0}
    /\ RATE_WINDOW \in Nat \ {0}
    /\ MaxWindow \in Nat
    /\ MaxArrivals \in Nat
    /\ MaxFaults \in Nat

VARIABLES
    win,            \* the clock: int(time.time() // RATE_WINDOW)
    sec,            \* ... and the ticks since that window began
    pc,             \* where each thread is in check_rate_limit
    window,         \* its variable window
    counter,        \* value of the key of each window, 0: the key does not exist
    ttl,            \* ticks until the key expires, NoTTL: never
    admitted,       \* history: requests per window that passed
    arrived,        \* history: requests per window, by the clock
    rejected,       \* history: windows that had a request answered 429
    late,           \* history: windows whose counter was incremented after their end
    faults

clock == <<win, sec>>
vars == <<clock, pc, window, counter, ttl, admitted, arrived, rejected, late, faults>>

Windows == 0..MaxWindow
NoTTL   == 0

TypeOK ==
    /\ win \in Windows
    /\ sec \in 0..(RATE_WINDOW - 1)
    /\ pc \in [Threads -> {"idle", "incr", "expire"}]
    /\ window \in [Threads -> Windows]
    /\ counter \in [Windows -> Nat]
    /\ ttl \in [Windows -> 0..RATE_WINDOW]
    /\ admitted \in [Windows -> Nat]
    /\ arrived \in [Windows -> Nat]
    /\ rejected \in SUBSET Windows
    /\ late \in SUBSET Windows
    /\ faults \in 0..MaxFaults

Init ==
    /\ win = 0
    /\ sec = 0
    /\ pc = [t \in Threads |-> "idle"]
    /\ window = [t \in Threads |-> 0]
    /\ counter = [w \in Windows |-> 0]
    /\ ttl = [w \in Windows |-> NoTTL]
    /\ admitted = [w \in Windows |-> 0]
    /\ arrived = [w \in Windows |-> 0]
    /\ rejected = {}
    /\ late = {}
    /\ faults = 0

-----------------------------------------------------------------------------
\* A tick of the clock.  Redis (external) removes a key at the end of its time
\* to live.
Tick ==
    /\ IF sec < RATE_WINDOW - 1
          THEN /\ sec' = sec + 1
               /\ UNCHANGED win
          ELSE /\ win < MaxWindow
               /\ win' = win + 1
               /\ sec' = 0
    /\ counter' = [w \in Windows |-> IF ttl[w] = 1 THEN 0 ELSE counter[w]]
    /\ ttl' = [w \in Windows |-> IF ttl[w] = NoTTL THEN NoTTL ELSE ttl[w] - 1]
    /\ UNCHANGED <<pc, window, admitted, arrived, rejected, late, faults>>

\* Mutant: the key does not name the window.
MutArrive(t) ==
    /\ pc[t] = "idle"
    /\ arrived[win] < MaxArrivals
    /\ arrived' = [arrived EXCEPT ![win] = @ + 1]
    /\ window' = [window EXCEPT ![t] = 0]
    /\ pc' = [pc EXCEPT ![t] = "incr"]
    /\ UNCHANGED <<clock, counter, ttl, admitted, rejected, late, faults>>

\* A request arrives: window = int(time.time() // RATE_WINDOW).
Arrive(t) ==
    /\ pc[t] = "idle"
    /\ arrived[win] < MaxArrivals
    /\ arrived' = [arrived EXCEPT ![win] = @ + 1]
    /\ window' = [window EXCEPT ![t] = win]
    /\ pc' = [pc EXCEPT ![t] = "incr"]
    /\ UNCHANGED <<clock, counter, ttl, admitted, rejected, late, faults>>

\* Mutant: one request too many passes.
MutDecide(w, current) ==
    IF current > RATE_LIMIT + 1
       THEN rejected' = rejected \cup {w} /\ UNCHANGED admitted
       ELSE admitted' = [admitted EXCEPT ![w] = @ + 1] /\ UNCHANGED rejected

\* The end of check_rate_limit for a request that read `current'.
Decide(w, current) ==
    IF current > RATE_LIMIT
       THEN rejected' = rejected \cup {w} /\ UNCHANGED admitted
       ELSE admitted' = [admitted EXCEPT ![w] = @ + 1] /\ UNCHANGED rejected

\* The effect of INCR, which creates a missing key and keeps a time to live.
IncrKey(w) ==
    /\ counter' = [counter EXCEPT ![w] = @ + 1]
    /\ late' = IF w < win THEN late \cup {w} ELSE late

\* Mutant: the first request is not the one that sets the time to live.
MutIncr(t) ==
    LET w == window[t]
        current == counter[w] + 1
    IN  /\ pc[t] = "incr"
        /\ IncrKey(w)
        /\ IF current = 0
              THEN pc' = [pc EXCEPT ![t] = "expire"] /\ UNCHANGED <<admitted, rejected>>
              ELSE pc' = [pc EXCEPT ![t] = "idle"] /\ Decide(w, current)
        /\ UNCHANGED <<clock, window, ttl, arrived, faults>>

\* current = redis_client.incr(key); only the request that created the key
\* goes on to EXPIRE.
Incr(t) ==
    LET w == window[t]
        current == counter[w] + 1
    IN  /\ pc[t] = "incr"
        /\ IncrKey(w)
        /\ IF current = 1
              THEN pc' = [pc EXCEPT ![t] = "expire"] /\ UNCHANGED <<admitted, rejected>>
              ELSE pc' = [pc EXCEPT ![t] = "idle"] /\ Decide(w, current)
        /\ UNCHANGED <<clock, window, ttl, arrived, faults>>

\* The effect of EXPIRE; it does nothing if the key does not exist.
ExpireKey(w) ==
    ttl' = IF counter[w] = 0 THEN ttl ELSE [ttl EXCEPT ![w] = RATE_WINDOW]

\* redis_client.expire(key, RATE_WINDOW), then the decision with current = 1.
Expire(t) ==
    /\ pc[t] = "expire"
    /\ ExpireKey(window[t])
    /\ Decide(window[t], 1)
    /\ pc' = [pc EXCEPT ![t] = "idle"]
    /\ UNCHANGED <<clock, window, counter, arrived, late, faults>>

\* A Redis call raises, before or after its effect; check_rate_limit does not
\* catch it, the request is answered 500.
RedisFails(t) ==
    /\ faults < MaxFaults
    /\ \/ pc[t] \in {"incr", "expire"} /\ UNCHANGED <<counter, ttl, late>>
       \/ pc[t] = "incr" /\ IncrKey(window[t]) /\ UNCHANGED ttl
       \/ pc[t] = "expire" /\ ExpireKey(window[t]) /\ UNCHANGED <<counter, late>>
    /\ pc' = [pc EXCEPT ![t] = "idle"]
    /\ faults' = faults + 1
    /\ UNCHANGED <<clock, window, admitted, arrived, rejected>>

Next == \/ Tick
        \/ \E t \in Threads : Arrive(t) \/ Incr(t) \/ Expire(t) \/ RedisFails(t)

Spec == Init /\ [][Next]_vars

-----------------------------------------------------------------------------
\* performance_design.md promises at most RATE_LIMIT requests a window.  The only
\* way past the limit is a request that computes its window, loses the
\* time until the window is over, and increments then: no interleaving of INCR,
\* EXPIRE and failing calls in time lets one request too many pass.
LimitUnlessLate == \A w \in Windows \ late : admitted[w] <= RATE_LIMIT

\* A request is answered 429 only in a window in which more than RATE_LIMIT
\* requests arrived: a counter left without a time to live by a failing EXPIRE
\* locks no later window out.
NoLockout == \A w \in rejected : arrived[w] > RATE_LIMIT

\* Counters that stay in Redis for ever: no time to live, and no request that
\* is about to set one.
Orphans ==
    {w \in Windows : /\ counter[w] > 0 /\ ttl[w] = NoTTL
                     /\ \A t \in Threads : ~(pc[t] = "expire" /\ window[t] = w)}

\* Each failing call costs at most one counter its time to live: no slowness of
\* the threads and no later request of the window leaves another one behind.
OrphansFromFailures == Cardinality(Orphans) <= faults

-----------------------------------------------------------------------------
\* A request that created the counter and has not been decided yet.
Pending(w) == IF \E t \in Threads : pc[t] = "expire" /\ window[t] = w THEN 1 ELSE 0

\* Only one request at a time is about to set the time to live of a counter,
\* and the counter waits for it.
OneExpire ==
    \A t \in Threads : pc[t] = "expire" =>
        /\ counter[window[t]] > 0
        /\ ttl[window[t]] = NoTTL
        /\ \A s \in Threads : pc[s] = "expire" /\ window[s] = window[t] => s = t

\* A counter outlives its window, and until the window is over it has counted
\* every request that passed or is about to.
CounterCovers ==
    \A w \in Windows :
        /\ ttl[w] # NoTTL => counter[w] > 0 /\ (w = win => sec + ttl[w] >= RATE_WINDOW)
        /\ w > win => counter[w] = 0
        /\ w >= win => admitted[w] + Pending(w) <= counter[w] /\ w \notin late
        /\ w \notin late => admitted[w] + Pending(w) <= RATE_LIMIT

\* No request is about a window of the future.
InWindow == \A t \in Threads : window[t] <= win

\* The inductive invariant behind LimitUnlessLate.
RateInv == TypeOK /\ InWindow /\ OneExpire /\ CounterCovers

\* The requests that arrived in a window and have not been counted yet.
Uncounted(w) == {t \in Threads : pc[t] = "incr" /\ window[t] = w}

\* A counter never runs ahead of the requests that arrived in its window: each
\* of them increments it at most once, and only the expiry sets it back.
ArrivalsCover ==
    \A w \in Windows :
        /\ IsFiniteSet(Uncounted(w))
        /\ counter[w] + Cardinality(Uncounted(w)) <= arrived[w]

\* The inductive invariant behind NoLockout and OrphansFromFailures.
LockoutInv == RateInv /\ ArrivalsCover /\ NoLockout /\ OrphansFromFailures
=============================================================================
