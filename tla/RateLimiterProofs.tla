-------------------------- MODULE RateLimiterProofs --------------------------
(***************************************************************************)
(* Proofs about RateLimiter for every number of threads, every limit and   *)
(* every length of the window.                                             *)
(***************************************************************************)
EXTENDS RateLimiter, FiniteSetTheorems, TLAPS

\* What a decision, an INCR and an EXPIRE do to the types of their variables.
LEMMA DecideType ==
    ASSUME TypeOK, NEW w \in Windows, NEW n \in Nat, Decide(w, n)
    PROVE  admitted' \in [Windows -> Nat] /\ rejected' \in SUBSET Windows
  <1>1. admitted \in [Windows -> Nat] /\ rejected \in SUBSET Windows /\ admitted[w] + 1 \in Nat
    BY DEF TypeOK
  <1>. QED  BY <1>1 DEF Decide

LEMMA IncrType ==
    ASSUME TypeOK, NEW w \in Windows, IncrKey(w)
    PROVE  counter' \in [Windows -> Nat] /\ late' \in SUBSET Windows
  <1>1. counter \in [Windows -> Nat] /\ counter[w] + 1 \in Nat /\ late \in SUBSET Windows
    BY DEF TypeOK
  <1>. QED  BY <1>1 DEF IncrKey

LEMMA ExpireType ==
    ASSUME TypeOK, NEW w \in Windows, ExpireKey(w)
    PROVE  ttl' \in [Windows -> 0..RATE_WINDOW]
  <1>1. ttl \in [Windows -> 0..RATE_WINDOW]
    BY DEF TypeOK
  <1>2. RATE_WINDOW \in 0..RATE_WINDOW
    BY RateAssumption
  <1>. QED  BY <1>1, <1>2 DEF ExpireKey

\* Types alone.
LEMMA RateTypeStep ==
    ASSUME TypeOK, [Next]_vars
    PROVE  TypeOK'
  <1>t. /\ win \in Windows /\ sec \in 0..(RATE_WINDOW - 1)
        /\ pc \in [Threads -> {"idle", "incr", "expire"}]
        /\ window \in [Threads -> Windows]
        /\ counter \in [Windows -> Nat]
        /\ ttl \in [Windows -> 0..RATE_WINDOW]
        /\ admitted \in [Windows -> Nat]
        /\ arrived \in [Windows -> Nat]
        /\ late \in SUBSET Windows
        /\ faults \in 0..MaxFaults
    BY DEF TypeOK
  <1>1. CASE Tick
    <2>1. win' \in Windows /\ sec' \in 0..(RATE_WINDOW - 1)
      <3>1. CASE sec < RATE_WINDOW - 1
        <4>1. sec' = sec + 1 /\ win' = win
          BY <1>1, <3>1 DEF Tick
        <4>. QED  BY <1>t, <3>1, <4>1, RateAssumption
      <3>2. CASE ~(sec < RATE_WINDOW - 1)
        <4>1. win < MaxWindow /\ sec' = 0 /\ win' = win + 1
          BY <1>1, <3>2 DEF Tick
        <4>. QED  BY <1>t, <4>1, RateAssumption DEF Windows
      <3>. QED  BY <3>1, <3>2
    <2>2. counter' \in [Windows -> Nat]
      BY <1>1, <1>t DEF Tick
    <2>3. \A w \in Windows : (IF ttl[w] = NoTTL THEN NoTTL ELSE ttl[w] - 1) \in 0..RATE_WINDOW
      BY <1>t, RateAssumption DEF NoTTL
    <2>4. ttl' \in [Windows -> 0..RATE_WINDOW]
      BY <1>1, <2>3 DEF Tick
    <2>. QED  BY <1>1, <2>1, <2>2, <2>4 DEF Tick, TypeOK
  <1>2. ASSUME NEW t \in Threads, Arrive(t) PROVE TypeOK'
    <2>1. arrived[win] + 1 \in Nat
      BY <1>t
    <2>2. arrived' \in [Windows -> Nat]
      BY <1>2, <1>t, <2>1 DEF Arrive
    <2>. QED  BY <1>2, <2>2 DEF Arrive, TypeOK, clock
  <1>3. ASSUME NEW t \in Threads, Incr(t) PROVE TypeOK'
    <2>1. window[t] \in Windows /\ counter[window[t]] + 1 \in Nat
      BY <1>t
    <2>2. counter' \in [Windows -> Nat] /\ late' \in SUBSET Windows
      BY <1>3, <2>1, IncrType DEF Incr
    <2>3. admitted' \in [Windows -> Nat] /\ rejected' \in SUBSET Windows
      BY <1>3, <2>1, DecideType DEF Incr, TypeOK
    <2>4. pc' \in [Threads -> {"idle", "incr", "expire"}]
      BY <1>3, <1>t DEF Incr
    <2>. QED  BY <1>3, <2>2, <2>3, <2>4 DEF Incr, TypeOK, clock
  <1>4. ASSUME NEW t \in Threads, Expire(t) PROVE TypeOK'
    <2>1. window[t] \in Windows
      BY <1>t
    <2>2. ttl' \in [Windows -> 0..RATE_WINDOW]
      BY <1>4, <2>1, ExpireType DEF Expire
    <2>3. admitted' \in [Windows -> Nat] /\ rejected' \in SUBSET Windows
      BY <1>4, <2>1, DecideType DEF Expire
    <2>. QED  BY <1>4, <2>2, <2>3 DEF Expire, TypeOK, clock
  <1>5. ASSUME NEW t \in Threads, RedisFails(t) PROVE TypeOK'
    <2>1. window[t] \in Windows
      BY <1>t
    <2>2. /\ counter' \in [Windows -> Nat] /\ ttl' \in [Windows -> 0..RATE_WINDOW]
          /\ late' \in SUBSET Windows
      BY <1>5, <1>t, <2>1, IncrType, ExpireType DEF RedisFails
    <2>3. faults' \in 0..MaxFaults
      BY <1>5, <1>t, RateAssumption DEF RedisFails
    <2>. QED  BY <1>5, <2>2, <2>3 DEF RedisFails, TypeOK, clock
  <1>6. CASE UNCHANGED vars
    BY <1>6 DEF vars, TypeOK, clock
  <1>. QED  BY <1>1, <1>2, <1>3, <1>4, <1>5, <1>6 DEF Next

\* Initially no request has been counted.
LEMMA RateInit == Init => RateInv
  <1> SUFFICES ASSUME Init PROVE RateInv
    OBVIOUS
  <1> USE RateAssumption
  <1>1. TypeOK
    BY DEF Init, TypeOK, Windows, NoTTL
  <1>2. InWindow /\ OneExpire
    BY DEF Init, InWindow, OneExpire
  <1>3. \A w \in Windows : Pending(w) = 0
    BY DEF Init, Pending
  <1>4. CounterCovers
    BY <1>3 DEF Init, CounterCovers, NoTTL
  <1>. QED  BY <1>1, <1>2, <1>4 DEF RateInv

\* Every step preserves the invariant.
LEMMA RateInvStep ==
    ASSUME RateInv, [Next]_vars
    PROVE  RateInv'
  <1> USE RateAssumption
  <1>0. TypeOK'
    BY RateTypeStep DEF RateInv
  <1>t. TypeOK /\ InWindow /\ OneExpire /\ CounterCovers
    BY DEF RateInv
  <1>p. \A w \in Windows : Pending(w) \in {0, 1}
    BY DEF Pending
  <1>n. /\ win \in Windows /\ Windows \subseteq Nat /\ sec \in Nat
        /\ \A w \in Windows : counter[w] \in Nat /\ ttl[w] \in Nat /\ admitted[w] \in Nat
        /\ \A t \in Threads : window[t] \in Windows
    BY <1>t DEF TypeOK, Windows
  <1>f. /\ pc \in [Threads -> {"idle", "incr", "expire"}]
        /\ window \in [Threads -> Windows]
        /\ counter \in [Windows -> Nat]
        /\ ttl \in [Windows -> 0..RATE_WINDOW]
        /\ admitted \in [Windows -> Nat]
    BY <1>t DEF TypeOK
  <1>c. \A w \in Windows :
           /\ ttl[w] # NoTTL => counter[w] > 0 /\ (w = win => sec + ttl[w] >= RATE_WINDOW)
           /\ w > win => counter[w] = 0
           /\ w >= win => admitted[w] + Pending(w) <= counter[w] /\ w \notin late
           /\ w \notin late => admitted[w] + Pending(w) <= RATE_LIMIT
    BY <1>t DEF CounterCovers
  <1> DEFINE Goal == InWindow /\ OneExpire /\ CounterCovers
  <1>1. ASSUME Tick PROVE Goal'
    <2>1. UNCHANGED <<pc, window, admitted, late>>
      BY <1>1 DEF Tick
    <2>2. \A w \in Windows :
             /\ ttl[w] \in Nat /\ counter[w] \in Nat
             /\ counter'[w] = IF ttl[w] = 1 THEN 0 ELSE counter[w]
             /\ ttl'[w] = IF ttl[w] = NoTTL THEN NoTTL ELSE ttl[w] - 1
      BY <1>1, <1>t DEF Tick, TypeOK
    <2>3. /\ win \in Nat /\ sec \in Nat /\ sec < RATE_WINDOW
          /\ \/ win' = win /\ sec' = sec + 1 /\ sec + 1 < RATE_WINDOW
             \/ win' = win + 1 /\ sec' = 0
      BY <1>1, <1>t DEF Tick, TypeOK, Windows
    <2>4. \A w \in Windows : Pending(w)' = Pending(w)
      BY <2>1 DEF Pending
    <2>5. InWindow'
      <3>1. \A t \in Threads : window[t] \in Nat
        BY <1>t DEF TypeOK, Windows
      <3>. QED  BY <2>1, <2>3, <3>1, <1>t DEF InWindow
    <2>6. OneExpire'
      BY <2>1, <2>2, <1>t DEF OneExpire, NoTTL, TypeOK
    <2>7. ASSUME NEW w \in Windows
          PROVE  /\ ttl'[w] # NoTTL => counter'[w] > 0 /\ (w = win' => sec' + ttl'[w] >= RATE_WINDOW)
                 /\ w > win' => counter'[w] = 0
                 /\ w >= win' => admitted[w] + Pending(w) <= counter'[w] /\ w \notin late
                 /\ w \notin late => admitted[w] + Pending(w) <= RATE_LIMIT
      <3>1. /\ w \in Nat /\ admitted[w] \in Nat /\ Pending(w) \in Nat
        BY <1>n, <1>p
      <3>. QED  BY <1>c, <2>2, <2>3, <3>1 DEF NoTTL
    <2>8. CounterCovers'
      BY <2>1, <2>4, <2>7 DEF CounterCovers
    <2>. QED  BY <2>5, <2>6, <2>8
  <1>2. ASSUME NEW t \in Threads, Arrive(t) PROVE Goal'
    <2>1. /\ UNCHANGED <<win, sec, counter, ttl, admitted, late>>
          /\ pc[t] = "idle" /\ pc'[t] = "incr" /\ window'[t] = win
          /\ \A s \in Threads : s # t => pc'[s] = pc[s] /\ window'[s] = window[s]
      BY <1>2, <1>f DEF Arrive, clock
    <2>2. \A s \in Threads : pc'[s] = "expire" => s # t /\ pc[s] = "expire" /\ window'[s] = window[s]
      BY <2>1
    <2>3. \A w \in Windows : Pending(w)' = Pending(w)
      BY <2>1, <2>2 DEF Pending
    <2>4. InWindow'
      BY <2>1, <1>t, <1>n DEF InWindow
    <2>5. OneExpire'
      BY <2>1, <2>2, <1>t DEF OneExpire
    <2>6. CounterCovers'
      BY <2>1, <2>3, <1>t DEF CounterCovers
    <2>. QED  BY <2>4, <2>5, <2>6
  \* The counter of one window changes, in the window's time or late, and no
  \* thread gets to EXPIRE.
  <1>3. ASSUME NEW t \in Threads, pc[t] = "incr", pc' = [pc EXCEPT ![t] = "idle"],
               UNCHANGED <<win, sec, window, ttl>>,
               \/ counter' = counter /\ admitted' = admitted /\ late' = late
               \/ /\ IncrKey(window[t])
                  /\ \/ admitted' = admitted
                     \/ /\ counter[window[t]] + 1 <= RATE_LIMIT
                        /\ admitted' = [admitted EXCEPT ![window[t]] = @ + 1]
        PROVE  Goal'
    <2> DEFINE w0 == window[t]
    <2>1. /\ pc'[t] = "idle" /\ \A s \in Threads : s # t => pc'[s] = pc[s]
          /\ w0 \in Windows /\ w0 <= win
      BY <1>3, <1>f, <1>t DEF InWindow
    <2>2. \A w \in Windows : Pending(w)' = Pending(w)
      BY <1>3, <2>1 DEF Pending
    <2>3. \A w \in Windows :
             /\ counter'[w] \in Nat /\ counter'[w] >= counter[w]
             /\ w # w0 => counter'[w] = counter[w] /\ admitted'[w] = admitted[w]
      BY <1>3, <1>f, <1>n, <2>1 DEF IncrKey
    <2>4. admitted'[w0] = admitted[w0]
          \/ /\ admitted'[w0] = admitted[w0] + 1
             /\ counter'[w0] = counter[w0] + 1
             /\ counter[w0] + 1 <= RATE_LIMIT
      BY <1>3, <1>f, <1>n, <2>1 DEF IncrKey
    <2>9. /\ late' = late \/ (w0 < win /\ late' = late \cup {w0})
          /\ w0 < win => \/ w0 \in late'
                         \/ admitted'[w0] = admitted[w0] /\ counter'[w0] = counter[w0]
      <3>1. CASE counter' = counter /\ admitted' = admitted /\ late' = late
        BY <3>1
      <3>2. CASE IncrKey(w0)
        <4>1. late' = IF w0 < win THEN late \cup {w0} ELSE late
          BY <3>2 DEF IncrKey
        <4>2. CASE w0 < win
          BY <4>1, <4>2
        <4>3. CASE ~(w0 < win)
          BY <4>1, <4>3
        <4>. QED  BY <4>2, <4>3
      <3>. QED  BY <1>3, <3>1, <3>2
    <2>5. InWindow'
      BY <1>3, <2>1, <1>t DEF InWindow
    <2>6. OneExpire'
      <3>1. ASSUME NEW s \in Threads, pc'[s] = "expire"
            PROVE  /\ s # t /\ pc[s] = "expire"
                   /\ counter[window[s]] > 0 => counter'[window[s]] > 0
        <4>1. s # t /\ pc[s] = "expire"
          BY <3>1, <2>1
        <4>2. window[s] \in Windows
          BY <1>n
        <4>3. counter[window[s]] \in Nat /\ counter'[window[s]] \in Nat
              /\ counter'[window[s]] >= counter[window[s]]
          BY <4>2, <1>n, <2>3
        <4>. QED  BY <4>1, <4>3
      <3>. QED  BY <1>3, <3>1, <1>t DEF OneExpire
    <2>7. ASSUME NEW w \in Windows
          PROVE  /\ ttl[w] # NoTTL => counter'[w] > 0 /\ (w = win => sec + ttl[w] >= RATE_WINDOW)
                 /\ w > win => counter'[w] = 0
                 /\ w >= win => admitted'[w] + Pending(w) <= counter'[w] /\ w \notin late'
                 /\ w \notin late' => admitted'[w] + Pending(w) <= RATE_LIMIT
      <3>1. CASE w # w0
        BY <3>1, <1>c, <1>n, <2>3, <2>9
      <3>2. CASE w = w0 /\ w0 = win
        BY <3>2, <1>c, <1>n, <1>p, <2>3, <2>4, <2>9
      <3>3. CASE w = w0 /\ w0 < win
        BY <3>3, <1>c, <1>n, <1>p, <2>3, <2>9
      <3>. QED  BY <3>1, <3>2, <3>3, <2>1, <1>n
    <2>8. CounterCovers'
      BY <1>3, <2>2, <2>7 DEF CounterCovers
    <2>. QED  BY <2>5, <2>6, <2>8
  \* The request that created the counter is through with it.
  <1>4. ASSUME NEW t \in Threads, pc[t] = "expire", pc' = [pc EXCEPT ![t] = "idle"],
               UNCHANGED <<win, sec, window, counter, late>>,
               ttl' = ttl \/ ttl' = [ttl EXCEPT ![window[t]] = RATE_WINDOW],
               admitted' = admitted \/ admitted' = [admitted EXCEPT ![window[t]] = @ + 1]
        PROVE  Goal'
    <2> DEFINE w0 == window[t]
    <2>1. /\ pc'[t] = "idle" /\ \A s \in Threads : s # t => pc'[s] = pc[s]
          /\ w0 \in Windows /\ counter[w0] > 0
          /\ \A s \in Threads : s # t /\ pc[s] = "expire" => window[s] # w0
      BY <1>4, <1>f, <1>t, <1>n DEF OneExpire
    <2>2. /\ Pending(w0) = 1
          /\ \A w \in Windows : Pending(w)' = IF w = w0 THEN 0 ELSE Pending(w)
      BY <1>4, <2>1 DEF Pending
    <2>3. \A w \in Windows : w # w0 => ttl'[w] = ttl[w] /\ admitted'[w] = admitted[w]
      BY <1>4, <1>f, <2>1
    <2>4. /\ ttl'[w0] = ttl[w0] \/ ttl'[w0] = RATE_WINDOW
          /\ admitted'[w0] = admitted[w0] \/ admitted'[w0] = admitted[w0] + 1
      BY <1>4, <1>f, <2>1
    <2>5. InWindow'
      BY <1>4, <2>1, <1>t DEF InWindow
    <2>6. OneExpire'
      <3>1. ASSUME NEW s \in Threads, pc'[s] = "expire"
            PROVE  s # t /\ pc[s] = "expire" /\ window[s] # w0 /\ ttl'[window[s]] = ttl[window[s]]
        BY <3>1, <2>1, <2>3, <1>n
      <3>. QED  BY <1>4, <3>1, <1>t DEF OneExpire
    <2>7. ASSUME NEW w \in Windows
          PROVE  /\ ttl'[w] # NoTTL => counter[w] > 0 /\ (w = win => sec + ttl'[w] >= RATE_WINDOW)
                 /\ w > win => counter[w] = 0
                 /\ w >= win => admitted'[w] + Pending(w)' <= counter[w] /\ w \notin late
                 /\ w \notin late => admitted'[w] + Pending(w)' <= RATE_LIMIT
      <3>1. CASE w # w0
        BY <3>1, <1>c, <2>2, <2>3
      <3>2. CASE w = w0
        BY <3>2, <1>c, <1>n, <2>1, <2>2, <2>4
      <3>. QED  BY <3>1, <3>2
    <2>8. CounterCovers'
      BY <1>4, <2>7 DEF CounterCovers
    <2>. QED  BY <2>5, <2>6, <2>8
  <1>5. ASSUME NEW t \in Threads, Incr(t) PROVE Goal'
    <2>1. /\ pc[t] = "incr" /\ UNCHANGED <<win, sec, window, ttl>>
          /\ IncrKey(window[t])
      BY <1>5 DEF Incr, clock
    <2>2. CASE counter[window[t]] + 1 # 1
      <3>1. window[t] \in Windows /\ counter[window[t]] \in Nat
        BY <1>n
      <3>2. pc' = [pc EXCEPT ![t] = "idle"] /\ Decide(window[t], counter[window[t]] + 1)
        BY <1>5, <2>2 DEF Incr
      <3>3. \/ admitted' = admitted
            \/ /\ counter[window[t]] + 1 <= RATE_LIMIT
               /\ admitted' = [admitted EXCEPT ![window[t]] = @ + 1]
        BY <3>1, <3>2 DEF Decide
      <3>. QED  BY <1>3, <2>1, <3>2, <3>3
    <2>3. CASE counter[window[t]] + 1 = 1
      <3>1. pc' = [pc EXCEPT ![t] = "expire"] /\ admitted' = admitted
        BY <1>5, <2>3 DEF Incr
      <3> DEFINE w0 == window[t]
      <3>2. /\ pc'[t] = "expire" /\ \A s \in Threads : s # t => pc'[s] = pc[s]
            /\ w0 \in Windows /\ w0 <= win /\ counter[w0] = 0 /\ counter'[w0] = 1
            /\ \A w \in Windows : w # w0 => counter'[w] = counter[w]
            /\ late' = late \/ (w0 < win /\ late' = late \cup {w0})
            /\ w0 < win => w0 \in late'
        <4>1. pc'[t] = "expire" /\ \A s \in Threads : s # t => pc'[s] = pc[s]
          BY <3>1, <1>f
        <4>2. w0 \in Windows /\ w0 <= win /\ counter[w0] = 0
          <5>1. w0 \in Windows /\ counter[w0] \in Nat
            BY <1>n
          <5>2. w0 <= win
            BY <1>t DEF InWindow
          <5>. QED  BY <2>3, <5>1, <5>2
        <4>3. /\ counter' = [counter EXCEPT ![w0] = @ + 1]
              /\ late' = IF w0 < win THEN late \cup {w0} ELSE late
          BY <2>1 DEF IncrKey
        <4>4. counter'[w0] = 1 /\ \A w \in Windows : w # w0 => counter'[w] = counter[w]
          BY <4>2, <4>3, <1>f
        <4>5. /\ late' = late \/ (w0 < win /\ late' = late \cup {w0})
              /\ w0 < win => w0 \in late'
          BY <4>3, Zenon
        <4>. QED  BY <4>1, <4>2, <4>4, <4>5
      <3>3. ttl[w0] = NoTTL
        <4>1. ttl[w0] # NoTTL => counter[w0] > 0
          BY <3>2, <1>c
        <4>. QED  BY <3>2, <4>1
      <3>4. \A s \in Threads : ~(pc[s] = "expire" /\ window[s] = w0)
        BY <3>2, <1>t DEF OneExpire
      <3>5. Pending(w0) = 0 /\ \A w \in Windows : Pending(w)' = IF w = w0 THEN 1 ELSE Pending(w)
        BY <2>1, <3>2, <3>4 DEF Pending
      <3>6. InWindow'
        BY <2>1, <3>2, <1>t DEF InWindow
      <3>7. OneExpire'
        <4>1. ASSUME NEW s \in Threads, pc'[s] = "expire", s # t
              PROVE  pc[s] = "expire" /\ window[s] # w0 /\ counter'[window[s]] = counter[window[s]]
          BY <4>1, <3>2, <3>4, <1>n
        <4>. QED  BY <2>1, <3>2, <3>3, <4>1, <1>t, <1>n DEF OneExpire
      <3>8. ASSUME NEW w \in Windows
            PROVE  /\ ttl[w] # NoTTL => counter'[w] > 0 /\ (w = win => sec + ttl[w] >= RATE_WINDOW)
                   /\ w > win => counter'[w] = 0
                   /\ w >= win => admitted[w] + Pending(w)' <= counter'[w] /\ w \notin late'
                   /\ w \notin late' => admitted[w] + Pending(w)' <= RATE_LIMIT
        <4>1. CASE w # w0
          BY <4>1, <1>c, <3>2, <3>5
        <4>2. CASE w = w0 /\ w0 = win
          <5>1. admitted[w] = 0
            BY <4>2, <1>c, <1>n, <3>2, <3>5
          <5>. QED  BY <4>2, <5>1, <1>c, <1>n, <3>2, <3>3, <3>5, RateAssumption
        <4>3. CASE w = w0 /\ w0 < win
          BY <4>3, <1>n, <3>2, <3>3
        <4>. QED  BY <4>1, <4>2, <4>3, <3>2, <1>n
      <3>9. CounterCovers'
        BY <2>1, <3>1, <3>8 DEF CounterCovers
      <3>. QED  BY <3>6, <3>7, <3>9
    <2>. QED  BY <2>2, <2>3
  <1>6. ASSUME NEW t \in Threads, Expire(t) PROVE Goal'
    <2>1. counter[window[t]] # 0 /\ ~(1 > RATE_LIMIT)
      BY <1>6, <1>t, <1>n DEF Expire, OneExpire
    <2>. QED  BY <1>4, <1>6, <2>1 DEF Expire, ExpireKey, Decide, clock
  <1>7. ASSUME NEW t \in Threads, RedisFails(t) PROVE Goal'
    <2>1. CASE pc[t] = "incr"
      BY <1>3, <1>7, <2>1 DEF RedisFails, clock
    <2>2. CASE pc[t] = "expire"
      BY <1>4, <1>7, <2>2 DEF RedisFails, ExpireKey, clock
    <2>. QED  BY <1>7, <2>1, <2>2 DEF RedisFails
  <1>8. ASSUME UNCHANGED vars PROVE Goal'
    BY <1>8, <1>t DEF vars, clock, InWindow, OneExpire, CounterCovers, Pending
  <1>9. Goal'
    BY <1>1, <1>2, <1>5, <1>6, <1>7, <1>8 DEF Next
  <1>. QED  BY <1>0, <1>9 DEF RateInv

-----------------------------------------------------------------------------
\* The invariant of the limiter, for every number of threads and any failing
\* Redis calls.
THEOREM RateInvariant == Spec => []RateInv
  <1>1. RateInv /\ [Next]_vars => RateInv'
    BY RateInvStep
  <1>. QED  BY RateInit, <1>1, PTL DEF Spec

\* No window admits more than RATE_LIMIT requests, unless a request incremented
\* its counter after the window's end.
THEOREM WindowLimit == Spec => []LimitUnlessLate
  <1>1. RateInv => LimitUnlessLate
    <2> SUFFICES ASSUME RateInv, NEW w \in Windows, w \notin late PROVE admitted[w] <= RATE_LIMIT
      BY DEF LimitUnlessLate
    <2>1. admitted[w] \in Nat /\ Pending(w) \in {0, 1}
      BY DEF RateInv, TypeOK, Pending
    <2>2. admitted[w] + Pending(w) <= RATE_LIMIT
      BY DEF RateInv, CounterCovers
    <2>. QED  BY <2>1, <2>2, RateAssumption
  <1>. QED  BY RateInvariant, <1>1, PTL

-----------------------------------------------------------------------------
\* Counting the requests of a window.

\* A request that arrives in window w is one more to be counted ...
LEMMA OneMoreToCount ==
    ASSUME TypeOK, ArrivalsCover, NEW t \in Threads, Arrive(t)
    PROVE  ArrivalsCover'
  <1>. SUFFICES ASSUME NEW w \in Windows
                PROVE  /\ IsFiniteSet(Uncounted(w)')
                       /\ counter'[w] + Cardinality(Uncounted(w)') <= arrived'[w]
    BY DEF ArrivalsCover
  <1>. DEFINE U == Uncounted(w)
  <1>1. IsFiniteSet(U) /\ Cardinality(U) \in Nat /\ counter[w] + Cardinality(U) <= arrived[w]
    BY FS_CardinalityType DEF ArrivalsCover
  <1>2. counter'[w] = counter[w] /\ counter[w] \in Nat /\ arrived[w] \in Nat
    BY DEF TypeOK, Arrive
  <1>3. t \notin U
    BY DEF Uncounted, Arrive
  <1>4. CASE w = win
    <2>1. U' = U \cup {t} /\ arrived'[w] = arrived[w] + 1
      BY <1>4 DEF Uncounted, Arrive, TypeOK
    <2>2. IsFiniteSet(U \cup {t}) /\ Cardinality(U \cup {t}) = Cardinality(U) + 1
      BY <1>1, <1>3, FS_AddElement
    <2>. HIDE DEF U
    <2>. QED  BY <1>1, <1>2, <2>1, <2>2 DEF U
  <1>5. CASE w # win
    <2>1. U' = U /\ arrived'[w] = arrived[w]
      BY <1>3, <1>5 DEF Uncounted, Arrive, TypeOK
    <2>. HIDE DEF U
    <2>. QED  BY <1>1, <1>2, <2>1 DEF U
  <1>. QED  BY <1>4, <1>5

\* ... and when it leaves INCR it is one less, counted or not.
LEMMA OneLessToCount ==
    ASSUME TypeOK, ArrivalsCover, NEW t \in Threads, pc[t] = "incr",
           NEW label \in {"idle", "expire"}, pc' = [pc EXCEPT ![t] = label],
           UNCHANGED <<window, arrived>>,
           counter' = counter \/ IncrKey(window[t])
    PROVE  ArrivalsCover' /\ counter[window[t]] + 1 <= arrived[window[t]]
  <1>. DEFINE U(w) == Uncounted(w)
  <1>1. \A w \in Windows : /\ IsFiniteSet(U(w)) /\ Cardinality(U(w)) \in Nat
                           /\ counter[w] + Cardinality(U(w)) <= arrived[w]
                           /\ counter[w] \in Nat /\ arrived[w] \in Nat
    BY FS_CardinalityType DEF ArrivalsCover, TypeOK
  <1>2. window[t] \in Windows /\ t \in U(window[t])
    BY DEF TypeOK, Uncounted
  <1>3. \A w \in Windows : U(w)' = U(w) \ {t}
    BY DEF TypeOK, Uncounted
  <1>4. \A w \in Windows : /\ IsFiniteSet(U(w) \ {t})
                           /\ Cardinality(U(w) \ {t}) = IF t \in U(w) THEN Cardinality(U(w)) - 1
                                                                      ELSE Cardinality(U(w))
    BY <1>1, FS_RemoveElement
  <1>5. \A w \in Windows : w # window[t] => t \notin U(w) /\ counter'[w] = counter[w]
    BY <1>2 DEF Uncounted, IncrKey, TypeOK
  <1>6. counter'[window[t]] \in {counter[window[t]], counter[window[t]] + 1}
    BY <1>2 DEF IncrKey, TypeOK
  <1>. HIDE DEF U
  <1>7. Cardinality(U(window[t])) >= 1
    <2>1. Cardinality(U(window[t]) \ {t}) \in Nat
      BY <1>2, <1>4, FS_CardinalityType
    <2>. QED  BY <1>1, <1>2, <1>4, <2>1
  <1>8. ASSUME NEW w \in Windows
        PROVE  IsFiniteSet(U(w)') /\ counter'[w] + Cardinality(U(w)') <= arrived'[w]
    <2>1. CASE w = window[t]
      <3>1. t \in U(w) /\ Cardinality(U(w)) >= 1 /\ counter'[w] \in {counter[w], counter[w] + 1}
        BY <1>2, <1>6, <1>7, <2>1
      <3>2. IsFiniteSet(U(w)') /\ Cardinality(U(w)') = Cardinality(U(w)) - 1
        BY <1>3, <1>4, <3>1
      <3>3. Cardinality(U(w)) \in Nat /\ counter[w] \in Nat /\ arrived[w] \in Nat
            /\ counter[w] + Cardinality(U(w)) <= arrived[w]
        BY <1>1
      <3>. QED  BY <3>1, <3>2, <3>3
    <2>2. CASE w # window[t]
      BY <1>1, <1>3, <1>4, <1>5, <2>2
    <2>. QED  BY <2>1, <2>2
  <1>9. counter[window[t]] + 1 <= arrived[window[t]]
    BY <1>1, <1>2, <1>7
  <1>. QED  BY <1>8, <1>9 DEF ArrivalsCover, U

\* Nothing else moves a thread into or out of INCR.
LEMMA SameToCount ==
    ASSUME TypeOK, ArrivalsCover, UNCHANGED <<window, arrived>>,
           \A s \in Threads : pc'[s] = "incr" <=> pc[s] = "incr",
           \A w \in Windows : counter'[w] \in {0, counter[w]}
    PROVE  ArrivalsCover'
  <1>1. \A w \in Windows : Uncounted(w)' = Uncounted(w)
    BY DEF Uncounted
  <1>2. \A w \in Windows : /\ IsFiniteSet(Uncounted(w)) /\ Cardinality(Uncounted(w)) \in Nat
                           /\ counter[w] + Cardinality(Uncounted(w)) <= arrived[w]
                           /\ counter[w] \in Nat /\ arrived[w] \in Nat
    BY FS_CardinalityType DEF ArrivalsCover, TypeOK
  <1>. QED  BY <1>1, <1>2 DEF ArrivalsCover

LEMMA OrphansFinite == IsFiniteSet(Orphans)
  <1>1. IsFiniteSet(0..MaxWindow)
    BY FS_Interval, RateAssumption
  <1>2. Orphans \subseteq 0..MaxWindow
    BY DEF Orphans, Windows
  <1>. QED  BY <1>1, <1>2, FS_Subset

\* A step adds no orphan, or one and a failure.
LEMMA OrphansStay ==
    ASSUME OrphansFromFailures, faults \in Nat, faults' = faults, Orphans' \subseteq Orphans
    PROVE  OrphansFromFailures'
  <1>1. IsFiniteSet(Orphans)
    BY OrphansFinite
  <1>2. IsFiniteSet(Orphans') /\ Cardinality(Orphans') <= Cardinality(Orphans)
    BY <1>1, FS_Subset
  <1>3. Cardinality(Orphans) \in Nat /\ Cardinality(Orphans') \in Nat
    BY <1>1, <1>2, FS_CardinalityType
  <1>. QED  BY <1>2, <1>3 DEF OrphansFromFailures

LEMMA OneMoreOrphan ==
    ASSUME OrphansFromFailures, faults \in Nat, faults' = faults + 1,
           NEW w, Orphans' \subseteq Orphans \cup {w}
    PROVE  OrphansFromFailures'
  <1>1. IsFiniteSet(Orphans)
    BY OrphansFinite
  <1>2. /\ IsFiniteSet(Orphans \cup {w})
        /\ Cardinality(Orphans \cup {w}) \in {Cardinality(Orphans), Cardinality(Orphans) + 1}
    BY <1>1, FS_AddElement
  <1>3. IsFiniteSet(Orphans') /\ Cardinality(Orphans') <= Cardinality(Orphans \cup {w})
    BY <1>2, FS_Subset
  <1>4. Cardinality(Orphans) \in Nat /\ Cardinality(Orphans') \in Nat
    BY <1>1, <1>3, FS_CardinalityType
  <1>. QED  BY <1>2, <1>3, <1>4 DEF OrphansFromFailures

LEMMA LockoutInit == Init => LockoutInv
  <1>. SUFFICES ASSUME Init PROVE LockoutInv
    OBVIOUS
  <1>1. \A w \in Windows : Uncounted(w) = {}
    BY DEF Init, Uncounted
  <1>2. ArrivalsCover
    BY <1>1, FS_EmptySet DEF Init, ArrivalsCover
  <1>3. NoLockout
    BY DEF Init, NoLockout
  <1>4. Orphans = {} /\ faults = 0
    BY DEF Init, Orphans
  <1>5. OrphansFromFailures
    BY <1>4, FS_EmptySet DEF OrphansFromFailures
  <1>. QED  BY <1>2, <1>3, <1>5, RateInit DEF LockoutInv

LEMMA LockoutStep ==
    ASSUME LockoutInv, [Next]_vars
    PROVE  LockoutInv'
  <1>0. RateInv'
    BY RateInvStep DEF LockoutInv
  <1>t. TypeOK /\ OneExpire /\ CounterCovers /\ ArrivalsCover /\ NoLockout /\ OrphansFromFailures
    BY DEF LockoutInv, RateInv
  <1>n. /\ \A w \in Windows : counter[w] \in Nat /\ ttl[w] \in Nat /\ arrived[w] \in Nat
        /\ \A t \in Threads : window[t] \in Windows
        /\ rejected \subseteq Windows /\ faults \in Nat /\ RATE_LIMIT \in Nat \ {0}
    BY <1>t, RateAssumption DEF TypeOK
  <1>f. /\ pc \in [Threads -> {"idle", "incr", "expire"}]
        /\ counter \in [Windows -> Nat]
        /\ ttl \in [Windows -> 0..RATE_WINDOW]
        /\ arrived \in [Windows -> Nat]
    BY <1>t DEF TypeOK
  <1>. DEFINE Goal == ArrivalsCover /\ NoLockout /\ OrphansFromFailures
  <1>1. ASSUME Tick PROVE Goal'
    <2>1. \A w \in Windows : counter'[w] \in {0, counter[w]}
      BY <1>1, <1>f DEF Tick
    <2>2. ArrivalsCover'
      BY <1>1, <1>t, <2>1, SameToCount DEF Tick
    <2>3. NoLockout'
      BY <1>1, <1>t DEF Tick, NoLockout
    <2>4. \A w \in Windows : counter'[w] > 0 /\ ttl'[w] = NoTTL => counter[w] > 0 /\ ttl[w] = NoTTL
      BY <1>1, <1>f, <1>n DEF Tick, NoTTL
    <2>5. OrphansFromFailures'
      <3>1. Orphans' \subseteq Orphans
        BY <1>1, <2>4 DEF Tick, Orphans
      <3>. QED  BY <1>1, <1>t, <1>n, <3>1, OrphansStay DEF Tick
    <2>. QED  BY <2>2, <2>3, <2>5
  <1>2. ASSUME NEW t \in Threads, Arrive(t) PROVE Goal'
    <2>1. ArrivalsCover'
      BY <1>2, <1>t, OneMoreToCount
    <2>2. \A w \in Windows : arrived'[w] >= arrived[w] /\ arrived'[w] \in Nat
      BY <1>2, <1>f, <1>n DEF Arrive
    <2>3. NoLockout'
      BY <1>2, <1>t, <1>n, <2>2 DEF Arrive, NoLockout
    <2>4. \A s \in Threads : pc[s] = "expire" => pc'[s] = "expire" /\ window'[s] = window[s]
      BY <1>2, <1>t DEF Arrive, TypeOK
    <2>5. OrphansFromFailures'
      <3>1. Orphans' \subseteq Orphans
        BY <1>2, <2>4 DEF Arrive, Orphans
      <3>. QED  BY <1>2, <1>t, <1>n, <3>1, OrphansStay DEF Arrive
    <2>. QED  BY <2>1, <2>3, <2>5
  <1>3. ASSUME NEW t \in Threads, Incr(t) PROVE Goal'
    <2>. DEFINE w0 == window[t]
    <2>1. /\ pc[t] = "incr" /\ IncrKey(w0) /\ UNCHANGED <<window, ttl, arrived, faults>>
          /\ \/ pc' = [pc EXCEPT ![t] = "expire"] /\ UNCHANGED rejected /\ counter[w0] + 1 = 1
             \/ pc' = [pc EXCEPT ![t] = "idle"] /\ Decide(w0, counter[w0] + 1) /\ counter[w0] + 1 # 1
      BY <1>3 DEF Incr
    <2>2. ArrivalsCover' /\ counter[w0] + 1 <= arrived[w0]
      BY <1>t, <2>1, OneLessToCount
    <2>3. rejected' = rejected \/ (rejected' = rejected \cup {w0} /\ counter[w0] + 1 > RATE_LIMIT)
      BY <2>1 DEF Decide
    <2>4. NoLockout'
      BY <1>t, <1>n, <2>1, <2>2, <2>3 DEF NoLockout
    <2>5. OrphansFromFailures'
      <3>. SUFFICES ASSUME NEW w \in Orphans' PROVE w \in Orphans
        BY <1>t, <1>n, <2>1, OrphansStay
      <3>1. /\ w \in Windows /\ counter'[w] > 0 /\ ttl[w] = NoTTL
            /\ \A s \in Threads : ~(pc'[s] = "expire" /\ window[s] = w)
        BY <2>1 DEF Orphans
      <3>2. \A s \in Threads : pc[s] = "expire" => pc'[s] = "expire"
        BY <1>f, <2>1
      <3>3. CASE w # w0
        BY <1>f, <1>n, <2>1, <3>1, <3>2, <3>3 DEF IncrKey, Orphans
      <3>4. CASE w = w0
        <4>1. pc'[t] # "expire"
          BY <3>1, <3>4
        <4>2. counter[w0] + 1 # 1
          BY <1>f, <2>1, <4>1
        <4>3. counter[w0] > 0
          BY <1>n, <4>2
        <4>. QED  BY <3>1, <3>2, <3>4, <4>3 DEF Orphans
      <3>. QED  BY <3>3, <3>4
    <2>. QED  BY <2>2, <2>4, <2>5
  <1>4. ASSUME NEW t \in Threads, Expire(t) PROVE Goal'
    <2>. DEFINE w0 == window[t]
    <2>1. /\ pc[t] = "expire" /\ counter[w0] > 0 /\ w0 \in Windows
          /\ pc' = [pc EXCEPT ![t] = "idle"] /\ UNCHANGED <<window, counter, arrived, faults>>
      BY <1>4, <1>t, <1>n DEF Expire, OneExpire
    <2>2. rejected' = rejected
      BY <1>4, <1>n DEF Expire, Decide
    <2>3. ArrivalsCover'
      BY <1>t, <1>f, <2>1, SameToCount
    <2>4. NoLockout'
      BY <1>t, <2>1, <2>2 DEF NoLockout
    <2>5. ttl' = [ttl EXCEPT ![w0] = RATE_WINDOW]
      BY <1>4, <1>n, <2>1 DEF Expire, ExpireKey
    <2>6. ttl'[w0] # NoTTL /\ \A w \in Windows : w # w0 => ttl'[w] = ttl[w]
      BY <1>f, <2>1, <2>5, RateAssumption DEF NoTTL
    <2>7. OrphansFromFailures'
      <3>. SUFFICES ASSUME NEW w \in Orphans' PROVE w \in Orphans
        BY <1>t, <1>n, <2>1, OrphansStay
      <3>1. w \in Windows /\ counter[w] > 0 /\ w # w0 /\ ttl[w] = NoTTL
        BY <2>1, <2>6 DEF Orphans
      <3>2. \A s \in Threads : ~(pc[s] = "expire" /\ window[s] = w)
        BY <1>f, <2>1, <3>1 DEF Orphans
      <3>. QED  BY <3>1, <3>2 DEF Orphans
    <2>. QED  BY <2>3, <2>4, <2>7
  <1>5. ASSUME NEW t \in Threads, RedisFails(t) PROVE Goal'
    <2>1. /\ pc' = [pc EXCEPT ![t] = "idle"] /\ UNCHANGED <<window, arrived, rejected>>
          /\ faults' = faults + 1
      BY <1>5 DEF RedisFails
    <2>2. NoLockout'
      BY <1>t, <2>1 DEF NoLockout
    <2>3. OrphansFromFailures'
      <3>1. ASSUME NEW w \in Windows, w # window[t]
            PROVE  counter'[w] = counter[w] /\ ttl'[w] = ttl[w]
        BY <1>5, <1>f, <1>n, <3>1 DEF RedisFails, IncrKey, ExpireKey
      <3>2. \A s \in Threads : s # t => pc'[s] = pc[s]
        BY <1>f, <2>1
      <3>3. Orphans' \subseteq Orphans \cup {window[t]}
        BY <2>1, <3>1, <3>2 DEF Orphans
      <3>. QED  BY <1>t, <1>n, <2>1, <3>3, OneMoreOrphan
    <2>4. CASE pc[t] = "incr"
      <3>1. counter' = counter \/ IncrKey(window[t])
        BY <1>5, <2>4 DEF RedisFails
      <3>2. ArrivalsCover'
        BY <1>t, <2>1, <2>4, <3>1, OneLessToCount
      <3>. QED  BY <2>2, <2>3, <3>2
    <2>5. CASE pc[t] = "expire"
      <3>1. counter' = counter
        BY <1>5, <2>5 DEF RedisFails
      <3>2. ArrivalsCover'
        BY <1>t, <1>f, <2>1, <2>5, <3>1, SameToCount
      <3>. QED  BY <2>2, <2>3, <3>2
    <2>. QED  BY <1>5, <2>4, <2>5 DEF RedisFails
  <1>6. ASSUME UNCHANGED vars PROVE Goal'
    BY <1>6, <1>t DEF vars, clock, ArrivalsCover, Uncounted, NoLockout, OrphansFromFailures, Orphans
  <1>7. Goal'
    BY <1>1, <1>2, <1>3, <1>4, <1>5, <1>6 DEF Next
  <1>. QED  BY <1>0, <1>7 DEF LockoutInv

\* The invariant that also counts the requests on their way to INCR.
THEOREM LockoutInvariant == Spec => []LockoutInv
  <1>1. LockoutInv /\ [Next]_vars => LockoutInv'
    BY LockoutStep
  <1>. QED  BY LockoutInit, <1>1, PTL DEF Spec

\* Nobody is answered 429 in a window in which at most RATE_LIMIT requests
\* arrived, however Redis fails and however slow the threads are.
THEOREM NoWindowLockedOut == Spec => []NoLockout
  <1>1. LockoutInv => NoLockout
    BY DEF LockoutInv
  <1>. QED  BY LockoutInvariant, <1>1, PTL

\* However the threads run, at most as many counters stay without a time to live
\* as calls to Redis have failed.
THEOREM FailuresLeaveOrphans == Spec => []OrphansFromFailures
  <1>1. LockoutInv => OrphansFromFailures
    BY DEF LockoutInv
  <1>. QED  BY LockoutInvariant, <1>1, PTL
=============================================================================
