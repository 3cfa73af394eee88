------------------------ MODULE EngineSemaphoreProofs ------------------------
(***************************************************************************)
(* Proof that the sleeps and wakeups of userver's semaphore lose no unit,  *)
(* no wakeup and no cancellation, for any finite set of tasks, any         *)
(* capacities and any number of lock calls.                                *)
(***************************************************************************)
EXTENDS EngineSemaphore, FiniteSetTheorems, SequenceTheorems, TLAPS

-----------------------------------------------------------------------------
\* The wait list

\* push_back of a task that is not linked yet.
LEMMA AppendTask ==
    ASSUME TypeOK, SleepersExact, NEW t \in Tasks, t \notin Waiting, waiting' = Append(waiting, t)
    PROVE  /\ waiting' \in Seq(Tasks)
           /\ Waiting' = Waiting \cup {t}
           /\ \A i, j \in DOMAIN waiting' : waiting'[i] = waiting'[j] => i = j
<1>1. waiting \in Seq(Tasks) /\ DOMAIN waiting = 1..Len(waiting) /\ Len(waiting) \in Nat
  BY DEF TypeOK
<1>2. /\ waiting' \in Seq(Tasks) /\ DOMAIN waiting' = 1..(Len(waiting) + 1)
      /\ \A i \in 1..Len(waiting) : waiting'[i] = waiting[i]
      /\ waiting'[Len(waiting) + 1] = t
  BY <1>1, AppendProperties
<1>3. \A i \in 1..Len(waiting) : waiting[i] # t
  BY <1>1 DEF Waiting
<1>4. \A i \in 1..(Len(waiting) + 1) : i \in 1..Len(waiting) \/ i = Len(waiting) + 1
  BY <1>1
<1>5. Waiting' = Waiting \cup {t}
  <2>1. Waiting' \subseteq Waiting \cup {t}
    BY <1>1, <1>2, <1>4 DEF Waiting
  <2>2. t \in Waiting'
    BY <1>1, <1>2 DEF Waiting
  <2>3. Waiting \subseteq Waiting'
    <3>. SUFFICES ASSUME NEW i \in DOMAIN waiting PROVE waiting[i] \in Waiting'
      BY DEF Waiting
    <3>1. i \in DOMAIN waiting' /\ waiting'[i] = waiting[i]
      BY <1>1, <1>2
    <3>. QED
      BY <3>1 DEF Waiting
  <2>. QED
    BY <2>1, <2>2, <2>3
<1>6. \A i, j \in DOMAIN waiting' : waiting'[i] = waiting'[j] => i = j
  BY <1>1, <1>2, <1>3, <1>4 DEF SleepersExact
<1>. QED
  BY <1>2, <1>5, <1>6

\* pop_front.
LEMMA TailTask ==
    ASSUME TypeOK, SleepersExact, waiting # <<>>, waiting' = Tail(waiting)
    PROVE  /\ waiting' \in Seq(Tasks)
           /\ Head(waiting) \in Waiting
           /\ Waiting' = Waiting \ {Head(waiting)}
           /\ \A i, j \in DOMAIN waiting' : waiting'[i] = waiting'[j] => i = j
<1>1. waiting \in Seq(Tasks) /\ DOMAIN waiting = 1..Len(waiting) /\ Len(waiting) \in Nat \ {0}
  BY DEF TypeOK
<1>2. /\ waiting' \in Seq(Tasks) /\ DOMAIN waiting' = 1..(Len(waiting) - 1)
      /\ \A i \in 1..(Len(waiting) - 1) : waiting'[i] = waiting[i + 1]
      /\ Head(waiting) = waiting[1]
  BY <1>1, HeadTailProperties
<1>3. Head(waiting) \in Waiting
  BY <1>1, <1>2 DEF Waiting
<1>4. ASSUME NEW i \in DOMAIN waiting' PROVE waiting'[i] \in Waiting /\ waiting'[i] # Head(waiting)
  <2>1. i + 1 \in DOMAIN waiting /\ i + 1 # 1 /\ 1 \in DOMAIN waiting /\ waiting'[i] = waiting[i + 1]
    BY <1>1, <1>2
  <2>. QED
    BY <1>2, <2>1 DEF Waiting, SleepersExact
<1>5. ASSUME NEW i \in DOMAIN waiting, waiting[i] # Head(waiting) PROVE waiting[i] \in Waiting'
  <2>1. i - 1 \in DOMAIN waiting' /\ waiting'[i - 1] = waiting[i]
    BY <1>1, <1>2, <1>5
  <2>. QED
    BY <2>1 DEF Waiting
<1>6. Waiting' = Waiting \ {Head(waiting)}
  BY <1>4, <1>5 DEF Waiting
<1>7. \A i, j \in DOMAIN waiting' : waiting'[i] = waiting'[j] => i = j
  <2>. SUFFICES ASSUME NEW i \in DOMAIN waiting', NEW j \in DOMAIN waiting', waiting'[i] = waiting'[j]
                PROVE  i = j
    OBVIOUS
  <2>1. i + 1 \in DOMAIN waiting /\ j + 1 \in DOMAIN waiting /\ waiting[i + 1] = waiting[j + 1]
    BY <1>1, <1>2
  <2>2. i + 1 = j + 1
    BY <2>1 DEF SleepersExact
  <2>. QED
    BY <1>1, <1>2, <2>2
<1>. QED
  BY <1>2, <1>3, <1>6, <1>7

\* unlink.
LEMMA UnlinkTask ==
    ASSUME TypeOK, SleepersExact, NEW t \in Tasks, waiting' = Unlink(waiting, t)
    PROVE  /\ waiting' \in Seq(Tasks)
           /\ Waiting' = Waiting \ {t}
           /\ \A i, j \in DOMAIN waiting' : waiting'[i] = waiting'[j] => i = j
<1>0. waiting \in Seq(Tasks) /\ DOMAIN waiting = 1..Len(waiting) /\ Len(waiting) \in Nat
  BY DEF TypeOK
<1>1. CASE t \notin Waiting
  <2>1. waiting' = waiting
    BY <1>1 DEF Unlink, Waiting
  <2>2. Waiting' = Waiting /\ Waiting \ {t} = Waiting
    BY <1>1, <2>1 DEF Waiting
  <2>. QED
    BY <1>0, <2>1, <2>2 DEF SleepersExact
<1>2. CASE t \in Waiting
  <2>. DEFINE n  == Len(waiting) - 1
              at == CHOOSE i \in DOMAIN waiting : waiting[i] = t
              f  == [i \in 1..n |-> IF i < at THEN waiting[i] ELSE waiting[i + 1]]
  <2>1. \E i \in DOMAIN waiting : waiting[i] = t
    BY <1>2 DEF Waiting
  <2>2. at \in DOMAIN waiting /\ waiting[at] = t
    BY <2>1
  <2>3. waiting' = f
    BY <2>1 DEF Unlink
  <2>. HIDE DEF at
  <2>4. n \in Nat /\ at \in 1..(n + 1) /\ DOMAIN waiting = 1..(n + 1)
    BY <1>0, <2>2
  <2>. HIDE DEF n
  <2>5. \A i \in 1..(n + 1) : waiting[i] \in Tasks
    BY <1>0, <2>4
  <2>6. /\ DOMAIN waiting' = 1..n
        /\ \A i \in 1..n : waiting'[i] = IF i < at THEN waiting[i] ELSE waiting[i + 1]
    BY <2>3
  <2>7. \A i \in 1..n : waiting'[i] \in Tasks
    BY <2>4, <2>5, <2>6
  <2>8. waiting' \in Seq(Tasks)
    <3>1. waiting' \in [1..n -> Tasks]
      BY <2>3, <2>6, <2>7
    <3>. QED
      BY <2>4, <3>1, SeqDef
  <2>9. \A i, j \in 1..(n + 1) : waiting[i] = waiting[j] => i = j
    BY <2>4 DEF SleepersExact
  <2>10. ASSUME NEW i \in 1..n PROVE waiting'[i] \in Waiting /\ waiting'[i] # t
    <3>1. CASE i < at
      <4>1. i \in 1..(n + 1) /\ i # at /\ waiting'[i] = waiting[i]
        BY <2>4, <2>6, <3>1
      <4>. QED
        BY <2>2, <2>4, <2>9, <4>1 DEF Waiting
    <3>2. CASE ~(i < at)
      <4>1. i + 1 \in 1..(n + 1) /\ i + 1 # at /\ waiting'[i] = waiting[i + 1]
        BY <2>4, <2>6, <3>2
      <4>. QED
        BY <2>2, <2>4, <2>9, <4>1 DEF Waiting
    <3>. QED
      BY <3>1, <3>2
  <2>11. ASSUME NEW i \in 1..(n + 1), waiting[i] # t PROVE waiting[i] \in Waiting'
    <3>0. i # at
      BY <2>2, <2>11
    <3>1. CASE i < at
      <4>1. i \in 1..n /\ waiting'[i] = waiting[i]
        BY <2>4, <2>6, <3>1
      <4>. QED
        BY <2>6, <4>1 DEF Waiting
    <3>2. CASE ~(i < at)
      <4>1. i - 1 \in 1..n /\ waiting'[i - 1] = waiting[i]
        BY <2>4, <2>6, <3>0, <3>2
      <4>. QED
        BY <2>6, <4>1 DEF Waiting
    <3>. QED
      BY <3>1, <3>2
  <2>12. Waiting' = Waiting \ {t}
    BY <2>4, <2>6, <2>10, <2>11 DEF Waiting
  <2>13. \A i, j \in 1..n : waiting'[i] = waiting'[j] => i = j
    BY <2>4, <2>6, <2>9
  <2>. QED
    BY <2>6, <2>8, <2>12, <2>13
<1>. QED
  BY <1>1, <1>2

-----------------------------------------------------------------------------
\* Counting tasks

LEMMA TaskSetsFinite ==
    ASSUME NEW S \in SUBSET Tasks
    PROVE  IsFiniteSet(S) /\ Cardinality(S) \in Nat
  BY SemaphoreAssumption, FS_Subset, FS_CardinalityType

LEMMA OneMore ==
    ASSUME NEW S \in SUBSET Tasks, NEW t \in Tasks, t \notin S
    PROVE  Cardinality(S \cup {t}) = Cardinality(S) + 1
  BY TaskSetsFinite, FS_AddElement

LEMMA OneLess ==
    ASSUME NEW S \in SUBSET Tasks, NEW t \in S
    PROVE  Cardinality(S \ {t}) = Cardinality(S) - 1 /\ Cardinality(S) >= 1
<1>1. IsFiniteSet(S) /\ Cardinality(S) \in Nat /\ Cardinality(S \ {t}) \in Nat
  BY TaskSetsFinite
<1>2. Cardinality(S \ {t}) = Cardinality(S) - 1
  BY <1>1, FS_RemoveElement
<1>. QED
  BY <1>1, <1>2

At(L) == {s \in Tasks : pc[s] \in L}

\* How many tasks are at some of the labels, when one task moves.
LEMMA LabelCount ==
    ASSUME TypeOK, NEW t \in Tasks, NEW l \in Labels, pc' = [pc EXCEPT ![t] = l], NEW L
    PROVE  /\ Cardinality(At(L)) \in Nat
           /\ (pc[t] \in L <=> l \in L) => Cardinality(At(L))' = Cardinality(At(L))
           /\ pc[t] \in L /\ l \notin L => Cardinality(At(L))' = Cardinality(At(L)) - 1 /\ Cardinality(At(L)) >= 1
           /\ pc[t] \notin L /\ l \in L => Cardinality(At(L))' = Cardinality(At(L)) + 1
<1>0. At(L) \in SUBSET Tasks
  BY DEF At
<1>1. pc'[t] = l /\ \A s \in Tasks : s # t => pc'[s] = pc[s]
  BY DEF TypeOK
<1>2. (pc[t] \in L <=> l \in L) => At(L)' = At(L)
  BY <1>1 DEF At
<1>3. pc[t] \in L /\ l \notin L => t \in At(L) /\ At(L)' = At(L) \ {t}
  BY <1>1 DEF At
<1>4. pc[t] \notin L /\ l \in L => t \notin At(L) /\ At(L)' = At(L) \cup {t}
  BY <1>1 DEF At
<1>5. Cardinality(At(L)) \in Nat
  BY <1>0, TaskSetsFinite
<1>. QED
  BY <1>0, <1>2, <1>3, <1>4, <1>5, OneMore, OneLess

-----------------------------------------------------------------------------
\* sleep_state_

LEMMA EffectiveIff ==
    ASSUME NEW t \in Tasks
    PROVE  /\ Effective(t) # {} <=> \/ "kWaitList" \in flags[t]
                                    \/ "kDeadlineTimer" \in flags[t]
                                    \/ "kCancelRequest" \in flags[t] /\ IsCancellable(t)
           /\ Effective(t)' # {} <=> \/ "kWaitList" \in flags'[t]
                                     \/ "kDeadlineTimer" \in flags'[t]
                                     \/ "kCancelRequest" \in flags'[t] /\ IsCancellable(t)
<1>1. CASE IsCancellable(t)
  BY <1>1 DEF Effective, Sources, IsCancellable
<1>2. CASE ~IsCancellable(t)
  BY <1>2 DEF Effective, Sources, IsCancellable
<1>. QED
  BY <1>1, <1>2

\* A task nothing happens to.
LEMMA OthersFit ==
    ASSUME NEW s \in Tasks, Fits(s), pc'[s] = pc[s], flags'[s] = flags[s], epoch'[s] = epoch[s],
           runs'[s] = runs[s], timer'[s] = timer[s], cancellation'[s] = cancellation[s],
           cancelEpoch'[s] = cancelEpoch[s], status'[s] = status[s],
           s \in Waiting' <=> s \in Waiting
    PROVE  Fits(s)'
<1>1. FlagsFit(s)'
  BY EffectiveIff DEF Fits, FlagsFit, IsCancellable
<1>2. ListFits(s)' /\ TimerFits(s)' /\ CancelFits(s)'
  BY DEF Fits, ListFits, TimerFits, CancelFits, IsCancellable
<1>. QED
  BY <1>1, <1>2 DEF Fits

\* Exactly the first effective wakeup of a suspended task schedules it.
LEMMA ScheduleIff ==
    ASSUME TypeOK, NEW t \in Tasks, FlagsFit(t), NEW source \in Sources,
           source = "kCancelRequest" => "kNonCancellable" \notin flags[t]
    PROVE  ShouldSchedule(flags[t], source) <=> pc[t] = "asleep" /\ Effective(t) = {}
<1>0. flags[t] \subseteq Flags
  BY DEF TypeOK, ContextTypeOK
<1>1. CASE pc[t] # "asleep"
  BY <1>1 DEF ShouldSchedule, FlagsFit
<1>2. CASE pc[t] = "asleep" /\ IsCancellable(t)
  <2>1. "kNonCancellable" \notin flags[t] /\ "kSleeping" \in flags[t]
    BY <1>2 DEF FlagsFit
  <2>2. ShouldSchedule(flags[t], source) <=> flags[t] = {"kSleeping"}
    BY <2>1 DEF ShouldSchedule
  <2>3. Effective(t) = {} <=> flags[t] = {"kSleeping"}
    BY <1>0, <1>2, <2>1, EffectiveIff DEF Flags, Sources
  <2>. QED
    BY <1>2, <2>2, <2>3
<1>3. CASE pc[t] = "asleep" /\ ~IsCancellable(t)
  <2>1. "kNonCancellable" \in flags[t] /\ "kSleeping" \in flags[t] /\ source # "kCancelRequest"
    BY <1>3 DEF FlagsFit, Sleeps
  <2>2. ShouldSchedule(flags[t], source) <=> flags[t] \ {"kNonCancellable", "kCancelRequest"} = {"kSleeping"}
    BY <2>1 DEF ShouldSchedule
  <2>3. Effective(t) = {} <=> flags[t] \ {"kNonCancellable", "kCancelRequest"} = {"kSleeping"}
    BY <1>0, <1>3, <2>1, EffectiveIff DEF Flags, Sources
  <2>. QED
    BY <1>3, <2>2, <2>3
<1>. QED
  BY <1>1, <1>2, <1>3

\* A wakeup that is for the present sleep keeps sleep_state_ in order.
LEMMA WakeupFits ==
    ASSUME TypeOK, NEW t \in Tasks, FlagsFit(t), NEW S, t \in S, NEW source \in Sources, Wakeup(S, source),
           source = "kCancelRequest" => "kNonCancellable" \notin flags[t],
           source # "kCancelRequest" => pc[t] \in Sleeps,
           pc'[t] = pc[t]
    PROVE  FlagsFit(t)' /\ flags'[t] = flags[t] \cup {source}
<1>1. /\ flags'[t] = flags[t] \cup {source}
      /\ runs'[t] = IF ShouldSchedule(flags[t], source) THEN runs[t] + 1 ELSE runs[t]
  BY DEF Wakeup
<1>2. ShouldSchedule(flags[t], source) <=> pc[t] = "asleep" /\ Effective(t) = {}
  BY ScheduleIff
<1>3. source = "kCancelRequest" /\ pc[t] = "asleep" => IsCancellable(t)
  BY DEF FlagsFit, Sleeps
<1>4. pc[t] = "asleep" => Effective(t)' # {}
  BY <1>1, <1>3, EffectiveIff DEF Sources
<1>5. Effective(t) # {} => Effective(t)' # {}
  BY <1>1, EffectiveIff
<1>6. runs'[t] = IF pc[t] = "asleep" THEN 1 ELSE 0
  BY <1>1, <1>2 DEF FlagsFit
<1>. QED
  BY <1>1, <1>4, <1>5, <1>6 DEF FlagsFit, IsCancellable, Sources

LEMMA WakeupTypes ==
    ASSUME TypeOK, NEW S, NEW source \in Sources, Wakeup(S, source)
    PROVE  flags' \in [Tasks -> SUBSET Flags] /\ runs' \in [Tasks -> Nat]
<1>1. \A t \in Tasks : flags[t] \cup {source} \in SUBSET Flags /\ flags[t] \in SUBSET Flags
                       /\ runs[t] \in Nat /\ runs[t] + 1 \in Nat
  BY DEF TypeOK, ContextTypeOK, Flags
<1>2. flags' \in [Tasks -> SUBSET Flags]
  BY <1>1 DEF Wakeup
<1>3. runs' \in [Tasks -> Nat]
  BY <1>1 DEF Wakeup
<1>. QED
  BY <1>2, <1>3

\* The steps of RequestCancel and the timer.
LEMMA EpochTypes ==
    ASSUME TypeOK, NEW t \in Tasks, NEW source \in Sources, NEW e, WakeupEpoch(t, source, e)
    PROVE  flags' \in [Tasks -> SUBSET Flags] /\ runs' \in [Tasks -> Nat]
  BY WakeupTypes DEF WakeupEpoch, TypeOK, ContextTypeOK

-----------------------------------------------------------------------------
\* Steps that leave the semaphore alone: what they keep of it.
LEMMA SemaphoreAlone ==
    ASSUME SemaphoreInv, UNCHANGED semaphoreVars,
           \A s \in Tasks : pc'[s] = pc[s] \/ (pc[s] \in Sleeps /\ pc'[s] \in Sleeps),
           \A s \in Tasks : "kWaitList" \in flags'[s] <=> "kWaitList" \in flags[s]
    PROVE  AcquiredExact' /\ SleepersExact' /\ UnitsCovered'
<1>. USE DEF semaphoreVars
<1>1. \A s \in Tasks : (pc'[s] = "in" <=> pc[s] = "in") /\ (InSlowPath(s)' <=> InSlowPath(s))
  BY DEF Sleeps, InSlowPath, Labels, SemaphoreInv, TypeOK
<1>2. AcquiredExact'
  BY <1>1 DEF SemaphoreInv, AcquiredExact
<1>3. SleepersExact'
  <2>1. {s \in Tasks : InSlowPath(s)'} = {s \in Tasks : InSlowPath(s)}
    BY <1>1
  <2>. QED
    BY <2>1 DEF SemaphoreInv, SleepersExact
<1>4. Coming' = Coming
  BY DEF Coming, WillTry, Sleeps
<1>5. UnitsCovered'
  BY <1>4 DEF SemaphoreInv, UnitsCovered
<1>. QED
  BY <1>2, <1>3, <1>5

LEMMA CancelStep ==
    ASSUME SemaphoreInv, NEW t \in Tasks, Cancel(t)
    PROVE  SemaphoreInv'
<1>. USE DEF Cancel, RequestCancel, semaphoreVars
<1>1. TypeOK'
  BY DEF SemaphoreInv, TypeOK, ContextTypeOK
<1>2. ASSUME NEW s \in Tasks, s # t PROVE Fits(s)'
  <2>1. cancellation'[s] = cancellation[s]
    BY <1>2 DEF SemaphoreInv, TypeOK, ContextTypeOK
  <2>. QED
    BY <2>1, OthersFit DEF SemaphoreInv, TasksFit, Waiting
<1>3. Fits(t)'
  <2>1. cancellation'[t] = "requested"
    BY DEF SemaphoreInv, TypeOK, ContextTypeOK
  <2>2. Fits(t)
    BY DEF SemaphoreInv, TasksFit
  <2>3. CancelFits(t)'
    BY <2>1 DEF CancelFits
  <2>4. FlagsFit(t)'
    BY <2>2, EffectiveIff DEF Fits, FlagsFit, IsCancellable
  <2>5. ListFits(t)' /\ TimerFits(t)'
    BY <2>2 DEF Fits, ListFits, TimerFits, Waiting
  <2>. QED
    BY <2>3, <2>4, <2>5 DEF Fits
<1>4. AcquiredExact' /\ SleepersExact' /\ UnitsCovered'
  BY SemaphoreAlone
<1>. QED
  BY <1>1, <1>2, <1>3, <1>4 DEF SemaphoreInv, TasksFit

LEMMA FinishCancelStep ==
    ASSUME SemaphoreInv, NEW t \in Tasks, FinishCancel(t)
    PROVE  SemaphoreInv'
<1>. USE DEF FinishCancel, semaphoreVars
<1>0. Fits(t)
  BY DEF SemaphoreInv, TasksFit
<1>1. CASE GetEpoch(t)
  <2>. USE <1>1 DEF GetEpoch
  <2>1. TypeOK'
    BY DEF SemaphoreInv, TypeOK, ContextTypeOK
  <2>2. ASSUME NEW s \in Tasks, s # t PROVE Fits(s)'
    <3>1. cancellation'[s] = cancellation[s] /\ cancelEpoch'[s] = cancelEpoch[s]
      BY <2>2 DEF SemaphoreInv, TypeOK, ContextTypeOK
    <3>. QED
      BY <3>1, OthersFit DEF SemaphoreInv, TasksFit, Waiting
  <2>3. Fits(t)'
    <3>1. cancellation'[t] = "loaded" /\ cancelEpoch'[t] = epoch[t]
      BY DEF SemaphoreInv, TypeOK, ContextTypeOK
    <3>2. CancelFits(t)'
      BY <3>1 DEF CancelFits
    <3>3. FlagsFit(t)'
      BY <1>0, EffectiveIff DEF Fits, FlagsFit, IsCancellable
    <3>4. ListFits(t)' /\ TimerFits(t)'
      BY <1>0 DEF Fits, ListFits, TimerFits, Waiting
    <3>. QED
      BY <3>2, <3>3, <3>4 DEF Fits
  <2>4. AcquiredExact' /\ SleepersExact' /\ UnitsCovered'
    BY SemaphoreAlone
  <2>. QED
    BY <2>1, <2>2, <2>3, <2>4 DEF SemaphoreInv, TasksFit
<1>2. CASE CancelWakeup(t)
  <2>. USE <1>2 DEF CancelWakeup
  <2>1. TypeOK'
    BY EpochTypes DEF SemaphoreInv, TypeOK, ContextTypeOK, Sources
  <2>2. /\ cancellation'[t] = "sent"
        /\ \A s \in Tasks : s # t => /\ cancellation'[s] = cancellation[s] /\ cancelEpoch'[s] = cancelEpoch[s]
                                     /\ flags'[s] = flags[s] /\ runs'[s] = runs[s]
    BY DEF SemaphoreInv, TypeOK, ContextTypeOK, WakeupEpoch, Wakeup
  <2>3. ASSUME NEW s \in Tasks, s # t PROVE Fits(s)'
    BY <2>2, <2>3, OthersFit DEF SemaphoreInv, TasksFit, Waiting
  <2>4. FlagsFit(t)' /\ (flags'[t] = flags[t] \/ flags'[t] = flags[t] \cup {"kCancelRequest"})
    <3>1. CASE epoch[t] = cancelEpoch[t] /\ "kNonCancellable" \notin flags[t]
      <4>1. Wakeup({t}, "kCancelRequest")
        BY <3>1 DEF WakeupEpoch
      <4>. QED
        BY <1>0, <3>1, <4>1, WakeupFits DEF Fits, Sources, SemaphoreInv
    <3>2. CASE ~(epoch[t] = cancelEpoch[t] /\ "kNonCancellable" \notin flags[t])
      <4>1. UNCHANGED <<flags, runs>>
        BY <3>2 DEF WakeupEpoch
      <4>. QED
        BY <1>0, <4>1, EffectiveIff DEF Fits, FlagsFit, IsCancellable
    <3>. QED
      BY <3>1, <3>2
  <2>5. CancelFits(t)'
    <3>. SUFFICES ASSUME IsCancellable(t), pc[t] \in Sleeps \cup {"setup", "recheck"}
                  PROVE  "kCancelRequest" \in flags'[t]
      BY <2>2 DEF CancelFits, IsCancellable
    <3>1. epoch[t] = cancelEpoch[t] /\ "kNonCancellable" \notin flags[t]
      BY <1>0 DEF Fits, CancelFits, FlagsFit
    <3>2. flags'[t] = flags[t] \cup {"kCancelRequest"}
      BY <3>1 DEF WakeupEpoch, Wakeup
    <3>. QED
      BY <3>2
  <2>6. ListFits(t)' /\ TimerFits(t)'
    BY <1>0, <2>4 DEF Fits, ListFits, TimerFits, Waiting
  <2>7. AcquiredExact' /\ SleepersExact' /\ UnitsCovered'
    <3>1. \A s \in Tasks : "kWaitList" \in flags'[s] <=> "kWaitList" \in flags[s]
      BY <2>2, <2>4
    <3>. QED
      BY <3>1, SemaphoreAlone
  <2>. QED
    BY <2>1, <2>3, <2>4, <2>5, <2>6, <2>7 DEF SemaphoreInv, TasksFit, Fits
<1>. QED
  BY <1>1, <1>2

\* The coroutine yields, and the task is asleep, or scheduled at once.
LEMMA SuspendStep ==
    ASSUME SemaphoreInv, NEW t \in Tasks, Suspend(t), UNCHANGED semaphoreVars
    PROVE  SemaphoreInv'
<1>. USE DEF semaphoreVars
<1>0. Fits(t) /\ pc[t] = "yield"
  BY DEF SemaphoreInv, TasksFit, Suspend
<1>f. /\ pc \in [Tasks -> Labels] /\ flags \in [Tasks -> SUBSET Flags] /\ runs \in [Tasks -> Nat]
      /\ flags[t] \subseteq Flags /\ runs[t] \in Nat
  BY DEF SemaphoreInv, TypeOK, ContextTypeOK
<1>. DEFINE blocked == IF IsCancellable(t) THEN {} ELSE {"kNonCancellable"}
             woken   == IF IsCancellable(t) THEN flags[t] ELSE flags[t] \ {"kCancelRequest"}
             new     == flags[t] \cup {"kSleeping"} \cup blocked
<1>1. /\ pc' = [pc EXCEPT ![t] = "asleep"] /\ flags' = [flags EXCEPT ![t] = new]
      /\ runs' = IF woken = {} THEN runs ELSE [runs EXCEPT ![t] = @ + 1]
      /\ UNCHANGED <<epoch, timer, cancellation, cancelEpoch>>
  BY DEF Suspend
<1>2. new \subseteq Flags
  BY <1>f DEF Flags
<1>3. TypeOK'
  <2>1. flags' \in [Tasks -> SUBSET Flags] /\ pc' \in [Tasks -> Labels]
    BY <1>f, <1>1, <1>2 DEF Labels
  <2>2. runs' \in [Tasks -> Nat]
    BY <1>f, <1>1
  <2>. QED
    BY <1>1, <2>1, <2>2 DEF SemaphoreInv, TypeOK, ContextTypeOK
<1>4. /\ pc'[t] = "asleep" /\ flags'[t] = new
      /\ runs'[t] = IF woken = {} THEN runs[t] ELSE runs[t] + 1
      /\ \A s \in Tasks : s # t => pc'[s] = pc[s] /\ flags'[s] = flags[s] /\ runs'[s] = runs[s]
  BY <1>f, <1>1
<1>5. ASSUME NEW s \in Tasks, s # t PROVE Fits(s)'
  BY <1>1, <1>4, <1>5, OthersFit DEF SemaphoreInv, TasksFit, Waiting
<1>6. /\ "kSleeping" \in flags'[t]
      /\ "kNonCancellable" \in flags'[t] <=> ~IsCancellable(t)
      /\ \A x \in Sources : x \in flags'[t] <=> x \in flags[t]
  BY <1>0, <1>4 DEF Fits, FlagsFit, Sources
<1>7. woken = {} <=> Effective(t)' = {}
  <2>1. "kSleeping" \notin flags[t] /\ "kNonCancellable" \notin flags[t]
    BY <1>0 DEF Fits, FlagsFit
  <2>2. woken = {} <=> ~(\/ "kWaitList" \in flags[t] \/ "kDeadlineTimer" \in flags[t]
                         \/ ("kCancelRequest" \in flags[t] /\ IsCancellable(t)))
    BY <1>f, <2>1 DEF Flags, Sources
  <2>. QED
    BY <1>6, <2>2, EffectiveIff DEF Sources
<1>8. FlagsFit(t)'
  <2>1. runs[t] = 0
    BY <1>0 DEF Fits, FlagsFit
  <2>2. runs'[t] = IF Effective(t)' # {} THEN 1 ELSE 0
    BY <1>4, <1>7, <2>1
  <2>. QED
    BY <1>4, <1>6, <2>2 DEF FlagsFit, Sleeps, IsCancellable
<1>9. ListFits(t)' /\ TimerFits(t)' /\ CancelFits(t)'
  BY <1>0, <1>1, <1>4, <1>6 DEF Fits, ListFits, TimerFits, CancelFits, Waiting, Sleeps, Sources, IsCancellable
<1>10. AcquiredExact' /\ SleepersExact' /\ UnitsCovered'
  <2>1. \A s \in Tasks : "kWaitList" \in flags'[s] <=> "kWaitList" \in flags[s]
    BY <1>4, <1>6 DEF Sources
  <2>2. \A s \in Tasks : pc'[s] = pc[s] \/ (pc[s] \in Sleeps /\ pc'[s] \in Sleeps)
    BY <1>0, <1>4 DEF Sleeps
  <2>. QED
    BY <2>1, <2>2, SemaphoreAlone
<1>. QED
  BY <1>3, <1>5, <1>8, <1>9, <1>10 DEF SemaphoreInv, TasksFit, Fits

\* The task processor resumes a scheduled task.
LEMMA ResumeStep ==
    ASSUME SemaphoreInv, NEW t \in Tasks, Resume(t), UNCHANGED semaphoreVars
    PROVE  SemaphoreInv'
<1>. USE DEF semaphoreVars
<1>0. Fits(t) /\ pc[t] = "asleep" /\ runs[t] > 0
  BY DEF SemaphoreInv, TasksFit, Resume
<1>f. /\ pc \in [Tasks -> Labels] /\ flags \in [Tasks -> SUBSET Flags] /\ runs \in [Tasks -> Nat]
      /\ flags[t] \subseteq Flags
  BY DEF SemaphoreInv, TypeOK, ContextTypeOK
<1>1. /\ pc' = [pc EXCEPT ![t] = "awake"] /\ flags' = [flags EXCEPT ![t] = flags[t] \ {"kSleeping"}]
      /\ runs' = [runs EXCEPT ![t] = runs[t] - 1]
      /\ UNCHANGED <<epoch, timer, cancellation, cancelEpoch>>
  BY DEF Resume
<1>2. runs[t] = 1 /\ Effective(t) # {}
  BY <1>0 DEF Fits, FlagsFit
<1>3. TypeOK'
  BY <1>f, <1>1, <1>2 DEF SemaphoreInv, TypeOK, ContextTypeOK, Labels
<1>4. /\ pc'[t] = "awake" /\ flags'[t] = flags[t] \ {"kSleeping"} /\ runs'[t] = 0
      /\ \A s \in Tasks : s # t => pc'[s] = pc[s] /\ flags'[s] = flags[s] /\ runs'[s] = runs[s]
  BY <1>f, <1>1, <1>2
<1>5. ASSUME NEW s \in Tasks, s # t PROVE Fits(s)'
  BY <1>1, <1>4, <1>5, OthersFit DEF SemaphoreInv, TasksFit, Waiting
<1>6. FlagsFit(t)'
  <2>1. Effective(t)' # {}
    BY <1>2, <1>4, EffectiveIff
  <2>. QED
    BY <1>0, <1>4, <2>1 DEF Fits, FlagsFit, Sleeps, IsCancellable
<1>7. ListFits(t)' /\ TimerFits(t)' /\ CancelFits(t)'
  BY <1>0, <1>1, <1>4 DEF Fits, ListFits, TimerFits, CancelFits, Waiting, Sleeps, IsCancellable
<1>8. AcquiredExact' /\ SleepersExact' /\ UnitsCovered'
  <2>1. \A s \in Tasks : "kWaitList" \in flags'[s] <=> "kWaitList" \in flags[s]
    BY <1>4
  <2>2. \A s \in Tasks : pc'[s] = pc[s] \/ (pc[s] \in Sleeps /\ pc'[s] \in Sleeps)
    BY <1>0, <1>4 DEF Sleeps
  <2>. QED
    BY <2>1, <2>2, SemaphoreAlone
<1>. QED
  BY <1>3, <1>5, <1>6, <1>7, <1>8 DEF SemaphoreInv, TasksFit, Fits

\* A timer fires, for this sleep or for an earlier one.
LEMMA TimerStep ==
    ASSUME SemaphoreInv, NEW t \in Tasks, TimerFires(t), UNCHANGED semaphoreVars
    PROVE  SemaphoreInv'
<1>. USE DEF semaphoreVars
<1>0. Fits(t) /\ timer[t] # NoTimer
  BY DEF SemaphoreInv, TasksFit, TimerFires
<1>1. /\ timer' = [timer EXCEPT ![t] = NoTimer] /\ WakeupEpoch(t, "kDeadlineTimer", timer[t])
      /\ UNCHANGED <<pc, epoch, cancellation, cancelEpoch>>
  BY DEF TimerFires
<1>2. TypeOK'
  <2>1. flags' \in [Tasks -> SUBSET Flags] /\ runs' \in [Tasks -> Nat]
    BY <1>1, EpochTypes DEF SemaphoreInv, Sources
  <2>. QED
    BY <1>1, <2>1 DEF SemaphoreInv, TypeOK, ContextTypeOK, NoTimer
<1>3. /\ timer'[t] = NoTimer
      /\ \A s \in Tasks : s # t => timer'[s] = timer[s] /\ flags'[s] = flags[s] /\ runs'[s] = runs[s]
  BY <1>1 DEF SemaphoreInv, TypeOK, ContextTypeOK, WakeupEpoch, Wakeup
<1>4. ASSUME NEW s \in Tasks, s # t PROVE Fits(s)'
  BY <1>1, <1>3, <1>4, OthersFit DEF SemaphoreInv, TasksFit, Waiting
<1>5. FlagsFit(t)' /\ (flags'[t] = flags[t] \/ flags'[t] = flags[t] \cup {"kDeadlineTimer"})
  <2>1. CASE epoch[t] = timer[t]
    <3>1. pc[t] \in Sleeps
      BY <1>0, <2>1 DEF Fits, TimerFits, SemaphoreInv, TypeOK, ContextTypeOK
    <3>2. Wakeup({t}, "kDeadlineTimer")
      BY <1>1, <2>1 DEF WakeupEpoch
    <3>. QED
      BY <1>0, <1>1, <3>1, <3>2, WakeupFits DEF Fits, Sources, SemaphoreInv
  <2>2. CASE epoch[t] # timer[t]
    <3>1. UNCHANGED <<flags, runs>>
      BY <1>1, <2>2 DEF WakeupEpoch
    <3>. QED
      BY <1>0, <1>1, <3>1, EffectiveIff DEF Fits, FlagsFit, IsCancellable
  <2>. QED
    BY <2>1, <2>2
<1>6. TimerFits(t)'
  <2>1. epoch[t] \in Nat \ {0}
    BY DEF SemaphoreInv, TypeOK, ContextTypeOK
  <2>. QED
    BY <1>1, <1>3, <2>1 DEF TimerFits, NoTimer
<1>7. ListFits(t)' /\ CancelFits(t)'
  BY <1>0, <1>1, <1>5 DEF Fits, ListFits, CancelFits, Waiting, IsCancellable
<1>8. AcquiredExact' /\ SleepersExact' /\ UnitsCovered'
  <2>1. \A s \in Tasks : "kWaitList" \in flags'[s] <=> "kWaitList" \in flags[s]
    BY <1>3, <1>5
  <2>. QED
    BY <1>1, <2>1, SemaphoreAlone
<1>. QED
  BY <1>2, <1>4, <1>5, <1>6, <1>7, <1>8 DEF SemaphoreInv, TasksFit, Fits

-----------------------------------------------------------------------------
\* A task's own steps: the others stay as they are, if they stay listed.
LEMMA OwnStep ==
    ASSUME SemaphoreInv, NEW t \in Tasks, NEW s \in Tasks, s # t,
           NEW l, pc' = [pc EXCEPT ![t] = l],
           UNCHANGED flags \/ NextEpoch(t), UNCHANGED epoch \/ NextEpoch(t),
           UNCHANGED timer \/ ArmDeadlineTimer(t),
           UNCHANGED <<runs, cancellation, cancelEpoch>>,
           UNCHANGED status \/ \E x : status' = [status EXCEPT ![t] = x],
           s \in Waiting' <=> s \in Waiting
    PROVE  Fits(s)'
<1>1. /\ pc'[s] = pc[s] /\ flags'[s] = flags[s] /\ epoch'[s] = epoch[s] /\ timer'[s] = timer[s]
      /\ status'[s] = status[s]
  BY DEF SemaphoreInv, TypeOK, ContextTypeOK, NextEpoch, ArmDeadlineTimer
<1>. QED
  BY <1>1, OthersFit DEF SemaphoreInv, TasksFit

\* A step that does not take away from the units or from those who come for
\* them leaves them covered.
LEMMA StillCovered ==
    ASSUME SemaphoreInv, UNCHANGED <<capacity, resizer>>, waiting = <<>> => waiting' = <<>>,
           swallowed => swallowed',
           acquired' \in Nat, acquired + Cardinality(Coming) <= acquired' + Cardinality(Coming')
    PROVE  UnitsCovered'
<1>1. Cardinality(Coming) \in Nat /\ Cardinality(Coming') \in Nat /\ Cardinality(Coming)' = Cardinality(Coming')
  BY TaskSetsFinite DEF Coming
<1>2. acquired \in Nat /\ capacity \in Nat
  BY DEF SemaphoreInv, TypeOK
<1>. QED
  BY <1>1, <1>2 DEF SemaphoreInv, UnitsCovered

\* Nobody else begins or ceases to come.
LEMMA OnlyOneComes ==
    ASSUME TypeOK, NEW t \in Tasks, NEW l, pc' = [pc EXCEPT ![t] = l],
           UNCHANGED flags \/ NextEpoch(t)
    PROVE  /\ t \in Coming' <=> l = "notify" \/ WillTry(t)'
           /\ t \in Coming <=> pc[t] = "notify" \/ WillTry(t)
           /\ \A s \in Tasks : s # t => (s \in Coming' <=> s \in Coming)
           /\ t \in Coming /\ t \in Coming' => Coming' = Coming
           /\ t \notin Coming /\ t \notin Coming' => Coming' = Coming
           /\ t \in Coming /\ t \notin Coming' => Coming' = Coming \ {t}
           /\ t \notin Coming /\ t \in Coming' => Coming' = Coming \cup {t}
           /\ Coming \subseteq Tasks /\ Coming' \subseteq Tasks
<1>1. Coming \subseteq Tasks /\ Coming' \subseteq Tasks
  BY DEF Coming
<1>2. pc'[t] = l /\ \A s \in Tasks : s # t => pc'[s] = pc[s] /\ flags'[s] = flags[s]
  BY DEF TypeOK, ContextTypeOK, NextEpoch
<1>3. /\ t \in Coming' <=> l = "notify" \/ WillTry(t)'
      /\ t \in Coming <=> pc[t] = "notify" \/ WillTry(t)
  BY <1>2 DEF Coming
<1>4. \A s \in Tasks : s # t => (s \in Coming' <=> s \in Coming)
  BY <1>2 DEF Coming, WillTry
<1>. QED
  BY <1>1, <1>3, <1>4

Slow == Labels \ {"out", "in", "notify"}

\* acquired_locks_ and sleepies_ when one task moves.
LEMMA MoveCounts ==
    ASSUME SemaphoreInv, NEW t \in Tasks, NEW l \in Labels, pc' = [pc EXCEPT ![t] = l],
           (pc[t] = "in" <=> l = "in") => acquired' = acquired,
           pc[t] = "in" /\ l # "in" => acquired' = acquired - 1,
           pc[t] # "in" /\ l = "in" => acquired' = acquired + 1,
           (pc[t] \in Slow <=> l \in Slow) => sleepies' = sleepies,
           pc[t] \in Slow /\ l \notin Slow => sleepies' = sleepies - 1,
           pc[t] \notin Slow /\ l \in Slow => sleepies' = sleepies + 1
    PROVE  /\ AcquiredExact' /\ sleepies' = Cardinality({s \in Tasks : InSlowPath(s)'})
           /\ acquired' \in Nat /\ sleepies' \in Nat
<1>0. TypeOK
  BY DEF SemaphoreInv
<1>1. acquired = Cardinality(At({"in"}))
  <2>1. At({"in"}) = {s \in Tasks : pc[s] = "in"}
    BY DEF At
  <2>. QED
    BY <2>1 DEF SemaphoreInv, AcquiredExact
<1>2. sleepies = Cardinality(At(Slow))
  <2>1. At(Slow) = {s \in Tasks : InSlowPath(s)}
    BY DEF At, InSlowPath, Slow
  <2>. QED
    BY <2>1 DEF SemaphoreInv, SleepersExact
<1>3. acquired' = Cardinality(At({"in"}))' /\ acquired' \in Nat
  <2>1. PICK L : L = {"in"}
    OBVIOUS
  <2>2. /\ Cardinality(At(L)) \in Nat
        /\ (pc[t] \in L <=> l \in L) => Cardinality(At(L))' = Cardinality(At(L))
        /\ pc[t] \in L /\ l \notin L => Cardinality(At(L))' = Cardinality(At(L)) - 1 /\ Cardinality(At(L)) >= 1
        /\ pc[t] \notin L /\ l \in L => Cardinality(At(L))' = Cardinality(At(L)) + 1
    BY <1>0, LabelCount
  <2>. QED
    BY <1>1, <2>1, <2>2
<1>4. sleepies' = Cardinality(At(Slow))' /\ sleepies' \in Nat
  <2>1. PICK L : L = Slow
    OBVIOUS
  <2>2. /\ Cardinality(At(L)) \in Nat
        /\ (pc[t] \in L <=> l \in L) => Cardinality(At(L))' = Cardinality(At(L))
        /\ pc[t] \in L /\ l \notin L => Cardinality(At(L))' = Cardinality(At(L)) - 1 /\ Cardinality(At(L)) >= 1
        /\ pc[t] \notin L /\ l \in L => Cardinality(At(L))' = Cardinality(At(L)) + 1
    BY <1>0, LabelCount
  <2>. QED
    BY <1>2, <2>1, <2>2
<1>5. AcquiredExact'
  <2>1. At({"in"})' = {s \in Tasks : pc'[s] = "in"}
    BY DEF At
  <2>. QED
    BY <1>3, <2>1 DEF AcquiredExact
<1>6. At(Slow)' = {s \in Tasks : InSlowPath(s)'}
  BY DEF At, InSlowPath, Slow
<1>. QED
  BY <1>3, <1>4, <1>5, <1>6

-----------------------------------------------------------------------------
LEMMA LockFastPathStep ==
    ASSUME SemaphoreInv, NEW t \in Tasks, LockFastPath(t)
    PROVE  SemaphoreInv'
<1>. USE DEF contextVars
<1>0. Fits(t) /\ TypeOK
  BY DEF SemaphoreInv, TasksFit
<1>1. /\ pc[t] = "out" /\ locks[t] < MaxLocks /\ locks' = [locks EXCEPT ![t] = @ + 1]
      /\ UNCHANGED <<flags, epoch, runs, timer, cancellation, cancelEpoch, capacity, waiting, status, resizer,
                     resizes, swallowed>>
  BY DEF LockFastPath
<1>2. PICK l \in {"in", "out", "sleep"} :
         /\ pc' = [pc EXCEPT ![t] = l]
         /\ l = "in" => acquired' = acquired + 1 /\ UNCHANGED sleepies
         /\ l = "out" => UNCHANGED <<acquired, sleepies>>
         /\ l = "sleep" => sleepies' = sleepies + 1 /\ UNCHANGED acquired
  <2>1. CASE UNCHANGED <<pc, acquired, sleepies>>
    <3>1. pc' = [pc EXCEPT ![t] = "out"]
      BY <1>0, <1>1, <2>1 DEF TypeOK
    <3>. QED
      BY <2>1, <3>1
  <2>. QED
    BY <2>1 DEF LockFastPath
<1>3. /\ AcquiredExact' /\ sleepies' = Cardinality({s \in Tasks : InSlowPath(s)'})
      /\ acquired' \in Nat /\ sleepies' \in Nat
  BY <1>1, <1>2, MoveCounts DEF Labels, Slow
<1>4. TypeOK'
  <2>1. locks' \in [Tasks -> 0..MaxLocks]
    BY <1>0, <1>1, SemaphoreAssumption DEF TypeOK
  <2>. QED
    BY <1>0, <1>1, <1>2, <1>3, <2>1 DEF TypeOK, ContextTypeOK, Labels
<1>5. ASSUME NEW s \in Tasks, s # t PROVE Fits(s)'
  BY <1>1, <1>2, <1>5, OwnStep DEF Waiting
<1>6. Fits(t)'
  <2>1. pc'[t] = l
    BY <1>0, <1>2 DEF TypeOK
  <2>2. FlagsFit(t)'
    BY <1>0, <1>1, <2>1 DEF Fits, FlagsFit, IsCancellable, Sleeps
  <2>. QED
    BY <1>0, <1>1, <2>1, <2>2 DEF Fits, ListFits, TimerFits, CancelFits, Waiting, Sleeps
<1>7. SleepersExact'
  BY <1>1, <1>3 DEF SemaphoreInv, SleepersExact
<1>8. UnitsCovered'
  <2>1. t \notin Coming /\ t \notin Coming'
    <3>1. pc'[t] = l
      BY <1>0, <1>2 DEF TypeOK
    <3>. QED
      BY <1>1, <3>1 DEF Coming, WillTry
  <2>2. Coming' = Coming
    BY <1>0, <1>1, <1>2, <2>1, OnlyOneComes
  <2>3. acquired <= acquired' /\ acquired \in Nat /\ Cardinality(Coming) \in Nat
    BY <1>0, <1>2, TaskSetsFinite DEF TypeOK, Coming
  <2>. QED
    BY <1>1, <1>3, <2>2, <2>3, StillCovered
<1>. QED
  BY <1>3, <1>4, <1>5, <1>6, <1>7, <1>8 DEF SemaphoreInv, TasksFit

LEMMA SleepStep ==
    ASSUME SemaphoreInv, NEW t \in Tasks, Sleep(t)
    PROVE  SemaphoreInv'
<1>. USE DEF contextVars
<1>0. Fits(t) /\ TypeOK
  BY DEF SemaphoreInv, TasksFit
<1>1. /\ pc[t] \in {"sleep", "again"}
      /\ UNCHANGED <<flags, epoch, runs, timer, cancellation, cancelEpoch, acquired, capacity, waiting, locks,
                     resizer, resizes>>
  BY DEF Sleep
<1>2. PICK l \in {"out", "setup"} :
         /\ pc' = [pc EXCEPT ![t] = l]
         /\ l = "out" => /\ sleepies' = sleepies - 1
                         /\ status' = [status EXCEPT ![t] = "kTransientFailure"]
                         /\ swallowed' = (swallowed \/ pc[t] = "again")
         /\ l = "setup" => ~ShouldCancel(t) /\ UNCHANGED <<sleepies, status, swallowed>>
  BY DEF Sleep, Leave
<1>3. /\ AcquiredExact' /\ sleepies' = Cardinality({s \in Tasks : InSlowPath(s)'})
      /\ acquired' \in Nat /\ sleepies' \in Nat
  BY <1>1, <1>2, MoveCounts DEF Labels, Slow
<1>4. TypeOK'
  <2>1. status' \in [Tasks -> {"kTransientFailure", "kPermanentFailure"}]
    BY <1>0, <1>2 DEF TypeOK
  <2>2. swallowed' \in BOOLEAN
    BY <1>0, <1>2 DEF TypeOK
  <2>. QED
    BY <1>0, <1>1, <1>2, <1>3, <2>1, <2>2 DEF TypeOK, ContextTypeOK, Labels
<1>5. ASSUME NEW s \in Tasks, s # t PROVE Fits(s)'
  BY <1>1, <1>2, <1>5, OwnStep DEF Waiting
<1>6. Fits(t)'
  <2>1. pc'[t] = l /\ status[t] = "kTransientFailure" /\ status'[t] = "kTransientFailure"
    BY <1>0, <1>1, <1>2 DEF TypeOK, Fits, ListFits, Sleeps
  <2>2. FlagsFit(t)'
    BY <1>0, <1>1, <2>1 DEF Fits, FlagsFit, IsCancellable, Sleeps
  <2>3. CancelFits(t)'
    BY <1>1, <1>2, <2>1 DEF CancelFits, ShouldCancel, IsCancellable, Sleeps
  <2>4. ListFits(t)' /\ TimerFits(t)'
    BY <1>0, <1>1, <2>1 DEF Fits, ListFits, TimerFits, Waiting, Sleeps
  <2>. QED
    BY <2>2, <2>3, <2>4 DEF Fits
<1>7. SleepersExact'
  BY <1>1, <1>3 DEF SemaphoreInv, SleepersExact
<1>8. UnitsCovered'
  <2>1. CASE l = "out" /\ pc[t] = "again"
    BY <1>2, <2>1 DEF UnitsCovered
  <2>2. CASE ~(l = "out" /\ pc[t] = "again")
    <3>1. t \in Coming => t \in Coming'
      <4>1. pc'[t] = l
        BY <1>0, <1>2 DEF TypeOK
      <4>. QED
        BY <1>1, <2>2, <4>1 DEF Coming, WillTry
    <3>2. Coming' = Coming \/ (t \notin Coming /\ Coming' = Coming \cup {t})
      BY <1>0, <1>1, <1>2, <3>1, OnlyOneComes
    <3>3. Coming \in SUBSET Tasks
      BY DEF Coming
    <3>4. Cardinality(Coming) <= Cardinality(Coming') /\ acquired \in Nat
          /\ Cardinality(Coming) \in Nat /\ Cardinality(Coming') \in Nat
      <4>1. Cardinality(Coming) \in Nat /\ acquired \in Nat
        BY <1>0, <3>3, TaskSetsFinite DEF TypeOK
      <4>2. Cardinality(Coming') = Cardinality(Coming) \/ Cardinality(Coming') = Cardinality(Coming) + 1
        BY <3>2, <3>3, OneMore
      <4>. QED
        BY <4>1, <4>2
    <3>5. swallowed => swallowed'
      BY <1>2
    <3>. QED
      BY <1>1, <3>4, <3>5, StillCovered
  <2>. QED
    BY <2>1, <2>2
<1>. QED
  BY <1>3, <1>4, <1>5, <1>6, <1>7, <1>8 DEF SemaphoreInv, TasksFit

LEMMA SetupWakeupsStep ==
    ASSUME SemaphoreInv, NEW t \in Tasks, SetupWakeups(t)
    PROVE  SemaphoreInv'
<1>0. Fits(t) /\ TypeOK
  BY DEF SemaphoreInv, TasksFit
<1>1. /\ pc[t] = "setup" /\ acquired \in Nat /\ capacity \in Nat
      /\ UNCHANGED <<runs, cancellation, cancelEpoch, capacity, waiting, locks, resizer, resizes, swallowed>>
  BY <1>0 DEF SetupWakeups, TypeOK
<1>2. PICK l \in {"in", "yield", "recheck"} :
         /\ pc' = [pc EXCEPT ![t] = l]
         /\ l = "in" => /\ acquired' = acquired + 1 /\ sleepies' = sleepies - 1 /\ NextEpoch(t)
                        /\ status' = [status EXCEPT ![t] = "kTransientFailure"] /\ UNCHANGED timer
         /\ l = "yield" => /\ capacity < 1 /\ ArmDeadlineTimer(t)
                           /\ status' = [status EXCEPT ![t] = "kPermanentFailure"]
                           /\ UNCHANGED <<acquired, flags, epoch, sleepies>>
         /\ l = "recheck" => /\ ~(acquired < capacity)
                             /\ UNCHANGED <<acquired, flags, epoch, timer, sleepies, status>>
  BY DEF SetupWakeups, Leave, DoTryLock
<1>3. /\ AcquiredExact' /\ sleepies' = Cardinality({s \in Tasks : InSlowPath(s)'})
      /\ acquired' \in Nat /\ sleepies' \in Nat
  BY <1>1, <1>2, MoveCounts DEF Labels, Slow
<1>4. /\ flags' \in [Tasks -> SUBSET Flags] /\ epoch' \in [Tasks -> Nat \ {0}] /\ timer' \in [Tasks -> Nat]
      /\ status' \in [Tasks -> {"kTransientFailure", "kPermanentFailure"}]
  <2>1. epoch[t] + 1 \in Nat \ {0} /\ epoch[t] \in Nat
    BY <1>0 DEF TypeOK, ContextTypeOK
  <2>2. flags' \in [Tasks -> SUBSET Flags] /\ epoch' \in [Tasks -> Nat \ {0}]
    <3>1. CASE l = "in"
      <4>1. NextEpoch(t)
        BY <1>2, <3>1
      <4>. QED
        BY <1>0, <2>1, <4>1 DEF TypeOK, ContextTypeOK, NextEpoch
    <3>2. CASE l # "in"
      <4>1. UNCHANGED <<flags, epoch>>
        BY <1>2, <3>2
      <4>. QED
        BY <1>0, <4>1 DEF TypeOK, ContextTypeOK
    <3>. QED
      BY <3>1, <3>2
  <2>3. timer' \in [Tasks -> Nat]
    BY <1>0, <1>2, <2>1 DEF TypeOK, ContextTypeOK, ArmDeadlineTimer
  <2>4. status' \in [Tasks -> {"kTransientFailure", "kPermanentFailure"}]
    BY <1>0, <1>2 DEF TypeOK
  <2>. QED
    BY <2>2, <2>3, <2>4
<1>5. TypeOK'
  BY <1>0, <1>1, <1>2, <1>3, <1>4 DEF TypeOK, ContextTypeOK, Labels
<1>6. ASSUME NEW s \in Tasks, s # t PROVE Fits(s)'
  <2>1. /\ UNCHANGED flags \/ NextEpoch(t)
        /\ UNCHANGED epoch \/ NextEpoch(t)
        /\ UNCHANGED timer \/ ArmDeadlineTimer(t)
        /\ UNCHANGED status \/ \E x : status' = [status EXCEPT ![t] = x]
    BY <1>2
  <2>2. Waiting' = Waiting
    BY <1>1 DEF Waiting
  <2>. QED
    BY <1>1, <1>2, <1>6, <2>1, <2>2, OwnStep
<1>7. pc'[t] = l /\ t \notin Waiting /\ t \notin Waiting' /\ status[t] = "kTransientFailure"
  BY <1>0, <1>1, <1>2 DEF TypeOK, Fits, ListFits, Waiting, Sleeps
<1>8. Fits(t)'
  <2>1. CASE l = "in"
    <3>1. flags'[t] = {} /\ status'[t] = "kTransientFailure" /\ epoch'[t] = epoch[t] + 1
      BY <1>0, <1>2, <2>1 DEF TypeOK, ContextTypeOK, NextEpoch
    <3>2. runs[t] = 0 /\ timer[t] < epoch[t] /\ timer'[t] = timer[t] /\ timer[t] \in Nat /\ epoch[t] \in Nat
      BY <1>0, <1>1, <1>2, <2>1 DEF Fits, FlagsFit, TimerFits, Sleeps, TypeOK, ContextTypeOK
    <3>3. FlagsFit(t)'
      BY <1>1, <1>7, <2>1, <3>1, <3>2 DEF FlagsFit, Sleeps
    <3>4. ListFits(t)' /\ TimerFits(t)' /\ CancelFits(t)'
      BY <1>7, <2>1, <3>1, <3>2 DEF ListFits, TimerFits, CancelFits, Sleeps
    <3>. QED
      BY <3>3, <3>4 DEF Fits
  <2>2. CASE l = "yield"
    <3>1. flags'[t] = flags[t] /\ status'[t] = "kPermanentFailure" /\ epoch'[t] = epoch[t]
      BY <1>0, <1>2, <2>2 DEF TypeOK
    <3>2. timer'[t] = timer[t] \/ timer'[t] = epoch[t]
      BY <1>0, <1>2, <2>2 DEF TypeOK, ContextTypeOK, ArmDeadlineTimer
    <3>3. /\ "kSleeping" \notin flags[t] /\ "kNonCancellable" \notin flags[t] /\ "kWaitList" \notin flags[t]
          /\ "kDeadlineTimer" \notin flags[t] /\ runs[t] = 0 /\ timer[t] <= epoch[t] /\ epoch[t] \in Nat
      BY <1>0, <1>1 DEF Fits, FlagsFit, TimerFits, Sleeps, TypeOK, ContextTypeOK
    <3>4. FlagsFit(t)'
      BY <1>1, <1>7, <2>2, <3>1, <3>3 DEF FlagsFit, Sleeps
    <3>5. ListFits(t)' /\ TimerFits(t)'
      BY <1>7, <2>2, <3>1, <3>2, <3>3 DEF ListFits, TimerFits, Sleeps
    <3>6. CancelFits(t)'
      BY <1>0, <1>1, <3>1 DEF Fits, CancelFits, IsCancellable
    <3>. QED
      BY <3>4, <3>5, <3>6 DEF Fits
  <2>3. CASE l = "recheck"
    <3>1. UNCHANGED <<flags, epoch, timer, status>>
      BY <1>2, <2>3
    <3>2. FlagsFit(t)'
      BY <1>0, <1>1, <1>7, <2>3, <3>1 DEF Fits, FlagsFit, Sleeps
    <3>3. ListFits(t)' /\ TimerFits(t)' /\ CancelFits(t)'
      BY <1>0, <1>1, <1>7, <2>3, <3>1 DEF Fits, ListFits, TimerFits, CancelFits, Sleeps, IsCancellable
    <3>. QED
      BY <3>2, <3>3 DEF Fits
  <2>. QED
    BY <2>1, <2>2, <2>3
<1>9. SleepersExact'
  BY <1>1, <1>3 DEF SemaphoreInv, SleepersExact
<1>10. UnitsCovered'
  <2>0. Cardinality(Coming)' \in Nat /\ Cardinality(Coming) \in Nat /\ Cardinality(Coming)' = Cardinality(Coming')
    BY TaskSetsFinite DEF Coming
  <2>1. CASE l = "in"
    <3>1. t \in Coming /\ t \notin Coming'
      BY <1>1, <1>7, <2>1 DEF Coming, WillTry
    <3>2. Coming' = Coming \ {t} /\ Coming \subseteq Tasks
      BY <1>0, <1>2, <2>1, <3>1, OnlyOneComes
    <3>3. Cardinality(Coming') = Cardinality(Coming) - 1
      BY <3>1, <3>2, OneLess
    <3>4. acquired' = acquired + 1
      BY <1>2, <2>1
    <3>. QED
      BY <1>1, <1>3, <2>0, <3>3, <3>4, StillCovered
  <2>2. CASE l # "in"
    <3>1. capacity <= acquired /\ acquired' = acquired
      BY <1>1, <1>2, <2>2
    <3>. QED
      BY <1>1, <2>0, <3>1 DEF UnitsCovered
  <2>. QED
    BY <2>1, <2>2
<1>. QED
  BY <1>3, <1>5, <1>6, <1>8, <1>9, <1>10 DEF SemaphoreInv, TasksFit

LEMMA AppendWaiterStep ==
    ASSUME SemaphoreInv, NEW t \in Tasks, AppendWaiter(t)
    PROVE  SemaphoreInv'
<1>0. Fits(t) /\ TypeOK
  BY DEF SemaphoreInv, TasksFit
<1>1. /\ pc[t] = "recheck" /\ acquired \in Nat /\ capacity \in Nat
      /\ UNCHANGED <<runs, cancellation, cancelEpoch, acquired, capacity, sleepies, status, locks, resizer,
                     resizes, swallowed>>
  BY <1>0 DEF AppendWaiter, TypeOK
<1>2. PICK l \in {"sleep", "yield"} :
         /\ pc' = [pc EXCEPT ![t] = l]
         /\ l = "sleep" => NextEpoch(t) /\ UNCHANGED <<waiting, timer>>
         /\ l = "yield" => /\ ~(capacity = 0 \/ acquired <= capacity - 1)
                           /\ waiting' = Append(waiting, t) /\ ArmDeadlineTimer(t) /\ UNCHANGED <<flags, epoch>>
  BY DEF AppendWaiter
<1>3. /\ AcquiredExact' /\ sleepies' = Cardinality({s \in Tasks : InSlowPath(s)'})
      /\ acquired' \in Nat /\ sleepies' \in Nat
  BY <1>1, <1>2, MoveCounts DEF Labels, Slow
<1>4. /\ flags' \in [Tasks -> SUBSET Flags] /\ epoch' \in [Tasks -> Nat \ {0}] /\ timer' \in [Tasks -> Nat]
  <2>1. epoch[t] + 1 \in Nat \ {0} /\ epoch[t] \in Nat
    BY <1>0 DEF TypeOK, ContextTypeOK
  <2>2. flags' \in [Tasks -> SUBSET Flags] /\ epoch' \in [Tasks -> Nat \ {0}]
    <3>1. CASE l = "sleep"
      <4>1. NextEpoch(t)
        BY <1>2, <3>1
      <4>. QED
        BY <1>0, <2>1, <4>1 DEF TypeOK, ContextTypeOK, NextEpoch
    <3>2. CASE l = "yield"
      <4>1. UNCHANGED <<flags, epoch>>
        BY <1>2, <3>2
      <4>. QED
        BY <1>0, <4>1 DEF TypeOK, ContextTypeOK
    <3>. QED
      BY <3>1, <3>2
  <2>3. timer' \in [Tasks -> Nat]
    BY <1>0, <1>2, <2>1 DEF TypeOK, ContextTypeOK, ArmDeadlineTimer
  <2>. QED
    BY <2>2, <2>3
<1>5. pc'[t] = l /\ t \notin Waiting /\ status[t] = "kTransientFailure"
  BY <1>0, <1>1, <1>2 DEF TypeOK, Fits, ListFits, Sleeps
<1>6. /\ waiting' \in Seq(Tasks) /\ (l = "sleep" => Waiting' = Waiting) /\ (l = "yield" => Waiting' = Waiting \cup {t})
      /\ \A i, j \in DOMAIN waiting' : waiting'[i] = waiting'[j] => i = j
  <2>1. CASE l = "sleep"
    BY <1>0, <1>2, <2>1 DEF TypeOK, Waiting, SemaphoreInv, SleepersExact
  <2>2. CASE l = "yield"
    BY <1>0, <1>2, <1>5, <2>2, AppendTask DEF SemaphoreInv
  <2>. QED
    BY <2>1, <2>2
<1>7. TypeOK'
  BY <1>0, <1>1, <1>2, <1>3, <1>4, <1>6 DEF TypeOK, ContextTypeOK, Labels
<1>8. ASSUME NEW s \in Tasks, s # t PROVE Fits(s)'
  <2>1. s \in Waiting' <=> s \in Waiting
    BY <1>6, <1>8
  <2>. QED
    BY <1>1, <1>2, <1>8, <2>1, OwnStep
<1>9. Fits(t)'
  <2>1. CASE l = "sleep"
    <3>1. flags'[t] = {} /\ epoch'[t] = epoch[t] + 1
      BY <1>0, <1>2, <2>1 DEF TypeOK, ContextTypeOK, NextEpoch
    <3>2. runs[t] = 0 /\ timer[t] < epoch[t] /\ timer'[t] = timer[t] /\ timer[t] \in Nat /\ epoch[t] \in Nat
      BY <1>0, <1>1, <1>2, <2>1 DEF Fits, FlagsFit, TimerFits, Sleeps, TypeOK, ContextTypeOK
    <3>3. FlagsFit(t)'
      BY <1>1, <1>5, <2>1, <3>1, <3>2 DEF FlagsFit, Sleeps
    <3>4. ListFits(t)' /\ TimerFits(t)' /\ CancelFits(t)'
      BY <1>1, <1>5, <1>6, <2>1, <3>1, <3>2 DEF ListFits, TimerFits, CancelFits, Sleeps
    <3>. QED
      BY <3>3, <3>4 DEF Fits
  <2>2. CASE l = "yield"
    <3>1. flags'[t] = flags[t] /\ epoch'[t] = epoch[t] /\ t \in Waiting'
      BY <1>2, <1>6, <2>2
    <3>2. timer'[t] = timer[t] \/ timer'[t] = epoch[t]
      BY <1>0, <1>2, <2>2 DEF TypeOK, ContextTypeOK, ArmDeadlineTimer
    <3>3. /\ "kSleeping" \notin flags[t] /\ "kNonCancellable" \notin flags[t] /\ "kWaitList" \notin flags[t]
          /\ "kDeadlineTimer" \notin flags[t] /\ runs[t] = 0 /\ timer[t] <= epoch[t] /\ epoch[t] \in Nat
      BY <1>0, <1>1 DEF Fits, FlagsFit, TimerFits, Sleeps, TypeOK, ContextTypeOK
    <3>4. FlagsFit(t)'
      BY <1>1, <1>5, <2>2, <3>1, <3>3 DEF FlagsFit, Sleeps
    <3>5. ListFits(t)' /\ TimerFits(t)'
      BY <1>1, <1>5, <2>2, <3>1, <3>2, <3>3 DEF ListFits, TimerFits, Sleeps
    <3>6. CancelFits(t)'
      BY <1>0, <1>1, <3>1 DEF Fits, CancelFits, IsCancellable
    <3>. QED
      BY <3>4, <3>5, <3>6 DEF Fits
  <2>. QED
    BY <2>1, <2>2
<1>10. SleepersExact'
  BY <1>3, <1>6 DEF SleepersExact
<1>11. UnitsCovered'
  <2>0. Cardinality(Coming)' \in Nat /\ Cardinality(Coming) \in Nat /\ Cardinality(Coming)' = Cardinality(Coming')
    BY TaskSetsFinite DEF Coming
  <2>1. CASE l = "sleep"
    <3>1. t \notin Coming /\ t \notin Coming'
      BY <1>1, <1>5, <2>1 DEF Coming, WillTry
    <3>2. Coming' = Coming
      BY <1>0, <1>2, <2>1, <3>1, OnlyOneComes
    <3>. QED
      BY <1>1, <1>2, <1>3, <2>0, <2>1, <3>2, StillCovered
  <2>2. CASE l = "yield"
    <3>1. capacity <= acquired
      BY <1>1, <1>2, <2>2
    <3>. QED
      BY <1>1, <2>0, <3>1 DEF UnitsCovered
  <2>. QED
    BY <2>1, <2>2
<1>. QED
  BY <1>3, <1>7, <1>8, <1>9, <1>10, <1>11 DEF SemaphoreInv, TasksFit

LEMMA DisableWakeupsStep ==
    ASSUME SemaphoreInv, NEW t \in Tasks, DisableWakeups(t)
    PROVE  SemaphoreInv'
<1>0. Fits(t) /\ TypeOK
  BY DEF SemaphoreInv, TasksFit
<1>1. /\ pc[t] = "awake" /\ pc' = [pc EXCEPT ![t] = "exchange"] /\ waiting' = Unlink(waiting, t)
      /\ UNCHANGED <<flags, epoch, runs, timer, cancellation, cancelEpoch, acquired, capacity, sleepies, status,
                     locks, resizer, resizes, swallowed>>
  BY DEF DisableWakeups, contextVars
<1>2. /\ AcquiredExact' /\ sleepies' = Cardinality({s \in Tasks : InSlowPath(s)'})
      /\ acquired' \in Nat /\ sleepies' \in Nat
  BY <1>1, MoveCounts DEF Labels, Slow
<1>3. /\ waiting' \in Seq(Tasks) /\ Waiting' = Waiting \ {t}
      /\ \A i, j \in DOMAIN waiting' : waiting'[i] = waiting'[j] => i = j
  BY <1>0, <1>1, UnlinkTask DEF SemaphoreInv
<1>4. TypeOK'
  BY <1>0, <1>1, <1>3 DEF TypeOK, ContextTypeOK, Labels
<1>5. ASSUME NEW s \in Tasks, s # t PROVE Fits(s)'
  BY <1>1, <1>3, <1>5, OwnStep
<1>6. Fits(t)'
  <2>1. pc'[t] = "exchange" /\ t \notin Waiting'
    BY <1>0, <1>1, <1>3 DEF TypeOK
  <2>2. FlagsFit(t)'
    BY <1>0, <1>1, <2>1, EffectiveIff DEF Fits, FlagsFit, Sleeps, IsCancellable
  <2>3. ListFits(t)' /\ TimerFits(t)' /\ CancelFits(t)'
    BY <1>0, <1>1, <2>1 DEF Fits, ListFits, TimerFits, CancelFits, Sleeps, IsCancellable
  <2>. QED
    BY <2>2, <2>3 DEF Fits
<1>7. SleepersExact'
  BY <1>2, <1>3 DEF SleepersExact
<1>8. UnitsCovered'
  <2>1. t \in Coming <=> t \in Coming'
    <3>1. pc'[t] = "exchange"
      BY <1>0, <1>1 DEF TypeOK
    <3>. QED
      BY <1>1, <3>1 DEF Coming, WillTry
  <2>2. Coming' = Coming /\ Cardinality(Coming) \in Nat
    BY <1>0, <1>1, <2>1, OnlyOneComes, TaskSetsFinite
  <2>3. waiting = <<>> => waiting' = <<>>
    BY <1>1 DEF Unlink
  <2>. QED
    BY <1>1, <1>2, <2>2, <2>3, StillCovered
<1>. QED
  BY <1>2, <1>4, <1>5, <1>6, <1>7, <1>8 DEF SemaphoreInv, TasksFit

LEMMA LockSlowPathStep ==
    ASSUME SemaphoreInv, NEW t \in Tasks, LockSlowPath(t)
    PROVE  SemaphoreInv'
<1>0. Fits(t) /\ TypeOK
  BY DEF SemaphoreInv, TasksFit
<1>1. /\ pc[t] = "exchange" /\ NextEpoch(t)
      /\ UNCHANGED <<runs, timer, cancellation, cancelEpoch, acquired, capacity, waiting, locks, resizer, resizes,
                     swallowed>>
  BY DEF LockSlowPath
<1>2. PICK l \in {"again", "out"} :
         /\ pc' = [pc EXCEPT ![t] = l]
         /\ l = "again" => /\ status[t] = "kTransientFailure" /\ "kWaitList" \in flags[t]
                           /\ UNCHANGED <<sleepies, status>>
         /\ l = "out" => /\ ~(status[t] = "kTransientFailure" /\ "kWaitList" \in flags[t])
                         /\ sleepies' = sleepies - 1 /\ status' = [status EXCEPT ![t] = "kTransientFailure"]
  BY DEF LockSlowPath, Leave, GetPrimaryWakeupSource
<1>3. /\ AcquiredExact' /\ sleepies' = Cardinality({s \in Tasks : InSlowPath(s)'})
      /\ acquired' \in Nat /\ sleepies' \in Nat
  BY <1>1, <1>2, MoveCounts DEF Labels, Slow
<1>4. flags' \in [Tasks -> SUBSET Flags] /\ epoch' \in [Tasks -> Nat \ {0}]
  <2>1. epoch[t] + 1 \in Nat \ {0}
    BY <1>0 DEF TypeOK, ContextTypeOK
  <2>. QED
    BY <1>0, <1>1, <2>1 DEF TypeOK, ContextTypeOK, NextEpoch
<1>5. status' \in [Tasks -> {"kTransientFailure", "kPermanentFailure"}]
  BY <1>0, <1>2 DEF TypeOK
<1>6. TypeOK'
  BY <1>0, <1>1, <1>2, <1>3, <1>4, <1>5 DEF TypeOK, ContextTypeOK, Labels
<1>7. ASSUME NEW s \in Tasks, s # t PROVE Fits(s)'
  BY <1>1, <1>2, <1>7, OwnStep DEF Waiting
<1>8. /\ pc'[t] = l /\ t \notin Waiting' /\ status'[t] = "kTransientFailure"
      /\ flags'[t] = {} /\ epoch'[t] = epoch[t] + 1
  <2>1. pc'[t] = l /\ flags'[t] = {} /\ epoch'[t] = epoch[t] + 1
    BY <1>0, <1>1, <1>2 DEF TypeOK, ContextTypeOK, NextEpoch
  <2>2. t \notin Waiting' /\ status'[t] = "kTransientFailure"
    BY <1>0, <1>1, <1>2 DEF TypeOK, Fits, ListFits, Waiting
  <2>. QED
    BY <2>1, <2>2
<1>9. Fits(t)'
  <2>1. runs[t] = 0 /\ timer[t] <= epoch[t] /\ timer[t] \in Nat /\ epoch[t] \in Nat
    BY <1>0, <1>1 DEF Fits, FlagsFit, TimerFits, TypeOK, ContextTypeOK
  <2>2. FlagsFit(t)'
    BY <1>1, <1>8, <2>1 DEF FlagsFit, Sleeps
  <2>3. ListFits(t)' /\ TimerFits(t)' /\ CancelFits(t)'
    BY <1>1, <1>8, <2>1 DEF ListFits, TimerFits, CancelFits, Sleeps
  <2>. QED
    BY <2>2, <2>3 DEF Fits
<1>10. SleepersExact'
  BY <1>1, <1>3 DEF SemaphoreInv, SleepersExact
<1>11. UnitsCovered'
  <2>1. t \in Coming <=> "kWaitList" \in flags[t]
    BY <1>1 DEF Coming, WillTry
  <2>2. t \in Coming' <=> l = "again"
    BY <1>8 DEF Coming, WillTry
  <2>3. "kWaitList" \in flags[t] => status[t] = "kTransientFailure"
    BY <1>0 DEF Fits, ListFits
  <2>4. Coming' = Coming /\ Cardinality(Coming) \in Nat
    BY <1>0, <1>1, <1>2, <2>1, <2>2, <2>3, OnlyOneComes, TaskSetsFinite
  <2>. QED
    BY <1>0, <1>1, <1>3, <2>4, StillCovered DEF TypeOK
<1>. QED
  BY <1>3, <1>6, <1>7, <1>9, <1>10, <1>11 DEF SemaphoreInv, TasksFit

LEMMA UnlockStep ==
    ASSUME SemaphoreInv, NEW t \in Tasks, unlock_shared(t)
    PROVE  SemaphoreInv'
<1>0. Fits(t) /\ TypeOK
  BY DEF SemaphoreInv, TasksFit
<1>1. /\ pc[t] = "in" /\ pc' = [pc EXCEPT ![t] = "notify"] /\ acquired' = acquired - 1
      /\ UNCHANGED <<flags, epoch, runs, timer, cancellation, cancelEpoch, capacity, sleepies, waiting, status,
                     locks, resizer, resizes, swallowed>>
  BY DEF unlock_shared, contextVars
<1>2. /\ AcquiredExact' /\ sleepies' = Cardinality({s \in Tasks : InSlowPath(s)'})
      /\ acquired' \in Nat /\ sleepies' \in Nat
  BY <1>1, MoveCounts DEF Labels, Slow
<1>3. TypeOK'
  BY <1>0, <1>1, <1>2 DEF TypeOK, ContextTypeOK, Labels
<1>4. ASSUME NEW s \in Tasks, s # t PROVE Fits(s)'
  BY <1>1, <1>4, OwnStep DEF Waiting
<1>5. pc'[t] = "notify"
  BY <1>0, <1>1 DEF TypeOK
<1>6. Fits(t)'
  <2>1. FlagsFit(t)'
    BY <1>0, <1>1, <1>5 DEF Fits, FlagsFit, Sleeps
  <2>2. ListFits(t)' /\ TimerFits(t)' /\ CancelFits(t)'
    BY <1>0, <1>1, <1>5 DEF Fits, ListFits, TimerFits, CancelFits, Sleeps, Waiting
  <2>. QED
    BY <2>1, <2>2 DEF Fits
<1>7. SleepersExact'
  BY <1>1, <1>2 DEF SemaphoreInv, SleepersExact
<1>8. UnitsCovered'
  <2>1. t \notin Coming /\ t \in Coming'
    BY <1>1, <1>5 DEF Coming, WillTry
  <2>2. Coming' = Coming \cup {t} /\ Coming \subseteq Tasks
    BY <1>0, <1>1, <2>1, OnlyOneComes
  <2>3. Cardinality(Coming') = Cardinality(Coming) + 1 /\ Cardinality(Coming) \in Nat
    BY <2>1, <2>2, OneMore, TaskSetsFinite
  <2>4. acquired + Cardinality(Coming) <= acquired' + Cardinality(Coming')
    BY <1>0, <1>1, <2>3 DEF TypeOK
  <2>. QED
    BY <1>1, <1>2, <2>4, StillCovered
<1>. QED
  BY <1>2, <1>3, <1>4, <1>6, <1>7, <1>8 DEF SemaphoreInv, TasksFit

-----------------------------------------------------------------------------
\* Waking from the wait list

\* A listed task is in LockSlowPath, so sleepies_ has counted it.
LEMMA ListedAreCounted ==
    ASSUME SemaphoreInv, waiting # <<>>
    PROVE  sleepies > 0
<1>1. Head(waiting) \in Waiting /\ Head(waiting) \in Tasks
  BY DEF SemaphoreInv, TypeOK, Waiting
<1>. DEFINE slow == {s \in Tasks : InSlowPath(s)}
<1>2. Head(waiting) \in slow
  BY <1>1 DEF SemaphoreInv, TasksFit, Fits, ListFits, Sleeps, InSlowPath, Labels
<1>3. slow \in SUBSET Tasks /\ Cardinality(slow) \in Nat
  BY TaskSetsFinite
<1>. HIDE DEF slow
<1>4. Cardinality(slow) >= 1
  BY <1>2, <1>3, OneLess
<1>. QED
  BY <1>3, <1>4 DEF SemaphoreInv, SleepersExact, slow

\* A task that is woken from the wait list.
LEMMA ListedWakes ==
    ASSUME SemaphoreInv, NEW S, NEW s \in Waiting, s \in S, s \in Tasks, Wakeup(S, "kWaitList"),
           pc'[s] = pc[s], s \notin Waiting',
           UNCHANGED <<epoch, timer, cancellation, cancelEpoch, status>>
    PROVE  Fits(s)' /\ flags'[s] = flags[s] \cup {"kWaitList"}
<1>0. Fits(s) /\ TypeOK
  BY DEF SemaphoreInv, TasksFit
<1>1. pc[s] \in Sleeps \ {"exchange"} /\ status[s] = "kTransientFailure"
  BY <1>0 DEF Fits, ListFits
<1>2. FlagsFit(s)' /\ flags'[s] = flags[s] \cup {"kWaitList"}
  BY <1>0, <1>1, WakeupFits DEF Fits, Sources
<1>3. ListFits(s)' /\ TimerFits(s)' /\ CancelFits(s)'
  BY <1>0, <1>1, <1>2 DEF Fits, ListFits, TimerFits, CancelFits, IsCancellable
<1>. QED
  BY <1>2, <1>3 DEF Fits

LEMMA WakeupOneStep ==
    ASSUME SemaphoreInv, NEW t \in Tasks, WakeupOne(t)
    PROVE  SemaphoreInv'
<1>0. Fits(t) /\ TypeOK
  BY DEF SemaphoreInv, TasksFit
<1>1. /\ pc[t] = "notify" /\ pc' = [pc EXCEPT ![t] = "out"]
      /\ UNCHANGED <<epoch, timer, cancellation, cancelEpoch, acquired, capacity, sleepies, status, locks,
                     resizer, resizes, swallowed>>
  BY DEF WakeupOne
<1>2. /\ AcquiredExact' /\ sleepies' = Cardinality({s \in Tasks : InSlowPath(s)'})
      /\ acquired' \in Nat /\ sleepies' \in Nat
  BY <1>1, MoveCounts DEF Labels, Slow
<1>3. pc'[t] = "out" /\ \A s \in Tasks : s # t => pc'[s] = pc[s]
  BY <1>0, <1>1 DEF TypeOK
<1>4. t \notin Waiting
  BY <1>0, <1>1 DEF Fits, ListFits, Sleeps
<1>5. ASSUME flags'[t] = flags[t], runs'[t] = runs[t], t \notin Waiting' PROVE Fits(t)'
  <2>1. FlagsFit(t)'
    BY <1>0, <1>1, <1>3, <1>5 DEF Fits, FlagsFit, Sleeps
  <2>2. ListFits(t)' /\ TimerFits(t)' /\ CancelFits(t)'
    BY <1>0, <1>1, <1>3, <1>5 DEF Fits, ListFits, TimerFits, CancelFits, Sleeps
  <2>. QED
    BY <2>1, <2>2 DEF Fits
<1>6. CASE waiting = <<>>
  <2>1. UNCHANGED <<flags, runs, waiting>>
    BY <1>6 DEF WakeupOne
  <2>2. TypeOK'
    BY <1>0, <1>1, <2>1 DEF TypeOK, ContextTypeOK, Labels
  <2>3. ASSUME NEW s \in Tasks, s # t PROVE Fits(s)'
    BY <1>1, <2>1, <2>3, OwnStep DEF Waiting
  <2>4. Fits(t)'
    BY <1>4, <1>5, <2>1 DEF Waiting
  <2>5. SleepersExact' /\ UnitsCovered'
    BY <1>2, <1>6, <2>1 DEF SemaphoreInv, SleepersExact, UnitsCovered
  <2>. QED
    BY <1>2, <2>2, <2>3, <2>4, <2>5 DEF SemaphoreInv, TasksFit
<1>7. CASE waiting # <<>>
  <2>0. PICK h : h = Head(waiting)
    OBVIOUS
  <2>1. Wakeup({h}, "kWaitList") /\ waiting' = Tail(waiting)
    BY <1>7, <2>0, ListedAreCounted DEF WakeupOne
  <2>2. /\ waiting' \in Seq(Tasks) /\ h \in Waiting /\ Waiting' = Waiting \ {h}
        /\ \A i, j \in DOMAIN waiting' : waiting'[i] = waiting'[j] => i = j
    BY <1>0, <1>7, <2>0, <2>1, TailTask DEF SemaphoreInv
  <2>3. h \in Tasks /\ h # t
    BY <1>0, <1>4, <2>2 DEF TypeOK, Waiting
  <2>4. /\ flags' \in [Tasks -> SUBSET Flags] /\ runs' \in [Tasks -> Nat]
        /\ \A s \in Tasks : s # h => flags'[s] = flags[s] /\ runs'[s] = runs[s]
    <3>1. flags' \in [Tasks -> SUBSET Flags] /\ runs' \in [Tasks -> Nat]
      BY <1>0, <2>1, WakeupTypes DEF Sources
    <3>2. \A s \in Tasks : s # h => flags'[s] = flags[s] /\ runs'[s] = runs[s]
      BY <2>1 DEF Wakeup
    <3>. QED
      BY <3>1, <3>2
  <2>5. TypeOK'
    BY <1>0, <1>1, <2>2, <2>4 DEF TypeOK, ContextTypeOK, Labels
  <2>6. Fits(t)'
    BY <1>4, <1>5, <2>2, <2>3, <2>4
  <2>7. Fits(h)' /\ flags'[h] = flags[h] \cup {"kWaitList"}
    <3>1. h \in {h} /\ h \notin Waiting' /\ pc'[h] = pc[h]
      BY <1>3, <2>2, <2>3
    <3>. QED
      BY <1>1, <2>1, <2>2, <2>3, <3>1, ListedWakes
  <2>8. ASSUME NEW s \in Tasks, s # t, s # h PROVE Fits(s)'
    BY <1>1, <1>3, <2>2, <2>4, <2>8, OthersFit DEF SemaphoreInv, TasksFit
  <2>9. SleepersExact'
    BY <1>2, <2>2 DEF SleepersExact
  <2>10. UnitsCovered'
    <3>1. pc[h] \in {"yield", "asleep", "awake"} /\ "kWaitList" \notin flags[h]
      BY <2>2, <2>3 DEF SemaphoreInv, TasksFit, Fits, ListFits, Sleeps
    <3>2. t \in Coming /\ t \notin Coming'
      BY <1>1, <1>3 DEF Coming, WillTry
    <3>3. h \notin Coming /\ h \in Coming'
      BY <1>3, <2>3, <2>7, <3>1 DEF Coming, WillTry
    <3>4. \A s \in Tasks : s # t /\ s # h => (s \in Coming' <=> s \in Coming)
      BY <1>3, <2>4 DEF Coming, WillTry
    <3>5. Coming \subseteq Tasks /\ Coming' \subseteq Tasks
      BY DEF Coming
    <3>6. Coming' = (Coming \ {t}) \cup {h}
      BY <2>3, <3>2, <3>3, <3>4, <3>5
    <3>7. Cardinality(Coming \ {t}) = Cardinality(Coming) - 1 /\ Cardinality(Coming) \in Nat
      BY <3>2, <3>5, OneLess, TaskSetsFinite
    <3>8. Cardinality((Coming \ {t}) \cup {h}) = Cardinality(Coming \ {t}) + 1
      BY <2>3, <3>3, <3>5, OneMore
    <3>9. acquired + Cardinality(Coming) <= acquired' + Cardinality(Coming')
      BY <1>0, <1>1, <3>6, <3>7, <3>8 DEF TypeOK
    <3>. QED
      BY <1>1, <1>2, <1>7, <3>9, StillCovered
  <2>. QED
    <3>1. TasksFit'
      BY <2>6, <2>7, <2>8 DEF TasksFit
    <3>. QED
      BY <1>2, <2>5, <2>9, <2>10, <3>1 DEF SemaphoreInv
<1>. QED
  BY <1>6, <1>7

LEMMA WakeupAllStep ==
    ASSUME SemaphoreInv, WakeupAll
    PROVE  SemaphoreInv'
<1>0. TypeOK
  BY DEF SemaphoreInv
<1>1. /\ resizer' = "idle"
      /\ UNCHANGED <<pc, epoch, timer, cancellation, cancelEpoch, acquired, capacity, sleepies, status, locks,
                     resizes, swallowed>>
  BY DEF WakeupAll
<1>2. waiting' = <<>> /\ Waiting' = {} /\ waiting' \in Seq(Tasks) /\ DOMAIN waiting' = {}
  <2>1. waiting' = <<>>
    BY ListedAreCounted DEF WakeupAll
  <2>. QED
    BY <2>1 DEF Waiting
<1>3. ASSUME Wakeup(Waiting, "kWaitList")
      PROVE  TasksFit' /\ flags' \in [Tasks -> SUBSET Flags] /\ runs' \in [Tasks -> Nat]
  <2>1. flags' \in [Tasks -> SUBSET Flags] /\ runs' \in [Tasks -> Nat]
    BY <1>0, <1>3, WakeupTypes DEF Sources
  <2>2. ASSUME NEW s \in Tasks PROVE Fits(s)'
    <3>1. CASE s \in Waiting
      BY <1>1, <1>2, <1>3, <3>1, ListedWakes
    <3>2. CASE s \notin Waiting
      <4>1. flags'[s] = flags[s] /\ runs'[s] = runs[s]
        BY <1>3, <3>2 DEF Wakeup
      <4>. QED
        BY <1>1, <1>2, <3>2, <4>1, OthersFit DEF SemaphoreInv, TasksFit
    <3>. QED
      BY <3>1, <3>2
  <2>. QED
    BY <2>1, <2>2 DEF TasksFit
<1>4. ASSUME UNCHANGED <<flags, runs, waiting>>
      PROVE  TasksFit' /\ flags' \in [Tasks -> SUBSET Flags] /\ runs' \in [Tasks -> Nat]
  <2>1. flags' \in [Tasks -> SUBSET Flags] /\ runs' \in [Tasks -> Nat]
    BY <1>0, <1>4 DEF TypeOK, ContextTypeOK
  <2>2. ASSUME NEW s \in Tasks PROVE Fits(s)'
    BY <1>1, <1>4, OthersFit DEF SemaphoreInv, TasksFit, Waiting
  <2>. QED
    BY <2>1, <2>2 DEF TasksFit
<1>5. TasksFit' /\ flags' \in [Tasks -> SUBSET Flags] /\ runs' \in [Tasks -> Nat]
  BY <1>3, <1>4 DEF WakeupAll
<1>6. TypeOK'
  BY <1>0, <1>1, <1>2, <1>5 DEF TypeOK, ContextTypeOK
<1>7. AcquiredExact' /\ SleepersExact' /\ UnitsCovered'
  BY <1>1, <1>2 DEF SemaphoreInv, AcquiredExact, SleepersExact, InSlowPath, UnitsCovered
<1>. QED
  BY <1>5, <1>6, <1>7 DEF SemaphoreInv

LEMMA SetCapacityStep ==
    ASSUME SemaphoreInv, NEW c \in Capacities, SetCapacity(c)
    PROVE  SemaphoreInv'
<1>0. TypeOK
  BY DEF SemaphoreInv
<1>1. /\ resizer' = "notify" /\ capacity' = c /\ resizes < MaxResizes /\ resizes' = resizes + 1
      /\ UNCHANGED <<pc, flags, epoch, runs, timer, cancellation, cancelEpoch, acquired, sleepies, waiting,
                     status, locks, swallowed>>
  BY DEF SetCapacity, contextVars
<1>2. TypeOK'
  BY <1>0, <1>1, SemaphoreAssumption DEF TypeOK, ContextTypeOK
<1>3. ASSUME NEW s \in Tasks PROVE Fits(s)'
  BY <1>1, OthersFit DEF SemaphoreInv, TasksFit, Waiting
<1>4. AcquiredExact' /\ SleepersExact' /\ UnitsCovered'
  BY <1>1 DEF SemaphoreInv, AcquiredExact, SleepersExact, InSlowPath, UnitsCovered
<1>. QED
  BY <1>2, <1>3, <1>4 DEF SemaphoreInv, TasksFit

-----------------------------------------------------------------------------
LEMMA InitSemaphore ==
    ASSUME Init
    PROVE  SemaphoreInv
<1>1. TypeOK
  <2>1. ContextTypeOK
    BY DEF Init, ContextInit, ContextTypeOK, NoTimer
  <2>2. /\ pc \in [Tasks -> Labels] /\ status \in [Tasks -> {"kTransientFailure", "kPermanentFailure"}]
        /\ locks \in [Tasks -> 0..MaxLocks]
    BY SemaphoreAssumption DEF Init, Labels
  <2>3. waiting \in Seq(Tasks) /\ capacity \in Nat /\ resizes \in 0..MaxResizes
    BY SemaphoreAssumption DEF Init
  <2>. QED
    BY <2>1, <2>2, <2>3 DEF Init, TypeOK
<1>2. waiting = <<>> /\ Waiting = {} /\ DOMAIN waiting = {}
  BY DEF Init, Waiting
<1>3. ASSUME NEW t \in Tasks PROVE Fits(t)
  <2>1. /\ pc[t] = "out" /\ flags[t] = {} /\ epoch[t] = 1 /\ runs[t] = 0 /\ timer[t] = 0
        /\ status[t] = "kTransientFailure"
    BY DEF Init, ContextInit, NoTimer
  <2>2. FlagsFit(t) /\ ListFits(t)
    BY <1>2, <2>1 DEF FlagsFit, ListFits, Sleeps
  <2>3. TimerFits(t) /\ CancelFits(t)
    BY <2>1 DEF TimerFits, CancelFits, Sleeps
  <2>. QED
    BY <2>2, <2>3 DEF Fits
<1>4. AcquiredExact /\ SleepersExact
  <2>1. {t \in Tasks : pc[t] = "in"} = {} /\ {t \in Tasks : InSlowPath(t)} = {}
    BY DEF Init, InSlowPath
  <2>. QED
    BY <1>2, <2>1, FS_EmptySet DEF Init, AcquiredExact, SleepersExact
<1>5. UnitsCovered
  BY <1>2 DEF UnitsCovered
<1>. QED
  BY <1>1, <1>3, <1>4, <1>5 DEF SemaphoreInv, TasksFit

LEMMA SemaphoreStep ==
    ASSUME SemaphoreInv, [Next]_vars
    PROVE  SemaphoreInv'
<1>1. CASE \E t \in Tasks : LockFastPath(t) \/ Step(t) \/ Cancel(t) \/ FinishCancel(t)
  <2>1. PICK t \in Tasks : LockFastPath(t) \/ Step(t) \/ Cancel(t) \/ FinishCancel(t)
    BY <1>1
  <2>2. CASE LockFastPath(t) \/ Cancel(t) \/ FinishCancel(t)
    BY <2>2, LockFastPathStep, CancelStep, FinishCancelStep
  <2>3. CASE Engine(t)
    BY <2>3, SuspendStep, ResumeStep, TimerStep DEF Engine
  <2>4. CASE Sleep(t) \/ SetupWakeups(t) \/ AppendWaiter(t) \/ DisableWakeups(t)
    BY <2>4, SleepStep, SetupWakeupsStep, AppendWaiterStep, DisableWakeupsStep
  <2>5. CASE LockSlowPath(t) \/ unlock_shared(t) \/ WakeupOne(t)
    BY <2>5, LockSlowPathStep, UnlockStep, WakeupOneStep
  <2>. QED
    BY <2>1, <2>2, <2>3, <2>4, <2>5 DEF Step
<1>2. CASE \E c \in Capacities : SetCapacity(c)
  BY <1>2, SetCapacityStep
<1>3. CASE WakeupAll
  BY <1>3, WakeupAllStep
<1>4. CASE UNCHANGED vars
  <2>1. UNCHANGED <<pc, flags, epoch, runs, timer, cancellation, cancelEpoch>> /\ UNCHANGED semaphoreVars
    BY <1>4 DEF vars, contextVars
  <2>2. TypeOK'
    BY <2>1 DEF SemaphoreInv, TypeOK, ContextTypeOK, semaphoreVars
  <2>3. TasksFit'
    <3>. SUFFICES ASSUME NEW s \in Tasks PROVE Fits(s)'
      BY DEF TasksFit
    <3>. QED
      BY <2>1, OthersFit DEF SemaphoreInv, TasksFit, semaphoreVars, Waiting
  <2>4. AcquiredExact' /\ SleepersExact' /\ UnitsCovered'
    BY <2>1, SemaphoreAlone
  <2>. QED
    BY <2>2, <2>3, <2>4 DEF SemaphoreInv
<1>. QED
  BY <1>1, <1>2, <1>3, <1>4 DEF Next

\* Whatever the tasks, the timers, a cancellation and SetCapacity do, and in
\* whatever order, the inductive invariant holds: sleep_state_, the wait list,
\* sleepies_ and acquired_locks_ stay in step with where every task is.
THEOREM SemaphoreInvariant == Spec => []SemaphoreInv
<1>1. Init => SemaphoreInv
  BY InitSemaphore
<1>2. SemaphoreInv /\ [Next]_vars => SemaphoreInv'
  BY SemaphoreStep
<1>. QED
  BY <1>1, <1>2, PTL DEF Spec

\* The atomics, the wait list and the labels of the tasks keep their types; in
\* particular acquired_locks_ and sleepies_ never go below zero.
THEOREM TypeCorrect == Spec => []TypeOK
<1>1. SemaphoreInv => TypeOK
  BY DEF SemaphoreInv
<1>. QED
  BY <1>1, SemaphoreInvariant, PTL

\* acquired_locks_ is the number of tasks that hold a unit, for any number of
\* tasks and any capacities.
THEOREM UnitsAreCounted == Spec => []AcquiredExact
<1>1. SemaphoreInv => AcquiredExact
  BY DEF SemaphoreInv
<1>. QED
  BY <1>1, SemaphoreInvariant, PTL

\* Schedule is called once per sleep, however many wakeups reach it, and every
\* sleep that ends has a reason for GetPrimaryWakeupSource.
THEOREM SleepsAreScheduledOnce == Spec => []ScheduledOnce
<1>1. SemaphoreInv => ScheduledOnce
  <2>. SUFFICES ASSUME SemaphoreInv, NEW t \in Tasks
                PROVE  /\ runs[t] <= 1
                       /\ runs[t] = 1 => pc[t] = "asleep"
                       /\ pc[t] = "exchange" => GetPrimaryWakeupSource(flags[t]) # "kNone"
    BY DEF ScheduledOnce
  <2>1. FlagsFit(t)
    BY DEF SemaphoreInv, TasksFit, Fits
  <2>2. runs[t] <= 1 /\ (runs[t] = 1 => pc[t] = "asleep")
    BY <2>1 DEF FlagsFit
  <2>3. pc[t] = "exchange" => GetPrimaryWakeupSource(flags[t]) # "kNone"
    BY <2>1, EffectiveIff DEF FlagsFit, GetPrimaryWakeupSource
  <2>. QED
    BY <2>2, <2>3
<1>. QED
  BY <1>1, SemaphoreInvariant, PTL

\* While a task is blocked in the wait list every free unit has somebody on the
\* way to it, whatever wakeups, timeouts and cancellations raced before.
THEOREM NoWakeupIsLost == Spec => []NoLostWakeup
<1>1. SemaphoreInv => NoLostWakeup
  <2>. SUFFICES ASSUME SemaphoreInv, NEW t \in Waiting
                PROVE  \/ capacity <= acquired + Cardinality({s \in Tasks : pc[s] = "notify" \/ WillTry(s)})
                       \/ resizer = "notify" \/ swallowed
    BY DEF NoLostWakeup
  <2>1. waiting # <<>>
    BY DEF Waiting
  <2>. QED
    BY <2>1 DEF SemaphoreInv, UnitsCovered, Coming
<1>. QED
  BY <1>1, SemaphoreInvariant, PTL

\* Nobody sleeps outside the wait list, except after a permanent failure.
THEOREM SleepersAreListed == Spec => []AsleepIsListed
<1>1. SemaphoreInv => AsleepIsListed
  <2>. SUFFICES ASSUME SemaphoreInv, NEW t \in Tasks, Blocked(t)
                PROVE  t \in Waiting \/ status[t] = "kPermanentFailure"
    BY DEF AsleepIsListed
  <2>1. pc[t] = "asleep" /\ runs[t] = 0 /\ FlagsFit(t) /\ ListFits(t)
    BY DEF Blocked, SemaphoreInv, TasksFit, Fits
  <2>2. "kWaitList" \notin flags[t]
    BY <2>1, EffectiveIff DEF FlagsFit
  <2>. QED
    BY <2>1, <2>2 DEF ListFits
<1>. QED
  BY <1>1, SemaphoreInvariant, PTL

\* A finished RequestCancel leaves no task asleep that honours cancellation,
\* wherever the task was between its three steps.
THEOREM CancellationsAreDelivered == Spec => []CancelDelivered
<1>1. SemaphoreInv => CancelDelivered
  <2>. SUFFICES ASSUME SemaphoreInv, NEW t \in Tasks, cancellation[t] = "sent", IsCancellable(t)
                PROVE  ~Blocked(t) /\ (pc[t] = "yield" => flags[t] \cap Sources # {})
    BY DEF CancelDelivered
  <2>1. FlagsFit(t) /\ CancelFits(t)
    BY DEF SemaphoreInv, TasksFit, Fits
  <2>2. pc[t] \in Sleeps => "kCancelRequest" \in flags[t]
    BY <2>1 DEF CancelFits
  <2>3. ~Blocked(t)
    BY <2>1, <2>2, EffectiveIff DEF FlagsFit, Blocked, Sleeps
  <2>. QED
    BY <2>2, <2>3 DEF Sleeps, Sources
<1>. QED
  BY <1>1, SemaphoreInvariant, PTL

\* No sleep is ended by the timer of an earlier one.
THEOREM TimeoutsAreOwn == Spec => []TimeoutIsOwn
<1>1. SemaphoreInv => TimeoutIsOwn
  BY DEF SemaphoreInv, TasksFit, Fits, TimerFits, TimeoutIsOwn
<1>. QED
  BY <1>1, SemaphoreInvariant, PTL
=============================================================================
