---------------------------- MODULE PgPoolProofs ----------------------------
(***************************************************************************)
(* Proof that userver's pool of PostgreSQL connections keeps its accounts, *)
(* its owners, its wait list and its destructor in order, for any finite   *)
(* set of requests, any settings and limits, and any number of failures,   *)
(* cancellations and updates.                                              *)
(***************************************************************************)
EXTENDS PgPool, FiniteSetTheorems, SequenceTheorems, TLAPS

-----------------------------------------------------------------------------
\* The constants

LEMMA Sizes ==
    /\ LargestSize \in Nat
    /\ \A s \in NewSettings \cup {InitialSettings} : s.max_size <= LargestSize
    /\ PendingConnectsMax \in Nat /\ IdleDropLimit \in Nat /\ MaxUpdates \in Nat /\ MaxFaults \in Nat
<1>. DEFINE all == NewSettings \cup {InitialSettings}
             sizes == {s.max_size : s \in all}
<1>1. PICK s \in all : \A other \in all : other.max_size <= s.max_size
  BY PoolAssumption
<1>2. s.max_size \in sizes /\ \A m \in sizes : m <= s.max_size
  BY <1>1
<1>3. LargestSize \in sizes /\ \A m \in sizes : m <= LargestSize
  BY <1>2 DEF LargestSize
<1>4. \A other \in all : other.max_size \in Nat
  BY PoolAssumption DEF PoolSettings
<1>5. LargestSize \in Nat
  BY <1>3, <1>4
<1>6. \A other \in all : other.max_size \in sizes
  OBVIOUS
<1>7. PendingConnectsMax \in Nat /\ IdleDropLimit \in Nat /\ MaxUpdates \in Nat /\ MaxFaults \in Nat
  BY PoolAssumption
<1>. QED
  BY <1>3, <1>5, <1>6, <1>7

LEMMA SizesFit ==
    ASSUME TypeOK, Bounded
    PROVE  /\ sizeUsed \in Nat /\ settings.max_size \in Nat /\ LargestSize \in Nat
           /\ sizeUsed <= LargestSize /\ settings.max_size <= LargestSize
<1>1. settings \in PoolSettings /\ sizeUsed \in Nat
  BY DEF TypeOK
<1>2. settings.max_size \in Nat
  BY <1>1 DEF PoolSettings
<1>. QED
  BY <1>1, <1>2, Sizes DEF Bounded

LEMMA ConnectionsFinite ==
    /\ IsFiniteSet(Connections)
    /\ Cardinality(Connections) = LargestSize + PendingConnectsMax + 1
    /\ Connections \subseteq Nat \ {0}
<1>1. LargestSize + PendingConnectsMax + 1 \in Nat
  BY Sizes
<1>2. /\ IsFiniteSet(1..(LargestSize + PendingConnectsMax + 1))
      /\ Cardinality(1..(LargestSize + PendingConnectsMax + 1)) = LargestSize + PendingConnectsMax + 1
  BY <1>1, FS_Interval
<1>. QED
  BY <1>1, <1>2 DEF Connections

-----------------------------------------------------------------------------
\* Counting

LEMMA FiniteSets ==
    ASSUME NEW S, S \subseteq Connections \/ S \subseteq Requests
    PROVE  IsFiniteSet(S) /\ Cardinality(S) \in Nat
  BY PoolAssumption, ConnectionsFinite, FS_Subset, FS_CardinalityType

LEMMA OneMore ==
    ASSUME NEW S, IsFiniteSet(S), NEW x, x \notin S
    PROVE  Cardinality(S \cup {x}) = Cardinality(S) + 1 /\ Cardinality(S) \in Nat
  BY FS_AddElement, FS_CardinalityType

LEMMA OneLess ==
    ASSUME NEW S, IsFiniteSet(S), NEW x \in S
    PROVE  Cardinality(S \ {x}) = Cardinality(S) - 1 /\ Cardinality(S) \in Nat /\ Cardinality(S) >= 1
<1>1. IsFiniteSet(S) /\ Cardinality(S) \in Nat /\ IsFiniteSet(S \ {x}) /\ Cardinality(S \ {x}) \in Nat
  BY FS_Subset, FS_CardinalityType
<1>2. Cardinality(S \ {x}) = Cardinality(S) - 1
  BY <1>1, FS_RemoveElement
<1>. QED
  BY <1>1, <1>2

\* The connections at some stages, the requests at some labels.
AtStages(S) == {k \in Connections : stage[k] \in S}
AtLabels(L) == {r \in Requests : pc[r] \in L}

\* When one connection moves.
LEMMA StageCount ==
    ASSUME TypeOK, NEW k \in Connections, NEW s, stage' = [stage EXCEPT ![k] = s], NEW S
    PROVE  /\ Cardinality(AtStages(S)) \in Nat
           /\ (stage[k] \in S <=> s \in S) => Cardinality(AtStages(S))' = Cardinality(AtStages(S))
           /\ stage[k] \in S /\ s \notin S => /\ Cardinality(AtStages(S))' = Cardinality(AtStages(S)) - 1
                                              /\ Cardinality(AtStages(S)) >= 1
           /\ stage[k] \notin S /\ s \in S => Cardinality(AtStages(S))' = Cardinality(AtStages(S)) + 1
<1>0. IsFiniteSet(AtStages(S)) /\ Cardinality(AtStages(S)) \in Nat
  BY FiniteSets DEF AtStages
<1>1. stage'[k] = s /\ \A j \in Connections : j # k => stage'[j] = stage[j]
  BY DEF TypeOK
<1>2. (stage[k] \in S <=> s \in S) => AtStages(S)' = AtStages(S)
  BY <1>1 DEF AtStages
<1>3. stage[k] \in S /\ s \notin S => k \in AtStages(S) /\ AtStages(S)' = AtStages(S) \ {k}
  BY <1>1 DEF AtStages
<1>4. stage[k] \notin S /\ s \in S => k \notin AtStages(S) /\ AtStages(S)' = AtStages(S) \cup {k}
  BY <1>1 DEF AtStages
<1>. QED
  BY <1>0, <1>2, <1>3, <1>4, OneMore, OneLess

\* When one request moves.
LEMMA LabelCount ==
    ASSUME TypeOK, NEW r \in Requests, NEW l, pc' = [pc EXCEPT ![r] = l], NEW L
    PROVE  /\ Cardinality(AtLabels(L)) \in Nat
           /\ (pc[r] \in L <=> l \in L) => Cardinality(AtLabels(L))' = Cardinality(AtLabels(L))
           /\ pc[r] \in L /\ l \notin L => /\ Cardinality(AtLabels(L))' = Cardinality(AtLabels(L)) - 1
                                           /\ Cardinality(AtLabels(L)) >= 1
           /\ pc[r] \notin L /\ l \in L => Cardinality(AtLabels(L))' = Cardinality(AtLabels(L)) + 1
<1>0. IsFiniteSet(AtLabels(L)) /\ Cardinality(AtLabels(L)) \in Nat
  BY FiniteSets DEF AtLabels
<1>1. pc'[r] = l /\ \A q \in Requests : q # r => pc'[q] = pc[q]
  BY DEF TypeOK
<1>2. (pc[r] \in L <=> l \in L) => AtLabels(L)' = AtLabels(L)
  BY <1>1 DEF AtLabels
<1>3. pc[r] \in L /\ l \notin L => r \in AtLabels(L) /\ AtLabels(L)' = AtLabels(L) \ {r}
  BY <1>1 DEF AtLabels
<1>4. pc[r] \notin L /\ l \in L => r \notin AtLabels(L) /\ AtLabels(L)' = AtLabels(L) \cup {r}
  BY <1>1 DEF AtLabels
<1>. QED
  BY <1>0, <1>2, <1>3, <1>4, OneMore, OneLess

UnitStages == Stages \ {"none", "lock"}
UsedStages == {"held", "cleanup", "pinged"}
WaitLabels == {"full", "create", "wait", "asleep"}

\* The accounts as counts of stages and labels.
LEMMA AccountsIff ==
    ASSUME TypeOK
    PROVE  AccountsExact <=> /\ sizeUsed = Cardinality(AtStages(UnitStages))
                             /\ used = Cardinality(AtStages(UsedStages))
                             /\ waitCount = Cardinality(AtLabels(WaitLabels))
<1>1. {k \in Connections : stage[k] \notin {"none", "lock"}} = AtStages(UnitStages)
  BY DEF TypeOK, AtStages, UnitStages
<1>2. In("held") \cup In("cleanup") \cup In("pinged") = AtStages(UsedStages)
  BY DEF In, AtStages, UsedStages
<1>3. {r \in Requests : pc[r] = "full"} \cup Queued = AtLabels(WaitLabels)
  BY DEF Queued, AtLabels, WaitLabels
<1>. QED
  BY <1>1, <1>2, <1>3 DEF AccountsExact

LEMMA AccountsPrimed ==
    ASSUME TypeOK'
    PROVE  AccountsExact' <=> /\ sizeUsed' = Cardinality(AtStages(UnitStages))'
                              /\ used' = Cardinality(AtStages(UsedStages))'
                              /\ waitCount' = Cardinality(AtLabels(WaitLabels))'
<1>1. {k \in Connections : stage'[k] \notin {"none", "lock"}} = AtStages(UnitStages)'
  BY DEF TypeOK, AtStages, UnitStages
<1>2. (In("held") \cup In("cleanup") \cup In("pinged"))' = AtStages(UsedStages)'
  BY DEF In, AtStages, UsedStages
<1>3. ({r \in Requests : pc[r] = "full"} \cup Queued)' = AtLabels(WaitLabels)'
  BY DEF Queued, AtLabels, WaitLabels
<1>. QED
  BY <1>1, <1>2, <1>3 DEF AccountsExact
-----------------------------------------------------------------------------
\* The wait list

\* push_back of a request that is not linked yet.
LEMMA AppendRequest ==
    ASSUME TypeOK, SleepersFit, NEW r \in Requests, r \notin Sleeping, sleepers' = Append(sleepers, r)
    PROVE  /\ sleepers' \in Seq(Requests)
           /\ Sleeping' = Sleeping \cup {r}
           /\ \A i, j \in DOMAIN sleepers' : sleepers'[i] = sleepers'[j] => i = j
<1>1. sleepers \in Seq(Requests) /\ DOMAIN sleepers = 1..Len(sleepers) /\ Len(sleepers) \in Nat
  BY DEF TypeOK
<1>2. /\ sleepers' \in Seq(Requests) /\ DOMAIN sleepers' = 1..(Len(sleepers) + 1)
      /\ \A i \in 1..Len(sleepers) : sleepers'[i] = sleepers[i]
      /\ sleepers'[Len(sleepers) + 1] = r
  BY <1>1, AppendProperties
<1>3. \A i \in 1..Len(sleepers) : sleepers[i] # r
  BY <1>1 DEF Sleeping
<1>4. \A i \in 1..(Len(sleepers) + 1) : i \in 1..Len(sleepers) \/ i = Len(sleepers) + 1
  BY <1>1
<1>5. Sleeping' = Sleeping \cup {r}
  <2>1. Sleeping' \subseteq Sleeping \cup {r}
    BY <1>1, <1>2, <1>4 DEF Sleeping
  <2>2. r \in Sleeping'
    BY <1>1, <1>2 DEF Sleeping
  <2>3. Sleeping \subseteq Sleeping'
    <3>. SUFFICES ASSUME NEW i \in DOMAIN sleepers PROVE sleepers[i] \in Sleeping'
      BY DEF Sleeping
    <3>1. i \in DOMAIN sleepers' /\ sleepers'[i] = sleepers[i]
      BY <1>1, <1>2
    <3>. QED
      BY <3>1 DEF Sleeping
  <2>. QED
    BY <2>1, <2>2, <2>3
<1>6. \A i, j \in DOMAIN sleepers' : sleepers'[i] = sleepers'[j] => i = j
  BY <1>1, <1>2, <1>3, <1>4 DEF SleepersFit
<1>. QED
  BY <1>2, <1>5, <1>6

LEMMA SleepersSleep ==
    ASSUME TypeOK, SleepersFit
    PROVE  Sleeping \subseteq Requests /\ \A r \in Sleeping : pc[r] = "asleep"
<1>1. sleepers \in Seq(Requests)
  BY DEF TypeOK
<1>2. Sleeping \subseteq Requests
  BY <1>1 DEF Sleeping
<1>. QED
  BY <1>2 DEF SleepersFit

\* pop_front.
LEMMA TailRequest ==
    ASSUME TypeOK, SleepersFit, sleepers # <<>>, sleepers' = Tail(sleepers)
    PROVE  /\ sleepers' \in Seq(Requests)
           /\ Head(sleepers) \in Sleeping
           /\ Sleeping' = Sleeping \ {Head(sleepers)}
           /\ \A i, j \in DOMAIN sleepers' : sleepers'[i] = sleepers'[j] => i = j
<1>1. sleepers \in Seq(Requests) /\ DOMAIN sleepers = 1..Len(sleepers) /\ Len(sleepers) \in Nat \ {0}
  BY DEF TypeOK
<1>2. /\ sleepers' \in Seq(Requests) /\ DOMAIN sleepers' = 1..(Len(sleepers) - 1)
      /\ \A i \in 1..(Len(sleepers) - 1) : sleepers'[i] = sleepers[i + 1]
      /\ Head(sleepers) = sleepers[1]
  BY <1>1, HeadTailProperties
<1>3. Head(sleepers) \in Sleeping
  BY <1>1, <1>2 DEF Sleeping
<1>4. ASSUME NEW i \in DOMAIN sleepers' PROVE sleepers'[i] \in Sleeping /\ sleepers'[i] # Head(sleepers)
  <2>1. i + 1 \in DOMAIN sleepers /\ i + 1 # 1 /\ 1 \in DOMAIN sleepers /\ sleepers'[i] = sleepers[i + 1]
    BY <1>1, <1>2
  <2>. QED
    BY <1>2, <2>1 DEF Sleeping, SleepersFit
<1>5. ASSUME NEW i \in DOMAIN sleepers, sleepers[i] # Head(sleepers) PROVE sleepers[i] \in Sleeping'
  <2>1. i - 1 \in DOMAIN sleepers' /\ sleepers'[i - 1] = sleepers[i]
    BY <1>1, <1>2, <1>5
  <2>. QED
    BY <2>1 DEF Sleeping
<1>6. Sleeping' = Sleeping \ {Head(sleepers)}
  BY <1>4, <1>5 DEF Sleeping
<1>7. \A i, j \in DOMAIN sleepers' : sleepers'[i] = sleepers'[j] => i = j
  <2>. SUFFICES ASSUME NEW i \in DOMAIN sleepers', NEW j \in DOMAIN sleepers', sleepers'[i] = sleepers'[j]
                PROVE  i = j
    OBVIOUS
  <2>1. i + 1 \in DOMAIN sleepers /\ j + 1 \in DOMAIN sleepers /\ sleepers[i + 1] = sleepers[j + 1]
    BY <1>1, <1>2
  <2>2. i + 1 = j + 1
    BY <2>1 DEF SleepersFit
  <2>. QED
    BY <1>1, <1>2, <2>2
<1>. QED
  BY <1>2, <1>3, <1>6, <1>7

\* unlink.
LEMMA UnlinkRequest ==
    ASSUME TypeOK, SleepersFit, NEW r \in Requests, sleepers' = Unlink(sleepers, r)
    PROVE  /\ sleepers' \in Seq(Requests)
           /\ Sleeping' = Sleeping \ {r}
           /\ \A i, j \in DOMAIN sleepers' : sleepers'[i] = sleepers'[j] => i = j
<1>0. sleepers \in Seq(Requests) /\ DOMAIN sleepers = 1..Len(sleepers) /\ Len(sleepers) \in Nat
  BY DEF TypeOK
<1>1. CASE r \notin Sleeping
  <2>1. sleepers' = sleepers
    BY <1>1 DEF Unlink, Sleeping
  <2>2. Sleeping' = Sleeping /\ Sleeping \ {r} = Sleeping
    BY <1>1, <2>1 DEF Sleeping
  <2>. QED
    BY <1>0, <2>1, <2>2 DEF SleepersFit
<1>2. CASE r \in Sleeping
  <2>. DEFINE n  == Len(sleepers) - 1
              at == CHOOSE i \in DOMAIN sleepers : sleepers[i] = r
              f  == [i \in 1..n |-> IF i < at THEN sleepers[i] ELSE sleepers[i + 1]]
  <2>1. \E i \in DOMAIN sleepers : sleepers[i] = r
    BY <1>2 DEF Sleeping
  <2>2. at \in DOMAIN sleepers /\ sleepers[at] = r
    BY <2>1
  <2>3. sleepers' = f
    BY <2>1 DEF Unlink
  <2>. HIDE DEF at
  <2>4. n \in Nat /\ at \in 1..(n + 1) /\ DOMAIN sleepers = 1..(n + 1)
    BY <1>0, <2>2
  <2>. HIDE DEF n
  <2>5. \A i \in 1..(n + 1) : sleepers[i] \in Requests
    BY <1>0, <2>4
  <2>6. /\ DOMAIN sleepers' = 1..n
        /\ \A i \in 1..n : sleepers'[i] = IF i < at THEN sleepers[i] ELSE sleepers[i + 1]
    BY <2>3
  <2>7. \A i \in 1..n : sleepers'[i] \in Requests
    BY <2>4, <2>5, <2>6
  <2>8. sleepers' \in Seq(Requests)
    <3>1. sleepers' \in [1..n -> Requests]
      BY <2>3, <2>6, <2>7
    <3>. QED
      BY <2>4, <3>1, SeqDef
  <2>9. \A i, j \in 1..(n + 1) : sleepers[i] = sleepers[j] => i = j
    BY <2>4 DEF SleepersFit
  <2>10. ASSUME NEW i \in 1..n PROVE sleepers'[i] \in Sleeping /\ sleepers'[i] # r
    <3>1. CASE i < at
      <4>1. i \in 1..(n + 1) /\ i # at /\ sleepers'[i] = sleepers[i]
        BY <2>4, <2>6, <3>1
      <4>. QED
        BY <2>2, <2>4, <2>9, <4>1 DEF Sleeping
    <3>2. CASE ~(i < at)
      <4>1. i + 1 \in 1..(n + 1) /\ i + 1 # at /\ sleepers'[i] = sleepers[i + 1]
        BY <2>4, <2>6, <3>2
      <4>. QED
        BY <2>2, <2>4, <2>9, <4>1 DEF Sleeping
    <3>. QED
      BY <3>1, <3>2
  <2>11. ASSUME NEW i \in 1..(n + 1), sleepers[i] # r PROVE sleepers[i] \in Sleeping'
    <3>0. i # at
      BY <2>2, <2>11
    <3>1. CASE i < at
      <4>1. i \in 1..n /\ sleepers'[i] = sleepers[i]
        BY <2>4, <2>6, <3>1
      <4>. QED
        BY <2>6, <4>1 DEF Sleeping
    <3>2. CASE ~(i < at)
      <4>1. i - 1 \in 1..n /\ sleepers'[i - 1] = sleepers[i]
        BY <2>4, <2>6, <3>0, <3>2
      <4>. QED
        BY <2>6, <4>1 DEF Sleeping
    <3>. QED
      BY <3>1, <3>2
  <2>12. Sleeping' = Sleeping \ {r}
    BY <2>4, <2>6, <2>10, <2>11 DEF Sleeping
  <2>13. \A i, j \in 1..n : sleepers'[i] = sleepers'[j] => i = j
    BY <2>4, <2>6, <2>9
  <2>. QED
    BY <2>6, <2>8, <2>12, <2>13
<1>. QED
  BY <1>1, <1>2

-----------------------------------------------------------------------------
\* What a step keeps

\* The two semaphores' accounts when one connection moves.
LEMMA UnitsMove ==
    ASSUME TypeOK, AccountsExact, NEW k \in Connections, NEW s \in Stages, stage' = [stage EXCEPT ![k] = s],
           (stage[k] \in UnitStages <=> s \in UnitStages) => sizeUsed' = sizeUsed,
           stage[k] \in UnitStages /\ s \notin UnitStages => sizeUsed' = sizeUsed - 1,
           stage[k] \notin UnitStages /\ s \in UnitStages => sizeUsed' = sizeUsed + 1,
           (stage[k] \in UsedStages <=> s \in UsedStages) => used' = used,
           stage[k] \in UsedStages /\ s \notin UsedStages => used' = used - 1,
           stage[k] \notin UsedStages /\ s \in UsedStages => used' = used + 1
    PROVE  /\ stage' \in [Connections -> Stages]
           /\ sizeUsed' \in Nat /\ sizeUsed' = Cardinality(AtStages(UnitStages))'
           /\ used' \in Nat /\ used' = Cardinality(AtStages(UsedStages))'
<1>0. stage' \in [Connections -> Stages]
  BY DEF TypeOK
<1>1. sizeUsed = Cardinality(AtStages(UnitStages)) /\ used = Cardinality(AtStages(UsedStages))
  BY AccountsIff
<1>2. sizeUsed' \in Nat /\ sizeUsed' = Cardinality(AtStages(UnitStages))'
  <2>1. PICK S : S = UnitStages
    OBVIOUS
  <2>2. /\ Cardinality(AtStages(S)) \in Nat
        /\ (stage[k] \in S <=> s \in S) => Cardinality(AtStages(S))' = Cardinality(AtStages(S))
        /\ stage[k] \in S /\ s \notin S => /\ Cardinality(AtStages(S))' = Cardinality(AtStages(S)) - 1
                                           /\ Cardinality(AtStages(S)) >= 1
        /\ stage[k] \notin S /\ s \in S => Cardinality(AtStages(S))' = Cardinality(AtStages(S)) + 1
    BY StageCount
  <2>. QED
    BY <1>1, <2>1, <2>2
<1>3. used' \in Nat /\ used' = Cardinality(AtStages(UsedStages))'
  <2>1. PICK S : S = UsedStages
    OBVIOUS
  <2>2. /\ Cardinality(AtStages(S)) \in Nat
        /\ (stage[k] \in S <=> s \in S) => Cardinality(AtStages(S))' = Cardinality(AtStages(S))
        /\ stage[k] \in S /\ s \notin S => /\ Cardinality(AtStages(S))' = Cardinality(AtStages(S)) - 1
                                           /\ Cardinality(AtStages(S)) >= 1
        /\ stage[k] \notin S /\ s \in S => Cardinality(AtStages(S))' = Cardinality(AtStages(S)) + 1
    BY StageCount
  <2>. QED
    BY <1>1, <2>1, <2>2
<1>. QED
  BY <1>0, <1>2, <1>3

LEMMA UnitsStay ==
    ASSUME TypeOK, AccountsExact, UNCHANGED <<stage, sizeUsed, used>>
    PROVE  /\ stage' \in [Connections -> Stages]
           /\ sizeUsed' \in Nat /\ sizeUsed' = Cardinality(AtStages(UnitStages))'
           /\ used' \in Nat /\ used' = Cardinality(AtStages(UsedStages))'
<1>1. sizeUsed = Cardinality(AtStages(UnitStages)) /\ used = Cardinality(AtStages(UsedStages))
  BY AccountsIff
<1>. QED
  BY <1>1 DEF TypeOK, AtStages

\* wait_count_ when one request moves.
LEMMA WaitMoves ==
    ASSUME TypeOK, AccountsExact, NEW r \in Requests, NEW l \in Labels, pc' = [pc EXCEPT ![r] = l],
           (pc[r] \in WaitLabels <=> l \in WaitLabels) => waitCount' = waitCount,
           pc[r] \in WaitLabels /\ l \notin WaitLabels => waitCount' = waitCount - 1,
           pc[r] \notin WaitLabels /\ l \in WaitLabels => waitCount' = waitCount + 1
    PROVE  /\ pc' \in [Requests -> Labels]
           /\ waitCount' \in Nat /\ waitCount' = Cardinality(AtLabels(WaitLabels))'
<1>0. pc' \in [Requests -> Labels]
  BY DEF TypeOK
<1>1. waitCount = Cardinality(AtLabels(WaitLabels))
  BY AccountsIff
<1>2. PICK L : L = WaitLabels
  OBVIOUS
<1>3. /\ Cardinality(AtLabels(L)) \in Nat
      /\ (pc[r] \in L <=> l \in L) => Cardinality(AtLabels(L))' = Cardinality(AtLabels(L))
      /\ pc[r] \in L /\ l \notin L => /\ Cardinality(AtLabels(L))' = Cardinality(AtLabels(L)) - 1
                                      /\ Cardinality(AtLabels(L)) >= 1
      /\ pc[r] \notin L /\ l \in L => Cardinality(AtLabels(L))' = Cardinality(AtLabels(L)) + 1
  BY LabelCount
<1>. QED
  BY <1>0, <1>1, <1>2, <1>3

LEMMA WaitStays ==
    ASSUME TypeOK, AccountsExact, UNCHANGED <<pc, waitCount>>
    PROVE  /\ pc' \in [Requests -> Labels]
           /\ waitCount' \in Nat /\ waitCount' = Cardinality(AtLabels(WaitLabels))'
<1>1. waitCount = Cardinality(AtLabels(WaitLabels))
  BY AccountsIff
<1>. QED
  BY <1>1 DEF TypeOK, AtLabels

\* Nobody takes or gives back a connection.
LEMMA OwnersStay ==
    ASSUME PoolInv,
           \A r \in Requests : /\ pc'[r] = "holding" <=> pc[r] = "holding"
                               /\ pc[r] = "holding" => conn'[r] = conn[r],
           \A k \in Connections : /\ stage'[k] = "held" <=> stage[k] = "held"
                                  /\ stage'[k] = "pinged" <=> stage[k] = "pinged",
           mpc' = "ping" <=> mpc = "ping", mpc = "ping" => mconn' = mconn,
           mpc' \in {"next", "ping", "close"} => mcount' > 0
    PROVE  Owned' /\ OneOwner'
<1>1. Owned /\ OneOwner
  BY DEF PoolInv
<1>2. Owned'
  BY <1>1 DEF Owned, In
<1>3. OneOwner'
  BY <1>1 DEF Owned, OneOwner
<1>. QED
  BY <1>2, <1>3

\* No connection becomes idle and no request is woken or sleeps anew.
LEMMA OffersStay ==
    ASSUME PoolInv, sleepers' # <<>> => sleepers # <<>>,
           \A k \in Connections : stage'[k] = "idle" => stage[k] = "idle",
           \A r \in Requests : Woken(r) => Woken(r)',
           swallowed => swallowed'
    PROVE  IdleIsOffered'
<1>. DEFINE idle == In("idle")
             woken == {r \in Requests : Woken(r)}
<1>1. idle' \subseteq idle /\ woken \subseteq woken' /\ idle \subseteq Connections /\ woken' \subseteq Requests
  BY DEF In
<1>2. /\ IsFiniteSet(idle) /\ IsFiniteSet(woken')
      /\ Cardinality(idle') \in Nat /\ Cardinality(idle) \in Nat
      /\ Cardinality(woken') \in Nat /\ Cardinality(woken) \in Nat
  BY <1>1, FiniteSets
<1>3. Cardinality(idle') <= Cardinality(idle) /\ Cardinality(woken) <= Cardinality(woken')
  BY <1>1, <1>2, FS_Subset
<1>4. sleepers # <<>> => Cardinality(idle) <= Cardinality(woken) \/ swallowed
  BY DEF PoolInv, IdleIsOffered
<1>5. sleepers' # <<>> => Cardinality(idle') <= Cardinality(woken') \/ swallowed'
  <2>. HIDE DEF idle, woken
  <2>. QED
    BY <1>2, <1>3, <1>4
<1>. QED
  BY <1>5 DEF IdleIsOffered

LEMMA BoundsStay ==
    ASSUME PoolInv, \A k \in Connections : stage'[k] = "lock" => stage[k] = "lock",
           settings'.max_size <= LargestSize, sizeUsed' <= LargestSize
    PROVE  Bounded'
<1>. DEFINE locks == In("lock")
<1>1. locks' \subseteq locks /\ locks \subseteq Connections
  BY DEF In
<1>2. IsFiniteSet(locks) /\ Cardinality(locks) \in Nat /\ Cardinality(locks') \in Nat
  BY <1>1, FiniteSets
<1>3. Cardinality(locks') <= Cardinality(locks)
  BY <1>1, <1>2, FS_Subset
<1>4. Cardinality(locks) <= PendingConnectsMax + 1
  BY DEF PoolInv, Bounded
<1>5. Cardinality(locks') <= PendingConnectsMax + 1
  <2>. HIDE DEF locks
  <2>. QED
    BY <1>2, <1>3, <1>4, Sizes
<1>. QED
  BY <1>5 DEF Bounded

\* While the pool lives, or nothing happens to the connections.
LEMMA PhaseStaysLive ==
    ASSUME PoolInv, phase \in {"live", "stopMaintain"}, phase' = phase,
           phase = "stopMaintain" => \A r \in Requests : pc'[r] = pc[r],
           late' = late, \A k \in Connections : stage'[k] # "leaked"
    PROVE  PhaseFits'
<1>1. phase # "live" => \A r \in Requests : pc'[r] \in {"start", "done"}
  BY DEF PoolInv, PhaseFits
<1>2. late' = {}
  BY DEF PoolInv, PhaseFits
<1>3. In("leaked")' = {}
  BY DEF In
<1>. QED
  BY <1>1, <1>2, <1>3 DEF PhaseFits

LEMMA PhaseStays ==
    ASSUME PoolInv, UNCHANGED <<phase, pc, mpc, stage, late>>
    PROVE  PhaseFits'
  BY DEF PoolInv, PhaseFits, ConnectTasks, Connecting, In

\* A connection moves in whatever phase.  What is idle once Clear has emptied
\* the queue was pushed late.
LEMMA PhaseMove ==
    ASSUME PoolInv, NEW k \in Connections, stage[k] \notin {"none", "leaked"}, NEW s \in Stages \ {"leaked"},
           stage' = [stage EXCEPT ![k] = s], UNCHANGED <<phase, pc>>,
           mpc' = mpc \/ phase \in {"live", "stopMaintain"},
           s \in {"lock", "slot", "handshake", "failing"} => stage[k] \in {"lock", "slot", "handshake", "failing"},
           stage[k] = "idle" => phase # "closeTasks",
           late' = IF phase = "closeTasks" /\ s = "idle" THEN late \cup {k} ELSE late
    PROVE  PhaseFits'
<1>0. PhaseFits /\ stage'[k] = s /\ \A j \in Connections : j # k => stage'[j] = stage[j]
  BY DEF PoolInv, TypeOK
<1>1. phase # "destroyed"
  BY <1>0 DEF PhaseFits
<1>2. phase \in {"drain", "closeTasks"} => ConnectTasks' = {}
  BY <1>0 DEF PhaseFits, ConnectTasks, Connecting, In
<1>3. phase = "closeTasks" => late' = In("idle")'
  BY <1>0 DEF PhaseFits, In
<1>4. phase # "closeTasks" => late' = {}
  BY <1>0, <1>1 DEF PhaseFits
<1>5. In("leaked")' = {}
  BY <1>0, <1>1 DEF PhaseFits, In
<1>. QED
  BY <1>0, <1>1, <1>2, <1>3, <1>4, <1>5 DEF PhaseFits

-----------------------------------------------------------------------------
\* A connection that somebody had goes to the queue or is closed.

Settles(k, s) ==
    /\ stage' = [stage EXCEPT ![k] = s]
    /\ s = "closing" => unlucky' = unlucky \cup Queued /\ UNCHANGED <<sleepers, late>>
    /\ s = "idle" => Enqueue(k) /\ UNCHANGED unlucky

LEMMA FaultTypes ==
    ASSUME TypeOK, Fault
    PROVE  faults' \in 0..MaxFaults
  BY Sizes DEF TypeOK, Fault

LEMMA PushSettles ==
    ASSUME TypeOK, NEW k \in Connections, Push(k)
    PROVE  (\E s \in {"idle", "closing"} : Settles(k, s)) /\ faults' \in 0..MaxFaults
<1>1. CASE DeleteConnection(k) /\ UNCHANGED <<sleepers, late>> /\ (UNCHANGED faults \/ Fault)
  <2>1. Settles(k, "closing")
    BY <1>1 DEF DeleteConnection, Settles
  <2>2. faults' \in 0..MaxFaults
    BY <1>1, FaultTypes DEF TypeOK
  <2>. QED
    BY <2>1, <2>2
<1>2. CASE Enqueue(k) /\ UNCHANGED <<unlucky, faults>>
  BY <1>2 DEF Enqueue, Settles, TypeOK
<1>. QED
  BY <1>1, <1>2 DEF Push

LEMMA SettleStep ==
    ASSUME PoolInv, NEW k \in Connections, NEW s \in {"idle", "closing"}, Settles(k, s),
           stage[k] \in {"handshake", "idle", "held", "cleanup", "pinged"},
           stage[k] = "idle" => s = "closing",
           \A r \in Requests : pc'[r] = "asleep" <=> pc[r] = "asleep",
           UNCHANGED <<swallowed, settings, sizeUsed>>
    PROVE  /\ sleepers' \in Seq(Requests) /\ unlucky' \subseteq Requests /\ late' \subseteq Connections
           /\ SleepersFit' /\ IdleIsOffered' /\ Bounded'
<1>0. /\ TypeOK /\ SleepersFit /\ Bounded
      /\ stage'[k] = s /\ \A j \in Connections : j # k => stage'[j] = stage[j]
  BY DEF PoolInv, TypeOK, Settles
<1>1. Bounded'
  BY <1>0, BoundsStay DEF Bounded
<1>2. unlucky' \subseteq Requests /\ late' \subseteq Connections
  BY <1>0 DEF TypeOK, Settles, Enqueue, Queued
<1>3. CASE s = "closing"
  <2>1. UNCHANGED <<sleepers, late>> /\ unlucky' = unlucky \cup Queued
    BY <1>3 DEF Settles
  <2>2. Sleeping' = Sleeping /\ sleepers' \in Seq(Requests) /\ Sleeping \subseteq Requests
    BY <1>0, <2>1 DEF Sleeping, TypeOK
  <2>3. SleepersFit'
    BY <1>0, <2>1, <2>2 DEF SleepersFit
  <2>4. IdleIsOffered'
    BY <1>0, <1>3, <2>1, <2>2, OffersStay DEF Woken
  <2>. QED
    BY <1>1, <1>2, <2>2, <2>3, <2>4
<1>4. CASE s = "idle"
  <2>1. sleepers' = IF sleepers = <<>> THEN sleepers ELSE Tail(sleepers)
    BY <1>4 DEF Settles, Enqueue
  <2>2. CASE sleepers = <<>>
    <3>1. sleepers' = <<>> /\ Sleeping' = {} /\ DOMAIN sleepers' = {}
      BY <2>1, <2>2 DEF Sleeping
    <3>. QED
      BY <1>1, <1>2, <3>1 DEF SleepersFit, IdleIsOffered
  <2>3. CASE sleepers # <<>>
    <3>0. PICK h : h = Head(sleepers)
      OBVIOUS
    <3>1. /\ sleepers' \in Seq(Requests) /\ h \in Sleeping /\ Sleeping' = Sleeping \ {h}
          /\ \A i, j \in DOMAIN sleepers' : sleepers'[i] = sleepers'[j] => i = j
      BY <1>0, <2>1, <2>3, <3>0, TailRequest
    <3>2. h \in Requests /\ Sleeping \subseteq Requests /\ pc[h] = "asleep"
      BY <1>0, <3>1, SleepersSleep
    <3>3. SleepersFit'
      BY <1>0, <3>1, <3>2 DEF SleepersFit
    <3>. DEFINE idle == In("idle")
                 woken == {r \in Requests : Woken(r)}
    <3>4. idle' = idle \cup {k} /\ k \notin idle /\ idle \subseteq Connections
      BY <1>0, <1>4 DEF In
    <3>5. woken' = woken \cup {h} /\ h \notin woken /\ woken \subseteq Requests
      BY <3>1, <3>2 DEF Woken
    <3>6. /\ Cardinality(idle') = Cardinality(idle) + 1 /\ Cardinality(idle) \in Nat
          /\ Cardinality(woken') = Cardinality(woken) + 1 /\ Cardinality(woken) \in Nat
      <4>. HIDE DEF idle, woken
      <4>1. IsFiniteSet(idle) /\ IsFiniteSet(woken)
        BY <3>4, <3>5, FiniteSets
      <4>. QED
        BY <3>4, <3>5, <4>1, OneMore
    <3>7. Cardinality(idle) <= Cardinality(woken) \/ swallowed
      BY <2>3 DEF PoolInv, IdleIsOffered
    <3>8. Cardinality(idle') <= Cardinality(woken') \/ swallowed'
      <4>. HIDE DEF idle, woken
      <4>. QED
        BY <3>6, <3>7
    <3>9. IdleIsOffered'
      BY <3>8 DEF IdleIsOffered
    <3>. QED
      BY <1>1, <1>2, <3>1, <3>3, <3>9
  <2>. QED
    BY <2>2, <2>3
<1>. QED
  BY <1>3, <1>4

\* ... and nobody's label changes: the steps of connections.
LEMMA SettlePhase ==
    ASSUME PoolInv, NEW k \in Connections, NEW s \in {"idle", "closing"}, Settles(k, s),
           stage[k] \in {"handshake", "held", "cleanup", "pinged"},
           UNCHANGED <<phase, pc>>, mpc' = mpc \/ phase \in {"live", "stopMaintain"}
    PROVE  PhaseFits'
<1>1. stage[k] = "cleanup" \/ phase # "closeTasks"
  BY DEF PoolInv, PhaseFits, Owned, In, ConnectTasks, Connecting
<1>2. late' = IF phase = "closeTasks" /\ s = "idle" THEN late \cup {k} ELSE late
  BY <1>1 DEF Settles, Enqueue
<1>. QED
  BY <1>2, PhaseMove DEF Settles, Stages

-----------------------------------------------------------------------------
\* The steps of connections

\* What the steps of connections leave alone.
quietVars == <<settings, pc, conn, seen, cancelled, waitCount, swallowed, mpc, mconn, mcount, dropLeft, mmin, mver,
               phase, version, ccMax, updates>>

LEMMA QuietTypes ==
    ASSUME TypeOK, UNCHANGED quietVars,
           stage' \in [Connections -> Stages], ver' \in [Connections -> Nat],
           sizeUsed' \in Nat, errors' \in Nat, used' \in Nat, faults' \in 0..MaxFaults,
           sleepers' \in Seq(Requests), unlucky' \subseteq Requests, late' \subseteq Connections
    PROVE  TypeOK'
  BY DEF TypeOK, quietVars

\* A connect task on its way or at its end without a connection, or a close task
\* that ends.
LEMMA ConnectMove ==
    ASSUME PoolInv, NEW k \in Connections, NEW s \in {"slot", "handshake", "failing", "none"},
           stage[k] \in {"lock", "slot", "handshake", "failing", "closing"}, stage[k] = "closing" => s = "none",
           stage' = [stage EXCEPT ![k] = s], ver' \in [Connections -> Nat],
           (stage[k] = "lock" <=> s = "none") => sizeUsed' = sizeUsed,
           stage[k] # "lock" /\ s = "none" => sizeUsed' = sizeUsed - 1,
           stage[k] = "lock" /\ s # "none" => sizeUsed' = sizeUsed + 1 /\ sizeUsed < settings.max_size,
           unlucky' = unlucky \/ unlucky' = unlucky \cup Queued, errors' \in Nat, faults' \in 0..MaxFaults,
           UNCHANGED quietVars, UNCHANGED <<used, sleepers, late>>
    PROVE  PoolInv'
<1>. USE DEF quietVars
<1>0. /\ TypeOK /\ AccountsExact /\ Bounded /\ SleepersFit
      /\ stage'[k] = s /\ \A j \in Connections : j # k => stage'[j] = stage[j]
  BY DEF PoolInv, TypeOK
<1>1. /\ stage' \in [Connections -> Stages]
      /\ sizeUsed' \in Nat /\ sizeUsed' = Cardinality(AtStages(UnitStages))'
      /\ used' \in Nat /\ used' = Cardinality(AtStages(UsedStages))'
  BY <1>0, UnitsMove DEF Stages, UnitStages, UsedStages
<1>2. waitCount' = Cardinality(AtLabels(WaitLabels))'
  BY <1>0, WaitStays
<1>3. TypeOK'
  <2>1. unlucky' \subseteq Requests /\ sleepers' \in Seq(Requests) /\ late' \subseteq Connections
    BY <1>0 DEF TypeOK, Queued
  <2>. QED
    BY <1>0, <1>1, <2>1, QuietTypes
<1>4. AccountsExact'
  BY <1>1, <1>2, <1>3, AccountsPrimed
<1>5. Owned' /\ OneOwner'
  <2>1. mpc' \in {"next", "ping", "close"} => mcount' > 0
    BY DEF PoolInv, Owned
  <2>. QED
    BY <1>0, <2>1, OwnersStay
<1>6. SleepersFit' /\ Sleeping' = Sleeping
  BY <1>0 DEF SleepersFit, Sleeping
<1>7. IdleIsOffered'
  BY <1>0, <1>6, OffersStay DEF Woken
<1>8. Bounded'
  <2>1. sizeUsed' <= LargestSize
    BY <1>0, SizesFit
  <2>. QED
    BY <1>0, <2>1, BoundsStay DEF Bounded
<1>9. PhaseFits'
  <2>1. s \in Stages \ {"leaked"}
    BY DEF Stages
  <2>. QED
    BY <2>1, PhaseMove
<1>. QED
  BY <1>3, <1>4, <1>5, <1>6, <1>7, <1>8, <1>9 DEF PoolInv

LEMMA GetSizeLockStep ==
    ASSUME PoolInv, NEW k \in Connections, GetSizeLock(k)
    PROVE  PoolInv'
<1>1. ver' \in [Connections -> Nat] /\ errors' \in Nat /\ faults' \in 0..MaxFaults
  BY DEF GetSizeLock, PoolInv, TypeOK
<1>. QED
  BY <1>1, ConnectMove DEF GetSizeLock, quietVars, settingVars, requestVars, maintVars

LEMMA GetConnectingLockStep ==
    ASSUME PoolInv, NEW k \in Connections, GetConnectingLock(k)
    PROVE  PoolInv'
<1>1. ver' \in [Connections -> Nat] /\ errors' \in Nat /\ faults' \in 0..MaxFaults
  BY DEF GetConnectingLock, PoolInv, TypeOK
<1>. QED
  BY <1>1, ConnectMove DEF GetConnectingLock, quietVars, settingVars, requestVars, maintVars

LEMMA ConnectingTimeoutStep ==
    ASSUME PoolInv, NEW k \in Connections, ConnectingTimeout(k)
    PROVE  PoolInv'
<1>1. ver' \in [Connections -> Nat] /\ errors' \in Nat /\ faults' \in 0..MaxFaults
  BY DEF ConnectingTimeout, PoolInv, TypeOK
<1>. QED
  BY <1>1, ConnectMove DEF ConnectingTimeout, quietVars, settingVars, requestVars, maintVars

LEMMA CloseEndsStep ==
    ASSUME PoolInv, NEW k \in Connections, CloseEnds(k)
    PROVE  PoolInv'
<1>1. ver' \in [Connections -> Nat] /\ errors' \in Nat /\ faults' \in 0..MaxFaults
  BY DEF CloseEnds, PoolInv, TypeOK
<1>. QED
  BY <1>1, ConnectMove DEF CloseEnds, quietVars, settingVars, requestVars, maintVars

LEMMA CloseWithErrorStep ==
    ASSUME PoolInv, NEW k \in Connections, CloseWithError(k)
    PROVE  PoolInv'
<1>1. ver' \in [Connections -> Nat] /\ errors' \in Nat
  BY DEF CloseWithError, PoolInv, TypeOK
<1>2. faults' \in 0..MaxFaults
  BY FaultTypes DEF CloseWithError, PoolInv
<1>. QED
  BY <1>1, <1>2, ConnectMove DEF CloseWithError, quietVars, settingVars, requestVars, maintVars

LEMMA ErrorThrownStep ==
    ASSUME PoolInv, NEW k \in Connections, ErrorThrown(k)
    PROVE  PoolInv'
<1>0. ver \in [Connections -> Nat] /\ errors \in Nat /\ faults \in 0..MaxFaults
  BY DEF PoolInv, TypeOK
<1>1. ver' \in [Connections -> Nat] /\ errors' \in Nat /\ faults' \in 0..MaxFaults
  <2>1. ver' = [ver EXCEPT ![k] = 0] /\ errors' \in {errors, errors + 1} /\ faults' = faults
    BY DEF ErrorThrown
  <2>2. ver' \in [Connections -> Nat]
    BY <1>0, <2>1
  <2>3. errors' \in Nat
    BY <1>0, <2>1
  <2>. QED
    BY <1>0, <2>1, <2>2, <2>3
<1>. QED
  BY <1>1, ConnectMove DEF ErrorThrown, quietVars, settingVars, requestVars, maintVars

\* A connect task or a clean-up task ends with its connection in the queue or
\* closed.
LEMMA ConnectSettles ==
    ASSUME PoolInv, NEW k \in Connections, NEW s \in {"idle", "closing"}, Settles(k, s),
           stage[k] \in {"handshake", "cleanup"},
           used' = IF stage[k] = "cleanup" THEN used - 1 ELSE used,
           errors' \in Nat, faults' \in 0..MaxFaults,
           UNCHANGED quietVars, UNCHANGED <<ver, sizeUsed>>
    PROVE  PoolInv'
<1>. USE DEF quietVars
<1>0. /\ TypeOK /\ AccountsExact /\ stage' = [stage EXCEPT ![k] = s]
      /\ stage'[k] = s /\ \A j \in Connections : j # k => stage'[j] = stage[j]
  BY DEF PoolInv, TypeOK, Settles
<1>1. /\ stage' \in [Connections -> Stages]
      /\ sizeUsed' \in Nat /\ sizeUsed' = Cardinality(AtStages(UnitStages))'
      /\ used' \in Nat /\ used' = Cardinality(AtStages(UsedStages))'
  BY <1>0, UnitsMove DEF Stages, UnitStages, UsedStages
<1>2. waitCount' = Cardinality(AtLabels(WaitLabels))'
  BY <1>0, WaitStays
<1>3. /\ sleepers' \in Seq(Requests) /\ unlucky' \subseteq Requests /\ late' \subseteq Connections
      /\ SleepersFit' /\ IdleIsOffered' /\ Bounded'
  BY SettleStep
<1>4. TypeOK'
  <2>1. ver' \in [Connections -> Nat]
    BY <1>0 DEF TypeOK
  <2>. QED
    BY <1>0, <1>1, <1>3, <2>1, QuietTypes
<1>5. AccountsExact'
  BY <1>1, <1>2, <1>4, AccountsPrimed
<1>6. Owned' /\ OneOwner'
  <2>1. mpc' \in {"next", "ping", "close"} => mcount' > 0
    BY DEF PoolInv, Owned
  <2>. QED
    BY <1>0, <2>1, OwnersStay
<1>7. PhaseFits'
  BY SettlePhase
<1>. QED
  BY <1>3, <1>4, <1>5, <1>6, <1>7 DEF PoolInv

LEMMA ConnectedStep ==
    ASSUME PoolInv, NEW k \in Connections, Connected(k)
    PROVE  PoolInv'
<1>1. PICK s \in {"idle", "closing"} : Settles(k, s) /\ faults' \in 0..MaxFaults
  BY PushSettles DEF Connected, PoolInv
<1>2. errors' \in Nat
  BY DEF Connected, PoolInv, TypeOK
<1>. QED
  BY <1>1, <1>2, ConnectSettles DEF Connected, quietVars, settingVars, maintVars

LEMMA ConnectFailsStep ==
    ASSUME PoolInv, NEW k \in Connections, ConnectFails(k)
    PROVE  PoolInv'
<1>1. Settles(k, "closing") /\ faults' \in 0..MaxFaults
  BY FaultTypes DEF ConnectFails, PoolInv, DeleteConnection, Settles, requestVars
<1>2. errors' \in Nat
  BY DEF ConnectFails, PoolInv, TypeOK
<1>. QED
  BY <1>1, <1>2, ConnectSettles DEF ConnectFails, quietVars, settingVars, requestVars, maintVars

LEMMA CleanupConnectionStep ==
    ASSUME PoolInv, NEW k \in Connections, CleanupConnection(k)
    PROVE  PoolInv'
<1>1. PICK s \in {"idle", "closing"} : Settles(k, s) /\ faults' \in 0..MaxFaults
  <2>1. CASE Push(k)
    BY <2>1, PushSettles DEF PoolInv
  <2>2. CASE DeleteConnection(k) /\ UNCHANGED <<sleepers, late, faults>>
    BY <2>2 DEF DeleteConnection, Settles, PoolInv, TypeOK
  <2>. QED
    BY <2>1, <2>2 DEF CleanupConnection
<1>2. errors' \in Nat
  BY DEF CleanupConnection, PoolInv, TypeOK
<1>. QED
  BY <1>1, <1>2, ConnectSettles DEF CleanupConnection, quietVars, settingVars, maintVars

-----------------------------------------------------------------------------
\* The steps of requests

LEMMA RequestTypes ==
    ASSUME TypeOK, UNCHANGED <<ver, settings, version, ccMax, updates, errors, phase>>, UNCHANGED maintVars,
           stage' \in [Connections -> Stages], sizeUsed' \in Nat, used' \in Nat, late' \subseteq Connections,
           pc' \in [Requests -> Labels], waitCount' \in Nat, seen' \in [Requests -> Nat],
           conn' \in [Requests -> Connections \cup {NoConnection}],
           cancelled' \subseteq Requests, unlucky' \subseteq Requests,
           sleepers' \in Seq(Requests), swallowed' \in BOOLEAN, faults' \in 0..MaxFaults
    PROVE  TypeOK'
  BY DEF TypeOK, maintVars

LEMMA ActiveIsLive ==
    ASSUME PoolInv, NEW r \in Requests, pc[r] \notin {"start", "done"}
    PROVE  phase = "live"
  BY DEF PoolInv, PhaseFits

\* A request that has no connection, before and after, moves; the connections
\* stay where they are.
LEMMA RequestMove ==
    ASSUME PoolInv, NEW r \in Requests, NEW l \in Labels \ {"holding"}, pc[r] # "holding", phase = "live",
           pc' = [pc EXCEPT ![r] = l],
           (pc[r] \in WaitLabels <=> l \in WaitLabels) => waitCount' = waitCount,
           pc[r] \in WaitLabels /\ l \notin WaitLabels => waitCount' = waitCount - 1,
           pc[r] \notin WaitLabels /\ l \in WaitLabels => waitCount' = waitCount + 1,
           UNCHANGED <<stage, sizeUsed, used, settings, conn, mpc, mconn, mcount, phase, late>>
    PROVE  /\ pc' \in [Requests -> Labels] /\ waitCount' \in Nat
           /\ pc'[r] = l /\ \A q \in Requests : q # r => pc'[q] = pc[q]
           /\ TypeOK' => AccountsExact'
           /\ Owned' /\ OneOwner' /\ Bounded' /\ PhaseFits'
<1>0. /\ TypeOK /\ AccountsExact /\ Bounded
      /\ pc'[r] = l /\ \A q \in Requests : q # r => pc'[q] = pc[q]
  BY DEF PoolInv, TypeOK
<1>1. /\ pc' \in [Requests -> Labels]
      /\ waitCount' \in Nat /\ waitCount' = Cardinality(AtLabels(WaitLabels))'
  BY <1>0, WaitMoves
<1>2. sizeUsed' = Cardinality(AtStages(UnitStages))' /\ used' = Cardinality(AtStages(UsedStages))'
  BY <1>0, UnitsStay
<1>3. TypeOK' => AccountsExact'
  BY <1>1, <1>2, AccountsPrimed
<1>4. Owned' /\ OneOwner'
  <2>1. mpc' \in {"next", "ping", "close"} => mcount' > 0
    BY DEF PoolInv, Owned
  <2>. QED
    BY <1>0, <2>1, OwnersStay
<1>5. Bounded'
  BY <1>0, BoundsStay DEF Bounded
<1>6. PhaseFits'
  <2>1. \A k \in Connections : stage'[k] # "leaked"
    BY DEF PoolInv, PhaseFits, In
  <2>. QED
    BY <2>1, PhaseStaysLive
<1>. QED
  BY <1>0, <1>1, <1>3, <1>4, <1>5, <1>6

\* ... and neither sleeps before nor after.
LEMMA AwakeMove ==
    ASSUME PoolInv, NEW r \in Requests, pc[r] # "asleep", pc'[r] # "asleep",
           \A q \in Requests : q # r => pc'[q] = pc[q],
           swallowed => swallowed', UNCHANGED <<stage, sleepers>>
    PROVE  SleepersFit' /\ IdleIsOffered'
<1>0. SleepersFit /\ TypeOK
  BY DEF PoolInv
<1>1. Sleeping' = Sleeping /\ r \notin Sleeping /\ Sleeping \subseteq Requests
  <2>1. Sleeping' = Sleeping
    BY DEF Sleeping
  <2>. QED
    BY <1>0, <2>1, SleepersSleep
<1>2. SleepersFit'
  BY <1>0, <1>1 DEF SleepersFit
<1>3. IdleIsOffered'
  BY <1>1, OffersStay DEF Woken
<1>. QED
  BY <1>2, <1>3

LEMMA AcquireStep ==
    ASSUME PoolInv, NEW r \in Requests, Acquire(r)
    PROVE  PoolInv'
<1>. USE DEF poolVars, settingVars, maintVars
<1>0. TypeOK
  BY DEF PoolInv
<1>1. /\ pc' \in [Requests -> Labels] /\ waitCount' \in Nat
      /\ pc'[r] = "pop" /\ \A q \in Requests : q # r => pc'[q] = pc[q]
      /\ TypeOK' => AccountsExact'
      /\ Owned' /\ OneOwner' /\ Bounded' /\ PhaseFits'
  BY RequestMove DEF Acquire, Labels, WaitLabels
<1>2. TypeOK'
  BY <1>0, <1>1 DEF TypeOK, Acquire
<1>3. SleepersFit' /\ IdleIsOffered'
  BY <1>1, AwakeMove DEF Acquire
<1>. QED
  BY <1>1, <1>2, <1>3 DEF PoolInv

LEMMA EnterQueueStep ==
    ASSUME PoolInv, NEW r \in Requests, EnterQueue(r)
    PROVE  PoolInv'
<1>. USE DEF poolVars, settingVars, maintVars
<1>0. TypeOK /\ phase = "live"
  BY ActiveIsLive DEF PoolInv, EnterQueue
<1>1. PICK l \in {"full", "create"} : pc' = [pc EXCEPT ![r] = l]
  BY DEF EnterQueue
<1>2. /\ pc' \in [Requests -> Labels] /\ waitCount' \in Nat
      /\ pc'[r] = l /\ \A q \in Requests : q # r => pc'[q] = pc[q]
      /\ TypeOK' => AccountsExact'
      /\ Owned' /\ OneOwner' /\ Bounded' /\ PhaseFits'
  BY <1>0, <1>1, RequestMove DEF EnterQueue, Labels, WaitLabels
<1>3. TypeOK'
  <2>1. /\ stage' \in [Connections -> Stages] /\ sizeUsed' \in Nat /\ used' \in Nat /\ late' \subseteq Connections
        /\ seen' \in [Requests -> Nat] /\ conn' \in [Requests -> Connections \cup {NoConnection}]
        /\ cancelled' \subseteq Requests /\ unlucky' \subseteq Requests /\ swallowed' \in BOOLEAN
        /\ sleepers' \in Seq(Requests) /\ faults' \in 0..MaxFaults
    BY <1>0 DEF TypeOK, EnterQueue
  <2>. QED
    BY <1>0, <1>2, <2>1, RequestTypes DEF EnterQueue
<1>4. SleepersFit' /\ IdleIsOffered'
  BY <1>2, AwakeMove DEF EnterQueue
<1>. QED
  BY <1>2, <1>3, <1>4 DEF PoolInv

LEMMA QueueFullStep ==
    ASSUME PoolInv, NEW r \in Requests, QueueFull(r)
    PROVE  PoolInv'
<1>. USE DEF settingVars, maintVars, Leave, EndPop
<1>0. TypeOK /\ phase = "live"
  BY ActiveIsLive DEF PoolInv, QueueFull
<1>1. /\ pc' \in [Requests -> Labels] /\ waitCount' \in Nat
      /\ pc'[r] = "done" /\ \A q \in Requests : q # r => pc'[q] = pc[q]
      /\ TypeOK' => AccountsExact'
      /\ Owned' /\ OneOwner' /\ Bounded' /\ PhaseFits'
  BY <1>0, RequestMove DEF QueueFull, Labels, WaitLabels
<1>2. TypeOK'
  <2>1. /\ stage' \in [Connections -> Stages] /\ sizeUsed' \in Nat /\ used' \in Nat /\ late' \subseteq Connections
        /\ seen' \in [Requests -> Nat] /\ conn' \in [Requests -> Connections \cup {NoConnection}]
        /\ cancelled' \subseteq Requests /\ unlucky' \subseteq Requests /\ swallowed' \in BOOLEAN
        /\ sleepers' \in Seq(Requests) /\ faults' \in 0..MaxFaults
    BY <1>0 DEF TypeOK, QueueFull
  <2>. QED
    BY <1>0, <1>1, <2>1, RequestTypes DEF QueueFull
<1>3. SleepersFit' /\ IdleIsOffered'
  BY <1>1, AwakeMove DEF QueueFull
<1>. QED
  BY <1>1, <1>2, <1>3 DEF PoolInv

\* A request that nobody has woken leaves the wait list and the pool.
LEMMA SleepEndsStep ==
    ASSUME PoolInv, NEW r \in Requests, r \in Sleeping, SleepEnds(r), Fault,
           UNCHANGED <<stage, ver, sizeUsed, errors, late, settingVars, conn, seen, swallowed, maintVars, used, phase>>
    PROVE  PoolInv'
<1>. USE DEF settingVars, maintVars, SleepEnds, Leave, EndPop
<1>0. TypeOK /\ SleepersFit /\ pc[r] = "asleep" /\ phase = "live" /\ Sleeping \subseteq Requests
  <2>1. TypeOK /\ SleepersFit /\ pc[r] = "asleep" /\ Sleeping \subseteq Requests
    BY SleepersSleep DEF PoolInv
  <2>. QED
    BY <2>1, ActiveIsLive
<1>1. /\ pc' \in [Requests -> Labels] /\ waitCount' \in Nat
      /\ pc'[r] = "done" /\ \A q \in Requests : q # r => pc'[q] = pc[q]
      /\ TypeOK' => AccountsExact'
      /\ Owned' /\ OneOwner' /\ Bounded' /\ PhaseFits'
  BY <1>0, RequestMove DEF Labels, WaitLabels
<1>2. /\ sleepers' \in Seq(Requests) /\ Sleeping' = Sleeping \ {r}
      /\ \A i, j \in DOMAIN sleepers' : sleepers'[i] = sleepers'[j] => i = j
  BY <1>0, UnlinkRequest
<1>3. TypeOK'
  <2>1. faults' \in 0..MaxFaults
    BY <1>0, FaultTypes
  <2>2. /\ stage' \in [Connections -> Stages] /\ sizeUsed' \in Nat /\ used' \in Nat /\ late' \subseteq Connections
        /\ seen' \in [Requests -> Nat] /\ conn' \in [Requests -> Connections \cup {NoConnection}]
        /\ cancelled' \subseteq Requests /\ unlucky' \subseteq Requests /\ swallowed' \in BOOLEAN
    BY <1>0 DEF TypeOK
  <2>. QED
    BY <1>0, <1>1, <1>2, <2>1, <2>2, RequestTypes
<1>4. SleepersFit'
  BY <1>0, <1>1, <1>2 DEF SleepersFit
<1>5. IdleIsOffered'
  <2>1. sleepers' # <<>> => sleepers # <<>>
    BY DEF Unlink
  <2>2. \A q \in Requests : Woken(q) => Woken(q)'
    BY <1>1, <1>2 DEF Woken
  <2>. QED
    BY <2>1, <2>2, OffersStay
<1>. QED
  BY <1>1, <1>3, <1>4, <1>5 DEF PoolInv

LEMMA DeadlinePassesStep ==
    ASSUME PoolInv, NEW r \in Requests, DeadlinePasses(r)
    PROVE  PoolInv'
  BY SleepEndsStep DEF DeadlinePasses

LEMMA CancelStep ==
    ASSUME PoolInv, NEW r \in Requests, Cancel(r)
    PROVE  PoolInv'
<1>1. CASE r \in Sleeping
  BY <1>1, SleepEndsStep DEF Cancel
<1>2. CASE r \notin Sleeping
  <2>. USE DEF settingVars, maintVars
  <2>1. /\ cancelled' = cancelled \cup {r} /\ Fault
        /\ UNCHANGED <<pc, sleepers, waitCount, unlucky, stage, ver, sizeUsed, errors, late, settingVars, conn, seen,
                       swallowed, maintVars, used, phase>>
    BY <1>2 DEF Cancel
  <2>2. TypeOK'
    BY <2>1, FaultTypes DEF PoolInv, TypeOK
  <2>3. Owned' /\ OneOwner' /\ SleepersFit'
    BY <2>1 DEF PoolInv, Owned, OneOwner, SleepersFit, Sleeping, In
  <2>4. IdleIsOffered' /\ Bounded'
    BY <2>1 DEF PoolInv, IdleIsOffered, Bounded, In, Woken, Sleeping
  <2>5. AccountsExact' /\ PhaseFits'
    BY <2>1, PhaseStays DEF PoolInv, AccountsExact, In, Queued
  <2>. QED
    BY <2>2, <2>3, <2>4, <2>5 DEF PoolInv
<1>. QED
  BY <1>1, <1>2

\* A request takes an idle connection, in either of Pop's two ways.
LEMMA TakeStep ==
    ASSUME PoolInv, NEW r \in Requests, NEW k \in In("idle"), Take(r, k),
           pc[r] = "pop" \/ pc[r] = "wait" \/ Woken(r),
           waitCount' = IF pc[r] = "pop" THEN waitCount ELSE waitCount - 1,
           cancelled' = cancelled \ {r}, unlucky' = unlucky \/ unlucky' = unlucky \ {r},
           seen' \in [Requests -> Nat],
           UNCHANGED <<ver, sizeUsed, errors, late, faults, sleepers, swallowed, phase>>,
           UNCHANGED settingVars, UNCHANGED maintVars
    PROVE  PoolInv'
<1>. USE DEF settingVars, maintVars
<1>0. /\ TypeOK /\ AccountsExact /\ Owned /\ OneOwner /\ SleepersFit /\ Bounded
      /\ k \in Connections /\ stage[k] = "idle" /\ Sleeping \subseteq Requests
  BY SleepersSleep DEF PoolInv, In
<1>1. /\ pc' = [pc EXCEPT ![r] = "holding"] /\ stage' = [stage EXCEPT ![k] = "held"]
      /\ conn' = [conn EXCEPT ![r] = k] /\ used' = used + 1
  BY DEF Take
<1>2. /\ pc'[r] = "holding" /\ \A q \in Requests : q # r => pc'[q] = pc[q]
      /\ stage'[k] = "held" /\ \A j \in Connections : j # k => stage'[j] = stage[j]
      /\ conn'[r] = k /\ \A q \in Requests : q # r => conn'[q] = conn[q]
  BY <1>0, <1>1 DEF TypeOK
<1>3. pc[r] \in {"pop", "wait", "asleep"} /\ r \notin Sleeping
  BY <1>0 DEF Woken, SleepersFit
<1>4. /\ stage' \in [Connections -> Stages]
      /\ sizeUsed' \in Nat /\ sizeUsed' = Cardinality(AtStages(UnitStages))'
      /\ used' \in Nat /\ used' = Cardinality(AtStages(UsedStages))'
  BY <1>0, <1>1, UnitsMove DEF Stages, UnitStages, UsedStages
<1>5. /\ pc' \in [Requests -> Labels]
      /\ waitCount' \in Nat /\ waitCount' = Cardinality(AtLabels(WaitLabels))'
  BY <1>0, <1>1, <1>3, WaitMoves DEF Labels, WaitLabels
<1>6. TypeOK'
  <2>1. /\ conn' \in [Requests -> Connections \cup {NoConnection}]
        /\ cancelled' \subseteq Requests /\ unlucky' \subseteq Requests /\ late' \subseteq Connections
        /\ sleepers' \in Seq(Requests) /\ swallowed' \in BOOLEAN /\ faults' \in 0..MaxFaults
    BY <1>0, <1>1 DEF TypeOK
  <2>. QED
    BY <1>0, <1>4, <1>5, <2>1, RequestTypes
<1>7. AccountsExact'
  BY <1>4, <1>5, <1>6, AccountsPrimed
<1>8. Owned' /\ OneOwner'
  <2>1. \A q \in Requests : pc[q] = "holding" => conn[q] # k /\ conn[q] \in Connections
    BY <1>0 DEF Owned, OneOwner
  <2>2. mpc = "ping" => mconn # k /\ mconn \in Connections
    BY <1>0 DEF Owned, OneOwner
  <2>3. Owned'
    BY <1>0, <1>2, <1>3, <2>1, <2>2 DEF Owned, In
  <2>4. OneOwner'
    BY <1>0, <1>2, <1>3, <2>1, <2>2 DEF OneOwner
  <2>. QED
    BY <2>3, <2>4
<1>9. SleepersFit' /\ Sleeping' = Sleeping
  BY <1>0, <1>2, <1>3 DEF SleepersFit, Sleeping
<1>10. IdleIsOffered'
  <2>1. CASE pc[r] # "asleep"
    <3>1. \A q \in Requests : Woken(q) => Woken(q)'
      BY <1>2, <1>9, <2>1 DEF Woken
    <3>. QED
      BY <1>2, <3>1, OffersStay
  <2>2. CASE pc[r] = "asleep"
    <3>. DEFINE idle == In("idle")
                 woken == {q \in Requests : Woken(q)}
    <3>1. idle' = idle \ {k} /\ k \in idle /\ idle \subseteq Connections
      BY <1>0, <1>2 DEF In
    <3>2. woken' = woken \ {r} /\ r \in woken /\ woken \subseteq Requests
      BY <1>2, <1>3, <1>9, <2>2 DEF Woken
    <3>3. sleepers # <<>> => Cardinality(idle) <= Cardinality(woken) \/ swallowed
      BY DEF PoolInv, IdleIsOffered
    <3>4. sleepers' # <<>> => Cardinality(idle') <= Cardinality(woken') \/ swallowed'
      <4>. HIDE DEF idle, woken
      <4>1. IsFiniteSet(idle) /\ IsFiniteSet(woken)
        BY <3>1, <3>2, FiniteSets
      <4>2. /\ Cardinality(idle') = Cardinality(idle) - 1 /\ Cardinality(idle) \in Nat
            /\ Cardinality(woken') = Cardinality(woken) - 1 /\ Cardinality(woken) \in Nat
        BY <3>1, <3>2, <4>1, OneLess
      <4>. QED
        BY <3>3, <4>2
    <3>. QED
      BY <3>4 DEF IdleIsOffered
  <2>. QED
    BY <2>1, <2>2
<1>11. Bounded'
  BY <1>0, <1>2, BoundsStay DEF Bounded
<1>12. PhaseFits'
  <2>1. phase = "live"
    BY <1>3, ActiveIsLive
  <2>2. \A j \in Connections : stage'[j] # "leaked"
    BY <1>2, <2>1 DEF PoolInv, PhaseFits, In
  <2>. QED
    BY <2>1, <2>2, PhaseStaysLive
<1>. QED
  BY <1>6, <1>7, <1>8, <1>9, <1>10, <1>11, <1>12 DEF PoolInv

\* An idle connection is found outdated or expired.
LEMMA IdleDeleted ==
    ASSUME PoolInv, NEW k \in In("idle"), DeleteConnection(k), phase \in {"live", "stopMaintain"},
           faults' \in 0..MaxFaults, dropLeft' \in 0..IdleDropLimit, mver' \in Nat,
           UNCHANGED <<mpc, mconn>> \/ (mpc = "next" /\ mpc' = "close" /\ mconn' = k /\ mcount > 0),
           UNCHANGED <<ver, sizeUsed, errors, late, pc, conn, seen, cancelled, sleepers, waitCount, swallowed, used,
                       mcount, mmin, phase>>,
           UNCHANGED settingVars
    PROVE  PoolInv'
<1>. USE DEF settingVars
<1>0. TypeOK /\ AccountsExact /\ k \in Connections /\ stage[k] = "idle" /\ Settles(k, "closing")
  BY DEF PoolInv, In, DeleteConnection, Settles
<1>1. /\ stage' = [stage EXCEPT ![k] = "closing"]
      /\ stage'[k] = "closing" /\ \A j \in Connections : j # k => stage'[j] = stage[j]
  BY <1>0 DEF TypeOK, DeleteConnection
<1>2. /\ stage' \in [Connections -> Stages]
      /\ sizeUsed' \in Nat /\ sizeUsed' = Cardinality(AtStages(UnitStages))'
      /\ used' \in Nat /\ used' = Cardinality(AtStages(UsedStages))'
  BY <1>0, <1>1, UnitsMove DEF Stages, UnitStages, UsedStages
<1>3. waitCount' = Cardinality(AtLabels(WaitLabels))'
  BY <1>0, WaitStays
<1>4. /\ sleepers' \in Seq(Requests) /\ unlucky' \subseteq Requests /\ late' \subseteq Connections
      /\ SleepersFit' /\ IdleIsOffered' /\ Bounded'
  BY <1>0, SettleStep
<1>5. TypeOK'
  BY <1>0, <1>2, <1>4 DEF TypeOK
<1>6. AccountsExact'
  BY <1>2, <1>3, <1>5, AccountsPrimed
<1>7. Owned' /\ OneOwner'
  <2>1. mpc' \in {"next", "ping", "close"} => mcount' > 0
    BY DEF PoolInv, Owned
  <2>. QED
    BY <1>0, <1>1, <2>1, OwnersStay
<1>8. PhaseFits'
  <2>1. \A j \in Connections : stage'[j] # "leaked"
    BY <1>1 DEF PoolInv, PhaseFits, In
  <2>. QED
    BY <2>1, PhaseStaysLive
<1>. QED
  BY <1>4, <1>5, <1>6, <1>7, <1>8 DEF PoolInv

LEMMA PopNoblockStep ==
    ASSUME PoolInv, NEW r \in Requests, PopNoblock(r)
    PROVE  PoolInv'
<1>0. TypeOK /\ pc[r] = "pop" /\ phase = "live"
  BY ActiveIsLive DEF PoolInv, PopNoblock
<1>1. CASE \E k \in In("idle") :
             /\ DeleteConnection(k) /\ (UNCHANGED faults \/ Fault)
             /\ UNCHANGED <<pc, conn, seen, cancelled, used, ver, sizeUsed, errors, late, sleepers, waitCount,
                            swallowed, phase>>
             /\ UNCHANGED settingVars /\ UNCHANGED maintVars
  <2>1. faults' \in 0..MaxFaults /\ dropLeft' \in 0..IdleDropLimit /\ mver' \in Nat
    BY <1>0, <1>1, FaultTypes DEF TypeOK, maintVars
  <2>. QED
    BY <1>0, <1>1, <2>1, IdleDeleted DEF maintVars
<1>2. CASE \E k \in In("idle") :
             /\ Take(r, k) /\ seen' = [seen EXCEPT ![r] = 0] /\ cancelled' = cancelled \ {r}
             /\ UNCHANGED <<unlucky, faults, ver, sizeUsed, errors, late, sleepers, waitCount, swallowed, phase>>
             /\ UNCHANGED settingVars /\ UNCHANGED maintVars
  <2>1. seen' \in [Requests -> Nat]
    BY <1>0, <1>2 DEF TypeOK
  <2>. QED
    BY <1>0, <1>2, <2>1, TakeStep
<1>3. CASE /\ pc' = [pc EXCEPT ![r] = "queue"] /\ seen' = [seen EXCEPT ![r] = 0]
           /\ UNCHANGED <<stage, conn, cancelled, unlucky, used, faults, ver, sizeUsed, errors, late, sleepers,
                          waitCount, swallowed, phase>>
           /\ UNCHANGED settingVars /\ UNCHANGED maintVars
  <2>. USE DEF settingVars, maintVars
  <2>1. /\ pc' \in [Requests -> Labels] /\ waitCount' \in Nat
        /\ pc'[r] = "queue" /\ \A q \in Requests : q # r => pc'[q] = pc[q]
        /\ TypeOK' => AccountsExact'
        /\ Owned' /\ OneOwner' /\ Bounded' /\ PhaseFits'
    BY <1>0, <1>3, RequestMove DEF Labels, WaitLabels
  <2>2. TypeOK'
    BY <1>0, <1>3, <2>1 DEF TypeOK
  <2>3. SleepersFit' /\ IdleIsOffered'
    BY <1>0, <1>3, <2>1, AwakeMove
  <2>. QED
    BY <2>1, <2>2, <2>3 DEF PoolInv
<1>. QED
  BY <1>1, <1>2, <1>3 DEF PopNoblock

\* A request leaves Pop without a connection, or sleeps.
LEMMA PopBlockingStep ==
    ASSUME PoolInv, NEW r \in Requests, PopBlocking(r)
    PROVE  PoolInv'
<1>0. /\ TypeOK /\ SleepersFit /\ phase = "live" /\ pc[r] \in {"wait", "asleep"}
      /\ Sleeping \subseteq Requests /\ r \notin Sleeping /\ (pc[r] = "asleep" => Woken(r))
  <2>1. TypeOK /\ SleepersFit /\ pc[r] \in {"wait", "asleep"} /\ Sleeping \subseteq Requests
    BY SleepersSleep DEF PoolInv, PopBlocking, Woken
  <2>. QED
    BY <2>1, ActiveIsLive DEF SleepersFit, PopBlocking, Woken
<1>1. /\ UNCHANGED <<ver, sizeUsed, errors, late, seen, phase, faults>>
      /\ UNCHANGED settingVars /\ UNCHANGED maintVars
  BY DEF PopBlocking
<1>2. CASE \E k \in In("idle") : Take(r, k) /\ EndPop(r) /\ UNCHANGED <<sleepers, swallowed>>
  <2>1. seen' \in [Requests -> Nat]
    BY <1>0, <1>1 DEF TypeOK
  <2>2. PICK k \in In("idle") : Take(r, k) /\ EndPop(r) /\ UNCHANGED <<sleepers, swallowed>>
    BY <1>2
  <2>3. pc[r] = "wait" \/ Woken(r)
    BY DEF PopBlocking
  <2>. QED
    BY <1>0, <1>1, <2>1, <2>2, <2>3, TakeStep DEF EndPop
<1>3. CASE /\ Leave(r) /\ EndPop(r) /\ swallowed' = (swallowed \/ Woken(r))
           /\ UNCHANGED <<stage, conn, sleepers, used>>
  <2>. USE DEF settingVars, maintVars, Leave, EndPop
  <2>1. /\ pc' \in [Requests -> Labels] /\ waitCount' \in Nat
        /\ pc'[r] = "done" /\ \A q \in Requests : q # r => pc'[q] = pc[q]
        /\ TypeOK' => AccountsExact'
        /\ Owned' /\ OneOwner' /\ Bounded' /\ PhaseFits'
    BY <1>0, <1>1, <1>3, RequestMove DEF Labels, WaitLabels
  <2>2. TypeOK'
    <3>1. /\ stage' \in [Connections -> Stages] /\ sizeUsed' \in Nat /\ used' \in Nat /\ late' \subseteq Connections
          /\ seen' \in [Requests -> Nat] /\ conn' \in [Requests -> Connections \cup {NoConnection}]
          /\ cancelled' \subseteq Requests /\ unlucky' \subseteq Requests
          /\ sleepers' \in Seq(Requests) /\ faults' \in 0..MaxFaults
      BY <1>0, <1>1, <1>3 DEF TypeOK
    <3>2. swallowed' \in BOOLEAN
      BY <1>3
    <3>. QED
      BY <1>0, <1>1, <1>3, <2>1, <3>1, <3>2, RequestTypes
  <2>3. SleepersFit' /\ IdleIsOffered'
    <3>1. CASE pc[r] = "wait"
      BY <1>0, <1>3, <2>1, <3>1, AwakeMove
    <3>2. CASE pc[r] = "asleep"
      <4>1. swallowed' /\ Sleeping' = Sleeping
        BY <1>0, <1>3, <3>2 DEF Sleeping
      <4>2. SleepersFit'
        BY <1>0, <1>3, <2>1, <4>1 DEF SleepersFit
      <4>. QED
        BY <4>1, <4>2 DEF IdleIsOffered
    <3>. QED
      BY <1>0, <3>1, <3>2
  <2>. QED
    BY <2>1, <2>2, <2>3 DEF PoolInv
<1>4. CASE /\ In("idle") = {} /\ pc' = [pc EXCEPT ![r] = "asleep"] /\ sleepers' = Append(sleepers, r)
           /\ UNCHANGED <<stage, conn, cancelled, waitCount, unlucky, swallowed, used>>
  <2>. USE DEF settingVars, maintVars
  <2>1. /\ pc' \in [Requests -> Labels] /\ waitCount' \in Nat
        /\ pc'[r] = "asleep" /\ \A q \in Requests : q # r => pc'[q] = pc[q]
        /\ TypeOK' => AccountsExact'
        /\ Owned' /\ OneOwner' /\ Bounded' /\ PhaseFits'
    BY <1>0, <1>1, <1>4, RequestMove DEF Labels, WaitLabels
  <2>2. /\ sleepers' \in Seq(Requests) /\ Sleeping' = Sleeping \cup {r}
        /\ \A i, j \in DOMAIN sleepers' : sleepers'[i] = sleepers'[j] => i = j
    BY <1>0, <1>4, AppendRequest
  <2>3. TypeOK'
    BY <1>0, <1>1, <1>4, <2>1, <2>2, RequestTypes DEF TypeOK
  <2>4. SleepersFit'
    BY <1>0, <2>1, <2>2 DEF SleepersFit
  <2>5. IdleIsOffered'
    <3>1. In("idle")' = {} /\ Cardinality(In("idle")') = 0 /\ Cardinality(In("idle"))' = Cardinality(In("idle")')
      BY <1>4, FS_EmptySet DEF In
    <3>2. Cardinality({q \in Requests : Woken(q)})' \in Nat
      <4>. DEFINE woken == {q \in Requests : Woken(q)}
      <4>1. woken' \subseteq Requests
        OBVIOUS
      <4>2. Cardinality(woken') \in Nat
        BY <4>1, FiniteSets
      <4>. QED
        BY <4>2
    <3>. QED
      BY <3>1, <3>2 DEF IdleIsOffered
  <2>. QED
    BY <2>1, <2>3, <2>4, <2>5 DEF PoolInv
<1>. QED
  BY <1>2, <1>3, <1>4 DEF PopBlocking

-----------------------------------------------------------------------------
\* TryCreateConnectionAsync

LEMMA StartMoves ==
    ASSUME PoolInv, NEW s \in {"slot", "lock"}, Start(s), UNCHANGED <<settings, used>>,
           s = "slot" => sizeUsed < settings.max_size /\ sizeUsed' = sizeUsed + 1,
           s = "lock" => Cardinality(ConnectTasks) <= PendingConnectsMax /\ sizeUsed' = sizeUsed
    PROVE  /\ stage' \in [Connections -> Stages] /\ ver' \in [Connections -> Nat]
           /\ sizeUsed' \in Nat /\ sizeUsed' = Cardinality(AtStages(UnitStages))'
           /\ used' \in Nat /\ used' = Cardinality(AtStages(UsedStages))'
           /\ Bounded'
           /\ \A j \in Connections : stage'[j] = stage[j] \/ (stage[j] = "none" /\ stage'[j] \in {"slot", "lock"})
<1>0. TypeOK /\ AccountsExact /\ Bounded
  BY DEF PoolInv
<1>1. PICK k \in Connections : /\ stage[k] = "none" /\ stage' = [stage EXCEPT ![k] = s]
                               /\ ver' = [ver EXCEPT ![k] = version]
  BY DEF Start, In
<1>2. stage'[k] = s /\ \A j \in Connections : j # k => stage'[j] = stage[j]
  BY <1>0, <1>1 DEF TypeOK
<1>3. /\ stage' \in [Connections -> Stages]
      /\ sizeUsed' \in Nat /\ sizeUsed' = Cardinality(AtStages(UnitStages))'
      /\ used' \in Nat /\ used' = Cardinality(AtStages(UsedStages))'
  BY <1>0, <1>1, UnitsMove DEF Stages, UnitStages, UsedStages
<1>4. ver' \in [Connections -> Nat]
  BY <1>0, <1>1 DEF TypeOK
<1>5. Bounded'
  <2>1. CASE s = "slot"
    <3>1. sizeUsed' <= LargestSize
      BY <1>0, <2>1, SizesFit
    <3>. QED
      BY <1>0, <1>2, <2>1, <3>1, BoundsStay DEF Bounded
  <2>2. CASE s = "lock"
    <3>. DEFINE locks == In("lock")
    <3>1. locks' = locks \cup {k} /\ k \notin locks /\ locks \subseteq ConnectTasks /\ ConnectTasks \subseteq Connections
      BY <1>1, <1>2, <2>2 DEF In, ConnectTasks, Connecting
    <3>2. IsFiniteSet(ConnectTasks) /\ Cardinality(ConnectTasks) \in Nat
      BY <3>1, FiniteSets
    <3>3. IsFiniteSet(locks) /\ Cardinality(locks) \in Nat /\ Cardinality(locks) <= Cardinality(ConnectTasks)
      BY <3>1, <3>2, FS_Subset, FiniteSets
    <3>4. Cardinality(locks') <= PendingConnectsMax + 1
      <4>. HIDE DEF locks
      <4>1. Cardinality(locks') = Cardinality(locks) + 1
        BY <3>1, <3>3, OneMore
      <4>. QED
        BY <2>2, <3>2, <3>3, <4>1, Sizes
    <3>. QED
      BY <1>0, <2>2, <3>4 DEF Bounded
  <2>. QED
    BY <2>1, <2>2
<1>. QED
  BY <1>1, <1>2, <1>3, <1>4, <1>5

LEMMA TryCreateMoves ==
    ASSUME PoolInv, TryCreateConnectionAsync \/ UNCHANGED <<stage, ver, sizeUsed, unlucky>>,
           UNCHANGED <<settings, used>>
    PROVE  /\ stage' \in [Connections -> Stages] /\ ver' \in [Connections -> Nat]
           /\ sizeUsed' \in Nat /\ sizeUsed' = Cardinality(AtStages(UnitStages))'
           /\ used' \in Nat /\ used' = Cardinality(AtStages(UsedStages))'
           /\ Bounded' /\ unlucky' \subseteq Requests
           /\ \A j \in Connections : stage'[j] = stage[j] \/ (stage[j] = "none" /\ stage'[j] \in {"slot", "lock"})
<1>0. TypeOK /\ AccountsExact /\ Bounded
  BY DEF PoolInv
<1>1. CASE \E s \in {"slot", "lock"} :
              /\ Start(s) /\ UNCHANGED unlucky
              /\ s = "slot" => sizeUsed < settings.max_size /\ sizeUsed' = sizeUsed + 1
              /\ s = "lock" => Cardinality(ConnectTasks) <= PendingConnectsMax /\ sizeUsed' = sizeUsed
  <2>1. unlucky' = unlucky /\ unlucky \subseteq Requests
    BY <1>0, <1>1 DEF TypeOK
  <2>. QED
    BY <1>1, <2>1, StartMoves
<1>2. CASE UNCHANGED <<stage, ver, sizeUsed>> /\ (unlucky' = unlucky \cup Queued \/ UNCHANGED unlucky)
  <2>1. unlucky' \subseteq Requests /\ ver' \in [Connections -> Nat]
    BY <1>0, <1>2 DEF TypeOK, Queued
  <2>2. /\ stage' \in [Connections -> Stages]
        /\ sizeUsed' \in Nat /\ sizeUsed' = Cardinality(AtStages(UnitStages))'
        /\ used' \in Nat /\ used' = Cardinality(AtStages(UsedStages))'
    BY <1>0, <1>2, UnitsStay
  <2>3. Bounded'
    BY <1>0, <1>2, BoundsStay DEF Bounded
  <2>. QED
    BY <1>2, <2>1, <2>2, <2>3
<1>. QED
  BY <1>1, <1>2 DEF TryCreateConnectionAsync

LEMMA CreateStep ==
    ASSUME PoolInv, NEW r \in Requests, Create(r)
    PROVE  PoolInv'
<1>. USE DEF settingVars, maintVars
<1>0. TypeOK /\ AccountsExact /\ SleepersFit /\ pc[r] = "create" /\ phase = "live"
  BY ActiveIsLive DEF PoolInv, Create
<1>1. /\ TryCreateConnectionAsync /\ pc' = [pc EXCEPT ![r] = "wait"]
      /\ UNCHANGED <<errors, late, settingVars, conn, seen, cancelled, sleepers, waitCount, swallowed, maintVars,
                     used, phase, faults>>
  BY DEF Create
<1>2. pc'[r] = "wait" /\ \A q \in Requests : q # r => pc'[q] = pc[q]
  BY <1>0, <1>1 DEF TypeOK
<1>3. /\ stage' \in [Connections -> Stages] /\ ver' \in [Connections -> Nat]
      /\ sizeUsed' \in Nat /\ sizeUsed' = Cardinality(AtStages(UnitStages))'
      /\ used' \in Nat /\ used' = Cardinality(AtStages(UsedStages))'
      /\ Bounded' /\ unlucky' \subseteq Requests
      /\ \A j \in Connections : stage'[j] = stage[j] \/ (stage[j] = "none" /\ stage'[j] \in {"slot", "lock"})
  BY <1>1, TryCreateMoves
<1>4. /\ pc' \in [Requests -> Labels]
      /\ waitCount' \in Nat /\ waitCount' = Cardinality(AtLabels(WaitLabels))'
  BY <1>0, <1>1, WaitMoves DEF Labels, WaitLabels
<1>5. TypeOK'
  <2>1. /\ settings' \in PoolSettings
        /\ {version', ccMax', sizeUsed', errors', waitCount', used', mcount', mmin', mver'} \subseteq Nat
        /\ conn' \in [Requests -> Connections \cup {NoConnection}] /\ seen' \in [Requests -> Nat]
    <3>1. /\ {version, ccMax, errors, used, mcount, mmin, mver} \subseteq Nat
          /\ UNCHANGED <<version, ccMax, errors, used, mcount, mmin, mver>>
      BY <1>0, <1>1 DEF TypeOK
    <3>2. sizeUsed' \in Nat /\ waitCount' \in Nat
      BY <1>3, <1>4
    <3>3. {version', ccMax', sizeUsed', errors', waitCount', used', mcount', mmin', mver'} \subseteq Nat
      BY <3>1, <3>2
    <3>4. /\ settings' \in PoolSettings
          /\ conn' \in [Requests -> Connections \cup {NoConnection}] /\ seen' \in [Requests -> Nat]
      BY <1>0, <1>1 DEF TypeOK
    <3>. QED
      BY <3>3, <3>4
  <2>2. /\ cancelled' \subseteq Requests /\ late' \subseteq Connections /\ sleepers' \in Seq(Requests)
        /\ swallowed' \in BOOLEAN
    BY <1>0, <1>1 DEF TypeOK
  <2>3. /\ mpc' \in {"rest", "acquire", "next", "ping", "close", "check"} /\ mconn' \in Connections \cup {NoConnection}
        /\ dropLeft' \in 0..IdleDropLimit
        /\ phase' \in {"live", "stopMaintain", "stopConnect", "drain", "closeTasks", "destroyed"}
        /\ updates' \in 0..MaxUpdates /\ faults' \in 0..MaxFaults
    BY <1>0, <1>1 DEF TypeOK
  <2>4. unlucky' \subseteq Requests
    BY <1>3
  <2>5. stage' \in [Connections -> Stages] /\ ver' \in [Connections -> Nat] /\ pc' \in [Requests -> Labels]
    BY <1>3, <1>4
  <2>. QED
    BY <2>1, <2>2, <2>3, <2>4, <2>5 DEF TypeOK
<1>6. AccountsExact'
  BY <1>3, <1>4, <1>5, AccountsPrimed
<1>7. Owned' /\ OneOwner'
  <2>1. mpc' \in {"next", "ping", "close"} => mcount' > 0
    BY <1>1 DEF PoolInv, Owned
  <2>2. \A k \in Connections : /\ stage'[k] = "held" <=> stage[k] = "held"
                               /\ stage'[k] = "pinged" <=> stage[k] = "pinged"
    BY <1>3
  <2>. QED
    BY <1>0, <1>1, <1>2, <2>1, <2>2, OwnersStay
<1>8. Sleeping' = Sleeping /\ r \notin Sleeping /\ SleepersFit'
  <2>1. r \notin Sleeping
    BY <1>0 DEF SleepersFit
  <2>2. Sleeping' = Sleeping
    BY <1>1 DEF Sleeping
  <2>3. Sleeping \subseteq Requests
    BY <1>0, SleepersSleep
  <2>. QED
    BY <1>0, <1>1, <1>2, <2>1, <2>2, <2>3 DEF SleepersFit
<1>9. IdleIsOffered'
  <2>1. \A k \in Connections : stage'[k] = "idle" => stage[k] = "idle"
    BY <1>3
  <2>2. \A q \in Requests : Woken(q) => Woken(q)'
    BY <1>0, <1>2, <1>8 DEF Woken
  <2>. QED
    BY <1>1, <2>1, <2>2, OffersStay
<1>10. PhaseFits'
  <2>1. \A k \in Connections : stage'[k] # "leaked"
    BY <1>0, <1>3 DEF PoolInv, PhaseFits, In
  <2>. QED
    BY <1>0, <1>1, <2>1, PhaseStaysLive
<1>. QED
  BY <1>3, <1>5, <1>6, <1>7, <1>8, <1>9, <1>10 DEF PoolInv

-----------------------------------------------------------------------------
\* Release, by a request or by the maintenance task

LEMMA ReleaseSettles ==
    ASSUME TypeOK, NEW k \in Connections, Release(k)
    PROVE  /\ faults' \in 0..MaxFaults
           /\ \/ (\E s \in {"idle", "closing"} : Settles(k, s)) /\ used' = used - 1
              \/ stage' = [stage EXCEPT ![k] = "cleanup"] /\ UNCHANGED <<sleepers, unlucky, late, used>>
<1>1. CASE Fault /\ DeleteConnection(k) /\ used' = used - 1 /\ UNCHANGED <<sleepers, late>>
  <2>1. Settles(k, "closing")
    BY <1>1 DEF DeleteConnection, Settles
  <2>. QED
    BY <1>1, <2>1, FaultTypes
<1>2. CASE Push(k) /\ used' = used - 1
  BY <1>2, PushSettles
<1>3. CASE /\ Fault /\ stage' = [stage EXCEPT ![k] = "cleanup"]
           /\ UNCHANGED <<sleepers, unlucky, late, used>>
  BY <1>3, FaultTypes
<1>. QED
  BY <1>1, <1>2, <1>3 DEF Release

\* What becomes of the connection, whoever releases it.
LEMMA ReleaseMoves ==
    ASSUME PoolInv, NEW k \in Connections, stage[k] \in {"held", "pinged"}, Release(k),
           \A r \in Requests : pc'[r] = "asleep" <=> pc[r] = "asleep",
           UNCHANGED <<swallowed, settings, sizeUsed>>
    PROVE  /\ stage' \in [Connections -> Stages]
           /\ stage'[k] \in {"idle", "closing", "cleanup"} /\ \A j \in Connections : j # k => stage'[j] = stage[j]
           /\ sizeUsed' \in Nat /\ sizeUsed' = Cardinality(AtStages(UnitStages))'
           /\ used' \in Nat /\ used' = Cardinality(AtStages(UsedStages))'
           /\ faults' \in 0..MaxFaults
           /\ sleepers' \in Seq(Requests) /\ unlucky' \subseteq Requests /\ late' \subseteq Connections
           /\ SleepersFit' /\ IdleIsOffered' /\ Bounded'
           /\ late' = late
<1>0. TypeOK /\ AccountsExact /\ SleepersFit /\ Bounded
  BY DEF PoolInv
<1>1. faults' \in 0..MaxFaults
  BY <1>0, ReleaseSettles
<1>2. CASE (\E s \in {"idle", "closing"} : Settles(k, s)) /\ used' = used - 1
  <2>1. PICK s \in {"idle", "closing"} : Settles(k, s)
    BY <1>2
  <2>2. /\ stage' = [stage EXCEPT ![k] = s]
        /\ stage'[k] = s /\ \A j \in Connections : j # k => stage'[j] = stage[j]
    BY <1>0, <2>1 DEF Settles, TypeOK
  <2>3. /\ stage' \in [Connections -> Stages]
        /\ sizeUsed' \in Nat /\ sizeUsed' = Cardinality(AtStages(UnitStages))'
        /\ used' \in Nat /\ used' = Cardinality(AtStages(UsedStages))'
    BY <1>0, <1>2, <2>2, UnitsMove DEF Stages, UnitStages, UsedStages
  <2>4. /\ sleepers' \in Seq(Requests) /\ unlucky' \subseteq Requests /\ late' \subseteq Connections
        /\ SleepersFit' /\ IdleIsOffered' /\ Bounded'
    BY <2>1, SettleStep
  <2>5. late' = late
    BY <2>1 DEF Settles, Enqueue
  <2>. QED
    BY <1>1, <2>2, <2>3, <2>4, <2>5
<1>3. CASE stage' = [stage EXCEPT ![k] = "cleanup"] /\ UNCHANGED <<sleepers, unlucky, late, used>>
  <2>1. stage'[k] = "cleanup" /\ \A j \in Connections : j # k => stage'[j] = stage[j]
    BY <1>0, <1>3 DEF TypeOK
  <2>2. /\ stage' \in [Connections -> Stages]
        /\ sizeUsed' \in Nat /\ sizeUsed' = Cardinality(AtStages(UnitStages))'
        /\ used' \in Nat /\ used' = Cardinality(AtStages(UsedStages))'
    BY <1>0, <1>3, UnitsMove DEF Stages, UnitStages, UsedStages
  <2>3. /\ Sleeping' = Sleeping /\ Sleeping \subseteq Requests
        /\ sleepers' \in Seq(Requests) /\ unlucky' \subseteq Requests /\ late' \subseteq Connections
    BY <1>0, <1>3 DEF Sleeping, TypeOK
  <2>4. SleepersFit'
    BY <1>0, <1>3, <2>3 DEF SleepersFit
  <2>5. IdleIsOffered'
    BY <1>3, <2>1, <2>3, OffersStay DEF Woken
  <2>6. Bounded'
    BY <1>0, <2>1, BoundsStay DEF Bounded
  <2>. QED
    BY <1>1, <1>3, <2>1, <2>2, <2>3, <2>4, <2>5, <2>6
<1>. QED
  BY <1>0, <1>2, <1>3, ReleaseSettles

LEMMA ReleaseHeldStep ==
    ASSUME PoolInv, NEW r \in Requests, ReleaseHeld(r)
    PROVE  PoolInv'
<1>. USE DEF settingVars, maintVars
<1>0. TypeOK /\ AccountsExact /\ Owned /\ OneOwner /\ pc[r] = "holding" /\ phase = "live"
  BY ActiveIsLive DEF PoolInv, ReleaseHeld
<1>1. PICK k : k = conn[r]
  OBVIOUS
<1>2. /\ Release(k) /\ pc' = [pc EXCEPT ![r] = "done"] /\ conn' = [conn EXCEPT ![r] = NoConnection]
      /\ UNCHANGED <<ver, sizeUsed, errors, settingVars, seen, cancelled, waitCount, swallowed, maintVars, phase>>
  BY <1>1 DEF ReleaseHeld, Leave
<1>3. k \in Connections /\ stage[k] = "held"
  BY <1>0, <1>1 DEF Owned, OneOwner
<1>4. /\ pc'[r] = "done" /\ \A q \in Requests : q # r => pc'[q] = pc[q]
      /\ conn'[r] = NoConnection /\ \A q \in Requests : q # r => conn'[q] = conn[q]
  BY <1>0, <1>2 DEF TypeOK
<1>5. \A q \in Requests : pc'[q] = "asleep" <=> pc[q] = "asleep"
  BY <1>0, <1>4
<1>6. /\ stage' \in [Connections -> Stages]
      /\ stage'[k] \in {"idle", "closing", "cleanup"} /\ \A j \in Connections : j # k => stage'[j] = stage[j]
      /\ sizeUsed' \in Nat /\ sizeUsed' = Cardinality(AtStages(UnitStages))'
      /\ used' \in Nat /\ used' = Cardinality(AtStages(UsedStages))'
      /\ faults' \in 0..MaxFaults
      /\ sleepers' \in Seq(Requests) /\ unlucky' \subseteq Requests /\ late' \subseteq Connections
      /\ SleepersFit' /\ IdleIsOffered' /\ Bounded'
      /\ late' = late
  BY <1>2, <1>3, <1>5, ReleaseMoves
<1>7. /\ pc' \in [Requests -> Labels]
      /\ waitCount' \in Nat /\ waitCount' = Cardinality(AtLabels(WaitLabels))'
  BY <1>0, <1>2, WaitMoves DEF Labels, WaitLabels
<1>8. TypeOK'
  <2>1. /\ conn' \in [Requests -> Connections \cup {NoConnection}] /\ seen' \in [Requests -> Nat]
        /\ cancelled' \subseteq Requests /\ swallowed' \in BOOLEAN
    BY <1>0, <1>2 DEF TypeOK
  <2>. QED
    BY <1>0, <1>2, <1>6, <1>7, <2>1, RequestTypes
<1>9. AccountsExact'
  BY <1>6, <1>7, <1>8, AccountsPrimed
<1>10. Owned' /\ OneOwner'
  <2>1. \A q \in Requests : q # r /\ pc[q] = "holding" => conn[q] # k /\ conn[q] \in Connections
    BY <1>0, <1>1 DEF Owned, OneOwner
  <2>2. mpc = "ping" => mconn # k /\ mconn \in Connections
    BY <1>0, <1>3 DEF Owned, OneOwner
  <2>3. \A j \in Connections : stage'[j] = "held" => \E q \in Requests : pc'[q] = "holding" /\ conn'[q] = j
    <3>. SUFFICES ASSUME NEW j \in Connections, stage'[j] = "held"
                  PROVE  \E q \in Requests : pc'[q] = "holding" /\ conn'[q] = j
      OBVIOUS
    <3>1. j # k /\ stage[j] = "held"
      BY <1>6
    <3>2. PICK q \in Requests : pc[q] = "holding" /\ conn[q] = j
      BY <1>0, <3>1 DEF Owned, In
    <3>. QED
      BY <1>1, <1>4, <3>1, <3>2
  <2>4. Owned'
    BY <1>0, <1>2, <1>4, <1>6, <2>1, <2>2, <2>3 DEF Owned, In
  <2>5. OneOwner'
    BY <1>0, <1>2, <1>4, <1>6, <2>1, <2>2 DEF OneOwner
  <2>. QED
    BY <2>4, <2>5
<1>11. PhaseFits'
  <2>1. \A j \in Connections : stage'[j] # "leaked"
    BY <1>0, <1>6 DEF PoolInv, PhaseFits, In
  <2>. QED
    BY <1>0, <1>2, <1>6, <2>1, PhaseStaysLive
<1>. QED
  BY <1>6, <1>8, <1>9, <1>10, <1>11 DEF PoolInv

-----------------------------------------------------------------------------
\* MaintainConnections

LEMMA MaintenancePhase ==
    ASSUME PoolInv, mpc # "rest"
    PROVE  phase \in {"live", "stopMaintain"}
  BY DEF PoolInv, PhaseFits

\* The maintenance task goes on to its next turn or to its check.
LEMMA MaintenanceMove ==
    ASSUME PoolInv, mpc # "ping", mpc' \in {"acquire", "next", "check"}, phase \in {"live", "stopMaintain"},
           mconn' \in Connections \cup {NoConnection}, mcount' \in Nat, dropLeft' \in 0..IdleDropLimit, mmin' \in Nat,
           mver' \in Nat, mpc' = "next" => mcount' > 0,
           UNCHANGED poolVars, UNCHANGED settingVars, UNCHANGED requestVars, UNCHANGED <<used, phase, faults>>
    PROVE  PoolInv'
<1>. USE DEF poolVars, settingVars, requestVars
<1>1. TypeOK'
  BY DEF PoolInv, TypeOK
<1>2. Owned' /\ OneOwner'
  BY OwnersStay
<1>3. AccountsExact' /\ SleepersFit'
  BY DEF PoolInv, AccountsExact, SleepersFit, In, Queued, Sleeping
<1>4. IdleIsOffered' /\ Bounded'
  BY DEF PoolInv, IdleIsOffered, Bounded, In, Woken, Sleeping
<1>5. PhaseFits'
  <2>1. \A k \in Connections : stage'[k] # "leaked"
    BY DEF PoolInv, PhaseFits, In
  <2>. QED
    BY <2>1, PhaseStaysLive
<1>. QED
  BY <1>1, <1>2, <1>3, <1>4, <1>5 DEF PoolInv

LEMMA MaintainConnectionsStep ==
    ASSUME PoolInv, MaintainConnections
    PROVE  PoolInv'
<1>1. /\ mconn' \in Connections \cup {NoConnection} /\ mcount' \in Nat /\ dropLeft' \in 0..IdleDropLimit
      /\ mmin' \in Nat /\ mver' \in Nat
  BY Sizes DEF MaintainConnections, PoolInv, TypeOK, PoolSettings
<1>. QED
  BY <1>1, MaintenanceMove DEF MaintainConnections

LEMMA AcquireImmediateStep ==
    ASSUME PoolInv, AcquireImmediate
    PROVE  PoolInv'
<1>1. /\ mconn' \in Connections \cup {NoConnection} /\ mcount' \in Nat /\ dropLeft' \in 0..IdleDropLimit
      /\ mmin' \in Nat /\ mver' \in Nat
  BY DEF AcquireImmediate, PoolInv, TypeOK
<1>2. phase \in {"live", "stopMaintain"}
  BY MaintenancePhase DEF AcquireImmediate
<1>. QED
  BY <1>1, <1>2, MaintenanceMove DEF AcquireImmediate

LEMMA DroppedStep ==
    ASSUME PoolInv, Dropped
    PROVE  PoolInv'
<1>1. mcount > 0 /\ mcount \in Nat
  BY DEF Dropped, PoolInv, Owned, TypeOK
<1>2. /\ mconn' \in Connections \cup {NoConnection} /\ mcount' \in Nat /\ dropLeft' \in 0..IdleDropLimit
      /\ mmin' \in Nat /\ mver' \in Nat
  <2>1. mconn' = NoConnection /\ mcount' = mcount - 1 /\ UNCHANGED <<dropLeft, mmin, mver>>
    BY DEF Dropped, NextTurn
  <2>2. dropLeft \in 0..IdleDropLimit /\ mmin \in Nat /\ mver \in Nat
    BY DEF PoolInv, TypeOK
  <2>. QED
    BY <1>1, <2>1, <2>2
<1>3. phase \in {"live", "stopMaintain"}
  BY MaintenancePhase DEF Dropped
<1>. QED
  BY <1>2, <1>3, MaintenanceMove DEF Dropped, NextTurn

\* A connection is taken from the queue to be pinged.
LEMMA PingStep ==
    ASSUME PoolInv, NEW k \in In("idle"), mpc = "next", mcount > 0, stage' = [stage EXCEPT ![k] = "pinged"],
           used' = used + 1, mpc' = "ping", mconn' = k, mver' \in Nat,
           UNCHANGED <<dropLeft, unlucky, faults, ver, sizeUsed, errors, late, mcount, mmin, phase>>,
           UNCHANGED settingVars, UNCHANGED requestVars
    PROVE  PoolInv'
<1>. USE DEF settingVars, requestVars
<1>0. /\ TypeOK /\ AccountsExact /\ Owned /\ OneOwner /\ SleepersFit /\ Bounded
      /\ k \in Connections /\ stage[k] = "idle" /\ phase \in {"live", "stopMaintain"}
  BY MaintenancePhase DEF PoolInv, In
<1>1. stage'[k] = "pinged" /\ \A j \in Connections : j # k => stage'[j] = stage[j]
  BY <1>0 DEF TypeOK
<1>2. /\ stage' \in [Connections -> Stages]
      /\ sizeUsed' \in Nat /\ sizeUsed' = Cardinality(AtStages(UnitStages))'
      /\ used' \in Nat /\ used' = Cardinality(AtStages(UsedStages))'
  BY <1>0, UnitsMove DEF Stages, UnitStages, UsedStages
<1>3. waitCount' = Cardinality(AtLabels(WaitLabels))'
  BY <1>0, WaitStays
<1>4. TypeOK'
  BY <1>0, <1>2 DEF TypeOK
<1>5. AccountsExact'
  BY <1>2, <1>3, <1>4, AccountsPrimed
<1>6. Owned' /\ OneOwner'
  <2>1. \A q \in Requests : pc[q] = "holding" => conn[q] # k /\ conn[q] \in Connections
    BY <1>0 DEF Owned, OneOwner
  <2>2. Owned'
    BY <1>0, <1>1, <2>1 DEF Owned, In
  <2>3. OneOwner'
    BY <1>0, <1>1, <2>1 DEF OneOwner
  <2>. QED
    BY <2>2, <2>3
<1>7. SleepersFit' /\ Sleeping' = Sleeping
  BY <1>0 DEF SleepersFit, Sleeping
<1>8. IdleIsOffered'
  BY <1>0, <1>1, <1>7, OffersStay DEF Woken
<1>9. Bounded'
  BY <1>0, <1>1, BoundsStay DEF Bounded
<1>10. PhaseFits'
  <2>1. \A j \in Connections : stage'[j] # "leaked"
    BY <1>0, <1>1 DEF PoolInv, PhaseFits, In
  <2>. QED
    BY <1>0, <2>1, PhaseStaysLive
<1>. QED
  BY <1>4, <1>5, <1>6, <1>7, <1>8, <1>9, <1>10 DEF PoolInv

LEMMA MaintainStepKeeps ==
    ASSUME PoolInv, Maintain
    PROVE  PoolInv'
<1>0. TypeOK /\ mpc = "next" /\ mcount > 0 /\ phase \in {"live", "stopMaintain"}
  BY MaintenancePhase DEF PoolInv, Maintain, Owned
<1>1. /\ UNCHANGED <<ver, sizeUsed, errors, late, mcount, mmin, phase>>
      /\ UNCHANGED settingVars /\ UNCHANGED requestVars
      /\ mver' \in Nat
  BY <1>0 DEF Maintain, TypeOK
<1>2. CASE \E k \in In("idle") :
              /\ DeleteConnection(k) /\ UNCHANGED used
              /\ \/ UNCHANGED <<mpc, mconn, dropLeft>> /\ (UNCHANGED faults \/ Fault)
                 \/ mpc' = "close" /\ mconn' = k /\ dropLeft > 0 /\ dropLeft' = dropLeft - 1 /\ UNCHANGED faults
  <2>1. faults' \in 0..MaxFaults /\ dropLeft' \in 0..IdleDropLimit
    <3>1. faults' \in 0..MaxFaults
      BY <1>0, <1>2, FaultTypes DEF TypeOK
    <3>2. dropLeft \in 0..IdleDropLimit /\ IdleDropLimit \in Nat
      BY <1>0, Sizes DEF TypeOK
    <3>3. dropLeft' = dropLeft \/ (dropLeft > 0 /\ dropLeft' = dropLeft - 1)
      BY <1>2
    <3>. QED
      BY <3>1, <3>2, <3>3
  <2>. QED
    BY <1>0, <1>1, <1>2, <2>1, IdleDeleted DEF requestVars
<1>3. CASE \E k \in In("idle") :
              /\ stage' = [stage EXCEPT ![k] = "pinged"] /\ used' = used + 1 /\ mpc' = "ping"
              /\ mconn' = k /\ UNCHANGED <<dropLeft, unlucky, faults>>
  BY <1>0, <1>1, <1>3, PingStep
<1>4. CASE mpc' = "check" /\ UNCHANGED <<stage, mconn, dropLeft, unlucky, used, faults>>
  <2>1. /\ mconn' \in Connections \cup {NoConnection} /\ mcount' \in Nat /\ dropLeft' \in 0..IdleDropLimit
        /\ mmin' \in Nat /\ mver' \in Nat
    BY <1>0, <1>1, <1>4 DEF TypeOK
  <2>. QED
    BY <1>0, <1>1, <1>4, <2>1, MaintenanceMove DEF poolVars
<1>. QED
  BY <1>2, <1>3, <1>4 DEF Maintain

LEMMA PingedStep ==
    ASSUME PoolInv, Pinged
    PROVE  PoolInv'
<1>. USE DEF settingVars
<1>0. /\ TypeOK /\ AccountsExact /\ Owned /\ OneOwner /\ mpc = "ping" /\ phase \in {"live", "stopMaintain"}
      /\ mcount > 0
  BY MaintenancePhase DEF PoolInv, Pinged, Owned
<1>1. PICK k : k = mconn
  OBVIOUS
<1>2. /\ Release(k) /\ mpc' \in {"acquire", "check"} /\ mcount' = mcount - 1 /\ mconn' = NoConnection
      /\ UNCHANGED <<dropLeft, mmin, mver, ver, sizeUsed, errors, settingVars, pc, conn, seen, cancelled, waitCount,
                     swallowed, phase>>
  BY <1>1 DEF Pinged, NextTurn
<1>3. k \in Connections /\ stage[k] = "pinged"
  BY <1>0, <1>1 DEF Owned, OneOwner
<1>4. /\ stage' \in [Connections -> Stages]
      /\ stage'[k] \in {"idle", "closing", "cleanup"} /\ \A j \in Connections : j # k => stage'[j] = stage[j]
      /\ sizeUsed' \in Nat /\ sizeUsed' = Cardinality(AtStages(UnitStages))'
      /\ used' \in Nat /\ used' = Cardinality(AtStages(UsedStages))'
      /\ faults' \in 0..MaxFaults
      /\ sleepers' \in Seq(Requests) /\ unlucky' \subseteq Requests /\ late' \subseteq Connections
      /\ SleepersFit' /\ IdleIsOffered' /\ Bounded'
      /\ late' = late
  BY <1>2, <1>3, ReleaseMoves
<1>5. waitCount' = Cardinality(AtLabels(WaitLabels))'
  BY <1>0, <1>2, WaitStays
<1>6. TypeOK'
  <2>0. mcount \in Nat /\ mcount > 0
    BY <1>0 DEF TypeOK
  <2>1. mcount' \in Nat
    BY <1>2, <2>0
  <2>. QED
    BY <1>0, <1>2, <1>4, <2>1 DEF TypeOK
<1>7. AccountsExact'
  BY <1>4, <1>5, <1>6, AccountsPrimed
<1>8. Owned' /\ OneOwner'
  <2>1. \A q \in Requests : pc[q] = "holding" => conn[q] # k /\ conn[q] \in Connections
    BY <1>0, <1>3 DEF Owned, OneOwner
  <2>2. \A j \in Connections : stage'[j] # "pinged"
    BY <1>0, <1>1, <1>4 DEF Owned, In
  <2>3. Owned'
    BY <1>0, <1>2, <1>4, <2>1, <2>2 DEF Owned, In
  <2>4. OneOwner'
    BY <1>0, <1>2, <1>4, <2>1 DEF OneOwner
  <2>. QED
    BY <2>3, <2>4
<1>9. PhaseFits'
  <2>1. \A j \in Connections : stage'[j] # "leaked"
    BY <1>0, <1>4 DEF PoolInv, PhaseFits, In
  <2>. QED
    BY <1>0, <1>2, <1>4, <2>1, PhaseStaysLive
<1>. QED
  BY <1>4, <1>6, <1>7, <1>8, <1>9 DEF PoolInv

LEMMA CheckMinPoolSizeUnderflowStep ==
    ASSUME PoolInv, CheckMinPoolSizeUnderflow
    PROVE  PoolInv'
<1>. USE DEF settingVars, requestVars
<1>0. TypeOK /\ AccountsExact /\ SleepersFit /\ mpc = "check" /\ phase \in {"live", "stopMaintain"}
  BY MaintenancePhase DEF PoolInv, CheckMinPoolSizeUnderflow
<1>1. /\ mpc' = "rest" /\ mcount' = 0 /\ dropLeft' = 0 /\ mmin' = 0
      /\ TryCreateConnectionAsync \/ UNCHANGED <<stage, ver, sizeUsed, unlucky>>
      /\ UNCHANGED <<errors, late, settingVars, requestVars, mconn, mver, used, phase, faults>>
  BY DEF CheckMinPoolSizeUnderflow
<1>2. /\ stage' \in [Connections -> Stages] /\ ver' \in [Connections -> Nat]
      /\ sizeUsed' \in Nat /\ sizeUsed' = Cardinality(AtStages(UnitStages))'
      /\ used' \in Nat /\ used' = Cardinality(AtStages(UsedStages))'
      /\ Bounded' /\ unlucky' \subseteq Requests
      /\ \A j \in Connections : stage'[j] = stage[j] \/ (stage[j] = "none" /\ stage'[j] \in {"slot", "lock"})
  BY <1>1, TryCreateMoves
<1>3. waitCount' = Cardinality(AtLabels(WaitLabels))'
  BY <1>0, <1>1, WaitStays
<1>4. TypeOK'
  <2>1. dropLeft' \in 0..IdleDropLimit /\ mcount' \in Nat /\ mmin' \in Nat
    BY <1>1, Sizes
  <2>. QED
    BY <1>0, <1>1, <1>2, <2>1 DEF TypeOK
<1>5. AccountsExact'
  BY <1>2, <1>3, <1>4, AccountsPrimed
<1>6. Owned' /\ OneOwner'
  <2>1. \A k \in Connections : /\ stage'[k] = "held" <=> stage[k] = "held"
                               /\ stage'[k] = "pinged" <=> stage[k] = "pinged"
    BY <1>2
  <2>. QED
    BY <1>0, <1>1, <2>1, OwnersStay
<1>7. SleepersFit' /\ Sleeping' = Sleeping
  BY <1>0, <1>1 DEF SleepersFit, Sleeping
<1>8. IdleIsOffered'
  <2>1. \A k \in Connections : stage'[k] = "idle" => stage[k] = "idle"
    BY <1>2
  <2>. QED
    BY <1>1, <1>7, <2>1, OffersStay DEF Woken
<1>9. PhaseFits'
  <2>1. \A k \in Connections : stage'[k] # "leaked"
    BY <1>0, <1>2 DEF PoolInv, PhaseFits, In
  <2>. QED
    BY <1>0, <1>1, <2>1, PhaseStaysLive
<1>. QED
  BY <1>2, <1>4, <1>5, <1>6, <1>7, <1>8, <1>9 DEF PoolInv

-----------------------------------------------------------------------------
\* Settings, and stuttering

LEMMA SettingsMove ==
    ASSUME PoolInv, UNCHANGED <<stage, ver, sizeUsed, unlucky, late, used, phase, faults>>,
           UNCHANGED requestVars, UNCHANGED maintVars,
           errors' \in Nat, version' \in Nat, ccMax' \in Nat, updates' \in 0..MaxUpdates,
           settings' \in PoolSettings, settings'.max_size <= LargestSize
    PROVE  PoolInv'
<1>. USE DEF requestVars, maintVars
<1>1. TypeOK'
  BY DEF PoolInv, TypeOK
<1>2. Owned' /\ OneOwner' /\ SleepersFit'
  BY DEF PoolInv, Owned, OneOwner, SleepersFit, Sleeping, In
<1>3. IdleIsOffered'
  BY DEF PoolInv, IdleIsOffered, In, Woken, Sleeping
<1>4. Bounded'
  BY DEF PoolInv, Bounded, In
<1>5. AccountsExact' /\ PhaseFits'
  BY PhaseStays DEF PoolInv, AccountsExact, In, Queued
<1>. QED
  BY <1>1, <1>2, <1>3, <1>4, <1>5 DEF PoolInv

LEMMA SettingsStep ==
    ASSUME PoolInv,
           \/ ErrorsExpire
           \/ \E n \in CcLimits : SetMaxConnectionsCc(n)
           \/ \E s \in NewSettings : SetSettings(s)
           \/ SetConnectionSettings
           \/ UNCHANGED vars
    PROVE  PoolInv'
<1>0. /\ TypeOK /\ settings.max_size <= LargestSize
      /\ errors \in Nat /\ version \in Nat /\ ccMax \in Nat /\ updates \in 0..MaxUpdates /\ MaxUpdates \in Nat
      /\ settings \in PoolSettings
  BY Sizes DEF PoolInv, TypeOK, Bounded
<1>. USE DEF poolVars
<1>1. CASE ErrorsExpire
  BY <1>0, <1>1, SettingsMove DEF ErrorsExpire, settingVars
<1>2. CASE \E n \in CcLimits : SetMaxConnectionsCc(n)
  <2>1. ccMax' \in Nat
    BY <1>2, PoolAssumption DEF SetMaxConnectionsCc
  <2>. QED
    BY <1>0, <1>2, <2>1, SettingsMove DEF SetMaxConnectionsCc
<1>3. CASE \E s \in NewSettings : SetSettings(s)
  <2>1. PICK s \in NewSettings : SetSettings(s)
    BY <1>3
  <2>2. s \in PoolSettings /\ s.max_size <= LargestSize /\ s.max_size \in Nat
    BY PoolAssumption, Sizes DEF PoolSettings
  <2>3. PICK n : /\ settings' = [s EXCEPT !.max_size = n]
                 /\ n = IF ccMax > 0 /\ ccMax < s.max_size THEN ccMax ELSE s.max_size
    BY <2>1 DEF SetSettings
  <2>4. n \in Nat /\ n <= LargestSize
    BY <1>0, <2>2, <2>3, Sizes
  <2>5. settings' \in PoolSettings /\ settings'.max_size <= LargestSize
    BY <2>2, <2>3, <2>4 DEF PoolSettings
  <2>6. updates' \in 0..MaxUpdates
    BY <1>0, <2>1 DEF SetSettings
  <2>. QED
    BY <1>0, <2>1, <2>5, <2>6, SettingsMove DEF SetSettings
<1>4. CASE SetConnectionSettings
  <2>1. updates' \in 0..MaxUpdates /\ version' \in Nat
    BY <1>0, <1>4 DEF SetConnectionSettings
  <2>. QED
    BY <1>0, <1>4, <2>1, SettingsMove DEF SetConnectionSettings
<1>5. CASE UNCHANGED vars
  BY <1>0, <1>5, SettingsMove DEF vars, settingVars
<1>. QED
  BY <1>1, <1>2, <1>3, <1>4, <1>5

-----------------------------------------------------------------------------
\* ~ConnectionPool

\* A phase begins: what was idle may be closed or forgotten.
LEMMA PhaseStep ==
    ASSUME PoolInv, NEW from, NEW to \in {"stopMaintain", "stopConnect", "drain", "closeTasks", "destroyed"},
           Advance(from, to), UNCHANGED unlucky, stage' \in [Connections -> Stages],
           \A k \in Connections : \/ stage'[k] = stage[k]
                                  \/ stage[k] = "idle" /\ stage'[k] \in {"closing", "leaked"}
    PROVE  /\ TypeOK' /\ Owned' /\ OneOwner' /\ AccountsExact' /\ SleepersFit' /\ IdleIsOffered' /\ Bounded'
<1>. USE DEF Advance, settingVars, requestVars, maintVars
<1>0. TypeOK /\ AccountsExact /\ SleepersFit /\ Bounded
  BY DEF PoolInv
<1>1. TypeOK'
  BY <1>0 DEF TypeOK
<1>2. AccountsExact'
  <2>1. AtStages(UnitStages)' = AtStages(UnitStages)
    BY DEF AtStages, UnitStages, Stages
  <2>2. AtStages(UsedStages)' = AtStages(UsedStages)
    BY DEF AtStages, UsedStages
  <2>3. AtLabels(WaitLabels)' = AtLabels(WaitLabels)
    BY DEF AtLabels
  <2>. QED
    BY <1>0, <1>1, <2>1, <2>2, <2>3, AccountsIff, AccountsPrimed
<1>3. Owned' /\ OneOwner'
  <2>1. mpc' \in {"next", "ping", "close"} => mcount' > 0
    BY DEF PoolInv, Owned
  <2>2. \A k \in Connections : /\ stage'[k] = "held" <=> stage[k] = "held"
                               /\ stage'[k] = "pinged" <=> stage[k] = "pinged"
    OBVIOUS
  <2>. QED
    BY <2>1, <2>2, OwnersStay
<1>4. SleepersFit' /\ Sleeping' = Sleeping
  BY <1>0 DEF SleepersFit, Sleeping
<1>5. IdleIsOffered'
  <2>1. \A k \in Connections : stage'[k] = "idle" => stage[k] = "idle"
    OBVIOUS
  <2>. QED
    BY <1>4, <2>1, OffersStay DEF Woken
<1>6. Bounded'
  <2>1. \A k \in Connections : stage'[k] = "lock" => stage[k] = "lock"
    OBVIOUS
  <2>. QED
    BY <1>0, <2>1, BoundsStay DEF Bounded
<1>. QED
  BY <1>1, <1>2, <1>3, <1>4, <1>5, <1>6

LEMMA StopSteps ==
    ASSUME PoolInv, Destroy \/ StopMaintainTask \/ StopConnectTasks
    PROVE  PoolInv'
<1>. USE DEF Advance, settingVars, requestVars, maintVars
<1>0. TypeOK /\ PhaseFits /\ stage \in [Connections -> Stages]
  BY DEF PoolInv, TypeOK
<1>1. CASE Destroy
  <2>1. /\ TypeOK' /\ Owned' /\ OneOwner' /\ AccountsExact' /\ SleepersFit' /\ IdleIsOffered' /\ Bounded'
    BY <1>0, <1>1, PhaseStep DEF Destroy
  <2>2. PhaseFits'
    BY <1>0, <1>1 DEF PhaseFits, Destroy, In
  <2>. QED
    BY <2>1, <2>2 DEF PoolInv
<1>2. CASE StopMaintainTask
  <2>1. /\ TypeOK' /\ Owned' /\ OneOwner' /\ AccountsExact' /\ SleepersFit' /\ IdleIsOffered' /\ Bounded'
    BY <1>0, <1>2, PhaseStep DEF StopMaintainTask
  <2>2. PhaseFits'
    BY <1>0, <1>2 DEF PhaseFits, StopMaintainTask, In
  <2>. QED
    BY <2>1, <2>2 DEF PoolInv
<1>3. CASE StopConnectTasks
  <2>1. /\ TypeOK' /\ Owned' /\ OneOwner' /\ AccountsExact' /\ SleepersFit' /\ IdleIsOffered' /\ Bounded'
    BY <1>0, <1>3, PhaseStep DEF StopConnectTasks
  <2>2. ConnectTasks' = {} /\ In("leaked")' = {}
    BY <1>0, <1>3 DEF StopConnectTasks, ConnectTasks, Connecting, In, PhaseFits
  <2>3. PhaseFits'
    BY <1>0, <1>3, <2>2 DEF PhaseFits, StopConnectTasks
  <2>. QED
    BY <2>1, <2>3 DEF PoolInv
<1>. QED
  BY <1>1, <1>2, <1>3

LEMMA DrainStep ==
    ASSUME PoolInv, Drain
    PROVE  PoolInv'
<1>. USE DEF Advance, settingVars, requestVars, maintVars
<1>0. TypeOK /\ PhaseFits /\ phase = "drain" /\ phase' = "closeTasks"
  BY DEF PoolInv, Drain
<1>1. \A k \in Connections : stage'[k] = IF stage[k] = "idle" THEN "closing" ELSE stage[k]
  BY DEF Drain
<1>2. stage' \in [Connections -> Stages]
  BY <1>0 DEF Drain, TypeOK, Stages
<1>3. /\ TypeOK' /\ Owned' /\ OneOwner' /\ AccountsExact' /\ SleepersFit' /\ IdleIsOffered' /\ Bounded'
  <2>1. \A k \in Connections : \/ stage'[k] = stage[k]
                               \/ stage[k] = "idle" /\ stage'[k] \in {"closing", "leaked"}
    BY <1>1
  <2>2. Advance("drain", "closeTasks") /\ UNCHANGED unlucky
    BY DEF Drain
  <2>. QED
    BY <1>0, <1>2, <2>1, <2>2, PhaseStep
<1>4. ConnectTasks' = {} /\ In("leaked")' = {} /\ In("idle")' = {} /\ late' = {}
  BY <1>0, <1>1 DEF PhaseFits, ConnectTasks, Connecting, In, Drain
<1>5. PhaseFits'
  BY <1>0, <1>4 DEF PhaseFits, Drain
<1>. QED
  BY <1>3, <1>5 DEF PoolInv

LEMMA CloseTasksEndStep ==
    ASSUME PoolInv, CloseTasksEnd
    PROVE  PoolInv'
<1>. USE DEF Advance, settingVars, requestVars, maintVars
<1>0. TypeOK /\ PhaseFits /\ Owned /\ phase = "closeTasks" /\ phase' = "destroyed"
  BY DEF PoolInv, CloseTasksEnd
<1>1. \A k \in Connections : stage'[k] = IF stage[k] = "idle" THEN "leaked" ELSE stage[k]
  BY DEF CloseTasksEnd
<1>2. stage' \in [Connections -> Stages]
  BY <1>0 DEF CloseTasksEnd, TypeOK, Stages
<1>3. /\ TypeOK' /\ Owned' /\ OneOwner' /\ AccountsExact' /\ SleepersFit' /\ IdleIsOffered' /\ Bounded'
  <2>1. \A k \in Connections : \/ stage'[k] = stage[k]
                               \/ stage[k] = "idle" /\ stage'[k] \in {"closing", "leaked"}
    BY <1>1
  <2>2. Advance("closeTasks", "destroyed") /\ UNCHANGED unlucky
    BY DEF CloseTasksEnd
  <2>. QED
    BY <1>0, <1>2, <2>1, <2>2, PhaseStep
<1>4. ASSUME NEW k \in Connections PROVE stage[k] \in {"none", "idle"}
  <2>1. stage[k] \notin {"lock", "slot", "handshake", "failing"}
    BY <1>0 DEF PhaseFits, ConnectTasks, Connecting, In
  <2>2. stage[k] \notin {"cleanup", "closing"}
    BY DEF CloseTasksEnd, In
  <2>3. stage[k] \notin {"held", "pinged", "leaked"}
    BY <1>0 DEF PhaseFits, Owned, In
  <2>. QED
    BY <1>0, <2>1, <2>2, <2>3 DEF TypeOK, Stages
<1>5. late' = late /\ \A k \in Connections : k \in late <=> stage[k] = "idle"
  BY <1>0 DEF PhaseFits, In, CloseTasksEnd
<1>6. \A k \in Connections : stage'[k] = IF k \in late' THEN "leaked" ELSE "none"
  BY <1>1, <1>4, <1>5
<1>7. ConnectTasks' = {}
  BY <1>6 DEF ConnectTasks, Connecting, In
<1>8. PhaseFits'
  BY <1>0, <1>6, <1>7 DEF PhaseFits, CloseTasksEnd
<1>. QED
  BY <1>3, <1>8 DEF PoolInv

-----------------------------------------------------------------------------
LEMMA InitPool ==
    ASSUME Init
    PROVE  PoolInv
<1>. DEFINE min == InitialSettings.min_size
<1>0. /\ min \in Nat /\ InitialSettings.max_size \in Nat /\ min <= InitialSettings.max_size
      /\ InitialSettings \in PoolSettings /\ InitialSettings.max_size <= LargestSize /\ LargestSize \in Nat
      /\ PendingConnectsMax \in Nat /\ MaxUpdates \in Nat /\ MaxFaults \in Nat /\ IdleDropLimit \in Nat
  BY PoolAssumption, Sizes DEF PoolSettings
<1>. HIDE DEF min
<1>1. \A k \in Connections : stage[k] = IF k <= min THEN "slot" ELSE "none"
  BY DEF Init, min
<1>2. sizeUsed = min /\ used = 0 /\ waitCount = 0 /\ settings = InitialSettings
  BY DEF Init, min
<1>3. TypeOK
  <2>1. stage \in [Connections -> Stages] /\ ver \in [Connections -> Nat]
    BY DEF Init, Stages
  <2>2. /\ pc \in [Requests -> Labels] /\ conn \in [Requests -> Connections \cup {NoConnection}]
        /\ seen \in [Requests -> Nat]
    BY DEF Init, Labels
  <2>3. sleepers \in Seq(Requests) /\ cancelled \subseteq Requests /\ unlucky \subseteq Requests
        /\ late \subseteq Connections
    BY DEF Init
  <2>. QED
    <3>1. settings \in PoolSettings /\ {version, ccMax, sizeUsed, errors, waitCount, used, mcount, mmin, mver} \subseteq Nat
      BY <1>0, <1>2 DEF Init
    <3>2. dropLeft \in 0..IdleDropLimit /\ updates \in 0..MaxUpdates /\ faults \in 0..MaxFaults
      BY <1>0 DEF Init
    <3>3. /\ mpc \in {"rest", "acquire", "next", "ping", "close", "check"} /\ mconn \in Connections \cup {NoConnection}
          /\ phase \in {"live", "stopMaintain", "stopConnect", "drain", "closeTasks", "destroyed"}
          /\ swallowed \in BOOLEAN
      BY DEF Init
    <3>. QED
      BY <2>1, <2>2, <2>3, <3>1, <3>2, <3>3 DEF TypeOK
<1>4. Owned /\ OneOwner
  BY <1>1 DEF Init, Owned, OneOwner, In
<1>5. sleepers = <<>> /\ Sleeping = {} /\ DOMAIN sleepers = {}
  BY DEF Init, Sleeping
<1>6. SleepersFit /\ IdleIsOffered
  BY <1>5 DEF SleepersFit, IdleIsOffered
<1>7. AccountsExact
  <2>1. AtStages(UnitStages) = 1..min
    <3>1. Connections = 1..(LargestSize + PendingConnectsMax + 1)
      BY DEF Connections
    <3>2. 1..min \subseteq Connections
      BY <1>0, <3>1
    <3>3. \A k \in Connections : k \in 1..min <=> k <= min
      BY <1>0, <3>1
    <3>. QED
      BY <1>1, <3>2, <3>3 DEF AtStages, UnitStages, Stages
  <2>2. Cardinality(1..min) = min
    BY <1>0, FS_Interval
  <2>3. AtStages(UsedStages) = {}
    BY <1>1 DEF AtStages, UsedStages
  <2>4. AtLabels(WaitLabels) = {}
    BY DEF Init, AtLabels, WaitLabels
  <2>. QED
    BY <1>2, <1>3, <2>1, <2>2, <2>3, <2>4, FS_EmptySet, AccountsIff
<1>8. Bounded
  <2>1. In("lock") = {}
    BY <1>1 DEF In
  <2>. QED
    BY <1>0, <1>2, <2>1, FS_EmptySet DEF Bounded
<1>9. PhaseFits
  BY <1>1 DEF Init, PhaseFits, In
<1>. QED
  BY <1>3, <1>4, <1>6, <1>7, <1>8, <1>9 DEF PoolInv

LEMMA PoolStep ==
    ASSUME PoolInv, [Next]_vars
    PROVE  PoolInv'
<1>1. CASE \E k \in Connections : ConnectionStep(k)
  BY <1>1, GetSizeLockStep, GetConnectingLockStep, ConnectedStep, ConnectFailsStep, CloseWithErrorStep,
     ErrorThrownStep, CloseEndsStep, CleanupConnectionStep, ConnectingTimeoutStep DEF ConnectionStep
<1>2. CASE \E r \in Requests : Acquire(r) \/ DeadlinePasses(r) \/ Cancel(r)
  BY <1>2, AcquireStep, DeadlinePassesStep, CancelStep
<1>3. CASE \E r \in Requests : RequestStep(r)
  BY <1>3, PopNoblockStep, EnterQueueStep, QueueFullStep, CreateStep, PopBlockingStep, ReleaseHeldStep
     DEF RequestStep
<1>4. CASE MaintainConnections \/ MaintainStep
  BY <1>4, MaintainConnectionsStep, AcquireImmediateStep, MaintainStepKeeps, DroppedStep, PingedStep,
     CheckMinPoolSizeUnderflowStep DEF MaintainStep
<1>5. CASE \/ ErrorsExpire
           \/ \E n \in CcLimits : SetMaxConnectionsCc(n)
           \/ \E s \in NewSettings : SetSettings(s)
           \/ SetConnectionSettings
           \/ UNCHANGED vars
  BY <1>5, SettingsStep
<1>6. CASE Destroy \/ DestroyStep
  BY <1>6, StopSteps, DrainStep, CloseTasksEndStep DEF DestroyStep
<1>. QED
  BY <1>1, <1>2, <1>3, <1>4, <1>5, <1>6 DEF Next

\* Requests, connect tasks, clean-up tasks, maintenance, updates and the
\* destructor keep the inductive invariant, for any settings and limits.
THEOREM PoolInvariant == Spec => []PoolInv
<1>1. Init => PoolInv
  BY InitPool
<1>2. PoolInv /\ [Next]_vars => PoolInv'
  BY PoolStep
<1>. QED
  BY <1>1, <1>2, PTL DEF Spec

\* The pool's state keeps its types; the counters never go below zero.
THEOREM TypeCorrect == Spec => []TypeOK
<1>1. PoolInv => TypeOK
  BY DEF PoolInv
<1>. QED
  BY <1>1, PoolInvariant, PTL

\* No two users of a connection, for any number of requests and connections.
THEOREM ConnectionsHaveOneOwner == Spec => []OneOwner
<1>1. PoolInv => OneOwner
  BY DEF PoolInv
<1>. QED
  BY <1>1, PoolInvariant, PTL

\* size_semaphore_, connection.used and wait_count_ count what they stand for,
\* whatever fails, expires or is cancelled, and in whatever order.
THEOREM AccountsAreExact == Spec => []AccountsExact
<1>1. PoolInv => AccountsExact
  BY DEF PoolInv
<1>. QED
  BY <1>1, PoolInvariant, PTL

\* No idle connection is overlooked while requests sleep, unless a cancelled
\* request swallowed the wakeup.
THEOREM IdleConnectionsAreOffered == Spec => []IdleIsOffered
<1>1. PoolInv => IdleIsOffered
  BY DEF PoolInv
<1>. QED
  BY <1>1, PoolInvariant, PTL

\* The destructor leaves behind exactly the connections that clean-up tasks
\* pushed after Clear had emptied the queue, and their units.
THEOREM LeaksAreLatePushes == Spec => []LeakIsLatePush
<1>1. PoolInv => LeakIsLatePush
  <2>. SUFFICES ASSUME PoolInv, phase = "destroyed"
                PROVE  /\ \A k \in Connections : stage[k] = IF k \in late THEN "leaked" ELSE "none"
                       /\ sizeUsed = Cardinality(late)
    BY DEF LeakIsLatePush
  <2>1. \A k \in Connections : stage[k] = IF k \in late THEN "leaked" ELSE "none"
    BY DEF PoolInv, PhaseFits
  <2>2. {k \in Connections : stage[k] \notin {"none", "lock"}} = late
    BY <2>1 DEF PoolInv, TypeOK
  <2>. QED
    BY <2>1, <2>2 DEF PoolInv, AccountsExact
<1>. QED
  BY <1>1, PoolInvariant, PTL

\* The model's numbers for connections never run out: Start is never blocked
\* where TryCreateConnectionAsync starts a connect task.
THEOREM ConnectionsSuffice == Spec => []SpareConnection
<1>1. PoolInv => SpareConnection
  <2>. SUFFICES ASSUME PoolInv, In("none") = {},
                       sizeUsed < settings.max_size \/ Cardinality(ConnectTasks) <= PendingConnectsMax
                PROVE  FALSE
    BY DEF SpareConnection
  <2>. DEFINE units == AtStages(UnitStages)
               locks == In("lock")
  <2>1. /\ TypeOK /\ Bounded /\ sizeUsed = Cardinality(units) /\ sizeUsed \in Nat /\ settings.max_size \in Nat
    BY AccountsIff DEF PoolInv, TypeOK, PoolSettings
  <2>2. Connections = units \cup locks /\ units \cap locks = {} /\ locks \subseteq ConnectTasks
        /\ ConnectTasks \subseteq Connections
    BY <2>1 DEF TypeOK, AtStages, UnitStages, In, ConnectTasks, Connecting
  <2>3. Cardinality(locks) <= PendingConnectsMax + 1
    BY <2>1 DEF Bounded
  <2>. HIDE DEF units, locks
  <2>4. /\ IsFiniteSet(units) /\ IsFiniteSet(locks) /\ IsFiniteSet(ConnectTasks)
        /\ Cardinality(units) \in Nat /\ Cardinality(locks) \in Nat /\ Cardinality(ConnectTasks) \in Nat
    BY <2>2, FiniteSets
  <2>5. Cardinality(locks) <= Cardinality(ConnectTasks)
    BY <2>2, <2>4, FS_Subset
  <2>6. Cardinality(units \cup locks) = Cardinality(units) + Cardinality(locks)
    BY <2>2, <2>4, FS_Union, FS_EmptySet
  <2>7. Cardinality(units) + Cardinality(locks) = LargestSize + PendingConnectsMax + 1
    BY <2>2, <2>6, ConnectionsFinite
  <2>8. settings.max_size <= LargestSize /\ Cardinality(units) <= LargestSize
    BY <2>1 DEF Bounded
  <2>. QED
    BY <2>1, <2>3, <2>4, <2>5, <2>7, <2>8, Sizes
<1>. QED
  BY <1>1, PoolInvariant, PTL
=============================================================================
