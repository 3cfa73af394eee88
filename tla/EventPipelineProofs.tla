------------------------- MODULE EventPipelineProofs -------------------------
(***************************************************************************)
(* Proofs about EventPipeline for every set of producers and consumers and *)
(* every bound on the faults.                                              *)
(***************************************************************************)
EXTENDS EventPipeline, FiniteSetTheorems, TLAPS

\* Inc yields a user document when f is one of its counters.
LEMMA IncUserType ==
    ASSUME NEW doc \in UserDoc, NEW f \in UserCounters
    PROVE  Inc(doc, "user_id", f) \in UserDoc
  BY DEF Inc, UserDoc, UserFields, UserCounters

LEMMA IncPostType ==
    ASSUME NEW doc \in PostDoc, NEW f \in PostCounters
    PROVE  Inc(doc, "post_id", f) \in PostDoc
  BY DEF Inc, PostDoc, PostFields, PostCounters

\* What process_event does to user_activity_view keeps a user document one.
LEMMA UserUpdateType ==
    ASSUME NEW doc \in UserDoc, NEW e
    PROVE  UserUpdate(doc, e) \in UserDoc
  <1>1. SetUser(doc) \in UserDoc
    BY DEF SetUser, UserDoc, UserFields, UserCounters
  <1>2. /\ Inc(doc, "user_id", "posts_count") \in UserDoc
        /\ Inc(doc, "user_id", "messages_sent") \in UserDoc
    BY IncUserType DEF UserCounters
  <1>. QED  BY <1>1, <1>2 DEF UserUpdate

LEMMA PostUpdateType ==
    ASSUME NEW doc \in PostDoc, NEW e
    PROVE  PostUpdate(doc, e) \in PostDoc
  <1>1. /\ Inc(doc, "post_id", "likes_count") \in PostDoc
        /\ Inc(doc, "post_id", "comments_count") \in PostDoc
    BY IncPostType DEF PostCounters
  <1>. QED  BY <1>1 DEF PostUpdate

-----------------------------------------------------------------------------
\* The typing facts about events and topics that the actions need.
LEMMA EventIn == \A p \in Producers, k \in 0..5 : k < 5 => <<p, k + 1>> \in Events
  BY DEF Events, Steps

LEMMA RoutingKeyIn == \A k \in 1..4 : routing_keys[k] \in Topics
  BY DEF routing_keys, Topics

-----------------------------------------------------------------------------
\* Types are preserved together with CallbackHolds: a consumer that is about to
\* read log[held[c]] has a real position in hand.
LEMMA TypeStep ==
    ASSUME TypeOK, CallbackHolds, [Next]_vars
    PROVE  TypeOK' /\ CallbackHolds'
  <1> USE MaxFaultsAssumption
      DEF TypeOK, CallbackHolds, prodVars, queueVars, consVars, mongoVars,
          ProdPc, ConsPc, InCallback
  <1> DEFINE Goal == TypeOK /\ CallbackHolds
  <1>0. Len(log) \in Nat
    OBVIOUS
  <1>u. ASSUME NEW C PROVE Unacked(C) \subseteq 1..Len(log)
    BY DEF Unacked
  <1>a. \A c \in Consumers : consPc[c] \in InCallback => Event(c) \in Events
    BY DEF Event
  <1>1. ASSUME NEW p \in Producers, ProducerStart(p) PROVE Goal'
    BY <1>1 DEF ProducerStart
  <1>2. ASSUME NEW p \in Producers, ProducerConnect(p) PROVE Goal'
    BY <1>2 DEF ProducerConnect
  <1>3. ASSUME NEW p \in Producers, PublishEvent(p) PROVE Goal'
    <2>1. <<p, sent[p] + 1>> \in Events
      BY <1>3, EventIn DEF PublishEvent
    <2>2. Append(wire[p], <<p, sent[p] + 1>>) \in Seq(Events)
      BY <2>1
    <2>3. wire' \in [Producers -> Seq(Events)]
      BY <1>3, <2>2 DEF PublishEvent
    <2>4. sent \in [Producers -> 0..5] /\ sent[p] \in 0..5
      OBVIOUS
    <2>5. sent' \in [Producers -> 0..5]
      <3> HIDE DEF TypeOK, CallbackHolds
      <3>. QED  BY <1>3, <2>4 DEF PublishEvent
    <2>. QED  BY <1>3, <2>3, <2>5 DEF PublishEvent
  <1>4. ASSUME NEW p \in Producers, ProducerClose(p) PROVE Goal'
    BY <1>4 DEF ProducerClose
  <1>5. ASSUME NEW p \in Producers, ProducerDies(p) PROVE Goal'
    BY <1>5 DEF ProducerDies
  <1>6. ASSUME NEW p \in Producers, BrokerRoute(p) PROVE Goal'
    <2>1. /\ Head(wire[p]) \in Events
          /\ Tail(wire[p]) \in Seq(Events)
      BY <1>6 DEF BrokerRoute
    <2>2. wire' \in [Producers -> Seq(Events)]
      BY <1>6, <2>1 DEF BrokerRoute
    <2>3. /\ log' \in Seq(Events)
          /\ ready' \in SUBSET (1..Len(log'))
          /\ held' \in [Consumers -> 0..Len(log')]
      <3>1. CASE Topic(Head(wire[p])) \in bindings
        <4>1. log' = Append(log, Head(wire[p])) /\ ready' = ready \cup {Len(log) + 1}
          BY <1>6, <3>1 DEF BrokerRoute
        <4>2. log' \in Seq(Events) /\ Len(log') = Len(log) + 1
          BY <4>1, <2>1
        <4>3. held' = held
          BY <1>6 DEF BrokerRoute
        <4>4. ready' \in SUBSET (1..Len(log'))
          <5>1. ready \in SUBSET (1..Len(log))
            OBVIOUS
          <5> HIDE DEF TypeOK, CallbackHolds
          <5>2. ASSUME NEW i \in ready \cup {Len(log) + 1} PROVE i \in 1..(Len(log) + 1)
            BY <1>0, <5>1
          <5>. QED  BY <4>1, <4>2, <5>2
        <4>5. ASSUME NEW c \in Consumers PROVE held[c] \in 0..Len(log')
          BY <1>0, <4>2
        <4>. QED  BY <4>2, <4>3, <4>4, <4>5
      <3>2. CASE Topic(Head(wire[p])) \notin bindings
        BY <1>6, <2>1, <3>2 DEF BrokerRoute
      <3>. QED  BY <3>1, <3>2
    <2>. QED  BY <1>6, <2>2, <2>3 DEF BrokerRoute
  <1>7. ASSUME NEW c \in Consumers, Deliver(c) PROVE Goal'
    BY <1>7 DEF Deliver
  <1>8. ASSUME NEW c \in Consumers, ConsumerStart(c) PROVE Goal'
    BY <1>8 DEF ConsumerStart
  <1>9. ASSUME NEW c \in Consumers, ConsumerConnect(c) PROVE Goal'
    BY <1>9 DEF ConsumerConnect
  <1>10. ASSUME NEW c \in Consumers, ConsumerBind(c) PROVE Goal'
    BY <1>10, RoutingKeyIn DEF ConsumerBind
  <1>11. ASSUME NEW c \in Consumers, StartConsuming(c) PROVE Goal'
    BY <1>11 DEF StartConsuming
  <1>12. ASSUME NEW c \in Consumers, FindProcessed(c) PROVE Goal'
    BY <1>12 DEF FindProcessed
  <1>13. ASSUME NEW c \in Consumers, InsertProcessed(c) PROVE Goal'
    BY <1>13, <1>a DEF InsertProcessed, RecordEvent
  <1>14. ASSUME NEW c \in Consumers, UpdateView(c) PROVE Goal'
    BY <1>14, <1>a, UserUpdateType, PostUpdateType DEF UpdateView, ProjectEvent
  <1>15. ASSUME NEW c \in Consumers, MongoFails(c) PROVE Goal'
    <2>1. /\ consPc[c] \in InCallback
          /\ processed' \in SUBSET Events /\ projected' \in SUBSET Events
          /\ userView' \in UserDoc /\ postView' \in PostDoc
      BY <1>15, <1>a, UserUpdateType, PostUpdateType DEF MongoFails, RecordEvent, ProjectEvent
    <2>. QED  BY <1>15, <2>1 DEF MongoFails
  <1>16. ASSUME NEW c \in Consumers, Ack(c) PROVE Goal'
    BY <1>16 DEF Ack
  <1>17. ASSUME NEW c \in Consumers, Nack(c) PROVE Goal'
    <2>1. ready' \in SUBSET (1..Len(log')) /\ log' = log
      BY <1>17, <1>u DEF Nack
    <2>2. held' \in [Consumers -> 0..Len(log')]
      BY <1>17, <2>1 DEF Nack
    <2>3. CallbackHolds'
      BY <1>17 DEF Nack
    <2>4. /\ consPc' \in [Consumers -> ConsPc]
          /\ conn' \in [Consumers -> BOOLEAN]
      BY <1>17 DEF Nack
    <2>5. faults' \in 0..MaxFaults
      BY <1>17 DEF Nack
    <2>. QED  BY <1>17, <2>1, <2>2, <2>3, <2>4, <2>5 DEF Nack
  <1>18. ASSUME NEW c \in Consumers, ConnectionLost(c) PROVE Goal'
    <2>1. ready' \in SUBSET (1..Len(log')) /\ log' = log
      BY <1>18, <1>u DEF ConnectionLost
    <2>2. held' \in [Consumers -> 0..Len(log')]
      BY <1>18, <2>1 DEF ConnectionLost
    <2>3. CallbackHolds'
      BY <1>18 DEF ConnectionLost
    <2>4. /\ consPc' \in [Consumers -> ConsPc]
          /\ conn' \in [Consumers -> BOOLEAN]
      BY <1>18 DEF ConnectionLost
    <2>5. faults' \in 0..MaxFaults
      BY <1>18 DEF ConnectionLost
    <2>. QED  BY <1>18, <2>1, <2>2, <2>3, <2>4, <2>5 DEF ConnectionLost
  <1>19. ASSUME NEW c \in Consumers, ConsumerExit(c) PROVE Goal'
    BY <1>19 DEF ConsumerExit
  <1>20. ASSUME NEW c \in Consumers, ConsumerCrash(c) PROVE Goal'
    <2>1. ready' \in SUBSET (1..Len(log')) /\ log' = log
      BY <1>20, <1>u DEF ConsumerCrash
    <2>2. held' \in [Consumers -> 0..Len(log')]
      BY <1>20, <2>1 DEF ConsumerCrash
    <2>3. CallbackHolds'
      BY <1>20 DEF ConsumerCrash
    <2>4. /\ consPc' \in [Consumers -> ConsPc]
          /\ conn' \in [Consumers -> BOOLEAN]
      BY <1>20 DEF ConsumerCrash
    <2>5. faults' \in 0..MaxFaults
      BY <1>20 DEF ConsumerCrash
    <2>. QED  BY <1>20, <2>1, <2>2, <2>3, <2>4, <2>5 DEF ConsumerCrash
  <1>21. CASE BrokerStart
    BY <1>21 DEF BrokerStart
  <1>22. CASE BrokerStop
    <2>1. ready' \in SUBSET (1..Len(log')) /\ log' = log
      BY <1>22, <1>u DEF BrokerStop
    <2>2. held' \in [Consumers -> 0..Len(log')]
      BY <1>22, <2>1 DEF BrokerStop
    <2>3. CallbackHolds'
      BY <1>22 DEF BrokerStop
    <2>4. /\ consPc' \in [Consumers -> ConsPc]
          /\ conn' \in [Consumers -> BOOLEAN]
      BY <1>22 DEF BrokerStop
    <2>5. faults' \in 0..MaxFaults
      BY <1>22 DEF BrokerStop
    <2>6. prodPc' \in [Producers -> ProdPc]
      BY <1>22 DEF BrokerStop
    <2>7. wire' \in [Producers -> Seq(Events)]
      <3>1. <<>> \in Seq(Events)
        OBVIOUS
      <3> HIDE DEF TypeOK, CallbackHolds
      <3>. QED  BY <1>22, <3>1 DEF BrokerStop
    <2>. QED  BY <1>22, <2>1, <2>2, <2>3, <2>4, <2>5, <2>6, <2>7 DEF BrokerStop
  <1>23. CASE UNCHANGED vars
    BY <1>23 DEF vars
  <1>. QED
    BY <1>1, <1>2, <1>3, <1>4, <1>5, <1>6, <1>7, <1>8, <1>9, <1>10, <1>11, <1>12,
       <1>13, <1>14, <1>15, <1>16, <1>17, <1>18, <1>19, <1>20, <1>21, <1>22, <1>23
       DEF Next, Producer, Broker, ConsumerStep, ConsumerFault
-----------------------------------------------------------------------------
\* Initially the queue is empty and nobody handles anything.
LEMMA DeliveryInit == Init => DeliveryInv
  <1> SUFFICES ASSUME Init PROVE DeliveryInv
    OBVIOUS
  <1>1. TypeOK
    <2>1. userView \in UserDoc /\ postView \in PostDoc
      BY DEF Init, UserDoc, PostDoc, NoUserDoc, NoPostDoc
    <2>2. wire \in [Producers -> Seq(Events)] /\ log \in Seq(Events)
      BY DEF Init
    <2>3. /\ consPc \in [Consumers -> ConsPc]
          /\ held \in [Consumers -> 0..Len(log)]
          /\ conn \in [Consumers -> BOOLEAN]
      BY DEF Init, ConsPc
    <2>4. prodPc \in [Producers -> ProdPc] /\ sent \in [Producers -> 0..5]
      BY DEF Init, ProdPc
    <2>5. /\ ready \in SUBSET (1..Len(log)) /\ bindings \in SUBSET Topics
          /\ processed \in SUBSET Events /\ projected \in SUBSET Events
          /\ brokerUp \in BOOLEAN
      BY DEF Init
    <2>6. faults \in 0..MaxFaults
      BY MaxFaultsAssumption DEF Init
    <2>. QED  BY <2>1, <2>2, <2>3, <2>4, <2>5, <2>6 DEF TypeOK
  <1>2. Len(log) = 0
    BY DEF Init
  <1>3. CallbackHolds
    BY DEF Init, CallbackHolds, InCallback
  <1>4. RecordedBeforeAck /\ AcknowledgedIsRecorded /\ SingleDelivery
    BY <1>2 DEF Init, RecordedBeforeAck, AcknowledgedIsRecorded, SingleDelivery, Unacked
  <1>. QED  BY <1>1, <1>3, <1>4 DEF DeliveryInv

\* A step that leaves the queue and the deliveries alone and forgets no
\* processed event keeps the broker's side of the invariant.
LEMMA QuietQueue ==
    ASSUME DeliveryInv, UNCHANGED <<log, ready, held, conn>>,
           processed \subseteq processed'
    PROVE  AcknowledgedIsRecorded' /\ SingleDelivery'
  BY DEF DeliveryInv, AcknowledgedIsRecorded, SingleDelivery, Unacked

\* A consumer that the step does not move keeps its recorded event.
LEMMA QuietConsumer ==
    ASSUME DeliveryInv, NEW d \in Consumers,
           consPc'[d] = consPc[d], held'[d] = held[d],
           processed \subseteq processed',
           \A i \in 1..Len(log) : log'[i] = log[i]
    PROVE  consPc'[d] \in {"update", "ack"} => Event(d)' \in processed'
  <1> SUFFICES ASSUME consPc[d] \in {"update", "ack"}
               PROVE  log'[held'[d]] \in processed'
    BY DEF Event
  <1>1. held[d] \in 1..Len(log)
    BY DEF DeliveryInv, TypeOK, CallbackHolds, InCallback
  <1>2. log[held[d]] \in processed
    BY DEF DeliveryInv, RecordedBeforeAck, Event
  <1>. QED  BY <1>1, <1>2

\* A step of c that gives its message back to the queue, or has it recorded
\* already, loses nothing, and leaves no message in two places.
LEMMA Release ==
    ASSUME DeliveryInv, NEW c \in Consumers, UNCHANGED <<log, processed>>,
           held' = [held EXCEPT ![c] = 0] \/ conn' = [conn EXCEPT ![c] = FALSE],
           held' = [held EXCEPT ![c] = 0] \/ held' = held,
           conn' = [conn EXCEPT ![c] = FALSE] \/ conn' = conn,
           \/ ready' = ready \cup Unacked({c})
           \/ ready' = ready /\ consPc[c] = "ack"
    PROVE  AcknowledgedIsRecorded' /\ SingleDelivery'
  <1>1. /\ held \in [Consumers -> 0..Len(log)]
        /\ conn \in [Consumers -> BOOLEAN]
        /\ Len(log) \in Nat
    BY DEF DeliveryInv, TypeOK
  <1>2. \A d \in Consumers : d # c => held'[d] = held[d] /\ conn'[d] = conn[d]
    BY <1>1
  <1>3. held'[c] = 0 \/ ~conn'[c]
    BY <1>1
  <1>4. AcknowledgedIsRecorded'
    <2> SUFFICES ASSUME NEW i \in 1..Len(log)
                 PROVE  i \in ready' \/ i \in Unacked(Consumers)' \/ log[i] \in processed
      BY DEF AcknowledgedIsRecorded
    <2>1. CASE i \in ready \/ log[i] \in processed
      BY <2>1
    <2>2. CASE \E d \in Consumers : conn[d] /\ held[d] = i
      <3> PICK d \in Consumers : conn[d] /\ held[d] = i
        BY <2>2
      <3>1. CASE d # c
        BY <3>1, <1>2 DEF Unacked
      <3>2. CASE d = c
        <4>1. CASE ready' = ready \cup Unacked({c})
          BY <3>2, <4>1 DEF Unacked
        <4>2. CASE consPc[c] = "ack"
          BY <3>2, <4>2 DEF DeliveryInv, RecordedBeforeAck, Event
        <4>. QED  BY <4>1, <4>2
      <3>. QED  BY <3>1, <3>2
    <2>. QED  BY <2>1, <2>2 DEF DeliveryInv, AcknowledgedIsRecorded, Unacked
  <1>5. SingleDelivery'
    <2>1. \A d, e \in Consumers :
             conn[d] /\ conn[e] /\ held[d] # 0 /\ held[d] = held[e] => d = e
      BY DEF DeliveryInv, SingleDelivery
    <2>2. \A d, e \in Consumers :
             conn'[d] /\ conn'[e] /\ held'[d] # 0 /\ held'[d] = held'[e] => d = e
      BY <2>1, <1>2, <1>3
    <2>3. ASSUME NEW i \in ready', NEW d \in Consumers,
                 i \in 1..Len(log), conn'[d], held'[d] = i
          PROVE  FALSE
      <3>1. d # c /\ conn[d] /\ held[d] = i
        BY <2>3, <1>2, <1>3
      <3>2. i \notin ready
        BY <3>1, <2>3 DEF DeliveryInv, SingleDelivery, Unacked
      <3>3. i \in Unacked({c})
        BY <3>2
      <3>4. conn[c] /\ held[c] = i /\ i # 0
        BY <3>3 DEF Unacked
      <3>. QED  BY <2>1, <3>1, <3>4
    <2>. QED  BY <2>2, <2>3 DEF SingleDelivery, Unacked
  <1>. QED  BY <1>4, <1>5

\* Every step of the system preserves the delivery invariant.
LEMMA DeliveryStep ==
    ASSUME DeliveryInv, [Next]_vars
    PROVE  DeliveryInv'
  <1>0. TypeOK' /\ CallbackHolds'
    BY TypeStep DEF DeliveryInv
  <1>t. /\ TypeOK
        /\ Len(log) \in Nat
        /\ held \in [Consumers -> 0..Len(log)]
        /\ conn \in [Consumers -> BOOLEAN]
        /\ consPc \in [Consumers -> ConsPc]
    BY DEF DeliveryInv, TypeOK
  <1> DEFINE Goal == RecordedBeforeAck /\ AcknowledgedIsRecorded /\ SingleDelivery
  <1>q. ASSUME UNCHANGED <<log, ready, consPc, held, conn, processed>> PROVE Goal'
    BY <1>q, QuietQueue, QuietConsumer DEF RecordedBeforeAck
  <1>1. ASSUME NEW p \in Producers, Producer(p) PROVE Goal'
    BY <1>1, <1>q
       DEF Producer, ProducerStart, ProducerConnect, PublishEvent, ProducerClose,
           ProducerDies, queueVars, consVars, mongoVars
  <1>2. ASSUME NEW p \in Producers, BrokerRoute(p) PROVE Goal'
    <2>1. UNCHANGED <<consPc, held, conn, processed>>
      BY <1>2 DEF BrokerRoute, consVars, mongoVars
    <2>2. CASE UNCHANGED <<log, ready>>
      BY <2>1, <2>2, <1>q
    <2>3. CASE /\ log' = Append(log, Head(wire[p]))
               /\ ready' = ready \cup {Len(log) + 1}
      <3>1. /\ Len(log') = Len(log) + 1
            /\ \A i \in 1..Len(log) : log'[i] = log[i]
        BY <2>3, <1>t DEF TypeOK
      <3>2. RecordedBeforeAck'
        BY <2>1, <3>1, QuietConsumer DEF RecordedBeforeAck
      <3>3. AcknowledgedIsRecorded'
        <4> SUFFICES ASSUME NEW i \in 1..Len(log')
                     PROVE  (i \in ready \/ i \in Unacked(Consumers) \/ log[i] \in processed)'
          BY DEF AcknowledgedIsRecorded
        <4>1. CASE i = Len(log) + 1
          BY <4>1, <2>3
        <4>2. CASE i \in 1..Len(log)
          BY <4>2, <2>1, <2>3, <3>1
             DEF DeliveryInv, AcknowledgedIsRecorded, Unacked
        <4>. QED  BY <4>1, <4>2, <3>1, <1>t
      <3>4. SingleDelivery'
        <4>1. \A c \in Consumers : held[c] # Len(log) + 1
          BY <1>t
        <4>. QED  BY <4>1, <2>1, <2>3, <3>1, <1>t DEF DeliveryInv, SingleDelivery, Unacked
      <3>. QED  BY <3>2, <3>3, <3>4
    <2>. QED  BY <1>2, <2>2, <2>3 DEF BrokerRoute
  <1>3. ASSUME NEW c \in Consumers, Deliver(c) PROVE Goal'
    <2>1. UNCHANGED <<log, conn, processed>>
      BY <1>3 DEF Deliver, mongoVars
    <2>2. PICK i \in ready : ready' = ready \ {i} /\ held' = [held EXCEPT ![c] = i]
      BY <1>3 DEF Deliver
    <2>3. conn[c] /\ held[c] = 0 /\ consPc' = [consPc EXCEPT ![c] = "find"]
      BY <1>3, <1>t DEF Deliver, DeliveryInv, CallbackHolds, InCallback
    <2>4. i \in 1..Len(log) /\ i # 0
      BY <2>2, <1>t DEF TypeOK
    <2>5. RecordedBeforeAck'
      <3> SUFFICES ASSUME NEW d \in Consumers, consPc'[d] \in {"update", "ack"}
                   PROVE  Event(d)' \in processed'
        BY DEF RecordedBeforeAck
      <3>1. consPc'[d] = consPc[d] /\ held'[d] = held[d]
        BY <2>2, <2>3, <1>t
      <3>. QED  BY <3>1, <2>1, QuietConsumer
    <2>6. /\ \A d \in Consumers : d # c => held'[d] = held[d]
          /\ held'[c] = i
      BY <2>2, <1>t
    <2>7. AcknowledgedIsRecorded'
      BY <2>1, <2>2, <2>3, <2>4, <2>6 DEF DeliveryInv, AcknowledgedIsRecorded, Unacked
    <2>8. i \notin Unacked(Consumers)
      BY <2>2 DEF DeliveryInv, SingleDelivery
    <2>9. SingleDelivery'
      BY <2>1, <2>2, <2>4, <2>6, <2>8 DEF DeliveryInv, SingleDelivery, Unacked
    <2>. QED  BY <2>5, <2>7, <2>9
  <1>4. ASSUME NEW c \in Consumers,
               UNCHANGED <<log, ready, held, conn>>,
               processed \subseteq processed',
               \E pc \in ConsPc : consPc' = [consPc EXCEPT ![c] = pc],
               consPc'[c] \in {"update", "ack"} => Event(c) \in processed'
        PROVE  Goal'
    <2>1. ASSUME NEW d \in Consumers, d # c
          PROVE  consPc'[d] \in {"update", "ack"} => Event(d)' \in processed'
      BY <2>1, <1>4, <1>t, QuietConsumer
    <2>2. Event(c)' = Event(c)
      BY <1>4 DEF Event
    <2>3. RecordedBeforeAck'
      BY <1>4, <2>1, <2>2 DEF RecordedBeforeAck
    <2>. QED  BY <1>4, <2>3, QuietQueue
  <1>5. ASSUME NEW c \in Consumers, ConsumerStart(c) \/ StartConsuming(c) \/ ConsumerExit(c)
        PROVE  Goal'
    <2>1. UNCHANGED <<log, ready, held, conn, processed>>
      BY <1>5 DEF ConsumerStart, StartConsuming, ConsumerExit, queueVars, mongoVars
    <2>2. \E pc \in ConsPc \ {"update", "ack"} : consPc' = [consPc EXCEPT ![c] = pc]
      BY <1>5 DEF ConsumerStart, StartConsuming, ConsumerExit, ConsPc
    <2>3. consPc'[c] \notin {"update", "ack"}
      BY <2>2, <1>t
    <2>. QED  BY <2>1, <2>2, <2>3, <1>4
  <1>6. ASSUME NEW c \in Consumers, ConsumerConnect(c) PROVE Goal'
    <2>1. /\ UNCHANGED <<log, ready, held, processed>>
          /\ conn' = [conn EXCEPT ![c] = TRUE]
          /\ consPc' = [consPc EXCEPT ![c] = "binding"]
          /\ consPc[c] = "connecting"
      BY <1>6 DEF ConsumerConnect, queueVars, mongoVars
    <2>2. held[c] = 0
      BY <2>1 DEF DeliveryInv, CallbackHolds, InCallback
    <2>3. RecordedBeforeAck'
      BY <2>1, <1>t, QuietConsumer DEF RecordedBeforeAck
    <2>4. Unacked(Consumers)' = Unacked(Consumers)
      BY <2>1, <2>2, <1>t DEF Unacked
    <2>5. AcknowledgedIsRecorded'
      BY <2>1, <2>4 DEF DeliveryInv, AcknowledgedIsRecorded
    <2>6. SingleDelivery'
      BY <2>1, <2>2, <2>4, <1>t DEF DeliveryInv, SingleDelivery
    <2>. QED  BY <2>3, <2>5, <2>6
  <1>7. ASSUME NEW c \in Consumers, ConsumerBind(c) PROVE Goal'
    BY <1>7, <1>q DEF ConsumerBind, consVars, mongoVars
  <1>8. ASSUME NEW c \in Consumers, FindProcessed(c) PROVE Goal'
    <2>1. /\ UNCHANGED <<log, ready, held, conn, processed>>
          /\ consPc' = [consPc EXCEPT ![c] = IF Event(c) \in processed THEN "ack" ELSE "insert"]
      BY <1>8 DEF FindProcessed, queueVars, mongoVars
    <2>2. consPc'[c] \in {"update", "ack"} => Event(c) \in processed'
      BY <2>1, <1>t
    <2>. QED  BY <2>1, <2>2, <1>4 DEF ConsPc
  <1>9. ASSUME NEW c \in Consumers, InsertProcessed(c) PROVE Goal'
    <2>1. /\ UNCHANGED <<log, ready, held, conn>>
          /\ processed' = processed \cup {Event(c)}
          /\ consPc' = [consPc EXCEPT ![c] = "update"]
      BY <1>9 DEF InsertProcessed, RecordEvent, queueVars
    <2>. QED  BY <2>1, <1>4 DEF ConsPc
  <1>10. ASSUME NEW c \in Consumers, UpdateView(c) PROVE Goal'
    <2>1. /\ UNCHANGED <<log, ready, held, conn, processed>>
          /\ consPc' = [consPc EXCEPT ![c] = "ack"]
          /\ consPc[c] = "update"
      BY <1>10 DEF UpdateView, ProjectEvent, queueVars
    <2>2. Event(c) \in processed
      BY <2>1 DEF DeliveryInv, RecordedBeforeAck
    <2>. QED  BY <2>1, <2>2, <1>4 DEF ConsPc
  <1>11. ASSUME NEW c \in Consumers, MongoFails(c) PROVE Goal'
    <2>1. /\ UNCHANGED <<log, ready, held, conn>>
          /\ processed \subseteq processed'
          /\ consPc' = [consPc EXCEPT ![c] = "nack"]
      BY <1>11 DEF MongoFails, RecordEvent, ProjectEvent, queueVars, mongoVars
    <2>2. consPc'[c] \notin {"update", "ack"}
      BY <2>1, <1>t
    <2>. QED  BY <2>1, <2>2, <1>4 DEF ConsPc
  <1>12. ASSUME NEW c \in Consumers,
                Ack(c) \/ Nack(c) \/ ConnectionLost(c) \/ ConsumerCrash(c)
         PROVE  Goal'
    <2>1. UNCHANGED <<log, processed>>
      BY <1>12 DEF Ack, Nack, ConnectionLost, ConsumerCrash, queueVars, mongoVars
    <2>2. AcknowledgedIsRecorded' /\ SingleDelivery'
      <3>1. /\ held' = [held EXCEPT ![c] = 0] \/ conn' = [conn EXCEPT ![c] = FALSE]
            /\ held' = [held EXCEPT ![c] = 0] \/ held' = held
            /\ conn' = [conn EXCEPT ![c] = FALSE] \/ conn' = conn
            /\ \/ ready' = ready \cup Unacked({c})
               \/ ready' = ready /\ consPc[c] = "ack"
        BY <1>12 DEF Ack, Nack, ConnectionLost, ConsumerCrash, queueVars
      <3>. QED  BY <2>1, <3>1, Release
    <2>3. RecordedBeforeAck'
      <3>1. \/ UNCHANGED <<consPc, held>>
            \/ /\ held' = [held EXCEPT ![c] = 0]
               /\ \E pc \in {"idle", "down"} : consPc' = [consPc EXCEPT ![c] = pc]
        BY <1>12 DEF Ack, Nack, ConnectionLost, ConsumerCrash
      <3>2. ASSUME NEW d \in Consumers, consPc'[d] \in {"update", "ack"}
            PROVE  consPc'[d] = consPc[d] /\ held'[d] = held[d]
        BY <3>1, <3>2, <1>t
      <3>. QED  BY <2>1, <3>2, QuietConsumer DEF RecordedBeforeAck
    <2>. QED  BY <2>2, <2>3
  <1>13. ASSUME BrokerStart PROVE Goal'
    BY <1>13, <1>q DEF BrokerStart, queueVars, consVars, mongoVars
  <1>14. ASSUME BrokerStop PROVE Goal'
    <2>1. /\ UNCHANGED <<log, consPc, held, processed>>
          /\ ready' = ready \cup Unacked(Consumers)
          /\ \A c \in Consumers : ~conn'[c]
      BY <1>14 DEF BrokerStop, mongoVars
    <2>2. RecordedBeforeAck'
      BY <2>1, QuietConsumer DEF RecordedBeforeAck
    <2>3. AcknowledgedIsRecorded'
      BY <2>1 DEF DeliveryInv, AcknowledgedIsRecorded
    <2>4. SingleDelivery'
      BY <2>1 DEF SingleDelivery, Unacked
    <2>. QED  BY <2>2, <2>3, <2>4
  <1>15. ASSUME UNCHANGED vars PROVE Goal'
    BY <1>15, <1>q DEF vars, queueVars, consVars, mongoVars
  <1>16. Goal'
    BY <1>1, <1>2, <1>3, <1>5, <1>6, <1>7, <1>8, <1>9, <1>10, <1>11, <1>12, <1>13,
       <1>14, <1>15 DEF Next, Broker, ConsumerStep, ConsumerFault
  <1>. QED  BY <1>0, <1>16 DEF DeliveryInv

-----------------------------------------------------------------------------
\* The delivery invariant holds in every reachable state of the pipeline.
THEOREM DeliveryInvariant == Spec => []DeliveryInv
  <1>1. DeliveryInv /\ [Next]_vars => DeliveryInv'
    BY DeliveryStep
  <1>. QED  BY DeliveryInit, <1>1, PTL DEF Spec

\* Every state of producers, broker, consumers and MongoDB is well typed.
THEOREM TypeCorrect == Spec => []TypeOK
  <1>1. DeliveryInv => TypeOK
    BY DEF DeliveryInv
  <1>. QED  BY DeliveryInvariant, <1>1, PTL

\* For any number of producers, consumers and faults, no message that reached
\* the queue leaves it before its event is in processed_events (callback's ack
\* after process_event, nack with requeue, durable queue).
THEOREM NoUnrecordedAck == Spec => []AcknowledgedIsRecorded
  <1>1. DeliveryInv => AcknowledgedIsRecorded
    BY DEF DeliveryInv
  <1>. QED  BY DeliveryInvariant, <1>1, PTL

\* For any number of consumers, a message is never waiting and delivered at the
\* same time, and never delivered over two open connections.
THEOREM OneDelivery == Spec => []SingleDelivery
  <1>1. DeliveryInv => SingleDelivery
    BY DEF DeliveryInv
  <1>. QED  BY DeliveryInvariant, <1>1, PTL

-----------------------------------------------------------------------------
(* The read model.  From here on there is at most one consumer.               *)

\* An event is a run and a place in the script.
LEMMA EventPair ==
    \A e \in Events : e[1] \in Producers /\ e[2] \in 1..5 /\ e = <<e[1], e[2]>>
  BY DEF Events, Steps

\* The topic exchange takes a run's events in script order, so the next one it
\* receives is not in the queue yet and comes after the ones that are.
LEMMA RoutedIsNew ==
    ASSUME TypeOK, PublishedInOrder, NEW p \in Producers, wire[p] # <<>>
    PROVE  /\ Head(wire[p]) \in Events /\ Head(wire[p])[1] = p
           /\ Head(wire[p])[2] <= sent[p]
           /\ \A i \in 1..Len(log) : /\ log[i][1] = p => log[i][2] < Head(wire[p])[2]
                                     /\ log[i] # Head(wire[p])
  <1>1. /\ wire[p] \in Seq(Events) /\ Len(wire[p]) \in Nat /\ Len(wire[p]) # 0
        /\ 1 \in 1..Len(wire[p]) /\ Head(wire[p]) = wire[p][1] /\ wire[p][1] \in Events
    BY DEF TypeOK
  <1>2. Head(wire[p])[1] = p /\ Head(wire[p])[2] <= sent[p]
    BY <1>1 DEF PublishedInOrder
  <1>3. ASSUME NEW i \in 1..Len(log), log[i][1] = p
        PROVE  log[i][2] < Head(wire[p])[2]
    BY <1>1, <1>3 DEF PublishedInOrder
  <1>4. \A i \in 1..Len(log) : log[i] \in Events
    BY DEF TypeOK
  <1>5. ASSUME NEW i \in 1..Len(log) PROVE log[i] # Head(wire[p])
    BY <1>1, <1>2, <1>3, <1>4, EventPair
  <1>. QED  BY <1>1, <1>2, <1>3, <1>5

\* No event is in the queue twice.
LEMMA RoutedOnce ==
    ASSUME TypeOK, PublishedInOrder,
           NEW i \in 1..Len(log), NEW j \in 1..Len(log), log[i] = log[j]
    PROVE  i = j
  <1>1. log[i] \in Events /\ log[i][2] \in 1..5 /\ log[j][2] \in 1..5 /\ Len(log) \in Nat
    BY EventPair DEF TypeOK
  <1>2. CASE i < j
    BY <1>1, <1>2 DEF PublishedInOrder
  <1>3. CASE j < i
    BY <1>1, <1>3 DEF PublishedInOrder
  <1>. QED  BY <1>1, <1>2, <1>3

\* Every step keeps the events of a run in script order.
LEMMA PublishedStep ==
    ASSUME TypeOK, PublishedInOrder, [Next]_vars
    PROVE  PublishedInOrder'
  <1>0. /\ log \in Seq(Events) /\ Len(log) \in Nat
        /\ wire \in [Producers -> Seq(Events)] /\ sent \in [Producers -> 0..5]
        /\ \A i \in 1..Len(log) : log[i] \in Events
        /\ \A p \in Producers : /\ Len(wire[p]) \in Nat
                                /\ \A i \in 1..Len(wire[p]) : wire[p][i] \in Events
    BY DEF TypeOK
  <1>1. CASE UNCHANGED <<wire, sent, log>>
    BY <1>1 DEF PublishedInOrder
  <1>2. ASSUME UNCHANGED <<sent, log>>,
               \A p \in Producers : wire'[p] = <<>> \/ wire'[p] = wire[p]
        PROVE  PublishedInOrder'
    <2>1. \A p \in Producers : wire'[p] = wire[p] \/ Len(wire'[p]) = 0
      BY <1>2
    <2>2. \A i \in 1..Len(log) : log[i][1] \in Producers
      BY <1>0, EventPair
    <2>. QED  BY <1>0, <1>2, <2>1, <2>2 DEF PublishedInOrder
  <1>3. ASSUME NEW p \in Producers, PublishEvent(p) PROVE PublishedInOrder'
    <2> DEFINE e == <<p, sent[p] + 1>>
    <2>1. /\ sent' = [sent EXCEPT ![p] = sent[p] + 1] /\ log' = log
          /\ wire' = [wire EXCEPT ![p] = Append(wire[p], e)] /\ sent[p] \in 0..5 /\ sent[p] < 5
      BY <1>0, <1>3 DEF PublishEvent, queueVars
    <2>2. /\ e \in Events /\ e[1] = p /\ e[2] = sent[p] + 1
      BY <2>1, EventIn
    <2>3. /\ sent'[p] = sent[p] + 1 /\ wire'[p] = Append(wire[p], e)
          /\ \A q \in Producers : q # p => sent'[q] = sent[q] /\ wire'[q] = wire[q]
          /\ \A q \in Producers : sent[q] \in 0..5 /\ sent'[q] \in Nat /\ sent[q] <= sent'[q]
      <3> HIDE DEF e
      <3>. QED  BY <1>0, <2>1
    <2>4. /\ Len(wire'[p]) = Len(wire[p]) + 1 /\ wire'[p][Len(wire[p]) + 1] = e
          /\ \A i \in 1..Len(wire[p]) : wire'[p][i] = wire[p][i]
      <3> HIDE DEF e
      <3>. QED  BY <1>0, <2>2, <2>3
    <2>5. ASSUME NEW q \in Producers, NEW i \in 1..Len(wire'[q])
          PROVE  /\ wire'[q][i][1] = q /\ wire'[q][i][2] <= sent'[q]
                 /\ \A j \in 1..(i - 1) : wire'[q][j][2] < wire'[q][i][2]
      <3> HIDE DEF e
      <3>1. CASE q # p
        BY <1>0, <2>3, <3>1 DEF PublishedInOrder
      <3>2. CASE q = p /\ i \in 1..Len(wire[p])
        <4>1. /\ wire[p][i][1] = p /\ wire[p][i][2] <= sent[p]
              /\ \A j \in 1..(i - 1) : wire[p][j][2] < wire[p][i][2]
          BY <3>2 DEF PublishedInOrder
        <4>2. wire[p][i][2] \in 1..5 /\ wire[p][i][2] <= sent'[p]
          <5>1. wire[p][i] \in Events
            BY <1>0, <3>2
          <5>2. wire[p][i][2] \in 1..5
            BY <5>1, EventPair
          <5>3. sent[p] \in 0..5 /\ sent'[p] \in Nat /\ sent[p] <= sent'[p]
            BY <2>3
          <5>. QED  BY <4>1, <5>2, <5>3
        <4>3. \A j \in 1..(i - 1) : j \in 1..Len(wire[p])
          BY <1>0, <3>2
        <4>. QED  BY <2>4, <3>2, <4>1, <4>2, <4>3
      <3>3. CASE q = p /\ i = Len(wire[p]) + 1
        <4>1. ASSUME NEW j \in 1..(i - 1) PROVE wire'[p][j][2] < e[2]
          <5>1. j \in 1..Len(wire[p]) /\ wire[p][j][2] <= sent[p] /\ wire[p][j][2] \in 1..5
            BY <1>0, <3>3, EventPair DEF PublishedInOrder
          <5>2. wire'[p][j] = wire[p][j]
            BY <2>4, <5>1
          <5>3. sent[p] \in Nat /\ e[2] = sent[p] + 1
            BY <2>1, <2>2
          <5>. QED  BY <5>1, <5>2, <5>3
        <4>2. wire'[q][i] = e /\ sent'[q] = sent[p] + 1
          BY <2>3, <2>4, <3>3
        <4>. QED  BY <2>1, <2>2, <3>3, <4>1, <4>2
      <3>. QED  BY <1>0, <2>4, <3>1, <3>2, <3>3
    <2>6. ASSUME NEW i \in 1..Len(log), NEW q \in Producers, log[i][1] = q
          PROVE  /\ log[i][2] <= sent'[q]
                 /\ \A k \in 1..Len(wire'[q]) : log[i][2] < wire'[q][k][2]
      <3> HIDE DEF e
      <3>1. log[i][2] <= sent[q] /\ log[i][2] \in 1..5 /\ log[i][2] <= sent'[q]
        <4>1. log[i][2] \in 1..5
          BY <1>0, EventPair
        <4>2. log[i][2] <= sent[q]
          BY <2>6 DEF PublishedInOrder
        <4>3. sent[q] \in 0..5 /\ sent'[q] \in Nat /\ sent[q] <= sent'[q]
          BY <2>3
        <4>. QED  BY <4>1, <4>2, <4>3
      <3>2. ASSUME NEW k \in 1..Len(wire'[q]) PROVE log[i][2] < wire'[q][k][2]
        <4>1. CASE q # p
          BY <2>3, <2>6, <4>1 DEF PublishedInOrder
        <4>2. CASE q = p /\ k \in 1..Len(wire[p])
          <5>1. log[i][2] < wire[p][k][2]
            BY <2>6, <4>2 DEF PublishedInOrder
          <5>. QED  BY <2>4, <4>2, <5>1
        <4>3. CASE q = p /\ k = Len(wire[p]) + 1
          <5>1. wire'[q][k] = e
            BY <2>4, <4>3
          <5>. QED  BY <2>1, <2>2, <3>1, <4>3, <5>1
        <4>. QED  BY <1>0, <2>4, <4>1, <4>2, <4>3
      <3>. QED  BY <3>1, <3>2
    <2>7. \A i \in 1..Len(log) : log[i][1] \in Producers
      BY <1>0, EventPair
    <2> HIDE DEF e
    <2>. QED  BY <2>1, <2>5, <2>6, <2>7 DEF PublishedInOrder
  <1>4. ASSUME NEW p \in Producers, BrokerRoute(p) PROVE PublishedInOrder'
    <2>0. PICK h : h = Head(wire[p])
      OBVIOUS
    <2>1. /\ sent' = sent /\ wire[p] # <<>> /\ wire' = [wire EXCEPT ![p] = Tail(wire[p])]
          /\ log' = log \/ log' = Append(log, h)
      BY <1>0, <1>4, <2>0 DEF BrokerRoute
    <2>2. /\ h \in Events /\ h[1] = p /\ h[2] <= sent[p] /\ h = wire[p][1]
          /\ \A i \in 1..Len(log) : log[i][1] = p => log[i][2] < h[2]
      BY <1>0, <2>0, <2>1, RoutedIsNew
    <2>3. /\ wire'[p] = Tail(wire[p]) /\ Len(wire'[p]) = Len(wire[p]) - 1
          /\ \A i \in 1..Len(wire'[p]) : i + 1 \in 1..Len(wire[p]) /\ wire'[p][i] = wire[p][i + 1]
          /\ \A q \in Producers : q # p => wire'[q] = wire[q]
      BY <1>0, <2>1
    <2>4. \A i \in 1..Len(wire'[p]) : h[2] < wire'[p][i][2]
      BY <1>0, <2>1, <2>2, <2>3 DEF PublishedInOrder
    <2>5. ASSUME NEW q \in Producers, NEW i \in 1..Len(wire'[q])
          PROVE  /\ wire'[q][i][1] = q /\ wire'[q][i][2] <= sent'[q]
                 /\ \A j \in 1..(i - 1) : wire'[q][j][2] < wire'[q][i][2]
      <3>1. CASE q # p
        BY <2>1, <2>3, <3>1 DEF PublishedInOrder
      <3>2. CASE q = p
        <4>1. ASSUME NEW j \in 1..(i - 1) PROVE wire'[p][j][2] < wire'[p][i][2]
          <5>1. j \in 1..Len(wire'[p]) /\ j + 1 \in 1..((i + 1) - 1) /\ i + 1 \in 1..Len(wire[p])
            <6>1. Len(wire[p]) \in Nat /\ i \in 1..Len(wire'[p])
              BY <1>0, <3>2
            <6>. QED  BY <2>3, <6>1
          <5>. QED  BY <2>3, <3>2, <5>1 DEF PublishedInOrder
        <4>. QED  BY <2>1, <2>3, <3>2, <4>1 DEF PublishedInOrder
      <3>. QED  BY <3>1, <3>2
    <2>6. ASSUME NEW i \in 1..Len(log)
          PROVE  /\ log[i][2] <= sent[log[i][1]]
                 /\ \A j \in 1..(i - 1) : log[j][1] = log[i][1] => log[j][2] < log[i][2]
                 /\ \A k \in 1..Len(wire'[log[i][1]]) : log[i][2] < wire'[log[i][1]][k][2]
      <3>1. log[i][1] \in Producers
        BY <1>0, EventPair
      <3>2. ASSUME NEW k \in 1..Len(wire'[log[i][1]]) PROVE log[i][2] < wire'[log[i][1]][k][2]
        <4>1. CASE log[i][1] = p
          BY <2>3, <4>1 DEF PublishedInOrder
        <4>2. CASE log[i][1] # p
          BY <2>3, <3>1, <4>2 DEF PublishedInOrder
        <4>. QED  BY <4>1, <4>2
      <3>. QED  BY <3>2 DEF PublishedInOrder
    <2>7. CASE log' = log
      BY <2>1, <2>5, <2>6, <2>7 DEF PublishedInOrder
    <2>8. CASE log' = Append(log, h)
      <3>1. /\ Len(log') = Len(log) + 1 /\ log'[Len(log) + 1] = h
            /\ \A i \in 1..Len(log) : log'[i] = log[i]
        BY <1>0, <2>2, <2>8
      <3>2. ASSUME NEW i \in 1..Len(log')
            PROVE  /\ log'[i][2] <= sent'[log'[i][1]]
                   /\ \A j \in 1..(i - 1) : log'[j][1] = log'[i][1] => log'[j][2] < log'[i][2]
                   /\ \A k \in 1..Len(wire'[log'[i][1]]) : log'[i][2] < wire'[log'[i][1]][k][2]
        <4>1. CASE i \in 1..Len(log)
          <5>1. \A j \in 1..(i - 1) : j \in 1..Len(log)
            BY <1>0, <4>1
          <5>. QED  BY <2>1, <2>6, <3>1, <4>1, <5>1
        <4>2. CASE i = Len(log) + 1
          <5>1. \A j \in 1..(i - 1) : j \in 1..Len(log)
            BY <1>0, <4>2
          <5>. QED  BY <2>1, <2>2, <2>4, <3>1, <4>2, <5>1
        <4>. QED  BY <1>0, <3>1, <4>1, <4>2
      <3>. QED  BY <2>5, <3>2 DEF PublishedInOrder
    <2>. QED  BY <2>1, <2>7, <2>8
  <1>5. ASSUME NEW p \in Producers, Producer(p) PROVE PublishedInOrder'
    <2>1. CASE ProducerStart(p) \/ ProducerConnect(p) \/ ProducerClose(p)
      BY <1>1, <2>1 DEF ProducerStart, ProducerConnect, ProducerClose, queueVars
    <2>2. CASE ProducerDies(p)
      BY <1>0, <1>2, <2>2 DEF ProducerDies, queueVars
    <2>. QED  BY <1>3, <1>5, <2>1, <2>2 DEF Producer
  <1>6. CASE BrokerStop
    BY <1>2, <1>6 DEF BrokerStop
  <1>7. ASSUME NEW c \in Consumers, ConsumerStart(c) \/ ConsumerStep(c) \/ ConsumerFault(c) \/ Deliver(c)
        PROVE  UNCHANGED <<wire, sent, log>>
    BY <1>7 DEF ConsumerStart, ConsumerStep, ConsumerFault, ConsumerConnect, ConsumerBind, StartConsuming,
       FindProcessed, InsertProcessed, UpdateView, Ack, Nack, ConsumerExit, MongoFails, ConnectionLost,
       ConsumerCrash, Deliver, prodVars, queueVars
  <1>8. CASE BrokerStart \/ UNCHANGED vars
    BY <1>1, <1>8 DEF BrokerStart, vars, prodVars, queueVars
  <1>. QED
    BY <1>1, <1>4, <1>5, <1>6, <1>7, <1>8 DEF Next, Broker

-----------------------------------------------------------------------------
\* A step that records and projects nothing, routes nothing, and moves callbacks
\* neither to insert_one nor to update_one keeps the order of the queue.
LEMMA QuietOrder ==
    ASSUME QueueOrder, UNCHANGED <<log, processed, projected>>,
           \A c \in Consumers :
              \/ consPc'[c] = consPc[c] /\ held'[c] = held[c]
              \/ consPc'[c] \notin {"insert", "update"} /\ held'[c] \in {held[c], 0}
    PROVE  QueueOrder'
  <1>1. RecordedWasRouted' /\ RecordedInOrder'
    BY DEF QueueOrder, RecordedWasRouted, RecordedInOrder
  <1>2. ASSUME NEW c \in Consumers
        PROVE  /\ \A i \in 1..Len(log) : i < held'[c] => log[i] \in processed
               /\ consPc'[c] = "insert" => log[held'[c]] \notin processed
               /\ consPc'[c] = "update" =>
                     /\ log[held'[c]] \notin projected
                     /\ \A j \in 1..Len(log) : held'[c] < j => log[j] \notin processed
    <2>1. CASE consPc'[c] = consPc[c] /\ held'[c] = held[c]
      BY <2>1 DEF QueueOrder, CallbackInOrder, Event
    <2>2. CASE consPc'[c] \notin {"insert", "update"} /\ held'[c] = held[c]
      BY <2>2 DEF QueueOrder, CallbackInOrder
    <2>3. CASE consPc'[c] \notin {"insert", "update"} /\ held'[c] = 0
      <3>1. \A i \in 1..Len(log) : ~(i < 0)
        OBVIOUS
      <3>. QED  BY <2>3, <3>1
    <2>. QED  BY <2>1, <2>2, <2>3
  <1>3. CallbackInOrder'
    BY <1>2 DEF CallbackInOrder, Event
  <1>. QED  BY <1>1, <1>3 DEF QueueOrder

\* A routed event is new to processed_events and goes behind all others.
LEMMA RouteOrder ==
    ASSUME DeliveryInv, PublishedInOrder, QueueOrder, NEW p \in Producers, BrokerRoute(p)
    PROVE  QueueOrder'
  <1>0. /\ TypeOK /\ log \in Seq(Events) /\ Len(log) \in Nat /\ held \in [Consumers -> 0..Len(log)]
        /\ CallbackHolds
    BY DEF DeliveryInv, TypeOK
  <1>1. PICK h : h = Head(wire[p])
    OBVIOUS
  <1>2. /\ wire[p] # <<>> /\ UNCHANGED <<consPc, held, processed, projected>>
        /\ log' = log \/ log' = Append(log, h)
    BY <1>1 DEF BrokerRoute, consVars, mongoVars
  <1>3. CASE log' = log
    BY <1>2, <1>3, QuietOrder
  <1>4. CASE log' = Append(log, h)
    <2>1. h \in Events /\ \A i \in 1..Len(log) : log[i] # h
      BY <1>0, <1>1, <1>2, RoutedIsNew
    <2>2. h \notin processed
      BY <2>1 DEF QueueOrder, RecordedWasRouted
    <2>3. /\ Len(log') = Len(log) + 1 /\ log'[Len(log) + 1] = h
          /\ \A i \in 1..Len(log) : i \in 1..Len(log') /\ log'[i] = log[i]
          /\ \A i \in 1..Len(log') : i \in 1..Len(log) \/ i = Len(log) + 1
      BY <1>0, <1>4, <2>1
    <2>4. RecordedWasRouted'
      BY <1>2, <2>3 DEF QueueOrder, RecordedWasRouted
    <2>5. ASSUME NEW i \in 1..Len(log'), NEW j \in 1..Len(log'), i < j, log'[j] \in processed
          PROVE  log'[i] \in processed
      <3>1. j \in 1..Len(log)
        BY <2>2, <2>3, <2>5
      <3>2. i \in 1..Len(log)
        BY <1>0, <2>3, <2>5, <3>1
      <3>. QED  BY <2>3, <2>5, <3>1, <3>2 DEF QueueOrder, RecordedInOrder
    <2>6. ASSUME NEW c \in Consumers
          PROVE  /\ \A i \in 1..Len(log') : i < held[c] => log'[i] \in processed
                 /\ consPc[c] = "insert" => log'[held[c]] \notin processed
                 /\ consPc[c] = "update" =>
                       /\ log'[held[c]] \notin projected
                       /\ \A j \in 1..Len(log') : held[c] < j => log'[j] \notin processed
      <3>1. held[c] \in 0..Len(log)
        BY <1>0
      <3>2. consPc[c] \in {"insert", "update"} => log'[held[c]] = Event(c)
        <4>1. consPc[c] \in {"insert", "update"} => held[c] # 0
          BY <1>0 DEF CallbackHolds, InCallback
        <4>. QED  BY <1>0, <2>3, <3>1, <4>1 DEF Event
      <3>3. ASSUME NEW i \in 1..Len(log'), i < held[c] PROVE log'[i] \in processed
        <4>1. i \in 1..Len(log)
          BY <1>0, <2>3, <3>1, <3>3
        <4>. QED  BY <2>3, <3>3, <4>1 DEF QueueOrder, CallbackInOrder
      <3>4. ASSUME NEW j \in 1..Len(log'), consPc[c] = "update", held[c] < j
            PROVE  log'[j] \notin processed
        BY <2>2, <2>3, <3>4 DEF QueueOrder, CallbackInOrder
      <3>. QED  BY <3>2, <3>3, <3>4 DEF QueueOrder, CallbackInOrder
    <2>7. RecordedInOrder'
      BY <1>2, <2>5 DEF RecordedInOrder
    <2>8. CallbackInOrder'
      BY <1>2, <2>6 DEF CallbackInOrder, Event
    <2>. QED  BY <2>4, <2>7, <2>8 DEF QueueOrder
  <1>. QED  BY <1>2, <1>3, <1>4

\* The only consumer gets the first waiting message, and what is before it has
\* been acknowledged, hence recorded.
LEMMA DeliverOrder ==
    ASSUME SingleConsumer, DeliveryInv, QueueOrder, NEW c \in Consumers, Deliver(c)
    PROVE  QueueOrder'
  <1>0. /\ Len(log) \in Nat /\ held \in [Consumers -> 0..Len(log)] /\ consPc \in [Consumers -> ConsPc]
        /\ ready \subseteq 1..Len(log) /\ CallbackHolds /\ AcknowledgedIsRecorded
    BY DEF DeliveryInv, TypeOK
  <1>1. PICK i \in ready : (\A j \in ready : i <= j) /\ held' = [held EXCEPT ![c] = i]
    BY DEF Deliver
  <1>2. /\ consPc[c] = "idle" /\ consPc' = [consPc EXCEPT ![c] = "find"]
        /\ UNCHANGED <<log, processed, projected>>
    BY DEF Deliver, mongoVars
  <1>3. held'[c] = i /\ consPc'[c] = "find"
    BY <1>0, <1>1, <1>2
  <1>4. held[c] = 0
    BY <1>0, <1>2 DEF CallbackHolds, InCallback
  <1>5. Unacked(Consumers) = {}
    BY <1>4 DEF Unacked, SingleConsumer
  <1>6. ASSUME NEW j \in 1..Len(log), j < i PROVE log[j] \in processed
    <2>1. j \notin ready
      BY <1>0, <1>1, <1>6
    <2>. QED  BY <1>0, <1>5, <2>1 DEF AcknowledgedIsRecorded
  <1>7. CallbackInOrder'
    BY <1>2, <1>3, <1>6 DEF CallbackInOrder, SingleConsumer
  <1>8. RecordedWasRouted' /\ RecordedInOrder'
    BY <1>2 DEF QueueOrder, RecordedWasRouted, RecordedInOrder
  <1>. QED  BY <1>7, <1>8 DEF QueueOrder

\* find_one tells whether the event is new, and nobody else can record it then.
LEMMA FindOrder ==
    ASSUME SingleConsumer, DeliveryInv, QueueOrder, NEW c \in Consumers, FindProcessed(c)
    PROVE  QueueOrder'
  <1>0. consPc \in [Consumers -> ConsPc]
    BY DEF DeliveryInv, TypeOK
  <1>1. /\ UNCHANGED <<log, held, processed, projected>>
        /\ consPc' = [consPc EXCEPT ![c] = IF Event(c) \in processed THEN "ack" ELSE "insert"]
    BY DEF FindProcessed, queueVars, mongoVars
  <1>2. /\ consPc'[c] \in {"ack", "insert"}
        /\ consPc'[c] = "insert" => Event(c) \notin processed
    BY <1>0, <1>1
  <1>3. CallbackInOrder'
    <2>1. Event(c)' = Event(c)
      BY <1>1 DEF Event
    <2>2. \A i \in 1..Len(log) : i < held[c] => log[i] \in processed
      BY DEF QueueOrder, CallbackInOrder
    <2>. QED  BY <1>1, <1>2, <2>1, <2>2 DEF CallbackInOrder, SingleConsumer
  <1>4. RecordedWasRouted' /\ RecordedInOrder'
    BY <1>1 DEF QueueOrder, RecordedWasRouted, RecordedInOrder
  <1>. QED  BY <1>3, <1>4 DEF QueueOrder

\* insert_one, acknowledged by the server or not, records the next event of the queue.
LEMMA RecordOrder ==
    ASSUME SingleConsumer, DeliveryInv, PublishedInOrder, QueueOrder, NEW c \in Consumers,
           consPc[c] = "insert", RecordEvent(c), UNCHANGED <<log, held>>,
           consPc'[c] \in {"update", "nack"}
    PROVE  QueueOrder'
  <1>0. /\ TypeOK /\ Len(log) \in Nat /\ held[c] \in 1..Len(log) /\ Event(c) = log[held[c]]
    BY DEF DeliveryInv, TypeOK, CallbackHolds, InCallback, Event
  <1>1. processed' = processed \cup {Event(c)} /\ projected' = projected /\ Event(c)' = Event(c)
    BY DEF RecordEvent, Event
  <1>2. Event(c) \notin processed /\ \A i \in 1..Len(log) : i < held[c] => log[i] \in processed
    BY DEF QueueOrder, CallbackInOrder
  <1>3. \A j \in 1..Len(log) : log[j] = Event(c) => j = held[c]
    BY <1>0, RoutedOnce DEF DeliveryInv
  <1>4. \A j \in 1..Len(log) : held[c] < j => log[j] \notin processed
    BY <1>0, <1>2 DEF QueueOrder, RecordedInOrder
  <1>5. RecordedWasRouted'
    BY <1>0, <1>1 DEF QueueOrder, RecordedWasRouted
  <1>6. RecordedInOrder'
    <2> SUFFICES ASSUME NEW i \in 1..Len(log), NEW j \in 1..Len(log), i < j, log[j] \in processed'
                 PROVE  log[i] \in processed'
      BY DEF RecordedInOrder
    <2>1. CASE log[j] \in processed
      BY <1>1, <2>1 DEF QueueOrder, RecordedInOrder
    <2>2. CASE log[j] = Event(c)
      BY <1>1, <1>2, <1>3, <2>2
    <2>. QED  BY <1>1, <2>1, <2>2
  <1>7. CallbackInOrder'
    <2>1. Event(c) \notin projected
      BY <1>2 DEF QueueOrder, RecordedWasRouted
    <2>2. \A j \in 1..Len(log) : held[c] < j => log[j] \notin processed'
      BY <1>0, <1>1, <1>3, <1>4
    <2>3. consPc'[c] # "insert"
      OBVIOUS
    <2>4. \A i \in 1..Len(log) : i < held[c] => log[i] \in processed'
      BY <1>1, <1>2
    <2>. QED  BY <1>1, <2>1, <2>2, <2>3, <2>4 DEF CallbackInOrder, SingleConsumer
  <1>. QED  BY <1>5, <1>6, <1>7 DEF QueueOrder

\* update_one, acknowledged by the server or not, ends the callback's view work.
LEMMA ProjectOrder ==
    ASSUME SingleConsumer, DeliveryInv, QueueOrder, NEW c \in Consumers,
           consPc[c] = "update", ProjectEvent(c), UNCHANGED <<log, held>>,
           consPc'[c] \in {"ack", "nack"}
    PROVE  QueueOrder'
  <1>1. processed' = processed /\ projected' = projected \cup {Event(c)} /\ Event(c) \in processed
    BY DEF ProjectEvent, DeliveryInv, RecordedBeforeAck
  <1>2. RecordedWasRouted' /\ RecordedInOrder'
    BY <1>1 DEF QueueOrder, RecordedWasRouted, RecordedInOrder
  <1>3. CallbackInOrder'
    <2>1. \A i \in 1..Len(log) : i < held[c] => log[i] \in processed
      BY DEF QueueOrder, CallbackInOrder
    <2>. QED  BY <1>1, <2>1 DEF CallbackInOrder, SingleConsumer
  <1>. QED  BY <1>2, <1>3 DEF QueueOrder

\* Every step keeps the order of the queue.
LEMMA OrderStep ==
    ASSUME SingleConsumer, DeliveryInv, PublishedInOrder, QueueOrder, [Next]_vars
    PROVE  QueueOrder'
  <1>0. /\ held \in [Consumers -> 0..Len(log)] /\ consPc \in [Consumers -> ConsPc]
    BY DEF DeliveryInv, TypeOK
  <1>1. CASE UNCHANGED <<log, consPc, held, processed, projected>>
    BY <1>1, QuietOrder
  <1>2. ASSUME NEW p \in Producers, Producer(p) PROVE QueueOrder'
    BY <1>1, <1>2 DEF Producer, ProducerStart, ProducerConnect, PublishEvent, ProducerClose,
       ProducerDies, queueVars, consVars, mongoVars
  <1>3. CASE BrokerStart \/ BrokerStop \/ UNCHANGED vars
    BY <1>1, <1>3 DEF BrokerStart, BrokerStop, vars, queueVars, consVars, mongoVars
  <1>4. ASSUME NEW c \in Consumers, \/ ConsumerStart(c) \/ ConsumerConnect(c) \/ ConsumerBind(c)
                                    \/ StartConsuming(c) \/ Ack(c) \/ Nack(c) \/ ConsumerExit(c)
                                    \/ ConnectionLost(c) \/ ConsumerCrash(c)
        PROVE  QueueOrder'
    <2>1. UNCHANGED <<log, processed, projected>>
      BY <1>4 DEF ConsumerStart, ConsumerConnect, ConsumerBind, StartConsuming, Ack, Nack, ConsumerExit,
         ConnectionLost, ConsumerCrash, queueVars, mongoVars
    <2>2. \/ UNCHANGED <<consPc, held>>
          \/ /\ \E pc \in {"connecting", "binding", "idle", "down"} : consPc' = [consPc EXCEPT ![c] = pc]
             /\ held' = held \/ held' = [held EXCEPT ![c] = 0]
      BY <1>4 DEF ConsumerStart, ConsumerConnect, ConsumerBind, StartConsuming, Ack, Nack, ConsumerExit,
         ConnectionLost, ConsumerCrash, consVars
    <2>3. \A d \in Consumers :
              \/ consPc'[d] = consPc[d] /\ held'[d] = held[d]
              \/ consPc'[d] \notin {"insert", "update"} /\ held'[d] \in {held[d], 0}
      BY <1>0, <2>2
    <2>. QED  BY <2>1, <2>3, QuietOrder
  <1>5. ASSUME NEW c \in Consumers, InsertProcessed(c) PROVE QueueOrder'
    <2>1. /\ consPc[c] = "insert" /\ RecordEvent(c) /\ UNCHANGED <<log, held>>
          /\ consPc'[c] = "update"
      BY <1>0, <1>5 DEF InsertProcessed, queueVars
    <2>. QED  BY <2>1, RecordOrder
  <1>6. ASSUME NEW c \in Consumers, UpdateView(c) PROVE QueueOrder'
    <2>1. /\ consPc[c] = "update" /\ ProjectEvent(c) /\ UNCHANGED <<log, held>>
          /\ consPc'[c] = "ack"
      BY <1>0, <1>6 DEF UpdateView, queueVars
    <2>. QED  BY <2>1, ProjectOrder
  <1>7. ASSUME NEW c \in Consumers, MongoFails(c) PROVE QueueOrder'
    <2>1. /\ consPc' = [consPc EXCEPT ![c] = "nack"] /\ consPc'[c] = "nack" /\ UNCHANGED <<log, held>>
      BY <1>0, <1>7 DEF MongoFails, queueVars
    <2>2. CASE UNCHANGED mongoVars
      <3>1. \A d \in Consumers : consPc'[d] = consPc[d] \/ consPc'[d] = "nack"
        BY <1>0, <2>1
      <3>. QED  BY <2>1, <2>2, <3>1, QuietOrder DEF mongoVars
    <2>3. CASE consPc[c] = "insert" /\ RecordEvent(c)
      BY <2>1, <2>3, RecordOrder
    <2>4. CASE consPc[c] = "update" /\ ProjectEvent(c)
      BY <2>1, <2>4, ProjectOrder
    <2>. QED  BY <1>7, <2>2, <2>3, <2>4 DEF MongoFails
  <1>. QED
    BY <1>2, <1>3, <1>4, <1>5, <1>6, <1>7, RouteOrder, DeliverOrder, FindOrder
       DEF Next, Broker, ConsumerStep, ConsumerFault

-----------------------------------------------------------------------------
\* The abstract read model reads the same event catalogue.
LEMMA SameCatalog ==
    /\ RM!Events = Events
    /\ \A e : RM!EventType(e) = EventType(e)
    /\ \A d, e : RM!UserUpdate(d, e) = UserUpdate(d, e) /\ RM!PostUpdate(d, e) = PostUpdate(d, e)
    /\ RM!NoUserDoc = NoUserDoc /\ RM!NoPostDoc = NoPostDoc
    /\ \A S : RM!Cardinality(S) = Cardinality(S)
  <1>1. RM!Events = Events
    BY DEF Events, RM!Events, Steps, RM!Steps
  <1>2. \A e : RM!EventType(e) = EventType(e)
    BY DEF EventType, RM!EventType, Script, RM!Script
  <1>3. \A d, k, f : RM!Inc(d, k, f) = Inc(d, k, f)
    BY DEF Inc, RM!Inc
  <1>4. \A d : RM!SetUser(d) = SetUser(d)
    BY DEF SetUser, RM!SetUser, UserCounters, RM!UserCounters
  <1>5. \A d, e : RM!UserUpdate(d, e) = UserUpdate(d, e) /\ RM!PostUpdate(d, e) = PostUpdate(d, e)
    BY <1>2, <1>3, <1>4 DEF UserUpdate, RM!UserUpdate, PostUpdate, RM!PostUpdate
  <1>6. RM!NoUserDoc = NoUserDoc /\ RM!NoPostDoc = NoPostDoc
    BY DEF NoUserDoc, RM!NoUserDoc, NoPostDoc, RM!NoPostDoc, UserCounters, RM!UserCounters,
       PostCounters, RM!PostCounters
  <1>7. \A S : RM!Cardinality(S) = Cardinality(S)
    BY DEF Cardinality, RM!Cardinality
  <1>. QED  BY <1>1, <1>2, <1>5, <1>6, <1>7

\* The place in the script determines the type.
LEMMA EventTypes ==
    \A e \in Events : /\ e[2] = 1 => EventType(e) = "UserCreated"
                      /\ e[2] = 2 => EventType(e) = "PostCreated"
                      /\ e[2] = 3 => EventType(e) = "MessageSent"
                      /\ e[2] = 4 => EventType(e) = "PostLiked"
                      /\ e[2] = 5 => EventType(e) = "CommentAdded"
  BY DEF EventType, Script

Counts(type, e) == IF EventType(e) = type THEN 1 ELSE 0

\* What one event does to the user document: no field is lost, the login comes
\* with UserCreated, the counters with it on insert, and $inc adds one.
LEMMA UserEffect ==
    ASSUME NEW d \in UserDoc, NEW e \in Events
    PROVE  /\ d.has \subseteq UserUpdate(d, e).has
           /\ "login" \in UserUpdate(d, e).has <=> ("login" \in d.has \/ e[2] = 1)
           /\ e[2] = 1 /\ d.has = {} => UserCounters \subseteq UserUpdate(d, e).has
           /\ UserUpdate(d, e).count["posts_count"] = d.count["posts_count"] + Counts("PostCreated", e)
           /\ UserUpdate(d, e).count["messages_sent"] = d.count["messages_sent"] + Counts("MessageSent", e)
  <1>0. /\ e[2] \in 1..5 /\ d.count \in [UserCounters -> Nat]
        /\ d.count["posts_count"] \in Nat /\ d.count["messages_sent"] \in Nat
    BY EventPair DEF UserDoc, UserCounters
  <1>1. CASE e[2] = 1
    <2>1. UserUpdate(d, e) = SetUser(d) /\ EventType(e) = "UserCreated"
      BY <1>1, EventTypes DEF UserUpdate
    <2>2. /\ SetUser(d).count = d.count
          /\ SetUser(d).has = d.has \cup {"user_id", "login", "email"}
                                     \cup (IF d.has = {} THEN UserCounters ELSE {})
      BY DEF SetUser, UserDoc
    <2>. QED  BY <1>0, <1>1, <2>1, <2>2 DEF Counts
  <1>2. CASE e[2] = 2
    <2>1. UserUpdate(d, e) = Inc(d, "user_id", "posts_count") /\ EventType(e) = "PostCreated"
      BY <1>2, EventTypes DEF UserUpdate
    <2>. QED  BY <1>0, <1>2, <2>1 DEF Counts, Inc, UserCounters
  <1>3. CASE e[2] = 3
    <2>1. UserUpdate(d, e) = Inc(d, "user_id", "messages_sent") /\ EventType(e) = "MessageSent"
      BY <1>3, EventTypes DEF UserUpdate
    <2>. QED  BY <1>0, <1>3, <2>1 DEF Counts, Inc, UserCounters
  <1>4. CASE e[2] \in {4, 5}
    <2>1. UserUpdate(d, e) = d /\ EventType(e) \in {"PostLiked", "CommentAdded"}
      BY <1>4, EventTypes DEF UserUpdate
    <2>. QED  BY <1>0, <1>4, <2>1 DEF Counts
  <1>. QED  BY <1>0, <1>1, <1>2, <1>3, <1>4

LEMMA PostEffect ==
    ASSUME NEW d \in PostDoc, NEW e \in Events
    PROVE  /\ PostUpdate(d, e).count["likes_count"] = d.count["likes_count"] + Counts("PostLiked", e)
           /\ PostUpdate(d, e).count["comments_count"] = d.count["comments_count"] + Counts("CommentAdded", e)
  <1>0. /\ e[2] \in 1..5 /\ d.count \in [PostCounters -> Nat]
        /\ d.count["likes_count"] \in Nat /\ d.count["comments_count"] \in Nat
    BY EventPair DEF PostDoc, PostCounters
  <1>1. CASE e[2] = 4
    <2>1. PostUpdate(d, e) = Inc(d, "post_id", "likes_count") /\ EventType(e) = "PostLiked"
      BY <1>1, EventTypes DEF PostUpdate
    <2>. QED  BY <1>0, <2>1 DEF Counts, Inc, PostCounters
  <1>2. CASE e[2] = 5
    <2>1. PostUpdate(d, e) = Inc(d, "post_id", "comments_count") /\ EventType(e) = "CommentAdded"
      BY <1>2, EventTypes DEF PostUpdate
    <2>. QED  BY <1>0, <2>1 DEF Counts, Inc, PostCounters
  <1>3. CASE e[2] \in {1, 2, 3}
    <2>1. PostUpdate(d, e) = d /\ EventType(e) \in {"UserCreated", "PostCreated", "MessageSent"}
      BY <1>3, EventTypes DEF PostUpdate
    <2>. QED  BY <1>0, <2>1 DEF Counts
  <1>. QED  BY <1>0, <1>1, <1>2, <1>3

\* A newly projected event adds one to the number of its type and to no other.
LEMMA CountsOne ==
    ASSUME IsFiniteSet(projected), NEW e, e \notin projected, projected' = projected \cup {e}, NEW type
    PROVE  Cardinality(RM!ProjectedOf(type))' = Cardinality(RM!ProjectedOf(type)) + Counts(type, e)
  <1>1. PICK S : S = RM!ProjectedOf(type)
    OBVIOUS
  <1>2. PICK T : T = RM!ProjectedOf(type)'
    OBVIOUS
  <1>3. S = {x \in projected : EventType(x) = type} /\ T = {x \in projected' : EventType(x) = type}
    BY <1>1, <1>2, SameCatalog DEF RM!ProjectedOf
  <1>4. IsFiniteSet(S) /\ e \notin S
    BY <1>3, FS_Subset
  <1>5. Cardinality(S) \in Nat
    BY <1>4, FS_CardinalityType
  <1>6. Cardinality(T) = Cardinality(S) + Counts(type, e)
    <2>1. CASE EventType(e) = type
      <3>1. T = S \cup {e}
        BY <1>3, <2>1
      <3>. QED  BY <1>4, <2>1, <3>1, FS_AddElement DEF Counts
    <2>2. CASE EventType(e) # type
      <3>1. T = S
        BY <1>3, <2>2
      <3>. QED  BY <1>5, <2>2, <3>1 DEF Counts
    <2>. QED  BY <2>1, <2>2
  <1>. QED  BY <1>1, <1>2, <1>6

-----------------------------------------------------------------------------
\* When UserCreated of a run is projected, no other event of the run has been.
LEMMA FirstOfItsRun ==
    ASSUME SingleConsumer, DeliveryInv, PublishedInOrder, QueueOrder, NEW c \in Consumers,
           consPc[c] = "update", Event(c)[2] = 1, NEW e \in projected
    PROVE  e[1] # Event(c)[1]
  <1>0. /\ TypeOK /\ Len(log) \in Nat /\ held[c] \in 1..Len(log) /\ Event(c) = log[held[c]]
    BY DEF DeliveryInv, TypeOK, CallbackHolds, InCallback, Event
  <1>1. SUFFICES ASSUME e[1] = Event(c)[1] PROVE FALSE
    OBVIOUS
  <1>2. e \in processed /\ e \in Events /\ e # Event(c)
    BY DEF QueueOrder, RecordedWasRouted, CallbackInOrder, DeliveryInv, TypeOK
  <1>3. PICK i \in 1..Len(log) : log[i] = e
    BY <1>2 DEF QueueOrder, RecordedWasRouted
  <1>4. i # held[c]
    BY <1>0, <1>2, <1>3
  <1>5. CASE held[c] < i
    BY <1>2, <1>3, <1>5 DEF QueueOrder, CallbackInOrder
  <1>6. CASE i < held[c]
    <2>1. i \in 1..(held[c] - 1)
      BY <1>0, <1>6
    <2>2. e[2] < 1
      BY <1>0, <1>1, <1>3, <2>1 DEF PublishedInOrder
    <2>. QED  BY <1>2, <2>2, EventPair
  <1>. QED  BY <1>0, <1>4, <1>5, <1>6

\* Projecting an event, acknowledged by the server or not, keeps the views fit.
LEMMA ProjectFits ==
    ASSUME SingleConsumer, ReadModelInv, NEW c \in Consumers, consPc[c] = "update", ProjectEvent(c)
    PROVE  ViewsFit'
  <1>0. PICK e : e = Event(c)
    OBVIOUS
  <1>1. /\ TypeOK /\ userView \in UserDoc /\ postView \in PostDoc
        /\ IsFiniteSet(projected) /\ e \in Events /\ e \notin projected /\ projected \subseteq Events
    <2>1. e \in processed /\ processed \subseteq Events /\ projected \subseteq Events
      BY <1>0 DEF ReadModelInv, DeliveryInv, RecordedBeforeAck, TypeOK
    <2>2. e \notin projected
      BY <1>0 DEF ReadModelInv, QueueOrder, CallbackInOrder
    <2>. QED  BY <2>1, <2>2 DEF ReadModelInv, DeliveryInv, TypeOK, ViewsFit
  <1>2. /\ userView' = UserUpdate(userView, e) /\ postView' = PostUpdate(postView, e)
        /\ projected' = projected \cup {e}
    BY <1>0 DEF ProjectEvent
  <1>3. /\ userView.has \subseteq userView'.has
        /\ "login" \in userView'.has <=> ("login" \in userView.has \/ e[2] = 1)
        /\ e[2] = 1 /\ userView.has = {} => UserCounters \subseteq userView'.has
    BY <1>1, <1>2, UserEffect
  <1>4. e[2] = 1 => \A f \in projected : f[1] # e[1]
    BY <1>0, FirstOfItsRun DEF ReadModelInv
  <1>5. LoginIsKnown'
    <2>1. projected' # {}
      BY <1>2
    <2>2. ASSUME NEW f \in projected', f[2] = 1 PROVE "login" \in userView'.has
      BY <1>2, <1>3, <2>2 DEF ReadModelInv, ViewsFit, LoginIsKnown
    <2>. QED  BY <2>1, <2>2 DEF LoginIsKnown
  <1>6. ViewComplete'
    <2> SUFFICES ASSUME "login" \in userView'.has, \A f \in projected' : <<f[1], 1>> \in projected'
                 PROVE  UserCounters \subseteq userView'.has
      BY DEF ViewComplete
    <2>1. ASSUME NEW f \in projected PROVE <<f[1], 1>> \in projected
      <3>1. <<f[1], 1>> \in projected \cup {e}
        BY <1>2
      <3>2. CASE e = <<f[1], 1>>
        <4>1. e[1] = f[1] /\ e[2] = 1
          BY <3>2
        <4>. QED  BY <1>4, <4>1
      <3>. QED  BY <3>1, <3>2
    <2>2. CASE "login" \in userView.has
      <3>1. UserCounters \subseteq userView.has
        BY <2>1, <2>2 DEF ReadModelInv, ViewsFit, ViewComplete
      <3>. QED  BY <1>3, <3>1
    <2>3. CASE "login" \notin userView.has
      <3>1. e[2] = 1
        BY <1>3, <2>3
      <3>2. projected = {}
        <4>1. SUFFICES ASSUME NEW f \in projected PROVE FALSE
          OBVIOUS
        <4>2. <<f[1], 1>> \in projected /\ <<f[1], 1>>[2] = 1
          BY <2>1
        <4>. QED  BY <2>3, <4>2 DEF ReadModelInv, ViewsFit, LoginIsKnown
      <3>3. userView.has = {}
        BY <3>2 DEF ReadModelInv, ViewsFit, LoginIsKnown
      <3>. QED  BY <1>3, <3>1, <3>3
    <2>. QED  BY <2>2, <2>3
  <1>7. IsFiniteSet(projected')
    BY <1>1, <1>2, FS_AddElement
  <1>8. CountersExact'
    <2>1. /\ Cardinality(RM!ProjectedOf("PostCreated"))' = Cardinality(RM!ProjectedOf("PostCreated")) + Counts("PostCreated", e)
          /\ Cardinality(RM!ProjectedOf("MessageSent"))' = Cardinality(RM!ProjectedOf("MessageSent")) + Counts("MessageSent", e)
          /\ Cardinality(RM!ProjectedOf("PostLiked"))' = Cardinality(RM!ProjectedOf("PostLiked")) + Counts("PostLiked", e)
          /\ Cardinality(RM!ProjectedOf("CommentAdded"))' = Cardinality(RM!ProjectedOf("CommentAdded")) + Counts("CommentAdded", e)
      BY <1>1, <1>2, CountsOne
    <2>2. /\ userView'.count["posts_count"] = userView.count["posts_count"] + Counts("PostCreated", e)
          /\ userView'.count["messages_sent"] = userView.count["messages_sent"] + Counts("MessageSent", e)
          /\ postView'.count["likes_count"] = postView.count["likes_count"] + Counts("PostLiked", e)
          /\ postView'.count["comments_count"] = postView.count["comments_count"] + Counts("CommentAdded", e)
      BY <1>1, <1>2, UserEffect, PostEffect
    <2>3. CountersExact
      BY DEF ReadModelInv, ViewsFit
    <2>. QED  BY <2>1, <2>2, <2>3, SameCatalog DEF CountersExact, RM!CountersExact
  <1>. QED  BY <1>5, <1>6, <1>7, <1>8 DEF ViewsFit

-----------------------------------------------------------------------------
\* Initially no event exists and the views are empty.
LEMMA ReadModelInit == Init => ReadModelInv
  <1> SUFFICES ASSUME Init PROVE ReadModelInv
    OBVIOUS
  <1>1. /\ log = <<>> /\ Len(log) = 0 /\ processed = {} /\ projected = {}
        /\ \A p \in Producers : Len(wire[p]) = 0
        /\ \A c \in Consumers : held[c] = 0 /\ consPc[c] = "down"
    BY DEF Init
  <1>2. PublishedInOrder /\ QueueOrder
    BY <1>1 DEF PublishedInOrder, QueueOrder, RecordedWasRouted, CallbackInOrder, RecordedInOrder
  <1>3. userView.has = {} /\ IsFiniteSet(projected)
    BY <1>1, FS_EmptySet DEF Init, NoUserDoc
  <1>4. CountersExact
    <2>1. \A type : RM!ProjectedOf(type) = {}
      BY <1>1 DEF RM!ProjectedOf
    <2>2. Cardinality({}) = 0
      BY FS_EmptySet
    <2>3. /\ userView.count["posts_count"] = 0 /\ userView.count["messages_sent"] = 0
          /\ postView.count["likes_count"] = 0 /\ postView.count["comments_count"] = 0
      BY DEF Init, NoUserDoc, NoPostDoc, UserCounters, PostCounters
    <2>. QED  BY <2>1, <2>2, <2>3, SameCatalog DEF CountersExact, RM!CountersExact
  <1>5. ViewsFit
    BY <1>1, <1>3, <1>4 DEF ViewsFit, LoginIsKnown, ViewComplete
  <1>. QED  BY <1>2, <1>5, DeliveryInit DEF ReadModelInv

\* Views change only by update_one, in a callback that has recorded the event.
LEMMA ViewSteps ==
    ASSUME [Next]_vars
    PROVE  \/ UNCHANGED <<userView, postView, projected>>
           \/ \E c \in Consumers : consPc[c] = "update" /\ ProjectEvent(c)
  <1>1. ASSUME NEW p \in Producers, Producer(p) \/ BrokerRoute(p)
        PROVE  UNCHANGED <<userView, postView, projected>>
    BY <1>1 DEF Producer, ProducerStart, ProducerConnect, PublishEvent, ProducerClose, ProducerDies,
       BrokerRoute, mongoVars
  <1>2. CASE BrokerStart \/ BrokerStop \/ UNCHANGED vars
    BY <1>2 DEF BrokerStart, BrokerStop, vars, mongoVars
  <1>3. ASSUME NEW c \in Consumers, Deliver(c) \/ ConsumerStart(c) \/ ConsumerStep(c) \/ ConsumerFault(c)
        PROVE  \/ UNCHANGED <<userView, postView, projected>>
               \/ consPc[c] = "update" /\ ProjectEvent(c)
    BY <1>3 DEF Deliver, ConsumerStart, ConsumerStep, ConsumerFault, ConsumerConnect, ConsumerBind,
       StartConsuming, FindProcessed, InsertProcessed, UpdateView, Ack, Nack, ConsumerExit, MongoFails,
       ConnectionLost, ConsumerCrash, RecordEvent, mongoVars
  <1>. QED  BY <1>1, <1>2, <1>3 DEF Next, Broker

\* A recorded event is one the callback has in hand.
LEMMA RecordSteps ==
    ASSUME [Next]_vars
    PROVE  \/ UNCHANGED processed
           \/ \E c \in Consumers : consPc[c] = "insert" /\ RecordEvent(c)
  <1>1. ASSUME NEW p \in Producers, Producer(p) \/ BrokerRoute(p) PROVE UNCHANGED processed
    BY <1>1 DEF Producer, ProducerStart, ProducerConnect, PublishEvent, ProducerClose, ProducerDies,
       BrokerRoute, mongoVars
  <1>2. CASE BrokerStart \/ BrokerStop \/ UNCHANGED vars
    BY <1>2 DEF BrokerStart, BrokerStop, vars, mongoVars
  <1>3. ASSUME NEW c \in Consumers, Deliver(c) \/ ConsumerStart(c) \/ ConsumerStep(c) \/ ConsumerFault(c)
        PROVE  \/ UNCHANGED processed
               \/ consPc[c] = "insert" /\ RecordEvent(c)
    BY <1>3 DEF Deliver, ConsumerStart, ConsumerStep, ConsumerFault, ConsumerConnect, ConsumerBind,
       StartConsuming, FindProcessed, InsertProcessed, UpdateView, Ack, Nack, ConsumerExit, MongoFails,
       ConnectionLost, ConsumerCrash, ProjectEvent, mongoVars
  <1>. QED  BY <1>1, <1>2, <1>3 DEF Next, Broker

\* A step that leaves the views and the projected events alone keeps them fit.
LEMMA QuietViews ==
    ASSUME ViewsFit, UNCHANGED <<userView, postView, projected>>
    PROVE  ViewsFit'
  BY DEF ViewsFit, LoginIsKnown, ViewComplete, CountersExact, RM!CountersExact, RM!ProjectedOf

\* Every step of a pipeline with one consumer preserves the read model's invariant.
LEMMA ReadModelStep ==
    ASSUME SingleConsumer, ReadModelInv, [Next]_vars
    PROVE  ReadModelInv'
  <1>1. DeliveryInv' /\ PublishedInOrder' /\ QueueOrder'
    BY DeliveryStep, PublishedStep, OrderStep DEF ReadModelInv, DeliveryInv
  <1>2. ViewsFit'
    BY ViewSteps, ProjectFits, QuietViews DEF ReadModelInv
  <1>. QED  BY <1>1, <1>2 DEF ReadModelInv

\* With one consumer, as docker-compose.yaml deploys it, the invariant of the
\* read model holds in every reachable state, for any producers and faults.
THEOREM ReadModelInvariant == ASSUME SingleConsumer PROVE Spec => []ReadModelInv
  <1>1. ReadModelInv /\ [Next]_vars => ReadModelInv'
    BY ReadModelStep
  <1>. QED  BY ReadModelInit, <1>1, PTL DEF Spec

\* With one consumer, processed_events fills in queue order whatever is nacked,
\* requeued or redelivered (callback, prefetch_count=1).
THEOREM RecordsFollowTheQueue == ASSUME SingleConsumer PROVE Spec => []RecordedInOrder
  <1>1. ReadModelInv => RecordedInOrder
    BY DEF ReadModelInv, QueueOrder
  <1>. QED  BY ReadModelInvariant, <1>1, PTL

\* With one consumer, each counter of the views is the number of distinct
\* projected events of its type: no redelivery counts twice (process_event).
THEOREM CountersAreExact == ASSUME SingleConsumer PROVE Spec => []CountersExact
  <1>1. ReadModelInv => CountersExact
    BY DEF ReadModelInv, ViewsFit
  <1>. QED  BY ReadModelInvariant, <1>1, PTL

\* With one consumer, a user document that knows its login lacks a counter only
\* if the UserCreated of some run was lost ($setOnInsert in process_event).
THEOREM ViewsAreComplete == ASSUME SingleConsumer PROVE Spec => []ViewComplete
  <1>1. ReadModelInv => ViewComplete
    BY DEF ReadModelInv, ViewsFit
  <1>. QED  BY ReadModelInvariant, <1>1, PTL

\* With one consumer the pipeline implements the abstract read model: every step
\* records one new event, projects one recorded event for the first time, or
\* leaves processed_events and the views as they are.
THEOREM ImplementsReadModel == ASSUME SingleConsumer PROVE Spec => ReadModelSpec
  <1>1. Init => RM!RMInit
    BY SameCatalog DEF Init, RM!RMInit
  <1>2. ASSUME ReadModelInv, [Next]_vars PROVE [RM!RMNext]_(RM!rmVars)
    <2>1. CASE UNCHANGED <<userView, postView, projected>> /\ UNCHANGED processed
      BY <2>1 DEF RM!rmVars
    <2>2. ASSUME NEW c \in Consumers, consPc[c] = "update", ProjectEvent(c) PROVE RM!RMNext
      <3>1. Event(c) \in processed /\ Event(c) \in Events /\ Event(c) \notin projected
        BY <1>2, <2>2 DEF ReadModelInv, DeliveryInv, RecordedBeforeAck, TypeOK, QueueOrder, CallbackInOrder
      <3>2. RM!Project(Event(c))
        BY <2>2, <3>1, SameCatalog DEF ProjectEvent, RM!Project
      <3>. QED  BY <3>1, <3>2, SameCatalog DEF RM!RMNext
    <2>3. ASSUME NEW c \in Consumers, consPc[c] = "insert", RecordEvent(c) PROVE RM!RMNext
      <3>1. Event(c) \notin processed /\ Event(c) \in Events
        <4>1. held[c] \in 1..Len(log) /\ log \in Seq(Events)
          BY <1>2, <2>3 DEF ReadModelInv, DeliveryInv, TypeOK, CallbackHolds, InCallback
        <4>. QED  BY <1>2, <2>3, <4>1 DEF ReadModelInv, QueueOrder, CallbackInOrder, Event
      <3>2. RM!Record(Event(c))
        BY <2>3, <3>1 DEF RecordEvent, RM!Record
      <3>. QED  BY <3>1, <3>2, SameCatalog DEF RM!RMNext
    <2>. QED  BY <1>2, <2>1, <2>2, <2>3, ViewSteps, RecordSteps
  <1>. QED  BY ReadModelInvariant, <1>1, <1>2, PTL DEF Spec, ReadModelSpec, RM!RMSpec
=============================================================================
