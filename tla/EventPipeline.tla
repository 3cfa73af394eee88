---------------------------- MODULE EventPipeline ----------------------------
(***************************************************************************)
(* event-service: producer.py -> RabbitMQ -> consumer.py -> MongoDB.       *)
(*                                                                         *)
(* The producers publish without publisher confirms and without the        *)
(* mandatory flag.  The broker (external) routes a message to the durable  *)
(* queue "read-model.events" if one of the queue's bindings matches and    *)
(* drops it otherwise.  It delivers in queue order, one unacknowledged     *)
(* message per consumer (prefetch_count=1), and puts a message that is     *)
(* nacked, or whose consumer's connection ends, back at its old position.  *)
(* A consumer runs process_event as three separate MongoDB calls and only  *)
(* then acknowledges.                                                      *)
(*                                                                         *)
(* Faults are actions of their own and at most MaxFaults of them happen.   *)
(***************************************************************************)
EXTENDS EventCatalog, FiniteSets

CONSTANTS
    Consumers,      \* the consumer.py processes attached to the queue
    MaxFaults,      \* bound on the number of faults in a behaviour
    Runbook         \* TRUE: producers are started only after a consumer has
                    \* bound the queue, the order README.md prescribes

ASSUME MaxFaultsAssumption == MaxFaults \in Nat
ASSUME RunbookAssumption   == Runbook \in BOOLEAN

VARIABLES
    prodPc,         \* where each producer is
    sent,           \* how many events it has handed to basic_publish
    wire,           \* published events the broker has not received yet
    brokerUp,       \* RabbitMQ accepts connections
    bindings,       \* topics bound to the queue (durable)
    log,            \* every event ever routed to the queue, in queue order
    ready,          \* positions in log that wait for delivery (durable)
    consPc,         \* where each consumer is
    held,           \* position in log of the message its callback handles, or 0
    conn,           \* its AMQP connection is open
    processed,      \* event_ids in the collection processed_events
    userView,       \* the document of user_activity_view
    postView,       \* the document of post_activity_view
    projected,      \* history: events whose view update has been executed
    faults          \* number of faults so far

prodVars  == <<prodPc, sent, wire>>
queueVars == <<bindings, log, ready>>
consVars  == <<consPc, held, conn>>
mongoVars == <<processed, userView, postView, projected>>
vars      == <<prodVars, brokerUp, queueVars, consVars, mongoVars, faults>>

ProdPc == {"off", "connecting", "publishing", "closed", "dead"}
ConsPc == {"down", "connecting", "binding", "idle",
           "find", "insert", "update", "ack", "nack"}
InCallback == {"find", "insert", "update", "ack", "nack"}

TypeOK ==
    /\ prodPc \in [Producers -> ProdPc]
    /\ sent \in [Producers -> 0..5]
    /\ wire \in [Producers -> Seq(Events)]
    /\ brokerUp \in BOOLEAN
    /\ bindings \in SUBSET Topics
    /\ log \in Seq(Events)
    /\ ready \in SUBSET (1..Len(log))
    /\ consPc \in [Consumers -> ConsPc]
    /\ held \in [Consumers -> 0..Len(log)]
    /\ conn \in [Consumers -> BOOLEAN]
    /\ processed \in SUBSET Events
    /\ userView \in UserDoc
    /\ postView \in PostDoc
    /\ projected \in SUBSET Events
    /\ faults \in 0..MaxFaults

Init ==
    /\ prodPc = [p \in Producers |-> "off"]
    /\ sent = [p \in Producers |-> 0]
    /\ wire = [p \in Producers |-> <<>>]
    /\ brokerUp = FALSE
    /\ bindings = {}
    /\ log = <<>>
    /\ ready = {}
    /\ consPc = [c \in Consumers |-> "down"]
    /\ held = [c \in Consumers |-> 0]
    /\ conn = [c \in Consumers |-> FALSE]
    /\ processed = {}
    /\ userView = NoUserDoc
    /\ postView = NoPostDoc
    /\ projected = {}
    /\ faults = 0

\* Mutant: the consumer does not subscribe to "comment.*".
MutRoutingKeys == <<"user", "post", "message", "message">>

\* The topics main() of consumer.py binds the queue to, in its order.
routing_keys == <<"user", "post", "message", "comment">>
QueueBound   == \A k \in 1..4 : routing_keys[k] \in bindings

-----------------------------------------------------------------------------
(* producer.py *)

\* `docker compose run --rm event_producer'
ProducerStart(p) ==
    /\ prodPc[p] = "off"
    /\ Runbook => QueueBound
    /\ prodPc' = [prodPc EXCEPT ![p] = "connecting"]
    /\ UNCHANGED <<sent, wire, brokerUp, queueVars, consVars, mongoVars, faults>>

\* connect() retries until the broker answers, then main() opens a channel and
\* declares the exchange.  Neither creates a queue.
ProducerConnect(p) ==
    /\ prodPc[p] = "connecting"
    /\ brokerUp
    /\ prodPc' = [prodPc EXCEPT ![p] = "publishing"]
    /\ UNCHANGED <<sent, wire, brokerUp, queueVars, consVars, mongoVars, faults>>

\* publish_event: basic_publish writes the message to the socket and returns.
PublishEvent(p) ==
    /\ prodPc[p] = "publishing"
    /\ sent[p] < 5
    /\ sent' = [sent EXCEPT ![p] = @ + 1]
    /\ wire' = [wire EXCEPT ![p] = Append(@, <<p, sent[p] + 1>>)]
    /\ UNCHANGED <<prodPc, brokerUp, queueVars, consVars, mongoVars, faults>>

\* connection.close() at the end of main(): the close handshake ends after the
\* broker has read everything before it.
ProducerClose(p) ==
    /\ prodPc[p] = "publishing"
    /\ sent[p] = 5
    /\ wire[p] = <<>>
    /\ prodPc' = [prodPc EXCEPT ![p] = "closed"]
    /\ UNCHANGED <<sent, wire, brokerUp, queueVars, consVars, mongoVars, faults>>

\* The process is killed or its connection breaks (no call after connect() is
\* guarded): main() ends and what is still in transit is lost.
ProducerDies(p) ==
    /\ faults < MaxFaults
    /\ prodPc[p] \in {"connecting", "publishing"}
    /\ prodPc' = [prodPc EXCEPT ![p] = "dead"]
    /\ wire' = [wire EXCEPT ![p] = <<>>]
    /\ faults' = faults + 1
    /\ UNCHANGED <<sent, brokerUp, queueVars, consVars, mongoVars>>

-----------------------------------------------------------------------------
(* RabbitMQ (external) *)

BrokerStart ==
    /\ ~brokerUp
    /\ brokerUp' = TRUE
    /\ UNCHANGED <<prodVars, queueVars, consVars, mongoVars, faults>>

\* Positions the broker has delivered and not seen acknowledged.
Unacked(C) == {i \in 1..Len(log) : \E c \in C : conn[c] /\ held[c] = i}

\* The broker stops.  The exchange, the queue, its bindings and the messages in
\* it are durable; connections, and with them what producers have in transit,
\* are not.  A producer that was publishing fails in its next call.
BrokerStop ==
    /\ faults < MaxFaults
    /\ brokerUp
    /\ brokerUp' = FALSE
    /\ ready' = ready \cup Unacked(Consumers)
    /\ conn' = [c \in Consumers |-> FALSE]
    /\ wire' = [p \in Producers |-> <<>>]
    /\ prodPc' = [p \in Producers |-> IF prodPc[p] = "publishing" THEN "dead" ELSE prodPc[p]]
    /\ faults' = faults + 1
    /\ UNCHANGED <<sent, bindings, log, consPc, held, mongoVars>>

\* The topic exchange receives a message: into the queue, or dropped.
BrokerRoute(p) ==
    /\ wire[p] # <<>>
    /\ wire' = [wire EXCEPT ![p] = Tail(@)]
    /\ IF Topic(Head(wire[p])) \in bindings
          THEN /\ log' = Append(log, Head(wire[p]))
               /\ ready' = ready \cup {Len(log) + 1}
          ELSE UNCHANGED <<log, ready>>
    /\ UNCHANGED <<prodPc, sent, brokerUp, bindings, consVars, mongoVars, faults>>

\* Mutant: queue order is not kept (requeued messages go to the tail).
MutDeliver(c) ==
    /\ conn[c]
    /\ consPc[c] = "idle"
    /\ \E i \in ready :
          /\ ready' = ready \ {i}
          /\ held' = [held EXCEPT ![c] = i]
    /\ consPc' = [consPc EXCEPT ![c] = "find"]
    /\ UNCHANGED <<prodVars, brokerUp, bindings, log, conn, mongoVars, faults>>

\* The first waiting message goes to a consumer that has none.
Deliver(c) ==
    /\ conn[c]
    /\ consPc[c] = "idle"
    /\ \E i \in ready :
          /\ \A j \in ready : i <= j
          /\ ready' = ready \ {i}
          /\ held' = [held EXCEPT ![c] = i]
    /\ consPc' = [consPc EXCEPT ![c] = "find"]
    /\ UNCHANGED <<prodVars, brokerUp, bindings, log, conn, mongoVars, faults>>

-----------------------------------------------------------------------------
(* consumer.py *)

\* `docker compose up ... event_consumer'; nothing restarts it by itself.
ConsumerStart(c) ==
    /\ consPc[c] = "down"
    /\ consPc' = [consPc EXCEPT ![c] = "connecting"]
    /\ UNCHANGED <<prodVars, brokerUp, queueVars, held, conn, mongoVars, faults>>

\* connect_rabbitmq() retries until the broker answers; main() then declares
\* the exchange and the durable queue.
ConsumerConnect(c) ==
    /\ consPc[c] = "connecting"
    /\ brokerUp
    /\ conn' = [conn EXCEPT ![c] = TRUE]
    /\ consPc' = [consPc EXCEPT ![c] = "binding"]
    /\ UNCHANGED <<prodVars, brokerUp, queueVars, held, mongoVars, faults>>

\* The loop over routing_keys: one queue_bind per iteration.  Binding again
\* what is bound changes nothing, so the next effective call binds the first
\* topic that is not bound.
ConsumerBind(c) ==
    /\ consPc[c] = "binding"
    /\ conn[c]
    /\ \E k \in 1..4 :
          /\ routing_keys[k] \notin bindings
          /\ \A j \in 1..(k - 1) : routing_keys[j] \in bindings
          /\ bindings' = bindings \cup {routing_keys[k]}
    /\ UNCHANGED <<prodVars, brokerUp, log, ready, consVars, mongoVars, faults>>

\* basic_qos, basic_consume, start_consuming.
StartConsuming(c) ==
    /\ consPc[c] = "binding"
    /\ conn[c]
    /\ QueueBound
    /\ consPc' = [consPc EXCEPT ![c] = "idle"]
    /\ UNCHANGED <<prodVars, brokerUp, queueVars, held, conn, mongoVars, faults>>

Event(c) == log[held[c]]

\* Mutant: no duplicate check.
MutFindProcessed(c) ==
    /\ consPc[c] = "find"
    /\ consPc' = [consPc EXCEPT ![c] = "insert"]
    /\ UNCHANGED <<prodVars, brokerUp, queueVars, held, conn, mongoVars, faults>>

\* process_event: find_one({"event_id": ...}); a known event is only acknowledged.
FindProcessed(c) ==
    /\ consPc[c] = "find"
    /\ consPc' = [consPc EXCEPT ![c] = IF Event(c) \in processed THEN "ack" ELSE "insert"]
    /\ UNCHANGED <<prodVars, brokerUp, queueVars, held, conn, mongoVars, faults>>

\* The effect of processed_events.insert_one (there is no unique index).
RecordEvent(c) ==
    /\ processed' = processed \cup {Event(c)}
    /\ UNCHANGED <<userView, postView, projected>>

\* The effect of the update_one the event's type selects.
ProjectEvent(c) ==
    /\ userView' = UserUpdate(userView, Event(c))
    /\ postView' = PostUpdate(postView, Event(c))
    /\ projected' = projected \cup {Event(c)}
    /\ UNCHANGED processed

\* Mutant: the event is not recorded before its view is updated.
MutInsertProcessed(c) ==
    /\ consPc[c] = "insert"
    /\ consPc' = [consPc EXCEPT ![c] = "update"]
    /\ UNCHANGED <<prodVars, brokerUp, queueVars, held, conn, mongoVars, faults>>

InsertProcessed(c) ==
    /\ consPc[c] = "insert"
    /\ RecordEvent(c)
    /\ consPc' = [consPc EXCEPT ![c] = "update"]
    /\ UNCHANGED <<prodVars, brokerUp, queueVars, held, conn, faults>>

UpdateView(c) ==
    /\ consPc[c] = "update"
    /\ ProjectEvent(c)
    /\ consPc' = [consPc EXCEPT ![c] = "ack"]
    /\ UNCHANGED <<prodVars, brokerUp, queueVars, held, conn, faults>>

\* A MongoDB call raises, before or after its effect on the server; callback()
\* catches the exception and goes on to basic_nack.
MongoFails(c) ==
    /\ faults < MaxFaults
    /\ \/ consPc[c] \in {"find", "insert", "update"} /\ UNCHANGED mongoVars
       \/ consPc[c] = "insert" /\ RecordEvent(c)
       \/ consPc[c] = "update" /\ ProjectEvent(c)
    /\ consPc' = [consPc EXCEPT ![c] = "nack"]
    /\ faults' = faults + 1
    /\ UNCHANGED <<prodVars, brokerUp, queueVars, held, conn>>

\* basic_ack.  On a closed channel it raises, the basic_nack of the except
\* branch raises too, and the process ends.
Ack(c) ==
    /\ consPc[c] = "ack"
    /\ consPc' = [consPc EXCEPT ![c] = IF conn[c] THEN "idle" ELSE "down"]
    /\ held' = [held EXCEPT ![c] = 0]
    /\ UNCHANGED <<prodVars, brokerUp, queueVars, conn, mongoVars, faults>>

\* Mutant: requeue=False.
MutNackDrop(c) ==
    /\ consPc[c] = "nack"
    /\ consPc' = [consPc EXCEPT ![c] = IF conn[c] THEN "idle" ELSE "down"]
    /\ held' = [held EXCEPT ![c] = 0]
    /\ UNCHANGED <<prodVars, brokerUp, queueVars, conn, mongoVars, faults>>

\* basic_nack(requeue=True); it raises on a closed channel.
Nack(c) ==
    /\ consPc[c] = "nack"
    /\ consPc' = [consPc EXCEPT ![c] = IF conn[c] THEN "idle" ELSE "down"]
    /\ ready' = ready \cup Unacked({c})
    /\ held' = [held EXCEPT ![c] = 0]
    /\ UNCHANGED <<prodVars, brokerUp, bindings, log, conn, mongoVars, faults>>

\* The connection ends (network, or missed heartbeats while callback() blocks
\* in MongoDB): the broker requeues, the process does not notice yet.
ConnectionLost(c) ==
    /\ faults < MaxFaults
    /\ conn[c]
    /\ conn' = [conn EXCEPT ![c] = FALSE]
    /\ ready' = ready \cup Unacked({c})
    /\ faults' = faults + 1
    /\ UNCHANGED <<prodVars, brokerUp, bindings, log, consPc, held, mongoVars>>

\* Outside callback() the lost connection raises out of main().
ConsumerExit(c) ==
    /\ consPc[c] \in {"binding", "idle"}
    /\ ~conn[c]
    /\ consPc' = [consPc EXCEPT ![c] = "down"]
    /\ UNCHANGED <<prodVars, brokerUp, queueVars, held, conn, mongoVars, faults>>

\* The process is killed.
ConsumerCrash(c) ==
    /\ faults < MaxFaults
    /\ consPc[c] # "down"
    /\ consPc' = [consPc EXCEPT ![c] = "down"]
    /\ ready' = ready \cup Unacked({c})
    /\ held' = [held EXCEPT ![c] = 0]
    /\ conn' = [conn EXCEPT ![c] = FALSE]
    /\ faults' = faults + 1
    /\ UNCHANGED <<prodVars, brokerUp, bindings, log, mongoVars>>

-----------------------------------------------------------------------------
Producer(p) == \/ ProducerStart(p) \/ ProducerConnect(p) \/ PublishEvent(p)
               \/ ProducerClose(p) \/ ProducerDies(p)

\* The steps a running consumer takes by itself.
ConsumerStep(c) == \/ ConsumerConnect(c) \/ ConsumerBind(c) \/ StartConsuming(c)
                   \/ FindProcessed(c) \/ InsertProcessed(c) \/ UpdateView(c)
                   \/ Ack(c) \/ Nack(c) \/ ConsumerExit(c)

ConsumerFault(c) == MongoFails(c) \/ ConnectionLost(c) \/ ConsumerCrash(c)

Broker == \/ BrokerStart \/ BrokerStop
          \/ \E p \in Producers : BrokerRoute(p)
          \/ \E c \in Consumers : Deliver(c)

Next == \/ \E p \in Producers : Producer(p)
        \/ \E c \in Consumers : ConsumerStart(c) \/ ConsumerStep(c) \/ ConsumerFault(c)
        \/ Broker

Spec == Init /\ [][Next]_vars

-----------------------------------------------------------------------------
(* Properties *)

\* A message leaves the queue only when its event is in processed_events: each
\* routed message waits, or is unacknowledged at an open connection, or has
\* been recorded.  This is the part of at-least-once delivery that durable
\* queue, manual ack and nack with requeue provide, whatever crashes.
AcknowledgedIsRecorded ==
    \A i \in 1..Len(log) :
        i \in ready \/ i \in Unacked(Consumers) \/ log[i] \in processed

\* The broker never has a message in two places: not waiting and delivered, and
\* not delivered over two open connections.
SingleDelivery ==
    /\ ready \cap Unacked(Consumers) = {}
    /\ \A c, d \in Consumers :
          conn[c] /\ conn[d] /\ held[c] # 0 /\ held[c] = held[d] => c = d

\* With one consumer, processed_events fills in queue order: redelivery after a
\* nack, a lost connection or a crash never lets a later event overtake.
RecordedInOrder ==
    \A i, j \in 1..Len(log) : i < j /\ log[j] \in processed => log[i] \in processed

\* The pipeline as an implementation of the abstract read model.
RM == INSTANCE ReadModel WITH recorded <- processed
ReadModelSpec == RM!RMSpec
CountersExact == RM!CountersExact

\* A user_activity_view document that knows the user's login has all of its
\* counters, unless the UserCreated of some run was lost while later events of
\* that run were not: UserCreated is projected before the events that upsert
\* the same document, or $setOnInsert would not happen any more.
ViewComplete ==
    /\ "login" \in userView.has
    /\ \A e \in projected : <<e[1], 1>> \in projected
    => UserCounters \subseteq userView.has

\* What at-least-once delivery (README.md) promises for the read model: once a
\* message is acknowledged, its event has been applied to the views.
AcknowledgedIsProjected ==
    \A i \in 1..Len(log) :
        i \in ready \/ i \in Unacked(Consumers) \/ log[i] \in projected

-----------------------------------------------------------------------------
(* The invariant behind the delivery properties.                               *)

\* A consumer has a message in hand exactly while its callback runs.
CallbackHolds == \A c \in Consumers : consPc[c] \in InCallback <=> held[c] # 0

\* The callback reaches the view update and the ack only with the event recorded.
RecordedBeforeAck ==
    \A c \in Consumers : consPc[c] \in {"update", "ack"} => Event(c) \in processed

DeliveryInv == /\ TypeOK
               /\ CallbackHolds
               /\ RecordedBeforeAck
               /\ AcknowledgedIsRecorded
               /\ SingleDelivery

-----------------------------------------------------------------------------
(* The invariant behind the read model.  It needs a single consumer: the       *)
(* container_name of event_consumer in docker-compose.yaml allows one process.  *)
SingleConsumer == \A c, d \in Consumers : c = d

\* The events of one run are in transit, and in the queue, in script order.
PublishedInOrder ==
    /\ \A p \in Producers : \A i \in 1..Len(wire[p]) :
          /\ wire[p][i][1] = p /\ wire[p][i][2] <= sent[p]
          /\ \A j \in 1..(i - 1) : wire[p][j][2] < wire[p][i][2]
    /\ \A i \in 1..Len(log) :
          /\ log[i][2] <= sent[log[i][1]]
          /\ \A j \in 1..(i - 1) : log[j][1] = log[i][1] => log[j][2] < log[i][2]
          /\ \A k \in 1..Len(wire[log[i][1]]) : log[i][2] < wire[log[i][1]][k][2]

\* Only events that were routed to the queue are recorded, only recorded ones
\* projected.
RecordedWasRouted ==
    /\ \A e \in processed : \E i \in 1..Len(log) : log[i] = e
    /\ projected \subseteq processed

\* What the callback knows of the queue: everything before its message is
\* recorded, and between find_one and update_one its own event is new.
CallbackInOrder ==
    \A c \in Consumers :
        /\ \A i \in 1..Len(log) : i < held[c] => log[i] \in processed
        /\ consPc[c] = "insert" => Event(c) \notin processed
        /\ consPc[c] = "update" =>
              /\ Event(c) \notin projected
              /\ \A j \in 1..Len(log) : held[c] < j => log[j] \notin processed

\* The user document exists only after a projection, and knows the login once a
\* UserCreated has been projected.
LoginIsKnown ==
    /\ userView.has # {} => projected # {}
    /\ \A e \in projected : e[2] = 1 => "login" \in userView.has

QueueOrder == RecordedWasRouted /\ CallbackInOrder /\ RecordedInOrder
ViewsFit   == LoginIsKnown /\ ViewComplete /\ IsFiniteSet(projected) /\ CountersExact

ReadModelInv == DeliveryInv /\ PublishedInOrder /\ QueueOrder /\ ViewsFit

-----------------------------------------------------------------------------
(* Fairness: the broker starts, routes and delivers, and a running consumer    *)
(* goes on.  Nothing is assumed of the operator who starts producers and       *)
(* consumers.                                                                  *)
Fairness ==
    /\ WF_vars(BrokerStart)
    /\ \A p \in Producers : WF_vars(BrokerRoute(p))
    /\ \A c \in Consumers : WF_vars(Deliver(c)) /\ WF_vars(ConsumerStep(c))

FairSpec == Spec /\ Fairness

SomeConsumerStays == <>[](\E c \in Consumers : consPc[c] # "down")

\* If from some time on a consumer process is running, every routed event ends
\* up in processed_events: no order of failures, requeues and redeliveries
\* leaves an event stuck (callback, connect_rabbitmq).
QueueDrains ==
    SomeConsumerStays => <>[](\A i \in 1..Len(log) : log[i] \in processed)

\* Without faults, and if the queue is bound whenever a producer has started,
\* every published event is projected: the read model catches up.
ReadModelCatchesUp ==
    /\ [](faults = 0 /\ \A p \in Producers : prodPc[p] # "off" => QueueBound)
    /\ SomeConsumerStays
    => <>[](\A p \in Producers : \A k \in 1..sent[p] : <<p, k>> \in projected)
=============================================================================
