---------------------------- MODULE EventCatalog ----------------------------
(***************************************************************************)
(* The events of event-service/producer.py and what one of them does to    *)
(* the CQRS read model of event-service/consumer.py.                       *)
(*                                                                         *)
(* A producer process (one run of producer.py) publishes the five events   *)
(* of Script, in that order; publish_event draws a fresh uuid4 for each,   *)
(* so an event is identified by the run and its place in the script.  All  *)
(* five concern the same user "u-1" and the same post "p-1", hence the     *)
(* read model is one user_activity_view document and one                   *)
(* post_activity_view document.                                            *)
(***************************************************************************)
EXTENDS Naturals, Sequences

CONSTANT Producers      \* the runs of producer.py

\* The events main() publishes.  The routing key is kept as its first word
\* (the queue is bound by "user.*", "post.*", ...).
Script == << [type |-> "UserCreated",  topic |-> "user"],
             [type |-> "PostCreated",  topic |-> "post"],
             [type |-> "MessageSent",  topic |-> "message"],
             [type |-> "PostLiked",    topic |-> "post"],
             [type |-> "CommentAdded", topic |-> "comment"] >>

Steps  == 1..5
Events == Producers \X Steps

EventType(e) == Script[e[2]].type
Topic(e)     == Script[e[2]].topic
Topics       == {"user", "post", "message", "comment"}

-----------------------------------------------------------------------------
(***************************************************************************)
(* A document of the read model: the fields it has and the values of its   *)
(* counters.  A counter that is not a field of the document counts as 0,   *)
(* which is how $inc treats a missing field.  No field: no document.       *)
(***************************************************************************)
UserCounters == {"posts_count", "messages_sent", "likes_received", "comments_count"}
PostCounters == {"likes_count", "comments_count"}
UserFields   == {"user_id", "login", "email"} \cup UserCounters
PostFields   == {"post_id"} \cup PostCounters

UserDoc == [has : SUBSET UserFields, count : [UserCounters -> Nat]]
PostDoc == [has : SUBSET PostFields, count : [PostCounters -> Nat]]

NoUserDoc == [has |-> {}, count |-> [f \in UserCounters |-> 0]]
NoPostDoc == [has |-> {}, count |-> [f \in PostCounters |-> 0]]

\* update_one(..., {"$inc": {f: 1}}, upsert=True): the upsert also stores the
\* field of the query, the document's key.
Inc(doc, key, f) == [has   |-> doc.has \cup {key, f},
                     count |-> [doc.count EXCEPT ![f] = @ + 1]]

\* Mutant: $setOnInsert is missing.
MutSetUser(doc) == [doc EXCEPT !.has = @ \cup {"user_id", "login", "email"}]

\* The UserCreated branch: $set always, $setOnInsert only if the document
\* does not exist yet.  A counter set on insert starts at 0.
SetUser(doc) ==
    [doc EXCEPT !.has = @ \cup {"user_id", "login", "email"}
                          \cup (IF @ = {} THEN UserCounters ELSE {})]

\* The branches of process_event after the insert into processed_events.
UserUpdate(doc, e) ==
    CASE EventType(e) = "UserCreated" -> SetUser(doc)
      [] EventType(e) = "PostCreated" -> Inc(doc, "user_id", "posts_count")
      [] EventType(e) = "MessageSent" -> Inc(doc, "user_id", "messages_sent")
      [] OTHER                        -> doc

PostUpdate(doc, e) ==
    CASE EventType(e) = "PostLiked"    -> Inc(doc, "post_id", "likes_count")
      [] EventType(e) = "CommentAdded" -> Inc(doc, "post_id", "comments_count")
      [] OTHER                         -> doc
=============================================================================
