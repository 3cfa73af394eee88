------------------------------ MODULE ReadModel ------------------------------
(***************************************************************************)
(* What event-service promises about the CQRS read model, without broker,  *)
(* redelivery, connections or crashes: an event is recorded in             *)
(* processed_events, and a recorded event is projected into the views at   *)
(* most once.  Nothing says that a recorded event is projected at all.     *)
(***************************************************************************)
EXTENDS EventCatalog, FiniteSets

VARIABLES
    recorded,       \* events in processed_events
    projected,      \* events that have been applied to the views
    userView,
    postView

rmVars == <<recorded, projected, userView, postView>>

RMInit ==
    /\ recorded = {}
    /\ projected = {}
    /\ userView = NoUserDoc
    /\ postView = NoPostDoc

Record(e) ==
    /\ e \notin recorded
    /\ recorded' = recorded \cup {e}
    /\ UNCHANGED <<projected, userView, postView>>

Project(e) ==
    /\ e \in recorded \ projected
    /\ projected' = projected \cup {e}
    /\ userView' = UserUpdate(userView, e)
    /\ postView' = PostUpdate(postView, e)
    /\ UNCHANGED recorded

RMNext == \E e \in Events : Record(e) \/ Project(e)

RMSpec == RMInit /\ [][RMNext]_rmVars

-----------------------------------------------------------------------------
\* The projected events of a type.
ProjectedOf(type) == {e \in projected : EventType(e) = type}

\* Every counter of the read model is the number of distinct events of its
\* type that have been projected: a redelivered event never counts twice
\* (the update_one branches of consumer.py's process_event).
CountersExact ==
    /\ userView.count["posts_count"]    = Cardinality(ProjectedOf("PostCreated"))
    /\ userView.count["messages_sent"]  = Cardinality(ProjectedOf("MessageSent"))
    /\ postView.count["likes_count"]    = Cardinality(ProjectedOf("PostLiked"))
    /\ postView.count["comments_count"] = Cardinality(ProjectedOf("CommentAdded"))
=============================================================================
