---------------------------- MODULE MongoAnswers ----------------------------
(***************************************************************************)
(* mongo-api: what the handlers of users and messages store and what they  *)
(* answer.                                                                 *)
(*                                                                         *)
(* Each handler is a sequence of single-document calls to MongoDB with     *)
(* nothing around them: create_message looks both users up and then        *)
(* inserts; a handler that wrote reads the document again for its answer.  *)
(* Handlers run in the threads of one process, so every other handler fits *)
(* between two calls, and a call may raise although the server carried it  *)
(* out.  The invalidation of the cache, between a write and the second     *)
(* read, is in MongoApi (no page of messages is ever cached).              *)
(***************************************************************************)
EXTENDS Naturals, FiniteSets

CONSTANTS
    Threads,        \* each of them handles one request
    SeedUsers,
    SeedMessages,   \* messages stored before, from and to any seed users
    MaxFaults       \* bound on the calls to MongoDB that raise

\* A document is named by the thread that inserts it.
UserIds    == SeedUsers \cup Threads
MessageIds == SeedMessages \cup Threads

Message == [from_user_id : UserIds, to_user_id : UserIds, is_read : BOOLEAN]

CONSTANT NoDoc

ASSUME AnswersAssumption ==
    /\ NoDoc \notin UserIds \cup MessageIds \cup Message
    /\ SeedUsers \cap Threads = {} /\ SeedMessages \cap Threads = {}
    /\ MaxFaults \in Nat

VARIABLES
    users,          \* ids of the stored users
    messages,       \* stored messages by id, or NoDoc
    pc,
    request,        \* the request of each thread
    answer,         \* status code, 0 while there is none
    effect,         \* history: threads whose write was carried out
    failed,         \* history: threads one of whose calls raised
    raced,          \* history: threads whose document went before they read it again
    removed,        \* history: users and messages that were deleted
    faults

vars == <<users, messages, pc, request, answer, effect, failed, raced, removed, faults>>

\* Bodies are reduced to whether the validator of mongo-init.js takes them.
Request ==
    [handler : {"create_user"}, valid : BOOLEAN]
    \cup [handler : {"update_user"}, id : UserIds, valid : BOOLEAN]
    \cup [handler : {"delete_user"}, id : UserIds]
    \cup [handler : {"create_message"}, from_id : UserIds, to_id : UserIds]
    \cup [handler : {"mark_message_as_read", "delete_message"}, id : MessageIds]

NoRequest == [handler |-> "none"]

TypeOK ==
    /\ users \subseteq UserIds
    /\ messages \in [MessageIds -> Message \cup {NoDoc}]
    /\ pc \in [Threads -> {"free", "call", "receiver", "insert", "reread", "done"}]
    /\ request \in [Threads -> Request \cup {NoRequest}]
    /\ answer \in [Threads -> {0, 200, 400, 404, 429, 500}]
    /\ effect \subseteq Threads /\ failed \subseteq Threads /\ raced \subseteq Threads
    /\ removed \subseteq ({"users"} \X UserIds) \cup ({"messages"} \X MessageIds)
    /\ faults \in 0..MaxFaults

Stored == {m \in MessageIds : messages[m] # NoDoc}

\* mongo-init.js inserts users and messages between them.
Init ==
    /\ users = SeedUsers
    /\ \E seed \in [SeedMessages -> Message] :
          /\ \A m \in SeedMessages : {seed[m].from_user_id, seed[m].to_user_id} \subseteq SeedUsers
          /\ messages = [m \in MessageIds |-> IF m \in SeedMessages THEN seed[m] ELSE NoDoc]
    /\ pc = [t \in Threads |-> "free"]
    /\ request = [t \in Threads |-> NoRequest]
    /\ answer = [t \in Threads |-> 0]
    /\ effect = {} /\ failed = {} /\ raced = {} /\ removed = {} /\ faults = 0

-----------------------------------------------------------------------------
Is(t, handlers) == request[t].handler \in handlers

Goto(t, label) == pc' = [pc EXCEPT ![t] = label]

Respond(t, code) ==
    /\ Goto(t, "done")
    /\ answer' = [answer EXCEPT ![t] = code]

\* The document that a thread will read again.
Target(t) ==
    IF Is(t, {"create_user", "update_user"})
       THEN <<"users", IF Is(t, {"create_user"}) THEN t ELSE request[t].id>>
       ELSE <<"messages", IF Is(t, {"create_message"}) THEN t ELSE request[t].id>>

Exists(d) == IF d[1] = "users" THEN d[2] \in users ELSE d[2] \in Stored

\* A request arrives.
Receive(t, r) ==
    /\ pc[t] = "free"
    /\ request' = [request EXCEPT ![t] = r]
    /\ Goto(t, "call")
    /\ UNCHANGED <<users, messages, answer, effect, failed, raced, removed, faults>>

\* check_rate_limit raises (RateLimiter).
TooManyRequests(t) ==
    /\ pc[t] = "call"
    /\ Is(t, {"create_message"})
    /\ Respond(t, 429)
    /\ UNCHANGED <<users, messages, request, effect, failed, raced, removed, faults>>

\* What the writes do on the server.
InsertUser(t) == users' = users \cup {t} /\ UNCHANGED <<messages, raced, removed>>

\* Mutant: is_read is left out.
MutInsertMessage(t) ==
    /\ messages' = [messages EXCEPT ![t] = [from_user_id |-> request[t].from_id,
                                            to_user_id   |-> request[t].to_id]]
    /\ UNCHANGED <<users, raced, removed>>

InsertMessage(t) ==
    /\ messages' = [messages EXCEPT ![t] = [from_user_id |-> request[t].from_id,
                                            to_user_id   |-> request[t].to_id,
                                            is_read      |-> FALSE]]
    /\ UNCHANGED <<users, raced, removed>>

SetRead(t) ==
    /\ messages' = [messages EXCEPT ![request[t].id].is_read = TRUE]
    /\ UNCHANGED <<users, raced, removed>>

\* Mutant: the messages of a user go with it.
MutRemove(d) ==
    LET gone(m) ==
            /\ messages[m] # NoDoc
            /\ \/ d = <<"messages", m>>
               \/ d \in {<<"users", messages[m].from_user_id>>, <<"users", messages[m].to_user_id>>}
    IN /\ users' = IF d[1] = "users" THEN users \ {d[2]} ELSE users
       /\ messages' = [m \in MessageIds |-> IF gone(m) THEN NoDoc ELSE messages[m]]
       /\ removed' = removed \cup {d}
       /\ raced' = raced \cup {t \in Threads :
                                /\ pc[t] = "reread"
                                /\ \/ Target(t) = d
                                   \/ Target(t)[1] = "messages" /\ gone(Target(t)[2])}

Remove(d) ==
    /\ users' = IF d[1] = "users" THEN users \ {d[2]} ELSE users
    /\ messages' = IF d[1] = "messages" THEN [messages EXCEPT ![d[2]] = NoDoc] ELSE messages
    /\ removed' = removed \cup {d}
    /\ raced' = raced \cup {t \in Threads : pc[t] = "reread" /\ Target(t) = d}

Victim(t) == <<IF Is(t, {"delete_user"}) THEN "users" ELSE "messages", request[t].id>>

\* The write a thread is about to make, when it finds its document.
Write(t) ==
    \/ pc[t] = "call" /\ Is(t, {"create_user"}) /\ request[t].valid /\ InsertUser(t)
    \/ /\ pc[t] = "call" /\ Is(t, {"update_user"}) /\ request[t].valid /\ request[t].id \in users
       /\ UNCHANGED <<users, messages, raced, removed>>
    \/ pc[t] = "insert" /\ InsertMessage(t)
    \/ /\ pc[t] = "call" /\ Is(t, {"mark_message_as_read"}) /\ request[t].id \in Stored
       /\ SetRead(t)
    \/ /\ pc[t] = "call" /\ Is(t, {"delete_user", "delete_message"}) /\ Exists(Victim(t))
       /\ Remove(Victim(t))

\* ... and its call returns: a delete answers, the others read again.
Written(t) ==
    /\ Write(t)
    /\ effect' = effect \cup {t}
    /\ IF Is(t, {"delete_user", "delete_message"})
          THEN Respond(t, 200)
          ELSE Goto(t, "reread") /\ UNCHANGED answer
    /\ UNCHANGED <<request, failed, faults>>

\* Mutant: deleted_count is not looked at.
MutNotFound(t) ==
    /\ pc[t] = "call"
    /\ Is(t, {"delete_user", "delete_message"}) /\ ~Exists(Victim(t))
    /\ Respond(t, 200)
    /\ UNCHANGED <<users, messages, request, effect, failed, raced, removed, faults>>

\* matched_count or deleted_count is 0.
NotFound(t) ==
    /\ pc[t] = "call"
    /\ \/ Is(t, {"update_user"}) /\ request[t].id \notin users
       \/ Is(t, {"mark_message_as_read"}) /\ request[t].id \notin Stored
       \/ Is(t, {"delete_user", "delete_message"}) /\ ~Exists(Victim(t))
    /\ Respond(t, 404)
    /\ UNCHANGED <<users, messages, request, effect, failed, raced, removed, faults>>

\* Mutant: create_user does not catch the error.
MutInvalid(t) ==
    /\ pc[t] = "call"
    /\ Is(t, {"create_user"}) /\ ~request[t].valid /\ Respond(t, 500)
    /\ UNCHANGED <<users, messages, request, effect, failed, raced, removed, faults>>

\* The validator refuses the document: create_user catches the error.
Invalid(t) ==
    /\ pc[t] = "call"
    /\ \/ Is(t, {"create_user"}) /\ ~request[t].valid /\ Respond(t, 400)
       \/ /\ Is(t, {"update_user"}) /\ ~request[t].valid /\ request[t].id \in users
          /\ Respond(t, 500)
    /\ UNCHANGED <<users, messages, request, effect, failed, raced, removed, faults>>

\* Mutant: the receiver is not looked up.
MutFindUser(t) ==
    /\ Is(t, {"create_message"})
    /\ pc[t] = "call"
    /\ request[t].from_id \in users
    /\ Goto(t, "insert")
    /\ UNCHANGED <<users, messages, request, answer, effect, failed, raced, removed, faults>>

\* create_message looks up the sender, then the receiver.
FindUser(t) ==
    /\ Is(t, {"create_message"})
    /\ \/ /\ pc[t] = "call"
          /\ IF request[t].from_id \in users
                THEN Goto(t, "receiver") /\ UNCHANGED answer
                ELSE Respond(t, 404)
       \/ /\ pc[t] = "receiver"
          /\ IF request[t].to_id \in users
                THEN Goto(t, "insert") /\ UNCHANGED answer
                ELSE Respond(t, 404)
    /\ UNCHANGED <<users, messages, request, effect, failed, raced, removed, faults>>

\* Mutant: a document that is gone is reported as not found.
MutReread(t) ==
    /\ pc[t] = "reread"
    /\ Respond(t, IF Exists(Target(t)) THEN 200 ELSE 404)
    /\ UNCHANGED <<users, messages, request, effect, failed, raced, removed, faults>>

\* find_one for the answer; to_json(None) raises.
Reread(t) ==
    /\ pc[t] = "reread"
    /\ Respond(t, IF Exists(Target(t)) THEN 200 ELSE 500)
    /\ UNCHANGED <<users, messages, request, effect, failed, raced, removed, faults>>

\* A call raises (of Redis too, in check_rate_limit), and a write may have been
\* carried out all the same.  Only create_user catches that, and only around
\* insert_one.
MongoFails(t) ==
    /\ pc[t] \in {"call", "receiver", "insert", "reread"}
    /\ faults < MaxFaults
    /\ faults' = faults + 1
    /\ failed' = failed \cup {t}
    /\ \/ Write(t) /\ effect' = effect \cup {t}
       \/ UNCHANGED <<users, messages, effect, raced, removed>>
    /\ Respond(t, IF Is(t, {"create_user"}) /\ pc[t] = "call" THEN 400 ELSE 500)
    /\ UNCHANGED request

Next ==
    \E t \in Threads :
        \/ \E r \in Request : Receive(t, r)
        \/ TooManyRequests(t) \/ Written(t) \/ NotFound(t) \/ Invalid(t) \/ FindUser(t) \/ Reread(t)
        \/ MongoFails(t)

Spec == Init /\ [][Next]_vars

-----------------------------------------------------------------------------
\* Properties

\* get_messages
GetMessages(u) == {m \in Stored : u \in {messages[m].from_user_id, messages[m].to_user_id}}

Answered(t, code) == pc[t] = "done" /\ answer[t] = code

\* Who was refused has changed nothing.  The exception is POST /users when
\* insert_one raised: it is answered 400 and the user may be stored.
RefusedHasNoEffect ==
    \A t \in effect : answer[t] \in {400, 404, 429} => t \in failed /\ Is(t, {"create_user"})

\* An answer 500 that no failing call explains is an update the validator
\* refused, or a write that succeeded and whose document another request
\* deleted before it was read again; and who was overtaken so is answered 500.
ErrorIsExplained ==
    \A t \in Threads : pc[t] = "done" =>
        /\ answer[t] = 500 /\ t \notin failed =>
               \/ t \in raced /\ t \in effect
               \/ t \notin effect /\ Is(t, {"update_user"}) /\ ~request[t].valid
        /\ t \in raced => answer[t] = 500

\* Of all requests to delete a document at most one is told that it did, and
\* the document does not come back; nothing goes that nobody asked to delete.
DeletedOnce ==
    /\ \A t, s \in Threads :
          /\ t # s /\ Is(t, {"delete_user", "delete_message"}) /\ Is(s, {"delete_user", "delete_message"})
          /\ Answered(t, 200) /\ Answered(s, 200)
          => Victim(t) # Victim(s)
    /\ \A d \in removed :
          /\ ~Exists(d)
          /\ \E t \in effect : Is(t, {"delete_user", "delete_message"}) /\ Victim(t) = d

\* A message answered 200 is listed for sender and receiver, and one marked as
\* read is read, until somebody deletes it; deleting its users does not touch
\* it.
SentIsKept ==
    \A t \in Threads :
        /\ Answered(t, 200)
        /\ Is(t, {"create_message", "mark_message_as_read"})
        /\ Target(t) \notin removed
        => LET m == Target(t)[2]
           IN IF Is(t, {"create_message"})
                 THEN m \in GetMessages(request[t].from_id) \cap GetMessages(request[t].to_id)
                 ELSE m \in Stored /\ messages[m].is_read

\* Both ends of a stored message are users that exist or existed, whatever
\* became of them between the look-up and the insert.
PartiesExisted ==
    \A m \in Stored :
        \A u \in {messages[m].from_user_id, messages[m].to_user_id} :
            u \in users \/ <<"users", u>> \in removed

-----------------------------------------------------------------------------
\* The inductive invariant behind the properties.

Deletes  == {"delete_user", "delete_message"}
Rereads  == {"create_user", "update_user", "create_message", "mark_message_as_read"}
Existed(u) == u \in users \/ <<"users", u>> \in removed

\* Which handler can be where, and that a write is made exactly once; who is
\* answered 200 has made it.
HandlerFits ==
    \A t \in Threads :
        /\ pc[t] \in {"receiver", "insert"} => Is(t, {"create_message"})
        /\ pc[t] = "reread" => t \in effect /\ Is(t, Rereads)
        /\ t \in effect => pc[t] \in {"reread", "done"}
        /\ pc[t] # "done" => answer[t] = 0
        /\ answer[t] = 200 => t \in effect

\* A document that a thread inserts does not exist before, and a deleted one
\* does not exist any more.
OwnDocument ==
    \A t \in Threads :
        /\ Existed(t) => t \in effect /\ Is(t, {"create_user"})
        /\ t \in Stored \/ <<"messages", t>> \in removed => t \in effect /\ Is(t, {"create_message"})

\* Exactly the threads that deleted something have their victim deleted.
VictimsGone ==
    /\ \A d \in removed :
          /\ ~Exists(d)
          /\ \E t \in effect : Is(t, Deletes) /\ Victim(t) = d
    /\ \A t \in effect : Is(t, Deletes) => Victim(t) \in removed
    /\ \A t, s \in effect : Is(t, Deletes) /\ Is(s, Deletes) /\ Victim(t) = Victim(s) => t = s

\* What create_message and mark_message_as_read wrote is there until deleted.
WritesKept ==
    \A t \in effect :
        /\ Is(t, {"create_message"}) /\ <<"messages", t>> \notin removed =>
              /\ t \in Stored
              /\ messages[t].from_user_id = request[t].from_id
              /\ messages[t].to_user_id = request[t].to_id
        /\ Is(t, {"mark_message_as_read"}) /\ <<"messages", request[t].id>> \notin removed =>
              request[t].id \in Stored /\ messages[request[t].id].is_read = TRUE

\* The users that create_message has looked up exist or existed.
LookedUp ==
    \A t \in Threads :
        /\ pc[t] \in {"receiver", "insert"} => Existed(request[t].from_id)
        /\ pc[t] = "insert" => Existed(request[t].to_id)

\* A thread is overtaken exactly if its document is gone before it reads again.
RacedExact ==
    \A t \in Threads :
        /\ t \in raced => t \in effect
        /\ pc[t] = "reread" => /\ t \in raced <=> ~Exists(Target(t))
                               /\ t \in raced <=> Target(t) \in removed

StoreInv   == HandlerFits /\ OwnDocument /\ VictimsGone /\ WritesKept /\ LookedUp /\ PartiesExisted
AnswersInv == TypeOK /\ StoreInv /\ RacedExact /\ RefusedHasNoEffect /\ ErrorIsExplained
=============================================================================
