----------------------------- MODULE ChatService -----------------------------
(***************************************************************************)
(* chat-service: the handler of POST /messages and GET /messages over the  *)
(* PostgreSQL tables chats, chat_members and messages.                     *)
(*                                                                         *)
(* POST looks for a private chat of the two users, creates one with its    *)
(* members if there is none, and inserts the message: up to four           *)
(* autocommit statements outside a transaction.  Requests run              *)
(* concurrently, one per task; an exception is answered with 500.          *)
(***************************************************************************)
EXTENDS Naturals, Sequences, FiniteSets

CONSTANTS
    Tasks,          \* coroutines that run the handler
    Users,          \* ids with a row in users
    Strangers,      \* ids clients send that have no row in users
    SeedChats,      \* the chats data.sql creates
    MaxPosts,       \* bound on the POST requests
    MaxFaults       \* bound on failed statements

People == Users \cup Strangers
Chat   == [is_group : BOOLEAN, members : SUBSET Users]

ASSUME PeopleAssumption    == Users \cap Strangers = {}
ASSUME PostsAssumption     == MaxPosts \in Nat
ASSUME ChatFaultsAssumption == MaxFaults \in Nat
\* A seeded private chat has two members or none (data.sql gives some chats no
\* members), and two users share at most one.
ASSUME SeedAssumption ==
    /\ SeedChats \in Seq(Chat)
    /\ \A i \in 1..Len(SeedChats) : ~SeedChats[i].is_group =>
          \/ SeedChats[i].members = {}
          \/ \E u, v \in Users : u # v /\ SeedChats[i].members = {u, v}
    /\ \A i, j \in 1..Len(SeedChats) :
          /\ ~SeedChats[i].is_group /\ ~SeedChats[j].is_group
          /\ SeedChats[i].members = SeedChats[j].members /\ SeedChats[i].members # {}
          => i = j

VARIABLES
    chats,          \* tables chats and chat_members; the chat's id is its position
    messages,       \* table messages; `to' is history, the table has no such column
    pc,             \* where each task is
    req,            \* the request it handles
    chat_id,        \* its variable chat_id
    posts,          \* number of POST requests so far
    alone,          \* history: no other request has overlapped the task's request
    raced,          \* history: chats whose members an overlapped request inserted
    faults

vars == <<chats, messages, pc, req, chat_id, posts, alone, raced, faults>>

Request == [from : People, to : People, text : {"text", ""}]

TypeOK ==
    /\ chats \in Seq(Chat)
    /\ messages \in Seq([chat_id : 1..Len(chats), from : Users, to : People])
    /\ pc \in [Tasks -> {"idle", "select_chat", "insert_chat", "insert_members", "insert_message"}]
    /\ req \in [Tasks -> Request]
    /\ chat_id \in [Tasks -> 0..Len(chats)]
    /\ posts \in 0..MaxPosts
    /\ alone \in [Tasks -> BOOLEAN]
    /\ raced \subseteq Nat
    /\ faults \in 0..MaxFaults

Init ==
    /\ chats = SeedChats
    /\ messages = <<>>
    /\ pc = [t \in Tasks |-> "idle"]
    /\ req \in {[t \in Tasks |-> r] : r \in Request}
    /\ chat_id = [t \in Tasks |-> 0]
    /\ posts = 0
    /\ alone = [t \in Tasks |-> FALSE]
    /\ raced = {}
    /\ faults = 0

-----------------------------------------------------------------------------
\* POST /messages with the token and a complete body (a missing token, 401, an
\* incomplete body, 400, and a malformed one, 500, end before any statement).
Post(t, r) ==
    /\ pc[t] = "idle"
    /\ posts < MaxPosts
    /\ posts' = posts + 1
    /\ req' = [req EXCEPT ![t] = r]
    /\ chat_id' = [chat_id EXCEPT ![t] = 0]
    /\ pc' = [pc EXCEPT ![t] = "select_chat"]
    /\ alone' = [s \in Tasks |-> s = t /\ \A u \in Tasks \ {t} : pc[u] = "idle"]
    /\ UNCHANGED <<chats, messages, raced, faults>>

\* Mutant: WHERE c.is_group = FALSE is missing.
MutPrivateChats(r) == {i \in 1..Len(chats) : {r.from, r.to} \subseteq chats[i].members}

\* The rows of the SELECT before LIMIT 1.
PrivateChats(r) ==
    {i \in 1..Len(chats) : ~chats[i].is_group /\ {r.from, r.to} \subseteq chats[i].members}

\* Mutant: the result of the SELECT is not looked at.
MutSelectChat(t) ==
    /\ pc[t] = "select_chat"
    /\ pc' = [pc EXCEPT ![t] = "insert_chat"]
    /\ UNCHANGED <<chats, messages, req, chat_id, posts, alone, raced, faults>>

\* SELECT ... LIMIT 1, without ORDER BY: any of the rows.
SelectChat(t) ==
    /\ pc[t] = "select_chat"
    /\ \/ /\ PrivateChats(req[t]) = {}
          /\ pc' = [pc EXCEPT ![t] = "insert_chat"]
          /\ UNCHANGED chat_id
       \/ \E i \in PrivateChats(req[t]) :
          /\ chat_id' = [chat_id EXCEPT ![t] = i]
          /\ pc' = [pc EXCEPT ![t] = "insert_message"]
    /\ UNCHANGED <<chats, messages, req, posts, alone, raced, faults>>

\* The effect of INSERT INTO chats(title, is_group) VALUES ('private-chat', FALSE).
AddChat == chats' = Append(chats, [is_group |-> FALSE, members |-> {}])

InsertChat(t) ==
    /\ pc[t] = "insert_chat"
    /\ AddChat
    /\ chat_id' = [chat_id EXCEPT ![t] = Len(chats) + 1]
    /\ pc' = [pc EXCEPT ![t] = "insert_members"]
    /\ UNCHANGED <<messages, req, posts, alone, raced, faults>>

\* The two rows satisfy the foreign key and the primary key (chat_id, user_id).
MembersValid(r) == {r.from, r.to} \subseteq Users /\ r.from # r.to

\* The effect of the INSERT of both rows into chat_members, one statement.
AddMembers(t) ==
    /\ chats' = [chats EXCEPT ![chat_id[t]].members = {req[t].from, req[t].to}]
    /\ raced' = IF alone[t] THEN raced ELSE raced \cup {chat_id[t]}

\* Mutant: one row is inserted, the sender's.
MutInsertMembers(t) ==
    /\ pc[t] = "insert_members"
    /\ chats' = [chats EXCEPT ![chat_id[t]].members = {req[t].from} \cap Users]
    /\ pc' = [pc EXCEPT ![t] = "insert_message"]
    /\ UNCHANGED <<messages, req, chat_id, posts, alone, raced, faults>>

InsertMembers(t) ==
    /\ pc[t] = "insert_members"
    /\ IF MembersValid(req[t])
          THEN /\ AddMembers(t)
               /\ pc' = [pc EXCEPT ![t] = "insert_message"]
          ELSE /\ UNCHANGED <<chats, raced>>
               /\ pc' = [pc EXCEPT ![t] = "idle"]
    /\ UNCHANGED <<messages, req, chat_id, posts, alone, faults>>

\* CHECK (char_length(content) > 0); the sender exists as a member of the chat.
MessageValid(r) == r.text # ""

AddMessage(t) == messages' = Append(messages, [chat_id |-> chat_id[t], from |-> req[t].from,
                                               to |-> req[t].to])

InsertMessage(t) ==
    /\ pc[t] = "insert_message"
    /\ IF MessageValid(req[t]) THEN AddMessage(t) ELSE UNCHANGED messages
    /\ pc' = [pc EXCEPT ![t] = "idle"]
    /\ UNCHANGED <<chats, req, chat_id, posts, alone, raced, faults>>

\* A statement fails (connection, timeout, cancelled task), before or after the
\* server executed it: 500, and what earlier statements stored stays.
StatementFails(t) ==
    /\ faults < MaxFaults
    /\ pc[t] # "idle"
    /\ \/ UNCHANGED <<chats, messages, raced>>
       \/ pc[t] = "insert_chat" /\ AddChat /\ UNCHANGED <<messages, raced>>
       \/ pc[t] = "insert_members" /\ MembersValid(req[t]) /\ AddMembers(t) /\ UNCHANGED messages
       \/ /\ pc[t] = "insert_message"
          /\ MessageValid(req[t])
          /\ AddMessage(t)
          /\ UNCHANGED <<chats, raced>>
    /\ pc' = [pc EXCEPT ![t] = "idle"]
    /\ faults' = faults + 1
    /\ UNCHANGED <<req, chat_id, posts, alone>>

Next == \E t \in Tasks :
    \/ \E r \in Request : Post(t, r)
    \/ SelectChat(t)
    \/ InsertChat(t)
    \/ InsertMembers(t)
    \/ InsertMessage(t)
    \/ StatementFails(t)

Spec == Init /\ [][Next]_vars

-----------------------------------------------------------------------------
\* GET /messages?user_id=u: the messages of every chat u is a member of.
GetMessages(u) == {i \in 1..Len(messages) : u \in chats[messages[i].chat_id].members}

\* Sender and receiver both find a stored message with GET /messages, even when
\* concurrent requests have split their conversation over several chats.
PartiesSee ==
    \A i \in 1..Len(messages) :
        i \in GetMessages(messages[i].from) /\ i \in GetMessages(messages[i].to)

\* Nobody else finds a message between two users: it is never stored in a group
\* chat or in a chat with another member.
NobodyElseSees ==
    \A i \in 1..Len(messages), u \in Users :
        i \in GetMessages(u) /\ messages[i].from # messages[i].to =>
            u \in {messages[i].from, messages[i].to}

\* A message to oneself is not private: the SELECT finds any private chat of the
\* sender, no chat with one member can be made, so exactly one other user, and
\* never a group, finds the message too.
SelfMessageShared ==
    \A i \in 1..Len(messages) : messages[i].from = messages[i].to =>
        \E v \in Users \ {messages[i].from} :
            {u \in Users : i \in GetMessages(u)} = {messages[i].from, v}

\* Two users get a second private chat only from requests that overlapped: a
\* request that ran alone finds the chat of every earlier one, also after
\* statements that failed (SELECT, INSERT INTO chats, INSERT INTO chat_members).
OneChatPerPair ==
    \A i, j \in 1..Len(chats) :
        /\ ~chats[i].is_group /\ ~chats[j].is_group
        /\ chats[i].members = chats[j].members /\ chats[i].members # {}
        => i = j \/ i \in raced \/ j \in raced

-----------------------------------------------------------------------------
\* A private chat has no members or two.
PrivatePairs ==
    \A i \in 1..Len(chats) : ~chats[i].is_group =>
        chats[i].members = {} \/ \E u, v \in Users : u # v /\ chats[i].members = {u, v}

\* The chat a task works on: new and its own before the members are inserted,
\* private with both users before the message is.
ChatReady ==
    \A t \in Tasks :
        /\ pc[t] = "insert_members" =>
              /\ chat_id[t] # 0
              /\ ~chats[chat_id[t]].is_group /\ chats[chat_id[t]].members = {}
              /\ \A s \in Tasks : pc[s] = "insert_members" /\ chat_id[s] = chat_id[t] => s = t
        /\ pc[t] = "insert_message" => chat_id[t] \in PrivateChats(req[t])

\* A stored message is in a private chat with both users.
MessagePlaced ==
    \A i \in 1..Len(messages) :
        LET m == messages[i] IN m.chat_id \in PrivateChats([from |-> m.from, to |-> m.to])

\* The inductive invariant behind PartiesSee, NobodyElseSees and SelfMessageShared.
ChatInv == TypeOK /\ PrivatePairs /\ ChatReady /\ MessagePlaced

\* A request that runs alone has no private chat of its users to find until it
\* has made one.
Solo ==
    \A t \in Tasks : alone[t] /\ pc[t] # "idle" =>
        /\ \A s \in Tasks \ {t} : pc[s] = "idle"
        /\ pc[t] \in {"insert_chat", "insert_members"} => PrivateChats(req[t]) = {}

\* The inductive invariant behind OneChatPerPair, given ChatInv.
PairInv == Solo /\ OneChatPerPair
=============================================================================
