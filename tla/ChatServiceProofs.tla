-------------------------- MODULE ChatServiceProofs --------------------------
(***************************************************************************)
(* Proofs about ChatService for every set of users, any seeded chats and   *)
(* any number of concurrent requests and failing statements.               *)
(***************************************************************************)
EXTENDS ChatService, TLAPS

PcValues == {"idle", "select_chat", "insert_chat", "insert_members", "insert_message"}

\* The seeded tables satisfy the invariant.
LEMMA ChatInit == Init => ChatInv
  <1> SUFFICES ASSUME Init PROVE ChatInv
    OBVIOUS
  <1>1. chats \in Seq(Chat) /\ Len(chats) \in Nat
    BY SeedAssumption DEF Init
  <1>2. messages = <<>> /\ Len(messages) = 0
    BY DEF Init
  <1>3. messages \in Seq([chat_id : 1..Len(chats), from : Users, to : People])
    BY <1>2
  <1>4. req \in [Tasks -> Request] /\ pc \in [Tasks -> PcValues]
    BY DEF Init, PcValues
  <1>5. chat_id \in [Tasks -> 0..Len(chats)]
    BY <1>1 DEF Init
  <1>6. posts \in 0..MaxPosts
    BY PostsAssumption DEF Init
  <1>7. faults \in 0..MaxFaults
    BY ChatFaultsAssumption DEF Init
  <1>12. alone \in [Tasks -> BOOLEAN] /\ raced \subseteq Nat
    BY DEF Init
  <1>8. TypeOK
    BY <1>1, <1>3, <1>4, <1>5, <1>6, <1>7, <1>12 DEF TypeOK, PcValues
  <1>9. PrivatePairs
    BY SeedAssumption DEF Init, PrivatePairs
  <1>10. ChatReady
    BY DEF Init, ChatReady
  <1>11. MessagePlaced
    BY <1>2 DEF MessagePlaced
  <1>. QED  BY <1>8, <1>9, <1>10, <1>11 DEF ChatInv

\* A step that only adds chats, and members to chats without members, keeps
\* every private chat of two users one.
Grows == /\ chats' \in Seq(Chat)
         /\ Len(chats') \in Nat /\ Len(chats') >= Len(chats)
         /\ \A i \in 1..Len(chats) : /\ chats'[i].is_group = chats[i].is_group
                                     /\ chats[i].members \subseteq chats'[i].members

LEMMA StillPrivate ==
    ASSUME TypeOK, Grows, NEW r
    PROVE  PrivateChats(r) \subseteq
             {i \in 1..Len(chats') : ~chats'[i].is_group /\ {r.from, r.to} \subseteq chats'[i].members}
  <1>1. Len(chats) \in Nat
    BY DEF TypeOK
  <1>. QED  BY <1>1 DEF PrivateChats, Grows

\* INSERT INTO chats.
LEMMA AddChatGrows ==
    ASSUME TypeOK, AddChat
    PROVE  /\ Grows
           /\ Len(chats') = Len(chats) + 1
           /\ \A i \in 1..Len(chats) : chats'[i] = chats[i]
           /\ chats'[Len(chats) + 1] = [is_group |-> FALSE, members |-> {}]
  <1>1. chats \in Seq(Chat) /\ Len(chats) \in Nat
    BY DEF TypeOK
  <1>2. [is_group |-> FALSE, members |-> {}] \in Chat
    BY DEF Chat
  <1>3. /\ chats' \in Seq(Chat)
        /\ Len(chats') = Len(chats) + 1
        /\ \A i \in 1..Len(chats) : chats'[i] = chats[i]
        /\ chats'[Len(chats) + 1] = [is_group |-> FALSE, members |-> {}]
    BY <1>1, <1>2 DEF AddChat
  <1>. QED  BY <1>1, <1>3 DEF Grows

\* INSERT INTO chat_members for a chat that has no members yet.
LEMMA AddMembersGrows ==
    ASSUME TypeOK, NEW t \in Tasks, chat_id[t] \in 1..Len(chats),
           chats[chat_id[t]].members = {},
           MembersValid(req[t]), AddMembers(t)
    PROVE  /\ Grows
           /\ Len(chats') = Len(chats)
           /\ \A i \in 1..Len(chats) : i # chat_id[t] => chats'[i] = chats[i]
           /\ chats'[chat_id[t]].is_group = chats[chat_id[t]].is_group
           /\ chats'[chat_id[t]].members = {req[t].from, req[t].to}
  <1> DEFINE k == chat_id[t]
             new == [chats[k] EXCEPT !.members = {req[t].from, req[t].to}]
  <1>1. chats \in Seq(Chat) /\ Len(chats) \in Nat /\ k \in 1..Len(chats)
    BY DEF TypeOK
  <1>2. chats[k] \in Chat
    BY <1>1
  <1>3. new.is_group = chats[k].is_group /\ new.members = {req[t].from, req[t].to}
    BY <1>2 DEF Chat
  <1>4. new \in Chat
    BY <1>2 DEF Chat, MembersValid
  <1>5. chats' = [chats EXCEPT ![k] = new]
    BY DEF AddMembers
  <1>6. chats[k].members = {}
    OBVIOUS
  <1> HIDE DEF new, k
  <1>7. /\ chats' \in Seq(Chat) /\ Len(chats') = Len(chats)
        /\ \A i \in 1..Len(chats) : i # k => chats'[i] = chats[i]
        /\ chats'[k] = new
    BY <1>1, <1>4, <1>5
  <1>8. ASSUME NEW i \in 1..Len(chats)
        PROVE  /\ chats'[i].is_group = chats[i].is_group
               /\ chats[i].members \subseteq chats'[i].members
    <2>1. CASE i = k
      BY <2>1, <1>3, <1>6, <1>7
    <2>2. CASE i # k
      BY <2>2, <1>7
    <2>. QED  BY <2>1, <2>2
  <1>9. Grows
    BY <1>1, <1>7, <1>8 DEF Grows
  <1>. QED  BY <1>3, <1>7, <1>9 DEF k

\* A request that passed the SELECT or the INSERT of the members has a sender
\* with a row in users, and its chat is there.
LEMMA ReadyMessage ==
    ASSUME ChatInv, NEW t \in Tasks, pc[t] = "insert_message"
    PROVE  [chat_id |-> chat_id[t], from |-> req[t].from, to |-> req[t].to]
             \in [chat_id : 1..Len(chats), from : Users, to : People]
  <1>1. chat_id[t] \in 1..Len(chats) /\ {req[t].from, req[t].to} \subseteq chats[chat_id[t]].members
    BY DEF ChatInv, ChatReady, PrivateChats
  <1>2. chats[chat_id[t]] \in Chat
    BY <1>1 DEF ChatInv, TypeOK
  <1>3. req[t].from \in Users /\ req[t].to \in Users
    BY <1>1, <1>2 DEF Chat
  <1>. QED  BY <1>1, <1>3 DEF People

\* Messages keep their type when the chats grow.
LEMMA MessagesType ==
    ASSUME TypeOK, Len(chats') \in Nat, Len(chats') >= Len(chats)
    PROVE  /\ messages \in Seq([chat_id : 1..Len(chats'), from : Users, to : People])
           /\ chat_id \in [Tasks -> 0..Len(chats')]
  <1>1. Len(chats) \in Nat /\ 1..Len(chats) \subseteq 1..Len(chats')
        /\ 0..Len(chats) \subseteq 0..Len(chats')
    BY DEF TypeOK
  <1>2. [chat_id : 1..Len(chats), from : Users, to : People]
          \subseteq [chat_id : 1..Len(chats'), from : Users, to : People]
    BY <1>1
  <1> DEFINE S == [chat_id : 1..Len(chats), from : Users, to : People]
             T == [chat_id : 1..Len(chats'), from : Users, to : People]
  <1>3. messages \in Seq(S) /\ S \subseteq T
    BY <1>2 DEF TypeOK
  <1>4. chat_id \in [Tasks -> 0..Len(chats')]
    BY <1>1 DEF TypeOK
  <1> HIDE DEF S, T
  <1>5. messages \in Seq(T)
    BY <1>3
  <1>. QED  BY <1>4, <1>5 DEF T

\* The history variables keep their types.
LEMMA HistoryType ==
    ASSUME TypeOK, [Next]_vars
    PROVE  alone' \in [Tasks -> BOOLEAN] /\ raced' \subseteq Nat
  <1>t. alone \in [Tasks -> BOOLEAN] /\ raced \subseteq Nat
    BY DEF TypeOK
  <1>1. ASSUME NEW t \in Tasks, AddMembers(t) PROVE raced' \subseteq Nat
    <2>1. chat_id[t] \in Nat
      BY DEF TypeOK
    <2>. QED  BY <1>1, <1>t, <2>1 DEF AddMembers
  <1>2. ASSUME NEW t \in Tasks, NEW r \in Request, Post(t, r)
        PROVE  alone' \in [Tasks -> BOOLEAN] /\ raced' \subseteq Nat
    BY <1>2, <1>t DEF Post
  <1>3. ASSUME NEW t \in Tasks, SelectChat(t) \/ InsertChat(t) \/ InsertMessage(t)
        PROVE  alone' \in [Tasks -> BOOLEAN] /\ raced' \subseteq Nat
    BY <1>3, <1>t DEF SelectChat, InsertChat, InsertMessage
  <1>4. ASSUME NEW t \in Tasks, InsertMembers(t) \/ StatementFails(t)
        PROVE  alone' \in [Tasks -> BOOLEAN] /\ raced' \subseteq Nat
    BY <1>1, <1>4, <1>t DEF InsertMembers, StatementFails
  <1>5. CASE UNCHANGED vars
    BY <1>5, <1>t DEF vars
  <1>. QED  BY <1>2, <1>3, <1>4, <1>5 DEF Next

\* What every step does: the chats grow as Grows allows, and a message is added
\* only where ChatReady holds.
LEMMA ChatInvStep ==
    ASSUME ChatInv, [Next]_vars
    PROVE  ChatInv'
  <1>t. /\ TypeOK /\ PrivatePairs /\ ChatReady /\ MessagePlaced
        /\ chats \in Seq(Chat) /\ Len(chats) \in Nat
        /\ messages \in Seq([chat_id : 1..Len(chats), from : Users, to : People])
        /\ pc \in [Tasks -> PcValues]
        /\ req \in [Tasks -> Request]
        /\ chat_id \in [Tasks -> 0..Len(chats)]
        /\ posts \in 0..MaxPosts
        /\ faults \in 0..MaxFaults
    BY DEF ChatInv, TypeOK, PcValues
  <1>h. alone' \in [Tasks -> BOOLEAN] /\ raced' \subseteq Nat
    BY <1>t, HistoryType
  <1>f. ASSUME NEW t \in Tasks, StatementFails(t)
        PROVE  faults' \in 0..MaxFaults
    BY <1>f, <1>t, ChatFaultsAssumption DEF StatementFails
  \* The chats do not change and no message is added.
  <1>1. ASSUME UNCHANGED <<chats, messages>>,
               pc' \in [Tasks -> PcValues], req' \in [Tasks -> Request],
               chat_id' \in [Tasks -> 0..Len(chats)],
               posts' \in 0..MaxPosts, faults' \in 0..MaxFaults,
               ChatReady'
        PROVE  ChatInv'
    <2>1. TypeOK'
      BY <1>1, <1>t, <1>h DEF TypeOK, PcValues
    <2>2. PrivatePairs' /\ MessagePlaced'
      BY <1>1, <1>t DEF PrivatePairs, MessagePlaced, PrivateChats
    <2>. QED  BY <1>1, <2>1, <2>2 DEF ChatInv
  <1>2. ASSUME NEW t \in Tasks, NEW r \in Request, Post(t, r) PROVE ChatInv'
    <2>1. /\ UNCHANGED <<chats, messages, faults>>
          /\ pc' = [pc EXCEPT ![t] = "select_chat"]
          /\ req' = [req EXCEPT ![t] = r]
          /\ chat_id' = [chat_id EXCEPT ![t] = 0]
      BY <1>2 DEF Post
    <2>2. pc' \in [Tasks -> PcValues] /\ req' \in [Tasks -> Request]
      BY <2>1, <1>t DEF PcValues
    <2>3. chat_id' \in [Tasks -> 0..Len(chats)]
      BY <2>1, <1>t
    <2>4. posts' \in 0..MaxPosts
      BY <1>2, <1>t, PostsAssumption DEF Post
    <2>5. \A s \in Tasks : pc'[s] \in {"insert_members", "insert_message"} =>
             pc'[s] = pc[s] /\ req'[s] = req[s] /\ chat_id'[s] = chat_id[s]
      BY <2>1, <1>t
    <2>6. ChatReady'
      BY <2>1, <2>5, <1>t DEF ChatReady, PrivateChats
    <2>. QED  BY <1>1, <1>t, <2>1, <2>2, <2>3, <2>4, <2>6
  <1>3. ASSUME NEW t \in Tasks, SelectChat(t) PROVE ChatInv'
    <2>1. UNCHANGED <<chats, messages, req, posts, faults>>
      BY <1>3 DEF SelectChat
    <2>2. CASE pc' = [pc EXCEPT ![t] = "insert_chat"] /\ chat_id' = chat_id
      <3>1. pc' \in [Tasks -> PcValues]
        BY <2>2, <1>t DEF PcValues
      <3>2. \A s \in Tasks : pc'[s] \in {"insert_members", "insert_message"} => pc'[s] = pc[s]
        BY <2>2, <1>t
      <3>3. ChatReady'
        BY <2>1, <2>2, <3>2, <1>t DEF ChatReady, PrivateChats
      <3>. QED  BY <1>1, <1>t, <2>1, <2>2, <3>1, <3>3
    <2>3. CASE \E i \in PrivateChats(req[t]) :
                  /\ chat_id' = [chat_id EXCEPT ![t] = i]
                  /\ pc' = [pc EXCEPT ![t] = "insert_message"]
      <3>1. PICK i \in PrivateChats(req[t]) :
                  /\ chat_id' = [chat_id EXCEPT ![t] = i]
                  /\ pc' = [pc EXCEPT ![t] = "insert_message"]
        BY <2>3
      <3>2. i \in 1..Len(chats)
        BY DEF PrivateChats
      <3>3. pc' \in [Tasks -> PcValues]
        BY <3>1, <1>t DEF PcValues
      <3>4. chat_id' \in [Tasks -> 0..Len(chats)]
        BY <3>1, <3>2, <1>t
      <3>5. /\ pc'[t] = "insert_message" /\ chat_id'[t] = i
            /\ \A s \in Tasks : s # t => pc'[s] = pc[s] /\ chat_id'[s] = chat_id[s]
        BY <3>1, <1>t
      <3>6. ChatReady'
        <4>1. i \in PrivateChats(req[t])'
          BY <2>1 DEF PrivateChats
        <4>2. \A s \in Tasks : PrivateChats(req[s])' = PrivateChats(req[s])
          BY <2>1 DEF PrivateChats
        <4>3. ASSUME NEW s \in Tasks, s # t PROVE pc'[s] = pc[s] /\ chat_id'[s] = chat_id[s]
          BY <3>5, <4>3
        <4>4. req' = req /\ chats' = chats
          BY <2>1
        <4>5. ChatReady
          BY <1>t
        <4>. QED  BY <3>5, <4>1, <4>2, <4>3, <4>4, <4>5 DEF ChatReady
      <3>. QED  BY <1>1, <1>t, <2>1, <3>3, <3>4, <3>6
    <2>. QED  BY <1>3, <2>2, <2>3 DEF SelectChat
  \* The chats grow and no message is added.
  <1>4. ASSUME Grows, PrivatePairs', UNCHANGED <<messages, req, posts>>,
               pc' \in [Tasks -> PcValues],
               chat_id' \in [Tasks -> 0..Len(chats')], faults' \in 0..MaxFaults,
               ChatReady'
        PROVE  ChatInv'
    <2>1. messages \in Seq([chat_id : 1..Len(chats'), from : Users, to : People])
      BY <1>4, <1>t, MessagesType DEF Grows
    <2>2. TypeOK'
      BY <1>4, <1>t, <1>h, <2>1 DEF TypeOK, PcValues, Grows
    <2>3. MessagePlaced'
      <3> SUFFICES ASSUME NEW i \in 1..Len(messages)
                   PROVE  messages[i].chat_id \in
                            PrivateChats([from |-> messages[i].from, to |-> messages[i].to])'
        BY <1>4 DEF MessagePlaced
      <3> DEFINE r == [from |-> messages[i].from, to |-> messages[i].to]
      <3>1. messages[i].chat_id \in PrivateChats(r)
        BY <1>t DEF MessagePlaced
      <3>2. messages[i].chat_id \in
              {j \in 1..Len(chats') : ~chats'[j].is_group /\ {r.from, r.to} \subseteq chats'[j].members}
        BY <3>1, <1>4, <1>t, StillPrivate
      <3>. QED  BY <3>2, <1>4 DEF PrivateChats
    <2>. QED  BY <1>4, <2>2, <2>3 DEF ChatInv
  \* A task that has chosen its chat keeps it when the chats grow.
  <1>5. ASSUME Grows, NEW s \in Tasks, pc[s] = "insert_message",
               req'[s] = req[s], chat_id'[s] = chat_id[s]
        PROVE  chat_id'[s] \in PrivateChats(req[s])'
    <2>1. chat_id[s] \in PrivateChats(req[s])
      BY <1>5, <1>t DEF ChatReady
    <2>2. chat_id[s] \in {i \in 1..Len(chats') :
             ~chats'[i].is_group /\ {req[s].from, req[s].to} \subseteq chats'[i].members}
      BY <2>1, <1>5, <1>t, StillPrivate
    <2>. QED  BY <2>2, <1>5 DEF PrivateChats
  \* INSERT INTO chats by t, answered (next = "insert_members") or failed.
  <1>6. ASSUME NEW t \in Tasks, AddChat, pc[t] = "insert_chat",
               UNCHANGED <<messages, req, posts>>, faults' \in 0..MaxFaults,
               \/ /\ pc' = [pc EXCEPT ![t] = "insert_members"]
                  /\ chat_id' = [chat_id EXCEPT ![t] = Len(chats) + 1]
               \/ pc' = [pc EXCEPT ![t] = "idle"] /\ chat_id' = chat_id
        PROVE  ChatInv'
    <2>1. /\ Grows /\ Len(chats') = Len(chats) + 1
          /\ \A i \in 1..Len(chats) : chats'[i] = chats[i]
          /\ chats'[Len(chats) + 1] = [is_group |-> FALSE, members |-> {}]
      BY <1>6, <1>t, AddChatGrows
    <2>2. pc' \in [Tasks -> PcValues]
      BY <1>6, <1>t DEF PcValues
    <2>3. chat_id' \in [Tasks -> 0..Len(chats')]
      <3>1. chat_id \in [Tasks -> 0..Len(chats')]
        BY <2>1, <1>t
      <3>2. Len(chats) + 1 \in 0..Len(chats')
        BY <2>1, <1>t
      <3>. QED  BY <1>6, <3>1, <3>2
    <2>4. PrivatePairs'
      <3> SUFFICES ASSUME NEW i \in 1..Len(chats'), ~chats'[i].is_group
                   PROVE  \/ chats'[i].members = {}
                          \/ \E u, v \in Users : u # v /\ chats'[i].members = {u, v}
        BY DEF PrivatePairs
      <3>1. CASE i = Len(chats) + 1
        BY <3>1, <2>1
      <3>2. CASE i # Len(chats) + 1
        <4>1. i \in 1..Len(chats)
          BY <3>2, <2>1, <1>t
        <4>2. chats'[i] = chats[i]
          BY <4>1, <2>1
        <4>3. ~chats[i].is_group
          BY <4>2
        <4>. QED  BY <4>1, <4>2, <4>3, <1>t DEF PrivatePairs
      <3>. QED  BY <3>1, <3>2
    <2>5. /\ \A s \in Tasks : s # t => pc'[s] = pc[s] /\ chat_id'[s] = chat_id[s]
          /\ pc'[t] # "insert_message"
          /\ pc'[t] = "insert_members" => chat_id'[t] = Len(chats) + 1
      BY <1>6, <1>t
    <2>6. ASSUME NEW s \in Tasks, s # t, pc[s] = "insert_members"
          PROVE  chat_id[s] \in 1..Len(chats) /\ chat_id[s] # Len(chats) + 1
      BY <2>6, <1>t DEF ChatReady
    <2>7. ASSUME NEW s \in Tasks, pc'[s] = "insert_members"
          PROVE  /\ chat_id'[s] # 0
                 /\ ~chats'[chat_id'[s]].is_group /\ chats'[chat_id'[s]].members = {}
                 /\ \A q \in Tasks : pc'[q] = "insert_members" /\ chat_id'[q] = chat_id'[s] => q = s
      <3>1. CASE s = t
        BY <2>7, <3>1, <2>1, <2>5, <2>6, <1>t
      <3>2. CASE s # t
        <4>1. pc[s] = "insert_members" /\ chat_id'[s] = chat_id[s]
          BY <2>5, <2>7, <3>2
        <4>2. chat_id[s] \in 1..Len(chats) /\ chat_id[s] # Len(chats) + 1
          BY <2>6, <3>2, <4>1
        <4>3. /\ chat_id[s] # 0
              /\ ~chats[chat_id[s]].is_group /\ chats[chat_id[s]].members = {}
              /\ \A q \in Tasks : pc[q] = "insert_members" /\ chat_id[q] = chat_id[s] => q = s
          BY <4>1, <1>t DEF ChatReady
        <4>. QED  BY <2>1, <2>5, <4>1, <4>2, <4>3
      <3>. QED  BY <3>1, <3>2
    <2>8. ASSUME NEW s \in Tasks, pc'[s] = "insert_message"
          PROVE  chat_id'[s] \in PrivateChats(req[s])'
      BY <2>8, <1>5, <1>6, <2>1, <2>5
    <2>9. ChatReady'
      BY <2>7, <2>8 DEF ChatReady
    <2>. QED  BY <1>4, <1>6, <2>1, <2>2, <2>3, <2>4, <2>9
  \* INSERT INTO chat_members by t, answered (next = "insert_message") or failed.
  <1>7. ASSUME NEW t \in Tasks, MembersValid(req[t]), AddMembers(t), pc[t] = "insert_members",
               UNCHANGED <<messages, req, chat_id, posts>>, faults' \in 0..MaxFaults,
               pc' = [pc EXCEPT ![t] = "insert_message"] \/ pc' = [pc EXCEPT ![t] = "idle"]
        PROVE  ChatInv'
    <2> DEFINE k == chat_id[t]
    <2>1. /\ k \in 1..Len(chats) /\ ~chats[k].is_group /\ chats[k].members = {}
          /\ \A s \in Tasks : pc[s] = "insert_members" /\ chat_id[s] = k => s = t
      BY <1>7, <1>t DEF ChatReady
    <2>2. /\ Grows /\ Len(chats') = Len(chats)
          /\ \A i \in 1..Len(chats) : i # k => chats'[i] = chats[i]
          /\ chats'[k].is_group = chats[k].is_group
          /\ chats'[k].members = {req[t].from, req[t].to}
      BY <1>7, <1>t, <2>1, AddMembersGrows
    <2>3. pc' \in [Tasks -> PcValues]
      BY <1>7, <1>t DEF PcValues
    <2>4. PrivatePairs'
      <3> SUFFICES ASSUME NEW i \in 1..Len(chats), ~chats'[i].is_group
                   PROVE  \/ chats'[i].members = {}
                          \/ \E u, v \in Users : u # v /\ chats'[i].members = {u, v}
        BY <2>2 DEF PrivatePairs
      <3>1. CASE i = k
        BY <3>1, <1>7, <2>2 DEF MembersValid
      <3>2. CASE i # k
        <4>1. chats'[i] = chats[i]
          BY <3>2, <2>2
        <4>2. ~chats[i].is_group
          BY <4>1
        <4>. QED  BY <4>1, <4>2, <1>t DEF PrivatePairs
      <3>. QED  BY <3>1, <3>2
    <2>5. /\ \A s \in Tasks : s # t => pc'[s] = pc[s]
          /\ pc'[t] # "insert_members"
      BY <1>7, <1>t
    <2>6. ASSUME NEW s \in Tasks, pc'[s] = "insert_members"
          PROVE  /\ chat_id'[s] # 0
                 /\ ~chats'[chat_id'[s]].is_group /\ chats'[chat_id'[s]].members = {}
                 /\ \A q \in Tasks : pc'[q] = "insert_members" /\ chat_id'[q] = chat_id'[s] => q = s
      <3>1. s # t /\ pc[s] = "insert_members" /\ chat_id[s] # k
        BY <2>1, <2>5, <2>6
      <3>2. chat_id[s] \in 1..Len(chats)
        BY <3>1, <1>t DEF ChatReady
      <3>3. chats'[chat_id[s]] = chats[chat_id[s]]
        BY <2>2, <3>1, <3>2
      <3>. QED  BY <1>7, <2>5, <3>1, <3>3, <1>t DEF ChatReady
    <2>7. ASSUME NEW s \in Tasks, pc'[s] = "insert_message"
          PROVE  chat_id'[s] \in PrivateChats(req[s])'
      <3>1. CASE s = t
        BY <3>1, <1>7, <2>1, <2>2 DEF PrivateChats
      <3>2. CASE s # t
        BY <3>2, <2>7, <1>5, <1>7, <2>2, <2>5
      <3>. QED  BY <3>1, <3>2
    <2>8. ChatReady'
      BY <2>6, <2>7 DEF ChatReady
    <2>9. chat_id' \in [Tasks -> 0..Len(chats')]
      BY <1>7, <1>t, <2>2
    <2>. QED  BY <1>4, <1>7, <2>2, <2>3, <2>4, <2>8, <2>9
  \* t leaves the handler and the chats stay as they are.
  <1>8. ASSUME NEW t \in Tasks, pc' = [pc EXCEPT ![t] = "idle"],
               UNCHANGED <<chats, req, chat_id, posts>>, faults' \in 0..MaxFaults,
               \/ UNCHANGED messages
               \/ pc[t] = "insert_message" /\ AddMessage(t)
        PROVE  ChatInv'
    <2>1. pc' \in [Tasks -> PcValues]
      BY <1>8, <1>t DEF PcValues
    <2>2. \A s \in Tasks : pc'[s] \in {"insert_members", "insert_message"} => pc'[s] = pc[s]
      BY <1>8, <1>t
    <2>3. ChatReady'
      BY <1>8, <2>2, <1>t DEF ChatReady, PrivateChats
    <2>4. CASE UNCHANGED messages
      BY <1>1, <1>8, <1>t, <2>1, <2>3, <2>4
    <2>5. CASE pc[t] = "insert_message" /\ AddMessage(t)
      <3> DEFINE M == [chat_id : 1..Len(chats), from : Users, to : People]
                 new == [chat_id |-> chat_id[t], from |-> req[t].from, to |-> req[t].to]
      <3>1. new \in M
        BY <2>5, ReadyMessage
      <3>2. messages \in Seq(M) /\ messages' = Append(messages, new)
        BY <2>5, <1>t DEF AddMessage
      <3>3. new.chat_id = chat_id[t] /\ new.from = req[t].from /\ new.to = req[t].to
        OBVIOUS
      <3>4. chat_id[t] \in PrivateChats(req[t])
        BY <2>5, <1>t DEF ChatReady
      <3>5. chat_id[t] \in PrivateChats([from |-> req[t].from, to |-> req[t].to])'
        BY <1>8, <3>4 DEF PrivateChats
      <3> HIDE DEF M, new
      <3>6. /\ messages' \in Seq(M) /\ Len(messages') = Len(messages) + 1 /\ Len(messages) \in Nat
            /\ \A i \in 1..Len(messages) : messages'[i] = messages[i]
            /\ messages'[Len(messages) + 1] = new
        BY <3>1, <3>2
      <3>7. TypeOK'
        BY <1>8, <1>t, <1>h, <2>1, <3>6 DEF TypeOK, PcValues, M
      <3>8. PrivatePairs'
        BY <1>8, <1>t DEF PrivatePairs
      <3>9. ASSUME NEW i \in 1..Len(messages')
            PROVE  messages'[i].chat_id \in
                     PrivateChats([from |-> messages[i].from, to |-> messages[i].to])'
        <4>1. CASE i \in 1..Len(messages)
          <5>1. messages[i].chat_id \in
                  PrivateChats([from |-> messages[i].from, to |-> messages[i].to])
            BY <4>1, <1>t DEF MessagePlaced
          <5>2. messages'[i] = messages[i]
            BY <4>1, <3>6
          <5>. QED  BY <5>1, <5>2, <1>8 DEF PrivateChats
        <4>2. CASE i = Len(messages) + 1
          BY <4>2, <3>3, <3>4, <3>6, <1>8 DEF PrivateChats
        <4>. QED  BY <3>6, <4>1, <4>2
      <3>10. MessagePlaced'
        BY <3>9 DEF MessagePlaced
      <3>. QED  BY <2>3, <3>7, <3>8, <3>10 DEF ChatInv
    <2>. QED  BY <1>8, <2>4, <2>5
  <1>9. ASSUME NEW t \in Tasks, InsertChat(t) PROVE ChatInv'
    BY <1>6, <1>9, <1>t DEF InsertChat
  <1>10. ASSUME NEW t \in Tasks, InsertMembers(t) PROVE ChatInv'
    <2>1. CASE MembersValid(req[t])
      BY <1>7, <1>10, <1>t, <2>1 DEF InsertMembers
    <2>2. CASE ~MembersValid(req[t])
      BY <1>8, <1>10, <1>t, <2>2 DEF InsertMembers
    <2>. QED  BY <2>1, <2>2
  <1>11. ASSUME NEW t \in Tasks, InsertMessage(t) PROVE ChatInv'
    BY <1>8, <1>11, <1>t DEF InsertMessage
  <1>12. ASSUME NEW t \in Tasks, StatementFails(t) PROVE ChatInv'
    <2>1. /\ pc' = [pc EXCEPT ![t] = "idle"] /\ UNCHANGED <<req, chat_id, posts>>
          /\ faults' \in 0..MaxFaults
      BY <1>12, <1>f DEF StatementFails
    <2>2. CASE UNCHANGED <<chats, messages>>
      BY <1>8, <2>1, <2>2
    <2>3. CASE pc[t] = "insert_chat" /\ AddChat /\ UNCHANGED <<messages, raced>>
      BY <1>6, <2>1, <2>3
    <2>4. CASE pc[t] = "insert_members" /\ MembersValid(req[t]) /\ AddMembers(t) /\ UNCHANGED messages
      BY <1>7, <2>1, <2>4
    <2>5. CASE pc[t] = "insert_message" /\ AddMessage(t) /\ UNCHANGED <<chats, raced>>
      BY <1>8, <2>1, <2>5
    <2>. QED  BY <1>12, <2>2, <2>3, <2>4, <2>5 DEF StatementFails
  <1>13. ASSUME UNCHANGED vars PROVE ChatInv'
    <2>1. ChatReady'
      BY <1>13, <1>t DEF vars, ChatReady, PrivateChats
    <2>. QED  BY <1>1, <1>13, <1>t, <2>1 DEF vars
  <1>. QED
    BY <1>2, <1>3, <1>9, <1>10, <1>11, <1>12, <1>13 DEF Next

-----------------------------------------------------------------------------
\* The invariant of the chat tables, for any number of concurrent requests.
THEOREM ChatInvariant == Spec => []ChatInv
  <1>1. ChatInv /\ [Next]_vars => ChatInv'
    BY ChatInvStep
  <1>. QED  BY ChatInit, <1>1, PTL DEF Spec

\* Sender and receiver always find each stored message with GET /messages.
THEOREM PartiesSeeMessages == Spec => []PartiesSee
  <1>1. ChatInv => PartiesSee
    <2> SUFFICES ASSUME ChatInv, NEW i \in 1..Len(messages)
                 PROVE  i \in GetMessages(messages[i].from) /\ i \in GetMessages(messages[i].to)
      BY DEF PartiesSee
    <2>1. messages[i].chat_id \in PrivateChats([from |-> messages[i].from, to |-> messages[i].to])
      BY DEF ChatInv, MessagePlaced
    <2>. QED  BY <2>1 DEF PrivateChats, GetMessages
  <1>. QED  BY ChatInvariant, <1>1, PTL

\* A message between two users is visible to nobody else.
THEOREM MessagesStayPrivate == Spec => []NobodyElseSees
  <1>1. ChatInv => NobodyElseSees
    <2> SUFFICES ASSUME ChatInv, NEW i \in 1..Len(messages), NEW u \in Users,
                        i \in GetMessages(u), messages[i].from # messages[i].to
                 PROVE  u \in {messages[i].from, messages[i].to}
      BY DEF NobodyElseSees
    <2> DEFINE k == messages[i].chat_id
    <2>1. /\ k \in 1..Len(chats) /\ ~chats[k].is_group
          /\ {messages[i].from, messages[i].to} \subseteq chats[k].members
      BY DEF ChatInv, MessagePlaced, PrivateChats
    <2>2. PICK v, w \in Users : chats[k].members = {v, w}
      BY <2>1 DEF ChatInv, PrivatePairs
    <2>3. u \in chats[k].members
      BY DEF GetMessages
    <2>. QED  BY <2>1, <2>2, <2>3
  <1>. QED  BY ChatInvariant, <1>1, PTL

\* A message to oneself is always shared with exactly one other user, the
\* partner of one of the sender's private chats.
THEOREM SelfMessagesAreShared == Spec => []SelfMessageShared
  <1>1. ChatInv => SelfMessageShared
    <2> SUFFICES ASSUME ChatInv, NEW i \in 1..Len(messages), messages[i].from = messages[i].to
                 PROVE  \E v \in Users \ {messages[i].from} :
                           {u \in Users : i \in GetMessages(u)} = {messages[i].from, v}
      BY DEF SelfMessageShared
    <2> DEFINE k == messages[i].chat_id
               me == messages[i].from
    <2>1. k \in 1..Len(chats) /\ ~chats[k].is_group /\ me \in chats[k].members
      BY DEF ChatInv, MessagePlaced, PrivateChats
    <2>2. PICK v, w \in Users : v # w /\ chats[k].members = {v, w}
      BY <2>1 DEF ChatInv, PrivatePairs
    <2>3. {u \in Users : i \in GetMessages(u)} = chats[k].members
      BY <2>2 DEF GetMessages
    <2>4. CASE me = v
      BY <2>2, <2>3, <2>4
    <2>5. CASE me = w
      BY <2>2, <2>3, <2>5
    <2>. QED  BY <2>1, <2>2, <2>4, <2>5
  <1>. QED  BY ChatInvariant, <1>1, PTL

-----------------------------------------------------------------------------
\* Initially no request runs, and the seeded private chats are of different pairs.
LEMMA PairInit == Init => PairInv
  <1> SUFFICES ASSUME Init PROVE PairInv
    OBVIOUS
  <1>1. Solo
    BY DEF Init, Solo
  <1>2. OneChatPerPair
    BY SeedAssumption DEF Init, OneChatPerPair
  <1>. QED  BY <1>1, <1>2 DEF PairInv

\* Every step preserves PairInv.
LEMMA PairInvStep ==
    ASSUME ChatInv, PairInv, [Next]_vars
    PROVE  PairInv'
  <1>t. /\ TypeOK /\ ChatReady /\ Solo /\ OneChatPerPair
        /\ chats \in Seq(Chat) /\ Len(chats) \in Nat
        /\ pc \in [Tasks -> PcValues]
        /\ req \in [Tasks -> Request]
        /\ chat_id \in [Tasks -> 0..Len(chats)]
        /\ alone \in [Tasks -> BOOLEAN]
    BY DEF ChatInv, PairInv, TypeOK, PcValues
  \* t leaves the handler and the chats stay as they are.
  <1>1. ASSUME NEW t \in Tasks, pc' = [pc EXCEPT ![t] = "idle"],
               UNCHANGED <<chats, req, alone, raced>>
        PROVE  PairInv'
    <2>1. \A s \in Tasks : pc'[s] # "idle" => pc'[s] = pc[s]
      BY <1>1, <1>t
    <2>2. \A s \in Tasks : pc[s] = "idle" => pc'[s] = "idle"
      BY <1>1, <1>t
    <2>3. \A s \in Tasks : PrivateChats(req[s])' = PrivateChats(req[s])
      BY <1>1 DEF PrivateChats
    <2>4. Solo'
      BY <1>1, <1>t, <2>1, <2>2, <2>3 DEF Solo
    <2>5. OneChatPerPair'
      BY <1>1, <1>t DEF OneChatPerPair
    <2>. QED  BY <2>4, <2>5 DEF PairInv
  <1>2. ASSUME NEW t \in Tasks, NEW r \in Request, Post(t, r) PROVE PairInv'
    <2>1. /\ UNCHANGED <<chats, raced>>
          /\ pc'[t] = "select_chat" /\ \A s \in Tasks \ {t} : pc'[s] = pc[s]
          /\ \A s \in Tasks : alone'[s] => s = t /\ \A u \in Tasks \ {t} : pc[u] = "idle"
      BY <1>2, <1>t DEF Post
    <2>2. Solo'
      BY <2>1 DEF Solo
    <2>3. OneChatPerPair'
      BY <2>1, <1>t DEF OneChatPerPair
    <2>. QED  BY <2>2, <2>3 DEF PairInv
  <1>3. ASSUME NEW t \in Tasks, SelectChat(t) PROVE PairInv'
    <2>1. /\ UNCHANGED <<chats, req, alone, raced>>
          /\ pc[t] # "idle" /\ \A s \in Tasks \ {t} : pc'[s] = pc[s]
          /\ pc'[t] \in {"insert_chat", "insert_message"}
          /\ pc'[t] = "insert_chat" => PrivateChats(req[t]) = {}
      BY <1>3, <1>t DEF SelectChat
    <2>2. \A s \in Tasks : PrivateChats(req[s])' = PrivateChats(req[s])
      BY <2>1 DEF PrivateChats
    <2>3. Solo'
      BY <2>1, <2>2, <1>t DEF Solo
    <2>4. OneChatPerPair'
      BY <2>1, <1>t DEF OneChatPerPair
    <2>. QED  BY <2>3, <2>4 DEF PairInv
  \* INSERT INTO chats: the new chat has no members.
  <1>4. ASSUME NEW t \in Tasks, AddChat, pc[t] = "insert_chat",
               UNCHANGED <<req, alone, raced>>,
               \/ pc' = [pc EXCEPT ![t] = "insert_members"]
               \/ pc' = [pc EXCEPT ![t] = "idle"]
        PROVE  PairInv'
    <2>1. /\ Len(chats') = Len(chats) + 1
          /\ \A i \in 1..Len(chats) : chats'[i] = chats[i]
          /\ chats'[Len(chats) + 1] = [is_group |-> FALSE, members |-> {}]
      BY <1>4, <1>t, AddChatGrows
    <2>2. \A i \in 1..Len(chats') : chats'[i].members # {} => i \in 1..Len(chats) /\ chats'[i] = chats[i]
      BY <2>1, <1>t
    <2>3. OneChatPerPair'
      BY <1>4, <1>t, <2>2 DEF OneChatPerPair
    <2>4. \A s \in Tasks : PrivateChats(req[s]) = {} => PrivateChats(req[s])' = {}
      BY <1>4, <2>2 DEF PrivateChats
    <2>5. /\ \A s \in Tasks \ {t} : pc'[s] = pc[s]
          /\ pc'[t] \in {"insert_members", "idle"}
      BY <1>4, <1>t
    <2>6. Solo'
      <3> SUFFICES ASSUME NEW s \in Tasks, alone[s], pc'[s] # "idle"
                   PROVE  /\ \A q \in Tasks \ {s} : pc'[q] = "idle"
                          /\ pc'[s] \in {"insert_chat", "insert_members"} => PrivateChats(req[s])' = {}
        BY <1>4 DEF Solo
      <3>1. s = t
        BY <1>4, <2>5, <1>t DEF Solo
      <3>. QED  BY <1>4, <2>4, <2>5, <3>1, <1>t DEF Solo
    <2>. QED  BY <2>3, <2>6 DEF PairInv
  \* INSERT INTO chat_members: a request that ran alone is the first to make a
  \* private chat of its users, any other chat is counted as raced.
  <1>5. ASSUME NEW t \in Tasks, MembersValid(req[t]), AddMembers(t), pc[t] = "insert_members",
               UNCHANGED <<req, alone>>,
               \/ pc' = [pc EXCEPT ![t] = "insert_message"]
               \/ pc' = [pc EXCEPT ![t] = "idle"]
        PROVE  PairInv'
    <2> DEFINE k == chat_id[t]
    <2>1. k \in 1..Len(chats) /\ chats[k].members = {}
      BY <1>5, <1>t DEF ChatReady
    <2>2. /\ Len(chats') = Len(chats)
          /\ \A i \in 1..Len(chats) : i # k => chats'[i] = chats[i]
          /\ chats'[k].is_group = chats[k].is_group
          /\ chats'[k].members = {req[t].from, req[t].to}
      BY <1>5, <1>t, <2>1, AddMembersGrows
    <2>3. raced \subseteq raced' /\ (~alone[t] => k \in raced')
      BY <1>5 DEF AddMembers
    <2>4. ASSUME alone[t], NEW i \in 1..Len(chats), i # k, ~chats[i].is_group
          PROVE  chats[i].members # {req[t].from, req[t].to}
      <3>1. PrivateChats(req[t]) = {}
        BY <1>5, <2>4, <1>t DEF Solo
      <3>. QED  BY <2>4, <3>1 DEF PrivateChats
    <2>5. OneChatPerPair'
      <3> SUFFICES ASSUME NEW i \in 1..Len(chats), NEW j \in 1..Len(chats), i # j,
                          ~chats'[i].is_group, ~chats'[j].is_group,
                          chats'[i].members = chats'[j].members, chats'[i].members # {}
                   PROVE  i \in raced' \/ j \in raced'
        BY <2>2 DEF OneChatPerPair
      <3>1. CASE i # k /\ j # k
        BY <3>1, <2>2, <2>3, <1>t DEF OneChatPerPair
      <3>2. CASE i = k
        <4>1. j # k /\ chats'[j] = chats[j] /\ chats[j].members = {req[t].from, req[t].to}
          BY <3>2, <2>2
        <4>. QED  BY <3>2, <4>1, <2>3, <2>4
      <3>3. CASE j = k
        <4>1. i # k /\ chats'[i] = chats[i] /\ chats[i].members = {req[t].from, req[t].to}
          BY <3>3, <2>2
        <4>. QED  BY <3>3, <4>1, <2>3, <2>4
      <3>. QED  BY <3>1, <3>2, <3>3
    <2>6. /\ \A s \in Tasks \ {t} : pc'[s] = pc[s]
          /\ pc'[t] \in {"insert_message", "idle"}
      BY <1>5, <1>t
    <2>7. Solo'
      <3> SUFFICES ASSUME NEW s \in Tasks, alone[s], pc'[s] # "idle"
                   PROVE  /\ \A q \in Tasks \ {s} : pc'[q] = "idle"
                          /\ pc'[s] \in {"insert_chat", "insert_members"} => PrivateChats(req[s])' = {}
        BY <1>5 DEF Solo
      <3>1. s = t
        BY <1>5, <2>6, <1>t DEF Solo
      <3>. QED  BY <1>5, <2>6, <3>1, <1>t DEF Solo
    <2>. QED  BY <2>5, <2>7 DEF PairInv
  <1>6. ASSUME NEW t \in Tasks, InsertChat(t) PROVE PairInv'
    BY <1>4, <1>6 DEF InsertChat
  <1>7. ASSUME NEW t \in Tasks, InsertMembers(t) PROVE PairInv'
    <2>1. CASE MembersValid(req[t])
      BY <1>5, <1>7, <2>1 DEF InsertMembers
    <2>2. CASE ~MembersValid(req[t])
      BY <1>1, <1>7, <2>2 DEF InsertMembers
    <2>. QED  BY <2>1, <2>2
  <1>8. ASSUME NEW t \in Tasks, InsertMessage(t) PROVE PairInv'
    BY <1>1, <1>8 DEF InsertMessage
  <1>9. ASSUME NEW t \in Tasks, StatementFails(t) PROVE PairInv'
    <2>1. pc' = [pc EXCEPT ![t] = "idle"] /\ UNCHANGED <<req, alone>>
      BY <1>9 DEF StatementFails
    <2>2. CASE UNCHANGED <<chats, raced>>
      BY <1>1, <2>1, <2>2
    <2>3. CASE pc[t] = "insert_chat" /\ AddChat /\ UNCHANGED raced
      BY <1>4, <2>1, <2>3
    <2>4. CASE pc[t] = "insert_members" /\ MembersValid(req[t]) /\ AddMembers(t)
      BY <1>5, <2>1, <2>4
    <2>. QED  BY <1>9, <2>2, <2>3, <2>4 DEF StatementFails
  <1>10. ASSUME UNCHANGED vars PROVE PairInv'
    <2>1. UNCHANGED <<chats, req, pc, alone, raced>>
      BY <1>10 DEF vars
    <2>. QED  BY <2>1, <1>t DEF PairInv, Solo, OneChatPerPair, PrivateChats
  <1>. QED
    BY <1>2, <1>3, <1>6, <1>7, <1>8, <1>9, <1>10 DEF Next

\* A second private chat of two users always comes from overlapping requests,
\* for any number of requests, users and failing statements.
THEOREM SecondChatIsRaced == Spec => []OneChatPerPair
  <1>1. Init => PairInv
    BY PairInit
  <1>2. ChatInv /\ PairInv /\ [Next]_vars => PairInv'
    BY PairInvStep
  <1>3. PairInv => OneChatPerPair
    BY DEF PairInv
  <1>. QED  BY ChatInvariant, <1>1, <1>2, <1>3, PTL DEF Spec
=============================================================================
