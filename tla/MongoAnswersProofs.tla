------------------------- MODULE MongoAnswersProofs -------------------------
(***************************************************************************)
(* Proof of what mongo-api stores and answers, for any number of           *)
(* concurrent requests, stored documents and failing calls.                *)
(***************************************************************************)
EXTENDS MongoAnswers, TLAPS

\* The fields a request has, by its handler.
LEMMA RequestFields ==
    ASSUME TypeOK, NEW t \in Threads
    PROVE  /\ Is(t, {"create_message"}) => request[t].from_id \in UserIds /\ request[t].to_id \in UserIds
           /\ Is(t, {"update_user", "delete_user"}) => request[t].id \in UserIds
           /\ Is(t, {"mark_message_as_read", "delete_message"}) => request[t].id \in MessageIds
<1>1. request[t] \in Request \cup {NoRequest}
  BY DEF TypeOK
<1>2. \A r \in Request \cup {NoRequest} :
          /\ r.handler = "create_message" => r.from_id \in UserIds /\ r.to_id \in UserIds
          /\ r.handler \in {"update_user", "delete_user"} => r.id \in UserIds
          /\ r.handler \in {"mark_message_as_read", "delete_message"} => r.id \in MessageIds
  BY DEF Request, NoRequest
<1>. QED
  BY <1>1, <1>2 DEF Is

LEMMA VictimType ==
    ASSUME TypeOK, NEW t \in Threads, Is(t, Deletes)
    PROVE  Victim(t) \in ({"users"} \X UserIds) \cup ({"messages"} \X MessageIds)
  BY RequestFields DEF Victim, Deletes, Is

LEMMA MessageFields ==
    ASSUME TypeOK, NEW m \in Stored
    PROVE  /\ m \in MessageIds /\ messages[m] \in Message
           /\ messages[m].from_user_id \in UserIds /\ messages[m].to_user_id \in UserIds
  BY DEF TypeOK, Stored, Message

-----------------------------------------------------------------------------
\* A step that neither stores nor deletes anything, nor touches the request of
\* a thread that has made its write.
LEMMA NothingWritten ==
    ASSUME TypeOK, StoreInv, UNCHANGED <<users, messages, effect, removed>>,
           \A s \in effect : request'[s] = request[s]
    PROVE  OwnDocument' /\ VictimsGone' /\ WritesKept' /\ PartiesExisted'
<1>1. \A d : Exists(d)' = Exists(d)
  BY DEF Exists, Stored
<1>2. \A s \in effect : Victim(s)' = Victim(s) /\ \A h : Is(s, h)' = Is(s, h)
  BY DEF Is, Victim
<1>3. OwnDocument'
  BY <1>2 DEF StoreInv, OwnDocument, Existed, Stored
<1>4. VictimsGone'
  BY <1>1, <1>2 DEF StoreInv, VictimsGone
<1>5. WritesKept'
  <2>. SUFFICES ASSUME NEW s \in effect PROVE WritesKept!(s)'
    BY DEF WritesKept
  <2>. QED
    BY <1>2 DEF StoreInv, WritesKept, Stored
<1>6. PartiesExisted'
  BY DEF StoreInv, PartiesExisted, Stored
<1>. QED
  BY <1>3, <1>4, <1>5, <1>6

\* What a write leaves to show: the documents of the others stay, and what
\* existed still exists or is known to have been deleted.
LEMMA WriteTypes ==
    ASSUME TypeOK, StoreInv, NEW t \in Threads, Write(t)
    PROVE  /\ users' \subseteq UserIds
           /\ messages' \in [MessageIds -> Message \cup {NoDoc}]
           /\ raced' \subseteq Threads
           /\ removed' \subseteq ({"users"} \X UserIds) \cup ({"messages"} \X MessageIds)
<1>1. CASE pc[t] = "call" /\ Is(t, {"create_user"}) /\ request[t].valid /\ InsertUser(t)
  BY <1>1 DEF InsertUser, TypeOK, UserIds
<1>2. CASE UNCHANGED <<users, messages, raced, removed>>
  BY <1>2 DEF TypeOK
<1>3. CASE pc[t] = "insert" /\ InsertMessage(t)
  <2>1. request[t].from_id \in UserIds /\ request[t].to_id \in UserIds
    BY <1>3, RequestFields DEF StoreInv, HandlerFits
  <2>. QED
    BY <1>3, <2>1 DEF InsertMessage, TypeOK, Message, MessageIds
<1>4. CASE pc[t] = "call" /\ Is(t, {"mark_message_as_read"}) /\ request[t].id \in Stored /\ SetRead(t)
  <2>1. messages[request[t].id] \in Message
    BY <1>4, MessageFields
  <2>. QED
    BY <1>4, <2>1 DEF SetRead, TypeOK, Message
<1>5. CASE pc[t] = "call" /\ Is(t, Deletes) /\ Remove(Victim(t))
  <2>1. Victim(t) \in ({"users"} \X UserIds) \cup ({"messages"} \X MessageIds)
    BY <1>5, VictimType
  <2>. QED
    BY <1>5, <2>1 DEF Remove, TypeOK
<1>. QED
  BY <1>1, <1>2, <1>3, <1>4, <1>5 DEF Write, Deletes

\* What existed exists or is deleted, whatever is written.
LEMMA ExistedStays ==
    ASSUME TypeOK, NEW t \in Threads, Write(t), NEW u \in UserIds, Existed(u)
    PROVE  Existed(u)'
<1>. DEFINE d == Victim(t)
<1>1. CASE Remove(d)
  <2>1. CASE u \in users /\ d = <<"users", u>>
    BY <1>1, <2>1 DEF Remove, Existed
  <2>2. CASE <<"users", u>> \in removed
    BY <1>1, <2>2 DEF Remove, Existed
  <2>3. CASE u \in users /\ d # <<"users", u>>
    <3>1. d[1] = "users" => d[2] # u
      BY <2>3 DEF Victim
    <3>. HIDE DEF d
    <3>2. u \in users'
      BY <1>1, <2>3, <3>1 DEF Remove
    <3>. QED
      BY <3>2 DEF Existed
  <2>. QED
    BY <2>1, <2>2, <2>3 DEF Existed
<1>2. CASE users \subseteq users' /\ removed' = removed
  BY <1>2 DEF Existed
<1>. QED
  BY <1>1, <1>2 DEF Write, InsertUser, InsertMessage, SetRead

\* What a write does to the stored messages.
LEMMA WriteMessages ==
    ASSUME TypeOK, StoreInv, NEW t \in Threads, Write(t)
    PROVE  /\ \A m \in MessageIds :
                 \/ messages'[m] = messages[m]
                 \/ pc[t] = "insert" /\ m = t
                 \/ /\ Is(t, {"mark_message_as_read"}) /\ m = request[t].id /\ m \in Stored /\ m \in Stored'
                    /\ messages'[m].from_user_id = messages[m].from_user_id
                    /\ messages'[m].to_user_id = messages[m].to_user_id
                    /\ messages'[m].is_read = TRUE
                 \/ Is(t, Deletes) /\ Victim(t) = <<"messages", m>> /\ m \notin Stored'
           /\ pc[t] = "insert" =>
                 /\ t \in Stored'
                 /\ messages'[t].from_user_id = request[t].from_id
                 /\ messages'[t].to_user_id = request[t].to_id
<1>1. CASE UNCHANGED messages /\ pc[t] # "insert"
  BY <1>1
<1>2. CASE pc[t] = "insert" /\ InsertMessage(t)
  <2>1. request[t].from_id \in UserIds /\ request[t].to_id \in UserIds
    BY <1>2, RequestFields DEF StoreInv, HandlerFits
  <2>2. messages'[t] = [from_user_id |-> request[t].from_id, to_user_id |-> request[t].to_id, is_read |-> FALSE]
    BY <1>2 DEF InsertMessage, TypeOK, MessageIds
  <2>3. messages'[t] \in Message
    BY <2>1, <2>2 DEF Message
  <2>4. messages'[t] # NoDoc
    BY <2>3, AnswersAssumption
  <2>. QED
    BY <1>2, <2>2, <2>4 DEF InsertMessage, TypeOK, MessageIds, Stored
<1>3. CASE pc[t] = "call" /\ Is(t, {"mark_message_as_read"}) /\ request[t].id \in Stored /\ SetRead(t)
  <2>. DEFINE n == request[t].id
  <2>1. messages[n] \in Message /\ n \in MessageIds
    BY <1>3, MessageFields
  <2>2. messages' = [messages EXCEPT ![n] = [messages[n] EXCEPT !.is_read = TRUE]]
    BY <1>3, Zenon DEF SetRead
  <2>3. \A r \in Message : /\ [r EXCEPT !.is_read = TRUE] \in Message
                           /\ [r EXCEPT !.is_read = TRUE].from_user_id = r.from_user_id
                           /\ [r EXCEPT !.is_read = TRUE].to_user_id = r.to_user_id
                           /\ [r EXCEPT !.is_read = TRUE].is_read = TRUE
    BY DEF Message
  <2>. DEFINE new == [messages[n] EXCEPT !.is_read = TRUE]
  <2>4. /\ new \in Message /\ new.from_user_id = messages[n].from_user_id
        /\ new.to_user_id = messages[n].to_user_id /\ new.is_read = TRUE
    BY <2>1, <2>3
  <2>. HIDE DEF n, new
  <2>5. messages'[n] = new /\ \A m \in MessageIds : m # n => messages'[m] = messages[m]
    BY <2>1, <2>2 DEF TypeOK, new
  <2>6. n \in Stored'
    BY <2>1, <2>4, <2>5, AnswersAssumption DEF Stored
  <2>. QED
    BY <1>3, <2>1, <2>4, <2>5, <2>6 DEF n
<1>4. CASE pc[t] = "call" /\ Is(t, Deletes) /\ Remove(Victim(t))
  <2>1. CASE Victim(t)[1] = "messages"
    <3>1. Victim(t) = <<"messages", request[t].id>> /\ request[t].id \in MessageIds
      BY <1>4, <2>1, RequestFields DEF Victim, Is, Deletes
    <3>. QED
      BY <1>4, <3>1 DEF Remove, TypeOK, Stored
  <2>2. CASE Victim(t)[1] # "messages"
    BY <1>4, <2>2 DEF Remove
  <2>. QED
    BY <2>1, <2>2
<1>. QED
  BY <1>1, <1>2, <1>3, <1>4 DEF Write, Deletes, InsertUser

\* What a write does to the stored users and to the history of deletions.
LEMMA WriteUsers ==
    ASSUME TypeOK, StoreInv, NEW t \in Threads, Write(t), UNCHANGED request
    PROVE  /\ Is(t, Deletes) => removed' = removed \cup {Victim(t)} /\ Exists(Victim(t)) /\ ~Exists(Victim(t))'
           /\ ~Is(t, Deletes) => removed' = removed
           /\ \A u \in UserIds : u \in users' /\ u \notin users => u = t /\ Is(t, {"create_user"}) /\ pc[t] = "call"
<1>1. CASE InsertUser(t) /\ Is(t, {"create_user"}) /\ pc[t] = "call"
  BY <1>1 DEF InsertUser, Is, Deletes
<1>2. CASE UNCHANGED <<users, removed>> /\ ~Is(t, Deletes)
  BY <1>2
<1>3. CASE Is(t, Deletes) /\ Remove(Victim(t)) /\ Exists(Victim(t))
  <2>1. ~Exists(Victim(t))'
    <3>. DEFINE d == Victim(t)
    <3>1. d' = d /\ d \in ({"users"} \X UserIds) \cup ({"messages"} \X MessageIds)
      BY <1>3, VictimType DEF Victim, Is
    <3>. HIDE DEF d
    <3>2. CASE d[1] = "users"
      BY <1>3, <3>1, <3>2 DEF Remove, Exists, d
    <3>3. CASE d[1] = "messages"
      <4>1. d[2] \in MessageIds
        BY <3>1, <3>3
      <4>2. messages'[d[2]] = NoDoc
        BY <1>3, <3>3, <4>1 DEF Remove, TypeOK, d
      <4>. QED
        BY <3>1, <3>3, <4>2 DEF Exists, Stored, d
    <3>. QED
      BY <3>1, <3>2, <3>3
  <2>. QED
    BY <1>3, <2>1 DEF Remove
<1>. QED
  BY <1>1, <1>2, <1>3 DEF Write, Is, Deletes, InsertMessage, SetRead, StoreInv, HandlerFits

\* A thread writes once.
LEMMA WriterIsNew ==
    ASSUME StoreInv, NEW t \in Threads, Write(t)
    PROVE  /\ t \notin effect
           /\ pc[t] \in {"call", "insert"}
           /\ pc[t] = "insert" => Is(t, {"create_message"})
           /\ pc[t] = "call" => ~Is(t, {"create_message"})
  BY DEF Write, Is, StoreInv, HandlerFits

\* The heart of the proof: a write that is carried out keeps the store in order.
LEMMA WriteKeepsStore ==
    ASSUME TypeOK, StoreInv, NEW t \in Threads, Write(t), effect' = effect \cup {t}, UNCHANGED request
    PROVE  OwnDocument' /\ VictimsGone' /\ WritesKept' /\ PartiesExisted'
<1>0. effect \subseteq Threads /\ t \notin effect
  BY WriterIsNew DEF TypeOK
<1>1. \A s : Victim(s)' = Victim(s) /\ \A h : Is(s, h)' = Is(s, h)
  BY DEF Is, Victim
<1>2. ASSUME NEW d \in removed' PROVE \/ d \in removed
                                      \/ d = Victim(t) /\ Is(t, Deletes) /\ Exists(d) /\ ~Exists(d)'
  BY <1>2, <1>1, WriteUsers
<1>3. OwnDocument'
  <2>. SUFFICES ASSUME NEW s \in Threads
                PROVE  /\ Existed(s)' => s \in effect' /\ Is(s, {"create_user"})
                       /\ s \in Stored' \/ <<"messages", s>> \in removed' =>
                             s \in effect' /\ Is(s, {"create_message"})
    BY <1>1 DEF OwnDocument
  <2>1. <<"users", s>> \in removed' => Existed(s)
    <3>1. Exists(<<"users", s>>) <=> s \in users
      BY DEF Exists
    <3>. QED
      BY <1>2, <3>1 DEF Existed
  <2>2. s \in users' => Existed(s) \/ (s = t /\ Is(t, {"create_user"}))
    <3>1. s \in UserIds
      BY DEF UserIds
    <3>2. s \in users' /\ s \notin users => s = t /\ Is(t, {"create_user"})
      BY <3>1, WriteUsers
    <3>. QED
      BY <3>2 DEF Existed
  <2>3. <<"messages", s>> \in removed' => s \in Stored \/ <<"messages", s>> \in removed
    <3>1. Exists(<<"messages", s>>) <=> s \in Stored
      BY DEF Exists
    <3>. QED
      BY <1>2, <3>1
  <2>4. s \in Stored' => s \in Stored \/ (s = t /\ Is(t, {"create_message"}))
    <3>1. s \in MessageIds
      BY DEF MessageIds
    <3>2. \/ messages'[s] = messages[s]
          \/ pc[t] = "insert" /\ s = t
          \/ s \in Stored
          \/ s \notin Stored'
      BY <3>1, WriteMessages
    <3>. QED
      BY <3>1, <3>2, WriterIsNew DEF Stored
  <2>. QED
    BY <2>1, <2>2, <2>3, <2>4 DEF StoreInv, OwnDocument, Existed
<1>4. VictimsGone'
  <2>1. ASSUME NEW d \in removed' PROVE ~Exists(d)'
    <3>1. CASE d \in removed
      <4>1. ~Exists(d) /\ d \in ({"users"} \X UserIds) \cup ({"messages"} \X MessageIds)
        BY <3>1 DEF StoreInv, VictimsGone, TypeOK
      <4>2. CASE d[1] = "users"
        <5>1. d = <<"users", d[2]>> /\ d[2] \in UserIds
          BY <4>1, <4>2
        <5>2. ~(d[2] = t /\ pc[t] = "call")
          BY <1>0, <3>1, <5>1 DEF StoreInv, OwnDocument, Existed
        <5>. QED
          BY <4>1, <4>2, <5>1, <5>2, WriteUsers DEF Exists
      <4>3. CASE d[1] = "messages"
        <5>1. d = <<"messages", d[2]>> /\ d[2] \in MessageIds
          BY <4>1, <4>3
        <5>2. d[2] # t
          BY <1>0, <3>1, <5>1 DEF StoreInv, OwnDocument
        <5>3. d[2] \notin Stored
          BY <4>1, <4>3 DEF Exists
        <5>4. d[2] \notin Stored'
          BY <5>1, <5>2, <5>3, WriteMessages DEF Stored
        <5>. QED
          BY <5>1, <5>4 DEF Exists
      <4>. QED
        BY <4>1, <4>2, <4>3
    <3>. QED
      BY <1>2, <3>1
  <2>2. ASSUME NEW d \in removed' PROVE \E s \in effect' : Is(s, Deletes) /\ Victim(s) = d
    BY <1>2 DEF StoreInv, VictimsGone
  <2>3. ASSUME NEW s \in effect', Is(s, Deletes) PROVE Victim(s) \in removed'
    BY <2>3, WriteUsers DEF StoreInv, VictimsGone
  <2>4. ASSUME NEW s \in effect, Is(t, Deletes), Is(s, Deletes) PROVE Victim(s) # Victim(t)
    <3>1. ~Exists(Victim(s)) /\ Exists(Victim(t))
      BY <2>4, WriteUsers DEF StoreInv, VictimsGone
    <3>. QED
      BY <3>1
  <2>5. ASSUME NEW r \in effect', NEW s \in effect', Is(r, Deletes), Is(s, Deletes), Victim(r) = Victim(s)
        PROVE  r = s
    BY <2>4, <2>5 DEF StoreInv, VictimsGone
  <2>. QED
    BY <1>1, <2>1, <2>2, <2>3, <2>5 DEF VictimsGone
<1>5. ASSUME NEW m \in MessageIds, m \in Stored, <<"messages", m>> \notin removed'
      PROVE  /\ m \in Stored'
             /\ messages'[m].from_user_id = messages[m].from_user_id
             /\ messages'[m].to_user_id = messages[m].to_user_id
             /\ messages[m].is_read = TRUE => messages'[m].is_read = TRUE
  <2>1. ~(pc[t] = "insert" /\ m = t)
    BY <1>0, <1>5 DEF StoreInv, OwnDocument
  <2>2. ~(Is(t, Deletes) /\ Victim(t) = <<"messages", m>>)
    BY <1>5, WriteUsers
  <2>. QED
    BY <1>5, <2>1, <2>2, WriteMessages DEF Stored
<1>6. WritesKept'
  <2>1. ASSUME NEW s \in effect', Is(s, {"create_message"}), <<"messages", s>> \notin removed'
        PROVE  /\ s \in Stored'
               /\ messages'[s].from_user_id = request[s].from_id
               /\ messages'[s].to_user_id = request[s].to_id
    <3>1. CASE s = t
      <4>1. pc[t] = "insert"
        BY <2>1, <3>1, WriterIsNew
      <4>. QED
        BY <3>1, <4>1, WriteMessages
    <3>2. CASE s # t
      <4>1. s \in effect /\ s \in MessageIds /\ <<"messages", s>> \notin removed
        BY <1>0, <2>1, <3>2, WriteUsers DEF MessageIds
      <4>2. /\ s \in Stored /\ messages[s].from_user_id = request[s].from_id
            /\ messages[s].to_user_id = request[s].to_id
        BY <2>1, <4>1 DEF StoreInv, WritesKept
      <4>. QED
        BY <1>5, <2>1, <4>1, <4>2
    <3>. QED
      BY <3>1, <3>2
  <2>2. ASSUME NEW s \in effect', Is(s, {"mark_message_as_read"}),
               <<"messages", request[s].id>> \notin removed'
        PROVE  request[s].id \in Stored' /\ messages'[request[s].id].is_read = TRUE
    <3>1. CASE s = t
      <4>1. pc[t] = "call" /\ request[t].id \in Stored /\ SetRead(t)
        BY <2>2, <3>1, WriterIsNew DEF Write, Is
      <4>2. request[t].id \in MessageIds /\ messages[request[t].id] \in Message
        BY <4>1, MessageFields
      <4>. DEFINE n == request[t].id
                  new == [messages[n] EXCEPT !.is_read = TRUE]
      <4>3. new.is_read = TRUE
        BY <4>2 DEF Message
      <4>4. messages'[n].is_read = TRUE
        <5>1. messages' = [messages EXCEPT ![n] = new]
          BY <4>1, Zenon DEF SetRead
        <5>. HIDE DEF n, new
        <5>2. messages'[n] = new
          BY <4>2, <5>1 DEF TypeOK, n
        <5>. QED
          BY <4>3, <5>2
      <4>. QED
        BY <1>5, <2>2, <3>1, <4>1, <4>2, <4>4
    <3>2. CASE s # t
      <4>1. s \in effect /\ request[s].id \in MessageIds /\ <<"messages", request[s].id>> \notin removed
        BY <1>0, <2>2, <3>2, WriteUsers, RequestFields DEF Is
      <4>2. request[s].id \in Stored /\ messages[request[s].id].is_read = TRUE
        BY <2>2, <4>1 DEF StoreInv, WritesKept
      <4>. QED
        BY <1>5, <2>2, <4>1, <4>2
    <3>. QED
      BY <3>1, <3>2
  <2>3. request' = request
    OBVIOUS
  <2>. QED
    BY <1>1, <2>1, <2>2, <2>3 DEF WritesKept
<1>7. PartiesExisted'
  <2>. SUFFICES ASSUME NEW m \in Stored', NEW u \in {messages'[m].from_user_id, messages'[m].to_user_id}
                PROVE  u \in users' \/ <<"users", u>> \in removed'
    BY DEF PartiesExisted
  <2>1. m \in MessageIds
    BY DEF Stored
  <2>2. CASE pc[t] = "insert" /\ m = t
    <3>1. u \in {request[t].from_id, request[t].to_id}
      BY <2>2, WriteMessages
    <3>2. u \in UserIds /\ Existed(u)
      BY <2>2, <3>1, RequestFields DEF StoreInv, HandlerFits, LookedUp
    <3>. QED
      BY <3>2, ExistedStays DEF Existed
  <2>3. CASE ~(pc[t] = "insert" /\ m = t)
    <3>1. m \in Stored /\ u \in {messages[m].from_user_id, messages[m].to_user_id}
      BY <2>1, <2>3, WriteMessages DEF Stored
    <3>2. u \in UserIds /\ Existed(u)
      BY <3>1, MessageFields DEF StoreInv, PartiesExisted, Existed
    <3>. QED
      BY <3>2, ExistedStays DEF Existed
  <2>. QED
    BY <2>2, <2>3
<1>. QED
  BY <1>3, <1>4, <1>6, <1>7

-----------------------------------------------------------------------------
LEMMA InitAnswers == Init => AnswersInv
<1>. SUFFICES ASSUME Init PROVE AnswersInv
  OBVIOUS
<1>1. PICK seed \in [SeedMessages -> Message] :
          /\ \A m \in SeedMessages : {seed[m].from_user_id, seed[m].to_user_id} \subseteq SeedUsers
          /\ messages = [m \in MessageIds |-> IF m \in SeedMessages THEN seed[m] ELSE NoDoc]
  BY DEF Init
<1>2. TypeOK
  BY <1>1, AnswersAssumption DEF Init, TypeOK, UserIds, MessageIds
<1>3. \A m \in Stored : m \in SeedMessages /\ messages[m] = seed[m]
  BY <1>1 DEF Stored
<1>4. PartiesExisted
  <2>. SUFFICES ASSUME NEW m \in Stored, NEW u \in {messages[m].from_user_id, messages[m].to_user_id}
                PROVE  u \in users
    BY DEF PartiesExisted
  <2>1. u \in {seed[m].from_user_id, seed[m].to_user_id} /\ m \in SeedMessages
    BY <1>3
  <2>2. u \in SeedUsers
    BY <1>1, <2>1
  <2>. QED
    BY <2>2 DEF Init
<1>5. OwnDocument
  BY <1>3, AnswersAssumption DEF Init, OwnDocument, Existed
<1>6. HandlerFits /\ VictimsGone /\ WritesKept /\ LookedUp
  BY DEF Init, HandlerFits, VictimsGone, WritesKept, LookedUp
<1>7. RacedExact /\ RefusedHasNoEffect /\ ErrorIsExplained
  BY DEF Init, RacedExact, RefusedHasNoEffect, ErrorIsExplained
<1>. QED
  BY <1>2, <1>4, <1>5, <1>6, <1>7 DEF AnswersInv, StoreInv

\* The answer of a thread that has not written: nothing it could have stored
\* needs an explanation, unless it is a 500.
LEMMA Refusal ==
    ASSUME AnswersInv, NEW t \in Threads, t \notin effect, NEW code \in {200, 400, 404, 429, 500},
           Respond(t, code),
           UNCHANGED <<users, messages, request, effect, failed, raced, removed, faults>>,
           pc[t] \in {"call", "receiver"}, code # 200,
           code = 500 => Is(t, {"update_user"}) /\ ~request[t].valid
    PROVE  AnswersInv'
<1>. USE DEF AnswersInv, Respond, Goto
<1>1. TypeOK'
  BY DEF TypeOK
<1>2. \A s : \A h : Is(s, h)' = Is(s, h)
  BY DEF Is
<1>3. \A s : Target(s)' = Target(s)
  BY DEF Target, Is
<1>4. \A d : Exists(d)' = Exists(d)
  BY DEF Exists, Stored
<1>5. \A s \in Threads : s # t => pc'[s] = pc[s] /\ answer'[s] = answer[s]
  BY DEF TypeOK
<1>6. pc'[t] = "done" /\ answer'[t] = code /\ t \notin raced
  BY DEF TypeOK, RacedExact
<1>7. HandlerFits'
  BY <1>2, <1>5, <1>6 DEF StoreInv, HandlerFits
<1>8. LookedUp'
  BY <1>5, <1>6 DEF StoreInv, LookedUp, Existed
<1>9. OwnDocument' /\ VictimsGone' /\ WritesKept' /\ PartiesExisted'
  BY NothingWritten
<1>10. RacedExact'
  BY <1>3, <1>4, <1>5, <1>6 DEF RacedExact
<1>11. RefusedHasNoEffect'
  BY <1>2, <1>5 DEF RefusedHasNoEffect, TypeOK
<1>12. ErrorIsExplained'
  BY <1>2, <1>5, <1>6 DEF ErrorIsExplained
<1>. QED
  BY <1>1, <1>7, <1>8, <1>9, <1>10, <1>11, <1>12 DEF StoreInv

LEMMA ReceiveStep ==
    ASSUME AnswersInv, NEW t \in Threads, NEW r \in Request, Receive(t, r)
    PROVE  AnswersInv'
<1>. USE DEF AnswersInv, Receive, Goto
<1>1. TypeOK'
  BY DEF TypeOK
<1>2. t \notin effect /\ t \notin raced
  BY DEF StoreInv, HandlerFits, RacedExact
<1>3. \A s \in Threads : s # t => pc'[s] = pc[s] /\ request'[s] = request[s]
  BY DEF TypeOK
<1>4. \A s \in Threads : s # t => Target(s)' = Target(s) /\ \A h : Is(s, h)' = Is(s, h)
  BY <1>3 DEF Target, Is
<1>5. \A d : Exists(d)' = Exists(d)
  BY DEF Exists, Stored
<1>6. pc'[t] = "call" /\ answer'[t] = answer[t]
  BY DEF TypeOK
<1>7. HandlerFits'
  BY <1>2, <1>3, <1>4, <1>6 DEF StoreInv, HandlerFits
<1>8. LookedUp'
  BY <1>3, <1>6 DEF StoreInv, LookedUp, Existed
<1>9. OwnDocument' /\ VictimsGone' /\ WritesKept' /\ PartiesExisted'
  BY <1>2, <1>3, NothingWritten DEF TypeOK
<1>10. RacedExact'
  BY <1>2, <1>3, <1>4, <1>5, <1>6 DEF RacedExact
<1>11. RefusedHasNoEffect'
  BY <1>2, <1>4 DEF RefusedHasNoEffect, TypeOK
<1>12. ErrorIsExplained'
  BY <1>3, <1>4, <1>6 DEF ErrorIsExplained
<1>. QED
  BY <1>1, <1>7, <1>8, <1>9, <1>10, <1>11, <1>12 DEF StoreInv

LEMMA FindUserStep ==
    ASSUME AnswersInv, NEW t \in Threads, FindUser(t)
    PROVE  AnswersInv'
<1>. USE DEF AnswersInv, FindUser, Goto
<1>0. t \notin effect /\ t \notin raced
  BY DEF StoreInv, HandlerFits, RacedExact
<1>1. CASE Respond(t, 404)
  BY <1>0, <1>1, Refusal
<1>2. CASE Goto(t, "receiver") /\ UNCHANGED answer /\ request[t].from_id \in users
  <2>1. TypeOK'
    BY <1>2 DEF TypeOK
  <2>2. pc'[t] = "receiver" /\ \A s \in Threads : s # t => pc'[s] = pc[s]
    BY <1>2 DEF TypeOK
  <2>3. LookedUp'
    BY <1>2, <2>2 DEF StoreInv, LookedUp, Existed
  <2>4. HandlerFits'
    BY <1>0, <1>2, <2>2 DEF StoreInv, HandlerFits, Is
  <2>5. OwnDocument' /\ VictimsGone' /\ WritesKept' /\ PartiesExisted'
    BY NothingWritten
  <2>6. RacedExact' /\ RefusedHasNoEffect' /\ ErrorIsExplained'
    BY <1>2, <2>2 DEF RacedExact, RefusedHasNoEffect, ErrorIsExplained, Exists, Stored, Target, Is
  <2>. QED
    BY <2>1, <2>3, <2>4, <2>5, <2>6 DEF StoreInv
<1>3. CASE Goto(t, "insert") /\ UNCHANGED answer /\ request[t].to_id \in users /\ pc[t] = "receiver"
  <2>1. TypeOK'
    BY <1>3 DEF TypeOK
  <2>2. pc'[t] = "insert" /\ \A s \in Threads : s # t => pc'[s] = pc[s]
    BY <1>3 DEF TypeOK
  <2>3. LookedUp'
    BY <1>3, <2>2 DEF StoreInv, LookedUp, Existed
  <2>4. HandlerFits'
    BY <1>0, <1>3, <2>2 DEF StoreInv, HandlerFits, Is
  <2>5. OwnDocument' /\ VictimsGone' /\ WritesKept' /\ PartiesExisted'
    BY NothingWritten
  <2>6. RacedExact' /\ RefusedHasNoEffect' /\ ErrorIsExplained'
    BY <1>3, <2>2 DEF RacedExact, RefusedHasNoEffect, ErrorIsExplained, Exists, Stored, Target, Is
  <2>. QED
    BY <2>1, <2>3, <2>4, <2>5, <2>6 DEF StoreInv
<1>. QED
  BY <1>1, <1>2, <1>3

LEMMA TooManyRequestsStep ==
    ASSUME AnswersInv, NEW t \in Threads, TooManyRequests(t)
    PROVE  AnswersInv'
  BY Refusal DEF TooManyRequests, AnswersInv, StoreInv, HandlerFits

LEMMA NotFoundStep ==
    ASSUME AnswersInv, NEW t \in Threads, NotFound(t)
    PROVE  AnswersInv'
  BY Refusal DEF NotFound, AnswersInv, StoreInv, HandlerFits

LEMMA InvalidStep ==
    ASSUME AnswersInv, NEW t \in Threads, Invalid(t)
    PROVE  AnswersInv'
<1>1. t \notin effect
  BY DEF Invalid, AnswersInv, StoreInv, HandlerFits
<1>2. CASE Respond(t, 400)
  BY <1>1, <1>2, Refusal DEF Invalid
<1>3. CASE Is(t, {"update_user"}) /\ ~request[t].valid /\ Respond(t, 500)
  BY <1>1, <1>3, Refusal DEF Invalid
<1>. QED
  BY <1>2, <1>3 DEF Invalid

LEMMA RereadStep ==
    ASSUME AnswersInv, NEW t \in Threads, Reread(t)
    PROVE  AnswersInv'
<1>. USE DEF AnswersInv, Reread, Respond, Goto
<1>1. TypeOK'
  BY DEF TypeOK
<1>2. \A s : Target(s)' = Target(s) /\ \A h : Is(s, h)' = Is(s, h)
  BY DEF Target, Is
<1>3. \A d : Exists(d)' = Exists(d)
  BY DEF Exists, Stored
<1>4. \A s \in Threads : s # t => pc'[s] = pc[s] /\ answer'[s] = answer[s]
  BY DEF TypeOK
<1>5. /\ pc'[t] = "done" /\ t \in effect
      /\ answer'[t] = IF Exists(Target(t)) THEN 200 ELSE 500
  BY DEF TypeOK, StoreInv, HandlerFits
<1>6. t \in raced <=> ~Exists(Target(t))
  BY DEF RacedExact
<1>7. HandlerFits'
  BY <1>2, <1>4, <1>5 DEF StoreInv, HandlerFits
<1>8. LookedUp'
  BY <1>4, <1>5 DEF StoreInv, LookedUp, Existed
<1>9. OwnDocument' /\ VictimsGone' /\ WritesKept' /\ PartiesExisted'
  BY NothingWritten
<1>10. RacedExact'
  BY <1>2, <1>3, <1>4, <1>5 DEF RacedExact
<1>11. RefusedHasNoEffect'
  BY <1>2, <1>4, <1>5 DEF RefusedHasNoEffect, TypeOK
<1>12. ErrorIsExplained'
  BY <1>2, <1>4, <1>5, <1>6 DEF ErrorIsExplained
<1>. QED
  BY <1>1, <1>7, <1>8, <1>9, <1>10, <1>11, <1>12 DEF StoreInv

\* What a write leaves of the documents that others will read again ...
LEMMA OthersTargets ==
    ASSUME TypeOK, StoreInv, NEW t \in Threads, Write(t), UNCHANGED request,
           NEW d \in ({"users"} \X UserIds) \cup ({"messages"} \X MessageIds), Exists(d),
           Is(t, Deletes) => Victim(t) # d
    PROVE  Exists(d)'
<1>1. CASE d[1] = "users"
  <2>1. d = <<"users", d[2]>> /\ d[2] \in users
    BY <1>1 DEF Exists
  <2>2. d[2] \in users'
    <3>1. CASE Is(t, Deletes) /\ Remove(Victim(t))
      <4>1. Victim(t)[1] = "users" => Victim(t)[2] # d[2]
        BY <2>1, <3>1 DEF Victim
      <4>. QED
        BY <2>1, <3>1, <4>1 DEF Remove
    <3>2. CASE users \subseteq users'
      BY <2>1, <3>2
    <3>. QED
      BY <3>1, <3>2 DEF Write, Deletes, InsertUser, InsertMessage, SetRead
  <2>. QED
    BY <1>1, <2>2 DEF Exists
<1>2. CASE d[1] = "messages"
  <2>1. d = <<"messages", d[2]>> /\ d[2] \in Stored /\ d[2] \in MessageIds
    BY <1>2 DEF Exists
  <2>2. /\ \/ messages'[d[2]] = messages[d[2]]
           \/ pc[t] = "insert" /\ d[2] = t
           \/ d[2] \in Stored'
        /\ pc[t] = "insert" => t \in Stored'
    <3>1. PICK m \in MessageIds : m = d[2] /\ d = <<"messages", m>>
      BY <2>1
    <3>2. /\ \/ messages'[m] = messages[m]
             \/ pc[t] = "insert" /\ m = t
             \/ m \in Stored'
             \/ Is(t, Deletes) /\ Victim(t) = <<"messages", m>>
          /\ pc[t] = "insert" => t \in Stored'
      BY WriteMessages
    <3>. QED
      BY <3>1, <3>2
  <2>3. d[2] \in Stored'
    BY <2>1, <2>2 DEF Stored
  <2>. QED
    BY <1>2, <2>3 DEF Exists
<1>. QED
  BY <1>1, <1>2

\* ... and of its own.
LEMMA OwnTarget ==
    ASSUME TypeOK, StoreInv, NEW t \in Threads, Write(t), UNCHANGED request, ~Is(t, Deletes)
    PROVE  Is(t, Rereads) /\ Exists(Target(t))'
<1>0. Target(t)' = Target(t)
  BY DEF Target, Is
<1>1. CASE Is(t, {"create_user"}) /\ InsertUser(t)
  <2>1. Target(t) = <<"users", t>> /\ t \in users'
    BY <1>1 DEF Target, Is, InsertUser
  <2>. QED
    BY <1>0, <1>1, <2>1 DEF Exists, Is, Rereads
<1>2. CASE Is(t, {"update_user"}) /\ request[t].id \in users /\ UNCHANGED <<users, messages, raced, removed>>
  <2>1. Target(t) = <<"users", request[t].id>>
    BY <1>2 DEF Target, Is
  <2>. QED
    BY <1>0, <1>2, <2>1 DEF Exists, Is, Rereads
<1>3. CASE pc[t] = "insert" /\ InsertMessage(t)
  <2>1. Is(t, {"create_message"}) /\ t \in Stored'
    BY <1>3, WriterIsNew, WriteMessages
  <2>2. Target(t) = <<"messages", t>>
    BY <2>1 DEF Target, Is
  <2>. QED
    BY <1>0, <2>1, <2>2 DEF Exists, Is, Rereads
<1>4. CASE Is(t, {"mark_message_as_read"}) /\ request[t].id \in Stored /\ SetRead(t)
  <2>1. Target(t) = <<"messages", request[t].id>> /\ request[t].id \in MessageIds
    BY <1>4 DEF Target, Is, Stored
  <2>2. Exists(<<"messages", request[t].id>>)
    BY <1>4 DEF Exists
  <2>3. Exists(Target(t))'
    BY <1>0, <2>1, <2>2, OthersTargets
  <2>. QED
    BY <1>4, <2>3 DEF Is, Rereads
<1>. QED
  BY <1>1, <1>2, <1>3, <1>4 DEF Write, Deletes

LEMMA TargetType ==
    ASSUME TypeOK, NEW t \in Threads, Is(t, Rereads)
    PROVE  Target(t) \in ({"users"} \X UserIds) \cup ({"messages"} \X MessageIds)
  BY RequestFields DEF Target, Is, Rereads, UserIds, MessageIds

\* Which threads a write overtakes: exactly those whose document it deletes.
LEMMA WriteRaces ==
    ASSUME TypeOK, StoreInv, RacedExact, VictimsGone', NEW t \in Threads, Write(t), UNCHANGED request,
           NEW s \in Threads, s # t
    PROVE  /\ pc[s] = "reread" => /\ s \in raced' <=> ~Exists(Target(s))'
                                  /\ s \in raced' <=> Target(s)' \in removed'
           /\ pc[s] # "reread" => (s \in raced' <=> s \in raced)
<1>1. raced' = raced \cup {r \in Threads : pc[r] = "reread" /\ Is(t, Deletes) /\ Target(r) = Victim(t)}
  BY WriterIsNew DEF Write, InsertUser, InsertMessage, SetRead, Remove, Deletes, Is
<1>2. ASSUME pc[s] = "reread"
      PROVE  /\ s \in raced' <=> ~Exists(Target(s))'
             /\ s \in raced' <=> Target(s)' \in removed'
  <2>0. Target(s)' = Target(s) /\ Is(s, Rereads)
    BY <1>2 DEF Target, Is, StoreInv, HandlerFits
  <2>1. CASE Target(s) \in removed'
    <3>1. ~Exists(Target(s))'
      BY <2>0, <2>1 DEF VictimsGone
    <3>2. Target(s) \in removed \/ (Is(t, Deletes) /\ Target(s) = Victim(t))
      BY <2>1, WriteUsers
    <3>. QED
      BY <1>1, <1>2, <2>0, <2>1, <3>1, <3>2 DEF RacedExact
  <2>2. CASE Target(s) \notin removed'
    <3>1. Target(s) \notin removed /\ ~(Is(t, Deletes) /\ Target(s) = Victim(t))
      BY <2>2, WriteUsers
    <3>2. s \notin raced' /\ Exists(Target(s))
      BY <1>1, <1>2, <3>1 DEF RacedExact
    <3>3. Exists(Target(s))'
      BY <2>0, <3>1, <3>2, OthersTargets, TargetType
    <3>. QED
      BY <2>0, <2>2, <3>2, <3>3
  <2>. QED
    BY <2>1, <2>2
<1>. QED
  BY <1>1, <1>2

\* A write that is carried out, whatever becomes of the thread that made it.
LEMMA WriterLeaves ==
    ASSUME AnswersInv, NEW t \in Threads, Write(t), effect' = effect \cup {t}, UNCHANGED request,
           NEW label \in {"reread", "done"}, Goto(t, label),
           \A s \in Threads : s # t => answer'[s] = answer[s] /\ (s \in failed' <=> s \in failed),
           label = "reread" => answer'[t] = answer[t] /\ ~Is(t, Deletes),
           label = "done" => \/ answer'[t] = 200 /\ Is(t, Deletes)
                             \/ t \in failed' /\ answer'[t] = 500
                             \/ t \in failed' /\ answer'[t] = 400 /\ Is(t, {"create_user"})
    PROVE  StoreInv' /\ RacedExact' /\ RefusedHasNoEffect' /\ ErrorIsExplained'
<1>. USE DEF AnswersInv, Goto
<1>1. \A s : Target(s)' = Target(s) /\ \A h : Is(s, h)' = Is(s, h)
  BY DEF Target, Is
<1>2. pc'[t] = label /\ \A s \in Threads : s # t => pc'[s] = pc[s]
  BY DEF TypeOK
<1>3. OwnDocument' /\ VictimsGone' /\ WritesKept' /\ PartiesExisted'
  BY WriteKeepsStore
<1>4. t \notin effect /\ t \notin raced /\ pc[t] \in {"call", "insert"} /\ answer[t] = 0
  BY WriterIsNew DEF RacedExact, StoreInv, HandlerFits
<1>5. t \notin raced'
  BY <1>4 DEF Write, InsertUser, InsertMessage, SetRead, Remove
<1>6. HandlerFits'
  BY <1>1, <1>2, <1>4, OwnTarget DEF StoreInv, HandlerFits
<1>7. LookedUp'
  <2>. SUFFICES ASSUME NEW s \in Threads, pc'[s] \in {"receiver", "insert"}
                PROVE  /\ Existed(request[s].from_id)'
                       /\ pc'[s] = "insert" => Existed(request[s].to_id)'
    BY DEF LookedUp
  <2>1. s # t /\ pc'[s] = pc[s]
    BY <1>2
  <2>2. request[s].from_id \in UserIds /\ request[s].to_id \in UserIds
    BY <2>1, RequestFields DEF StoreInv, HandlerFits
  <2>3. Existed(request[s].from_id) /\ (pc[s] = "insert" => Existed(request[s].to_id))
    BY <2>1 DEF StoreInv, LookedUp
  <2>4. \A u \in UserIds : Existed(u) => Existed(u)'
    BY ExistedStays
  <2>. QED
    BY <2>1, <2>2, <2>3, <2>4 DEF Existed
<1>8. RacedExact'
  <2>. SUFFICES ASSUME NEW s \in Threads
                PROVE  /\ s \in raced' => s \in effect'
                       /\ pc'[s] = "reread" => /\ s \in raced' <=> ~Exists(Target(s))'
                                               /\ s \in raced' <=> Target(s)' \in removed'
    BY DEF RacedExact
  <2>1. CASE s = t
    <3>1. pc'[t] = "reread" => Exists(Target(t))'
      BY <1>2, OwnTarget
    <3>. QED
      BY <1>3, <1>5, <2>1, <3>1 DEF VictimsGone
  <2>2. CASE s # t
    <3>1. pc[s] = "reread" => s \in effect'
      BY DEF StoreInv, HandlerFits
    <3>2. s \in raced => s \in effect'
      BY DEF RacedExact
    <3>. QED
      BY <1>2, <1>3, <2>2, <3>1, <3>2, WriteRaces
  <2>. QED
    BY <2>1, <2>2
<1>9. RefusedHasNoEffect'
  BY <1>1, <1>2, <1>4 DEF RefusedHasNoEffect, TypeOK
<1>10. ErrorIsExplained'
  <2>. SUFFICES ASSUME NEW s \in Threads, pc'[s] = "done" PROVE ErrorIsExplained!(s)!2'
    BY DEF ErrorIsExplained
  <2>1. CASE s = t
    BY <1>2, <1>5, <2>1
  <2>2. CASE s # t
    <3>1. (s \in raced' <=> s \in raced) /\ pc[s] = "done" /\ answer'[s] = answer[s]
      BY <1>2, <1>3, <2>2, WriteRaces
    <3>. QED
      BY <1>1, <2>2, <3>1 DEF ErrorIsExplained
  <2>. QED
    BY <2>1, <2>2
<1>. QED
  BY <1>3, <1>6, <1>7, <1>8, <1>9, <1>10 DEF StoreInv

LEMMA WrittenStep ==
    ASSUME AnswersInv, NEW t \in Threads, Written(t)
    PROVE  AnswersInv'
<1>. USE DEF Written, Respond
<1>1. TypeOK'
  BY WriteTypes DEF AnswersInv, TypeOK, Goto
<1>2. CASE Is(t, Deletes)
  <2>1. Goto(t, "done") /\ answer' = [answer EXCEPT ![t] = 200]
    BY <1>2 DEF Deletes
  <2>2. answer'[t] = 200 /\ \A s \in Threads : s # t => answer'[s] = answer[s]
    BY <2>1 DEF AnswersInv, TypeOK
  <2>. QED
    BY <1>1, <1>2, <2>1, <2>2, WriterLeaves DEF AnswersInv
<1>3. CASE ~Is(t, Deletes)
  <2>1. Goto(t, "reread") /\ UNCHANGED answer
    BY <1>3 DEF Deletes
  <2>. QED
    BY <1>1, <1>3, <2>1, WriterLeaves DEF AnswersInv
<1>. QED
  BY <1>2, <1>3

LEMMA MongoFailsStep ==
    ASSUME AnswersInv, NEW t \in Threads, MongoFails(t)
    PROVE  AnswersInv'
<1>. USE DEF MongoFails, Respond
<1>0. faults' \in 0..MaxFaults
  BY AnswersAssumption DEF AnswersInv, TypeOK
<1>. DEFINE code == IF Is(t, {"create_user"}) /\ pc[t] = "call" THEN 400 ELSE 500
<1>1. /\ pc'[t] = "done" /\ answer'[t] = code /\ t \in failed'
      /\ \A s \in Threads : s # t => /\ pc'[s] = pc[s] /\ answer'[s] = answer[s]
                                     /\ s \in failed' <=> s \in failed
  BY DEF AnswersInv, TypeOK, Goto
<1>2. CASE Write(t) /\ effect' = effect \cup {t}
  <2>1. TypeOK'
    BY <1>0, <1>2, WriteTypes DEF AnswersInv, TypeOK, Goto
  <2>. QED
    BY <1>1, <1>2, <2>1, WriterLeaves DEF AnswersInv
<1>3. CASE UNCHANGED <<users, messages, effect, raced, removed>>
  <2>. USE DEF AnswersInv, Goto
  <2>1. TypeOK'
    BY <1>0, <1>3 DEF TypeOK
  <2>2. \A s : Target(s)' = Target(s) /\ \A h : Is(s, h)' = Is(s, h)
    BY DEF Target, Is
  <2>3. \A d : Exists(d)' = Exists(d)
    BY <1>3 DEF Exists, Stored
  <2>4. OwnDocument' /\ VictimsGone' /\ WritesKept' /\ PartiesExisted'
    BY <1>3, NothingWritten
  <2>5. HandlerFits'
    BY <1>1, <1>3, <2>2 DEF StoreInv, HandlerFits
  <2>6. LookedUp'
    BY <1>1, <1>3 DEF StoreInv, LookedUp, Existed
  <2>7. RacedExact'
    BY <1>1, <1>3, <2>2, <2>3 DEF RacedExact
  <2>8. RefusedHasNoEffect'
    BY <1>1, <1>3, <2>2 DEF RefusedHasNoEffect, TypeOK
  <2>9. t \in raced => code = 500
    BY DEF RacedExact, StoreInv, HandlerFits
  <2>10. ErrorIsExplained'
    BY <1>1, <1>3, <2>2, <2>9 DEF ErrorIsExplained
  <2>. QED
    BY <2>1, <2>4, <2>5, <2>6, <2>7, <2>8, <2>10 DEF StoreInv
<1>. QED
  BY <1>2, <1>3

LEMMA AnswersStep == AnswersInv /\ [Next]_vars => AnswersInv'
<1>. SUFFICES ASSUME AnswersInv, [Next]_vars PROVE AnswersInv'
  OBVIOUS
<1>1. CASE UNCHANGED vars
  BY <1>1 DEF vars, AnswersInv, StoreInv, TypeOK, HandlerFits, OwnDocument, VictimsGone, WritesKept,
              LookedUp, PartiesExisted, RacedExact, RefusedHasNoEffect, ErrorIsExplained,
              Is, Victim, Target, Exists, Existed, Stored
<1>2. ASSUME NEW t \in Threads, NEW r \in Request, Receive(t, r) PROVE AnswersInv'
  BY <1>2, ReceiveStep
<1>3. ASSUME NEW t \in Threads,
             \/ TooManyRequests(t) \/ Written(t) \/ NotFound(t) \/ Invalid(t) \/ FindUser(t)
             \/ Reread(t) \/ MongoFails(t)
      PROVE  AnswersInv'
  BY <1>3, TooManyRequestsStep, WrittenStep, NotFoundStep, InvalidStep, FindUserStep, RereadStep,
     MongoFailsStep
<1>. QED
  BY <1>1, <1>2, <1>3 DEF Next

\* The inductive invariant holds in every state mongo-api reaches.
THEOREM AnswersInvariant == Spec => []AnswersInv
  BY InitAnswers, AnswersStep, PTL DEF Spec

\* What is stored, who is where and what was answered has its type.
THEOREM TypeCorrect == Spec => []TypeOK
<1>1. AnswersInv => TypeOK
  BY DEF AnswersInv
<1>. QED
  BY <1>1, AnswersInvariant, PTL

\* A request that is refused (400, 404, 429) has changed nothing, except a POST
\* /users whose insert_one raised after the server had carried it out.
THEOREM RefusalsHaveNoEffect == Spec => []RefusedHasNoEffect
<1>1. AnswersInv => RefusedHasNoEffect
  BY DEF AnswersInv
<1>. QED
  BY <1>1, AnswersInvariant, PTL

\* Every answer 500 has one of three causes: a call that raised, an update the
\* validator refused, a document deleted between the write and the second read;
\* and in the last case the answer is always 500.
THEOREM ErrorsAreExplained == Spec => []ErrorIsExplained
<1>1. AnswersInv => ErrorIsExplained
  BY DEF AnswersInv
<1>. QED
  BY <1>1, AnswersInvariant, PTL

\* However many requests delete the same document at once, one at most is told
\* that it did, and only what somebody asked to delete is gone, for good.
THEOREM DeletesAreUnique == Spec => []DeletedOnce
<1>1. AnswersInv => DeletedOnce
  BY DEF AnswersInv, StoreInv, HandlerFits, VictimsGone, DeletedOnce, Deletes, Answered
<1>. QED
  BY <1>1, AnswersInvariant, PTL

\* What POST /messages and PUT /messages/{id}/read answered 200 for stays as
\* answered until the message itself is deleted.
THEOREM MessagesAreKept == Spec => []SentIsKept
<1>1. ASSUME AnswersInv, NEW t \in Threads, Answered(t, 200), Is(t, {"create_message"}),
             Target(t) \notin removed
      PROVE  t \in GetMessages(request[t].from_id) \cap GetMessages(request[t].to_id) /\ Target(t)[2] = t
  <2>1. t \in effect /\ Target(t) = <<"messages", t>>
    BY <1>1 DEF AnswersInv, StoreInv, HandlerFits, Answered, Target, Is
  <2>2. t \in Stored /\ messages[t].from_user_id = request[t].from_id /\ messages[t].to_user_id = request[t].to_id
    BY <1>1, <2>1 DEF AnswersInv, StoreInv, WritesKept
  <2>. QED
    BY <2>1, <2>2 DEF GetMessages
<1>2. ASSUME AnswersInv, NEW t \in Threads, Answered(t, 200), Is(t, {"mark_message_as_read"}),
             Target(t) \notin removed
      PROVE  LET m == Target(t)[2] IN m \in Stored /\ messages[m].is_read = TRUE
  <2>1. t \in effect /\ Target(t) = <<"messages", request[t].id>>
    BY <1>2 DEF AnswersInv, StoreInv, HandlerFits, Answered, Target, Is
  <2>2. request[t].id \in Stored /\ messages[request[t].id].is_read = TRUE
    BY <1>2, <2>1 DEF AnswersInv, StoreInv, WritesKept
  <2>. QED
    BY <2>1, <2>2
<1>3. AnswersInv => SentIsKept
  BY <1>1, <1>2 DEF SentIsKept, Is
<1>. QED
  BY <1>3, AnswersInvariant, PTL

\* Both ends of every stored message are users that exist or existed.
THEOREM MessagesHaveParties == Spec => []PartiesExisted
<1>1. AnswersInv => PartiesExisted
  BY DEF AnswersInv, StoreInv
<1>. QED
  BY <1>1, AnswersInvariant, PTL
=============================================================================
