-------------------------- MODULE UserServiceProofs --------------------------
(***************************************************************************)
(* Proofs about UserService for every number of tasks, logins and emails   *)
(* and every bound on the failing statements.                              *)
(***************************************************************************)
EXTENDS UserService, TLAPS

\* The tables as seeded satisfy the invariant.
LEMMA UserInit == Init => UserInv
  <1> SUFFICES ASSUME Init PROVE UserInv
    OBVIOUS
  <1>1. req \in [Tasks -> Request]
    BY DEF Init
  <1>2. TypeOK
    <2>1. /\ profiles \in SUBSET Logins /\ created = {} /\ broken = {}
          /\ users \in [Logins -> Emails \cup {NoRow}]
      BY DEF Init
    <2>2. faults \in 0..MaxFaults
      <3>1. faults = 0
        BY DEF Init
      <3>. QED  BY <3>1, UserFaultsAssumption
    <2>4. getFailed \in BOOLEAN
      BY DEF Init
    <2>3. pc \in [Tasks -> {"idle", "insert_user", "insert_profile"}]
      BY DEF Init
    <2>. QED  BY <1>1, <2>1, <2>2, <2>3, <2>4 DEF TypeOK
  <1>. QED
    BY <1>2 DEF Init, UserInv, ProfileHasUser, OwnsRow, RegisteredIsComplete,
                HalfRegisteredIsExplained, BrokenIsPermanent

\* Types alone.
LEMMA UserTypeStep ==
    ASSUME TypeOK, [Next]_vars
    PROVE  TypeOK'
  <1> USE UserFaultsAssumption DEF TypeOK, Request
  <1>1. ASSUME NEW t \in Tasks, NEW r \in Request, Post(t, r) PROVE TypeOK'
    BY <1>1 DEF Post
  <1>2. ASSUME NEW t \in Tasks, InsertUser(t) PROVE TypeOK'
    BY <1>2 DEF InsertUser
  <1>3. ASSUME NEW t \in Tasks, InsertProfile(t) PROVE TypeOK'
    BY <1>3 DEF InsertProfile
  <1>4. ASSUME NEW t \in Tasks, StatementFails(t) PROVE TypeOK'
    BY <1>4 DEF StatementFails
  <1>5. ASSUME NEW t \in Tasks, NEW l, NEW b, Get(t, l, b) PROVE TypeOK'
    BY <1>5 DEF Get, GetFails
  <1>6. CASE UNCHANGED vars
    BY <1>6 DEF vars
  <1>. QED  BY <1>1, <1>2, <1>3, <1>4, <1>5, <1>6 DEF Next

\* The relations between the tables, the tasks and the answers.
LEMMA UserInvStep ==
    ASSUME UserInv, [Next]_vars
    PROVE  UserInv'
  <1>0. TypeOK'
    BY UserTypeStep DEF UserInv
  <1>t. /\ users \in [Logins -> Emails \cup {NoRow}]
        /\ pc \in [Tasks -> {"idle", "insert_user", "insert_profile"}]
        /\ req \in [Tasks -> Request]
        /\ \A t \in Tasks : req[t].login \in Logins /\ req[t].email \in Emails
        /\ \A r \in created : r.login \in Logins
        /\ broken \subseteq Logins
    BY DEF UserInv, TypeOK, Request
  <1>i. ProfileHasUser /\ OwnsRow /\ RegisteredIsComplete /\ HalfRegisteredIsExplained /\ BrokenIsPermanent
    BY DEF UserInv
  <1> DEFINE Broken == \A l \in broken : Exists(l) /\ l \notin profiles
             Goal == ProfileHasUser /\ OwnsRow /\ RegisteredIsComplete /\ HalfRegisteredIsExplained /\ Broken
  <1>b. Broken' => BrokenIsPermanent'
    BY <1>0 DEF TypeOK, BrokenIsPermanent, GetFails, Selected
  <1>c. Broken
    BY <1>i DEF BrokenIsPermanent
  <1>1. ASSUME NEW t \in Tasks, NEW r \in Request, Post(t, r) PROVE Goal'
    <2>1. /\ UNCHANGED <<users, profiles, created, broken>>
          /\ \A s \in Tasks : pc[s] = "insert_profile" => req'[s] = req[s] /\ pc'[s] = pc[s]
          /\ \A s \in Tasks : pc'[s] = "insert_profile" => pc[s] = "insert_profile"
      BY <1>1, <1>t DEF Post
    <2>. QED
      BY <2>1, <1>i, <1>c DEF ProfileHasUser, OwnsRow, RegisteredIsComplete, HalfRegisteredIsExplained, Exists
  <1>2. ASSUME NEW t \in Tasks, InsertUser(t) PROVE Goal'
    <2>1. UNCHANGED <<profiles, req, created, broken>>
      BY <1>2 DEF InsertUser
    <2>2. CASE Insertable(req[t])
      <3> DEFINE l == req[t].login
      <3>1. /\ users' = [users EXCEPT ![l] = req[t].email]
            /\ pc' = [pc EXCEPT ![t] = "insert_profile"]
        BY <1>2, <2>2 DEF InsertUser
      <3>2. /\ users[l] = NoRow /\ l \in Logins
            /\ users'[l] = req[t].email
            /\ \A k \in Logins : k # l => users'[k] = users[k]
            /\ pc'[t] = "insert_profile"
            /\ \A s \in Tasks : s # t => pc'[s] = pc[s]
        BY <2>2, <3>1, <1>t DEF Insertable, Exists
      <3>3. l \notin broken \cup profiles /\ \A r \in created : r.login # l
        BY <3>2, <1>c, <1>i, NoRowAssumption
           DEF Exists, ProfileHasUser, RegisteredIsComplete
      <3>4. \A s \in Tasks : pc[s] = "insert_profile" => req[s].login # l
        BY <3>2, <1>i, <1>t, NoRowAssumption DEF OwnsRow
      <3>5. OwnsRow'
        BY <2>1, <3>2, <3>3, <3>4, <1>i, <1>t DEF OwnsRow
      <3>6. RegisteredIsComplete'
        BY <2>1, <3>2, <3>3, <1>i, <1>t DEF RegisteredIsComplete
      <3>7. HalfRegisteredIsExplained'
        BY <2>1, <3>2, <1>i, <1>t DEF HalfRegisteredIsExplained, Exists
      <3>8. ProfileHasUser' /\ Broken'
        BY <2>1, <3>2, <3>3, <1>i, <1>c, <1>t DEF ProfileHasUser, Exists, UserInv, TypeOK
      <3>. QED  BY <3>5, <3>6, <3>7, <3>8
    <2>3. CASE ~Insertable(req[t])
      <3>1. UNCHANGED users /\ pc' = [pc EXCEPT ![t] = "idle"] /\ pc[t] = "insert_user"
        BY <1>2, <2>3 DEF InsertUser
      <3>. QED
        BY <2>1, <3>1, <1>i, <1>c, <1>t
           DEF ProfileHasUser, OwnsRow, RegisteredIsComplete, HalfRegisteredIsExplained, Exists
    <2>. QED  BY <2>2, <2>3
  \* t leaves the handler after the INSERT INTO profiles: with the profile
  \* stored, or as a broken registration.
  <1>3. ASSUME NEW t \in Tasks,
               pc[t] = "insert_profile", pc' = [pc EXCEPT ![t] = "idle"],
               UNCHANGED <<users, req>>,
               \/ /\ profiles' = profiles /\ created' = created
                  /\ broken' = broken \cup {req[t].login}
               \/ /\ profiles' = profiles \cup {req[t].login} /\ broken' = broken
                  /\ \A r \in created' : r \in created \/ (r.login = req[t].login /\ r.email = req[t].email)
        PROVE  Goal'
    <2> DEFINE l == req[t].login
    <2>1. /\ l \in Logins /\ users[l] = req[t].email /\ users[l] # NoRow
          /\ l \notin profiles \cup broken
          /\ \A s \in Tasks : s # t /\ pc[s] = "insert_profile" => req[s].login # l
      BY <1>3, <1>i, <1>t, NoRowAssumption DEF OwnsRow
    <2>2. /\ pc'[t] = "idle"
          /\ \A s \in Tasks : s # t => pc'[s] = pc[s]
      BY <1>3, <1>t
    <2>3. profiles \subseteq profiles' /\ profiles' \subseteq profiles \cup {l}
          /\ broken \subseteq broken' /\ broken' \subseteq broken \cup {l}
          /\ (l \in profiles' <=> l \notin broken')
      BY <1>3, <2>1
    <2>4. OwnsRow'
      BY <1>3, <2>1, <2>2, <2>3, <1>i DEF OwnsRow
    <2>5. RegisteredIsComplete'
      BY <1>3, <2>1, <1>i DEF RegisteredIsComplete
    <2>6. HalfRegisteredIsExplained'
      BY <1>3, <2>2, <2>3, <1>i DEF HalfRegisteredIsExplained, Exists
    <2>7. ProfileHasUser' /\ Broken'
      BY <1>3, <2>1, <2>3, <1>i, <1>c DEF ProfileHasUser, Exists
    <2>. QED  BY <2>4, <2>5, <2>6, <2>7
  <1>4. ASSUME NEW t \in Tasks, InsertProfile(t) PROVE Goal'
    <2>1. ASSUME NEW r, r = [login |-> req[t].login, email |-> req[t].email]
          PROVE  r.login = req[t].login /\ r.email = req[t].email
      BY <2>1
    <2>. QED  BY <1>3, <1>4, <2>1 DEF InsertProfile
  <1>5. ASSUME NEW t \in Tasks, StatementFails(t) PROVE Goal'
    <2>1. /\ pc' = [pc EXCEPT ![t] = "idle"]
          /\ UNCHANGED <<req, created>>
      BY <1>5 DEF StatementFails
    <2>2. CASE pc[t] = "insert_profile"
      BY <1>3, <1>5, <2>1, <2>2 DEF StatementFails
    <2>3. CASE pc[t] = "insert_user" /\ UNCHANGED <<users, profiles, broken>>
      BY <2>1, <2>3, <1>i, <1>c, <1>t
         DEF ProfileHasUser, OwnsRow, RegisteredIsComplete, HalfRegisteredIsExplained, Exists
    <2>4. CASE /\ pc[t] = "insert_user" /\ Insertable(req[t])
               /\ users' = [users EXCEPT ![req[t].login] = req[t].email]
               /\ broken' = broken \cup {req[t].login}
               /\ UNCHANGED profiles
      <3> DEFINE l == req[t].login
      <3>1. /\ users[l] = NoRow /\ l \in Logins
            /\ users'[l] = req[t].email /\ users'[l] # NoRow
            /\ \A k \in Logins : k # l => users'[k] = users[k]
            /\ \A s \in Tasks : s # t => pc'[s] = pc[s]
            /\ pc'[t] = "idle"
        BY <2>1, <2>4, <1>t, NoRowAssumption DEF Insertable, Exists
      <3>2. l \notin broken \cup profiles /\ \A r \in created : r.login # l
        BY <3>1, <1>c, <1>i, NoRowAssumption
           DEF Exists, ProfileHasUser, RegisteredIsComplete, UserInv, TypeOK
      <3>3. \A s \in Tasks : pc[s] = "insert_profile" => req[s].login # l
        BY <3>1, <1>i, <1>t, NoRowAssumption DEF OwnsRow
      <3>4. OwnsRow'
        BY <2>1, <2>4, <3>1, <3>2, <3>3, <1>i, <1>t DEF OwnsRow
      <3>5. RegisteredIsComplete'
        BY <2>1, <2>4, <3>1, <3>2, <1>i, <1>t DEF RegisteredIsComplete
      <3>6. HalfRegisteredIsExplained'
        BY <2>1, <2>4, <3>1, <1>i, <1>t DEF HalfRegisteredIsExplained, Exists
      <3>7. ProfileHasUser' /\ Broken'
        BY <2>1, <2>4, <3>1, <3>2, <1>i, <1>c, <1>t DEF ProfileHasUser, Exists, UserInv, TypeOK
      <3>. QED  BY <3>4, <3>5, <3>6, <3>7
    <2>. QED  BY <1>5, <2>2, <2>3, <2>4 DEF StatementFails
  <1>6. ASSUME NEW t \in Tasks, NEW l, NEW b, Get(t, l, b) PROVE Goal'
    BY <1>6, <1>i, <1>c
       DEF Get, ProfileHasUser, OwnsRow, RegisteredIsComplete, HalfRegisteredIsExplained, Exists
  <1>7. ASSUME UNCHANGED vars PROVE Goal'
    BY <1>7, <1>i, <1>c
       DEF vars, ProfileHasUser, OwnsRow, RegisteredIsComplete, HalfRegisteredIsExplained, Exists
  <1>8. Goal'
    BY <1>1, <1>2, <1>4, <1>5, <1>6, <1>7 DEF Next
  <1>. QED  BY <1>0, <1>b, <1>8 DEF UserInv

-----------------------------------------------------------------------------
\* For any number of concurrent requests, the invariant of the two tables holds.
THEOREM UserInvariant == Spec => []UserInv
  <1>1. UserInv /\ [Next]_vars => UserInv'
    BY UserInvStep
  <1>. QED  BY UserInit, <1>1, PTL DEF Spec

\* A registration answered 201 stays complete, with the data it was sent.
THEOREM RegistrationComplete == Spec => []RegisteredIsComplete
  <1>1. UserInv => RegisteredIsComplete
    BY DEF UserInv
  <1>. QED  BY UserInvariant, <1>1, PTL

\* Only a registration in flight or one that broke off leaves a user without
\* a profile.
THEOREM HalfRegistrations == Spec => []HalfRegisteredIsExplained
  <1>1. UserInv => HalfRegisteredIsExplained
    BY DEF UserInv
  <1>. QED  BY UserInvariant, <1>1, PTL

\* No sequence of requests repairs a registration that broke off.
THEOREM BrokenForGood == Spec => []BrokenIsPermanent
  <1>1. UserInv => BrokenIsPermanent
    BY DEF UserInv
  <1>. QED  BY UserInvariant, <1>1, PTL
=============================================================================
