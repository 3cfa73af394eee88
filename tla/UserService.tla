----------------------------- MODULE UserService -----------------------------
(***************************************************************************)
(* user-service: the handler of POST /users and GET /users over the        *)
(* PostgreSQL tables users and profiles.                                   *)
(*                                                                         *)
(* POST runs two autocommit statements, INSERT INTO users and INSERT INTO  *)
(* profiles, outside a transaction.  GET joins the tables with LEFT JOIN   *)
(* and reads the profile's columns as std::string, which throws on NULL;   *)
(* an exception that leaves the handler is answered with 500.              *)
(*                                                                         *)
(* username is UNIQUE and rows are never deleted, so a username stands for *)
(* the row's id.  Requests run concurrently, one per task.                 *)
(***************************************************************************)
EXTENDS Naturals

CONSTANTS
    Tasks,          \* coroutines that run the handler
    Logins,         \* usernames
    Emails,
    Bodies,         \* the kinds of POST bodies clients send
    MaxFaults       \* bound on failed statements

BodyKinds == {"malformed", "incomplete", "emptyName", "complete"}

ASSUME UserBodiesAssumption == Bodies \subseteq BodyKinds
ASSUME UserFaultsAssumption == MaxFaults \in Nat

NoRow == "no row"
ASSUME NoRowAssumption == NoRow \notin Emails

VARIABLES
    users,          \* email of the row with this username, or NoRow
    profiles,       \* usernames whose row in users has a row in profiles
    pc,             \* where each task is
    req,            \* the request it handles: [login, email, body]
    created,        \* history: [login, email] of registrations answered 201
    broken,         \* history: usernames whose registration ended between the INSERTs
    getFailed,      \* history: GET /users has answered 500
    faults

vars == <<users, profiles, pc, req, created, broken, getFailed, faults>>

Request == [login : Logins, email : Emails, body : Bodies]
Exists(l) == users[l] # NoRow

TypeOK ==
    /\ users \in [Logins -> Emails \cup {NoRow}]
    /\ profiles \in SUBSET Logins
    /\ pc \in [Tasks -> {"idle", "insert_user", "insert_profile"}]
    /\ req \in [Tasks -> Request]
    /\ created \in SUBSET [login : Logins, email : Emails]
    /\ broken \in SUBSET Logins
    /\ getFailed \in BOOLEAN
    /\ faults \in 0..MaxFaults

\* data.sql seeds users together with their profiles.
Init ==
    /\ users \in [Logins -> Emails \cup {NoRow}]
    /\ \A k, l \in Logins : Exists(k) /\ users[k] = users[l] => k = l
    /\ profiles = {l \in Logins : Exists(l)}
    /\ pc = [t \in Tasks |-> "idle"]
    /\ req \in {[t \in Tasks |-> r] : r \in Request}
    /\ created = {}
    /\ broken = {}
    /\ getFailed = FALSE
    /\ faults = 0

-----------------------------------------------------------------------------
\* POST /users: the body is parsed and its members checked before the first
\* statement; a malformed body throws (500), an incomplete one is answered 400.
Post(t, r) ==
    /\ pc[t] = "idle"
    /\ IF r.body \in {"malformed", "incomplete"}
          THEN UNCHANGED <<pc, req>>
          ELSE /\ pc' = [pc EXCEPT ![t] = "insert_user"]
               /\ req' = [req EXCEPT ![t] = r]
    /\ UNCHANGED <<users, profiles, created, broken, getFailed, faults>>

\* The row does not violate UNIQUE (username) or UNIQUE (email).
Insertable(r) == ~Exists(r.login) /\ \A l \in Logins : users[l] # r.email

\* Mutant: ON CONFLICT DO NOTHING.
MutInsertUserUpsert(t) ==
    /\ pc[t] = "insert_user"
    /\ users' = IF Insertable(req[t])
                THEN [users EXCEPT ![req[t].login] = req[t].email] ELSE users
    /\ pc' = [pc EXCEPT ![t] = "insert_profile"]
    /\ UNCHANGED <<profiles, req, created, broken, getFailed, faults>>

\* INSERT INTO users ... RETURNING id; a unique violation throws.
InsertUser(t) ==
    /\ pc[t] = "insert_user"
    /\ IF Insertable(req[t])
          THEN /\ users' = [users EXCEPT ![req[t].login] = req[t].email]
               /\ pc' = [pc EXCEPT ![t] = "insert_profile"]
          ELSE /\ UNCHANGED users
               /\ pc' = [pc EXCEPT ![t] = "idle"]
    /\ UNCHANGED <<profiles, req, created, broken, getFailed, faults>>

\* Mutant: a failed profile insert is ignored.
MutInsertProfile(t) ==
    /\ pc[t] = "insert_profile"
    /\ profiles' = IF req[t].body = "emptyName" THEN profiles
                   ELSE profiles \cup {req[t].login}
    /\ created' = created \cup {[login |-> req[t].login, email |-> req[t].email]}
    /\ UNCHANGED broken
    /\ pc' = [pc EXCEPT ![t] = "idle"]
    /\ UNCHANGED <<users, req, getFailed, faults>>

\* INSERT INTO profiles; CHECK (char_length(...) > 0) rejects an empty name and
\* the exception leaves the row in users behind.  Otherwise 201.
InsertProfile(t) ==
    /\ pc[t] = "insert_profile"
    /\ IF req[t].body = "emptyName"
          THEN /\ broken' = broken \cup {req[t].login}
               /\ UNCHANGED <<profiles, created>>
          ELSE /\ profiles' = profiles \cup {req[t].login}
               /\ created' = created \cup {[login |-> req[t].login, email |-> req[t].email]}
               /\ UNCHANGED broken
    /\ pc' = [pc EXCEPT ![t] = "idle"]
    /\ UNCHANGED <<users, req, getFailed, faults>>

\* A statement fails (connection, timeout, or the task is cancelled because the
\* client went away), before or after it was executed: 500.
StatementFails(t) ==
    /\ faults < MaxFaults
    /\ \/ /\ pc[t] = "insert_user"
          /\ UNCHANGED <<users, profiles, broken>>
       \/ /\ pc[t] = "insert_user"
          /\ Insertable(req[t])
          /\ users' = [users EXCEPT ![req[t].login] = req[t].email]
          /\ broken' = broken \cup {req[t].login}
          /\ UNCHANGED profiles
       \/ /\ pc[t] = "insert_profile"
          /\ broken' = broken \cup {req[t].login}
          /\ UNCHANGED <<users, profiles>>
       \/ /\ pc[t] = "insert_profile"
          /\ req[t].body # "emptyName"
          /\ profiles' = profiles \cup {req[t].login}
          /\ UNCHANGED <<users, broken>>
    /\ pc' = [pc EXCEPT ![t] = "idle"]
    /\ faults' = faults + 1
    /\ UNCHANGED <<req, created, getFailed>>

\* The rows the SELECT yields.  login = "" is no filter; a name filter compares
\* the profile's names, which are NULL without a profile and then never match.
Selected(login, byName) ==
    {l \in Logins : /\ Exists(l)
                    /\ login \in {"", l}
                    /\ byName => l \in profiles}

\* first_name is NULL for a row without a profile: As<std::string>() throws.
GetFails(login, byName) == ~ (Selected(login, byName) \subseteq profiles)

\* GET /users?login=...&name=...
Get(t, login, byName) ==
    /\ pc[t] = "idle"
    /\ getFailed' = (getFailed \/ GetFails(login, byName))
    /\ UNCHANGED <<users, profiles, pc, req, created, broken, faults>>

Next == \E t \in Tasks :
    \/ \E r \in Request : Post(t, r)
    \/ InsertUser(t)
    \/ InsertProfile(t)
    \/ StatementFails(t)
    \/ \E login \in Logins \cup {""}, byName \in BOOLEAN : Get(t, login, byName)

Spec == Init /\ [][Next]_vars

-----------------------------------------------------------------------------
\* A registration answered 201 is in both tables with the data it was sent,
\* whatever other requests and failing statements do afterwards.
RegisteredIsComplete ==
    \A r \in created : users[r.login] = r.email /\ r.login \in profiles

\* A row in users without a profile belongs to exactly one registration that is
\* between its two INSERTs, or to one that broke off there.
HalfRegisteredIsExplained ==
    \A l \in Logins : Exists(l) /\ l \notin profiles =>
        \/ l \in broken
        \/ \E t \in Tasks : pc[t] = "insert_profile" /\ req[t].login = l

\* A registration that broke off between the INSERTs is never completed: every
\* later POST with its login fails on UNIQUE (username), so the row stays
\* without a profile and GET /users without a name filter fails for good.
BrokenIsPermanent ==
    \A l \in broken : Exists(l) /\ l \notin profiles /\ GetFails("", FALSE)

\* openapi.yaml: GET /users is answered 200.
GetUsersSucceeds == ~getFailed

-----------------------------------------------------------------------------
\* A row of profiles references a row of users.
ProfileHasUser == \A l \in profiles : Exists(l)

\* A task between the INSERTs owns the row it has just inserted: no concurrent
\* registration with the same login gets that far.
OwnsRow ==
    \A t \in Tasks : pc[t] = "insert_profile" =>
        /\ users[req[t].login] = req[t].email
        /\ req[t].login \notin profiles \cup broken
        /\ \A s \in Tasks : pc[s] = "insert_profile" /\ req[s].login = req[t].login => s = t

\* The inductive invariant behind the properties.
UserInv == /\ TypeOK
           /\ ProfileHasUser
           /\ OwnsRow
           /\ RegisteredIsComplete
           /\ HalfRegisteredIsExplained
           /\ BrokenIsPermanent
=============================================================================
