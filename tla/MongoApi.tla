------------------------------ MODULE MongoApi ------------------------------
(***************************************************************************)
(* mongo-api: the handlers of users, posts and statistics over MongoDB,    *)
(* and the cache-aside pages they keep in Redis.                           *)
(*                                                                         *)
(* FastAPI runs every handler in a thread of its pool.  A read asks Redis, *)
(* then MongoDB, then stores what MongoDB said under the key of the query. *)
(* A write changes one document and then deletes the pages of the prefixes *)
(* it names, one SCAN per prefix and one DEL per key.  Each of these calls *)
(* is a step, so the calls of two handlers interleave, and each may fail:  *)
(* the cache functions swallow every error of Redis, an error of MongoDB   *)
(* ends the handler.                                                       *)
(*                                                                         *)
(* Left out: requests that change nothing (bad ids, no such document, a    *)
(* body the validators refuse), the order of a page's documents, and the   *)
(* re-read of the changed document that closes most writes.                *)
(***************************************************************************)
EXTENDS Naturals, Sequences, FiniteSets

CONSTANTS
    Threads,        \* threads of the API
    Users,          \* _ids of documents of db.users
    Posts,          \* _ids of documents of db.posts
    Traits,         \* what PATCH can change of a user and GET /users filter by
    All,            \* a query without a filter
    UserQueries,    \* the queries clients make: All or a trait ...
    PostQueries,    \* ... and All or an author (a tag would do the same)
    Nobody,         \* the author of a post that is not stored
    MaxWrites,      \* bound on the writes
    MaxFaults       \* bound on failing calls and crashes

ASSUME ApiAssumption ==
    /\ MaxWrites \in Nat
    /\ MaxFaults \in Nat
    /\ Nobody \notin Users
    /\ All \notin Traits \union Users
    /\ UserQueries \subseteq Traits \union {All}
    /\ PostQueries \subseteq Users \union {All}
    /\ {"new", "deleted"} \intersect Traits = {}

VARIABLES
    users,          \* db.users: a trait, or "new" / "deleted" when not stored
    posts,          \* db.posts
    cached,         \* keys that exist in Redis ...
    timed,          \* ... those of them that have a time to live ...
    page,           \* ... and the value of each
    pc,             \* the call each thread makes next
    key,            \* cache_key of a read
    got,            \* what its query returned
    author,         \* author_object_id of create_post
    todo,           \* prefixes a write still has to invalidate
    found,          \* keys that its running SCAN will return
    overtaken,      \* history: reads whose query was followed by a write
    excused,        \* history: keys filled by such a read, or not invalidated
    writes,
    faults

docs   == <<users, posts>>
redis  == <<cached, timed, page>>
reads  == <<key, got>>
scans  == <<todo, found>>
vars   == <<docs, redis, pc, reads, author, scans, overtaken, excused, writes, faults>>

Prefixes == {"users", "posts", "stats", "messages"}
Keys     == ({"users"} \X UserQueries) \union ({"posts"} \X PostQueries) \union {<<"stats", All>>}
NoKey    == <<"none", All>>
Stored(u) == users[u] \in Traits

Contents == {"", "text"}
Post == [author : Users \union {Nobody}, content : Contents, likes : SUBSET Users, comments : Nat]

-----------------------------------------------------------------------------
(* What MongoDB answers to the query of a key. *)

FindUsers(f) == {<<u, users[u]>> : u \in {v \in Users : Stored(v) /\ f \in {All, users[v]}}}

FindPosts(f) == {<<p, posts[p]>> : p \in {q \in Posts : /\ posts[q].author # Nobody
                                                        /\ f \in {All, posts[q].author}}}

\* $match, $group by author, $lookup and $unwind: authors not stored drop out.
PostsOf(u)   == {p \in Posts : posts[p].author = u /\ posts[p].content # ""}
LikesOf(u)   == {pl \in PostsOf(u) \X Users : pl[2] \in posts[pl[1]].likes}
PostsByUsers == {<<u, Cardinality(PostsOf(u)), Cardinality(LikesOf(u))>> :
                    u \in {v \in Users : Stored(v) /\ PostsOf(v) # {}}}

Answer(k) == CASE k[1] = "users" -> FindUsers(k[2])
               [] k[1] = "posts" -> FindPosts(k[2])
               [] k[1] = "stats" -> PostsByUsers

-----------------------------------------------------------------------------
Init ==
    /\ users \in [Users -> Traits \union {"new"}]
    /\ posts \in [Posts -> 
                          [author : {u \in Users : Stored(u)} \union {Nobody},
                           content : {"text"}, likes : {{}}, comments : {0}]]
    /\ cached = {} /\ timed = {} /\ page = [k \in Keys |-> {}]
    /\ pc = [t \in Threads |-> "idle"]
    /\ key = [t \in Threads |-> NoKey]
    /\ got = [t \in Threads |-> {}]
    /\ author = [t \in Threads |-> Nobody]
    /\ todo = [t \in Threads |-> <<>>]
    /\ found = [t \in Threads |-> {}]
    /\ overtaken = [t \in Threads |-> FALSE]
    /\ excused = {}
    /\ writes = 0
    /\ faults = 0

Goto(t, l) == pc' = [pc EXCEPT ![t] = l]
Fault      == faults < MaxFaults /\ faults' = faults + 1

-----------------------------------------------------------------------------
(* get_users, get_posts, posts_by_users. *)

\* cache_get finds nothing; a hit is answered at once and changes nothing.
CacheMiss(t, k) ==
    /\ pc[t] = "idle"
    /\ k \notin cached
    /\ key' = [key EXCEPT ![t] = k]
    /\ Goto(t, "query")
    /\ UNCHANGED <<docs, redis, got, author, scans, overtaken, excused, writes, faults>>

\* redis_client.get raises: cache_get answers None although the key may exist.
GetFails(t, k) ==
    /\ pc[t] = "idle"
    /\ k \in cached
    /\ Fault
    /\ key' = [key EXCEPT ![t] = k]
    /\ Goto(t, "query")
    /\ UNCHANGED <<docs, redis, got, author, scans, overtaken, excused, writes>>

Query(t) ==
    /\ pc[t] = "query"
    /\ got' = [got EXCEPT ![t] = Answer(key[t])]
    /\ overtaken' = [overtaken EXCEPT ![t] = FALSE]
    /\ Goto(t, "fill")
    /\ UNCHANGED <<docs, redis, key, author, scans, excused, writes, faults>>

\* Mutant: SET without a time to live.
MutSetEx(k, value) ==
    /\ cached' = cached \union {k}
    /\ page' = [page EXCEPT ![k] = value]
    /\ UNCHANGED timed

\* cache_set: SETEX stores the value and its time to live at once.
SetEx(k, value) ==
    /\ cached' = cached \union {k}
    /\ timed' = timed \union {k}
    /\ page' = [page EXCEPT ![k] = value]

EndRead(t) ==
    /\ key' = [key EXCEPT ![t] = NoKey]
    /\ got' = [got EXCEPT ![t] = {}]
    /\ overtaken' = [overtaken EXCEPT ![t] = FALSE]
    /\ Goto(t, "idle")

Fill(t) ==
    /\ pc[t] = "fill"
    /\ SetEx(key[t], got[t])
    /\ excused' = IF overtaken[t] THEN excused \union {key[t]} ELSE excused \ {key[t]}
    /\ EndRead(t)
    /\ UNCHANGED <<docs, author, scans, writes, faults>>

\* setex raises and cache_set passes over it.
SetFails(t) ==
    /\ pc[t] = "fill"
    /\ Fault
    /\ EndRead(t)
    /\ UNCHANGED <<docs, redis, author, scans, excused, writes>>

-----------------------------------------------------------------------------
(* The writes: one change of one document, then the prefixes to invalidate. *)

\* Mutant: the statistics are forgotten.
MutInvalidatePosts == <<"posts">>

InvalidateUsers    == <<"users">>
InvalidatePosts    == <<"posts", "stats">>
InvalidateMessages == <<"messages">>
InvalidateAll      == InvalidateUsers \o InvalidatePosts \o InvalidateMessages

\* The change is made; every read between its query and its fill is overtaken.
Written(t, prefixes) ==
    /\ writes < MaxWrites
    /\ writes' = writes + 1
    /\ todo' = [todo EXCEPT ![t] = prefixes]
    /\ overtaken' = [s \in Threads |-> overtaken[s] \/ pc[s] = "fill"]
    /\ Goto(t, "scan")
    /\ UNCHANGED <<redis, reads, found, excused, faults>>

CreateUser(t, u, trait) ==
    /\ pc[t] = "idle"
    /\ users[u] = "new"
    /\ users' = [users EXCEPT ![u] = trait]
    /\ Written(t, InvalidateUsers)
    /\ UNCHANGED <<posts, author>>

UpdateUser(t, u, trait) ==
    /\ pc[t] = "idle"
    /\ Stored(u)
    /\ users' = [users EXCEPT ![u] = trait]
    /\ Written(t, InvalidateAll)
    /\ UNCHANGED <<posts, author>>

\* The posts, likes and comments of the user stay.
DeleteUser(t, u) ==
    /\ pc[t] = "idle"
    /\ Stored(u)
    /\ users' = [users EXCEPT ![u] = "deleted"]
    /\ Written(t, InvalidateAll)
    /\ UNCHANGED <<posts, author>>

\* create_post, first call: db.users.find_one.
FindAuthor(t, u) ==
    /\ pc[t] = "idle"
    /\ Stored(u)
    /\ author' = [author EXCEPT ![t] = u]
    /\ Goto(t, "insert")
    /\ UNCHANGED <<docs, redis, reads, scans, overtaken, excused, writes, faults>>

\* create_post, second call: whatever became of the author in between.
InsertPost(t, p, content) ==
    /\ pc[t] = "insert"
    /\ posts[p].author = Nobody
    /\ posts' = [posts EXCEPT ![p] =
                    [author |-> author[t], content |-> content, likes |-> {}, comments |-> 0]]
    /\ author' = [author EXCEPT ![t] = Nobody]
    /\ Written(t, InvalidatePosts)
    /\ UNCHANGED users

\* $addToSet, of any user id: nobody looks whether the user exists.
LikePost(t, p, u) ==
    /\ pc[t] = "idle"
    /\ posts[p].author # Nobody
    /\ posts' = [posts EXCEPT ![p].likes = @ \union {u}]
    /\ Written(t, InvalidatePosts)
    /\ UNCHANGED <<users, author>>

UnlikePost(t, p, u) ==
    /\ pc[t] = "idle"
    /\ posts[p].author # Nobody
    /\ posts' = [posts EXCEPT ![p].likes = @ \ {u}]
    /\ Written(t, InvalidatePosts)
    /\ UNCHANGED <<users, author>>

AddComment(t, p) ==
    /\ pc[t] = "idle"
    /\ posts[p].author # Nobody
    /\ posts' = [posts EXCEPT ![p].comments = @ + 1]
    /\ Written(t, InvalidatePosts)
    /\ UNCHANGED <<users, author>>

-----------------------------------------------------------------------------
(* cache_delete_prefix. *)

OfPrefix(prefix) == {k \in Keys : k[1] = prefix}

\* SCAN returns every key that exists from its start to its end; one that
\* comes meanwhile it may return or not, one that goes it need not return.
Scan(t) ==
    /\ pc[t] = "scan"
    /\ found' = [found EXCEPT ![t] = cached \intersect OfPrefix(Head(todo[t]))]
    /\ Goto(t, "delete")
    /\ UNCHANGED <<docs, redis, reads, author, todo, overtaken, excused, writes, faults>>

\* A key of Redis goes, by DEL or when its time is over.
Remove(k) ==
    /\ cached' = cached \ {k}
    /\ timed' = timed \ {k}
    /\ page' = [page EXCEPT ![k] = {}]
    /\ found' = [t \in Threads |-> found[t] \ {k}]
    /\ excused' = excused \ {k}

DeleteKey(t, k) ==
    /\ pc[t] = "delete"
    /\ k \in cached \intersect OfPrefix(Head(todo[t]))
    /\ Remove(k)
    /\ UNCHANGED <<docs, pc, reads, author, todo, overtaken, writes, faults>>

\* On to the next prefix, or to the answer.
NextPrefix(t) ==
    /\ todo' = [todo EXCEPT ![t] = Tail(@)]
    /\ Goto(t, IF Len(todo[t]) > 1 THEN "scan" ELSE "idle")

ScanEnds(t) ==
    /\ pc[t] = "delete"
    /\ found[t] = {}
    /\ NextPrefix(t)
    /\ UNCHANGED <<docs, redis, reads, author, found, overtaken, excused, writes, faults>>

\* SCAN or DEL raises: the rest of this prefix keeps its pages.
InvalidationFails(t) ==
    /\ pc[t] \in {"scan", "delete"}
    /\ Fault
    /\ excused' = excused \union
                     (IF pc[t] = "scan" THEN cached \intersect OfPrefix(Head(todo[t])) ELSE found[t])
    /\ found' = [found EXCEPT ![t] = {}]
    /\ NextPrefix(t)
    /\ UNCHANGED <<docs, redis, reads, author, overtaken, writes>>

\* Pages that the write of t is still going to delete.
Pending(t) ==
    {k \in Keys : \/ pc[t] = "scan" /\ \E i \in 1..Len(todo[t]) : k[1] = todo[t][i]
                  \/ pc[t] = "delete" /\ (k \in found[t] \/ \E i \in 2..Len(todo[t]) : k[1] = todo[t][i])}

Expire(k) ==
    /\ k \in timed
    /\ Remove(k)
    /\ UNCHANGED <<docs, pc, reads, author, todo, overtaken, writes, faults>>

-----------------------------------------------------------------------------
(* Failures outside Redis. *)

\* The threads of S stop where they are; nobody finishes their invalidation.
Abandon(S) ==
    /\ pc' = [t \in Threads |-> IF t \in S THEN "idle" ELSE pc[t]]
    /\ key' = [t \in Threads |-> IF t \in S THEN NoKey ELSE key[t]]
    /\ got' = [t \in Threads |-> IF t \in S THEN {} ELSE got[t]]
    /\ author' = [t \in Threads |-> IF t \in S THEN Nobody ELSE author[t]]
    /\ todo' = [t \in Threads |-> IF t \in S THEN <<>> ELSE todo[t]]
    /\ found' = [t \in Threads |-> IF t \in S THEN {} ELSE found[t]]
    /\ overtaken' = [t \in Threads |-> t \notin S /\ overtaken[t]]
    /\ excused' = excused \union (cached \intersect UNION {Pending(t) : t \in S})
    /\ UNCHANGED <<docs, redis, writes>>

\* A MongoDB call raises: a query, the insert of a post, or a write that the
\* server has made, before the handler comes to its invalidation.
MongoFails(t) ==
    /\ pc[t] \in {"query", "insert", "scan"}
    /\ pc[t] = "scan" => todo[t] \in {InvalidateUsers, InvalidatePosts, InvalidateAll}
    /\ Fault
    /\ Abandon({t})

\* The process stops and is started again; MongoDB and Redis go on.
ApiCrash ==
    /\ \E t \in Threads : pc[t] # "idle"
    /\ Fault
    /\ Abandon(Threads)

-----------------------------------------------------------------------------
Read(t)  == Query(t) \/ Fill(t) \/ SetFails(t) \/ \E k \in Keys : CacheMiss(t, k) \/ GetFails(t, k)
Write(t) ==
    \/ \E u \in Users : \/ \E trait \in Traits : CreateUser(t, u, trait) \/ UpdateUser(t, u, trait)
                        \/ DeleteUser(t, u) \/ FindAuthor(t, u)
    \/ \E p \in Posts : \/ \E content \in Contents : InsertPost(t, p, content)
                        \/ \E u \in Users : LikePost(t, p, u) \/ UnlikePost(t, p, u)
                        \/ AddComment(t, p)
Invalidate(t) == Scan(t) \/ ScanEnds(t) \/ InvalidationFails(t) \/ \E k \in Keys : DeleteKey(t, k)

Next ==
    \/ \E t \in Threads : Read(t) \/ Write(t) \/ Invalidate(t) \/ MongoFails(t)
    \/ \E k \in Keys : Expire(k)
    \/ ApiCrash

Spec == Init /\ [][Next]_vars

\* Redis removes every key with a time to live when it is over.
FairSpec == Spec /\ \A k \in Keys : WF_vars(Expire(k))

-----------------------------------------------------------------------------
TypeOK ==
    /\ users \in [Users -> Traits \union {"new", "deleted"}]
    /\ posts \in [Posts -> Post]
    /\ cached \subseteq Keys
    /\ timed \subseteq Keys
    /\ DOMAIN page = Keys
    /\ pc \in [Threads -> {"idle", "query", "fill", "insert", "scan", "delete"}]
    /\ key \in [Threads -> Keys \union {NoKey}]
    /\ DOMAIN got = Threads
    /\ author \in [Threads -> Users \union {Nobody}]
    /\ todo \in [Threads -> Seq(Prefixes)]
    /\ found \in [Threads -> SUBSET Keys]
    /\ overtaken \in [Threads -> BOOLEAN]
    /\ excused \subseteq Keys
    /\ writes \in 0..MaxWrites
    /\ faults \in 0..MaxFaults

Fresh(k) == k \in cached => page[k] = Answer(k)

\* A page in Redis that differs from what MongoDB would answer now either is
\* going to be deleted by a write that is still invalidating, or was put there
\* by a read that a write overtook (api.py:170-172), or was left there by an
\* invalidation that broke off.  In particular the prefixes each handler
\* names cover every page its write can change.
StaleIsExplained ==
    \A k \in Keys : Fresh(k) \/ k \in excused \/ \E t \in Threads : k \in Pending(t)

(* The inductive invariant. *)

\* Nobody writes posts under an id that a later create_user could get.
AuthorsKnown ==
    /\ \A p \in Posts : posts[p].author # Nobody => users[posts[p].author] # "new"
    /\ \A t \in Threads : pc[t] = "insert" => author[t] # Nobody /\ users[author[t]] # "new"

\* A read that nobody overtook holds what MongoDB would still answer.
ReadsFresh ==
    /\ \A t \in Threads : pc[t] \in {"query", "fill"} => key[t] \in Keys
    /\ \A t \in Threads : pc[t] = "fill" /\ ~overtaken[t] => got[t] = Answer(key[t])

\* An invalidation always has a prefix to work on.
ScansBusy == \A t \in Threads : pc[t] \in {"scan", "delete"} => todo[t] # <<>>

\* The inductive invariant behind StaleIsExplained: besides the pages it is
\* about what the running handlers hold, and that the documents fit together.
CacheInv == TypeOK /\ AuthorsKnown /\ ReadsFresh /\ ScansBusy /\ StaleIsExplained

\* Every stale page goes: the time to live of cache_set bounds the damage of
\* every race and of every failed invalidation.  Once the writes have
\* stopped, from some time on what Redis holds is what MongoDB would answer.
StaleEnds == <>[](\A k \in Keys : Fresh(k))

\* What performance_design.md says of the invalidation, at its weakest: when
\* no handler is running and no call has failed, no page is stale.
FreshWhenIdle ==
    (faults = 0 /\ \A t \in Threads : pc[t] = "idle") => \A k \in Keys : Fresh(k)
=============================================================================
