--------------------------- MODULE MongoApiProofs ---------------------------
(***************************************************************************)
(* Proof that every stale page of the mongo-api cache is explained, for    *)
(* any number of threads, documents, queries, writes and failures.         *)
(***************************************************************************)
EXTENDS MongoApi, SequenceTheorems, TLAPS

LEMMA KeyPrefix == \A k \in Keys : k[1] \in {"users", "posts", "stats"}
  BY DEF Keys

LEMMA NoKeyIsNoKey == NoKey \notin Keys
  BY DEF Keys, NoKey

\* What MongoDB answers depends on its documents only ...
LEMMA SameDocs ==
    ASSUME UNCHANGED docs, NEW k \in Keys
    PROVE  Answer(k)' = Answer(k)
  BY DEF docs, Answer, FindUsers, FindPosts, PostsByUsers, PostsOf, LikesOf, Stored

\* ... a listing of users on the users only ...
LEMMA SameUsers ==
    ASSUME UNCHANGED users, NEW k \in Keys, k[1] = "users"
    PROVE  Answer(k)' = Answer(k)
  BY DEF Answer, FindUsers, Stored

\* ... and a new user has no post: only listings of users change.
LEMMA NewUserHasNoPosts ==
    ASSUME TypeOK, AuthorsKnown, NEW u \in Users, NEW trait \in Traits,
           users[u] = "new", users' = [users EXCEPT ![u] = trait], posts' = posts,
           NEW k \in Keys, k[1] # "users"
    PROVE  Answer(k)' = Answer(k)
<1>1. PostsOf(u) = {}
  BY ApiAssumption DEF PostsOf, AuthorsKnown, TypeOK, Post
<1>2. \A v \in Users : PostsOf(v)' = PostsOf(v) /\ LikesOf(v)' = LikesOf(v)
  BY DEF PostsOf, LikesOf
<1>3. \A v \in Users : PostsOf(v) # {} => Stored(v)' = Stored(v)
  BY <1>1 DEF Stored, TypeOK
<1>4. PostsByUsers' = PostsByUsers
  <2>1. {v \in Users : Stored(v)' /\ PostsOf(v)' # {}} = {v \in Users : Stored(v) /\ PostsOf(v) # {}}
    BY <1>2, <1>3
  <2>. QED
    BY <2>1, <1>2 DEF PostsByUsers
<1>5. \A f : FindPosts(f)' = FindPosts(f)
  BY DEF FindPosts
<1>. QED
  BY <1>4, <1>5, KeyPrefix DEF Answer

-----------------------------------------------------------------------------
\* A write that names a prefix of every page it changes, and nothing else.
LEMMA WriteIsInvalidated ==
    ASSUME CacheInv, NEW t \in Threads, pc[t] \in {"idle", "insert"},
           NEW prefixes \in Seq(Prefixes), prefixes # <<>>, Written(t, prefixes),
           \A k \in Keys : \/ Answer(k)' = Answer(k)
                          \/ \E i \in 1..Len(prefixes) : k[1] = prefixes[i]
    PROVE  ReadsFresh' /\ ScansBusy' /\ StaleIsExplained'
<1>. USE DEF Written, Goto, redis, reads
<1>1. ReadsFresh'
  <2>1. ASSUME NEW s \in Threads, pc'[s] \in {"query", "fill"}
        PROVE  key'[s] \in Keys /\ pc'[s] = pc[s]
    BY <2>1 DEF CacheInv, TypeOK, ReadsFresh
  <2>2. ASSUME NEW s \in Threads, pc'[s] = "fill", ~overtaken'[s] PROVE FALSE
    BY <2>2 DEF CacheInv, TypeOK
  <2>. QED
    BY <2>1, <2>2 DEF ReadsFresh
<1>2. ScansBusy'
  BY DEF CacheInv, TypeOK, ScansBusy
<1>3. ASSUME NEW k \in Keys PROVE Fresh(k)' \/ k \in excused' \/ \E s \in Threads : k \in Pending(s)'
  <2>1. CASE \E i \in 1..Len(prefixes) : k[1] = prefixes[i]
    <3>1. pc'[t] = "scan" /\ todo'[t] = prefixes
      BY DEF CacheInv, TypeOK
    <3>2. PICK i \in 1..Len(prefixes) : k[1] = prefixes[i]
      BY <2>1
    <3>3. \E j \in 1..Len(todo'[t]) : k[1] = todo'[t][j]
      BY <3>1, <3>2
    <3>4. k \in Pending(t)'
      BY <3>1, <3>3 DEF Pending
    <3>. QED
      BY <3>4
  <2>2. CASE Answer(k)' = Answer(k)
    <3>1. Fresh(k)' <=> Fresh(k)
      BY <2>2 DEF Fresh
    <3>2. ASSUME NEW s \in Threads, k \in Pending(s) PROVE k \in Pending(s)'
      <4>1. s # t
        BY <3>2 DEF Pending
      <4>2. pc'[s] = pc[s] /\ todo'[s] = todo[s] /\ found'[s] = found[s]
        BY <4>1 DEF CacheInv, TypeOK
      <4>. QED
        BY <3>2, <4>2 DEF Pending
    <3>. QED
      BY <3>1, <3>2 DEF CacheInv, StaleIsExplained
  <2>. QED
    BY <1>3, <2>1, <2>2
<1>. QED
  BY <1>1, <1>2, <1>3 DEF StaleIsExplained

LEMMA PrefixLists ==
    /\ InvalidateUsers \in Seq(Prefixes) /\ InvalidateUsers # <<>>
    /\ InvalidatePosts \in Seq(Prefixes) /\ InvalidatePosts # <<>>
    /\ InvalidateAll \in Seq(Prefixes) /\ InvalidateAll # <<>>
    /\ \E i \in 1..Len(InvalidateUsers) : InvalidateUsers[i] = "users"
    /\ \A x \in {"posts", "stats"} : \E i \in 1..Len(InvalidatePosts) : InvalidatePosts[i] = x
    /\ \A x \in {"users", "posts", "stats"} : \E i \in 1..Len(InvalidateAll) : InvalidateAll[i] = x
<1>. DEFINE U == <<"users">>
             P == <<"posts", "stats">>
             M == <<"messages">>
<1>1. U \in Seq(Prefixes) /\ P \in Seq(Prefixes) /\ M \in Seq(Prefixes)
  BY DEF Prefixes
<1>2. Len(U) = 1 /\ Len(P) = 2 /\ Len(M) = 1
  OBVIOUS
<1>3. U[1] = "users" /\ P[1] = "posts" /\ P[2] = "stats"
  OBVIOUS
<1>4. InvalidateUsers = U /\ InvalidatePosts = P /\ InvalidateAll = (U \o P) \o M
  BY DEF InvalidateUsers, InvalidatePosts, InvalidateMessages, InvalidateAll
<1>. HIDE DEF U, P, M
<1>5. /\ U \o P \in Seq(Prefixes) /\ Len(U \o P) = 3
      /\ (U \o P)[1] = U[1] /\ (U \o P)[2] = P[1] /\ (U \o P)[3] = P[2]
  <2>1. /\ U \o P \in Seq(Prefixes) /\ Len(U \o P) = Len(U) + Len(P)
        /\ \A i \in 1..Len(U) + Len(P) : (U \o P)[i] = IF i <= Len(U) THEN U[i] ELSE P[i - Len(U)]
    BY <1>1, ConcatProperties
  <2>2. \A i \in 1..3 : (U \o P)[i] = IF i <= 1 THEN U[i] ELSE P[i - 1]
    BY <1>2, <2>1
  <2>. QED
    BY <1>2, <2>1, <2>2
<1>6. /\ (U \o P) \o M \in Seq(Prefixes) /\ Len((U \o P) \o M) = 4
      /\ \A i \in 1..3 : ((U \o P) \o M)[i] = (U \o P)[i]
  <2>. DEFINE UP == U \o P
  <2>1. UP \in Seq(Prefixes) /\ Len(UP) = 3
    BY <1>5
  <2>. HIDE DEF UP
  <2>2. /\ UP \o M \in Seq(Prefixes) /\ Len(UP \o M) = Len(UP) + Len(M)
        /\ \A i \in 1..Len(UP) + Len(M) : (UP \o M)[i] = IF i <= Len(UP) THEN UP[i] ELSE M[i - Len(UP)]
    BY <1>1, <2>1, ConcatProperties
  <2>3. Len(UP \o M) = 4 /\ \A i \in 1..3 : (UP \o M)[i] = UP[i]
    BY <1>2, <2>1, <2>2
  <2>. QED
    BY <2>2, <2>3 DEF UP
<1>. QED
  BY <1>1, <1>2, <1>3, <1>4, <1>5, <1>6

LEMMA WrittenTypes ==
    ASSUME TypeOK, NEW t \in Threads, NEW prefixes \in Seq(Prefixes), Written(t, prefixes),
           users' \in [Users -> Traits \union {"new", "deleted"}], posts' \in [Posts -> Post],
           author' \in [Threads -> Users \union {Nobody}]
    PROVE  TypeOK'
<1>. USE DEF TypeOK, Written, Goto, redis, reads
<1>1. overtaken' \in [Threads -> BOOLEAN]
  BY Zenon
<1>2. pc' \in [Threads -> {"idle", "query", "fill", "insert", "scan", "delete"}]
  OBVIOUS
<1>3. todo' \in [Threads -> Seq(Prefixes)]
  OBVIOUS
<1>4. writes' \in 0..MaxWrites
  BY ApiAssumption
<1>5. /\ cached' \subseteq Keys
      /\ timed' \subseteq Keys
      /\ DOMAIN page' = Keys
      /\ key' \in [Threads -> Keys \union {NoKey}]
      /\ DOMAIN got' = Threads
      /\ found' \in [Threads -> SUBSET Keys]
      /\ excused' \subseteq Keys
      /\ faults' \in 0..MaxFaults
  OBVIOUS
<1>. QED
  BY <1>1, <1>2, <1>3, <1>4, <1>5

\* Every write of a user preserves the invariant.
LEMMA UserWrites ==
    ASSUME CacheInv, NEW t \in Threads, NEW u \in Users,
           DeleteUser(t, u) \/ \E trait \in Traits : CreateUser(t, u, trait) \/ UpdateUser(t, u, trait)
    PROVE  CacheInv'
<1>1. users' \in [Users -> Traits \union {"new", "deleted"}] /\ posts' = posts /\ author' = author
  BY DEF CacheInv, TypeOK, DeleteUser, CreateUser, UpdateUser
<1>2. TypeOK'
  BY <1>1, WrittenTypes, PrefixLists DEF CacheInv, TypeOK, DeleteUser, CreateUser, UpdateUser
<1>3. AuthorsKnown'
  <2>1. \A v \in Users : users[v] # "new" => users'[v] # "new"
    BY ApiAssumption DEF CacheInv, TypeOK, DeleteUser, CreateUser, UpdateUser
  <2>2. \A s \in Threads : pc'[s] = "insert" => pc[s] = "insert"
    BY DEF CacheInv, TypeOK, DeleteUser, CreateUser, UpdateUser, Written, Goto
  <2>. QED
    BY <1>1, <2>1, <2>2 DEF CacheInv, AuthorsKnown, TypeOK, Post
<1>4. ReadsFresh' /\ ScansBusy' /\ StaleIsExplained'
  <2>1. CASE DeleteUser(t, u) \/ \E trait \in Traits : UpdateUser(t, u, trait)
    BY <2>1, WriteIsInvalidated, PrefixLists, KeyPrefix DEF DeleteUser, UpdateUser
  <2>2. CASE \E trait \in Traits : CreateUser(t, u, trait)
    <3>1. PICK trait \in Traits : CreateUser(t, u, trait)
      BY <2>2
    <3>2. \A k \in Keys : k[1] # "users" => Answer(k)' = Answer(k)
      BY <3>1, NewUserHasNoPosts DEF CreateUser, CacheInv
    <3>. QED
      BY <3>1, <3>2, WriteIsInvalidated, PrefixLists DEF CreateUser
  <2>. QED
    BY <2>1, <2>2
<1>. QED
  BY <1>2, <1>3, <1>4 DEF CacheInv

LEMMA PostUpdates ==
    ASSUME NEW x \in Post, NEW l \in SUBSET Users, NEW n \in Nat
    PROVE  /\ [x EXCEPT !.likes = l] \in Post /\ [x EXCEPT !.likes = l].author = x.author
           /\ [x EXCEPT !.comments = n] \in Post /\ [x EXCEPT !.comments = n].author = x.author
  BY DEF Post

\* Every write of a post preserves the invariant.
LEMMA PostWrites ==
    ASSUME CacheInv, NEW t \in Threads, NEW p \in Posts,
           \/ \E content \in Contents : InsertPost(t, p, content)
           \/ \E u \in Users : LikePost(t, p, u) \/ UnlikePost(t, p, u)
           \/ AddComment(t, p)
    PROVE  CacheInv'
<1>1. users' = users /\ pc[t] \in {"idle", "insert"} /\ Written(t, InvalidatePosts)
  BY DEF InsertPost, LikePost, UnlikePost, AddComment
<1>2. /\ posts' \in [Posts -> Post]
      /\ author' \in [Threads -> Users \union {Nobody}]
      /\ \A s \in Threads \ {t} : author'[s] = author[s]
      /\ \A q \in Posts : posts'[q].author = posts[q].author \/ (pc[t] = "insert" /\ posts'[q].author = author[t])
  <2>1. CASE \E content \in Contents : InsertPost(t, p, content)
    BY <2>1 DEF CacheInv, TypeOK, Post, InsertPost
  <2>2. CASE \E u \in Users : LikePost(t, p, u) \/ UnlikePost(t, p, u)
    <3>1. PICK l \in SUBSET Users : posts' = [posts EXCEPT ![p].likes = l]
      BY <2>2 DEF CacheInv, TypeOK, Post, LikePost, UnlikePost
    <3>2. author' = author
      BY <2>2 DEF LikePost, UnlikePost
    <3>3. [posts[p] EXCEPT !.likes = l] \in Post /\ [posts[p] EXCEPT !.likes = l].author = posts[p].author
      BY PostUpdates DEF CacheInv, TypeOK
    <3>4. posts' = [posts EXCEPT ![p] = [posts[p] EXCEPT !.likes = l]]
      BY <3>1
    <3>. QED
      BY <3>2, <3>3, <3>4 DEF CacheInv, TypeOK
  <2>3. CASE AddComment(t, p)
    <3>1. posts[p].comments + 1 \in Nat
      BY DEF CacheInv, TypeOK, Post
    <3>2. PICK n \in Nat : posts' = [posts EXCEPT ![p].comments = n]
      BY <2>3, <3>1 DEF AddComment
    <3>3. author' = author
      BY <2>3 DEF AddComment
    <3>4. [posts[p] EXCEPT !.comments = n] \in Post /\ [posts[p] EXCEPT !.comments = n].author = posts[p].author
      BY PostUpdates DEF CacheInv, TypeOK
    <3>5. posts' = [posts EXCEPT ![p] = [posts[p] EXCEPT !.comments = n]]
      BY <3>2
    <3>. QED
      BY <3>3, <3>4, <3>5 DEF CacheInv, TypeOK
  <2>. QED
    BY <2>1, <2>2, <2>3
<1>3. TypeOK'
  BY <1>1, <1>2, WrittenTypes, PrefixLists DEF CacheInv, TypeOK
<1>4. AuthorsKnown'
  <2>1. pc'[t] = "scan" /\ \A s \in Threads \ {t} : pc'[s] = pc[s]
    BY <1>1 DEF Written, Goto, CacheInv, TypeOK
  <2>. QED
    BY <1>1, <1>2, <2>1 DEF CacheInv, AuthorsKnown
<1>5. ReadsFresh' /\ ScansBusy' /\ StaleIsExplained'
  BY <1>1, WriteIsInvalidated, PrefixLists, KeyPrefix, SameUsers
<1>. QED
  BY <1>3, <1>4, <1>5 DEF CacheInv

-----------------------------------------------------------------------------
(* Steps that change no document. *)

LEMMA PendingSame ==
    ASSUME NEW t \in Threads, found'[t] = found[t], todo'[t] = todo[t],
           \/ pc'[t] = pc[t]
           \/ pc[t] \notin {"scan", "delete"} /\ pc'[t] \notin {"scan", "delete"}
    PROVE  Pending(t)' = Pending(t)
  BY DEF Pending

\* The first call of a read, and of create_post.
LEMMA Starts ==
    ASSUME CacheInv, NEW t \in Threads,
           \/ \E k \in Keys : CacheMiss(t, k) \/ GetFails(t, k)
           \/ \E u \in Users : FindAuthor(t, u)
    PROVE  CacheInv'
<1>. USE DEF CacheMiss, GetFails, FindAuthor, Goto, docs, redis, reads, scans
<1>0. /\ pc[t] = "idle" /\ pc'[t] \in {"query", "insert"}
      /\ \A s \in Threads \ {t} : pc'[s] = pc[s]
      /\ UNCHANGED <<users, posts, cached, timed, page, got, todo, found, overtaken, excused, writes>>
  BY DEF CacheInv, TypeOK
<1>1. TypeOK'
  <2>1. pc' \in [Threads -> {"idle", "query", "fill", "insert", "scan", "delete"}]
    BY DEF CacheInv, TypeOK
  <2>2. key' \in [Threads -> Keys \union {NoKey}] /\ author' \in [Threads -> Users \union {Nobody}]
    <3>1. key' = key \/ \E k \in Keys : key' = [key EXCEPT ![t] = k]
      OBVIOUS
    <3>2. author' = author \/ \E u \in Users : author' = [author EXCEPT ![t] = u]
      OBVIOUS
    <3>3. key \in [Threads -> Keys \union {NoKey}] /\ author \in [Threads -> Users \union {Nobody}]
      BY DEF CacheInv, TypeOK
    <3>4. key' \in [Threads -> Keys \union {NoKey}]
      <4>. HIDE DEF CacheMiss, GetFails, FindAuthor
      <4>. QED
        BY <3>1, <3>3
    <3>5. author' \in [Threads -> Users \union {Nobody}]
      <4>. HIDE DEF CacheMiss, GetFails, FindAuthor
      <4>. QED
        BY <3>2, <3>3
    <3>. QED
      BY <3>4, <3>5
  <2>3. faults' \in 0..MaxFaults
    BY ApiAssumption DEF CacheInv, TypeOK, Fault
  <2>. QED
    BY <1>0, <2>1, <2>2, <2>3 DEF CacheInv, TypeOK
<1>2. AuthorsKnown'
  <2>1. CASE \E k \in Keys : CacheMiss(t, k) \/ GetFails(t, k)
    BY <2>1, <1>0 DEF CacheInv, TypeOK, AuthorsKnown
  <2>2. CASE \E u \in Users : FindAuthor(t, u)
    <3>1. author'[t] \in Users /\ Stored(author'[t]) /\ \A s \in Threads \ {t} : author'[s] = author[s]
      BY <2>2 DEF CacheInv, TypeOK
    <3>2. author'[t] # Nobody /\ users'[author'[t]] # "new"
      BY <3>1, <1>0, ApiAssumption DEF Stored
    <3>. QED
      BY <1>0, <3>1, <3>2 DEF CacheInv, AuthorsKnown
  <2>. QED
    BY <2>1, <2>2
<1>3. ReadsFresh'
  <2>1. \A k \in Keys : Answer(k)' = Answer(k)
    BY <1>0, SameDocs
  <2>2. \A s \in Threads \ {t} : key'[s] = key[s]
    BY DEF CacheInv, TypeOK
  <2>3. pc'[t] = "query" => key'[t] \in Keys
    BY DEF CacheInv, TypeOK
  <2>. QED
    BY <1>0, <2>1, <2>2, <2>3 DEF CacheInv, ReadsFresh
<1>4. ScansBusy'
  BY <1>0 DEF CacheInv, ScansBusy
<1>5. StaleIsExplained'
  <2>1. \A s \in Threads : Pending(s)' = Pending(s)
    BY <1>0, PendingSame
  <2>2. \A k \in Keys : Fresh(k)' <=> Fresh(k)
    BY <1>0, SameDocs DEF Fresh
  <2>. QED
    BY <1>0, <2>1, <2>2 DEF CacheInv, StaleIsExplained
<1>. QED
  BY <1>1, <1>2, <1>3, <1>4, <1>5 DEF CacheInv

LEMMA Queries ==
    ASSUME CacheInv, NEW t \in Threads, Query(t)
    PROVE  CacheInv'
<1>. USE DEF Query, Goto, docs, redis, scans
<1>0. /\ pc[t] = "query" /\ pc'[t] = "fill" /\ \A s \in Threads \ {t} : pc'[s] = pc[s]
      /\ key[t] \in Keys
  BY DEF CacheInv, TypeOK, ReadsFresh
<1>1. TypeOK'
  <2>1. overtaken' \in [Threads -> BOOLEAN]
    BY Zenon DEF CacheInv, TypeOK
  <2>2. pc' \in [Threads -> {"idle", "query", "fill", "insert", "scan", "delete"}] /\ DOMAIN got' = Threads
    BY DEF CacheInv, TypeOK
  <2>. QED
    BY <2>1, <2>2 DEF CacheInv, TypeOK
<1>2. AuthorsKnown'
  BY <1>0 DEF CacheInv, AuthorsKnown
<1>3. ReadsFresh'
  <2>1. \A k \in Keys : Answer(k)' = Answer(k)
    BY SameDocs
  <2>2. got'[t] = Answer(key[t]) /\ \A s \in Threads \ {t} : got'[s] = got[s]
    BY DEF CacheInv, TypeOK
  <2>3. \A s \in Threads \ {t} : overtaken'[s] = overtaken[s]
    BY Zenon DEF CacheInv, TypeOK
  <2>. QED
    BY <1>0, <2>1, <2>2, <2>3 DEF CacheInv, ReadsFresh
<1>4. ScansBusy'
  BY <1>0 DEF CacheInv, ScansBusy
<1>5. StaleIsExplained'
  <2>1. \A s \in Threads : Pending(s)' = Pending(s)
    BY <1>0, PendingSame
  <2>2. \A k \in Keys : Fresh(k)' <=> Fresh(k)
    BY SameDocs DEF Fresh
  <2>. QED
    BY <2>1, <2>2 DEF CacheInv, StaleIsExplained
<1>. QED
  BY <1>1, <1>2, <1>3, <1>4, <1>5 DEF CacheInv

\* cache_set stores the page, or fails.
LEMMA Fills ==
    ASSUME CacheInv, NEW t \in Threads, Fill(t) \/ SetFails(t)
    PROVE  CacheInv'
<1>. USE DEF Fill, SetFails, SetEx, EndRead, Goto, docs, redis, scans
<1>0. /\ pc[t] = "fill" /\ pc'[t] = "idle" /\ \A s \in Threads \ {t} : pc'[s] = pc[s]
      /\ key[t] \in Keys
      /\ UNCHANGED <<users, posts, author, todo, found, writes>>
  BY DEF CacheInv, TypeOK, ReadsFresh
<1>1. TypeOK'
  <2>1. overtaken' \in [Threads -> BOOLEAN]
    BY Zenon DEF CacheInv, TypeOK
  <2>2. pc' \in [Threads -> {"idle", "query", "fill", "insert", "scan", "delete"}]
    BY DEF CacheInv, TypeOK
  <2>3. key' \in [Threads -> Keys \union {NoKey}] /\ DOMAIN got' = Threads
    BY DEF CacheInv, TypeOK
  <2>4. cached' \subseteq Keys /\ timed' \subseteq Keys /\ DOMAIN page' = Keys /\ excused' \subseteq Keys
    BY <1>0 DEF CacheInv, TypeOK
  <2>5. faults' \in 0..MaxFaults
    BY ApiAssumption DEF CacheInv, TypeOK, Fault
  <2>. QED
    BY <1>0, <2>1, <2>2, <2>3, <2>4, <2>5 DEF CacheInv, TypeOK
<1>2. AuthorsKnown'
  BY <1>0 DEF CacheInv, AuthorsKnown
<1>3. ReadsFresh'
  <2>1. \A k \in Keys : Answer(k)' = Answer(k)
    BY <1>0, SameDocs
  <2>2. \A s \in Threads \ {t} : got'[s] = got[s] /\ key'[s] = key[s]
    BY DEF CacheInv, TypeOK
  <2>3. \A s \in Threads \ {t} : overtaken'[s] = overtaken[s]
    BY Zenon DEF CacheInv, TypeOK
  <2>. QED
    BY <1>0, <2>1, <2>2, <2>3 DEF CacheInv, ReadsFresh
<1>4. ScansBusy'
  BY <1>0 DEF CacheInv, ScansBusy
<1>5. ASSUME NEW k \in Keys PROVE Fresh(k)' \/ k \in excused' \/ \E s \in Threads : k \in Pending(s)'
  <2>1. \A s \in Threads : Pending(s)' = Pending(s)
    BY <1>0, PendingSame
  <2>2. Answer(k)' = Answer(k)
    BY <1>0, SameDocs
  <2>3. CASE Fill(t) /\ k = key[t] /\ overtaken[t]
    BY <2>3
  <2>4. CASE Fill(t) /\ k = key[t] /\ ~overtaken[t]
    <3>1. page'[k] = got[t]
      BY <2>4 DEF CacheInv, TypeOK
    <3>2. got[t] = Answer(k)
      BY <2>4, <1>0 DEF CacheInv, ReadsFresh
    <3>. QED
      BY <2>2, <3>1, <3>2 DEF Fresh
  <2>5. CASE SetFails(t) \/ k # key[t]
    <3>1. (k \in cached' <=> k \in cached) /\ page'[k] = page[k]
      BY <2>5 DEF CacheInv, TypeOK
    <3>2. k \in excused => k \in excused'
      BY <2>5
    <3>. QED
      BY <2>1, <2>2, <3>1, <3>2 DEF Fresh, CacheInv, StaleIsExplained
  <2>. QED
    BY <2>3, <2>4, <2>5
<1>. QED
  BY <1>1, <1>2, <1>3, <1>4, <1>5 DEF CacheInv, StaleIsExplained

\* SCAN begins: what it will not return is not in Redis.
LEMMA Scans ==
    ASSUME CacheInv, NEW t \in Threads, Scan(t)
    PROVE  CacheInv'
<1>. USE DEF Scan, Goto, docs, redis, reads
<1>0. pc[t] = "scan" /\ pc'[t] = "delete" /\ \A s \in Threads \ {t} : pc'[s] = pc[s]
  BY DEF CacheInv, TypeOK
<1>1. TypeOK'
  BY DEF CacheInv, TypeOK, OfPrefix
<1>2. AuthorsKnown' /\ ScansBusy'
  BY <1>0 DEF CacheInv, AuthorsKnown, ScansBusy
<1>3. ReadsFresh'
  BY <1>0, SameDocs DEF CacheInv, ReadsFresh
<1>4. ASSUME NEW k \in Keys PROVE Fresh(k)' \/ k \in excused' \/ \E s \in Threads : k \in Pending(s)'
  <2>1. \A s \in Threads \ {t} : Pending(s)' = Pending(s)
    BY <1>0, PendingSame DEF CacheInv, TypeOK
  <2>2. Fresh(k)' <=> Fresh(k)
    BY SameDocs DEF Fresh
  <2>3. ASSUME k \in Pending(t), k \in cached PROVE k \in Pending(t)'
    <3>1. PICK i \in 1..Len(todo[t]) : k[1] = todo[t][i]
      BY <1>0, <2>3 DEF Pending
    <3>2. todo[t] \in Seq(Prefixes) /\ todo[t] # <<>>
      BY <1>0 DEF CacheInv, TypeOK, ScansBusy
    <3>3. found'[t] = cached \intersect OfPrefix(todo[t][1])
      BY <3>2 DEF CacheInv, TypeOK
    <3>4. i = 1 \/ i \in 2..Len(todo[t])
      BY <3>2
    <3>. QED
      BY <1>0, <2>3, <3>1, <3>3, <3>4 DEF Pending, OfPrefix
  <2>. QED
    BY <2>1, <2>2, <2>3 DEF CacheInv, StaleIsExplained, Fresh
<1>. QED
  BY <1>1, <1>2, <1>3, <1>4 DEF CacheInv, StaleIsExplained

\* A page goes, by DEL or because its time is over.
LEMMA Removes ==
    ASSUME CacheInv, NEW x \in Keys, Expire(x) \/ \E t \in Threads : DeleteKey(t, x)
    PROVE  CacheInv'
<1>0. /\ Remove(x)
      /\ UNCHANGED <<users, posts, pc, key, got, author, todo, overtaken, writes, faults>>
  BY DEF Expire, DeleteKey, docs, reads
<1>1. TypeOK'
  BY <1>0 DEF CacheInv, TypeOK, Remove
<1>2. AuthorsKnown' /\ ScansBusy'
  BY <1>0 DEF CacheInv, AuthorsKnown, ScansBusy
<1>3. ReadsFresh'
  BY <1>0, SameDocs DEF CacheInv, ReadsFresh, docs
<1>4. ASSUME NEW k \in Keys PROVE Fresh(k)' \/ k \in excused' \/ \E s \in Threads : k \in Pending(s)'
  <2>1. CASE k = x
    BY <1>0, <2>1 DEF Fresh, Remove
  <2>2. CASE k # x
    <3>1. Fresh(k) => Fresh(k)'
      BY <1>0, <2>2, SameDocs DEF Fresh, Remove, docs, CacheInv, TypeOK
    <3>2. ASSUME NEW s \in Threads, k \in Pending(s) PROVE k \in Pending(s)'
      <4>1. k \in found[s] => k \in found'[s]
        BY <1>0, <2>2 DEF Remove
      <4>. QED
        BY <1>0, <3>2, <4>1 DEF Pending
    <3>3. k \in excused => k \in excused'
      BY <1>0, <2>2 DEF Remove
    <3>. QED
      BY <3>1, <3>2, <3>3 DEF CacheInv, StaleIsExplained
  <2>. QED
    BY <2>1, <2>2
<1>. QED
  BY <1>1, <1>2, <1>3, <1>4 DEF CacheInv, StaleIsExplained

LEMMA Predecessor == \A n \in Nat : n > 1 => n - 1 # 0
  OBVIOUS

LEMMA TailNotEmpty ==
    ASSUME NEW S, NEW s \in Seq(S), Len(s) > 1
    PROVE  Tail(s) # <<>>
<1>1. Len(s) \in Nat /\ Len(<<>>) = 0
  OBVIOUS
<1>2. Len(Tail(s)) = Len(s) - 1
  OBVIOUS
<1>3. Len(Tail(s)) # 0
  BY <1>1, <1>2, Predecessor, Zenon
<1>. QED
  BY <1>1, <1>3, Zenon

\* The loop over the keys of a prefix ends, all deleted or by an error.
LEMMA PrefixDone ==
    ASSUME CacheInv, NEW t \in Threads, ScanEnds(t) \/ InvalidationFails(t)
    PROVE  CacheInv'
<1>. USE DEF ScanEnds, InvalidationFails, NextPrefix, Goto, docs, redis, reads
<1>0. /\ pc[t] \in {"scan", "delete"}
      /\ pc'[t] = (IF Len(todo[t]) > 1 THEN "scan" ELSE "idle")
      /\ \A s \in Threads \ {t} : pc'[s] = pc[s] /\ todo'[s] = todo[s] /\ found'[s] = found[s]
      /\ todo'[t] = Tail(todo[t])
      /\ UNCHANGED <<users, posts, cached, timed, page, key, got, author, overtaken, writes>>
  BY DEF CacheInv, TypeOK
<1>a. todo[t] \in Seq(Prefixes) /\ todo[t] # <<>>
  BY <1>0 DEF CacheInv, TypeOK, ScansBusy
<1>b. /\ Tail(todo[t]) \in Seq(Prefixes)
      /\ Len(Tail(todo[t])) = Len(todo[t]) - 1
      /\ \A i \in 2..Len(todo[t]) : i - 1 \in 1..Len(Tail(todo[t])) /\ Tail(todo[t])[i - 1] = todo[t][i]
  BY <1>a
<1>1. TypeOK'
  <2>1. pc' \in [Threads -> {"idle", "query", "fill", "insert", "scan", "delete"}]
    BY DEF CacheInv, TypeOK
  <2>2. todo' \in [Threads -> Seq(Prefixes)]
    <3>1. todo' = [todo EXCEPT ![t] = Tail(todo[t])]
      OBVIOUS
    <3>2. todo \in [Threads -> Seq(Prefixes)]
      BY DEF CacheInv, TypeOK
    <3>. HIDE DEF ScanEnds, InvalidationFails
    <3>. QED
      BY <1>b, <3>1, <3>2
  <2>3. found' \in [Threads -> SUBSET Keys] /\ excused' \subseteq Keys
    <3>1. /\ found' = found \/ found' = [found EXCEPT ![t] = {}]
          /\ excused' \subseteq excused \union cached \union found[t]
      OBVIOUS
    <3>2. found \in [Threads -> SUBSET Keys] /\ excused \subseteq Keys /\ cached \subseteq Keys
      BY DEF CacheInv, TypeOK
    <3>. HIDE DEF ScanEnds, InvalidationFails
    <3>. QED
      BY <3>1, <3>2
  <2>4. faults' \in 0..MaxFaults
    BY ApiAssumption DEF CacheInv, TypeOK, Fault
  <2>. QED
    BY <1>0, <2>1, <2>2, <2>3, <2>4 DEF CacheInv, TypeOK
<1>2. AuthorsKnown'
  BY <1>0 DEF CacheInv, AuthorsKnown
<1>3. ReadsFresh'
  <2>1. \A k \in Keys : Answer(k)' = Answer(k)
    BY <1>0, SameDocs
  <2>2. \A s \in Threads : pc'[s] \in {"query", "fill"} => pc[s] = pc'[s]
    BY <1>0
  <2>. QED
    BY <1>0, <2>1, <2>2 DEF CacheInv, ReadsFresh
<1>4. ScansBusy'
  <2>1. ASSUME pc'[t] = "scan" PROVE todo'[t] # <<>>
    <3>. HIDE DEF ScanEnds, InvalidationFails, NextPrefix, Goto, docs, redis, reads
    <3>1. Len(todo[t]) > 1
      BY <1>0, <2>1
    <3>. QED
      BY <1>0, <1>a, <3>1, TailNotEmpty
  <2>. QED
    BY <1>0, <2>1 DEF CacheInv, ScansBusy
<1>5. ASSUME NEW k \in Keys PROVE Fresh(k)' \/ k \in excused' \/ \E s \in Threads : k \in Pending(s)'
  <2>1. \A s \in Threads \ {t} : Pending(s)' = Pending(s)
    BY <1>0, PendingSame
  <2>2. Fresh(k)' <=> Fresh(k)
    BY <1>0, SameDocs DEF Fresh
  <2>3. excused \subseteq excused'
    OBVIOUS
  <2>4. ASSUME k \in Pending(t), k \in cached PROVE k \in excused' \/ k \in Pending(t)'
    <3>1. CASE \E i \in 2..Len(todo[t]) : k[1] = todo[t][i]
      <4>1. PICK i \in 2..Len(todo[t]) : k[1] = todo[t][i]
        BY <3>1
      <4>2. pc'[t] = "scan"
        BY <1>0, <1>a, <4>1
      <4>3. k[1] = todo'[t][i - 1] /\ i - 1 \in 1..Len(todo'[t])
        BY <1>0, <1>b, <4>1
      <4>. QED
        BY <4>2, <4>3 DEF Pending
    <3>2. CASE pc[t] = "scan" /\ k[1] = todo[t][1]
      <4>1. Head(todo[t]) = todo[t][1]
        BY <1>a
      <4>. QED
        BY <2>4, <3>2, <4>1 DEF OfPrefix
    <3>3. CASE pc[t] = "delete" /\ k \in found[t]
      BY <3>3
    <3>4. pc[t] = "scan" => \E i \in 1..Len(todo[t]) : k[1] = todo[t][i]
      BY <2>4 DEF Pending
    <3>5. \A i \in 1..Len(todo[t]) : i = 1 \/ i \in 2..Len(todo[t])
      BY <1>a
    <3>. QED
      BY <1>0, <2>4, <3>1, <3>2, <3>3, <3>4, <3>5 DEF Pending
  <2>. QED
    BY <1>0, <2>1, <2>2, <2>3, <2>4 DEF CacheInv, StaleIsExplained, Fresh
<1>. QED
  BY <1>1, <1>2, <1>3, <1>4, <1>5 DEF CacheInv, StaleIsExplained

\* Handlers end where they are, by an error of MongoDB or a crash of the API.
LEMMA Abandons ==
    ASSUME CacheInv, ApiCrash \/ \E t \in Threads : MongoFails(t)
    PROVE  CacheInv'
<1>1. PICK S \in SUBSET Threads : Abandon(S) /\ Fault
  BY DEF ApiCrash, MongoFails
<1>. USE <1>1 DEF Abandon, docs, redis
<1>2. TypeOK'
  <2>1. overtaken' \in [Threads -> BOOLEAN]
    BY Zenon
  <2>2. pc' \in [Threads -> {"idle", "query", "fill", "insert", "scan", "delete"}]
    BY DEF CacheInv, TypeOK
  <2>3. key' \in [Threads -> Keys \union {NoKey}] /\ DOMAIN got' = Threads
    BY DEF CacheInv, TypeOK
  <2>4. author' \in [Threads -> Users \union {Nobody}]
    BY DEF CacheInv, TypeOK
  <2>5. todo' \in [Threads -> Seq(Prefixes)]
    BY DEF CacheInv, TypeOK
  <2>6. found' \in [Threads -> SUBSET Keys] /\ excused' \subseteq Keys
    BY DEF CacheInv, TypeOK
  <2>7. faults' \in 0..MaxFaults
    BY ApiAssumption DEF CacheInv, TypeOK, Fault
  <2>. QED
    BY <2>1, <2>2, <2>3, <2>4, <2>5, <2>6, <2>7 DEF CacheInv, TypeOK
<1>3. \A s \in Threads : pc'[s] # "idle" => s \notin S /\ pc'[s] = pc[s]
  OBVIOUS
<1>4. AuthorsKnown' /\ ScansBusy'
  BY <1>3 DEF CacheInv, AuthorsKnown, ScansBusy
<1>5. ReadsFresh'
  <2>1. \A k \in Keys : Answer(k)' = Answer(k)
    BY SameDocs
  <2>2. \A s \in Threads \ S : got'[s] = got[s] /\ key'[s] = key[s]
    OBVIOUS
  <2>3. \A s \in Threads \ S : overtaken'[s] <=> overtaken[s]
    BY Zenon
  <2>. QED
    BY <1>3, <2>1, <2>2, <2>3 DEF CacheInv, ReadsFresh
<1>6. StaleIsExplained'
  <2>1. \A s \in Threads \ S : Pending(s)' = Pending(s)
    BY PendingSame
  <2>2. \A k \in Keys : Fresh(k)' <=> Fresh(k)
    BY SameDocs DEF Fresh
  <2>3. \A k \in cached : \A s \in S : k \in Pending(s) => k \in excused'
    OBVIOUS
  <2>. QED
    BY <2>1, <2>2, <2>3 DEF CacheInv, StaleIsExplained, Fresh
<1>. QED
  BY <1>2, <1>4, <1>5, <1>6 DEF CacheInv

-----------------------------------------------------------------------------
LEMMA CacheInit == Init => CacheInv
<1>. SUFFICES ASSUME Init PROVE CacheInv
  OBVIOUS
<1>1. TypeOK
  <2>1. posts \in [Posts -> Post]
    <3>. DEFINE NewPost == [author : {u \in Users : Stored(u)} \union {Nobody},
                           content : {"text"}, likes : {{}}, comments : {0}]
    <3>1. posts \in [Posts -> NewPost]
      BY DEF Init
    <3>2. ASSUME NEW x \in NewPost PROVE x \in Post
      <4>1. /\ x.author \in Users \union {Nobody} /\ x.content = "text" /\ x.likes = {} /\ x.comments = 0
            /\ x = [author |-> x.author, content |-> x.content, likes |-> x.likes, comments |-> x.comments]
        OBVIOUS
      <4>2. x.likes \in SUBSET Users /\ x.comments \in Nat /\ x.content \in Contents
        BY <4>1 DEF Contents
      <4>. HIDE DEF NewPost
      <4>3. [author |-> x.author, content |-> x.content, likes |-> x.likes, comments |-> x.comments] \in Post
        BY <4>1, <4>2, Zenon DEF Post
      <4>. QED
        BY <4>1, <4>3
    <3>. HIDE DEF NewPost
    <3>. QED
      BY <3>1, <3>2
  <2>2. overtaken \in [Threads -> BOOLEAN]
    BY Zenon DEF Init
  <2>. QED
    BY <2>1, <2>2, ApiAssumption DEF Init, TypeOK
<1>2. AuthorsKnown
  BY ApiAssumption DEF Init, AuthorsKnown, Stored
<1>3. ReadsFresh /\ ScansBusy /\ StaleIsExplained
  BY DEF Init, ReadsFresh, ScansBusy, StaleIsExplained, Fresh
<1>. QED
  BY <1>1, <1>2, <1>3 DEF CacheInv

LEMMA CacheStep == CacheInv /\ [Next]_vars => CacheInv'
<1>. SUFFICES ASSUME CacheInv, [Next]_vars PROVE CacheInv'
  OBVIOUS
<1>1. ASSUME NEW t \in Threads, Read(t) PROVE CacheInv'
  BY <1>1, Starts, Queries, Fills DEF Read
<1>2. ASSUME NEW t \in Threads, Write(t) PROVE CacheInv'
  BY <1>2, UserWrites, PostWrites, Starts DEF Write
<1>3. ASSUME NEW t \in Threads, Invalidate(t) PROVE CacheInv'
  BY <1>3, Scans, PrefixDone, Removes DEF Invalidate
<1>4. CASE ApiCrash \/ \E t \in Threads : MongoFails(t)
  BY <1>4, Abandons
<1>5. ASSUME NEW k \in Keys, Expire(k) PROVE CacheInv'
  BY <1>5, Removes
<1>6. CASE UNCHANGED vars
  <2>1. UNCHANGED <<users, posts, cached, timed, page, pc, key, got, author, todo, found, overtaken, excused, writes, faults>>
    BY <1>6 DEF vars, docs, redis, reads, scans
  <2>2. TypeOK' /\ AuthorsKnown' /\ ScansBusy'
    BY <2>1 DEF CacheInv, TypeOK, AuthorsKnown, ScansBusy
  <2>3. \A k \in Keys : Answer(k)' = Answer(k)
    BY <2>1, SameDocs DEF docs
  <2>4. ReadsFresh'
    BY <2>1, <2>3 DEF CacheInv, ReadsFresh
  <2>5. \A t \in Threads : Pending(t)' = Pending(t)
    BY <2>1, PendingSame
  <2>6. StaleIsExplained'
    BY <2>1, <2>3, <2>5 DEF CacheInv, StaleIsExplained, Fresh
  <2>. QED
    BY <2>2, <2>4, <2>6 DEF CacheInv
<1>. QED
  BY <1>1, <1>2, <1>3, <1>4, <1>5, <1>6 DEF Next

\* The inductive invariant holds of every behaviour of mongo-api.
THEOREM CacheInvariant == Spec => []CacheInv
<1>. QED
  BY CacheInit, CacheStep, PTL DEF Spec

\* However many handlers interleave and fail, a page in Redis that is not
\* what MongoDB would answer (api.py:153-230, 233-334, 411-466) was filled by
\* an overtaken read or left by a broken invalidation, or is about to go.
THEOREM StalePagesExplained == Spec => []StaleIsExplained
<1>1. CacheInv => StaleIsExplained
  BY DEF CacheInv
<1>. QED
  BY <1>1, CacheInvariant, PTL
=============================================================================
