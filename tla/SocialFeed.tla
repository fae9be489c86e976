----------------------------- MODULE SocialFeed -----------------------------
(***************************************************************************)
(* capstone/c00-social-feed: FanOutWorker.processPostCreated, which pushes *)
(* a new post into the cached feeds of its author's followers, and         *)
(* FeedService.getTimeline, which serves a timeline from the cached feed   *)
(* and the posts of celebrities, or rebuilds it from the database.         *)
(*                                                                         *)
(* Both are asynchronous: an action runs from one await to the next, so    *)
(* workers, timeline calls and the expiry of a feed interleave at the      *)
(* awaits.  Reads of the follow graph, which does not change here, are     *)
(* merged with the step before them.                                       *)
(*                                                                         *)
(* Posts are numbered in the order of createdAt.  A cached feed is a Redis *)
(* sorted set with the post ids as members: a set of posts, absent when    *)
(* empty.  A timeline is a set of entries <<post, source>>, because the    *)
(* arrays the code merges can hold a post twice.                           *)
(***************************************************************************)
EXTENDS Integers, Sequences, FiniteSets

CONSTANTS
  Users, Authors,        \* authors are the users that post
  Follows,               \* pairs <<follower, followee>>
  Devices, Owner,        \* each device asks for its owner's timeline
  Limits,                \* the page sizes devices ask for
  Celebrities,           \* users above CELEBRITY_FOLLOWER_THRESHOLD at first
  MaxPosts,              \* bound: posts
  MaxDisturbances        \* bound: redeliveries, crossings and lapses together

ASSUME FeedAssumption ==
  /\ Authors \subseteq Users
  /\ Celebrities \subseteq Users
  /\ Follows \subseteq Users \X Users
  /\ Owner \in [Devices -> Users]
  /\ Limits \subseteq Int
  /\ {MaxPosts, MaxDisturbances} \subseteq Nat

VARIABLES
  posts,                 \* the author of each post, oldest post first
  celebrity,             \* users whose followerCount is above the threshold
  feed,                  \* Redis: the posts in feed:<user>
  expiring,              \* Redis: does feed:<user> have a TTL?
  job,                   \* the fan-out of each post
  call,                  \* the timeline call of each device
  redelivered, crossed,  \* how often each happened, for the bounds
  newest,                \* history: newest post in a user's last timeline
  raced,                 \* history: pushes in a window of a timeline call
  lapsed                 \* history: users whose feed expired in such a window

dbVars == <<posts, celebrity, crossed>>
cacheVars == <<feed, expiring>>
windows == <<raced, lapsed>>
vars == <<dbVars, cacheVars, job, call, redelivered, newest, windows>>
-----------------------------------------------------------------------------
PostIds == 1..MaxPosts
Pulled == 0
Pushed == 1

Followers(u) == {v \in Users : <<v, u>> \in Follows}
(* db.getFollowers(userId) as getTimeline uses it.                         *)
Followees(u) == {v \in Users : <<u, v>> \in Follows}

PostsBy(S) == {p \in DOMAIN posts : posts[p] \in S}

(* The n newest of a set of posts, and the first n of merged entries: by   *)
(* createdAt, a cached entry before a pulled one of the same post.         *)
Newest(S, n) == {p \in S : Cardinality({q \in S : q > p}) < n}
Rank(e) == 2 * e[1] + e[2]
SliceOldest(S, n) == {e \in S : Cardinality({f \in S : Rank(f) < Rank(e)}) < n}   \* mutant
Slice(S, n) == {e \in S : Cardinality({f \in S : Rank(f) > Rank(e)}) < n}
PostsOf(S) == {e[1] : e \in S}
NewestOf(S) == IF S = {} THEN 0 ELSE CHOOSE p \in S : \A q \in S : q <= p

FinalLimit(n) == IF n < 1 THEN 1 ELSE n

NoJob == [at |-> "none", todo |-> {}, to |-> {}]
NoCall == [at |-> "idle", limit |-> 1, entries |-> {}, celebrities |-> {}, owed |-> {}]

Init ==
  /\ posts = <<>>
  /\ celebrity = Celebrities
  /\ feed = [u \in Users |-> {}]
  /\ expiring = [u \in Users |-> FALSE]
  /\ job = [p \in PostIds |-> NoJob]
  /\ call = [d \in Devices |-> NoCall]
  /\ redelivered = 0
  /\ crossed = 0
  /\ newest = [u \in Users |-> 0]
  /\ raced = {}
  /\ lapsed = {}

Disturbances == redelivered + crossed + Cardinality(lapsed)

Running(p) == job[p].at = "fanout"
Busy(d) == call[d].at # "idle"
-----------------------------------------------------------------------------
(* The post is saved and its event published; a delay between the two is   *)
(* a delay of the worker.                                                  *)
Post(a) ==
  /\ Len(posts) < MaxPosts
  /\ posts' = Append(posts, a)
  /\ job' = [job EXCEPT ![Len(posts) + 1].at = "queued"]
  /\ UNCHANGED <<celebrity, crossed, cacheVars, call, redelivered, newest, windows>>

(* The broker delivers at least once: again after the worker finished, or  *)
(* to another worker after it crashed.                                     *)
Redeliver(p) ==
  /\ Disturbances < MaxDisturbances
  /\ job[p].at \in {"fanout", "done"}
  /\ job' = [job EXCEPT ![p] = [NoJob EXCEPT !.at = "queued"]]
  /\ redelivered' = redelivered + 1
  /\ UNCHANGED <<dbVars, cacheVars, call, newest, windows>>

(* An author's follower count crosses the threshold.                       *)
Cross(a) ==
  /\ Disturbances < MaxDisturbances
  /\ crossed' = crossed + 1
  /\ celebrity' = (celebrity \cup {a}) \ (celebrity \cap {a})
  /\ UNCHANGED <<posts, cacheVars, job, call, redelivered, newest, windows>>

(* Redis deletes a feed whose TTL has passed, perhaps one that hasFeed saw *)
(* and that is about to be read or pushed to.                              *)
InUse(u) ==
  \/ \E p \in PostIds : u \in job[p].to
  \/ \E d \in Devices : Owner[d] = u /\ call[d].at = "getFeed"

Expire(u) ==
  /\ expiring[u]
  /\ InUse(u) => u \in lapsed \/ Disturbances < MaxDisturbances
  /\ lapsed' = IF InUse(u) THEN lapsed \cup {u} ELSE lapsed
  /\ feed' = [feed EXCEPT ![u] = {}]
  /\ expiring' = [expiring EXCEPT ![u] = FALSE]
  /\ UNCHANGED <<dbVars, job, call, redelivered, newest, raced>>
-----------------------------------------------------------------------------
EverybodyActive(u) == TRUE   \* mutant
HasFeed(u) == feed[u] # {}

Fanout(todo, to) == [at |-> IF todo = {} THEN "done" ELSE "fanout", todo |-> todo, to |-> to]

(* processPostCreated: the author is looked up; nothing is pushed for a    *)
(* celebrity.                                                              *)
StartFanout(p) ==
  /\ job[p].at = "queued"
  /\ job' = [job EXCEPT ![p] =
               Fanout(IF posts[p] \in celebrity THEN {} ELSE Followers(posts[p]), {})]
  /\ UNCHANGED <<dbVars, cacheVars, call, redelivered, newest, windows>>

(* A call of the follower f has read what it will write back to f's feed.  *)
Rewriting(f) ==
  \E d \in Devices : Owner[d] = f /\ call[d].at \in {"getUsers", "pull", "refresh", "hydrate"}
Reach(p, f) == raced' = IF Rewriting(f) THEN raced \cup {<<f, p>>} ELSE raced

StopAtInactive(todo, f) == {}   \* mutant
SkipInactive(todo, f) == todo \ {f}

(* The loop asks for one follower, in the order of the rows, whether its   *)
(* feed is cached,                                                         *)
CheckFollower(p, f) ==
  /\ Running(p)
  /\ Reach(p, f)
  /\ job[p].to = {}
  /\ f \in job[p].todo
  /\ job' = [job EXCEPT ![p] = IF HasFeed(f) THEN Fanout(job[p].todo, {f})
                               ELSE Fanout(SkipInactive(job[p].todo, f), {})]
  /\ UNCHANGED <<dbVars, cacheVars, call, redelivered, newest, lapsed>>

(* and pushes to it if it was: ZADD, which creates an absent key without a *)
(* TTL.                                                                    *)
PushToFeed(p, f) ==
  /\ Running(p)
  /\ Reach(p, f)
  /\ f \in job[p].to
  /\ feed' = [feed EXCEPT ![f] = @ \cup {p}]
  /\ job' = [job EXCEPT ![p] = Fanout(job[p].todo \ {f}, {})]
  /\ UNCHANGED <<dbVars, expiring, call, redelivered, newest, lapsed>>
-----------------------------------------------------------------------------
(* hydrateFeed: DEL, ZADD of what there is to add, EXPIRE.                 *)
HydrateFeed(u, S) ==
  /\ feed' = [feed EXCEPT ![u] = S]
  /\ expiring' = [expiring EXCEPT ![u] = S # {}]

(* The timeline a call returns in its last step: what was cached, for a    *)
(* reader without followees, or the first page of what it collected.       *)
Cached(d) == {<<p, Pushed>> : p \in Newest(feed[Owner[d]], call[d].limit)}
Page(d) ==
  IF call[d].at = "getFeed" THEN Cached(d) ELSE Slice(call[d].entries, call[d].limit)

Return(d) ==
  /\ call' = [call EXCEPT ![d] = NoCall]
  /\ newest' = [newest EXCEPT ![Owner[d]] = NewestOf(PostsOf(Page(d)))]

(* getTimeline: is the feed cached?  "owed" is history: the posts whose    *)
(* fan-out was over when the call was made.                                *)
AskTimeline(d, limit) ==
  /\ ~Busy(d)
  /\ call' = [call EXCEPT ![d] =
       [NoCall EXCEPT !.at = IF HasFeed(Owner[d]) THEN "getFeed" ELSE "query",
                      !.limit = FinalLimit(limit),
                      !.owed = {p \in PostsBy(Followees(Owner[d])) : job[p].at = "done"}]]
  /\ UNCHANGED <<dbVars, cacheVars, job, redelivered, newest, windows>>

(* Hit: the cached entries; without followees they are the answer.         *)
GetFeed(d) ==
  /\ call[d].at = "getFeed"
  /\ IF Followees(Owner[d]) = {}
     THEN Return(d)
     ELSE /\ call' = [call EXCEPT ![d].at = "getUsers", ![d].entries = Cached(d)]
          /\ UNCHANGED newest
  /\ UNCHANGED <<dbVars, cacheVars, job, redelivered, windows>>

AboveThreshold(S) == S \cap celebrity

(* Hit: which followees are celebrities now?                               *)
FindCelebrities(d) ==
  LET found == AboveThreshold(Followees(Owner[d])) IN
  /\ call[d].at = "getUsers"
  /\ call' = [call EXCEPT ![d].at = IF found = {} THEN "refresh" ELSE "pull",
                          ![d].celebrities = found]
  /\ UNCHANGED <<dbVars, cacheVars, job, redelivered, newest, windows>>

(* Hit: their newest posts.                                                *)
Pull(d) ==
  /\ call[d].at = "pull"
  /\ call' = [call EXCEPT ![d].at = "refresh", ![d].entries = @ \cup
       {<<p, Pulled>> : p \in Newest(PostsBy(call[d].celebrities), call[d].limit)}]
  /\ UNCHANGED <<dbVars, cacheVars, job, redelivered, newest, windows>>

(* Hit: the page replaces the cached feed and is returned.                 *)
Refresh(d) ==
  /\ call[d].at = "refresh"
  /\ HydrateFeed(Owner[d], PostsOf(Page(d)))
  /\ Return(d)
  /\ UNCHANGED <<dbVars, job, redelivered, windows>>

(* Miss: five pages of the followees' newest posts                         *)
Query(d) ==
  /\ call[d].at = "query"
  /\ call' = [call EXCEPT ![d].at = "hydrate", ![d].entries =
       {<<p, Pulled>> : p \in Newest(PostsBy(Followees(Owner[d])), call[d].limit * 5)}]
  /\ UNCHANGED <<dbVars, cacheVars, job, redelivered, newest, windows>>

(* become the cached feed, and the first page is returned.                 *)
Hydrate(d) ==
  /\ call[d].at = "hydrate"
  /\ HydrateFeed(Owner[d], PostsOf(call[d].entries))
  /\ Return(d)
  /\ UNCHANGED <<dbVars, job, redelivered, windows>>
-----------------------------------------------------------------------------
Worker(p) ==
  \/ StartFanout(p)
  \/ \E f \in Users : CheckFollower(p, f) \/ PushToFeed(p, f)

Timeline(d) ==
  \/ GetFeed(d)
  \/ FindCelebrities(d)
  \/ Pull(d)
  \/ Refresh(d)
  \/ Query(d)
  \/ Hydrate(d)

Next ==
  \/ \E a \in Authors : Post(a) \/ Cross(a)
  \/ \E p \in PostIds : Redeliver(p) \/ Worker(p)
  \/ \E u \in Users : Expire(u)
  \/ \E d \in Devices, n \in Limits : AskTimeline(d, n)
  \/ \E d \in Devices : Timeline(d)

Spec == Init /\ [][Next]_vars
-----------------------------------------------------------------------------
Entries == PostIds \X {Pulled, Pushed}

(* Every variable has its type; a page size is at least one.               *)
TypeOK ==
  /\ posts \in Seq(Authors) /\ Len(posts) <= MaxPosts
  /\ celebrity \subseteq Users
  /\ feed \in [Users -> SUBSET PostIds]
  /\ expiring \in [Users -> BOOLEAN]
  /\ \A p \in PostIds :
       /\ job[p].at \in {"none", "queued", "fanout", "done"}
       /\ job[p].to \subseteq job[p].todo
       /\ job[p].todo \subseteq Users
  /\ \A d \in Devices :
       /\ call[d].limit \in Nat \ {0}
       /\ call[d].entries \subseteq Entries
       /\ call[d].owed \subseteq PostIds
  /\ newest \in [Users -> 0..MaxPosts]
  /\ raced \subseteq Users \X PostIds
  /\ lapsed \subseteq Users

Returns(d) == Busy(d) /\ call'[d].at = "idle"

(* The user asks from one device, so that calls for one timeline do not    *)
(* overlap; everybody asks for pages of one size.                          *)
OneDevice(u) == \A d, e \in Devices : Owner[d] = u /\ Owner[e] = u => d = e
OnePageSize == \A m, n \in Limits : FinalLimit(m) = FinalLimit(n)

(* A post of a followed author whose fan-out was over when the call was    *)
(* made is missing from a page only if the page is full of newer entries,  *)
(* whether it was pushed, skipped because the feed was not cached, or left *)
(* for the pull: redelivered events, expired feeds, rebuilt feeds and the  *)
(* pages written back lose nothing.  Excluded are the posts that a worker  *)
(* brought while a call was rewriting the feed, feeds that expired between *)
(* a check and its use, authors who crossed the threshold, users with      *)
(* several devices, and pages of several sizes.                            *)
CompleteTimeline ==
  [][\A d \in Devices :
       Returns(d) /\ Owner[d] \notin lapsed /\ crossed = 0 /\ OneDevice(Owner[d]) /\ OnePageSize =>
         \A p \in call[d].owed \ PostsOf(Page(d)) :
           \/ <<Owner[d], p>> \in raced
           \/ Cardinality({e \in Page(d) : e[1] > p}) >= call[d].limit]_vars

(* Two timelines returned to a device one after the other never go back:   *)
(* the newest post of the second is not older than that of the first,      *)
(* unless a feed expired between a check and its use.                      *)
NewestNeverGoesBack ==
  [][\A u \in Users \ lapsed : OneDevice(u) => newest'[u] >= newest[u]]_vars

(* A cached feed always has a TTL: the worker's push, which sets none,     *)
(* only ever adds to a feed that exists, or did when it was checked.       *)
EveryFeedExpires == \A u \in Users \ lapsed : OneDevice(u) /\ HasFeed(u) => expiring[u]

(* Types and TTLs, in every state.                                         *)
Consistent == TypeOK /\ EveryFeedExpires

(* A post is in a returned timeline once, although it can come from the    *)
(* cached feed and from the pull of celebrity posts.                       *)
NoDuplicates ==
  [][\A d \in Devices : Returns(d) => \A e, f \in Page(d) : e[1] = f[1] => e = f]_vars
=============================================================================
