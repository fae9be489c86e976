-------------------------- MODULE SocialFeedProofs --------------------------
(***************************************************************************)
(* Proofs about SocialFeed for any users, follow graph, celebrities, number*)
(* of posts and number of disturbances: cached feeds expire, timelines do  *)
(* not go back, and a page misses no post that it owes.                    *)
(*                                                                         *)
(* The invariant grows in layers.  JobInv is the worker's: whom a fan-out  *)
(* still has to reach.  OriginInv says that what is cached, collected or   *)
(* returned are posts of followees.  The last three are about a user with  *)
(* one device and a feed that never expired in a window: CacheInv, when a  *)
(* feed is there; FreshInv, that it holds a post at least as new as the    *)
(* newest one returned; CoverInv, that it holds every post a worker has    *)
(* passed it, or so many newer ones that no page has room for it.          *)
(***************************************************************************)
EXTENDS SocialFeed, FiniteSetTheorems, WellFoundedInduction, TLAPS

JobStates ==
  [at : {"none", "queued", "fanout", "done"}, todo : SUBSET Users, to : SUBSET Users]
CallStates ==
  [at : {"idle", "getFeed", "getUsers", "pull", "refresh", "query", "hydrate"},
   limit : Nat \ {0}, entries : SUBSET Entries,
   celebrities : SUBSET Users, owed : SUBSET PostIds]
FunctionTypes ==
  /\ job \in [PostIds -> JobStates]
  /\ call \in [Devices -> CallStates]
  /\ crossed \in Nat
TypeInv == TypeOK /\ FunctionTypes

JobInv ==
  \A p \in PostIds :
    /\ p \in DOMAIN posts <=> job[p].at # "none"
    /\ job[p].at = "none" => job[p] = NoJob
    /\ job[p].at # "fanout" => job[p].todo = {}
    /\ \A f \in job[p].todo : p \in PostsBy(Followees(f))

OriginInv ==
  /\ \A u \in Users :
       /\ feed[u] \subseteq PostsBy(Followees(u))
       /\ newest[u] \in {0} \cup PostsBy(Followees(u))
  /\ \A d \in Devices :
       /\ PostsOf(call[d].entries) \subseteq PostsBy(Followees(Owner[d]))
       /\ call[d].celebrities \subseteq Followees(Owner[d])

(* A user with one device whose feed never expired between a check and its *)
(* use.                                                                    *)
Steady(u) == u \in Users \ lapsed /\ OneDevice(u)

CachedFeed(u) ==
  /\ HasFeed(u) => expiring[u]
  /\ \A p \in PostIds : u \in job[p].to => HasFeed(u)
CachedCall(d) ==
  /\ call[d].at = "getFeed" => HasFeed(Owner[d])
  /\ call[d].at \in {"query", "hydrate"} => ~HasFeed(Owner[d])
  /\ call[d].at \in {"getUsers", "pull", "refresh"} => call[d].entries # {}
CacheInv ==
  /\ \A u \in Users : Steady(u) => CachedFeed(u)
  /\ \A d \in Devices : Steady(Owner[d]) => CachedCall(d)

Fresh(S, u) == \E p \in S : p >= newest[u]
FreshCall(d) ==
  /\ call[d].at \in {"getUsers", "pull", "refresh"} =>
       Fresh(PostsOf(call[d].entries), Owner[d])
  /\ call[d].at = "hydrate" =>
       newest[Owner[d]] = 0 \/ Fresh(PostsOf(call[d].entries), Owner[d])
FreshInv ==
  /\ \A u \in Users : Steady(u) /\ HasFeed(u) => Fresh(feed[u], u)
  /\ \A d \in Devices : Steady(Owner[d]) => FreshCall(d)

(* The posts of u's followees, those a worker pushes and those u pulls.    *)
Ordinary(u) == PostsBy(Followees(u) \ celebrity)
Celebrated(u) == PostsBy(AboveThreshold(Followees(u)))
Passed(p, u) == job[p].at \in {"fanout", "done"} /\ u \notin job[p].todo

PageSize == IF Limits = {} THEN 1 ELSE FinalLimit(CHOOSE n \in Limits : TRUE)
Above(S, p) == {q \in S : q > p}
EntriesAbove(E, p) == {e \in E : e[1] > p}

(* The feed holds p, or will fill every page with newer posts, with those  *)
(* that are pulled.                                                        *)
FeedCovers(u, p) ==
  \/ p \in feed[u]
  \/ <<u, p>> \in raced
  \/ Cardinality(Above(feed[u], p)) + Cardinality(Above(Celebrated(u), p)) >= PageSize

(* The same of what call d has read of the feed, and of what it collected  *)
(* in the end.                                                             *)
ReadCovers(d, p) ==
  \/ p \in PostsOf(call[d].entries)
  \/ <<Owner[d], p>> \in raced
  \/ Cardinality(EntriesAbove(call[d].entries, p))
       + Cardinality(Above(Celebrated(Owner[d]), p)) >= PageSize
PageCovers(d, p) ==
  \/ p \in PostsOf(call[d].entries)
  \/ <<Owner[d], p>> \in raced
  \/ Cardinality(EntriesAbove(call[d].entries, p)) >= PageSize

(* What a feed holds, and what a call knows at each of its awaits.         *)
FeedKnows(u) == \A p \in Ordinary(u) : Passed(p, u) => FeedCovers(u, p)
CallKnows(d) ==
  LET u == Owner[d]
      due(p) == p \in call[d].owed \/ (p \in Ordinary(u) /\ Passed(p, u))
      at == call[d].at
  IN /\ at # "idle" => call[d].limit = PageSize /\ call[d].owed \subseteq PostsBy(Followees(u))
     /\ at = "getFeed" => \A p \in Ordinary(u) \cap call[d].owed : FeedCovers(u, p)
     /\ at \in {"getUsers", "pull"} =>
          /\ \A e \in call[d].entries : e[2] = Pushed
          /\ \A p \in Ordinary(u) : due(p) => ReadCovers(d, p)
     /\ at = "pull" => call[d].celebrities = AboveThreshold(Followees(u))
     /\ at = "refresh" => \A e \in call[d].entries : e[2] = Pulled => e[1] \in Celebrated(u)
     /\ at = "hydrate" => \A e \in call[d].entries : e[2] = Pulled
     /\ at \in {"refresh", "hydrate"} =>
          \A p \in PostsBy(Followees(u)) : due(p) => PageCovers(d, p)

CoverInv ==
  crossed = 0 /\ OnePageSize =>
    /\ \A u \in Users : Steady(u) /\ HasFeed(u) => FeedKnows(u)
    /\ \A d \in Devices : Steady(Owner[d]) => CallKnows(d)

Inv == TypeInv /\ JobInv /\ OriginInv /\ CacheInv /\ FreshInv /\ CoverInv
-----------------------------------------------------------------------------
(* What a page keeps of a set: the n elements of the highest rank.         *)
LEMMA Greatest ==
  ASSUME NEW m \in Nat, NEW S \in SUBSET (0..m), S # {}
  PROVE  \E x \in S : \A y \in S : y <= x
<1> DEFINE T == {n \in Nat : m - n \in S}
<1>1. PICK z \in S : TRUE
  OBVIOUS
<1>2. m - z \in Nat /\ m - (m - z) \in S
  BY <1>1
<1>3. T \subseteq Nat /\ T # {}
  BY <1>2
<1>4. \E t \in T : \A y \in T : <<y, t>> \notin OpToRel(<, Nat)
  BY <1>3, NatLessThanWellFounded, WFMin
<1>5. PICK t \in T : \A y \in T : ~(y < t)
  BY <1>4 DEF OpToRel
<1>6. ASSUME NEW y \in S PROVE y <= m - t
  <2>1. m - y \in T /\ m - y \in Nat /\ t \in Nat /\ y \in Nat
    OBVIOUS
  <2> HIDE DEF T
  <2> QED
    BY <2>1, <1>5
<1> QED
  BY <1>6

Top(S, r, n) == {x \in S : Cardinality({y \in S : r[y] > r[x]}) < n}

LEMMA GreatestRank ==
  ASSUME NEW S, NEW m \in Nat, NEW r \in [S -> 0..m], NEW T \in SUBSET S, T # {}
  PROVE  \E x \in T : \A y \in T : r[y] <= r[x]
<1> DEFINE R == {r[x] : x \in T}
<1>1. R \in SUBSET (0..m) /\ R # {}
  OBVIOUS
<1>2. PICK v \in R : \A w \in R : w <= v
  BY <1>1, Greatest
<1> QED
  BY <1>2

LEMMA TopHoldsGreatest ==
  ASSUME NEW S, NEW m \in Nat, NEW r \in [S -> 0..m], NEW n \in Nat \ {0},
         NEW x \in S, \A y \in S : r[y] <= r[x]
  PROVE  x \in Top(S, r, n)
<1>1. {y \in S : r[y] > r[x]} = {}
  <2> SUFFICES ASSUME NEW y \in S, r[y] > r[x] PROVE FALSE
    OBVIOUS
  <2>1. r[y] \in Nat /\ r[x] \in Nat /\ r[y] <= r[x]
    OBVIOUS
  <2> QED
    BY <2>1
<1>2. Cardinality({}) = 0
  BY FS_EmptySet
<1> QED
  BY <1>1, <1>2 DEF Top

(* Whatever reaches up to the highest rank is in the page, or fills it.    *)
LEMMA TopFills ==
  ASSUME NEW S, IsFiniteSet(S), NEW m \in Nat, NEW r \in [S -> 0..m], NEW n \in Nat,
         NEW T \in SUBSET S, \A t \in T, s \in S : r[s] > r[t] => s \in T
  PROVE  T \subseteq Top(S, r, n) \/ Cardinality(T \cap Top(S, r, n)) >= n
<1> SUFFICES ASSUME T \ Top(S, r, n) # {} PROVE Cardinality(T \cap Top(S, r, n)) >= n
  OBVIOUS
<1>1. PICK x \in T \ Top(S, r, n) : \A y \in T \ Top(S, r, n) : r[y] <= r[x]
  BY GreatestRank
<1> DEFINE U == {y \in S : r[y] > r[x]}
<1>2. IsFiniteSet(U) /\ Cardinality(U) \in Nat
  BY FS_Subset, FS_CardinalityType
<1>3. Cardinality(U) >= n
  BY <1>2 DEF Top
<1>4. U \subseteq T \cap Top(S, r, n)
  <2> SUFFICES ASSUME NEW y \in S, r[y] > r[x] PROVE y \in T \cap Top(S, r, n)
    OBVIOUS
  <2>1. y \in T
    OBVIOUS
  <2>2. r[y] \in Nat /\ r[x] \in Nat
    OBVIOUS
  <2> QED
    BY <2>1, <2>2, <1>1
<1>5. IsFiniteSet(T \cap Top(S, r, n))
  BY FS_Subset
<1>6. Cardinality(U) <= Cardinality(T \cap Top(S, r, n)) /\ Cardinality(T \cap Top(S, r, n)) \in Nat
  BY <1>4, <1>5, FS_Subset, FS_CardinalityType
<1> HIDE DEF U
<1> QED
  BY <1>2, <1>3, <1>6

LEMMA PostIdsFinite == IsFiniteSet(PostIds) /\ PostIds \subseteq 0..MaxPosts /\ MaxPosts \in Nat
<1>1. MaxPosts \in Nat
  BY FeedAssumption
<1> QED
  BY <1>1, FS_Interval DEF PostIds

LEMMA CountType ==
  ASSUME NEW S \in SUBSET PostIds
  PROVE  IsFiniteSet(S) /\ Cardinality(S) \in Nat
  BY PostIdsFinite, FS_Subset, FS_CardinalityType

LEMMA CountGrows ==
  ASSUME NEW T \in SUBSET PostIds, NEW S \in SUBSET T
  PROVE  Cardinality(S) <= Cardinality(T) /\ Cardinality(S) \in Nat /\ Cardinality(T) \in Nat
  BY CountType, FS_Subset

(* One half of a set of entries has as many elements as posts.             *)
LEMMA CountEntries ==
  ASSUME NEW S \in SUBSET PostIds, NEW k \in {Pulled, Pushed}
  PROVE  /\ IsFiniteSet(S \X {k})
         /\ Cardinality(S \X {k}) = Cardinality(S)
<1> DEFINE f == [p \in S |-> <<p, k>>]
<1>1. f \in Bijection(S, S \X {k})
  <2>1. f \in [S -> S \X {k}]
    OBVIOUS
  <2>2. \A a, b \in S : f[a] = f[b] => a = b
    OBVIOUS
  <2>3. \A t \in S \X {k} : \E q \in S : f[q] = t
    OBVIOUS
  <2> HIDE DEF f
  <2> QED
    BY <2>1, <2>2, <2>3 DEF Bijection, Injection, Surjection, IsInjective
<1>2. ExistsBijection(S, S \X {k})
  BY <1>1 DEF ExistsBijection
<1> QED
  BY <1>2, CountType, FS_Bijection

LEMMA CountBoth ==
  ASSUME NEW S \in SUBSET PostIds, NEW T \in SUBSET PostIds
  PROVE  LET E == (S \X {Pushed}) \cup (T \X {Pulled}) IN
           /\ IsFiniteSet(E) /\ Cardinality(E) = Cardinality(S) + Cardinality(T)
<1>1. (S \X {Pushed}) \cap (T \X {Pulled}) = {}
  BY DEF Pulled, Pushed
<1>2. /\ IsFiniteSet(S \X {Pushed}) /\ Cardinality(S \X {Pushed}) = Cardinality(S)
      /\ IsFiniteSet(T \X {Pulled}) /\ Cardinality(T \X {Pulled}) = Cardinality(T)
  BY CountEntries
<1>3. Cardinality({}) = 0 /\ Cardinality(S) \in Nat /\ Cardinality(T) \in Nat
  BY FS_EmptySet, CountType
<1>4. /\ IsFiniteSet((S \X {Pushed}) \cup (T \X {Pulled}))
      /\ Cardinality((S \X {Pushed}) \cup (T \X {Pulled}))
           = Cardinality(S \X {Pushed}) + Cardinality(T \X {Pulled}) - Cardinality({})
  BY <1>1, <1>2, FS_Union
<1> QED
  BY <1>2, <1>3, <1>4

LEMMA EntriesFinite ==
  ASSUME NEW E \in SUBSET Entries
  PROVE  IsFiniteSet(E) /\ Cardinality(E) \in Nat
<1>1. IsFiniteSet((PostIds \X {Pushed}) \cup (PostIds \X {Pulled}))
  BY CountBoth
<1>2. E \subseteq (PostIds \X {Pushed}) \cup (PostIds \X {Pulled})
  BY DEF Entries
<1> QED
  BY <1>1, <1>2, FS_Subset, FS_CardinalityType

LEMMA EntryFacts ==
  ASSUME NEW e \in Entries
  PROVE  /\ e[1] \in PostIds /\ e[1] \in Nat /\ e[2] \in {Pulled, Pushed} /\ e = <<e[1], e[2]>>
         /\ Rank(e) \in 0..(2 * MaxPosts + 1)
<1>1. e[1] \in PostIds /\ e[2] \in {Pulled, Pushed} /\ e = <<e[1], e[2]>>
  BY DEF Entries
<1>2. e[1] \in 1..MaxPosts /\ MaxPosts \in Nat
  BY <1>1, PostIdsFinite DEF PostIds
<1> QED
  BY <1>1, <1>2 DEF Rank, Pulled, Pushed
-----------------------------------------------------------------------------
(* The n newest posts of a set.                                            *)
LEMMA NewestIsTop ==
  ASSUME NEW S \in SUBSET PostIds, NEW n \in Nat
  PROVE  LET r == [p \in S |-> p] IN r \in [S -> 0..MaxPosts] /\ Newest(S, n) = Top(S, r, n)
<1> DEFINE r == [p \in S |-> p]
<1>1. r \in [S -> 0..MaxPosts]
  BY PostIdsFinite
<1>2. ASSUME NEW x \in S PROVE {q \in S : q > x} = {y \in S : r[y] > r[x]}
  OBVIOUS
<1> HIDE DEF r
<1>3. Newest(S, n) = Top(S, r, n)
  BY <1>2 DEF Newest, Top
<1> QED
  BY <1>1, <1>3 DEF r

LEMMA NewestFills ==
  ASSUME NEW S \in SUBSET PostIds, NEW n \in Nat, NEW p \in Int
  PROVE  \/ Above(S, p) = Above(Newest(S, n), p)
         \/ Cardinality(Above(Newest(S, n), p)) >= n
<1> DEFINE r == [q \in S |-> q]
           T == Above(S, p)
<1>1. r \in [S -> 0..MaxPosts] /\ Newest(S, n) = Top(S, r, n)
  BY NewestIsTop
<1>2. T \in SUBSET S /\ Newest(S, n) \subseteq S
  BY DEF Above, Newest
<1>3. \A t \in T, q \in S : r[q] > r[t] => q \in T
  <2> SUFFICES ASSUME NEW t \in S, t > p, NEW q \in S, q > t PROVE q > p
    BY DEF Above
  <2>1. t \in Int /\ q \in Int
    BY DEF PostIds
  <2> QED
    BY <2>1
<1>4. T \cap Newest(S, n) = Above(Newest(S, n), p)
  BY <1>2 DEF Above
<1>5. IsFiniteSet(S) /\ MaxPosts \in Nat
  BY CountType, PostIdsFinite
<1> HIDE DEF r, T
<1>6. T \subseteq Top(S, r, n) \/ Cardinality(T \cap Top(S, r, n)) >= n
  BY <1>1, <1>2, <1>3, <1>5, TopFills
<1>7. CASE T \subseteq Newest(S, n)
  BY <1>7, <1>4 DEF T
<1>8. CASE Cardinality(T \cap Newest(S, n)) >= n
  BY <1>8, <1>4
<1> QED
  BY <1>1, <1>6, <1>7, <1>8

(* A post that is not among them has n above it.                           *)
LEMMA NewestMisses ==
  ASSUME NEW S \in SUBSET PostIds, NEW n \in Nat, NEW p \in S \ Newest(S, n)
  PROVE  Cardinality(Above(Newest(S, n), p)) >= n
<1>1. Above(S, p) \in SUBSET PostIds /\ p \in Int
  <2>1. p \in 0..MaxPosts /\ MaxPosts \in Nat
    BY PostIdsFinite
  <2>2. p \in Int
    BY <2>1
  <2> QED
    BY <2>2 DEF Above
<1>2. Cardinality(Above(S, p)) >= n
  BY <1>1, CountType DEF Newest, Above
<1>3. Above(S, p) = Above(Newest(S, n), p) \/ Cardinality(Above(Newest(S, n), p)) >= n
  BY <1>1, NewestFills
<1> QED
  BY <1>2, <1>3

LEMMA NewestHoldsNewest ==
  ASSUME NEW S \in SUBSET PostIds, NEW n \in Nat \ {0}, S # {}
  PROVE  \E p \in Newest(S, n) : \A q \in S : q <= p
<1> DEFINE r == [q \in S |-> q]
<1>1. r \in [S -> 0..MaxPosts] /\ Newest(S, n) = Top(S, r, n) /\ MaxPosts \in Nat
  BY NewestIsTop, PostIdsFinite
<1>2. PICK x \in S : \A y \in S : r[y] <= r[x]
  BY <1>1, GreatestRank
<1>3. x \in Top(S, r, n)
  BY <1>1, <1>2, TopHoldsGreatest
<1>4. \A y \in S : y <= x
  BY <1>2
<1> QED
  BY <1>1, <1>3, <1>4

LEMMA NewestOfFact ==
  ASSUME NEW S \in SUBSET PostIds
  PROVE  IF S = {} THEN NewestOf(S) = 0 ELSE NewestOf(S) \in S /\ \A q \in S : q <= NewestOf(S)
<1>1. S # {} => \E p \in S : \A q \in S : q <= p
  BY PostIdsFinite, Greatest
<1> QED
  BY <1>1 DEF NewestOf
-----------------------------------------------------------------------------
(* The first n of merged entries.                                          *)
LEMMA SliceIsTop ==
  ASSUME NEW E \in SUBSET Entries, NEW n \in Nat
  PROVE  LET r == [e \in E |-> Rank(e)]
         IN  r \in [E -> 0..(2 * MaxPosts + 1)] /\ Slice(E, n) = Top(E, r, n)
<1> DEFINE r == [e \in E |-> Rank(e)]
<1>1. r \in [E -> 0..(2 * MaxPosts + 1)]
  BY EntryFacts
<1>2. ASSUME NEW x \in E PROVE {f \in E : Rank(f) > Rank(x)} = {y \in E : r[y] > r[x]}
  OBVIOUS
<1> HIDE DEF r
<1>3. Slice(E, n) = Top(E, r, n)
  BY <1>2 DEF Slice, Top
<1> QED
  BY <1>1, <1>3 DEF r

LEMMA SliceHoldsFirst ==
  ASSUME NEW E \in SUBSET Entries, NEW n \in Nat \ {0}, E # {}
  PROVE  \E e \in Slice(E, n) : \A f \in E : f[1] <= e[1]
<1> DEFINE r == [e \in E |-> Rank(e)]
<1>1. /\ r \in [E -> 0..(2 * MaxPosts + 1)] /\ Slice(E, n) = Top(E, r, n)
      /\ 2 * MaxPosts + 1 \in Nat
  BY SliceIsTop, PostIdsFinite
<1>2. PICK x \in E : \A y \in E : r[y] <= r[x]
  BY <1>1, GreatestRank
<1>3. x \in Slice(E, n)
  BY <1>1, <1>2, TopHoldsGreatest
<1>4. ASSUME NEW f \in E PROVE f[1] <= x[1]
  <2>1. Rank(f) <= Rank(x)
    BY <1>2
  <2>2. f[1] \in Nat /\ x[1] \in Nat /\ f[2] \in {0, 1} /\ x[2] \in {0, 1}
    BY EntryFacts DEF Pulled, Pushed
  <2> QED
    BY <2>1, <2>2 DEF Rank
<1> QED
  BY <1>3, <1>4

(* A post that the entries hold, or have n others above, is in the first n *)
(* entries or has n others above it there.                                 *)
LEMMA SliceFills ==
  ASSUME NEW E \in SUBSET Entries, NEW n \in Nat, NEW p \in PostIds,
         p \in PostsOf(E) \/ Cardinality(EntriesAbove(E, p)) >= n,
         p \notin PostsOf(Slice(E, n))
  PROVE  Cardinality(EntriesAbove(Slice(E, n), p)) >= n
<1> DEFINE r == [e \in E |-> Rank(e)]
           m == 2 * MaxPosts + 1
           T == EntriesAbove(E, p)
<1>1. r \in [E -> 0..m] /\ Slice(E, n) = Top(E, r, n) /\ m \in Nat /\ IsFiniteSet(E)
  BY SliceIsTop, PostIdsFinite, EntriesFinite
<1>2. \A e \in E : e[1] \in Nat /\ e[2] \in {0, 1} /\ e = <<e[1], e[2]>> /\ p \in Nat
  BY EntryFacts DEF Pulled, Pushed, PostIds
<1>3. \A t \in T, f \in E : r[f] > r[t] => f \in T
  <2> SUFFICES ASSUME NEW t \in E, t[1] > p, NEW f \in E, Rank(f) > Rank(t) PROVE f[1] > p
    BY DEF EntriesAbove
  <2>1. /\ t[1] \in Nat /\ t[2] \in {0, 1} /\ f[1] \in Nat /\ f[2] \in {0, 1} /\ p \in Nat
    BY <1>2
  <2> QED
    BY <2>1 DEF Rank
<1>4. T \in SUBSET E /\ T \cap Slice(E, n) = EntriesAbove(Slice(E, n), p) /\ Slice(E, n) \subseteq E
  BY DEF EntriesAbove, Slice
<1>5. CASE p \notin PostsOf(E)
  <2> HIDE DEF r, m
  <2>1. T \subseteq Slice(E, n) \/ Cardinality(T \cap Slice(E, n)) >= n
    BY <1>1, <1>3, <1>4, TopFills
  <2> HIDE DEF T
  <2>2. CASE T \subseteq Slice(E, n)
    <3>1. T = EntriesAbove(Slice(E, n), p)
      BY <2>2, <1>4
    <3> QED
      BY <3>1, <1>5 DEF T
  <2> QED
    BY <2>1, <2>2, <1>4
<1>6. CASE p \in PostsOf(E)
  <2>1. PICK e \in E : e[1] = p
    BY <1>6 DEF PostsOf
  <2> DEFINE U == {f \in E : r[f] > r[e]}
  <2>2. e \notin Slice(E, n)
    BY <2>1 DEF PostsOf
  <2>3. U \in SUBSET E /\ IsFiniteSet(U) /\ Cardinality(U) \in Nat
    BY <1>1, FS_Subset, FS_CardinalityType
  <2>4. Cardinality(U) >= n
    BY <2>2, <2>3, <1>1 DEF Top
  <2>5. \A t \in U, f \in E : r[f] > r[t] => f \in U
    <3> SUFFICES ASSUME NEW t \in E, r[t] > r[e], NEW f \in E, r[f] > r[t] PROVE r[f] > r[e]
      OBVIOUS
    <3>1. r[t] \in Int /\ r[e] \in Int /\ r[f] \in Int
      BY <1>1
    <3> HIDE DEF r
    <3> QED
      BY <3>1
  <2>6. U \cap Slice(E, n) \subseteq EntriesAbove(Slice(E, n), p)
    <3> SUFFICES ASSUME NEW f \in E, Rank(f) > Rank(e), f \in Slice(E, n) PROVE f[1] > p
      BY DEF EntriesAbove
    <3>1. f[1] \in Nat /\ e[1] \in Nat /\ f[2] \in {0, 1} /\ e[2] \in {0, 1} /\ e[1] = p
      BY <1>2, <2>1
    <3>2. f[1] # p
      BY DEF PostsOf
    <3> QED
      BY <3>1, <3>2 DEF Rank
  <2>7. U \subseteq Slice(E, n) \/ Cardinality(U \cap Slice(E, n)) >= n
    <3> HIDE DEF r, m, U
    <3> QED
      BY <1>1, <2>3, <2>5, TopFills
  <2> HIDE DEF U
  <2>8. Cardinality(U \cap Slice(E, n)) >= n
    <3>1. CASE U \subseteq Slice(E, n)
      <4>1. U \cap Slice(E, n) = U
        BY <3>1
      <4> QED
        BY <4>1, <2>4
    <3> QED
      BY <3>1, <2>7
  <2>9. EntriesAbove(Slice(E, n), p) \in SUBSET E
    BY <1>4 DEF EntriesAbove
  <2>10. /\ IsFiniteSet(EntriesAbove(Slice(E, n), p))
         /\ Cardinality(EntriesAbove(Slice(E, n), p)) \in Nat
         /\ Cardinality(U \cap Slice(E, n)) \in Nat
         /\ Cardinality(U \cap Slice(E, n)) <= Cardinality(EntriesAbove(Slice(E, n), p))
    BY <2>3, <2>6, <2>9, <1>1, FS_Subset, FS_CardinalityType
  <2> QED
    BY <2>8, <2>10
<1> QED
  BY <1>5, <1>6
-----------------------------------------------------------------------------
(* The parts of the state, and what each await of a call does to it.       *)
LEMMA PostFacts ==
  ASSUME TypeInv
  PROVE  /\ DOMAIN posts = 1..Len(posts) /\ Len(posts) \in 0..MaxPosts
         /\ DOMAIN posts \subseteq PostIds
         /\ \A S : PostsBy(S) \subseteq PostIds
         /\ \A p \in DOMAIN posts : posts[p] \in Users
<1>1. posts \in Seq(Authors) /\ Len(posts) <= MaxPosts /\ MaxPosts \in Nat
  BY PostIdsFinite DEF TypeInv, TypeOK
<1>2. DOMAIN posts = 1..Len(posts) /\ Len(posts) \in Nat /\ \A p \in DOMAIN posts : posts[p] \in Authors
  BY <1>1
<1>3. DOMAIN posts \subseteq PostIds
  BY <1>1, <1>2 DEF PostIds
<1> QED
  BY <1>1, <1>2, <1>3, FeedAssumption DEF PostsBy

LEMMA OwnerType == \A d \in Devices : Owner[d] \in Users
  BY FeedAssumption

LEMMA FollowFacts ==
  \A u \in Users : Followees(u) \subseteq Users /\ Followers(u) \subseteq Users
                   /\ \A v \in Users : v \in Followers(u) <=> u \in Followees(v)
  BY DEF Followees, Followers

LEMMA CallType ==
  ASSUME TypeInv, NEW d \in Devices
  PROVE  /\ call[d] \in CallStates /\ Owner[d] \in Users
         /\ call[d].entries \subseteq Entries /\ call[d].limit \in Nat \ {0}
         /\ call[d].owed \subseteq PostIds
         /\ feed[Owner[d]] \subseteq PostIds
  BY OwnerType DEF TypeInv, TypeOK, FunctionTypes, CallStates

LEMMA PostsOfPairs == \A S, k : PostsOf({<<p, k>> : p \in S}) = S
<1> SUFFICES ASSUME NEW S, NEW k PROVE {e[1] : e \in {<<p, k>> : p \in S}} = S
  BY DEF PostsOf
<1>1. \A p \in S : <<p, k>>[1] = p
  OBVIOUS
<1> QED
  BY <1>1

LEMMA PageType ==
  ASSUME TypeInv, NEW d \in Devices
  PROVE  /\ Cached(d) \subseteq Entries /\ Page(d) \subseteq Entries
         /\ PostsOf(Page(d)) \subseteq PostIds
         /\ NewestOf(PostsOf(Page(d))) \in 0..MaxPosts
<1>1. Newest(feed[Owner[d]], call[d].limit) \subseteq PostIds
  BY CallType DEF Newest
<1>2. Cached(d) \subseteq Entries
  BY <1>1 DEF Cached, Entries
<1>3. Page(d) \subseteq Entries
  BY <1>2, CallType DEF Page, Slice
<1>4. PostsOf(Page(d)) \subseteq PostIds
  BY <1>3, EntryFacts DEF PostsOf
<1>5. NewestOf(PostsOf(Page(d))) \in 0..MaxPosts
  <2> DEFINE S == PostsOf(Page(d))
  <2>1. S \in SUBSET PostIds
    BY <1>4
  <2> HIDE DEF S
  <2>2. NewestOf(S) = 0 \/ NewestOf(S) \in S
    BY <2>1, NewestOfFact
  <2>3. NewestOf(S) \in 0..MaxPosts
    <3>1. 0 \in 0..MaxPosts /\ PostIds \subseteq 0..MaxPosts
      BY PostIdsFinite
    <3> HIDE DEF S
    <3> QED
      BY <2>1, <2>2, <3>1
  <2> QED
    BY <2>3 DEF S
<1> QED
  BY <1>2, <1>3, <1>4, <1>5

LEMMA LimitType ==
  ASSUME NEW n \in Limits
  PROVE  FinalLimit(n) \in Nat \ {0}
  BY FeedAssumption DEF FinalLimit

LEMMA PageSizeType == PageSize \in Nat /\ \A n \in Limits : OnePageSize => FinalLimit(n) = PageSize
<1>1. CASE Limits = {}
  BY <1>1 DEF PageSize
<1>2. CASE Limits # {}
  <2>1. (CHOOSE n \in Limits : TRUE) \in Limits
    BY <1>2
  <2> QED
    BY <1>2, <2>1, LimitType DEF PageSize, OnePageSize
<1> QED
  BY <1>1, <1>2

LEMMA NoCallType == NoCall \in CallStates /\ NoCall.at = "idle" /\ NoCall.entries = {} /\ NoCall.celebrities = {}
  BY DEF NoCall, CallStates, Entries

LEMMA AskEffect ==
  ASSUME TypeInv, NEW d \in Devices, NEW n \in Limits, AskTimeline(d, n)
  PROVE  /\ call' \in [Devices -> CallStates]
         /\ call[d].at = "idle"
         /\ \A e \in Devices \ {d} : call'[e] = call[e]
         /\ call'[d].at = IF HasFeed(Owner[d]) THEN "getFeed" ELSE "query"
         /\ call'[d].limit = FinalLimit(n) /\ call'[d].entries = {} /\ call'[d].celebrities = {}
         /\ call'[d].owed = {p \in PostsBy(Followees(Owner[d])) : job[p].at = "done"}
<1>1. {p \in PostsBy(Followees(Owner[d])) : job[p].at = "done"} \subseteq PostIds
  BY PostFacts
<1> DEFINE new == [NoCall EXCEPT !.at = IF HasFeed(Owner[d]) THEN "getFeed" ELSE "query",
                      !.limit = FinalLimit(n),
                      !.owed = {p \in PostsBy(Followees(Owner[d])) : job[p].at = "done"}]
<1>2. /\ new \in CallStates
      /\ new.at = IF HasFeed(Owner[d]) THEN "getFeed" ELSE "query"
      /\ new.limit = FinalLimit(n) /\ new.entries = {} /\ new.celebrities = {}
      /\ new.owed = {p \in PostsBy(Followees(Owner[d])) : job[p].at = "done"}
  BY <1>1, LimitType DEF NoCall, CallStates, Entries
<1>3. call \in [Devices -> CallStates] /\ call' = [call EXCEPT ![d] = new] /\ ~Busy(d)
  BY DEF AskTimeline, TypeInv, FunctionTypes
<1> HIDE DEF new
<1> QED
  BY <1>2, <1>3 DEF Busy

LEMMA ReturnEffect ==
  ASSUME TypeInv, NEW d \in Devices, Return(d)
  PROVE  /\ call' \in [Devices -> CallStates]
         /\ \A e \in Devices \ {d} : call'[e] = call[e]
         /\ call'[d].at = "idle" /\ call'[d].entries = {} /\ call'[d].celebrities = {}
         /\ \A u \in Users \ {Owner[d]} : newest'[u] = newest[u]
         /\ newest'[Owner[d]] = NewestOf(PostsOf(Page(d)))
         /\ newest' \in [Users -> 0..MaxPosts]
  BY NoCallType, PageType, OwnerType DEF Return, TypeInv, FunctionTypes, TypeOK

LEMMA GetFeedEffect ==
  ASSUME TypeInv, NEW d \in Devices, GetFeed(d)
  PROVE  /\ call[d].at = "getFeed"
         /\ \/ Followees(Owner[d]) = {} /\ Return(d)
            \/ /\ Followees(Owner[d]) # {}
               /\ call' \in [Devices -> CallStates]
               /\ \A e \in Devices \ {d} : call'[e] = call[e]
               /\ call'[d].at = "getUsers" /\ call'[d].entries = Cached(d)
               /\ call'[d].limit = call[d].limit /\ call'[d].owed = call[d].owed
               /\ call'[d].celebrities = call[d].celebrities /\ newest' = newest
<1>1. call \in [Devices -> CallStates] /\ Cached(d) \in SUBSET Entries
  BY PageType DEF TypeInv, FunctionTypes
<1>2. CASE Followees(Owner[d]) # {}
  <2>1. call' = [call EXCEPT ![d].at = "getUsers", ![d].entries = Cached(d)]
        /\ newest' = newest /\ call[d].at = "getFeed"
    BY <1>2 DEF GetFeed
  <2> QED
    BY <1>1, <1>2, <2>1 DEF CallStates
<1> QED
  BY <1>2 DEF GetFeed

LEMMA FindEffect ==
  ASSUME TypeInv, NEW d \in Devices, FindCelebrities(d)
  PROVE  /\ call[d].at = "getUsers" /\ call' \in [Devices -> CallStates]
         /\ \A e \in Devices \ {d} : call'[e] = call[e]
         /\ call'[d].celebrities = AboveThreshold(Followees(Owner[d]))
         /\ call'[d].at = IF AboveThreshold(Followees(Owner[d])) = {} THEN "refresh" ELSE "pull"
         /\ call'[d].limit = call[d].limit /\ call'[d].owed = call[d].owed
         /\ call'[d].entries = call[d].entries
<1> DEFINE found == AboveThreshold(Followees(Owner[d]))
<1>1. found \in SUBSET Users
  BY OwnerType, FollowFacts DEF AboveThreshold
<1>2. call' = [call EXCEPT ![d].at = IF found = {} THEN "refresh" ELSE "pull",
                            ![d].celebrities = found]
      /\ call[d].at = "getUsers"
  BY DEF FindCelebrities
<1>3. call \in [Devices -> CallStates]
  BY DEF TypeInv, FunctionTypes
<1> HIDE DEF found
<1>4. /\ call[d].at = "getUsers" /\ call' \in [Devices -> CallStates]
      /\ \A e \in Devices \ {d} : call'[e] = call[e]
      /\ call'[d].celebrities = found
      /\ call'[d].at = IF found = {} THEN "refresh" ELSE "pull"
      /\ call'[d].limit = call[d].limit /\ call'[d].owed = call[d].owed
      /\ call'[d].entries = call[d].entries
  BY <1>1, <1>2, <1>3 DEF CallStates
<1> QED
  BY <1>4 DEF found

(* What a call collects from the database.                                 *)
LEMMA CollectedType ==
  ASSUME TypeInv, NEW S, NEW n
  PROVE  /\ {<<p, Pulled>> : p \in Newest(PostsBy(S), n)} \subseteq Entries
         /\ Newest(PostsBy(S), n) \subseteq PostsBy(S)
<1>1. Newest(PostsBy(S), n) \subseteq PostsBy(S)
  BY DEF Newest
<1>2. PostsBy(S) \subseteq PostIds
  BY PostFacts
<1> QED
  BY <1>1, <1>2 DEF Entries

LEMMA PullEffect ==
  ASSUME TypeInv, NEW d \in Devices, Pull(d)
  PROVE  /\ call[d].at = "pull" /\ call' \in [Devices -> CallStates]
         /\ \A e \in Devices \ {d} : call'[e] = call[e]
         /\ call'[d].at = "refresh" /\ call'[d].celebrities = call[d].celebrities
         /\ call'[d].limit = call[d].limit /\ call'[d].owed = call[d].owed
         /\ call'[d].entries = call[d].entries \cup
              {<<p, Pulled>> : p \in Newest(PostsBy(call[d].celebrities), call[d].limit)}
<1> DEFINE more == {<<p, Pulled>> : p \in Newest(PostsBy(call[d].celebrities), call[d].limit)}
<1>1. more \in SUBSET Entries
  BY CollectedType
<1>2. call' = [call EXCEPT ![d].at = "refresh", ![d].entries = @ \cup more] /\ call[d].at = "pull"
  BY DEF Pull
<1>3. call \in [Devices -> CallStates]
  BY DEF TypeInv, FunctionTypes
<1> HIDE DEF more
<1>4. /\ call[d].at = "pull" /\ call' \in [Devices -> CallStates]
      /\ \A e \in Devices \ {d} : call'[e] = call[e]
      /\ call'[d].at = "refresh" /\ call'[d].celebrities = call[d].celebrities
      /\ call'[d].limit = call[d].limit /\ call'[d].owed = call[d].owed
      /\ call'[d].entries = call[d].entries \cup more
  BY <1>1, <1>2, <1>3 DEF CallStates
<1> QED
  BY <1>4 DEF more

LEMMA QueryEffect ==
  ASSUME TypeInv, NEW d \in Devices, Query(d)
  PROVE  /\ call[d].at = "query" /\ call' \in [Devices -> CallStates]
         /\ \A e \in Devices \ {d} : call'[e] = call[e]
         /\ call'[d].at = "hydrate" /\ call'[d].celebrities = call[d].celebrities
         /\ call'[d].limit = call[d].limit /\ call'[d].owed = call[d].owed
         /\ call'[d].entries =
              {<<p, Pulled>> : p \in Newest(PostsBy(Followees(Owner[d])), call[d].limit * 5)}
<1> DEFINE all == {<<p, Pulled>> : p \in Newest(PostsBy(Followees(Owner[d])), call[d].limit * 5)}
<1>1. all \in SUBSET Entries
  BY CollectedType
<1>2. call' = [call EXCEPT ![d].at = "hydrate", ![d].entries = all] /\ call[d].at = "query"
  BY DEF Query
<1>3. call \in [Devices -> CallStates]
  BY DEF TypeInv, FunctionTypes
<1> HIDE DEF all
<1>4. /\ call[d].at = "query" /\ call' \in [Devices -> CallStates]
      /\ \A e \in Devices \ {d} : call'[e] = call[e]
      /\ call'[d].at = "hydrate" /\ call'[d].celebrities = call[d].celebrities
      /\ call'[d].limit = call[d].limit /\ call'[d].owed = call[d].owed
      /\ call'[d].entries = all
  BY <1>1, <1>2, <1>3 DEF CallStates
<1> QED
  BY <1>4 DEF all

LEMMA HydrateFeedEffect ==
  ASSUME TypeInv, NEW u \in Users, NEW S \in SUBSET PostIds, HydrateFeed(u, S)
  PROVE  /\ feed' \in [Users -> SUBSET PostIds] /\ expiring' \in [Users -> BOOLEAN]
         /\ \A v \in Users \ {u} : feed'[v] = feed[v] /\ expiring'[v] = expiring[v]
         /\ feed'[u] = S /\ expiring'[u] = (S # {})
  BY DEF HydrateFeed, TypeInv, TypeOK

LEMMA RefreshEffect ==
  ASSUME TypeInv, NEW d \in Devices, Refresh(d)
  PROVE  /\ call[d].at = "refresh" /\ Return(d)
         /\ Page(d) = Slice(call[d].entries, call[d].limit)
         /\ HydrateFeed(Owner[d], PostsOf(Page(d))) /\ PostsOf(Page(d)) \in SUBSET PostIds
  BY PageType DEF Refresh, Page

LEMMA HydrateEffect ==
  ASSUME TypeInv, NEW d \in Devices, Hydrate(d)
  PROVE  /\ call[d].at = "hydrate" /\ Return(d)
         /\ Page(d) = Slice(call[d].entries, call[d].limit)
         /\ HydrateFeed(Owner[d], PostsOf(call[d].entries))
         /\ PostsOf(call[d].entries) \in SUBSET PostIds
<1>1. PostsOf(call[d].entries) \in SUBSET PostIds
  BY CallType, EntryFacts DEF PostsOf
<1> QED
  BY <1>1 DEF Hydrate, Page
-----------------------------------------------------------------------------
(* What each step of a worker does.                                        *)
LEMMA PostEffect ==
  ASSUME TypeInv, JobInv, NEW a \in Authors, Post(a)
  PROVE  \E p \in PostIds :
           /\ p \notin DOMAIN posts /\ DOMAIN posts' = DOMAIN posts \cup {p}
           /\ posts' \in Seq(Authors) /\ Len(posts') <= MaxPosts
           /\ \A q \in DOMAIN posts : posts'[q] = posts[q]
           /\ job' \in [PostIds -> JobStates]
           /\ \A q \in PostIds \ {p} : job'[q] = job[q]
           /\ job'[p] = [at |-> "queued", todo |-> {}, to |-> {}]
<1> DEFINE p == Len(posts) + 1
<1>1. /\ posts \in Seq(Authors) /\ Len(posts) \in Nat /\ Len(posts) < MaxPosts /\ MaxPosts \in Nat
      /\ posts' = Append(posts, a)
  BY PostFacts, PostIdsFinite DEF Post, TypeInv, TypeOK
<1>2. p \in PostIds /\ p \notin DOMAIN posts
  BY <1>1 DEF PostIds
<1>3. /\ posts' \in Seq(Authors) /\ Len(posts') = p /\ DOMAIN posts' = 1..p /\ DOMAIN posts = 1..Len(posts)
      /\ \A q \in DOMAIN posts : posts'[q] = posts[q]
  BY <1>1
<1>4. DOMAIN posts' = DOMAIN posts \cup {p} /\ Len(posts') <= MaxPosts
  BY <1>1, <1>3
<1>5. job[p] = NoJob
  BY <1>2 DEF JobInv
<1>6. job \in [PostIds -> JobStates] /\ job' = [job EXCEPT ![p].at = "queued"]
  BY DEF Post, TypeInv, FunctionTypes
<1> HIDE DEF p
<1>7. /\ job' \in [PostIds -> JobStates]
      /\ \A q \in PostIds \ {p} : job'[q] = job[q]
      /\ job'[p] = [at |-> "queued", todo |-> {}, to |-> {}]
  <2>1. [job[p] EXCEPT !.at = "queued"] = [at |-> "queued", todo |-> {}, to |-> {}]
    BY <1>5 DEF NoJob
  <2>2. job' = [job EXCEPT ![p] = [at |-> "queued", todo |-> {}, to |-> {}]]
    BY <1>6, <2>1
  <2>3. [at |-> "queued", todo |-> {}, to |-> {}] \in JobStates
    BY DEF JobStates
  <2> QED
    BY <1>2, <1>6, <2>2, <2>3
<1> QED
  BY <1>2, <1>3, <1>4, <1>7

LEMMA RedeliverEffect ==
  ASSUME TypeInv, NEW p \in PostIds, Redeliver(p)
  PROVE  /\ job' \in [PostIds -> JobStates] /\ job[p].at \in {"fanout", "done"}
         /\ \A q \in PostIds \ {p} : job'[q] = job[q]
         /\ job'[p] = [at |-> "queued", todo |-> {}, to |-> {}]
  BY DEF Redeliver, NoJob, JobStates, TypeInv, FunctionTypes

LEMMA FanoutType ==
  ASSUME NEW T \in SUBSET Users, NEW O \in SUBSET T
  PROVE  /\ Fanout(T, O) \in JobStates /\ Fanout(T, O).todo = T /\ Fanout(T, O).to = O
         /\ Fanout(T, O).at = IF T = {} THEN "done" ELSE "fanout"
  BY DEF Fanout, JobStates

LEMMA StartFanoutEffect ==
  ASSUME TypeInv, JobInv, NEW p \in PostIds, StartFanout(p)
  PROVE  /\ job[p].at = "queued" /\ p \in DOMAIN posts
         /\ \A q \in PostIds \ {p} : job'[q] = job[q]
         /\ job' \in [PostIds -> JobStates] /\ job'[p].to = {}
         /\ job'[p].todo = IF posts[p] \in celebrity THEN {} ELSE Followers(posts[p])
         /\ job'[p].at = IF job'[p].todo = {} THEN "done" ELSE "fanout"
<1> DEFINE T == IF posts[p] \in celebrity THEN {} ELSE Followers(posts[p])
<1>1. job[p].at = "queued" /\ job' = [job EXCEPT ![p] = Fanout(T, {})]
  BY DEF StartFanout
<1>2. p \in DOMAIN posts
  BY <1>1 DEF JobInv
<1>3. T \in SUBSET Users
  BY <1>2, PostFacts, FollowFacts
<1>4. job \in [PostIds -> JobStates]
  BY DEF TypeInv, FunctionTypes
<1> HIDE DEF T
<1>5. /\ \A q \in PostIds \ {p} : job'[q] = job[q]
      /\ job' \in [PostIds -> JobStates] /\ job'[p].to = {} /\ job'[p].todo = T
      /\ job'[p].at = IF T = {} THEN "done" ELSE "fanout"
  BY <1>1, <1>3, <1>4, FanoutType
<1> QED
  BY <1>1, <1>2, <1>5 DEF T

LEMMA CheckEffect ==
  ASSUME TypeInv, NEW p \in PostIds, NEW f \in Users, CheckFollower(p, f)
  PROVE  /\ job[p].at = "fanout" /\ f \in job[p].todo /\ job[p].to = {} /\ Reach(p, f)
         /\ \A q \in PostIds \ {p} : job'[q] = job[q]
         /\ job' \in [PostIds -> JobStates]
         /\ \/ HasFeed(f) /\ job'[p].todo = job[p].todo /\ job'[p].to = {f} /\ job'[p].at = "fanout"
            \/ /\ ~HasFeed(f) /\ job'[p].todo = job[p].todo \ {f} /\ job'[p].to = {}
               /\ job'[p].at = IF job'[p].todo = {} THEN "done" ELSE "fanout"
<1>1. /\ job[p].at = "fanout" /\ f \in job[p].todo /\ job[p].to = {} /\ Reach(p, f)
      /\ job' = [job EXCEPT ![p] = IF HasFeed(f) THEN Fanout(job[p].todo, {f})
                                   ELSE Fanout(job[p].todo \ {f}, {})]
  BY DEF CheckFollower, Running, SkipInactive
<1>2. job \in [PostIds -> JobStates] /\ job[p].todo \in SUBSET Users
  BY DEF TypeInv, FunctionTypes, JobStates
<1>3. CASE HasFeed(f)
  <2>1. job' = [job EXCEPT ![p] = Fanout(job[p].todo, {f})]
    BY <1>1, <1>3
  <2>2. Fanout(job[p].todo, {f}) \in JobStates /\ Fanout(job[p].todo, {f}).todo = job[p].todo
        /\ Fanout(job[p].todo, {f}).to = {f} /\ Fanout(job[p].todo, {f}).at = "fanout"
    BY <1>1, <1>2, FanoutType
  <2> QED
    BY <1>1, <1>2, <1>3, <2>1, <2>2
<1>4. CASE ~HasFeed(f)
  <2> DEFINE T == job[p].todo \ {f}
  <2>1. job' = [job EXCEPT ![p] = Fanout(T, {})]
    BY <1>1, <1>4
  <2>2. Fanout(T, {}) \in JobStates /\ Fanout(T, {}).todo = T
        /\ Fanout(T, {}).to = {} /\ Fanout(T, {}).at = IF T = {} THEN "done" ELSE "fanout"
    BY <1>2, FanoutType
  <2> QED
    BY <1>1, <1>2, <1>4, <2>1, <2>2
<1> QED
  BY <1>3, <1>4

LEMMA PushEffect ==
  ASSUME TypeInv, NEW p \in PostIds, NEW f \in Users, PushToFeed(p, f)
  PROVE  /\ job[p].at = "fanout" /\ f \in job[p].to /\ f \in job[p].todo /\ Reach(p, f)
         /\ \A q \in PostIds \ {p} : job'[q] = job[q]
         /\ job' \in [PostIds -> JobStates]
         /\ job'[p].todo = job[p].todo \ {f} /\ job'[p].to = {}
         /\ job'[p].at = IF job'[p].todo = {} THEN "done" ELSE "fanout"
         /\ feed' \in [Users -> SUBSET PostIds]
         /\ \A u \in Users \ {f} : feed'[u] = feed[u]
         /\ feed'[f] = feed[f] \cup {p}
<1> DEFINE T == job[p].todo \ {f}
<1>1. /\ job[p].at = "fanout" /\ f \in job[p].to /\ Reach(p, f)
      /\ job' = [job EXCEPT ![p] = Fanout(T, {})]
      /\ feed' = [feed EXCEPT ![f] = @ \cup {p}]
  BY DEF PushToFeed, Running
<1>2. job \in [PostIds -> JobStates] /\ job[p].todo \in SUBSET Users /\ job[p].to \subseteq job[p].todo
      /\ feed \in [Users -> SUBSET PostIds]
  BY DEF TypeInv, TypeOK, FunctionTypes, JobStates
<1>3. Fanout(T, {}) \in JobStates /\ Fanout(T, {}).todo = T
      /\ Fanout(T, {}).to = {} /\ Fanout(T, {}).at = IF T = {} THEN "done" ELSE "fanout"
  BY <1>2, FanoutType
<1> QED
  BY <1>1, <1>2, <1>3

LEMMA ExpireEffect ==
  ASSUME TypeInv, NEW u \in Users, Expire(u)
  PROVE  /\ feed' \in [Users -> SUBSET PostIds] /\ expiring' \in [Users -> BOOLEAN]
         /\ \A v \in Users \ {u} : feed'[v] = feed[v] /\ expiring'[v] = expiring[v]
         /\ feed'[u] = {} /\ ~expiring'[u]
         /\ lapsed \subseteq lapsed' /\ lapsed' \subseteq Users
         /\ InUse(u) => u \in lapsed'
  BY DEF Expire, TypeInv, TypeOK
-----------------------------------------------------------------------------
LEMMA InitInv == Init => Inv
<1> SUFFICES ASSUME Init PROVE Inv
  OBVIOUS
<1>1. MaxPosts \in Nat /\ Celebrities \subseteq Users
  BY FeedAssumption
<1>2. NoJob \in JobStates /\ NoJob.at = "none" /\ NoJob.to = {} /\ NoJob.todo = {}
  BY DEF NoJob, JobStates
<1>3. NoCall \in CallStates /\ NoCall.limit \in Nat \ {0} /\ NoCall.owed = {}
  BY DEF NoCall, CallStates, Entries
<1>4. /\ posts = <<>> /\ posts \in Seq(Authors) /\ Len(posts) = 0 /\ DOMAIN posts = {}
      /\ crossed = 0
  BY DEF Init
<1>5. TypeInv
  BY <1>1, <1>2, <1>3, <1>4, NoCallType DEF Init, TypeInv, TypeOK, FunctionTypes
<1>6. JobInv
  BY <1>2, <1>4 DEF Init, JobInv
<1>7. OriginInv
  BY <1>4, NoCallType DEF Init, OriginInv, PostsOf
<1>8. CacheInv /\ FreshInv
  BY <1>2, NoCallType DEF Init, CacheInv, CachedFeed, CachedCall, FreshInv, FreshCall, HasFeed
<1>9. CoverInv
  BY NoCallType DEF Init, CoverInv, CallKnows, HasFeed
<1> QED
  BY <1>5, <1>6, <1>7, <1>8, <1>9 DEF Inv

(* The functions' types carry those of their applications.                 *)
LEMMA TypeSuffices ==
  ASSUME posts' \in Seq(Authors), Len(posts') <= MaxPosts, celebrity' \subseteq Users,
         feed' \in [Users -> SUBSET PostIds], expiring' \in [Users -> BOOLEAN],
         job' \in [PostIds -> JobStates], \A p \in PostIds : job'[p].to \subseteq job'[p].todo,
         call' \in [Devices -> CallStates], newest' \in [Users -> 0..MaxPosts],
         raced' \subseteq Users \X PostIds, lapsed' \subseteq Users, crossed' \in Nat
  PROVE  TypeInv'
<1>1. \A p \in PostIds : job'[p] \in JobStates
  OBVIOUS
<1>2. \A d \in Devices : call'[d] \in CallStates
  OBVIOUS
<1> QED
  BY <1>1, <1>2 DEF TypeInv, TypeOK, FunctionTypes, JobStates, CallStates

LEMMA TypeStep == TypeInv /\ JobInv /\ [Next]_vars => TypeInv'
<1> SUFFICES ASSUME TypeInv, JobInv, [Next]_vars PROVE TypeInv'
  OBVIOUS
<1>0. /\ posts \in Seq(Authors) /\ Len(posts) <= MaxPosts /\ celebrity \subseteq Users
      /\ feed \in [Users -> SUBSET PostIds] /\ expiring \in [Users -> BOOLEAN]
      /\ job \in [PostIds -> JobStates] /\ \A p \in PostIds : job[p].to \subseteq job[p].todo
      /\ call \in [Devices -> CallStates] /\ newest \in [Users -> 0..MaxPosts]
      /\ raced \subseteq Users \X PostIds /\ lapsed \subseteq Users /\ crossed \in Nat
  BY DEF TypeInv, TypeOK, FunctionTypes
<1> USE DEF dbVars, cacheVars, windows
<1>1. ASSUME NEW a \in Authors, Post(a) PROVE TypeInv'
  <2>1. /\ posts' \in Seq(Authors) /\ Len(posts') <= MaxPosts
        /\ job' \in [PostIds -> JobStates] /\ \A p \in PostIds : job'[p].to \subseteq job'[p].todo
    <3>1. PICK p \in PostIds :
             /\ posts' \in Seq(Authors) /\ Len(posts') <= MaxPosts
             /\ job' \in [PostIds -> JobStates]
             /\ \A q \in PostIds \ {p} : job'[q] = job[q]
             /\ job'[p] = [at |-> "queued", todo |-> {}, to |-> {}]
      BY <1>1, PostEffect
    <3> QED
      BY <1>0, <3>1
  <2> QED
    BY <1>0, <1>1, <2>1, TypeSuffices DEF Post
<1>2. ASSUME NEW a \in Authors, Cross(a) PROVE TypeInv'
  BY <1>0, <1>2, TypeSuffices, FeedAssumption DEF Cross
<1>3. ASSUME NEW p \in PostIds, Redeliver(p) PROVE TypeInv'
  <2>1. job' \in [PostIds -> JobStates] /\ \A q \in PostIds : job'[q].to \subseteq job'[q].todo
    BY <1>0, <1>3, RedeliverEffect
  <2> QED
    BY <1>0, <1>3, <2>1, TypeSuffices DEF Redeliver
<1>4. ASSUME NEW p \in PostIds, StartFanout(p) PROVE TypeInv'
  <2>1. job' \in [PostIds -> JobStates] /\ \A q \in PostIds : job'[q].to \subseteq job'[q].todo
    BY <1>0, <1>4, StartFanoutEffect
  <2> QED
    BY <1>0, <1>4, <2>1, TypeSuffices DEF StartFanout
<1>5. ASSUME NEW p \in PostIds, NEW f \in Users, CheckFollower(p, f) PROVE TypeInv'
  <2>1. job' \in [PostIds -> JobStates] /\ \A q \in PostIds : job'[q].to \subseteq job'[q].todo
    BY <1>0, <1>5, CheckEffect
  <2>2. raced' \subseteq Users \X PostIds
    BY <1>0, <1>5 DEF CheckFollower, Reach
  <2> QED
    BY <1>0, <1>5, <2>1, <2>2, TypeSuffices DEF CheckFollower
<1>6. ASSUME NEW p \in PostIds, NEW f \in Users, PushToFeed(p, f) PROVE TypeInv'
  <2>1. /\ job' \in [PostIds -> JobStates] /\ \A q \in PostIds : job'[q].to \subseteq job'[q].todo
        /\ feed' \in [Users -> SUBSET PostIds]
    BY <1>0, <1>6, PushEffect
  <2>2. raced' \subseteq Users \X PostIds
    BY <1>0, <1>6 DEF PushToFeed, Reach
  <2> QED
    BY <1>0, <1>6, <2>1, <2>2, TypeSuffices DEF PushToFeed
<1>7. ASSUME NEW u \in Users, Expire(u) PROVE TypeInv'
  BY <1>0, <1>7, ExpireEffect, TypeSuffices DEF Expire
<1>8. ASSUME NEW d \in Devices, NEW n \in Limits, AskTimeline(d, n) PROVE TypeInv'
  BY <1>0, <1>8, AskEffect, TypeSuffices DEF AskTimeline
<1>9. ASSUME NEW d \in Devices, GetFeed(d) PROVE TypeInv'
  BY <1>0, <1>9, GetFeedEffect, ReturnEffect, TypeSuffices DEF GetFeed
<1>10. ASSUME NEW d \in Devices, FindCelebrities(d) PROVE TypeInv'
  <2>1. UNCHANGED <<dbVars, cacheVars, job, redelivered, newest, windows>>
    BY <1>10 DEF FindCelebrities
  <2> QED
    BY <1>0, <1>10, <2>1, FindEffect, TypeSuffices
<1>11. ASSUME NEW d \in Devices, Pull(d) PROVE TypeInv'
  BY <1>0, <1>11, PullEffect, TypeSuffices DEF Pull
<1>12. ASSUME NEW d \in Devices, Refresh(d) PROVE TypeInv'
  BY <1>0, <1>12, RefreshEffect, ReturnEffect, HydrateFeedEffect, OwnerType, TypeSuffices DEF Refresh
<1>13. ASSUME NEW d \in Devices, Query(d) PROVE TypeInv'
  BY <1>0, <1>13, QueryEffect, TypeSuffices DEF Query
<1>14. ASSUME NEW d \in Devices, Hydrate(d) PROVE TypeInv'
  BY <1>0, <1>14, HydrateEffect, ReturnEffect, HydrateFeedEffect, OwnerType, TypeSuffices DEF Hydrate
<1>15. CASE UNCHANGED vars
  BY <1>0, <1>15, TypeSuffices DEF vars
<1> QED
  BY <1>1, <1>2, <1>3, <1>4, <1>5, <1>6, <1>7, <1>8, <1>9, <1>10, <1>11, <1>12, <1>13, <1>14,
     <1>15 DEF Next, Worker, Timeline
-----------------------------------------------------------------------------
(* What leaves the posts, the jobs or the feeds alone.                     *)
LEMMA TimelineFrame ==
  ASSUME NEW d \in Devices, Timeline(d) \/ \E n \in Limits : AskTimeline(d, n)
  PROVE  UNCHANGED <<dbVars, job, windows>>
  BY DEF Timeline, AskTimeline, GetFeed, FindCelebrities, Pull, Refresh, Query, Hydrate, dbVars, windows

LEMMA PostsBySame == UNCHANGED posts => \A S : PostsBy(S)' = PostsBy(S)
  BY DEF PostsBy

LEMMA PostsByGrows ==
  ASSUME TypeInv, JobInv, NEW a \in Authors, Post(a)
  PROVE  \E p \in PostIds : p \notin DOMAIN posts /\ \A u \in Users :
           /\ PostsBy(Followees(u)) \subseteq PostsBy(Followees(u))'
           /\ PostsBy(Followees(u))' \subseteq PostsBy(Followees(u)) \cup {p}
<1>1. PICK p \in PostIds :
        /\ p \notin DOMAIN posts /\ DOMAIN posts' = DOMAIN posts \cup {p}
        /\ \A q \in DOMAIN posts : posts'[q] = posts[q]
  BY PostEffect
<1> QED
  BY <1>1 DEF PostsBy, Followees

LEMMA JobStep == TypeInv /\ JobInv /\ [Next]_vars => JobInv'
<1> SUFFICES ASSUME TypeInv, JobInv, [Next]_vars PROVE JobInv'
  OBVIOUS
<1>0. /\ job \in [PostIds -> JobStates] /\ \A p \in PostIds : job[p].to \subseteq job[p].todo
      /\ \A p \in PostIds : job[p].todo \subseteq Users
  BY DEF TypeInv, TypeOK, FunctionTypes
<1> USE DEF dbVars
<1>1. ASSUME NEW a \in Authors, Post(a) PROVE JobInv'
  <2>1. PICK p \in PostIds :
           /\ p \notin DOMAIN posts /\ DOMAIN posts' = DOMAIN posts \cup {p}
           /\ \A q \in DOMAIN posts : posts'[q] = posts[q]
           /\ \A q \in PostIds \ {p} : job'[q] = job[q]
           /\ job'[p] = [at |-> "queued", todo |-> {}, to |-> {}]
    BY <1>1, PostEffect
  <2>2. \A u : PostsBy(Followees(u)) \subseteq PostsBy(Followees(u))'
    BY <2>1 DEF PostsBy, Followees
  <2>3. /\ p \in DOMAIN posts' /\ job'[p].at = "queued" /\ job'[p].todo = {}
    BY <2>1
  <2>4. ASSUME NEW q \in PostIds \ {p}
        PROVE  /\ q \in DOMAIN posts' <=> job'[q].at # "none"
               /\ job'[q].at = "none" => job'[q] = NoJob
               /\ job'[q].at # "fanout" => job'[q].todo = {}
               /\ \A f \in job'[q].todo : q \in PostsBy(Followees(f))'
    BY <2>1, <2>2 DEF JobInv
  <2> QED
    BY <2>3, <2>4 DEF JobInv
<1>2. ASSUME NEW p \in PostIds, Redeliver(p) PROVE JobInv'
  <2>1. posts' = posts
    BY <1>2 DEF Redeliver
  <2> QED
    BY <1>2, <2>1, RedeliverEffect, PostsBySame DEF JobInv
<1>3. ASSUME NEW p \in PostIds, StartFanout(p) PROVE JobInv'
  <2>1. posts' = posts
    BY <1>3 DEF StartFanout
  <2>2. ASSUME NEW f \in Followers(posts[p]) PROVE p \in PostsBy(Followees(f))
    <3>1. p \in DOMAIN posts /\ posts[p] \in Users /\ f \in Users
      BY <1>3, StartFanoutEffect, PostFacts DEF Followers
    <3> QED
      BY <3>1, FollowFacts DEF PostsBy
  <2>3. \A f \in job'[p].todo : p \in PostsBy(Followees(f))
    BY <1>3, <2>2, StartFanoutEffect
  <2>4. /\ p \in DOMAIN posts /\ job'[p].at \in {"fanout", "done"}
        /\ job'[p].at # "fanout" => job'[p].todo = {}
        /\ \A q \in PostIds \ {p} : job'[q] = job[q]
    BY <1>3, StartFanoutEffect
  <2> QED
    BY <2>1, <2>3, <2>4, PostsBySame DEF JobInv
<1>4. ASSUME NEW p \in PostIds, NEW f \in Users, CheckFollower(p, f) \/ PushToFeed(p, f) PROVE JobInv'
  <2>1. posts' = posts
    BY <1>4 DEF CheckFollower, PushToFeed
  <2>2. /\ job[p].at = "fanout" /\ job'[p].at \in {"fanout", "done"}
        /\ job'[p].todo \subseteq job[p].todo
        /\ job'[p].at # "fanout" => job'[p].todo = {}
        /\ \A q \in PostIds \ {p} : job'[q] = job[q]
    BY <1>4, CheckEffect, PushEffect
  <2> QED
    BY <2>1, <2>2, PostsBySame DEF JobInv
<1>5. ASSUME UNCHANGED <<posts, job>> PROVE JobInv'
  BY <1>5 DEF JobInv, PostsBy, Followees
<1>6. ASSUME NEW a \in Authors, Cross(a) PROVE JobInv'
  BY <1>5, <1>6 DEF Cross
<1>7. ASSUME NEW u \in Users, Expire(u) PROVE JobInv'
  BY <1>5, <1>7 DEF Expire
<1>8. ASSUME NEW d \in Devices, Timeline(d) \/ \E n \in Limits : AskTimeline(d, n) PROVE JobInv'
  BY <1>5, <1>8, TimelineFrame
<1> QED
  BY <1>1, <1>2, <1>3, <1>4, <1>5, <1>6, <1>7, <1>8 DEF Next, Worker, vars
-----------------------------------------------------------------------------
(* A call touches its owner's feed only, and no other call.                *)
Touches(d) ==
  /\ UNCHANGED <<posts, celebrity, crossed, job, raced, lapsed>>
  /\ \A e \in Devices \ {d} : call'[e] = call[e]
  /\ \A u \in Users \ {Owner[d]} :
       feed'[u] = feed[u] /\ expiring'[u] = expiring[u] /\ newest'[u] = newest[u]

LEMMA TimelineTouches ==
  ASSUME TypeInv, NEW d \in Devices, Timeline(d) \/ \E n \in Limits : AskTimeline(d, n)
  PROVE  Touches(d)
<1>1. UNCHANGED <<posts, celebrity, crossed, job, raced, lapsed>>
  BY TimelineFrame DEF dbVars, windows
<1> USE DEF Touches, cacheVars
<1>2. ASSUME NEW n \in Limits, AskTimeline(d, n) PROVE Touches(d)
  BY <1>1, <1>2, AskEffect DEF AskTimeline
<1>3. CASE GetFeed(d)
  BY <1>1, <1>3, GetFeedEffect, ReturnEffect DEF GetFeed
<1>4. CASE FindCelebrities(d)
  <2>1. UNCHANGED <<feed, expiring, newest>>
    BY <1>4 DEF FindCelebrities
  <2> QED
    BY <1>1, <1>4, <2>1, FindEffect
<1>5. CASE Pull(d)
  BY <1>1, <1>5, PullEffect DEF Pull
<1>6. CASE Refresh(d)
  BY <1>1, <1>6, RefreshEffect, ReturnEffect, HydrateFeedEffect, OwnerType
<1>7. CASE Query(d)
  BY <1>1, <1>7, QueryEffect DEF Query
<1>8. CASE Hydrate(d)
  BY <1>1, <1>8, HydrateEffect, ReturnEffect, HydrateFeedEffect, OwnerType
<1> QED
  BY <1>2, <1>3, <1>4, <1>5, <1>6, <1>7, <1>8 DEF Timeline

LEMMA OnlyDevice ==
  ASSUME NEW d \in Devices, NEW e \in Devices \ {d}, Steady(Owner[e])
  PROVE  Owner[e] # Owner[d]
  BY DEF Steady, OneDevice

LEMMA SteadyStays ==
  ASSUME lapsed \subseteq lapsed', NEW u, Steady(u)'
  PROVE  Steady(u)
  BY DEF Steady, OneDevice
-----------------------------------------------------------------------------
(* What is cached, collected or returned are posts of followees.           *)
LEMMA PageOrigin ==
  ASSUME TypeInv, OriginInv, NEW d \in Devices
  PROVE  /\ PostsOf(Cached(d)) \subseteq PostsBy(Followees(Owner[d]))
         /\ PostsOf(Page(d)) \subseteq PostsBy(Followees(Owner[d]))
         /\ NewestOf(PostsOf(Page(d))) \in {0} \cup PostsBy(Followees(Owner[d]))
<1>1. PostsOf(Cached(d)) \subseteq feed[Owner[d]]
  <2>1. PostsOf(Cached(d)) = Newest(feed[Owner[d]], call[d].limit)
    BY PostsOfPairs, Zenon DEF Cached
  <2> QED
    BY <2>1 DEF Newest
<1>2. PostsOf(Slice(call[d].entries, call[d].limit)) \subseteq PostsOf(call[d].entries)
  BY DEF PostsOf, Slice
<1>3. /\ PostsOf(Cached(d)) \subseteq PostsBy(Followees(Owner[d]))
      /\ PostsOf(Page(d)) \subseteq PostsBy(Followees(Owner[d]))
  BY <1>1, <1>2, OwnerType DEF Page, OriginInv
<1> DEFINE S == PostsOf(Page(d))
<1>4. S \in SUBSET PostIds
  BY PageType
<1> HIDE DEF S
<1>5. NewestOf(S) = 0 \/ NewestOf(S) \in S
  BY <1>4, NewestOfFact
<1> QED
  BY <1>3, <1>5 DEF S

LEMMA OriginStep == TypeInv /\ JobInv /\ OriginInv /\ [Next]_vars => OriginInv'
<1> SUFFICES ASSUME TypeInv, JobInv, OriginInv, [Next]_vars PROVE OriginInv'
  OBVIOUS
<1>0. ASSUME UNCHANGED <<feed, newest, call>>,
             \A u \in Users : PostsBy(Followees(u)) \subseteq PostsBy(Followees(u))'
      PROVE  OriginInv'
  BY <1>0, OwnerType DEF OriginInv, PostsOf, Followees
<1>1. ASSUME NEW a \in Authors, Post(a) PROVE OriginInv'
  <2>1. UNCHANGED <<feed, newest, call>>
    BY <1>1 DEF Post, cacheVars
  <2> QED
    BY <1>0, <1>1, <2>1, PostsByGrows
<1>2. ASSUME UNCHANGED <<posts, feed, newest, call>> PROVE OriginInv'
  BY <1>0, <1>2, PostsBySame
<1>3. ASSUME NEW a \in Authors, Cross(a) PROVE OriginInv'
  BY <1>2, <1>3 DEF Cross, cacheVars
<1>4. ASSUME NEW p \in PostIds, Redeliver(p) \/ StartFanout(p) PROVE OriginInv'
  BY <1>2, <1>4 DEF Redeliver, StartFanout, dbVars, cacheVars
<1>5. ASSUME NEW p \in PostIds, NEW f \in Users, CheckFollower(p, f) PROVE OriginInv'
  BY <1>2, <1>5 DEF CheckFollower, dbVars, cacheVars
<1>6. ASSUME NEW p \in PostIds, NEW f \in Users, PushToFeed(p, f) PROVE OriginInv'
  <2>1. p \in PostsBy(Followees(f))
    BY <1>6, PushEffect DEF JobInv
  <2>2. UNCHANGED <<posts, newest, call>>
    BY <1>6 DEF PushToFeed, dbVars
  <2>3. \A u \in Users : feed'[u] \subseteq PostsBy(Followees(u))
    BY <1>6, <2>1, PushEffect DEF OriginInv
  <2> QED
    BY <2>2, <2>3, PostsBySame DEF OriginInv, PostsOf, Followees
<1>7. ASSUME NEW u \in Users, Expire(u) PROVE OriginInv'
  <2>1. UNCHANGED <<posts, newest, call>>
    BY <1>7 DEF Expire, dbVars
  <2>2. \A v \in Users : feed'[v] \subseteq PostsBy(Followees(v))
    BY <1>7, ExpireEffect DEF OriginInv
  <2> QED
    BY <2>1, <2>2, PostsBySame DEF OriginInv, PostsOf, Followees
<1>8. ASSUME NEW d \in Devices, Timeline(d) \/ \E n \in Limits : AskTimeline(d, n) PROVE OriginInv'
  <2> DEFINE u == Owner[d]
             own == PostsBy(Followees(u))
  <2>0. Touches(d) /\ u \in Users
    BY <1>8, TimelineTouches, OwnerType
  <2>1. SUFFICES /\ feed'[u] \subseteq own /\ newest'[u] \in {0} \cup own
                 /\ PostsOf(call'[d].entries) \subseteq own
                 /\ call'[d].celebrities \subseteq Followees(u)
    <3>1. \A S : PostsBy(S)' = PostsBy(S)
      BY <2>0, PostsBySame DEF Touches
    <3>2. \A v \in Users : feed'[v] \subseteq PostsBy(Followees(v)) /\ newest'[v] \in {0} \cup PostsBy(Followees(v))
      BY <2>0, <2>1 DEF Touches, OriginInv
    <3>3. \A e \in Devices :
            /\ PostsOf(call'[e].entries) \subseteq PostsBy(Followees(Owner[e]))
            /\ call'[e].celebrities \subseteq Followees(Owner[e])
      BY <2>0, <2>1 DEF Touches, OriginInv
    <3> QED
      BY <3>1, <3>2, <3>3 DEF OriginInv, PostsOf, Followees
  <2>2. /\ feed[u] \subseteq own /\ newest[u] \in {0} \cup own
        /\ PostsOf(call[d].entries) \subseteq own /\ call[d].celebrities \subseteq Followees(u)
    BY <2>0 DEF OriginInv
  <2>3. PostsOf({}) = {}
    BY DEF PostsOf
  <2> HIDE DEF u, own
  <2>4. ASSUME NEW n \in Limits, AskTimeline(d, n) PROVE
          /\ feed'[u] \subseteq own /\ newest'[u] \in {0} \cup own
          /\ PostsOf(call'[d].entries) \subseteq own /\ call'[d].celebrities \subseteq Followees(u)
    BY <2>2, <2>3, <2>4, AskEffect DEF AskTimeline, cacheVars
  <2>5. ASSUME Return(d)
        PROVE  /\ newest'[u] \in {0} \cup own
               /\ PostsOf(call'[d].entries) \subseteq own /\ call'[d].celebrities \subseteq Followees(u)
    BY <2>3, <2>5, ReturnEffect, PageOrigin DEF u, own
  <2>6. CASE GetFeed(d)
    <3>1. feed' = feed
      BY <2>6 DEF GetFeed, cacheVars
    <3>2. PostsOf(Cached(d)) \subseteq own
      BY PageOrigin DEF own, u
    <3> QED
      BY <2>2, <2>5, <2>6, <3>1, <3>2, GetFeedEffect
  <2>7. CASE FindCelebrities(d)
    <3>1. UNCHANGED <<feed, newest>>
      BY <2>7 DEF FindCelebrities, cacheVars
    <3>2. /\ call'[d].entries = call[d].entries /\ call'[d].celebrities = AboveThreshold(Followees(u))
      BY <2>7, FindEffect DEF u
    <3> QED
      BY <2>2, <3>1, <3>2 DEF AboveThreshold
  <2>8. CASE Pull(d)
    <3>1. UNCHANGED <<feed, newest>>
      BY <2>8 DEF Pull, cacheVars
    <3>2. {p : p \in Newest(PostsBy(call[d].celebrities), call[d].limit)} \subseteq own
      BY <2>2 DEF Newest, PostsBy, own
    <3>3. call'[d].entries = call[d].entries \cup
            {<<p, Pulled>> : p \in Newest(PostsBy(call[d].celebrities), call[d].limit)}
      BY <2>8, PullEffect
    <3>4. PostsOf(call'[d].entries) \subseteq own
      BY <2>2, <3>2, <3>3 DEF PostsOf
    <3> QED
      BY <2>2, <2>8, <3>1, <3>4, PullEffect
  <2>9. CASE Refresh(d)
    <3>1. feed'[u] = PostsOf(Page(d)) /\ Return(d)
      BY <2>9, RefreshEffect, HydrateFeedEffect, OwnerType DEF u
    <3> QED
      BY <2>5, <3>1, PageOrigin DEF own, u
  <2>10. CASE Query(d)
    <3>1. UNCHANGED <<feed, newest>>
      BY <2>10 DEF Query, cacheVars
    <3>2. call'[d].entries = {<<p, Pulled>> : p \in Newest(own, call[d].limit * 5)}
      BY <2>10, QueryEffect DEF own, u
    <3>3. PostsOf(call'[d].entries) = Newest(own, call[d].limit * 5)
      BY <3>2, PostsOfPairs, Zenon
    <3>4. PostsOf(call'[d].entries) \subseteq own
      BY <3>3 DEF Newest
    <3> QED
      BY <2>2, <2>10, <3>1, <3>4, QueryEffect
  <2>11. CASE Hydrate(d)
    <3>1. feed'[u] = PostsOf(call[d].entries) /\ Return(d)
      BY <2>11, HydrateEffect, HydrateFeedEffect, OwnerType DEF u
    <3> QED
      BY <2>2, <2>5, <3>1
  <2> QED
    BY <1>8, <2>4, <2>6, <2>7, <2>8, <2>9, <2>10, <2>11 DEF Timeline, u, own
<1> QED
  BY <1>1, <1>2, <1>3, <1>4, <1>5, <1>6, <1>7, <1>8 DEF Next, Worker, vars, dbVars, cacheVars
-----------------------------------------------------------------------------
(* A feed is there, and expires, when a worker or a call counts on it.     *)
LEMMA CacheSame ==
  ASSUME TypeInv, CacheInv, lapsed \subseteq lapsed', UNCHANGED <<expiring, call>>,
         \A u \in Users : Steady(u) => (HasFeed(u)' <=> HasFeed(u)),
         \A u \in Users, p \in PostIds : u \in job'[p].to => u \in job[p].to \/ HasFeed(u)
  PROVE  CacheInv'
  BY SteadyStays, OwnerType DEF CacheInv, CachedFeed, CachedCall

LEMMA CacheLocal ==
  ASSUME TypeInv, CacheInv, NEW d \in Devices, Touches(d),
         Steady(Owner[d]) => CachedFeed(Owner[d])' /\ CachedCall(d)'
  PROVE  CacheInv'
<1>1. \A u : Steady(u)' <=> Steady(u)
  BY DEF Touches, Steady, OneDevice
<1>2. ASSUME NEW u \in Users, Steady(u) PROVE CachedFeed(u)'
  <2>1. CASE u = Owner[d]
    BY <1>2, <2>1
  <2>2. CASE u # Owner[d]
    <3>1. feed'[u] = feed[u] /\ expiring'[u] = expiring[u] /\ job' = job
      BY <2>2 DEF Touches
    <3> QED
      BY <1>2, <3>1 DEF CacheInv, CachedFeed, HasFeed
  <2> QED
    BY <2>1, <2>2
<1>3. ASSUME NEW e \in Devices, Steady(Owner[e]) PROVE CachedCall(e)'
  <2>1. CASE e = d
    BY <1>3, <2>1
  <2>2. CASE e # d
    <3>1. feed'[Owner[e]] = feed[Owner[e]] /\ call'[e] = call[e]
      BY <1>3, <2>2, OnlyDevice, OwnerType DEF Touches
    <3> QED
      BY <1>3, <3>1 DEF CacheInv, CachedCall, HasFeed
  <2> QED
    BY <2>1, <2>2
<1> QED
  BY <1>1, <1>2, <1>3 DEF CacheInv

LEMMA SliceNotEmpty ==
  ASSUME NEW E \in SUBSET Entries, NEW n \in Nat \ {0}, E # {}
  PROVE  PostsOf(Slice(E, n)) # {}
<1>1. PICK e \in Slice(E, n) : TRUE
  BY SliceHoldsFirst
<1> QED
  BY <1>1 DEF PostsOf

LEMMA CachedNotEmpty ==
  ASSUME TypeInv, NEW d \in Devices, HasFeed(Owner[d])
  PROVE  Cached(d) # {}
<1>1. PICK p \in Newest(feed[Owner[d]], call[d].limit) : TRUE
  BY CallType, NewestHoldsNewest DEF HasFeed
<1> QED
  BY <1>1 DEF Cached

LEMMA CacheStep == TypeInv /\ JobInv /\ CacheInv /\ [Next]_vars => CacheInv'
<1> SUFFICES ASSUME TypeInv, JobInv, CacheInv, [Next]_vars PROVE CacheInv'
  OBVIOUS
<1> USE DEF dbVars, cacheVars, windows
<1>1. ASSUME NEW a \in Authors, Post(a) PROVE CacheInv'
  <2>1. PICK p \in PostIds : /\ \A q \in PostIds \ {p} : job'[q] = job[q]
                             /\ job'[p] = [at |-> "queued", todo |-> {}, to |-> {}]
    BY <1>1, PostEffect
  <2>2. UNCHANGED <<feed, expiring, call, lapsed>>
    BY <1>1 DEF Post
  <2> QED
    BY <2>1, <2>2, CacheSame DEF HasFeed
<1>2. ASSUME NEW a \in Authors, Cross(a) PROVE CacheInv'
  <2>1. UNCHANGED <<feed, expiring, call, lapsed, job>>
    BY <1>2 DEF Cross
  <2> QED
    BY <2>1, CacheSame DEF HasFeed
<1>3. ASSUME NEW p \in PostIds, Redeliver(p) \/ StartFanout(p) PROVE CacheInv'
  <2>1. UNCHANGED <<feed, expiring, call, lapsed>>
    BY <1>3 DEF Redeliver, StartFanout
  <2>2. \A q \in PostIds : job'[q].to \subseteq job[q].to
    BY <1>3, RedeliverEffect, StartFanoutEffect
  <2> QED
    BY <2>1, <2>2, CacheSame DEF HasFeed
<1>4. ASSUME NEW p \in PostIds, NEW f \in Users, CheckFollower(p, f) PROVE CacheInv'
  <2>1. UNCHANGED <<feed, expiring, call, lapsed>>
    BY <1>4 DEF CheckFollower
  <2>2. \A u \in Users, q \in PostIds : u \in job'[q].to => u \in job[q].to \/ HasFeed(u)
    BY <1>4, CheckEffect
  <2> QED
    BY <2>1, <2>2, CacheSame DEF HasFeed
<1>5. ASSUME NEW p \in PostIds, NEW f \in Users, PushToFeed(p, f) PROVE CacheInv'
  <2>1. UNCHANGED <<expiring, call, lapsed>>
    BY <1>5 DEF PushToFeed
  <2>2. \A q \in PostIds : job'[q].to \subseteq job[q].to
    BY <1>5, PushEffect
  <2>3. ASSUME NEW u \in Users, Steady(u) PROVE HasFeed(u)' <=> HasFeed(u)
    <3>1. CASE u = f
      <4>1. HasFeed(u)
        BY <1>5, <2>3, <3>1, PushEffect DEF CacheInv, CachedFeed
      <4> QED
        BY <1>5, <3>1, <4>1, PushEffect DEF HasFeed
    <3>2. CASE u # f
      BY <1>5, <3>2, PushEffect DEF HasFeed
    <3> QED
      BY <3>1, <3>2
  <2> QED
    BY <2>1, <2>2, <2>3, CacheSame
<1>6. ASSUME NEW u \in Users, Expire(u) PROVE CacheInv'
  <2>1. UNCHANGED <<job, call>> /\ lapsed \subseteq lapsed'
    BY <1>6, ExpireEffect DEF Expire
  <2>2. ASSUME NEW v \in Users, Steady(v)' PROVE CachedFeed(v)'
    <3>1. Steady(v) /\ v \notin lapsed'
      BY <2>1, <2>2, SteadyStays DEF Steady
    <3>2. CASE v = u
      <4>1. \A p \in PostIds : v \notin job[p].to
        BY <1>6, <3>1, <3>2, ExpireEffect DEF InUse
      <4> QED
        BY <1>6, <2>1, <3>2, <4>1, ExpireEffect DEF CachedFeed, HasFeed
    <3>3. CASE v # u
      <4>1. feed'[v] = feed[v] /\ expiring'[v] = expiring[v]
        BY <1>6, <3>3, ExpireEffect
      <4> QED
        BY <2>1, <3>1, <4>1 DEF CacheInv, CachedFeed, HasFeed
    <3> QED
      BY <3>2, <3>3
  <2>3. ASSUME NEW d \in Devices, Steady(Owner[d])' PROVE CachedCall(d)'
    <3>1. Steady(Owner[d]) /\ Owner[d] \notin lapsed' /\ Owner[d] \in Users
      BY <2>1, <2>3, SteadyStays DEF Steady
    <3>2. CachedCall(d)
      BY <3>1 DEF CacheInv
    <3>3. CASE Owner[d] = u
      <4>1. call[d].at # "getFeed"
        BY <1>6, <3>1, <3>3, ExpireEffect DEF InUse
      <4>2. feed'[Owner[d]] = {}
        BY <1>6, <3>3, ExpireEffect
      <4> QED
        BY <2>1, <3>2, <4>1, <4>2 DEF CachedCall, HasFeed
    <3>4. CASE Owner[d] # u
      <4>1. feed'[Owner[d]] = feed[Owner[d]]
        BY <1>6, <3>1, <3>4, ExpireEffect
      <4> QED
        BY <2>1, <3>2, <4>1 DEF CachedCall, HasFeed
    <3> QED
      BY <3>3, <3>4
  <2> QED
    BY <2>2, <2>3 DEF CacheInv
<1>7. ASSUME NEW d \in Devices, Timeline(d) \/ \E n \in Limits : AskTimeline(d, n) PROVE CacheInv'
  <2> DEFINE u == Owner[d]
  <2>1. Touches(d) /\ u \in Users /\ job' = job
    BY <1>7, TimelineTouches, OwnerType DEF Touches
  <2>2. SUFFICES ASSUME Steady(u) PROVE CachedFeed(u)' /\ CachedCall(d)'
    BY <2>1, CacheLocal
  <2>3. CachedFeed(u) /\ CachedCall(d)
    BY <2>1, <2>2 DEF CacheInv
  <2>4. UNCHANGED <<feed, expiring>> => CachedFeed(u)'
    BY <2>1, <2>3 DEF CachedFeed, HasFeed
  <2>5. call'[d].at = "idle" => CachedCall(d)'
    BY DEF CachedCall
  <2>6. ASSUME NEW n \in Limits, AskTimeline(d, n) PROVE CachedFeed(u)' /\ CachedCall(d)'
    <3>1. UNCHANGED <<feed, expiring>>
      BY <2>6 DEF AskTimeline
    <3> QED
      BY <2>4, <2>6, <3>1, AskEffect DEF CachedCall, HasFeed
  <2>7. CASE GetFeed(d)
    <3>1. UNCHANGED <<feed, expiring>>
      BY <2>7 DEF GetFeed
    <3>2. Cached(d) # {}
      BY <2>3, <2>7, GetFeedEffect, CachedNotEmpty DEF CachedCall
    <3>3. CachedCall(d)'
      BY <2>5, <2>7, <3>2, GetFeedEffect, ReturnEffect DEF CachedCall
    <3> QED
      BY <2>4, <3>1, <3>3
  <2>8. CASE FindCelebrities(d)
    <3>1. UNCHANGED <<feed, expiring>>
      BY <2>8 DEF FindCelebrities
    <3>2. CachedCall(d)'
      BY <2>3, <2>8, FindEffect DEF CachedCall
    <3> QED
      BY <2>4, <3>1, <3>2
  <2>9. CASE Pull(d)
    <3>1. UNCHANGED <<feed, expiring>>
      BY <2>9 DEF Pull
    <3>2. call[d].entries # {} /\ call[d].entries \subseteq call'[d].entries /\ call'[d].at = "refresh"
      BY <2>3, <2>9, PullEffect DEF CachedCall
    <3>3. CachedCall(d)'
      BY <3>2 DEF CachedCall
    <3> QED
      BY <2>4, <3>1, <3>3
  <2>10. CASE Refresh(d)
    <3>1. /\ Return(d) /\ feed'[u] = PostsOf(Page(d)) /\ expiring'[u] = (PostsOf(Page(d)) # {})
      BY <2>10, <2>1, RefreshEffect, HydrateFeedEffect
    <3>2. PostsOf(Page(d)) # {}
      BY <2>3, <2>10, RefreshEffect, CallType, SliceNotEmpty DEF CachedCall
    <3>3. CachedFeed(u)'
      BY <3>1, <3>2 DEF CachedFeed, HasFeed
    <3> QED
      BY <2>5, <3>1, <3>3, ReturnEffect
  <2>11. CASE Query(d)
    <3>1. UNCHANGED <<feed, expiring>>
      BY <2>11 DEF Query
    <3>2. CachedCall(d)'
      BY <2>3, <2>11, <3>1, QueryEffect DEF CachedCall, HasFeed
    <3> QED
      BY <2>4, <3>1, <3>2
  <2>12. CASE Hydrate(d)
    <3> DEFINE S == PostsOf(call[d].entries)
    <3>1. /\ Return(d) /\ feed'[u] = S /\ expiring'[u] = (S # {})
      BY <2>12, <2>1, HydrateEffect, HydrateFeedEffect
    <3>2. \A p \in PostIds : u \notin job[p].to
      BY <2>3, <2>12, HydrateEffect DEF CachedCall, CachedFeed
    <3> HIDE DEF S
    <3>3. CachedFeed(u)'
      BY <2>1, <3>1, <3>2 DEF CachedFeed, HasFeed
    <3> QED
      BY <2>5, <3>1, <3>3, ReturnEffect
  <2> QED
    BY <1>7, <2>6, <2>7, <2>8, <2>9, <2>10, <2>11, <2>12 DEF Timeline
<1>8. CASE UNCHANGED vars
  BY <1>8, CacheSame DEF vars, HasFeed
<1> QED
  BY <1>1, <1>2, <1>3, <1>4, <1>5, <1>6, <1>7, <1>8 DEF Next, Worker
-----------------------------------------------------------------------------
(* A feed, and what a call collects, is as new as the newest post returned.*)
LEMMA FreshSame ==
  ASSUME TypeInv, FreshInv, lapsed \subseteq lapsed', UNCHANGED <<newest, call>>,
         \A u \in Users : Steady(u) /\ HasFeed(u)' => HasFeed(u) /\ feed[u] \subseteq feed'[u]
  PROVE  FreshInv'
<1>1. ASSUME NEW u \in Users, Steady(u)', HasFeed(u)' PROVE Fresh(feed[u], u)'
  BY <1>1, SteadyStays DEF FreshInv, Fresh
<1>2. ASSUME NEW d \in Devices, Steady(Owner[d])' PROVE FreshCall(d)'
  BY <1>2, SteadyStays DEF FreshInv, FreshCall, Fresh, PostsOf
<1> QED
  BY <1>1, <1>2 DEF FreshInv

LEMMA FreshLocal ==
  ASSUME TypeInv, FreshInv, NEW d \in Devices, Touches(d),
         Steady(Owner[d]) =>
           /\ HasFeed(Owner[d])' => Fresh(feed[Owner[d]], Owner[d])'
           /\ FreshCall(d)'
  PROVE  FreshInv'
<1>1. \A u : Steady(u)' <=> Steady(u)
  BY DEF Touches, Steady, OneDevice
<1>2. ASSUME NEW u \in Users, Steady(u), HasFeed(u)' PROVE Fresh(feed[u], u)'
  <2>1. CASE u = Owner[d]
    BY <1>2, <2>1
  <2>2. CASE u # Owner[d]
    <3>1. feed'[u] = feed[u] /\ newest'[u] = newest[u]
      BY <2>2 DEF Touches
    <3> QED
      BY <1>2, <3>1 DEF FreshInv, Fresh, HasFeed
  <2> QED
    BY <2>1, <2>2
<1>3. ASSUME NEW e \in Devices, Steady(Owner[e]) PROVE FreshCall(e)'
  <2>1. CASE e = d
    BY <1>3, <2>1
  <2>2. CASE e # d
    <3>1. newest'[Owner[e]] = newest[Owner[e]] /\ call'[e] = call[e]
      BY <1>3, <2>2, OnlyDevice, OwnerType DEF Touches
    <3> QED
      BY <1>3, <3>1 DEF FreshInv, FreshCall, Fresh, PostsOf
  <2> QED
    BY <2>1, <2>2
<1> QED
  BY <1>1, <1>2, <1>3 DEF FreshInv

(* The page that a call returns of what it has collected.                  *)
LEMMA FreshPage ==
  ASSUME TypeInv, NEW d \in Devices, Page(d) = Slice(call[d].entries, call[d].limit)
  PROVE  /\ call[d].entries # {} =>
              PostsOf(Page(d)) # {} /\ NewestOf(PostsOf(Page(d))) \in PostsOf(Page(d))
         /\ newest[Owner[d]] = 0 \/ Fresh(PostsOf(call[d].entries), Owner[d]) =>
              NewestOf(PostsOf(Page(d))) >= newest[Owner[d]]
<1> DEFINE E == call[d].entries
           S == PostsOf(Page(d))
<1>1. E \in SUBSET Entries /\ call[d].limit \in Nat \ {0}
  BY CallType
<1>2. S \in SUBSET PostIds /\ NewestOf(S) \in 0..MaxPosts /\ MaxPosts \in Nat
  BY PageType, PostIdsFinite
<1>3. E # {} => S # {}
  BY <1>1, SliceNotEmpty
<1>4. newest[Owner[d]] \in 0..MaxPosts
  BY OwnerType DEF TypeInv, TypeOK
<1>5. ASSUME Fresh(PostsOf(E), Owner[d]) PROVE NewestOf(S) >= newest[Owner[d]]
  <2>1. PICK f \in E : f[1] >= newest[Owner[d]]
    BY <1>5 DEF Fresh, PostsOf
  <2>2. PICK e \in Slice(E, call[d].limit) : f[1] <= e[1]
    BY <1>1, <2>1, SliceHoldsFirst
  <2>3. e[1] \in S /\ e \in E
    BY <2>2 DEF PostsOf, Slice
  <2>4. e[1] \in Nat /\ f[1] \in Nat
    BY <1>1, <2>1, <2>3, EntryFacts
  <2> HIDE DEF S, E
  <2>5. e[1] <= NewestOf(S)
    BY <1>2, <2>3, NewestOfFact
  <2> QED
    BY <1>2, <1>4, <2>1, <2>2, <2>4, <2>5
<1> HIDE DEF S
<1>6. S # {} => NewestOf(S) \in S
  BY <1>2, NewestOfFact
<1> QED
  BY <1>2, <1>3, <1>4, <1>5, <1>6 DEF S

LEMMA FreshStep ==
  TypeInv /\ JobInv /\ OriginInv /\ CacheInv /\ FreshInv /\ [Next]_vars => FreshInv'
<1> SUFFICES ASSUME TypeInv, JobInv, OriginInv, CacheInv, FreshInv, [Next]_vars PROVE FreshInv'
  OBVIOUS
<1> USE DEF dbVars, cacheVars, windows
<1>1. ASSUME UNCHANGED <<feed, newest, call, lapsed>> PROVE FreshInv'
  BY <1>1, FreshSame DEF HasFeed
<1>2. ASSUME NEW a \in Authors, Post(a) \/ Cross(a) PROVE FreshInv'
  BY <1>1, <1>2 DEF Post, Cross
<1>3. ASSUME NEW p \in PostIds, Redeliver(p) \/ StartFanout(p) PROVE FreshInv'
  BY <1>1, <1>3 DEF Redeliver, StartFanout
<1>4. ASSUME NEW p \in PostIds, NEW f \in Users, CheckFollower(p, f) PROVE FreshInv'
  BY <1>1, <1>4 DEF CheckFollower
<1>5. ASSUME NEW p \in PostIds, NEW f \in Users, PushToFeed(p, f) PROVE FreshInv'
  <2>1. UNCHANGED <<newest, call, lapsed>>
    BY <1>5 DEF PushToFeed
  <2>2. ASSUME NEW u \in Users, Steady(u), HasFeed(u)' PROVE HasFeed(u) /\ feed[u] \subseteq feed'[u]
    <3>1. CASE u = f
      BY <1>5, <2>2, <3>1, PushEffect DEF CacheInv, CachedFeed
    <3>2. CASE u # f
      BY <1>5, <2>2, <3>2, PushEffect DEF HasFeed
    <3> QED
      BY <3>1, <3>2
  <2> QED
    BY <2>1, <2>2, FreshSame
<1>6. ASSUME NEW u \in Users, Expire(u) PROVE FreshInv'
  <2>1. UNCHANGED <<newest, call>> /\ lapsed \subseteq lapsed'
    BY <1>6, ExpireEffect DEF Expire
  <2>2. \A v \in Users : HasFeed(v)' => HasFeed(v) /\ feed'[v] = feed[v]
    BY <1>6, ExpireEffect DEF HasFeed
  <2> QED
    BY <2>1, <2>2, FreshSame
<1>7. ASSUME NEW d \in Devices, Timeline(d) \/ \E n \in Limits : AskTimeline(d, n) PROVE FreshInv'
  <2> DEFINE u == Owner[d]
  <2>1. Touches(d) /\ u \in Users
    BY <1>7, TimelineTouches, OwnerType
  <2>2. SUFFICES ASSUME Steady(u)
                 PROVE  (HasFeed(u)' => Fresh(feed[u], u)') /\ FreshCall(d)'
    BY <2>1, FreshLocal
  <2>3. CachedCall(d) /\ (HasFeed(u) => Fresh(feed[u], u)) /\ FreshCall(d)
    BY <2>1, <2>2 DEF CacheInv, FreshInv
  <2>4. UNCHANGED <<feed, newest>> => (HasFeed(u)' => Fresh(feed[u], u)')
    BY <2>3 DEF Fresh, HasFeed
  <2>5. call'[d].at = "idle" => FreshCall(d)'
    BY DEF FreshCall
  <2>6. ASSUME NEW n \in Limits, AskTimeline(d, n)
        PROVE  (HasFeed(u)' => Fresh(feed[u], u)') /\ FreshCall(d)'
    <3>1. UNCHANGED <<feed, newest>>
      BY <2>6 DEF AskTimeline
    <3> QED
      BY <2>4, <2>6, <3>1, AskEffect DEF FreshCall
  <2>7. CASE GetFeed(d)
    <3>1. HasFeed(u) /\ Followees(u) # {} /\ feed[u] \in SUBSET PostIds
      <4>1. HasFeed(u) /\ feed[u] \subseteq PostsBy(Followees(u))
        BY <2>1, <2>3, <2>7, GetFeedEffect DEF CachedCall, OriginInv
      <4> QED
        BY <4>1, CallType DEF HasFeed, PostsBy
    <3>2. UNCHANGED <<feed, newest>> /\ call'[d].at = "getUsers" /\ call'[d].entries = Cached(d)
      BY <2>7, <3>1, GetFeedEffect DEF GetFeed
    <3>3. PICK p \in feed[u] : p >= newest[u]
      BY <2>3, <3>1 DEF Fresh
    <3>4. PICK q \in Newest(feed[u], call[d].limit) : p <= q
      BY <3>1, <3>3, CallType, NewestHoldsNewest DEF HasFeed
    <3>5. q \in PostsOf(Cached(d)) /\ q \in Nat /\ p \in Nat /\ newest[u] \in Nat
      <4>1. PostsOf(Cached(d)) = Newest(feed[u], call[d].limit)
        BY PostsOfPairs, Zenon DEF Cached
      <4>2. q \in PostIds /\ p \in PostIds /\ newest[u] \in 0..MaxPosts
        BY <2>1, <3>1, <3>3, <3>4 DEF Newest, TypeInv, TypeOK
      <4> QED
        BY <4>1, <4>2, PostIdsFinite
    <3>6. Fresh(PostsOf(Cached(d)), u)
      BY <3>3, <3>4, <3>5 DEF Fresh
    <3>7. FreshCall(d)'
      BY <3>2, <3>6 DEF FreshCall, Fresh, PostsOf
    <3> QED
      BY <2>4, <3>2, <3>7
  <2>8. CASE FindCelebrities(d) \/ Pull(d)
    <3>1. UNCHANGED <<feed, newest>>
      BY <2>8 DEF FindCelebrities, Pull
    <3>2. /\ call[d].at \in {"getUsers", "pull"} /\ call'[d].at \in {"pull", "refresh"}
          /\ call[d].entries \subseteq call'[d].entries
      BY <2>8, FindEffect, PullEffect
    <3>3. FreshCall(d)'
      BY <2>3, <3>1, <3>2 DEF FreshCall, Fresh, PostsOf
    <3> QED
      BY <2>4, <3>1, <3>3
  <2>9. CASE Refresh(d)
    <3>1. Return(d) /\ feed'[u] = PostsOf(Page(d)) /\ newest'[u] = NewestOf(PostsOf(Page(d)))
      BY <2>9, <2>1, RefreshEffect, HydrateFeedEffect, ReturnEffect
    <3>2. NewestOf(PostsOf(Page(d))) \in PostsOf(Page(d))
      BY <2>3, <2>9, RefreshEffect, FreshPage DEF CachedCall
    <3>3. NewestOf(PostsOf(Page(d))) >= NewestOf(PostsOf(Page(d)))
      BY PageType
    <3>4. Fresh(feed[u], u)'
      BY <3>1, <3>2, <3>3 DEF Fresh
    <3> QED
      BY <2>5, <3>1, <3>4, ReturnEffect
  <2>10. CASE Query(d)
    <3> DEFINE S == PostsBy(Followees(u))
    <3>1. UNCHANGED <<feed, newest>>
      BY <2>10 DEF Query
    <3>2. newest[u] \in {0} \cup S /\ S \in SUBSET PostIds /\ call[d].limit * 5 \in Nat \ {0}
      BY <2>1, PostFacts, CallType DEF OriginInv
    <3>3. call'[d].entries = {<<p, Pulled>> : p \in Newest(S, call[d].limit * 5)}
      BY <2>10, QueryEffect
    <3> HIDE DEF S
    <3>33. PostsOf(call'[d].entries) = Newest(S, call[d].limit * 5)
      BY <3>3, PostsOfPairs, Zenon
    <3>4. newest[u] # 0 => Fresh(PostsOf(call'[d].entries), u)
      <4> SUFFICES ASSUME newest[u] \in S
                   PROVE  \E q \in Newest(S, call[d].limit * 5) : q >= newest[u]
        BY <3>2, <3>33 DEF Fresh
      <4>1. PICK q \in Newest(S, call[d].limit * 5) : newest[u] <= q
        BY <3>2, NewestHoldsNewest
      <4>2. q \in 0..MaxPosts /\ newest[u] \in 0..MaxPosts
        BY <3>2, <4>1, PostIdsFinite DEF Newest
      <4> QED
        BY <4>1, <4>2
    <3>5. FreshCall(d)'
      BY <2>10, <3>1, <3>4, QueryEffect DEF FreshCall, Fresh, PostsOf
    <3> QED
      BY <2>4, <3>1, <3>5
  <2>11. CASE Hydrate(d)
    <3>1. /\ Return(d) /\ feed'[u] = PostsOf(call[d].entries)
          /\ newest'[u] = NewestOf(PostsOf(Page(d)))
          /\ Page(d) = Slice(call[d].entries, call[d].limit)
      BY <2>11, <2>1, HydrateEffect, HydrateFeedEffect, ReturnEffect
    <3>2. ASSUME HasFeed(u)' PROVE Fresh(feed[u], u)'
      <4>1. call[d].entries # {}
        BY <3>1, <3>2 DEF HasFeed, PostsOf
      <4>2. NewestOf(PostsOf(Page(d))) \in PostsOf(Page(d))
        BY <3>1, <4>1, FreshPage
      <4>3. PostsOf(Page(d)) \subseteq PostsOf(call[d].entries)
        BY <3>1 DEF PostsOf, Slice
      <4>4. NewestOf(PostsOf(Page(d))) >= NewestOf(PostsOf(Page(d)))
        BY PageType
      <4> QED
        BY <3>1, <4>2, <4>3, <4>4 DEF Fresh
    <3> QED
      BY <2>5, <3>1, <3>2, ReturnEffect
  <2> QED
    BY <1>7, <2>6, <2>7, <2>8, <2>9, <2>10, <2>11 DEF Timeline
<1> QED
  BY <1>1, <1>2, <1>3, <1>4, <1>5, <1>6, <1>7 DEF Next, Worker, vars
-----------------------------------------------------------------------------
(* Nothing that was passed on is lost: what one step of reading, pulling   *)
(* or writing back does to what is covered.                                *)
LEMMA AboveType ==
  ASSUME NEW S \in SUBSET PostIds, NEW p
  PROVE  Above(S, p) \in SUBSET PostIds /\ Cardinality(Above(S, p)) \in Nat
<1>1. Above(S, p) \in SUBSET PostIds
  BY DEF Above
<1> QED
  BY <1>1, CountType

LEMMA EntriesAboveType ==
  ASSUME NEW E \in SUBSET Entries, NEW p
  PROVE  /\ EntriesAbove(E, p) \in SUBSET Entries /\ IsFiniteSet(EntriesAbove(E, p))
         /\ Cardinality(EntriesAbove(E, p)) \in Nat
<1>1. EntriesAbove(E, p) \in SUBSET Entries
  BY DEF EntriesAbove
<1> QED
  BY <1>1, EntriesFinite

LEMMA PairsAbove ==
  ASSUME NEW S \in SUBSET PostIds, NEW k \in {Pulled, Pushed}, NEW p
  PROVE  /\ EntriesAbove({<<q, k>> : q \in S}, p) = Above(S, p) \X {k}
         /\ Cardinality(EntriesAbove({<<q, k>> : q \in S}, p)) = Cardinality(Above(S, p))
<1>1. EntriesAbove({<<q, k>> : q \in S}, p) = Above(S, p) \X {k}
  BY DEF EntriesAbove, Above
<1>2. Cardinality(Above(S, p) \X {k}) = Cardinality(Above(S, p))
  BY AboveType, CountEntries
<1> QED
  BY <1>1, <1>2

LEMMA CelebratedType ==
  ASSUME TypeInv, NEW u \in Users
  PROVE  /\ Celebrated(u) \in SUBSET PostIds /\ Ordinary(u) \in SUBSET PostIds
         /\ Ordinary(u) \subseteq PostsBy(Followees(u))
         /\ Celebrated(u) \subseteq PostsBy(Followees(u))
         /\ \A p \in PostsBy(Followees(u)) : p \in Ordinary(u) \/ p \in Celebrated(u)
  BY PostFacts DEF Celebrated, Ordinary, PostsBy, AboveThreshold

(* Reading the newest entries of the feed.                                 *)
LEMMA ReadStep ==
  ASSUME TypeInv, NEW d \in Devices, NEW p \in PostIds,
         FeedCovers(Owner[d], p), call[d].limit = PageSize
  PROVE  \/ p \in PostsOf(Cached(d))
         \/ <<Owner[d], p>> \in raced
         \/ Cardinality(EntriesAbove(Cached(d), p))
              + Cardinality(Above(Celebrated(Owner[d]), p)) >= PageSize
<1> DEFINE S == feed[Owner[d]]
           N == Newest(S, call[d].limit)
           C == Celebrated(Owner[d])
<1>1. S \in SUBSET PostIds /\ call[d].limit \in Nat /\ PageSize \in Nat /\ p \in Int
  BY CallType, PostIdsFinite
<1>2. N \in SUBSET PostIds /\ N \subseteq S
  BY <1>1 DEF Newest
<1>3. PostsOf(Cached(d)) = N
  BY PostsOfPairs, Zenon DEF Cached
<1>4. Cardinality(EntriesAbove(Cached(d), p)) = Cardinality(Above(N, p))
  BY <1>2, PairsAbove DEF Cached
<1>5. Cardinality(Above(C, p)) \in Nat /\ Cardinality(Above(N, p)) \in Nat /\ Cardinality(Above(S, p)) \in Nat
  BY <1>1, <1>2, CelebratedType, OwnerType, AboveType
<1>6. Above(S, p) = Above(N, p) \/ Cardinality(Above(N, p)) >= call[d].limit
  BY <1>1, NewestFills
<1>7. p \in S \ N => Cardinality(Above(N, p)) >= call[d].limit
  BY <1>1, NewestMisses
<1>8. \/ p \in S \/ <<Owner[d], p>> \in raced
      \/ Cardinality(Above(S, p)) + Cardinality(Above(C, p)) >= PageSize
  BY DEF FeedCovers
<1> HIDE DEF S, N, C
<1>9. \/ p \in N \/ <<Owner[d], p>> \in raced
      \/ Cardinality(Above(N, p)) + Cardinality(Above(C, p)) >= PageSize
  BY <1>1, <1>5, <1>6, <1>7, <1>8
<1> QED
  BY <1>3, <1>4, <1>9 DEF C

(* Adding what is pulled, of the celebrities' posts C, to what was read.   *)
LEMMA PullStep ==
  ASSUME NEW E \in SUBSET Entries, \A e \in E : e[2] = Pushed,
         NEW C \in SUBSET PostIds, NEW n \in Nat, NEW p \in PostIds,
         \/ p \in PostsOf(E)
         \/ p \in C
         \/ Cardinality(EntriesAbove(E, p)) + Cardinality(Above(C, p)) >= n
  PROVE  LET F == E \cup {<<q, Pulled>> : q \in Newest(C, n)}
         IN  p \in PostsOf(F) \/ Cardinality(EntriesAbove(F, p)) >= n
<1> DEFINE N == Newest(C, n)
           M == {<<q, Pulled>> : q \in N}
           F == E \cup M
<1>1. N \in SUBSET PostIds /\ p \in Int
  <2>1. p \in 0..MaxPosts /\ MaxPosts \in Nat
    BY PostIdsFinite
  <2>2. p \in Int
    BY <2>1
  <2> QED
    BY <2>2 DEF Newest
<1>2. PostsOf(M) = N
  BY PostsOfPairs, Zenon
<1>3. /\ EntriesAbove(M, p) = Above(N, p) \X {Pulled}
      /\ Cardinality(EntriesAbove(M, p)) = Cardinality(Above(N, p))
  BY <1>1, PairsAbove
<1>4. M \in SUBSET Entries
  BY <1>1 DEF Entries
<1>5. /\ EntriesAbove(F, p) = EntriesAbove(E, p) \cup EntriesAbove(M, p)
      /\ PostsOf(F) = PostsOf(E) \cup PostsOf(M)
  BY DEF EntriesAbove, PostsOf
<1>6. EntriesAbove(E, p) \cap EntriesAbove(M, p) = {}
  BY DEF EntriesAbove, Pulled, Pushed
<1> HIDE DEF M, F
<1>7. /\ IsFiniteSet(EntriesAbove(E, p)) /\ IsFiniteSet(EntriesAbove(M, p))
      /\ Cardinality(EntriesAbove(E, p)) \in Nat /\ Cardinality(EntriesAbove(M, p)) \in Nat
  BY <1>4, EntriesAboveType
<1>8. Cardinality(EntriesAbove(F, p)) = Cardinality(EntriesAbove(E, p)) + Cardinality(EntriesAbove(M, p))
  <2>1. Cardinality(EntriesAbove(E, p) \cup EntriesAbove(M, p))
          = Cardinality(EntriesAbove(E, p)) + Cardinality(EntriesAbove(M, p))
              - Cardinality(EntriesAbove(E, p) \cap EntriesAbove(M, p))
    BY <1>7, FS_Union
  <2>2. Cardinality(EntriesAbove(E, p) \cap EntriesAbove(M, p)) = 0
    BY <1>6, FS_EmptySet
  <2> QED
    BY <1>5, <1>7, <2>1, <2>2
<1>9. Above(C, p) = Above(N, p) \/ Cardinality(Above(N, p)) >= n
  BY <1>1, NewestFills
<1>10. p \in C => p \in N \/ Cardinality(Above(N, p)) >= n
  BY NewestMisses
<1> HIDE DEF N
<1>11. p \in PostsOf(F) \/ Cardinality(EntriesAbove(F, p)) >= n
  BY <1>2, <1>3, <1>5, <1>7, <1>8, <1>9, <1>10
<1> QED
  BY <1>11 DEF F, M, N

(* Writing entries F back: the feed, with the celebrities' posts C, has as *)
(* many posts above p as there were entries.                               *)
LEMMA WriteStep ==
  ASSUME NEW F \in SUBSET Entries, NEW C \in SUBSET PostIds,
         \A e \in F : e[2] = Pulled => e[1] \in C, NEW p
  PROVE  Cardinality(Above(PostsOf(F), p)) + Cardinality(Above(C, p))
           >= Cardinality(EntriesAbove(F, p))
<1> DEFINE A == Above(PostsOf(F), p)
           B == Above(C, p)
           G == (A \X {Pushed}) \cup (B \X {Pulled})
<1>1. PostsOf(F) \in SUBSET PostIds
  BY EntryFacts DEF PostsOf
<1>2. A \in SUBSET PostIds /\ B \in SUBSET PostIds
  BY <1>1, AboveType
<1>3. IsFiniteSet(G) /\ Cardinality(G) = Cardinality(A) + Cardinality(B)
  BY <1>2, CountBoth
<1>4. ASSUME NEW e \in EntriesAbove(F, p) PROVE e \in G
  <2>1. e \in F /\ e[1] > p /\ e = <<e[1], e[2]>> /\ e[2] \in {Pulled, Pushed}
    BY <1>4, EntryFacts DEF EntriesAbove
  <2>2. e[1] \in A
    BY <2>1 DEF Above, PostsOf
  <2>3. e[2] = Pulled => e[1] \in B
    BY <2>1 DEF Above
  <2> HIDE DEF A, B
  <2> QED
    BY <2>1, <2>2, <2>3
<1> HIDE DEF G
<1>5. EntriesAbove(F, p) \in SUBSET G
  BY <1>4
<1>6. Cardinality(EntriesAbove(F, p)) <= Cardinality(G)
  BY <1>3, <1>5, FS_Subset
<1> QED
  BY <1>3, <1>6

(* The same for entries that were all pulled.                              *)
LEMMA WritePulled ==
  ASSUME NEW F \in SUBSET Entries, \A e \in F : e[2] = Pulled, NEW p
  PROVE  Cardinality(Above(PostsOf(F), p)) >= Cardinality(EntriesAbove(F, p))
<1> DEFINE S == PostsOf(F)
<1>1. S \in SUBSET PostIds
  BY EntryFacts DEF PostsOf
<1>2. F = {<<q, Pulled>> : q \in S}
  <2>1. ASSUME NEW e \in F PROVE e = <<e[1], Pulled>> /\ e[1] \in S
    BY <2>1, EntryFacts DEF PostsOf
  <2>2. ASSUME NEW q \in S PROVE <<q, Pulled>> \in F
    <3>1. PICK e \in F : q = e[1]
      BY DEF PostsOf
    <3> QED
      BY <2>1, <3>1
  <2> HIDE DEF S
  <2> QED
    BY <2>1, <2>2
<1> HIDE DEF S
<1>3. Cardinality(EntriesAbove(F, p)) = Cardinality(Above(S, p))
  BY <1>1, <1>2, PairsAbove
<1>4. Cardinality(Above(S, p)) \in Nat
  BY <1>1, AboveType
<1> QED
  BY <1>3, <1>4 DEF S

(* What the steps of workers, authors and the cache leave of what a user's *)
(* feed covers.                                                            *)
Keeps(u) ==
  /\ HasFeed(u)' => HasFeed(u)
  /\ HasFeed(u)' \/ (\E d \in Devices : Owner[d] = u /\ call[d].at = "getFeed") =>
       feed[u] \subseteq feed'[u]
  /\ \A p \in Ordinary(u)' : Passed(p, u)' =>
       \/ p \in Ordinary(u) /\ Passed(p, u)
       \/ (HasFeed(u)' => p \in feed'[u]) /\ (Rewriting(u) => <<u, p>> \in raced')
  /\ PostsBy(Followees(u)) \subseteq PostsBy(Followees(u))'
  /\ Celebrated(u) \subseteq Celebrated(u)'
  /\ Ordinary(u)' \cap PostsBy(Followees(u)) \subseteq Ordinary(u)

LEMMA CoversMore ==
  ASSUME TypeInv, TypeInv', raced \subseteq raced', NEW u \in Users, Keeps(u), NEW p
  PROVE  /\ FeedCovers(u, p) /\ feed[u] \subseteq feed'[u] => FeedCovers(u, p)'
         /\ \A d \in Devices : Owner[d] = u /\ call' = call =>
              /\ ReadCovers(d, p) => ReadCovers(d, p)'
              /\ PageCovers(d, p) => PageCovers(d, p)'
<1> DEFINE C == Above(Celebrated(u), p)
           C2 == Above(Celebrated(u)', p)
<1>0. /\ Celebrated(u) \in SUBSET PostIds /\ Celebrated(u)' \in SUBSET PostIds
      /\ feed[u] \in SUBSET PostIds /\ feed'[u] \in SUBSET PostIds
  <2>1. Celebrated(u) \in SUBSET PostIds
    BY CelebratedType
  <2>2. Celebrated(u)' \in SUBSET PostIds
    <3>1. posts' \in Seq(Authors) /\ Len(posts') <= MaxPosts /\ MaxPosts \in Nat
      BY PostIdsFinite DEF TypeInv, TypeOK
    <3>2. DOMAIN posts' = 1..Len(posts') /\ Len(posts') \in Nat
      BY <3>1
    <3>3. DOMAIN posts' \subseteq PostIds
      BY <3>1, <3>2 DEF PostIds
    <3> QED
      BY <3>3 DEF Celebrated, PostsBy
  <2> QED
    BY <2>1, <2>2 DEF TypeInv, TypeOK
<1>1. C \in SUBSET C2 /\ C2 \in SUBSET PostIds
  BY <1>0 DEF Keeps, Above
<1>2. Cardinality(C) <= Cardinality(C2) /\ Cardinality(C) \in Nat /\ Cardinality(C2) \in Nat
  BY <1>1, CountGrows
<1>3. PageSize' = PageSize /\ PageSize \in Nat
  BY PageSizeType DEF PageSize, FinalLimit
<1>4. ASSUME FeedCovers(u, p), feed[u] \subseteq feed'[u] PROVE FeedCovers(u, p)'
  <2> DEFINE F == Above(feed[u], p)
             F2 == Above(feed'[u], p)
  <2>1. F \in SUBSET F2 /\ F2 \in SUBSET PostIds
    BY <1>0, <1>4 DEF Above
  <2>2. Cardinality(F) <= Cardinality(F2) /\ Cardinality(F) \in Nat /\ Cardinality(F2) \in Nat
    BY <2>1, CountGrows
  <2>3. p \in feed[u] \/ <<u, p>> \in raced \/ Cardinality(F) + Cardinality(C) >= PageSize
    BY <1>4 DEF FeedCovers
  <2> HIDE DEF F, F2, C, C2
  <2>5. \/ p \in feed'[u] \/ <<u, p>> \in raced'
        \/ Cardinality(F2) + Cardinality(C2) >= PageSize
    BY <1>2, <1>3, <1>4, <2>2, <2>3
  <2> QED
    BY <1>3, <2>5 DEF FeedCovers, F2, C2, Above
<1>5. ASSUME NEW d \in Devices, Owner[d] = u, call' = call
      PROVE  /\ ReadCovers(d, p) => ReadCovers(d, p)'
             /\ PageCovers(d, p) => PageCovers(d, p)'
  <2> DEFINE E == EntriesAbove(call[d].entries, p)
  <2>1. Cardinality(E) \in Nat
    BY CallType, EntriesAboveType
  <2> HIDE DEF E, C, C2
  <2>2. Cardinality(E) + Cardinality(C) >= PageSize => Cardinality(E) + Cardinality(C2) >= PageSize
    BY <1>2, <1>3, <2>1
  <2> QED
    BY <1>3, <1>5, <2>2 DEF ReadCovers, PageCovers, E, C, C2, EntriesAbove, PostsOf, Above
<1> QED
  BY <1>4, <1>5

LEMMA CoverOthers ==
  ASSUME TypeInv, TypeInv', CoverInv, UNCHANGED <<call, celebrity, crossed>>,
         lapsed \subseteq lapsed', raced \subseteq raced',
         \A u \in Users : Steady(u)' => Keeps(u)
  PROVE  CoverInv'
<1> SUFFICES ASSUME crossed = 0, OnePageSize
             PROVE  /\ \A u \in Users : Steady(u)' /\ HasFeed(u)' => FeedKnows(u)'
                    /\ \A d \in Devices : Steady(Owner[d])' => CallKnows(d)'
  BY DEF CoverInv, OnePageSize, FinalLimit
<1>1. /\ \A u \in Users : Steady(u) /\ HasFeed(u) => FeedKnows(u)
      /\ \A d \in Devices : Steady(Owner[d]) => CallKnows(d)
  BY DEF CoverInv
<1>2. ASSUME NEW u \in Users, Steady(u)', HasFeed(u)' PROVE FeedKnows(u)'
  <2>1. Keeps(u) /\ HasFeed(u) /\ FeedKnows(u) /\ feed[u] \subseteq feed'[u]
    BY <1>1, <1>2, SteadyStays DEF Keeps
  <2>2. ASSUME NEW p \in Ordinary(u)', Passed(p, u)' PROVE FeedCovers(u, p)'
    <3>1. CASE p \in Ordinary(u) /\ Passed(p, u)
      BY <2>1, <3>1, CoversMore DEF FeedKnows
    <3>2. CASE p \in feed'[u]
      BY <3>2 DEF FeedCovers
    <3> QED
      BY <1>2, <2>1, <2>2, <3>1, <3>2 DEF Keeps
  <2> QED
    BY <2>2 DEF FeedKnows
<1>3. ASSUME NEW d \in Devices, Steady(Owner[d])' PROVE CallKnows(d)'
  <2> DEFINE u == Owner[d]
             at == call[d].at
  <2>1. u \in Users /\ Keeps(u) /\ CallKnows(d) /\ call' = call /\ PageSize' = PageSize
    BY <1>1, <1>3, SteadyStays, OwnerType DEF PageSize, FinalLimit
  <2>2. /\ at \in {"getUsers", "pull", "refresh", "hydrate"} => Rewriting(u)
        /\ at # "idle" => call[d].owed \subseteq PostsBy(Followees(u))
    BY <2>1 DEF Rewriting, CallKnows
  <2>3. at = "getFeed" => \A p \in Ordinary(u)' \cap call[d].owed : FeedCovers(u, p)'
    <3> SUFFICES ASSUME at = "getFeed", NEW p \in Ordinary(u)' \cap call[d].owed
                 PROVE  FeedCovers(u, p)'
      OBVIOUS
    <3>1. p \in Ordinary(u) \cap call[d].owed /\ feed[u] \subseteq feed'[u]
      BY <2>1, <2>2 DEF Keeps
    <3>2. FeedCovers(u, p)
      BY <2>1, <3>1 DEF CallKnows
    <3> QED
      BY <2>1, <3>1, <3>2, CoversMore
  <2>4. ASSUME at \in {"getUsers", "pull"}, NEW p \in Ordinary(u)',
               p \in call[d].owed \/ Passed(p, u)'
        PROVE  ReadCovers(d, p)'
    <3>1. CASE p \in Ordinary(u) /\ (p \in call[d].owed \/ Passed(p, u))
      <4>1. ReadCovers(d, p)
        BY <2>1, <2>4, <3>1 DEF CallKnows
      <4> QED
        BY <2>1, <4>1, CoversMore
    <3>2. CASE <<u, p>> \in raced'
      BY <2>1, <3>2 DEF ReadCovers
    <3> QED
      BY <2>1, <2>2, <2>4, <3>1, <3>2 DEF Keeps
  <2>5. ASSUME at \in {"refresh", "hydrate"}, NEW p \in PostsBy(Followees(u))',
               p \in call[d].owed \/ (p \in Ordinary(u)' /\ Passed(p, u)')
        PROVE  PageCovers(d, p)'
    <3>1. CASE p \in call[d].owed \/ (p \in Ordinary(u) /\ Passed(p, u))
      <4>1. p \in PostsBy(Followees(u))
        BY <2>1, <2>2, <2>5, <3>1, CelebratedType
      <4>2. PageCovers(d, p)
        BY <2>1, <2>5, <3>1, <4>1 DEF CallKnows
      <4> QED
        BY <2>1, <4>2, CoversMore
    <3>2. CASE <<u, p>> \in raced'
      BY <2>1, <3>2 DEF PageCovers
    <3> QED
      BY <2>1, <2>2, <2>5, <3>1, <3>2 DEF Keeps
  <2>6. /\ at # "idle" => /\ call[d].limit = PageSize
                          /\ call[d].owed \subseteq PostsBy(Followees(u))'
        /\ at \in {"getUsers", "pull"} => \A e \in call[d].entries : e[2] = Pushed
        /\ at = "pull" => call[d].celebrities = AboveThreshold(Followees(u))
        /\ at = "refresh" => \A e \in call[d].entries : e[2] = Pulled => e[1] \in Celebrated(u)'
        /\ at = "hydrate" => \A e \in call[d].entries : e[2] = Pulled
    BY <2>1 DEF CallKnows, Keeps
  <2>7. AboveThreshold(Followees(u))' = AboveThreshold(Followees(u)) /\ Followees(u)' = Followees(u)
    BY DEF AboveThreshold, Followees
  <2> QED
    BY <2>1, <2>3, <2>4, <2>5, <2>6, <2>7, Zenon DEF CallKnows
<1> QED
  BY <1>2, <1>3

LEMMA KeepsSame ==
  ASSUME UNCHANGED <<posts, celebrity>>, NEW u,
         HasFeed(u)' => HasFeed(u),
         HasFeed(u)' \/ (\E d \in Devices : Owner[d] = u /\ call[d].at = "getFeed") =>
           feed[u] \subseteq feed'[u],
         \A p \in Ordinary(u) : Passed(p, u)' =>
           \/ Passed(p, u)
           \/ (HasFeed(u)' => p \in feed'[u]) /\ (Rewriting(u) => <<u, p>> \in raced')
  PROVE  Keeps(u)
  BY DEF Keeps, Ordinary, Celebrated, PostsBy, Followees, AboveThreshold

LEMMA CoverWorkers ==
  ASSUME TypeInv, TypeInv', JobInv, CacheInv, CoverInv,
         \/ \E a \in Authors : Post(a) \/ Cross(a)
         \/ \E p \in PostIds : Redeliver(p) \/ Worker(p)
         \/ \E u \in Users : Expire(u)
  PROVE  CoverInv'
<1> USE DEF dbVars, cacheVars, windows
<1>0. ASSUME UNCHANGED feed, NEW u PROVE (HasFeed(u)' <=> HasFeed(u)) /\ feed[u] \subseteq feed'[u]
  BY <1>0 DEF HasFeed
<1>1. ASSUME NEW a \in Authors, Post(a) PROVE CoverInv'
  <2>1. UNCHANGED <<celebrity, crossed, feed, call, raced, lapsed>>
    BY <1>1 DEF Post
  <2>2. PICK p \in PostIds :
           /\ p \notin DOMAIN posts /\ DOMAIN posts' = DOMAIN posts \cup {p}
           /\ \A q \in DOMAIN posts : posts'[q] = posts[q]
           /\ \A q \in PostIds \ {p} : job'[q] = job[q]
           /\ job'[p] = [at |-> "queued", todo |-> {}, to |-> {}]
    BY <1>1, PostEffect
  <2>3. DOMAIN posts \subseteq PostIds
    BY PostFacts
  <2>4. ASSUME NEW u \in Users PROVE Keeps(u)
    <3>1. ASSUME NEW q \in Ordinary(u)', Passed(q, u)' PROVE q \in Ordinary(u) /\ Passed(q, u)
      <4>1. q \in DOMAIN posts' /\ q # p
        BY <2>2, <3>1 DEF Ordinary, PostsBy, Passed
      <4> QED
        BY <2>1, <2>2, <2>3, <3>1, <4>1 DEF Ordinary, PostsBy, Passed, Followees
    <3>2. /\ PostsBy(Followees(u)) \subseteq PostsBy(Followees(u))'
          /\ Celebrated(u) \subseteq Celebrated(u)'
          /\ Ordinary(u)' \cap PostsBy(Followees(u)) \subseteq Ordinary(u)
      BY <2>1, <2>2 DEF Ordinary, Celebrated, PostsBy, Followees, AboveThreshold
    <3> QED
      BY <1>0, <2>1, <3>1, <3>2 DEF Keeps
  <2> QED
    BY <2>1, <2>4, CoverOthers
<1>2. ASSUME NEW a \in Authors, Cross(a) PROVE CoverInv'
  <2>1. crossed' = crossed + 1 /\ crossed \in Nat
    BY <1>2 DEF Cross, TypeInv, FunctionTypes
  <2>2. crossed' # 0
    BY <2>1
  <2> QED
    BY <2>2 DEF CoverInv
<1>3. ASSUME NEW p \in PostIds, Redeliver(p) PROVE CoverInv'
  <2>1. UNCHANGED <<posts, celebrity, crossed, feed, call, raced, lapsed>>
    BY <1>3 DEF Redeliver
  <2>2. \A q \in PostIds : \A u : Passed(q, u)' => Passed(q, u)
    BY <1>3, RedeliverEffect DEF Passed
  <2>3. \A u \in Users : Keeps(u)
    BY <1>0, <2>1, <2>2, KeepsSame, CelebratedType
  <2> QED
    BY <2>1, <2>3, CoverOthers
<1>4. ASSUME NEW p \in PostIds, StartFanout(p) PROVE CoverInv'
  <2>1. UNCHANGED <<posts, celebrity, crossed, feed, call, raced, lapsed>>
    BY <1>4 DEF StartFanout
  <2>2. ASSUME NEW u \in Users, NEW q \in Ordinary(u), Passed(q, u)' PROVE Passed(q, u)
    <3>1. CASE q = p
      <4>1. p \in DOMAIN posts /\ posts[p] \in Followees(u) \ celebrity
        BY <3>1 DEF Ordinary, PostsBy
      <4>2. job'[p].todo = Followers(posts[p])
        BY <1>4, <4>1, StartFanoutEffect
      <4>3. u \in Followers(posts[p])
        BY <4>1, FollowFacts
      <4> QED
        BY <2>2, <3>1, <4>2, <4>3 DEF Passed
    <3>2. CASE q # p
      <4>1. q \in PostIds
        BY CelebratedType
      <4> QED
        BY <1>4, <2>2, <3>2, <4>1, StartFanoutEffect DEF Passed
    <3> QED
      BY <3>1, <3>2
  <2>3. \A u \in Users : Keeps(u)
    BY <1>0, <2>1, <2>2, KeepsSame
  <2> QED
    BY <2>1, <2>3, CoverOthers
<1>5. ASSUME NEW p \in PostIds, NEW f \in Users, CheckFollower(p, f) PROVE CoverInv'
  <2>1. /\ UNCHANGED <<posts, celebrity, crossed, feed, call, lapsed>>
        /\ raced \subseteq raced' /\ (Rewriting(f) => <<f, p>> \in raced')
    BY <1>5 DEF CheckFollower, Reach
  <2>2. ASSUME NEW u \in Users, NEW q \in Ordinary(u), Passed(q, u)', ~Passed(q, u)
        PROVE  ~HasFeed(u) /\ (Rewriting(u) => <<u, q>> \in raced')
    <3>1. q = p /\ u = f /\ ~HasFeed(f)
      <4>1. q \in PostIds
        BY CelebratedType
      <4> QED
        BY <1>5, <2>2, <4>1, CheckEffect DEF Passed
    <3> QED
      BY <2>1, <3>1
  <2>3. \A u \in Users : Keeps(u)
    BY <1>0, <2>1, <2>2, KeepsSame
  <2> QED
    BY <2>1, <2>3, CoverOthers
<1>6. ASSUME NEW p \in PostIds, NEW f \in Users, PushToFeed(p, f) PROVE CoverInv'
  <2>1. /\ UNCHANGED <<posts, celebrity, crossed, call, lapsed>>
        /\ raced \subseteq raced' /\ (Rewriting(f) => <<f, p>> \in raced')
    BY <1>6 DEF PushToFeed, Reach
  <2>2. ASSUME NEW u \in Users PROVE feed[u] \subseteq feed'[u] /\ (Steady(u) => (HasFeed(u)' => HasFeed(u)))
    BY <1>6, PushEffect DEF CacheInv, CachedFeed, HasFeed
  <2>3. ASSUME NEW u \in Users, NEW q \in Ordinary(u), Passed(q, u)', ~Passed(q, u)
        PROVE  q \in feed'[u] /\ (Rewriting(u) => <<u, q>> \in raced')
    <3>1. q = p /\ u = f
      <4>1. q \in PostIds
        BY CelebratedType
      <4> QED
        BY <1>6, <2>3, <4>1, PushEffect DEF Passed
    <3> QED
      BY <1>6, <2>1, <3>1, PushEffect
  <2>4. \A u \in Users : Steady(u)' => Keeps(u)
    BY <2>1, <2>2, <2>3, KeepsSame, SteadyStays
  <2> QED
    BY <2>1, <2>4, CoverOthers
<1>7. ASSUME NEW v \in Users, Expire(v) PROVE CoverInv'
  <2>1. UNCHANGED <<posts, celebrity, crossed, job, call, raced>> /\ lapsed \subseteq lapsed'
    BY <1>7, ExpireEffect DEF Expire
  <2>2. \A q, u : Passed(q, u)' => Passed(q, u)
    BY <2>1 DEF Passed
  <2>3. ASSUME NEW u \in Users, Steady(u)' PROVE Keeps(u)
    <3>1. CASE u = v
      <4>1. ~HasFeed(u)' /\ u \notin lapsed'
        BY <1>7, <2>3, <3>1, ExpireEffect DEF HasFeed, Steady
      <4>2. \A d \in Devices : Owner[d] = u => call[d].at # "getFeed"
        BY <1>7, <3>1, <4>1, ExpireEffect DEF InUse
      <4> QED
        BY <2>1, <2>2, <4>1, <4>2, KeepsSame
    <3>2. CASE u # v
      <4>1. feed'[u] = feed[u]
        BY <1>7, <3>2, ExpireEffect
      <4>2. HasFeed(u)' <=> HasFeed(u)
        BY <4>1 DEF HasFeed
      <4> QED
        BY <2>1, <2>2, <4>1, <4>2, KeepsSame
    <3> QED
      BY <3>1, <3>2
  <2> QED
    BY <2>1, <2>3, CoverOthers
<1> QED
  BY <1>1, <1>2, <1>3, <1>4, <1>5, <1>6, <1>7 DEF Worker

(* What a call's own steps mean for what it covers.                        *)
LEMMA SameParts ==
  ASSUME NEW d \in Devices, Touches(d)
  PROVE  /\ PageSize' = PageSize /\ raced' = raced
         /\ \A u : /\ PostsBy(Followees(u))' = PostsBy(Followees(u))
                   /\ AboveThreshold(Followees(u))' = AboveThreshold(Followees(u))
                   /\ Ordinary(u)' = Ordinary(u) /\ Celebrated(u)' = Celebrated(u)
                   /\ \A p : Passed(p, u)' <=> Passed(p, u)
         /\ \A u, p :
              FeedCovers(u, p)' <=>
                \/ p \in feed'[u]
                \/ <<u, p>> \in raced
                \/ Cardinality(Above(feed'[u], p)) + Cardinality(Above(Celebrated(u), p)) >= PageSize
         /\ \A p :
              ReadCovers(d, p)' <=>
                \/ p \in PostsOf(call'[d].entries)
                \/ <<Owner[d], p>> \in raced
                \/ Cardinality(EntriesAbove(call'[d].entries, p))
                     + Cardinality(Above(Celebrated(Owner[d]), p)) >= PageSize
         /\ \A p :
              PageCovers(d, p)' <=>
                \/ p \in PostsOf(call'[d].entries)
                \/ <<Owner[d], p>> \in raced
                \/ Cardinality(EntriesAbove(call'[d].entries, p)) >= PageSize
<1>1. /\ PageSize' = PageSize /\ raced' = raced
      /\ \A u : /\ PostsBy(Followees(u))' = PostsBy(Followees(u))
                /\ AboveThreshold(Followees(u))' = AboveThreshold(Followees(u))
                /\ Ordinary(u)' = Ordinary(u) /\ Celebrated(u)' = Celebrated(u)
                /\ \A p : Passed(p, u)' <=> Passed(p, u)
  BY DEF Touches, PageSize, FinalLimit, PostsBy, Followees, AboveThreshold, Ordinary, Celebrated, Passed
<1>2. ASSUME NEW u, NEW p
      PROVE  FeedCovers(u, p)' <=>
                \/ p \in feed'[u]
                \/ <<u, p>> \in raced
                \/ Cardinality(Above(feed'[u], p)) + Cardinality(Above(Celebrated(u), p)) >= PageSize
  <2>1. Above(feed[u], p)' = Above(feed'[u], p) /\ Above(Celebrated(u), p)' = Above(Celebrated(u), p)
    BY <1>1 DEF Above
  <2> QED
    BY <1>1, <2>1 DEF FeedCovers
<1>3. ASSUME NEW p
      PROVE  /\ PostsOf(call[d].entries)' = PostsOf(call'[d].entries)
             /\ EntriesAbove(call[d].entries, p)' = EntriesAbove(call'[d].entries, p)
             /\ Above(Celebrated(Owner[d]), p)' = Above(Celebrated(Owner[d]), p)
  BY <1>1 DEF PostsOf, EntriesAbove, Above
<1>4. ASSUME NEW p
      PROVE  /\ ReadCovers(d, p)' <=>
                  \/ p \in PostsOf(call'[d].entries)
                  \/ <<Owner[d], p>> \in raced
                  \/ Cardinality(EntriesAbove(call'[d].entries, p))
                       + Cardinality(Above(Celebrated(Owner[d]), p)) >= PageSize
             /\ PageCovers(d, p)' <=>
                  \/ p \in PostsOf(call'[d].entries)
                  \/ <<Owner[d], p>> \in raced
                  \/ Cardinality(EntriesAbove(call'[d].entries, p)) >= PageSize
  BY <1>1, <1>3 DEF ReadCovers, PageCovers
<1> QED
  BY <1>1, <1>2, <1>4

LEMMA FeedKnowsSame ==
  ASSUME NEW d \in Devices, Touches(d), NEW u, feed'[u] = feed[u]
  PROVE  FeedKnows(u)' <=> FeedKnows(u)
<1>1. \A p : FeedCovers(u, p)' <=> FeedCovers(u, p)
  BY SameParts DEF FeedCovers
<1> QED
  BY <1>1, SameParts DEF FeedKnows

LEMMA CoverLocal ==
  ASSUME TypeInv, CoverInv, NEW d \in Devices, Touches(d),
         crossed = 0 /\ OnePageSize /\ Steady(Owner[d]) =>
           (HasFeed(Owner[d])' => FeedKnows(Owner[d])') /\ CallKnows(d)'
  PROVE  CoverInv'
<1> SUFFICES ASSUME crossed = 0, OnePageSize
             PROVE  /\ \A u \in Users : Steady(u) /\ HasFeed(u)' => FeedKnows(u)'
                    /\ \A e \in Devices : Steady(Owner[e]) => CallKnows(e)'
  BY DEF CoverInv, OnePageSize, FinalLimit, Touches, Steady, OneDevice
<1>1. ASSUME NEW u \in Users, Steady(u), HasFeed(u)' PROVE FeedKnows(u)'
  <2>1. CASE u = Owner[d]
    BY <1>1, <2>1
  <2>2. CASE u # Owner[d]
    <3>1. feed'[u] = feed[u]
      BY <2>2 DEF Touches
    <3> QED
      BY <1>1, <3>1, FeedKnowsSame DEF CoverInv, HasFeed
  <2> QED
    BY <2>1, <2>2
<1>2. ASSUME NEW e \in Devices, Steady(Owner[e]) PROVE CallKnows(e)'
  <2>1. CASE e = d
    BY <1>2, <2>1
  <2>2. CASE e # d
    <3>1. CallKnows(e) /\ feed'[Owner[e]] = feed[Owner[e]] /\ call'[e] = call[e]
      BY <1>2, <2>2, OnlyDevice, OwnerType DEF Touches, CoverInv
    <3>2. \A p : FeedCovers(Owner[e], p)' <=> FeedCovers(Owner[e], p)
      BY <3>1, SameParts DEF FeedCovers
    <3>3. \A p : /\ ReadCovers(e, p)' <=> ReadCovers(e, p)
                 /\ PageCovers(e, p)' <=> PageCovers(e, p)
      BY <3>1, SameParts DEF ReadCovers, PageCovers, PostsOf, EntriesAbove, Above
    <3>4. /\ PageSize' = PageSize
          /\ \A u : /\ PostsBy(Followees(u))' = PostsBy(Followees(u))
                    /\ AboveThreshold(Followees(u))' = AboveThreshold(Followees(u))
                    /\ Ordinary(u)' = Ordinary(u) /\ Celebrated(u)' = Celebrated(u)
                    /\ \A p : Passed(p, u)' <=> Passed(p, u)
      BY SameParts
    <3> QED
      BY <3>1, <3>2, <3>3, <3>4, Zenon DEF CallKnows
  <2> QED
    BY <2>1, <2>2
<1> QED
  BY <1>1, <1>2

LEMMA CoverCalls ==
  ASSUME TypeInv, JobInv, OriginInv, CacheInv, CoverInv, NEW d \in Devices,
         Timeline(d) \/ \E n \in Limits : AskTimeline(d, n)
  PROVE  CoverInv'
<1> DEFINE u == Owner[d]
           all == PostsBy(Followees(u))
           due(p) == p \in call[d].owed \/ (p \in Ordinary(u) /\ Passed(p, u))
<1>1. Touches(d) /\ u \in Users
  BY TimelineTouches, OwnerType
<1>2. SUFFICES ASSUME crossed = 0, OnePageSize, Steady(u)
               PROVE  (HasFeed(u)' => FeedKnows(u)') /\ CallKnows(d)'
  BY <1>1, CoverLocal
<1>3. CachedCall(d) /\ CallKnows(d) /\ (HasFeed(u) => FeedKnows(u))
  BY <1>1, <1>2 DEF CacheInv, CoverInv
<1>4. /\ Celebrated(u) \in SUBSET PostIds /\ Ordinary(u) \in SUBSET PostIds /\ all \in SUBSET PostIds
      /\ Ordinary(u) \subseteq all /\ Celebrated(u) \subseteq all
      /\ \A p \in all : p \in Ordinary(u) \/ p \in Celebrated(u)
      /\ call[d].entries \in SUBSET Entries /\ call[d].limit \in Nat /\ PageSize \in Nat
  BY <1>1, CelebratedType, PostFacts, CallType, PageSizeType
<1>5. feed' = feed => (HasFeed(u)' => FeedKnows(u)')
  BY <1>1, <1>3, FeedKnowsSame DEF HasFeed
<1>6. call'[d].at = "idle" => CallKnows(d)'
  BY DEF CallKnows
<1> USE DEF cacheVars
<1>7. ASSUME NEW n \in Limits, AskTimeline(d, n) PROVE (HasFeed(u)' => FeedKnows(u)') /\ CallKnows(d)'
  <2>1. /\ feed' = feed /\ call'[d].at \in {"getFeed", "query"}
        /\ call'[d].at = "getFeed" => HasFeed(u)
        /\ call'[d].limit = PageSize /\ call'[d].owed = {p \in all : job[p].at = "done"}
    <3>1. feed' = feed
      BY <1>7 DEF AskTimeline
    <3>2. FinalLimit(n) = PageSize
      BY <1>2, PageSizeType
    <3> QED
      BY <1>7, <3>1, <3>2, AskEffect
  <2>2. call'[d].at = "getFeed" => \A p \in Ordinary(u) \cap call'[d].owed : FeedCovers(u, p)'
    <3> SUFFICES ASSUME HasFeed(u), NEW p \in Ordinary(u), job[p].at = "done" PROVE FeedCovers(u, p)'
      BY <2>1
    <3>1. Passed(p, u)
      BY <1>4 DEF Passed, JobInv
    <3>2. FeedCovers(u, p)
      BY <1>3, <3>1 DEF FeedKnows
    <3> QED
      BY <1>1, <2>1, <3>2, SameParts DEF FeedCovers
  <2>3. CallKnows(d)'
    BY <1>1, <2>1, <2>2, SameParts DEF CallKnows
  <2> QED
    BY <1>5, <2>1, <2>3
<1>8. CASE GetFeed(d)
  <2>1. feed' = feed /\ call[d].at = "getFeed" /\ HasFeed(u)
    BY <1>3, <1>8, GetFeedEffect DEF GetFeed, CachedCall
  <2>2. CASE Return(d)
    BY <1>5, <1>6, <2>1, <2>2, ReturnEffect
  <2>3. CASE /\ call'[d].at = "getUsers" /\ call'[d].entries = Cached(d)
             /\ call'[d].limit = call[d].limit /\ call'[d].owed = call[d].owed
    <3>1. call[d].limit = PageSize /\ call[d].owed \subseteq all
      BY <1>3, <2>1 DEF CallKnows
    <3>2. ASSUME NEW p \in Ordinary(u), due(p) PROVE ReadCovers(d, p)'
      <4>1. FeedCovers(u, p)
        BY <1>3, <2>1, <3>2 DEF FeedKnows, CallKnows
      <4>2. \/ p \in PostsOf(Cached(d))
            \/ <<u, p>> \in raced
            \/ Cardinality(EntriesAbove(Cached(d), p)) + Cardinality(Above(Celebrated(u), p)) >= PageSize
        BY <1>4, <3>1, <4>1, ReadStep
      <4> QED
        BY <1>1, <2>3, <4>2, SameParts
    <3>3. \A e \in Cached(d) : e[2] = Pushed
      BY DEF Cached
    <3>4. CallKnows(d)'
      BY <1>1, <2>3, <3>1, <3>2, <3>3, SameParts DEF CallKnows
    <3> QED
      BY <1>5, <2>1, <3>4
  <2> QED
    BY <1>8, <2>2, <2>3, GetFeedEffect
<1>9. CASE FindCelebrities(d)
  <2>1. feed' = feed
    BY <1>9 DEF FindCelebrities
  <2>2. /\ call[d].at = "getUsers" /\ call'[d].celebrities = AboveThreshold(Followees(u))
        /\ call'[d].at = IF AboveThreshold(Followees(u)) = {} THEN "refresh" ELSE "pull"
        /\ call'[d].limit = call[d].limit /\ call'[d].owed = call[d].owed
        /\ call'[d].entries = call[d].entries
    BY <1>9, FindEffect
  <2>3. /\ call[d].limit = PageSize /\ call[d].owed \subseteq all
        /\ \A e \in call[d].entries : e[2] = Pushed
        /\ \A p \in Ordinary(u) : due(p) => ReadCovers(d, p)
    BY <1>3, <2>2 DEF CallKnows
  <2>4. \A p \in Ordinary(u) : due(p) => ReadCovers(d, p)'
    BY <1>1, <2>2, <2>3, SameParts DEF ReadCovers
  <2>5. ASSUME AboveThreshold(Followees(u)) = {}, NEW p \in all, due(p) PROVE PageCovers(d, p)'
    <3>1. Celebrated(u) = {} /\ Above(Celebrated(u), p) = {}
      BY <2>5 DEF Celebrated, PostsBy, Above
    <3>2. Cardinality(Above(Celebrated(u), p)) = 0
      BY <3>1, FS_EmptySet
    <3>3. ReadCovers(d, p)
      BY <1>4, <2>3, <2>5, <3>1
    <3>4. Cardinality(EntriesAbove(call[d].entries, p)) \in Nat
      BY <1>4, EntriesAboveType
    <3>5. PageCovers(d, p)
      BY <1>4, <3>2, <3>3, <3>4 DEF ReadCovers, PageCovers
    <3> QED
      BY <1>1, <2>2, <3>5, SameParts DEF PageCovers
  <2>6. call'[d].at = "refresh" => \A e \in call'[d].entries : e[2] # Pulled
    BY <2>2, <2>3 DEF Pulled, Pushed
  <2>7. CallKnows(d)'
    BY <1>1, <2>2, <2>3, <2>4, <2>5, <2>6, SameParts DEF CallKnows
  <2> QED
    BY <1>5, <2>1, <2>7
<1>10. CASE Pull(d)
  <2> DEFINE E == call[d].entries
             C == Celebrated(u)
             F == E \cup {<<q, Pulled>> : q \in Newest(C, PageSize)}
  <2>1. feed' = feed
    BY <1>10 DEF Pull
  <2>2. /\ call[d].limit = PageSize /\ call[d].owed \subseteq all
        /\ \A e \in E : e[2] = Pushed
        /\ \A p \in Ordinary(u) : due(p) => ReadCovers(d, p)
        /\ PostsBy(call[d].celebrities) = C
    BY <1>3, <1>10, PullEffect DEF CallKnows, Celebrated
  <2>3. /\ call'[d].at = "refresh" /\ call'[d].limit = PageSize /\ call'[d].owed = call[d].owed
        /\ call'[d].entries = F
    BY <1>10, <2>2, PullEffect
  <2>4. ASSUME NEW p \in all, due(p) PROVE PageCovers(d, p)'
    <3>1. \/ p \in PostsOf(E) \/ p \in C \/ <<u, p>> \in raced
          \/ Cardinality(EntriesAbove(E, p)) + Cardinality(Above(C, p)) >= PageSize
      BY <1>4, <2>2, <2>4 DEF ReadCovers
    <3>2. CASE <<u, p>> \in raced
      BY <1>1, <3>2, SameParts
    <3>3. CASE <<u, p>> \notin raced
      <4>1. p \in PostsOf(F) \/ Cardinality(EntriesAbove(F, p)) >= PageSize
        BY <1>4, <2>2, <3>1, <3>3, PullStep
      <4> QED
        BY <1>1, <2>3, <4>1, SameParts
    <3> QED
      BY <3>2, <3>3
  <2>5. \A e \in F : e[2] = Pulled => e[1] \in C
    <3>1. Newest(C, PageSize) \subseteq C
      BY DEF Newest
    <3>2. \A e \in E : e[2] # Pulled
      BY <2>2 DEF Pulled, Pushed
    <3> QED
      BY <3>1, <3>2
  <2> HIDE DEF F, C
  <2>6. CallKnows(d)'
    BY <1>1, <2>2, <2>3, <2>4, <2>5, SameParts DEF CallKnows, C
  <2> QED
    BY <1>5, <2>1, <2>6
<1>11. CASE Refresh(d)
  <2> DEFINE E == call[d].entries
             F == Slice(E, PageSize)
             C == Celebrated(u)
  <2>1. /\ call[d].limit = PageSize
        /\ \A e \in E : e[2] = Pulled => e[1] \in C
        /\ \A p \in all : due(p) => PageCovers(d, p)
    BY <1>3, <1>11, RefreshEffect DEF CallKnows
  <2>2. Return(d) /\ feed'[u] = PostsOf(F)
    BY <1>1, <1>11, <2>1, RefreshEffect, HydrateFeedEffect
  <2>3. ASSUME NEW p \in Ordinary(u), Passed(p, u) PROVE FeedCovers(u, p)'
    <3>1. p \in PostsOf(E) \/ <<u, p>> \in raced \/ Cardinality(EntriesAbove(E, p)) >= PageSize
      BY <1>4, <2>1, <2>3 DEF PageCovers
    <3>2. CASE <<u, p>> \in raced
      BY <1>1, <3>2, SameParts
    <3>3. CASE p \in PostsOf(F)
      BY <1>1, <2>2, <3>3, SameParts
    <3>4. CASE <<u, p>> \notin raced /\ p \notin PostsOf(F)
      <4>1. Cardinality(EntriesAbove(F, p)) >= PageSize
        BY <1>4, <3>1, <3>4, SliceFills
      <4>2. F \in SUBSET Entries /\ \A e \in F : e[2] = Pulled => e[1] \in C
        BY <1>4, <2>1 DEF Slice
      <4>3. Cardinality(Above(PostsOf(F), p)) + Cardinality(Above(C, p)) >= Cardinality(EntriesAbove(F, p))
        BY <1>4, <4>2, WriteStep
      <4>4. /\ Cardinality(EntriesAbove(F, p)) \in Nat /\ Cardinality(Above(C, p)) \in Nat
            /\ Cardinality(Above(PostsOf(F), p)) \in Nat
        <5>1. PostsOf(F) \in SUBSET PostIds
          BY <4>2, EntryFacts DEF PostsOf
        <5> QED
          BY <1>4, <4>2, <5>1, AboveType, EntriesAboveType
      <4> HIDE DEF F, C
      <4>5. Cardinality(Above(PostsOf(F), p)) + Cardinality(Above(C, p)) >= PageSize
        BY <1>4, <4>1, <4>3, <4>4
      <4> QED
        BY <1>1, <2>2, <4>5, SameParts DEF C
    <3> QED
      BY <3>2, <3>3, <3>4
  <2>4. FeedKnows(u)'
    BY <1>1, <2>3, SameParts DEF FeedKnows
  <2> QED
    BY <1>6, <2>2, <2>4, ReturnEffect
<1>12. CASE Query(d)
  <2> DEFINE N == Newest(all, PageSize * 5)
             M == {<<q, Pulled>> : q \in N}
  <2>1. feed' = feed
    BY <1>12 DEF Query
  <2>2. call[d].limit = PageSize /\ call[d].owed \subseteq all
    BY <1>3, <1>12, QueryEffect DEF CallKnows
  <2>3. /\ call'[d].at = "hydrate" /\ call'[d].limit = PageSize /\ call'[d].owed = call[d].owed
        /\ call'[d].entries = M
    BY <1>12, <2>2, QueryEffect
  <2>4. ASSUME NEW p \in all PROVE PageCovers(d, p)'
    <3>1. N \in SUBSET PostIds /\ PageSize * 5 \in Nat /\ PageSize * 5 >= PageSize
      BY <1>4 DEF Newest
    <3>2. p \in N \/ Cardinality(Above(N, p)) >= PageSize * 5
      BY <1>4, <3>1, NewestMisses
    <3>3. PostsOf(M) = N
      BY PostsOfPairs, Zenon
    <3>4. Cardinality(EntriesAbove(M, p)) = Cardinality(Above(N, p)) /\ Cardinality(Above(N, p)) \in Nat
      BY <3>1, PairsAbove, AboveType
    <3> HIDE DEF N, M
    <3>5. p \in PostsOf(M) \/ Cardinality(EntriesAbove(M, p)) >= PageSize
      BY <1>4, <3>1, <3>2, <3>3, <3>4
    <3> QED
      BY <1>1, <2>3, <3>5, SameParts
  <2>5. \A e \in M : e[2] = Pulled
    OBVIOUS
  <2> HIDE DEF M
  <2>6. CallKnows(d)'
    BY <1>1, <2>2, <2>3, <2>4, <2>5, SameParts DEF CallKnows
  <2> QED
    BY <1>5, <2>1, <2>6
<1>13. CASE Hydrate(d)
  <2> DEFINE E == call[d].entries
  <2>1. /\ \A e \in E : e[2] = Pulled
        /\ \A p \in all : due(p) => PageCovers(d, p)
    BY <1>3, <1>13, HydrateEffect DEF CallKnows
  <2>2. Return(d) /\ feed'[u] = PostsOf(E) /\ PostsOf(E) \in SUBSET PostIds
    BY <1>1, <1>13, HydrateEffect, HydrateFeedEffect
  <2>3. ASSUME NEW p \in Ordinary(u), Passed(p, u) PROVE FeedCovers(u, p)'
    <3>1. p \in PostsOf(E) \/ <<u, p>> \in raced \/ Cardinality(EntriesAbove(E, p)) >= PageSize
      BY <1>4, <2>1, <2>3 DEF PageCovers
    <3>2. Cardinality(Above(PostsOf(E), p)) >= Cardinality(EntriesAbove(E, p))
      BY <1>4, <2>1, WritePulled
    <3>3. /\ Cardinality(EntriesAbove(E, p)) \in Nat /\ Cardinality(Above(Celebrated(u), p)) \in Nat
          /\ Cardinality(Above(PostsOf(E), p)) \in Nat
      BY <1>4, <2>2, AboveType, EntriesAboveType
    <3> HIDE DEF E
    <3>4. \/ p \in PostsOf(E) \/ <<u, p>> \in raced
          \/ Cardinality(Above(PostsOf(E), p)) + Cardinality(Above(Celebrated(u), p)) >= PageSize
      BY <1>4, <3>1, <3>2, <3>3
    <3> QED
      BY <1>1, <2>2, <3>4, SameParts
  <2>4. FeedKnows(u)'
    BY <1>1, <2>3, SameParts DEF FeedKnows
  <2> QED
    BY <1>6, <2>2, <2>4, ReturnEffect
<1> QED
  BY <1>7, <1>8, <1>9, <1>10, <1>11, <1>12, <1>13 DEF Timeline
-----------------------------------------------------------------------------
(* The invariant holds, for any follow graph, posts and disturbances.      *)
LEMMA InvStep == Inv /\ [Next]_vars => Inv'
<1> SUFFICES ASSUME Inv, [Next]_vars PROVE Inv'
  OBVIOUS
<1>1. TypeInv /\ JobInv /\ OriginInv /\ CacheInv /\ FreshInv /\ CoverInv
  BY DEF Inv
<1>2. TypeInv' /\ JobInv' /\ OriginInv' /\ CacheInv' /\ FreshInv'
  BY <1>1, TypeStep, JobStep, OriginStep, CacheStep, FreshStep
<1>3. CoverInv'
  <2>1. CASE UNCHANGED vars
    <3>1. /\ UNCHANGED <<posts, celebrity, crossed, feed, job, call, raced, lapsed>>
      BY <2>1 DEF vars, dbVars, cacheVars, windows
    <3>2. \A u \in Users : Keeps(u)
      BY <3>1 DEF Keeps, HasFeed, Ordinary, Celebrated, PostsBy, Followees, AboveThreshold, Passed
    <3> QED
      BY <1>1, <1>2, <3>1, <3>2, CoverOthers
  <2>2. CASE Next
    BY <1>1, <1>2, <2>2, CoverWorkers, CoverCalls DEF Next
  <2> QED
    BY <2>1, <2>2
<1> QED
  BY <1>2, <1>3 DEF Inv

THEOREM FeedInvariant == Spec => []Inv
  BY InitInv, InvStep, PTL DEF Spec

(* Every variable has its type, and a cached feed of a user with one       *)
(* device expires unless it vanished between a check and its use.          *)
THEOREM AlwaysConsistent == Spec => []Consistent
<1>1. Inv => Consistent
  BY DEF Inv, TypeInv, Consistent, EveryFeedExpires, CacheInv, CachedFeed, Steady
<1> QED
  BY <1>1, FeedInvariant, PTL

(* The newest post of a timeline is not older than that of the timeline    *)
(* before it.                                                              *)
THEOREM TimelinesNeverGoBack == Spec => NewestNeverGoesBack
<1> DEFINE Kept == \A u \in Users \ lapsed : OneDevice(u) => newest'[u] >= newest[u]
<1>1. ASSUME Inv, [Next]_vars PROVE Kept
  <2> USE DEF dbVars, cacheVars, windows
  <2>0. /\ TypeInv /\ OriginInv /\ CacheInv /\ FreshInv
        /\ \A u \in Users : newest[u] \in 0..MaxPosts
    BY <1>1 DEF Inv, TypeInv, TypeOK
  <2>1. newest' = newest => Kept
    BY <2>0
  <2>2. ASSUME NEW d \in Devices, Timeline(d) PROVE Kept
    <3> SUFFICES ASSUME NEW u \in Users, Steady(u) PROVE newest'[u] >= newest[u]
      BY DEF Steady
    <3>1. Touches(d)
      BY <2>0, <2>2, TimelineTouches
    <3>2. CASE u # Owner[d]
      BY <2>0, <3>1, <3>2 DEF Touches
    <3>3. CASE u = Owner[d]
      <4>1. CachedCall(d) /\ FreshCall(d)
        BY <2>0, <3>3 DEF CacheInv, FreshInv
      <4>2. newest' = newest => newest'[u] >= newest[u]
        BY <2>0
      <4>3. CASE GetFeed(d)
        <5>1. HasFeed(u) /\ feed[u] \subseteq PostsBy(Followees(u))
          BY <2>0, <3>3, <4>1, <4>3, GetFeedEffect DEF CachedCall, OriginInv
        <5>2. Followees(u) # {}
          BY <5>1 DEF HasFeed, PostsBy
        <5> QED
          BY <2>0, <3>3, <4>2, <4>3, <5>2, GetFeedEffect
      <4>4. CASE FindCelebrities(d) \/ Pull(d) \/ Query(d)
        BY <4>2, <4>4 DEF FindCelebrities, Pull, Query
      <4>5. CASE Refresh(d)
        <5>1. Fresh(PostsOf(call[d].entries), u)
          BY <2>0, <3>3, <4>1, <4>5, RefreshEffect DEF FreshCall
        <5> QED
          BY <2>0, <3>3, <4>5, <5>1, RefreshEffect, ReturnEffect, FreshPage
      <4>6. CASE Hydrate(d)
        <5>1. newest[u] = 0 \/ Fresh(PostsOf(call[d].entries), u)
          BY <2>0, <3>3, <4>1, <4>6, HydrateEffect DEF FreshCall
        <5> QED
          BY <2>0, <3>3, <4>6, <5>1, HydrateEffect, ReturnEffect, FreshPage
      <4> QED
        BY <2>2, <4>3, <4>4, <4>5, <4>6 DEF Timeline
    <3> QED
      BY <3>2, <3>3
  <2>3. newest' = newest \/ \E d \in Devices : Timeline(d)
    BY <1>1 DEF Next, Worker, Post, Cross, Redeliver, StartFanout, CheckFollower, PushToFeed, Expire,
                AskTimeline, vars
  <2> QED
    BY <2>1, <2>2, <2>3
<1>2. Inv /\ [Next]_vars => [Kept]_vars
  BY <1>1
<1>3. Spec => [][Kept]_vars
  BY <1>2, FeedInvariant, PTL DEF Spec
<1> QED
  BY <1>3 DEF NewestNeverGoesBack, Kept

(* A returned page misses no post that it owes, unless it is full of newer *)
(* ones.                                                                   *)
THEOREM TimelinesComplete == Spec => CompleteTimeline
<1> DEFINE Complete ==
      \A d \in Devices :
        Returns(d) /\ Owner[d] \notin lapsed /\ crossed = 0 /\ OneDevice(Owner[d]) /\ OnePageSize =>
          \A p \in call[d].owed \ PostsOf(Page(d)) :
            \/ <<Owner[d], p>> \in raced
            \/ Cardinality({e \in Page(d) : e[1] > p}) >= call[d].limit
<1>1. ASSUME Inv, [Next]_vars PROVE Complete
  <2> USE DEF dbVars, cacheVars, windows
  <2> SUFFICES ASSUME NEW d \in Devices, Returns(d), Steady(Owner[d]), crossed = 0, OnePageSize,
                      NEW p \in call[d].owed \ PostsOf(Page(d)), <<Owner[d], p>> \notin raced
               PROVE  Cardinality({e \in Page(d) : e[1] > p}) >= call[d].limit
    BY OwnerType DEF Steady
  <2>0. TypeInv /\ JobInv /\ OriginInv /\ CacheInv /\ CoverInv
    BY <1>1 DEF Inv
  <2>1. CallKnows(d) /\ call[d].at # "idle" /\ call'[d].at = "idle"
    BY <2>0 DEF CoverInv, Returns, Busy
  <2>2. /\ call[d].limit = PageSize /\ p \in PostsBy(Followees(Owner[d])) /\ p \in PostIds
        /\ call[d].entries \in SUBSET Entries /\ PageSize \in Nat
    BY <2>0, <2>1, CallType, PageSizeType DEF CallKnows
  <2>3. Timeline(d)
    <3>1. ASSUME NEW e \in Devices, e # d, Timeline(e) \/ \E n \in Limits : AskTimeline(e, n) PROVE FALSE
      BY <2>0, <2>1, <3>1, TimelineTouches DEF Touches
    <3>2. ASSUME NEW n \in Limits, AskTimeline(d, n) PROVE FALSE
      BY <2>0, <2>1, <3>2, AskEffect
    <3>3. call' # call
      BY <2>1
    <3> QED
      BY <1>1, <3>1, <3>2, <3>3 DEF Next, Worker, Post, Cross, Redeliver, StartFanout, CheckFollower,
                                    PushToFeed, Expire, vars
  <2>4. CASE call[d].at \in {"refresh", "hydrate"}
    <3> DEFINE E == call[d].entries
               F == Slice(E, PageSize)
    <3>1. Page(d) = F
      BY <2>2, <2>4 DEF Page
    <3>2. p \in PostsOf(E) \/ Cardinality(EntriesAbove(E, p)) >= PageSize
      BY <2>1, <2>2, <2>4 DEF CallKnows, PageCovers
    <3>3. Cardinality(EntriesAbove(F, p)) >= PageSize
      BY <2>2, <3>1, <3>2, SliceFills
    <3> QED
      BY <2>2, <3>1, <3>3 DEF EntriesAbove
  <2>5. CASE GetFeed(d)
    <3>1. Followees(Owner[d]) = {}
      BY <2>0, <2>1, <2>5, GetFeedEffect
    <3> QED
      BY <2>2, <3>1 DEF PostsBy
  <2>6. CASE FindCelebrities(d) \/ Pull(d) \/ Query(d)
    BY <2>0, <2>1, <2>6, FindEffect, PullEffect, QueryEffect
  <2> QED
    BY <2>3, <2>4, <2>5, <2>6, <2>0, RefreshEffect, HydrateEffect DEF Timeline
<1>2. Inv /\ [Next]_vars => [Complete]_vars
  BY <1>1
<1>3. Spec => [][Complete]_vars
  BY <1>2, FeedInvariant, PTL DEF Spec
<1> QED
  BY <1>3 DEF CompleteTimeline, Complete
=============================================================================
