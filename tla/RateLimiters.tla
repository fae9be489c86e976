---------------------------- MODULE RateLimiters ----------------------------
(***************************************************************************)
(* projects/03-rate-limiters: the four limiters, each with its state per   *)
(* client.  allow() is synchronous and a limiter does not know of the      *)
(* others, so one trace of requests is put to all four: a step is one      *)
(* request and their four answers, or the passing of time.                 *)
(*                                                                         *)
(* Rates are given as the milliseconds one request takes; tokens are       *)
(* counted in parts of which refillEvery make one, so that no fraction is  *)
(* left (the code's are floating-point numbers).  The clock never goes back.*)
(***************************************************************************)
EXTENDS Integers, Sequences, FiniteSets, Selections

CONSTANTS
  Clients,
  capacity, refillEvery, \* the token bucket
  depth, leakEvery,      \* the leaky bucket
  limit, windowSize,     \* both windows
  MaxRequests,           \* bound: requests of each client
  MaxTime                \* bound: the clock stops here

(* Rates and windows are positive, and a window lets a request through;    *)
(* without one the windows' bound would be 0 requests, less than none.     *)
ConstantsFit ==
  /\ {capacity, depth, MaxTime} \subseteq Nat
  /\ {refillEvery, leakEvery, limit, windowSize} \subseteq Nat \ {0}

VARIABLES
  now,
  asked,                 \* history: requests of each client so far
  clientBuckets, clientQueues, clientWindows, clientLogs,
  passed                 \* history: the times of the requests let through

limiterVars == <<clientBuckets, clientQueues, clientWindows, clientLogs>>
vars == <<now, asked, limiterVars, passed>>
-----------------------------------------------------------------------------
Kinds == {"tokenBucket", "leakyBucket", "fixedWindow", "slidingLog"}
Least(a, b) == IF a < b THEN a ELSE b
Most(a, b) == IF a > b THEN a ELSE b

Put(f, c, v) == [d \in DOMAIN f \cup {c} |-> IF d = c THEN v ELSE f[d]]
None == [c \in {} |-> 0]

Init ==
  /\ now = 0
  /\ asked = [c \in Clients |-> 0]
  /\ clientBuckets = None
  /\ clientQueues = None
  /\ clientWindows = None
  /\ clientLogs = None
  /\ passed = [k \in Kinds |-> [c \in Clients |-> <<>>]]
-----------------------------------------------------------------------------
Capped(a, b) == Least(a, b)

(* TokenBucketLimiter: a full bucket at first, then what time has added.   *)
Bucket(c) ==
  [tokens |-> IF c \in DOMAIN clientBuckets
              THEN LET b == clientBuckets[c]
                   IN  Capped(capacity * refillEvery, b.tokens + (now - b.lastRefill))
              ELSE capacity * refillEvery,
   lastRefill |-> now]
TokenBucketAllow(c) == Bucket(c).tokens >= refillEvery
TokenBucketAfter(c) ==
  IF TokenBucketAllow(c) THEN [Bucket(c) EXCEPT !.tokens = @ - refillEvery] ELSE Bucket(c)

(* LeakyBucketLimiter: whole requests leak, and the time of the last leak  *)
(* moves on by as many intervals, so that no part of one is lost.          *)
LeakTimeIsNow(q, leaked) == now   \* mutant
LeakTime(q, leaked) == q.lastLeak + leaked * leakEvery
Queue(c) ==
  IF c \notin DOMAIN clientQueues THEN [queueSize |-> 0, lastLeak |-> now]
  ELSE LET q == clientQueues[c]
           leaked == (now - q.lastLeak) \div leakEvery
       IN  IF leaked = 0 THEN q
           ELSE [queueSize |-> Most(0, q.queueSize - leaked), lastLeak |-> LeakTime(q, leaked)]
LeakyBucketAllow(c) == Queue(c).queueSize < depth
LeakyBucketAfter(c) ==
  IF LeakyBucketAllow(c) THEN [Queue(c) EXCEPT !.queueSize = @ + 1] ELSE Queue(c)

(* FixedWindowLimiter: a window starts with the first request after the    *)
(* last one has ended.                                                     *)
WindowStart(w) == now
Window(c) ==
  IF c \notin DOMAIN clientWindows THEN [count |-> 0, windowStart |-> now]
  ELSE LET w == clientWindows[c]
       IN  IF now - w.windowStart >= windowSize
           THEN [count |-> 0, windowStart |-> WindowStart(w)] ELSE w
FixedWindowAllow(c) == Window(c).count < limit
FixedWindowAfter(c) ==
  IF FixedWindowAllow(c) THEN [Window(c) EXCEPT !.count = @ + 1] ELSE Window(c)

(* SlidingWindowLogLimiter: the times of the requests let through within   *)
(* the window that ends now.                                               *)
InWindow(threshold, ts) == ts > threshold
Log(c) ==
  IF c \notin DOMAIN clientLogs THEN <<>>
  ELSE Kept(clientLogs[c], {ts \in Int : InWindow(now - windowSize, ts)})
SlidingLogAllow(c) == Len(Log(c)) < limit
SlidingLogAfter(c) == IF SlidingLogAllow(c) THEN Append(Log(c), now) ELSE Log(c)

Allow(k, c) ==
  CASE k = "tokenBucket" -> TokenBucketAllow(c)
    [] k = "leakyBucket" -> LeakyBucketAllow(c)
    [] k = "fixedWindow" -> FixedWindowAllow(c)
    [] k = "slidingLog"  -> SlidingLogAllow(c)

(* A request of a client, put to each limiter's allow().                   *)
Request(c) ==
  /\ asked[c] < MaxRequests[c]
  /\ asked' = [asked EXCEPT ![c] = @ + 1]
  /\ clientBuckets' = Put(clientBuckets, c, TokenBucketAfter(c))
  /\ clientQueues' = Put(clientQueues, c, LeakyBucketAfter(c))
  /\ clientWindows' = Put(clientWindows, c, FixedWindowAfter(c))
  /\ clientLogs' = Put(clientLogs, c, SlidingLogAfter(c))
  /\ passed' = [k \in Kinds |->
                  IF Allow(k, c) THEN [passed[k] EXCEPT ![c] = Append(@, now)] ELSE passed[k]]
  /\ UNCHANGED now

Pass == now < MaxTime /\ now' = now + 1 /\ UNCHANGED <<asked, limiterVars, passed>>

Next == (\E c \in Clients : Request(c)) \/ Pass

Spec == Init /\ [][Next]_vars
-----------------------------------------------------------------------------
(* Requests let through from one moment to a later one, both included.     *)
Through(times, from, to) == Cardinality({i \in DOMAIN times : times[i] \in from..to})
Spans == {span \in (0..MaxTime) \X (0..MaxTime) : span[1] <= span[2]}
Ceiling(n, d) == (n + d - 1) \div d

(* Every limiter's state has its type and stays within its limits.         *)
TypeOK ==
  /\ \A c \in DOMAIN clientBuckets : clientBuckets[c].tokens \in 0..(capacity * refillEvery)
  /\ \A c \in DOMAIN clientQueues : clientQueues[c].queueSize \in 0..depth
  /\ \A c \in DOMAIN clientWindows : clientWindows[c].count \in 0..limit
  /\ \A c \in DOMAIN clientLogs : Len(clientLogs[c]) <= limit

(* Token bucket: between any two moments a client gets through no more     *)
(* requests than the bucket holds and that time refills, idle or not.      *)
TokenBucketBound ==
  \A c \in Clients, span \in Spans :
    Through(passed.tokenBucket[c], span[1], span[2])
      <= capacity + (span[2] - span[1]) \div refillEvery

(* Leaky bucket: no more than its depth and what leaks, where the leak     *)
(* under way at the first moment counts as a whole one.                    *)
LeakyBucketBound ==
  \A c \in Clients, span \in Spans :
    Through(passed.leakyBucket[c], span[1], span[2])
      <= depth + Ceiling(span[2] - span[1], leakEvery)

(* Fixed window: two bursts on both sides of a boundary pass more than the *)
(* limit within one windowSize, but never twice the limit, because a window*)
(* starts with a request, which is then a windowSize before the next.      *)
FixedWindowBound ==
  \A c \in Clients, from \in 0..MaxTime :
    Through(passed.fixedWindow[c], from, from + windowSize - 1) < 2 * limit

(* Sliding log: no windowSize, wherever it starts, sees more than the limit.*)
SlidingWindowBound ==
  \A c \in Clients, from \in 0..MaxTime :
    Through(passed.slidingLog[c], from, from + windowSize - 1) <= limit

(* All four bounds.                                                        *)
WithinBounds ==
  TokenBucketBound /\ LeakyBucketBound /\ FixedWindowBound /\ SlidingWindowBound

(* No limiter refuses a request while its client is under the bound: the   *)
(* windows only after limit requests within the window that ends now, the  *)
(* buckets only when a span that ends now is used up.                      *)
UsedUp(k, c) ==
  \E from \in 0..now :
    CASE k = "tokenBucket" -> Through(passed[k][c], from, now) + 1
                                > capacity + (now - from) \div refillEvery
      [] k = "leakyBucket" -> Through(passed[k][c], from, now) + 1
                                > depth + (now - from) \div leakEvery
      [] OTHER -> from > now - windowSize /\ Through(passed[k][c], from, now) >= limit
RefusesOnlyAtLimit ==
  [][\A c \in Clients, k \in Kinds :
       asked'[c] # asked[c] => passed'[k][c] # passed[k][c] \/ UsedUp(k, c)]_vars
=============================================================================
