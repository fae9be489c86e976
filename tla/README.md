# A verification project for learning-with-projects

This directory holds TLA+ models of the programs in this repository, the TLC
configurations that check them and the TLAPS proofs about them. `PROJECT.json`
lists the runs, the correspondence between definitions and source lines
(`map`), the mutants that show each property can fail, the disagreements found
between code and documentation (`findings`), the hazards and the theorems.

To check a module: `tlc -config MCTaskScheduler.cfg MCTaskScheduler`; to check
the proofs: `tlapm TaskSchedulerProofs.tla`, and so for each `...Proofs` module.

## 1. Inventory

The repository is a course: each directory is an independent program with its
own state, mostly one TypeScript class or a few. Programs do not call each
other; inside a program, components interact through method calls on one
JavaScript thread, callbacks and promises, and interfaces to external services
(a database, Redis, a broker, a router, sockets).

| Component | State | Operations | What is hard | What makes it correct |
|---|---|---|---|---|
| Task scheduler (`projects/08`) | heap, `activeWorkers`, `running`, one timer | `schedule`, `start`, `stop`, `tick`, promise reactions, timer callback | actions re-enter `schedule`/`start`/`stop` inside the dispatch loop, so ticks nest, each with the time it read; the timer is set, cleared and fires independently | no lost wake-up; timer not later than the next task; worker limit; retries exactly within budget and backoff; silence after `stop` |
| Task heap (`projects/08`) | array | `insert`, `extractMin`, `peekMin` | indices at the array's ends, the last element replacing the first | first element is an earliest one, nothing lost or doubled |
| Message queue broker (`projects/05`) | topics, offsets, locks, retry counts, dead-letter queue | `publish`, `consume`, `ack`, `nack` | locks expire while workers work; workers crash or settle late; offsets and locks have different owners | one live lock per message; no message skipped; dead-letter queue exact; offsets only by one's own acknowledgements |
| Blue-green deployer (`devops/d04`) | recorded versions; router configuration, live traffic, servers | `getSlotsStatus`, `deploy` | overlapping calls at every await; failed reloads, rejections, restarts | no downtime; no bad build under traffic; rollback leaves router and servers in agreement |
| Social feed: fan-out, timelines (`capstone/c00`) | cached feeds with TTL, users, posts | `processPostCreated`, `getTimeline` | workers and timeline calls interleave at awaits, redelivered events, feeds that expire, authors that cross the celebrity threshold | nothing missing, nothing twice, every feed expires, timelines do not go back |
| Social feed: API gateway (`capstone/c00`) | none | `handleRequest` | nothing: a decision list | routing |
| TCP server and client (`projects/00`) | server and client on record, set of tracked sockets, promises | `start`, `stop`, `connect`, `send`, `disconnect`, socket events | close events that arrive in the next life of the object, back-pressure, shutdown order | every open socket tracked; the client's record never a dead socket; promises settle |
| HTTP server (`projects/01`) | a buffer and pending writes per connection, active sockets, routes | chunk handler, write callbacks, `start`, `stop`, `registerRoute` | requests split over and packed into chunks, bodies that hold the boundary, a reply that closes with requests behind it | every complete request answered once, in order, with its own body; keep-alive; `stop` ends |
| WebSocket chat (`projects/02`) | a buffer per connection, set of clients | upgrade, frame loop, `broadcast`, `onMessage`, `start`, `stop` | frames in the upgrade's chunk, behind a close frame or behind a callback that throws; clients that leave during a broadcast; upgrades after `stop` | every frame handled; everyone hears the same chat; only connected clients; `stop` ends |
| Rate limiters (`projects/03`) | counters, windows, logs, buckets per client | `allow` of four limiters | window boundaries, partial leaks and refills | each within its bound over every span, and refusing only at it |
| Load balancer (`projects/04`) | weights, health, index | `getNextServer`, `performHealthCheck`, ping results | backends leave and return in mid-cycle, checks overlap | fair shares of each strategy; the last check wins |
| Distributed cache (`projects/06`) | LRU list and map, lazy expiry; a RESP parser | `get`, `set`, `delete`, `expire`; `serializeBulkString`, `parseArray` | list and map must agree; values that look like protocol | an LRU cache; what is parsed is what was sent |
| Log aggregator (`projects/07`) | ring buffer, UDP socket | `push`, `getAll`, `queryLogs`, `start`, `stop`, datagrams | wrap-around, a second `start` | the last N entries in order; no socket left open unrecorded |
| URL shortener (`projects/09`) | identifiers, reverse map, cache | POST and GET requests, restart | identifiers against a preloaded database, aliases of a key in the cache | a key leads to its URL; one key per URL; every redirect counted |
| Docker, CI, Kubernetes samples (`devops/d00`-`d02`) | none of their own | request handlers, arithmetic, manifests | nothing: stateless or external | - |
| Language and foundation labs | none, or unimplemented stubs | - | - | - |

`PROJECT.json` lists each hazard at its line.

## 2. Plan

Order: first what coordinates several actors and has the richest interleavings.

1. `TaskScheduler` over the abstract `DelayedTaskPool`, with proofs. *Done.*
2. `TaskMinHeap` over the abstract `EarliestFirstQueue`, with proofs; it
   justifies the set with a minimum that `TaskScheduler` uses. *Done.*
3. `MessageQueueBroker` with its workers. *Done.*
4. `BlueGreenDeployer` with its router and launcher. *Done.*
5. `SocialFeed`: fan-out worker and feed service on one cache. *Done.*
6. The programs that work in memory: `LRUCache` over `LeastRecentlyUsed`,
   `RESPParser`, `LogAggregator` over `BoundedLog`, `LoadBalancer`,
   `RateLimiters`, `URLShortener`. *Done.*
7. The network programs, events interleaving on one thread: `TCPConnections`,
   `HTTPServer`, `WebSocketServer`. *Done.*
8. Proofs of what matters most in each module: the scheduler's refinement of
   its pool, the broker's locks and dead letters, the deployer's traffic, the
   feed's timelines, the TCP and HTTP servers' records, HTTP framing, the ring
   buffer's refinement of `BoundedLog`, the shortener's promises, the balancer's
   health. *Done.*
9. Proofs of the rest: the WebSocket server's frames, chat and clients; the log's
   queries; the cache's refinement of `LeastRecentlyUsed`; the limiters' bounds
   and that they refuse at them only; the balancer's shares; the parser. *Done.*
10. Left: liveness (section 5).

Abstract specifications: a pool of delayed tasks, a queue that hands out an
earliest task, a cache that drops the least recently used entry, a bounded log.
The other components state what they promise as properties.

## 3. The modules

Each definition of a model that stands for code has its lines in `map`.
Definitions marked `mutant` are not part of any model: each replaces one
definition by a plausible bug and makes one property fail.

### TaskScheduler (`projects/08-task-scheduler`)

The code runs on one JavaScript thread. `stack` holds the calls that are
running: a `tick` before it read the clock (`enter`), a `tick` in its loop with
the `now` it read (`loop`), and the synchronous part of an action (`action`),
inside which callers may call `schedule`, `start` and `stop`. A step is the
code between two points where something else can run: one round of the loop
(`Dispatch`, `TickSleep`, `TickDone`), a whole reaction (`Resolved`,
`Rejected`), the timer's callback (`TimerFires`). Reactions and the timer need
an empty stack. `Resolved` and `Rejected` include the rescheduling and the
`tick` that ends them; the `schedule` inside a reaction pushes a `tick` of its
own before that, as in the code.

Time may pass inside an action, which then blocks the thread (up to
`MaxBlocked` in all), and an action may throw instead of returning a promise.
`TimerDelay` is Node's conversion of a delay above 2^31-1 ms to 1 ms.
`failures`, `failedAt` and `blocked` are history variables; `abandoned` are the
tasks whose action threw.

A task object is scheduled by callers once (`fresh`): the code keeps
`runAt` and `retryCount` in the caller's object, and the same object twice in
the heap would be two tasks sharing fields, which no text of the repository
provides for. The heap is a set and `IsMin` any earliest task: `EarliestFirst`
and `HeapImplementsQueue` of `InMemoryProofs` justify both.

`DelayedTaskPool` is the abstract specification: queued tasks with due times, a
bounded set of busy workers, open or closed, no ticks, timers or counters.
`ImplementsPool` is the refinement.

### TaskMinHeap

The array, with one step per round of `bubbleUp` and `bubbleDown`, so that the
invariants say what holds in the middle of the loops too. `EarliestFirstQueue`
counts the copies of each task and knows no order but due times; `IsQueue`
maps the heap to it. A task's time does not change while it is in the heap,
which the scheduler respects: it writes `runAt` before every insertion only.

### MessageQueueBroker (`projects/05-message-queue`)

The methods are synchronous, so each is one step; what interleaves are the
workers. A worker holds what `consume` returned until it settles, in time or
after its lock expired (the broker accepts both), gives it up when its lock
expires (`Lapse`) or restarts with the same consumer id (`Crash`). The
histories `nackedLate` and `orphaned` name the messages to which that
happened. A topic's array is the set of its offsets, because messages are
appended in the order of their offsets and removed by identity. Names are
sequences of parts, because the key of an offset is two names joined by `:`.

### BlueGreenDeployer (`devops/d04-blue-green`)

One step per awaited interface call together with the code up to the next
await. The router has a written configuration and the live traffic, which
takes it over when a reload succeeds; the launcher runs at most one server per
slot. `isAlive` answers true only for a running server of a good version, and
may answer false for one that is still booting. An interface call that rejects
has no effect, and the exception leaves `deploy`. `Restart` ends all calls and
loses the record of versions but not router and servers. The history `upsets`
says which of the things that a promise may exclude have happened: overlapping
calls, overlapping deploys, a deploy that read a configuration apart from the
traffic (`misled`), a reload that did not succeed, a restart.

### SocialFeed (`capstone/c00-social-feed`)

One step per await of `processPostCreated` and `getTimeline`. The database,
Redis and the broker are interfaces in the repository and modelled by the
contracts written there: a sorted set without members does not exist, ZADD
does not touch a TTL and creates a key without one, `hydrateFeed` is one atomic
DEL, ZADD, EXPIRE. Posts are numbered by creation; the follow graph is
constant, so reads of followers are merged with the step before them; users'
counts change in `Cross`, between the steps that read them. Each device makes one call at a time.

Everything interleaves freely. Two histories record the windows in which the
code is known to go wrong: `raced` holds the pushes that reach a feed between
its reading and its rewriting by a timeline call, `lapsed` the users whose feed
expired between a check and its use. `crossed` counts the authors who crossed
the celebrity threshold.

### LogAggregator (`projects/07-log-aggregator`)

The ring as in the code, array, pointer and counter. `BoundedLog` is the abstract
log, the last `Capacity` entries accepted. Sockets have states of their own, so
that a second `start`, a bind that fails and a datagram on a forgotten socket
are steps. A failed bind is swallowed by the error handler and `start` never
settles: a socket stays `failed` for ever. A query filters three times, as the
code does; `Selections` is `Array.prototype.filter` for a test that is
membership in a set, a recursive function and not `SelectSeq`, so that the
proofs can use it. The cache, the limiters, the balancer and the WebSocket
server filter with it too.

### LRUCache and RESPParser (`projects/06-distributed-cache`)

Map and list are kept apart as in the code. `LeastRecentlyUsed` has no list but
the relation of which key was used before which; it is implemented until an
eviction meets the empty string as the oldest key, which the code's truth test
takes off the list but not out of the map (`unlisted`). The parser reads lines,
not lengths: `RoundTrip` is about every array of values, cut off anywhere, none
of which contains a CRLF.

### RateLimiters (`projects/03-rate-limiters`)

One trace of requests is put to all four limiters. A refill or leak is counted
in whole parts, where the code has floating-point numbers. Each bound is stated
over every span of time, not only over the limiter's own windows.

### LoadBalancer (`projects/04-load-balancer`)

The strategies over the healthy backends, and health checks whose pings are
answered in any order and overlap. `recent` holds the choices made since the
health last changed, the latest `Patience` of them. That bound is what
`NobodyStarves` needs: current weights survive a backend's absence, and a healthy
one may be left out until it has gained what it can be short of (`WeightsBounded`)
and what the others can be ahead.

### URLShortener (`projects/09-url-shortener`)

A request is one step, because the service awaits nothing that yields. Base 62
becomes a small base in which keys of two digits, leading zeros and invalid
characters still occur. The cache is keyed by the text of a key, the database
by its number. A restart counts from the first identifier again;
`reissued` are the identifiers handed out while in use.

### TCPConnections (`projects/00-implement-tcp`)

One `TCPServer`, one `TCPClient` and the `net` objects between them. A step is a
call, an event delivered to a listener, or a change in Node.js that a listener
waits for. A connection has two ends, the server's (`backlog`, `open`,
`destroyed`, `closed`) and the client's. The objects on record (`server`,
`socket`) are sets of at most one, because events of old objects change the
record of new ones. `replaced`, `crowded` and `hasty` record calls made before
earlier ones had taken effect.

### HTTPServer (`projects/01-http-server`) and HeaderBlocks

Bytes are tokens: CRLF, a request line, the header lines the code reads, a
character, half a character. A chunk is any number of tokens; `Data` runs the
framing loop until no complete request is left, and the callbacks of its writes
(`Written`) come later, one by one, which is when a connection is destroyed.
`HeaderBlocks` is what this server and the next do alike with the bytes before
a body. What a client sends is a sequence of `Requests` (path, whether it asks
to close, body); bodies may hold CRLF and look like headers. A place in the
buffer that may not exist, `Boundary` or a header, is a set of at most one
place, empty for `indexOf`'s -1. `unruly` records a start over a server on record or a stop before the
server listens.

### WebSocketServer (`projects/02-websocket-chat`)

The upgrade, then frames byte by byte: header of 2, 4 or 10 bytes, mask,
payload. `chat` is everything broadcast, `sent` everything written to a
connection, `joined` how much of the chat a client came too late for. The
`onMessage` callback may throw, which drops the client of that message but not
the frames behind it. `stranded` are connections that were not upgraded when
`stop` came. What a client sends is headers that end with their only empty line
and frames as the protocol writes them (`ClientHeaders`, `ClientFrames`): any
opcode, a length in 0, 2 or 8 bytes of its own, with a key or without.

### InMemory and MCInMemory

The programs of item 6 and the task heap do not interact. `InMemory` composes
them, with the parameters of all of them, and runs one, chosen in the initial
state, so that one run checks them all and their state spaces add up. A theorem
about one of them is a theorem of `InMemorySpec`. `MCInMemory` gives the
parameters values.

## 4. What the runs show

Passing runs. `Consistent` is the type invariant of a module together with
what must hold in every state of its records.

| Run | Properties | Instance |
|---|---|---|
| `task_scheduler` | `Consistent` (types, worker limit, no timer when stopped), `NoLostWakeup`, `TimerNotLate`, `RetryBudget`, `BackoffRespected`, `StopIsQuiet`, `ImplementsPool`; `QueuedTaskStarts` under `FairSpec` | 3 tasks (one periodic, one with a retry), 2 workers, scheduled for 1 or 3, clock to 3, actions that block for 1 and throw |
| `in_memory` | `Consistent` (types; heap order and `MinFirst`; `QueryExact`, `OpenOnlyOnRecord` of the log; `ListMatchesMap`, `WithinCapacity` of the cache; `WithinBounds` of the limiters), `IsQueue`, `IsBoundedLog`, `IsLRU`, `RoundTrip`, `RefusesOnlyAtLimit`, `FairShares`, `HealthIsNewest`, `PromisesKept` | heap: 4 tasks, two due together, arrays up to 7; log: capacity 2, 4 entries, 2 sockets; cache: 3 keys, one of them empty, capacity 2, clock to 2; parser: arrays of 2 values of up to 2 lines; limiters: clock to 6, 7 requests of one client and one of another; balancer: 3 backends of weights 3, 1, 1, two checks; shortener: base 3, 3 databases, identifiers 2 to 4 |
| `broker` | `Consistent` (types, `CommittedByOwnAcks`), `ExclusiveLock`, `NothingSkipped`, `DeadLetterExact` | topics of 2 and 1 messages, 2 workers, timeout 1, 2 attempts, clock to 2 |
| `blue_green` | `Consistent` (types, `VersionsAgree`), `TrafficServed`, `RolledBack`, `SuccessIsLive`; `CallsSettle` under `FairSpec` | 3 deploys, one of a bad build, and a status call, two at a time |
| `feed` | `Consistent` (types, `EveryFeedExpires`), `CompleteTimeline`, `NewestNeverGoesBack` | a reader of a celebrity and an ordinary author, 3 posts on pages of 2, one disturbance: a redelivery, a crossing or an expiry in a window |
| `tcp` | `Consistent` (types, `ActiveTracked`, `StoppedIsGone`), `OnRecord`; `Settles` (a send, a disconnect, a stop) | 2 lives of the server, 2 connections, 1 send |
| `http` | `Consistent` (types, `StoppedIsGone`), `AnsweredInOrder`, `KeepAlive`; `Settles` (a close, a stop) | 2 lives of the server, 2 connections, four streams of two requests in every way to cut them |
| `websocket` | `Consistent` (types, `EncodedIsRead`, `ClientsConnected`, `StoppedIsGone`), `FramesHandled`, `EveryoneHears`; `Settles` (a close, a stop) | server objects and connections 3 together, chunks that end inside headers, frame headers, masks and payloads, 1 announcement; lengths 0, 1, 125, 126, 65535, 65536 |

Violations: where the code does not do what the repository says.

| Run | What happens |
|---|---|
| `broker_crash` | a restarted consumer reads past the message its earlier self has locked, commits past it, and it is never delivered again |
| `blue_green_reload_downtime` | after a failed reload the configuration names the slot that was stopped; the next deploy takes the live slot for the inactive one and stops it |
| `feed_duplicates` | the page a hit writes back holds the celebrity's post, and the next read merges it with the same post pulled again |
| `tcp_reconnect` | the close event of the old socket arrives after a new connection was made and takes the new one off record |

### Other known disagreements

The passing properties exempt exactly the cases in which TLC finds the code to
do something else. Removing the exemption, or making the change named here,
reproduces the behaviour.

| Property | Exemption or change | What happens |
|---|---|---|
| `TimerNotLate` | `+ blocked` | the timer's delay is computed from the time read before the actions ran, so after an action that blocks the timer is late by that much |
| `NoLostWakeup` | `abandoned = {}` | an action that throws instead of returning a promise ends the tick and keeps its worker for ever |
| `ExclusiveLock` | `nackedLate` | a rejection after the lock expired releases another worker's lock |
| `NothingSkipped` | `orphaned` | run `broker_crash` |
| `CommittedByOwnAcks` | topics `<<a>>`, `<<a, b>>`, consumers `<<b, x>>`, `<<x>>` | two pairs of names have the same joined key and share an offset; `NamesAssumption` excludes it |
| `TrafficServed` | `"two deploys"` | two overlapping deploys choose one slot, and one switches traffic to the other's unprobed build |
| `TrafficServed` | `"misled"` | run `blue_green_reload_downtime` |
| `RolledBack` | `"no reload"` | after a reload that failed, or a restart before it, the configuration names a stopped slot or a slot without the traffic |
| `VersionsAgree` | `"overlap"`, `"restart"` | discovery, which guesses `v1.0.0`, overwrites what a deploy recorded meanwhile, or the version that runs |
| `CompleteTimeline` | `raced` | a push during a timeline call is overwritten by the write-back |
| `CompleteTimeline` | `OnePageSize` (with `Limits = {1, 2}`) | a small page shrinks the cached feed for later reads |
| `CompleteTimeline` | `crossed = 0` | posts made above the threshold vanish from cached feeds when the author falls below |
| `EveryFeedExpires` | `lapsed` | a push to a feed that just expired makes one without a TTL |
| `NewestNeverGoesBack` | `OneDevice` | two devices of one user: the slower of two rebuilds wins and the timeline goes back |
| `EveryFeedExpires`, `CompleteTimeline` | `OneDevice` | a rebuild that read nothing deletes the feed another device has built meanwhile; a push that is under way then makes a feed of one post without a TTL |
| `OpenOnlyOnRecord` | `replaced` | a second `start` forgets a socket that stays open and keeps filling the log |
| `WithinCapacity`, `IsLRU` | `unlisted` | an empty key is evicted from the list only: the cache outgrows its capacity |
| `RoundTrip` | `OneLine` | a value with a CRLF throws the parser out of step |
| `FixedWindowBound` | `2 * limit` | two bursts on both sides of a fixed window's boundary pass up to `2 * limit - 1` requests |
| `FairShares` | `Patience` (`2 * NumBackends` rounds of all weights) | weighted round robin keeps the weights of backends that left; after they come back a healthy one may be left out for a whole round and more: with the weights 5, 1, 1, 1, 1, 1 for two rounds of ten |
| `HealthIsNewest` | `overlapped` | the answer of the older of two overlapping checks overwrites the newer |
| `PromisesKept` | `reissued` | after a restart, or over a preloaded database, identifiers in use are handed out again: an old key leads to a new URL |
| `PromisesKept` | `EmptyURL` | an empty URL is stored and never found |
| `SendSettles` | ended or failed sockets | a send that waits for the drain when its socket is ended or fails may stay pending for ever |
| `StoppedIsGone` (TCP) | `replaced` | a second `start` forgets a server that goes on to listen |
| `OnRecord` | `crowded` | run `tcp_reconnect`, and a second `connect` before the first socket closed |
| `AnsweredInOrder` | `IsASCII` | Content-Length counts bytes and the buffer is measured in characters (`index.ts:144`): a request with other characters waits for the bytes of the next and is answered with a body that is not its own |
| `StoppedIsGone` (HTTP, WebSocket) | `unruly` | a stop before the server listens, or a second start, leaves a server listening off record |
| `StopSettles` (WebSocket) | `stranded` | `stop` waits for connections that were not upgraded, which nobody closes |
| `StoppedIsGone` (WebSocket) | `stranded` | a connection whose upgrade is completed after `stop` becomes a client |
| `FramesHandled` | `failed` | a callback that throws drops its client although the frames behind are still handled |

More follows from a line of code without a state space. Node turns a delay
above 2^31-1 ms into 1 ms, so a scheduler whose next task is 25 days away wakes
up all the time (`TimerDelay`). The broker counts rejections but not expired
locks, although its README says it counts both; and locks are shared by all
consumers of a topic while offsets are not, so a consumer passes what another
has locked. The deployer leaves the old slot running after a success, although
its README says it is stopped. `getFollowers` is asked for a user's followers by
the fan-out and for the accounts a user follows by `getTimeline`; the model
gives each caller what it expects. A TCP server whose `start` failed stays on
record, so that `stop` rejects. HTTP requests behind one with
`Connection: close`, and WebSocket frames behind a close frame, are handled
while the write that ends the connection is under way. The WebSocket server has
no heartbeat, which the comment in front of it promises (`index.ts:19`), so a
client that vanishes without a word stays one. The Docker sample accepts an
empty name according to its comment and answers 400 in its code.

### Bounds

Clocks stop at `MaxTime`; messages, posts, entries, requests, checks, net
objects and disturbances are counted. The bounds are just past the point where
each mechanism has been used with another one pending: three tasks for two
workers (one waits while two run), a retry and a period that both come due
before the clock stops, a message that is rejected up to the dead-letter queue
while another is locked, a third deploy that uses the slot the first one left,
a page of two with three posts, an array of seven (three full levels), a ring
that wraps around twice, a full cache with one key outside, two full windows
of a limiter, more than one round of all weights, an identifier that comes to
lie on a preloaded row, a second server and a second connection while the
events of the first are still due. The HTTP run takes every way to cut a stream
into chunks; the WebSocket run takes cuts on both sides of each place where the
loop decides (`Cuts`), because a connection's bytes are many. Its three net
objects are two servers and a connection, or one server and two. A binary
operation on bytes is the real one, so lengths of 65536 are too.

When the scheduler's clock stops, `QueuedTaskStarts` speaks of tasks due by
then only. `task_scheduler` and `feed` look for deadlock; `feed_duplicates` too.
The others may come to rest because their bounds are used up or everything has
been handled.

### Fairness

`TaskScheduler.FairSpec`: the JavaScript thread runs its calls to completion
(WF of `Thread`), and an action does not call the scheduler for ever (SF of
`ActionReturns`: each nested call disables it for a while). The event loop
serves due timers and settled promises in turn; strong fairness, because
callers that call `start` again and again disable these steps for moments
without taking their turn. Actions settle; an action that never does keeps its
worker, as in the code. Nothing is assumed of callers.

`TCPConnections`, `HTTPServer` and `WebSocketServer` state in their `Spec` that
Node.js delivers every event and calls every callback that is due: a bind ends,
a close event follows a destroyed socket, a server closes once its connections
are gone, a write is called back. For TCP, a connection attempt ends, and a peer
that reads lets a buffer drain. Weak fairness is enough, because nothing but
the step itself, or the end of its connection, disables it. Nobody has to call a
method, to send or to hang up, and nothing has to fail.

`BlueGreenDeployer.FairSpec`: interface calls settle, so a call that has begun
is carried on (WF of `Resolves`), and a rejection is never what ends it by
assumption. That it begins is not assumed.

The broker and the feed have no liveness property: nothing in the code makes a
worker poll or a reader read. The programs of `in_memory` are synchronous.

## 5. What is proved

TLAPS proves the following for all values of the constants that the named
assumptions allow: any number of tasks, workers, messages, calls, users,
connections, any clock and any streams of requests. The bounds of section 4 are
constants too, so the theorems hold for every value of them. `PROJECT.json`
lists the theorems with the property of a run that each states.

Each proof has the same shape. An invariant is a conjunction of named parts;
`Init` gives it; one step per action of `Next` preserves it, with a lemma per
action where that is long; the property follows from it.

`TaskSchedulerProofs`, in layers, each inductive relative to the ones before:

- `ShapeInv`: types; a task is in one place (`OnePlace`); `activeWorkers` is
  the number of tasks executing or abandoned, within the limit; the frames of
  the stack alternate as the call structure says (below an `action` frame lies
  the `loop` that called it); the actions on the stack are distinct and
  executing. The frames are needed because `ActionThrows` pops two of them and
  `Dispatch` returns into the loop below. Gives `TypeCorrect`, `WorkerLimit`.
- `TimerInv`: no timer when stopped, and a timer covers the earliest task, where
  every `loop` frame's `now` is the present time but for what actions have
  blocked since. Gives `StoppedHasNoTimer` and `TimerInTime`, which bounds the
  timer's lateness by `blocked`.
- `WakeInv`: unless an action threw, whenever the scheduler could start a
  queued task a tick is on the stack or a timer is armed. Gives `WakeupKept`,
  also when actions block. An exception ends a tick in mid-loop, hence the
  exemption.
- `BudgetInv`: a task no caller has scheduled has not failed, so its first
  insertion may reset its count. Gives `BudgetKept`.
- `BackoffInv`: a queued task that has failed is due no earlier than its
  backoff after the failure, because only the reaction that counts the failure
  inserts it. Gives `RetriesWait`, that a task starts no earlier.

`AlwaysConsistent` puts together the types, the worker limit and the timer of a
stopped scheduler; `QuietWhenStopped` is the action property `StopIsQuiet`: only
a round of the loop starts an action, and it has just tested `running`.
`SchedulerImplementsPool` is the refinement of `DelayedTaskPool`: a round of the
loop, a call, a reaction or an exception is one step of the pool, the ticks,
the timer and the clock are stutters.

Assumptions: those named in `TaskScheduler`. `PowerAssumption` says that powers
of two are naturals, for which the prover has no rule; TLC evaluates it.

`InMemoryProofs`, the heap: `HeapInvariant` is the heap order with an exception at
the index where a loop is at work, for which parent and children are in order
across it. From it `HeapTypeCorrect`, `HeapOrdered`; `EarliestFirst` by taking
the least index whose element precedes the first (its parent would be
smaller still); `HeapImplementsQueue` by counting the places of a task, which
a swap maps one to one.

`MessageQueueBrokerProofs`. `OffsetInv` (a worker has not passed the message it
handles) gives `AlwaysConsistent`, with it `CommittedByOwnAcks`. `LockInv` (a
message whose worker believes to have its lock is locked until the time that
worker believes) gives `OneWorkerPerMessage`. `NobodySkips` needs more than that
nobody has skipped yet: `ReachInv` says that for every message that is not
settled somebody stands before it, and that a lock on it has a holder who is
that somebody, because a lock makes others pass. `DeadLettersExact` counts
rejections. `PublishedInv` keeps offsets that do not exist yet untouched.

`BlueGreenDeployerProofs`. What a deploy may rely on between two awaits depends
on what has happened, so each part of `DeployInv` is guarded by the part of
`upsets` that voids it: without overlapping deploys its own build runs in its
slot, probed before the switch (`BuildInv`); in sight of the traffic it works in
the other slot (`TrafficInv`); without a failed reload the configuration is ahead
of the traffic only between the two awaits of a switch (`RouterInv`). Gives
`AlwaysConsistent`, `AlwaysServed`, `AlwaysRolledBack` and `SuccessMeansLive`.

`TCPConnectionsProofs`. `ServerInv` says that an open connection is tracked and
was accepted by a server that is not closed, and that only the server on record
is not closed; `ClientInv` that a client that waits for each close event has at
most one live socket. Gives `AlwaysConsistent` and `ClientOnRecord`. Both rest on
`OrderInv`: an object that is made is one that was not there.

`SocialFeedProofs`. `CacheInv` says what a call may rely on of the cache between
its awaits, for a user with one device whose feed did not expire in a window.
`FreshInv` adds that a cached feed, and a page being put together, hold a post
at least as new as the last timeline's: `TimelinesNeverGoBack`. `CoverInv` says
of every post a feed owes its reader that the feed holds it, that a worker is
still to push it, that it will be pulled, or that newer posts fill every page;
and the same of a call at each of its awaits: `TimelinesComplete`. Pages are
sets with a greatest element above each bound; the lemmas before the steps are
about what cutting a page off keeps. `AlwaysConsistent` is types and
`EveryFeedExpires`.

`InMemoryProofs`, the shortener and the ring. `ShortenerKeepsPromises`: `Decode[Encode[n]] = n` and that a
key's value is a number, for every base; then `Leads`: the identifier of each
URL on record, of each key given and of each key in the cache has a row, which is
that URL's unless the identifier was handed out twice. The cache is never
invalidated, so it must be right about rows that change behind it: they change
only when an identifier is reissued. `RingIsBoundedLog` is the refinement of
`BoundedLog`: `RingInv` says that the cells in use come first and that the pointer
is behind them until all are; `PushAccepts` compares what `getAll` returns before
and after, cell by cell. `LastCheckWins`: without overlapping checks every answer
reaches the health and the record of the newest answers alike.

`InMemoryProofs`, the log and the cache. `LogInv` adds to `RingInv` that `getAll`
gives the end of everything accepted (`EndOfLog`); that filtering twice is
filtering by both tests (`KeptTwice`) makes `QueryExact` of it. `LruInv` says
that the list has each key of the map once and that a key is on it before another
exactly when it was used before it; only a key whose eviction the code's truth
test skips is in the map alone. `CacheIsLRU` follows step by step: what the code
takes off the front of the list is the key the abstract cache drops.

The limiters. What a limiter let through a client over *every* span bounds its
state, and the state bounds what it may let through next: `TokenOK` (the cost of
the requests since any time and the tokens left are at most a full bucket and
what has been refilled since), `LeakOK` (the same of the requests that have not
leaked), `FixedOK` (what was passed in this window and behind any time in the one
before), `SlideOK` (the log is what was passed in the window). That is
`WithinBounds`. Each has a conjunct with `\E`: some span meets its bound exactly.
So a refused request is one too many somewhere: `RefusalsAreDue`.

The balancer. `Added` is the sum of a function over a set, `Turns` the rotation of
round robin. The weighted strategy needs three more. `Spread`: of `n` backends
no set of `k` is in debt by more than `k * (n - k)` rounds of all weights. It is
inductive because who pays has the most of all healthy ones: let somebody outside
join the payer's set, or the payer leave it; neither of the two sets may be too deep
in debt, so the one between them is far enough from its limit to pay
(`RoomsMeet`). One backend's current weight is therefore within `(n - 1)` rounds,
whatever the health checks did. `Course` says of every choice since the health changed what each
backend had then, so that who is left out for `2 * n` rounds would have been in
more debt than anyone can be. `FreshCourse`: as long as nothing has changed, a
round gives each its weight and ends where it began, so the next choice
falls on whom it fell a round ago. `SharesAreFair` is all of it.

The parser. `ParseInv`: either the loop is at the first line of the next value,
and all before had arrived, or it is past the end of what arrived. Texts of more
and more values begin one another (`Grows`), so each line the loop looks at is
the one that was sent, the blank at a cut, or nothing: `WhatIsSentIsParsed`.

`AlwaysConsistent` combines the invariants of the other components (`AllInv`), each
while its component runs.

`HTTPServerProofs`. `RequestsAnsweredInOrder` is about text. A request's wire
ends its headers at one place only, wherever bodies hold the same tokens
(`EmptyLine`, `BoundaryOfText`); the buffer that begins with it is recognised as
complete exactly when it is (`CompleteText`) and gives the reply that answers it
(`ReplyToText`); so the loop takes the whole requests off the front and leaves
what has arrived of the next (`LoopFrames`). `FrameInv` says that of every
connection: the replies are those of the first requests and the buffer is
`Rest`, what has arrived behind them. A chunk may end anywhere, and decoding
leaves it alone if it is ASCII (`DecodedPlain`). `WritesInv` (only replies given
are written) gives `ConnectionsKeptAlive`, `ServerInv` gives `AlwaysConsistent`.

`WebSocketServerProofs`. `FrameInv` says, of every upgraded connection, how many
frames `k` have arrived whole: the buffer is the rest of the stream behind them,
what was broadcast for it are the texts among the first `k`, and what it was
answered are the answers to them. The lemmas before are about bytes: a number
read back from its digits, a payload from its mask (`Xor` twice with the same
byte), a frame recognised as complete exactly when its last byte is there, and
decoded as it was meant; so the loop takes the whole frames off the front,
wherever the chunk was cut. `FramesAlwaysHandled` follows. `EveryoneHears` and
`ClientsConnected` are inductive together with it: a message of a chunk reaches
all other clients in the one step in which it is broadcast, so the filter of a
client's writes and the filter of the chat grow alike. `ServerInv` is about
`stop`: who is a client afterwards was stranded. `AlwaysConsistent` has the
encoder read back for every length up to that of the longest string.

Recursion over data. The prover knows no induction rule with an operator as its
parameter, but it knows that a set of naturals that is not empty has a least
element. `Encode` and `Decode`, `FlattenSeq`, the filter, sums over sets, numbers
of several bytes and the loops of the HTTP and the WebSocket server are recursive
functions: for each a lemma shows that its recursive equation has a solution and
that solutions agree, so that `CHOOSE` gives one, and what it computes is shown
by the least counterexample.

Assumptions, all named in the modules and evaluated by TLC:

| Assumption | Why the code justifies it |
|---|---|
| `TasksAssumption`, `PoolAssumption`, `TimeAssumption` | types of the constants; at least one worker, as without one nothing ever runs |
| `PowerAssumption` | powers of two are naturals, for which the prover has no rule |
| `HeapAssumption` | a task's time is a number |
| `BrokerAssumption` | timeout and retry limit are positive; types |
| `NamesAssumption` | somebody consumes, and names do not contain the separator of the joined key: an exemption, see section 4 |
| `DeployerAssumption` | the version that runs at first is a good one; types |
| `FeedAssumption` | the follow graph is about users; types |
| `ObjectsAssumption` (TCP, HTTP, WebSocket) | finitely many net objects; they are numbered as they are made; 0 is the program itself, which is no connection |
| `StreamsAssumption` | what clients send are requests as `Wire` writes them |
| `ClientsAssumption` | a WebSocket client sends headers with one empty line and frames as the protocol defines them |
| `MessagesAssumption` | what is broadcast are bytes, and a payload is no longer than a string can be |
| `AggregatorAssumption` | a capacity of at least 1 |
| `CacheAssumption` | a capacity of at least 1; times to live are whole numbers, negative ones included |
| `LimiterAssumption` | sizes are natural numbers; intervals, windows and limits are at least 1 |
| `BalancerAssumption` | weights are whole numbers, as the README of the program says, of at least 1: one of 0 asks for no share; types |
| `ShortenerAssumption` | a base of at least 2; a preloaded database has one row per identifier, its primary key |

Only model-checked is liveness: `QueuedTaskStarts`, `CallsSettle` and the three
`Settles`. The prover has no rule for `ENABLED` under fairness. Every invariant
and every safety property of a passing run is stated by a theorem.

## 6. What is not modelled

- The API gateway of `capstone/c00` and the Docker sample `devops/d00`:
  handlers without a state of their own, one decision list per request.
- A clock that goes backwards, in the scheduler, the limiters and the cache.
- The limiters' floating-point numbers: a refill is counted in whole parts.
- HTTP: a Content-Length that is not a natural number; headers the code does
  not read; the wording of replies. WebSocket: the accept key's hash,
  fragmented messages and headers that are not ASCII. TCP: what is sent, which
  neither side looks at.
- Host names, ports, and errors of the operating system other than a bind, a
  connection or a socket that fails.
- Docker, CI, Kubernetes configuration, user interfaces, labs that are text or
  stubs: no state of their own, or no code.
