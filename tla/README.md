# chproxy in TLA+

chproxy is an HTTP proxy in front of ClickHouse clusters. A request is
authenticated, mapped to a cluster user, admitted within the limits of both
users, answered from a cache or sent to the least loaded healthy node, retried
after a 502 and killed when its client leaves or its time is over; the
configuration is replaced while requests run. Most of this is goroutines that
share atomic counters without a lock, files and maps that change under their
readers, and timers. The modules here model that behaviour, TLC checks it on
small instances, and TLAPS proves what matters most for every instance.

Source paths are relative to the repository (`src/`).

## 1. The system: inventory

| Part | State | Operations | What makes it hard |
|---|---|---|---|
| Admission (`scope.go`) | per user and cluster user: `queryCounter`, `rateLimiter`, token bucket, `queueCh`; per node: `connections` | `incQueued`, `inc`, `dec`, `waitUntilAllowStart`, `rateLimiter.run` | count first and check afterwards on shared counters, roll-back after one of six limits, reset of the minute in between |
| Load balancing (`scope.go`) | `nextReplicaIdx`, `nextHostIdx` | `getReplica`, `getHost`, and the sticky variants | reads of many atomics that change during the scan |
| Node health (`internal/topology`, `internal/heartbeat`) | `active`, `penalty`, timers | `StartHeartbeat`, `Penalize`, `SetIsActive` | check-then-add, a timer for each penalty, outdated probes |
| Dispatch (`proxy.go`) | host, retry count, context and query of a request | `executeWithRetry`, `proxyRequest`, `listenToCloseNotify`, `killQuery` | a client or a deadline that ends the request at any point |
| Cache protocol (`proxy.go`, `cache/async_cache.go`, `cache/transaction_registry*.go`) | transaction and cached response of a key | `serveFromCache`, `AwaitForConcurrentTransaction`, `Create`, `completeTransaction` | requests of the same key, calls that fail, expiry |
| File system cache (`cache/filesystem_cache.go`) | files, `Stats.Size` | `Get`, `Put`, `clean`, `Close` | in-place writes, removal by name, unsigned sizes |
| Redis cache (`cache/redis_cache.go`) | the value of a key, temporary keys, time to live | `Get`, `Put`, `Clean`, the streaming reader | commands that fail, are repeated or come late, keys that expire or are replaced between two ranges |
| Reload (`main.go`, `proxy.go`) | global `proxy`, its users, clusters, caches, `reloadSignal`, `reloadWG`; allow-lists, `proxyHandler`, `allowPing` | `reloadConfig`, both `applyConfig`, `restartWithNewConfig`, `serveHTTP`, `getScope` | failure half-way, old goroutines and caches, requests that read several values |
| User lookup (`proxy.go`) | users, clusters, `hasWildcarded`; a copy of the cluster user for each wildcarded request | `getUser`, `generateWildcardedUserInformation`, `deepCopy` | which requests share a limit; a flag that a refused reload has set |
| Query parsing, cache key, request decoration, response writers | none shared | pure functions of one request | boundary cases of parsing |
| Configuration file, metrics, logging, certificates | | | I/O and libraries |

`PROJECT.json` lists these components with their status, and the hazards of the
code, each at its line with the properties that would catch it going wrong.

## 2. The modules

| Module | Models | Used by |
|---|---|---|
| `Admission` | what admission control promises: one atomic decision per request | `Scope` (INSTANCE), `ScopeProofs` |
| `Scope` | admission, one action per atomic operation | `MCScope`, `ScopeRate`, `ScopeProofs` |
| `ScopeRate` | `Scope` with history variables for the minutes of the rate limiter | `MCScopeRate`, `ScopeProofs` |
| `Balance` | "least loaded + round robin" as a definition | `HostScan`, `Dispatch` |
| `HostScan` | `replica.getHost`, one action per atomic load | itself, `HostScanProofs` |
| `Node` | one `topology.Node`: heartbeat, penalties, marks | itself, `NodeProofs` |
| `Dispatch` | a request from `newScope` to `dec`, over replicas and hosts | `MCDispatch`, `DispatchProofs` |
| `AsyncCache` | `serveFromCache` with cache and registry, one action per call | itself, `AsyncCacheProofs` |
| `FsCache` | the file system cache, one action per file operation | `MCFsCache`, `FsCacheProofs` |
| `ResponseStore` | what a cache promises about a key: responses appear as a whole | `RedisCache` (INSTANCE), `RedisCacheProofs` |
| `RedisCache` | the redis cache, one action per redis command | `MCRedisCache`, `RedisCacheProofs` |
| `Reload` | SIGHUP, both `applyConfig`, service goroutines, requests on their way in | `MCReload`, `ReloadProofs` |
| `*Proofs` | theorems | |

The composition is by level of detail. `Dispatch` puts the parts together for a
request and takes each as one step: the admission that `Scope` details, the
scan of the hosts that `HostScan` details, the marks and penalties that `Node`
details. The scan of the replicas and that of the hosts of the chosen one are two
steps of `Dispatch`, since nodes go down and come up in between. `AsyncCache` takes a whole proxied request (`Dispatch`) as one step
with an outcome, and `Get` and `Put` of the cache, which `FsCache` and
`RedisCache` detail. `Balance` is the abstract promise that `HostScan` is checked
against (`QuietPick`) and that `Dispatch` uses: it fits one host only, and that is
the one an undisturbed scan returns (`ScanIsTheChoice`), so that what `Dispatch`
chooses in one step is what the loop of `getHost` computes.

Two modules say what a component promises, and the detailed one is shown to
implement it, by TLC on the instance of its run and by TLAPS for every instance:

* `Scope` implements `Admission` (property `Admits`). `Admission` knows only which
  requests wait and which are inside: a request is let in or refused in one step,
  and let in only within the limits of both its accounts. The mapping takes a
  request as inside from the step that passes its last check until its counters
  are taken back; counting, checking and taking back in `inc` are stutters.
* `RedisCache` implements `ResponseStore` (property `Atomic`). The mapping takes
  what stands at the key: the `Put` whose complete response it is, nothing, or
  torn. A `Put` that works on its temporary key stutters; RENAME publishes. The
  exceptions are explicit in `ResponseStore`: a response in `spoiled` met one of the
  faults that `Put` does not notice.

`ScopeRate` is `Scope` with history variables. Its behaviours are behaviours of
`Scope` (`RateImplementsScope`), so that every theorem about `Scope` holds of it.

How the state corresponds to the code:

* An account of `Scope` is an object that requests count on: a configured user, a
  configured cluster user, or the copy of a cluster user that `getUser` makes for
  one request which matches a wildcarded user by its pattern. The copy has the
  limits of the cluster user and counters and a queue of its own (`isDeepCopy`).
* A goroutine is a label in `pc`: the atomic operation, call or I/O operation
  that it does next. Local variables are variables indexed by the goroutine and
  are reset when it is done with them, so that equal situations are equal
  states. Counters are natural numbers modulo `Wrap`, with `inc` and `dec` as
  the additions of 1 and of `^uint32(0)`.
* An error return, a failed call and a select that takes its other branch are
  disjuncts of the action. Only what the code can tell apart is kept: a
  response is one of five outcomes in `AsyncCache`, a file is a sequence of
  cells marked with the `Put` that wrote them in `FsCache`, a configuration
  file is the call that refuses it, its connection pool and whether it has a
  wildcarded user in `Reload`.
* History variables (`fresh`, `started`, `late` in `ScopeRate`; `touched`,
  `dropped`, `wasUp` in `HostScan`; `seen` in `Dispatch`; `put`, `by`, `gone` in
  `AsyncCache`; `quiet`, `broken`, `renewed`, `sole` in `FsCache`; `published`, `spoiled`, `from`, `replaced` in
  `RedisCache`) are never read by the actions of the code.
* Operators whose comment starts with "Fault:" are wrong variants of the
  operator below them: a dropped guard, a missing reset, an off-by-one. Put in
  the place of that operator each makes TLC report the property it is listed
  with in `PROJECT.json`.

Some details that are easy to miss in the code and are part of the models:

* `inc` makes all its additions (two query counters, two rate limiters) and takes
  its tokens whatever the checks before them said; any error then takes back the
  four additions, and never the tokens. The roll-back of a rate limiter may come
  after the reset of the minute, which is why the code compares
  `int32(rate) > 0` first; a request may also start after the reset that has wiped
  its addition.
* A request body that cannot be read makes `executeWithRetry` return an error that
  `proxyRequest` takes for one of the context: it panics, and the deferred `dec`
  gives the connection back.
* A response that is cut off after its header has the status of that header for
  `executeWithRetry`: nothing is retried, penalized or killed.
* The loops of `getReplicaSticky` and `getHostSticky` look at the same candidate
  in each turn.
* `newReverseProxy` records `maxIdleConns` from `MaxIdleConnsPerHost`, so a
  reload with the default pool always replaces the `reverseProxy`.
* A service goroutine evaluates `rp.reloadSignal` when it is first scheduled.
* The memory registry keeps an existing transaction, redis overwrites it.
* `clean` subtracts sizes of a later listing from a total of an earlier one.
* `Put` of redis takes a read of no bytes for the end of the response whatever the
  error is, and does not look at the result of RENAME.
* The redis client repeats a command whose answer is lost, so that APPEND may take
  effect twice, and a command that timed out may be executed later.
* The streaming reader asks for the next range of a key that may have expired or
  been replaced; short values are kept in memory, longer ones are copied to a
  temporary file first.

## 3. The runs

Each takes between seconds and two minutes with two workers.

| Run | Instance | What it shows |
|---|---|---|
| `scope_limits` | 3 requests, 2 users sharing a cluster user, one of them wildcarded: a request addresses it by name, another one by its pattern; 2 hosts; limits of 1 for the wildcarded user, the cluster user and its copy, queues of 1 | the concurrency limits hold of each account, the counters and queues are exact, queued requests return; `Scope` implements `Admission` |
| `scope_rate` | 3 requests, 2 hosts; 1 request a minute, a blocked user, a token bucket of 1 | how far late starts and late roll-backs can exceed `requests_per_minute`; connections are exact across host switches |
| `host_scan` | 3 hosts, loads of two parts, each 0 or 1 | what a scan under concurrent changes still guarantees, and that an undisturbed one computes `Balance` |
| `node_health` | 2 failing requests, penalties of 2 up to 3 | penalties neither leak nor underflow nor run away; health is detected |
| `dispatch_requests` | 2 requests, one with a session, 2 replicas of one host, 1 retry | loads exact across retries, abandoned queries killed, sessions go to their node while it is up, an inactive host is taken only when all are or the chosen replica went down meanwhile, each request ends within a bounded number of steps |
| `dispatch_sticky` | 1 request with a session, replicas of 2 and 1 hosts | *violation*, see section 6 |
| `cache_answers` | 2 requests, both registries | a completed transaction has its response in the cache, nobody waits for ever |
| `cache_herd` | 2 requests | *violation*, see section 6 |
| `fs_cache` | 2 Puts of one key with 0 and 2 payload cells, 1 Get, the cleaner, 1 I/O error | complete files are read whole, servable files are kept, the size heals when Puts pause, old files go |
| `redis_cache` | 2 Puts with payloads of 1 or 3 cells, 1 Get; metadata of 1 cell, chunks of 2, a reader's buffer of 1, less than 3 cells served from memory, 1 late command | what stands at the key is whole and expires, a read is complete or an error and ends; `RedisCache` implements `ResponseStore` |
| `reload_sighup` | 2 reloads, 1 service goroutine per configuration, 1 request, 2 pools; a fixed first file | on the global `reverseProxy` one configuration at a time has goroutines and open caches; exactly those of replaced ones are left besides; flags and the order of the stores; reloads end |
| `reload_kept` | 1 reload with the default pool | *violation*, see section 6 |

Bounds, and why they are enough:

* Two goroutines are needed for each race in `Node`, `AsyncCache` and
  `Dispatch`; `Scope` has three so that both users of a cluster user, two
  requests of one user, and a request on a copy meet. What a third one adds to `Node` and `AsyncCache` is
  covered by the proofs, which have no bound.
* The limits are the smallest ones that bind: 1 for the user with two requests, and
  1 for the cluster user on which one of them and that of the other user count.
* `Wrap` is larger than what the instance can count to, so that an underflow is
  visible as a value near `Wrap`; in `FsCache` it is larger than any sum of file
  sizes for the same reason. The code's widths are 2^32 and 2^64.
* `penaltySize` 2 and `penaltyMaxSize` 3 stand for 5 and 300: the maximum is no
  multiple of the penalty, so overshooting it happens.
* `MCHostBound` in `scope_limits`: the second host is taken by one request only,
  while another one is idle. No limit depends on the host, and a request that
  stays on its host takes the same steps; `scope_rate` moves every request at any
  time. `QueuedReturns` is checked of the behaviours within this bound.
* `AllowN` lets any part of the bucket be refilled at the moment it is asked,
  which is when `rate.Limiter` computes it; no time is modelled.
* `MCFirstConfig` in `reload_sighup`: the file chproxy is started with has one
  pool and no wildcarded user. The files of the reloads are arbitrary, so that
  each may change or keep them.
* Three hosts give a scan a first, a middle and a last host.
* Three versions in `Reload` give a refused reload after a good one and the
  other way round.
* `MaxFailures` 1 in `FsCache`: an error at any one place of the run. `MCGets` in
  `fs_cache`: no Get is under way once an operation has failed; what a failure
  leaves for a Get to see is a short file, which a Put that is not over shows too.
* `MaxPenalty` in `Dispatch` is a bound on the state space, and so is `MCBound`
  in `dispatch_requests`: only the request without a session is given up by its
  client or by its deadline, and one host at a time is penalized. The replicas have
  one host each, since an instance with two is out of reach with both requests; the
  choice among several hosts is in `host_scan` and `dispatch_sticky`.
  `DispatchProofs` covers every property of the run without these bounds and for
  any number of hosts, except that a penalty counts 1 and stops at `MaxPenalty`,
  whatever that is.
* `redis_cache`: a payload of one cell takes one APPEND and is read from memory, one
  of three takes two and is streamed, directly or through a temporary file.
  `MCSizes`: one of the two Puts has the longer response. `MCFaults`: one of them
  meets a fault that it does not notice. `MaxLate`: one command is executed after
  its caller has given up. `RedisCacheProofs` has none of these bounds.

`fs_cache`, `redis_cache` and `host_scan` do not check for deadlock: after all
Puts of the instance, or when the scan has returned, there is nothing left to do.
`scope_rate` uses symmetry of two requests and of the hosts; it checks no
liveness.

Fairness:

* `Scope`: goroutines inside `incQueued` keep running, their sleeps end and the
  queue deadline arrives (a timer). Nothing is assumed of arrivals, of queries
  at ClickHouse or of the reset.
* `Node`: the heartbeat has an interval and a timeout, timers fire, callers of
  `Penalize` do not block. Nothing is assumed of the node or of reloads;
  `DownDetected` and `UpDetected` say "while the heartbeat is not stopped".
* `Dispatch` needs none: `BoundedWork` says that every step of a request leaves it
  fewer steps to the end, whatever the others do. With `incQueued` that returns
  (`QueuedReturns` of `Scope`) and attempts that end, which is what the reverse
  proxy with its deadline gives (`FairSpec`), it follows that each request is over
  at some time.
* `AsyncCache`: a request takes its steps (`BoundedWork` of `Dispatch`) and its grace
  time elapses. Nothing is assumed of the registry: every `Create` in redis renews
  the TTL of the transaction, so it may stay pending for as long as requests come.
* `FsCache`: the goroutine of the cleaner runs, its timer fires once an hour at
  the latest. A failing walk or removal is not repeated for ever: `MaxFailures`.
  `SizeHeals` promises nothing while Puts keep coming.
* `RedisCache`: a Get takes its steps, since each redis command has a timeout and the
  client reads. Nothing is assumed of Puts, of redis or of the passing of time.
* `Reload`: goroutines are scheduled, and a heartbeat in progress is bounded by
  its timeout. Nothing is assumed of signals or requests.

## 4. The proofs

TLAPS proves these for every value of the constants. They are safety properties
that some run checks as well, types, and the refinements.

**Admission** (`ScopeProofs`: `TypeCorrect`, `NothingLeaks`, `LimitHolds`,
`QueueHolds`, `AdmissionRefined`). Assumed: a finite set of requests, smaller than
the width of a counter, that the accounts of users, of cluster users and of copies
are different objects, and that a copy has the limits that `deepCopy` gives it.
`LimitHolds` speaks of each account: for a cluster user these are the requests whose
user was addressed by name, while those that matched a wildcarded user have copies
of their own and are held together by the limit of that user only. The concurrency limit is not inductive: a request that has
counted itself and fails a later check is over the limit for a while. The
invariant `IInv` adds `PassingLimit`: of the requests that count for an account,
those without an error so far are within its limit. This holds because an
increment whose result is at most the limit saw *all* counted requests
(`CountersExact` makes the counter their number), and no other step turns an error
into success (`ErrAgrees`). The counters are compared with cardinalities of sets
of goroutines; each step adds a goroutine to both sides, removes it from both or
leaves both alone (`CountingStep`, `ConnectedStep`, `QueuedStep`), so modulo
arithmetic never wraps. For the refinement, `PassingLimit` is what the step that
lets a request in has to show; every other step of `inc` is a stutter.

**Rate limiter** (`ScopeProofs`: `OvershootIsBounded`, `RateImplementsScope`,
`ConnectionsStayExact`).
Assumed in addition: a limit plus twice the number of requests is less than half
of what the counter holds, so that `int32(rate) > 0` tells a counter below zero.
The counter is what the minute has started, plus the additions not yet settled,
less the requests that settled an addition made before the reset, as an unsigned
number (`RateInv`); the last part makes it wrap below zero at times. A start and a
roll-back count alike there: a late start is not in the counter, a late roll-back
takes off another request. The bound follows for the requests without an error
(`Sure`). It is stated for the configured accounts; a copy serves one request. The connections of the hosts are exact
because they are in `Scope`, which `ScopeRate` implements.

**Choice of a host** (`HostScanProofs`: `ScanFindsActive`, `ScanFindsLeast`,
`ScanComputesDefinition`, `ScanIsTheChoice`). Assumed: at least one host, and that no load reaches
`^uint32(0)`. The invariant `SInv` says of the hosts behind the scan what the
theorems say of all at the end (`Behind`, `Undisturbed`), and that what was read
of a host nobody touched since is still right (`ReadsRight`); `ChosenUp` adds
that a chosen host was active when it was looked at. The last step needs
that N consecutive positions modulo N visit every host (`AtOnto`). That the
definition fits one host only (`LeastLoadedUnique`) makes the scan's result the
`CHOOSE` of `Dispatch`.

**Penalty** (`NodeProofs`: `PenaltyNeverDrifts`, `PenaltyIsBounded`). Assumed: a
penalty of at least 1 and that the maximum plus one penalty for each caller fits
into the counter. The bound is not inductive, since callers that have passed the
check will still add; `Committed` counts their additions as made.

**Dispatch** (`DispatchProofs`: `LoadStaysExact`, `NothingLeftRunning`,
`SessionsGoHome`, `WorkIsBounded`, `DispatchTypeCorrect`, `PicksStayActive`). Assumed:
a finite set of requests, at least one replica, at least one host in each, and that
the hash of a session is a natural number. The invariant `DInv` adds to `LoadExact`
where a running query can be (`RunsHere`): at the present host, of an attempt that
goes on or that was abandoned for a reason that ends in `killQuery`. A query whose
connection was lost, with a 502 or in the middle of the response, is none that
chproxy knows to be running; `NothingRuns` names this exception. Since a choice takes
two steps, `Chosen` carries over what the first one has found: the replica had an
active host if any had, and is that of the session if its node was active. Where
hosts are chosen (`Picks`), `CHOOSE` has to be shown to have something to choose from:
`LeastLoadedExists` takes the least load of the active items and the first position
that has it, and `LoadsCounted` makes the loads natural numbers, since `LoadExact`
says that connections are numbers of requests. The load of a replica is a sum over
its hosts, a recursive function; that it is well defined and a natural number
(`SumType`) is shown by taking the least index where it is not (`NoLeast`), for
which the library's well-founded minimum suffices.

**Response cache** (`AsyncCacheProofs`: `AsyncTypeCorrect`, `WaitersFindIt`). No
assumption. The invariant says that a request with a cacheable response has called
`Put` before it completes the transaction (`PutCalled`), and that what a `Put` stored
is there or is gone, from the `Put` over the completion on (`PutStays`).

**File system cache** (`FsCacheProofs`: `FsTypeCorrect`, `AnswersAreWhole`,
`ServableStays`). Assumed: the types of the constants only; Puts, Gets, keys,
lengths and failures are as many as one likes. None of the three is inductive, for
what a Get reads was decided by the Puts before it. The invariant `FsInv` says who
has which file open (`Opened`) and that nothing leads to the inode of a Put that
has not started (`Unused`), so that a name created after a removal is a new file; of
an inode that one Put alone has written it says what is there at each step of that
Put and that nobody else writes to it (`Sole`: a beginning of the response, or all
of it once the Put is done); that the file of a Get which must succeed is such an
inode, complete (`Quiet`); and that what the first walk listed as too old still is,
unless a Put has renewed it (`Listed`). A write at the offset of its Put extends the
beginning of the response by one cell (`WrittenCells`), and a removed name does not
change the inode (`Freed` and the lemmas after it).

**Redis cache** (`RedisCacheProofs`: `RedisTypeCorrect`, `PublishedHolds`,
`HonestReadHolds`, `AtomicRefined`). Assumed: lengths are numbers, and metadata and
buffers are not empty. `Published` is not inductive: it has to be known what is at
the temporary key when RENAME comes. `IInv` says of each Put that is not spoiled
what its temporary key holds at each of its commands, late ones included (`PutOK`:
it has expired, or holds exactly what was written), and of each Get what it has
read (`GetOK`). That the length APPEND returns differs whenever the chunk was
repeated or the key had expired (`checked`) is what carries `PutOK` over a chunk.

**Reload** (`ReloadProofs`: `ReloadTypeCorrect`, `ServicesStayMatched`,
`CachesStayExact`, `WildcardStays`, `FrontStaysOrdered`). Assumed: nothing but the
types of the constants. The invariant `RInv` says how far the version being applied
has come (`Progress`: it is in nobody's use before `prepare`, and owned by the
global `reverseProxy` when it is published), that a configuration has one
`reverseProxy` (`Owned`, which makes the closed caches those of nobody else), that
a goroutine listens to the channel its `reverseProxy` will close (`Listening`), that
each `reverseProxy`, global or replaced, keeps the goroutines and the caches of the
configuration it has published (`OwnedMatch`, `CachesOpen`: these are the inductive
forms of `ServicesMatch` and `CachesExact`, which tell the global one from the
abandoned ones), and that values are stored in the order opposite to that in which requests read them
(`Stored`, `Reads`).

The leaves that need no arithmetic name `Zenon`, which does them quicker than the
SMT solver.

Every invariant, action property and refinement that a passing run checks is
stated by a theorem. Only model-checked: liveness (fairness and ENABLED are out of
the prover's reach).

## 5. Not modelled

* Which pattern of a wildcarded user a name matches, `skipLeadingComments` and
  `canCacheQuery`, the cache key: pure functions of one request over the characters
  of a string. They share no state and nothing interleaves, so unit tests reach
  their cases. (What a match does to the limits is in `Scope`.)
* The goroutine of a registry that `NewAsyncCache` has started before it fails:
  nothing stops it, and it only looks at its own, empty map.
* The bytes of a value in redis: `RedisCache` keeps whose they are, how many and
  whether they are a beginning of the response. `DBSize` and INFO, which only the
  metrics use, are left out.
* Decoration of requests and responses, decompression, metrics, logging, TLS, the
  YAML configuration and its validation: I/O or a single request's data.
* Memory order of the Go memory model below `sync/atomic`: each atomic operation
  is one sequentially consistent step.
* `getReplica` read by read: `Dispatch` takes the scan of the replicas as one step,
  and that of the hosts of the chosen one as another.
* The bytes of a response: a 502 with a body that is retried after it has been
  written to the client or to the temporary file, a body that ClickHouse broke off
  and that is cached as it is, the error text that a late timeout appends.

## 6. Disagreements between code and documentation

* `dispatch_sticky`: `getReplicaSticky` and `getHostSticky` may return an inactive
  replica or host although others are active. The loop looks at
  `hash(session_id) % n` in every turn and falls back to the round-robin item,
  whose activity it never asks for; the comments say that this happens only when
  all are inactive.
* `cache_herd`: two requests that find no transaction both create one and are
  both proxied, while `config/README.md` promises a single one. The window is
  between `AwaitForConcurrentTransaction` and `Create`.
* `reload_kept`: a file that parses and is refused later leaves chproxy without
  any users when the pool looks changed, which it always does with the default
  pool; the comment of `applyConfig` says that the old configuration is kept.

Consequences of races and of ignored errors that are stated as what still holds:

* Each request that is between its addition to a rate limiter and its start, or its
  roll-back, at the reset of the minute lets that minute start one request more
  (`RateOvershoot`); the comment in `scope.go:254-257` calls such races innocent.
* The limits of a cluster user do not bind the requests that match a wildcarded user
  (`ConcurrencyLimit`), as `docs/src/content/docs/configuration/users.md:25` and the
  comment in `proxy.go:880-885` say.
* When the last active host of a replica goes down between `getReplica` and
  `getHost`, the request is given an inactive host although other replicas are
  active; the comment in `scope.go:977-979` takes all to be inactive. `PicksActive`
  shows that nothing else makes it so.
* ClickHouse may go on with a query whose connection broke: chproxy kills queries of
  clients that left and of requests whose time is over, and no others
  (`NothingRuns`).
* A reload that replaces the `reverseProxy` leaves the goroutines and the caches of
  the old one behind for ever (`ServicesMatch`, `CachesExact`); the comments at
  `proxy.go:640-645` and `687-690` hold of the global one.
* `Stats.Size` may stay wrong for as long as Puts keep coming (`SizeHeals`).
* `Put` of redis publishes a truncated response when its reader fails without any
  byte, since `n == 0` is asked before the error; the comment at
  `cache/redis_cache.go:307` takes the response for fully written. `Published`
  excepts it by name (`spoiled`), together with an APPEND that redis executes
  twice or late on a key that has expired.
* The result of RENAME is ignored: `Put` reports success for a response that is
  not stored.
* The streaming reader checks the length of what it has read only, so that a
  response replaced by another one of equal length is read as a mixture of both;
  `HonestRead` says whose bytes a complete read has when nothing was renamed over.

## 7. Plan

Done, in this order: admission with its first proofs, choice of a host, node
health, dispatch, the cache protocol, reload, the file system cache, proofs about
scan, penalty and cache; then redis as a cache, the abstract admission and the
abstract store with their refinements, and the proofs about rate limiter, dispatch,
redis and reload; then the proofs about the file system cache and the choice of a
host in dispatch; then the copies of wildcarded cluster users, late starts in the
minute of the rate limiter, and the two steps of a choice in dispatch.

Next:

1. The scan of `getReplica` read by read above that of `getHost`.
2. `FsCache` against `ResponseStore`, with the exceptions that writing in place
   makes (a truncated file while a Put is under way).
