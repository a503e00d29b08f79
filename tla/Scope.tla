------------------------------- MODULE Scope -------------------------------
(***************************************************************************)
(* Admission control of chproxy (scope.go): every proxied request gets a   *)
(* scope; incQueued admits it under the limits of its user and of the      *)
(* cluster user it is mapped to, dec gives the resources back.             *)
(*                                                                         *)
(* All the limits are plain atomic counters and buffered channels shared   *)
(* by the request goroutines, without a lock around them.  Each atomic     *)
(* operation is therefore one action here, and the requests interleave     *)
(* between any two of them.                                                *)
(*                                                                         *)
(* A user and a cluster user carry the same limits; both are "accounts".   *)
(* A request that matches a wildcarded user by its pattern does not count  *)
(* on the cluster user: getUser makes a copy of it for this request alone, *)
(* with counters of its own (generateWildcardedUserInformation, deepCopy). *)
(* The copy is an account too, named by its goroutine.                     *)
(*   Requests              goroutines, each serving requests one by one    *)
(*   user, packet          the user and the packet size of a goroutine's   *)
(*                         requests                                        *)
(*   wildcarded            the goroutines whose requests match the pattern *)
(*                         of their user, a wildcarded one                 *)
(*   Users, ClusterUsers   the configured accounts                         *)
(*   toUser                the cluster user a user is mapped to            *)
(*   Hosts                 the nodes of the cluster                        *)
(*   maxConcurrentQueries  per account, 0 is no limit                      *)
(*   reqPerMin             per account, 0 is no limit, negative blocks     *)
(*   maxQueueSize          per account capacity of queueCh, 0 is no queue  *)
(*   tokensBurst           per account request_packet_size_tokens_burst    *)
(*   Wrap                  counters are unsigned integers modulo Wrap      *)
(*                         (2^32 in the code)                              *)
(*                                                                         *)
(* Operators whose comment starts with "Fault:" are faulty variants of the *)
(* operator below them; with one in its place a property fails.            *)
(***************************************************************************)
EXTENDS Integers, FiniteSets

CONSTANTS Requests, user, packet, wildcarded, Users, ClusterUsers, toUser, Hosts,
          maxConcurrentQueries, reqPerMin, maxQueueSize, tokensBurst, Wrap

Configured == Users \cup ClusterUsers
Accounts   == Configured \cup wildcarded

ASSUME RequestsAssumption == /\ IsFiniteSet(Requests)
                             /\ user \in [Requests -> Users]
                             /\ packet \in [Requests -> Nat]
                             /\ wildcarded \subseteq Requests
ASSUME AccountsAssumption == /\ Users \cap ClusterUsers = {}
                             /\ Requests \cap Configured = {}
                             /\ toUser \in [Users -> ClusterUsers]
ASSUME LimitsAssumption == /\ maxConcurrentQueries \in [Accounts -> Nat]
                           /\ reqPerMin \in [Accounts -> Int]
                           /\ maxQueueSize \in [Accounts -> Nat]
                           /\ tokensBurst \in [Accounts -> Nat]

\* deepCopy: the copy has the limits of the cluster user c, without its packet
\* size bucket; the capacity of its queue comes from max_queue_time, not from
\* max_queue_size, and is its own.
isDeepCopy(copy, c) == /\ maxConcurrentQueries[copy] = maxConcurrentQueries[c]
                       /\ reqPerMin[copy] = reqPerMin[c]
                       /\ tokensBurst[copy] = 0
ASSUME CopiesAssumption == \A r \in wildcarded : isDeepCopy(r, toUser[user[r]])

\* Fewer goroutines than a counter can count.
ASSUME WrapAssumption == Wrap \in Nat /\ Cardinality(Requests) < Wrap

VARIABLES
  queryCounter,  \* account -> queries being started or running
  rateLimiter,   \* account -> queries counted in the current minute
  tokens,        \* account -> tokens left in the packet size bucket
  queueCh,       \* account -> slots taken in the request queue
  connections,   \* host -> open connections of topology.Node
  pc,            \* request -> the next atomic operation of its goroutine
  host,          \* request -> the node its scope points to
  err,           \* request -> the error that the current s.inc() will return
  mode,          \* request -> inside waitUntilAllowStart ("loop") or one try
  deadline,      \* request -> whether its queue deadline has passed
  slots          \* request -> accounts whose queue slot it must give back

vars   == <<queryCounter, rateLimiter, tokens, queueCh, connections, pc,
            host, err, mode, deadline, slots>>

\* getUser: the cluster user of the configuration, or the request's copy of it.
clusterUser(r) == IF r \in wildcarded THEN r ELSE toUser[user[r]]

Labels == {"idle", "queueU", "queueC",
           "incU", "incC", "rpmU", "rpmC", "tokU", "tokC",
           "undoU", "undoC", "rpmUndoU", "rpmUndoC", "retry", "sleep",
           "connect", "accept", "reject", "running", "move",
           "decU", "decC", "decH"}

TypeOK ==
  /\ queryCounter \in [Accounts -> 0..(Wrap - 1)]
  /\ rateLimiter \in [Accounts -> 0..(Wrap - 1)]
  /\ tokens \in [Accounts -> Nat]
  /\ queueCh \in [Accounts -> Nat]
  /\ connections \in [Hosts -> 0..(Wrap - 1)]
  /\ pc \in [Requests -> Labels]
  /\ host \in [Requests -> Hosts]
  /\ err \in [Requests -> {"nil", "limit"}]
  /\ mode \in [Requests -> {"once", "loop"}]
  /\ deadline \in [Requests -> {"ahead", "past"}]
  /\ slots \in [Requests -> SUBSET Accounts]

Init ==
  /\ queryCounter = [a \in Accounts |-> 0]
  /\ rateLimiter = [a \in Accounts |-> 0]
  /\ tokens = tokensBurst
  /\ queueCh = [a \in Accounts |-> 0]
  /\ connections = [h \in Hosts |-> 0]
  /\ pc = [r \in Requests |-> "idle"]
  /\ host \in [Requests -> Hosts]
  /\ err = [r \in Requests |-> "nil"]
  /\ mode = [r \in Requests |-> "once"]
  /\ deadline = [r \in Requests |-> "ahead"]
  /\ slots = [r \in Requests |-> {}]

----------------------------------------------------------------------------
(* counter.inc and counter.dec: atomic addition of 1 and of ^uint32(0).    *)

inc(n) == (n + 1) % Wrap
dec(n) == (n + Wrap - 1) % Wrap

goto(r, l) == pc' = [pc EXCEPT ![r] = l]

\* Record an error of the s.inc() under way; later checks never clear it.
fail(r, cond) == err' = [err EXCEPT ![r] = IF cond THEN "limit" ELSE @]

\* Fault: one query too many.
overConcurrentByOne(a, n) == maxConcurrentQueries[a] > 0 /\ n > maxConcurrentQueries[a] + 1

\* uQueries > s.user.maxConcurrentQueries, with 0 for no limit.
overConcurrent(a, n) == maxConcurrentQueries[a] > 0 /\ n > maxConcurrentQueries[a]

\* int32(n) > 0 of the rate check.
int32Positive(n) == 0 < n /\ n < Wrap \div 2

\* Fault: the limit is not compared.
overRateUnlimited(a, n) == reqPerMin[a] < 0

overRate(a, n) ==
  \/ reqPerMin[a] > 0 /\ int32Positive(n) /\ n > reqPerMin[a]
  \/ reqPerMin[a] < 0

----------------------------------------------------------------------------
(* ServeHTTP and incQueued: take the queue slots, if there are queues.     *)

\* getScope has found the user and newScope a host (Dispatch says which).
Arrive(r) ==
  /\ pc[r] = "idle"
  /\ \E h \in Hosts : host' = [host EXCEPT ![r] = h]
  /\ goto(r, "queueU")
  /\ UNCHANGED <<queryCounter, rateLimiter, tokens, queueCh, connections,
                 err, mode, deadline, slots>>

\* Fault: the slot of the queue is not given back.
enqueueNoDefer(r, a) ==
  /\ queueCh[a] < maxQueueSize[a]
  /\ queueCh' = [queueCh EXCEPT ![a] = @ + 1]
  /\ UNCHANGED slots

\* The non-blocking send on queueCh of account a, and the deferred receive.
enqueue(r, a) ==
  /\ queueCh[a] < maxQueueSize[a]
  /\ queueCh' = [queueCh EXCEPT ![a] = @ + 1]
  /\ slots' = [slots EXCEPT ![r] = @ \cup {a}]

\* queueCh is nil, or a full queue leaves the request one last chance.
skipQueue(a) == maxQueueSize[a] = 0
queueFull(a) == maxQueueSize[a] > 0 /\ queueCh[a] >= maxQueueSize[a]

QueueUser(r) ==
  /\ pc[r] = "queueU"
  /\ \/ enqueue(r, user[r]) /\ goto(r, "queueC")
     \/ skipQueue(user[r]) /\ goto(r, "queueC") /\ UNCHANGED <<queueCh, slots>>
     \/ queueFull(user[r]) /\ goto(r, "incU") /\ UNCHANGED <<queueCh, slots>>
  /\ UNCHANGED <<queryCounter, rateLimiter, tokens, connections,
                 host, err, mode, deadline>>

\* Only a request that holds a slot waits; without queues it tries once.
QueueCluster(r) ==
  /\ pc[r] = "queueC"
  /\ \/ /\ enqueue(r, clusterUser(r))
        /\ mode' = [mode EXCEPT ![r] = "loop"]
     \/ /\ skipQueue(clusterUser(r))
        /\ mode' = [mode EXCEPT ![r] = IF slots[r] = {} THEN "once" ELSE "loop"]
        /\ UNCHANGED <<queueCh, slots>>
     \/ queueFull(clusterUser(r)) /\ UNCHANGED <<queueCh, slots, mode>>
  /\ goto(r, "incU")
  /\ UNCHANGED <<queryCounter, rateLimiter, tokens, connections,
                 host, err, deadline>>

----------------------------------------------------------------------------
(* s.inc(): count first, check the value that the addition returned.       *)

IncUser(r) ==
  /\ pc[r] = "incU"
  /\ queryCounter' = [queryCounter EXCEPT ![user[r]] = inc(@)]
  /\ err' = [err EXCEPT ![r] =
               IF overConcurrent(user[r], inc(queryCounter[user[r]]))
               THEN "limit" ELSE "nil"]
  /\ goto(r, "incC")
  /\ UNCHANGED <<rateLimiter, tokens, queueCh, connections,
                 host, mode, deadline, slots>>

IncCluster(r) ==
  /\ pc[r] = "incC"
  /\ queryCounter' = [queryCounter EXCEPT ![clusterUser(r)] = inc(@)]
  /\ fail(r, overConcurrent(clusterUser(r), inc(queryCounter[clusterUser(r)])))
  /\ goto(r, "rpmU")
  /\ UNCHANGED <<rateLimiter, tokens, queueCh, connections,
                 host, mode, deadline, slots>>

\* The rate limiter of an account without requests_per_minute is never compared
\* with anything, and that of a copy is dropped with its only request: both
\* stay 0 here.
limited(a) == reqPerMin[a] # 0 /\ a \notin wildcarded

countRate(a, n) == rateLimiter' =
  IF limited(a) THEN [rateLimiter EXCEPT ![a] = n] ELSE rateLimiter

\* checkTokenFreeRateLimiters, the addition for account a.
incRate(r, a) ==
  /\ countRate(a, inc(rateLimiter[a]))
  /\ fail(r, overRate(a, inc(rateLimiter[a])))
  /\ UNCHANGED <<queryCounter, tokens, queueCh, connections,
                 host, mode, deadline, slots>>

RateUser(r)    == pc[r] = "rpmU" /\ incRate(r, user[r]) /\ goto(r, "rpmC")
RateCluster(r) == pc[r] = "rpmC" /\ incRate(r, clusterUser(r)) /\ goto(r, "tokU")

\* AllowN of the token bucket of account a (golang.org/x/time/rate): it adds the
\* tokens that time has produced, takes all or nothing, and nothing is given
\* back when another check fails.
AllowN(r, a) ==
  /\ \E t \in tokens[a]..tokensBurst[a] :
       LET ok == tokensBurst[a] = 0 \/ packet[r] <= t
       IN  /\ tokens' = IF ok /\ tokensBurst[a] > 0
                        THEN [tokens EXCEPT ![a] = t - packet[r]] ELSE tokens
           /\ fail(r, ~ok)
  /\ UNCHANGED <<queryCounter, rateLimiter, queueCh, connections,
                 host, mode, deadline, slots>>

TokensUser(r) == pc[r] = "tokU" /\ AllowN(r, user[r]) /\ goto(r, "tokC")

\* Fault: the errors of the earlier checks are not looked at.
tokensClusterForgets(r) ==
  /\ pc[r] = "tokC"
  /\ AllowN(r, clusterUser(r))
  /\ goto(r, "connect")

\* The last check: the error, if any, is known and decides what follows.
TokensCluster(r) ==
  /\ pc[r] = "tokC"
  /\ AllowN(r, clusterUser(r))
  /\ goto(r, IF err'[r] = "nil" THEN "connect" ELSE "undoU")

\* Fault: only the user's counters are taken back.
undoClusterForgotten(r) ==
  /\ pc[r] = "undoC"
  /\ goto(r, "rpmUndoU")
  /\ UNCHANGED <<queryCounter, rateLimiter, tokens, queueCh, connections,
                 host, err, mode, deadline, slots>>

\* A limit is exceeded: take the four additions back, one after the other.
undoQuery(r, a) ==
  /\ queryCounter' = [queryCounter EXCEPT ![a] = dec(@)]
  /\ UNCHANGED <<rateLimiter, tokens, queueCh, connections,
                 host, err, mode, deadline, slots>>

undoRate(r, a) ==
  /\ countRate(a, dec(rateLimiter[a]))
  /\ UNCHANGED <<queryCounter, tokens, queueCh, connections,
                 host, err, mode, deadline, slots>>

UndoUser(r)        == pc[r] = "undoU" /\ undoQuery(r, user[r]) /\ goto(r, "undoC")
UndoCluster(r)     == pc[r] = "undoC" /\ undoQuery(r, clusterUser(r)) /\ goto(r, "rpmUndoU")
UndoRateUser(r)    == pc[r] = "rpmUndoU" /\ undoRate(r, user[r]) /\ goto(r, "rpmUndoC")
UndoRateCluster(r) == pc[r] = "rpmUndoC" /\ undoRate(r, clusterUser(r)) /\ goto(r, "retry")

\* All the limits hold: s.host.IncrementConnections().
Connect(r) ==
  /\ pc[r] = "connect"
  /\ connections' = [connections EXCEPT ![host[r]] = inc(@)]
  /\ goto(r, "accept")
  /\ UNCHANGED <<queryCounter, rateLimiter, tokens, queueCh,
                 host, err, mode, deadline, slots>>

----------------------------------------------------------------------------
(* waitUntilAllowStart, and the deferred receives when incQueued returns.  *)

\* Fault: no deadline.
retryForever(r) ==
  /\ pc[r] = "retry"
  /\ goto(r, IF mode[r] = "once" THEN "reject" ELSE "sleep")
  /\ UNCHANGED <<queryCounter, rateLimiter, tokens, queueCh, connections,
                 host, err, mode, deadline, slots>>

\* s.inc() failed: give up, or sleep when in the queue before the deadline.
Retry(r) ==
  /\ pc[r] = "retry"
  /\ goto(r, IF mode[r] = "once" \/ deadline[r] = "past" THEN "reject" ELSE "sleep")
  /\ UNCHANGED <<queryCounter, rateLimiter, tokens, queueCh, connections,
                 host, err, mode, deadline, slots>>

\* Wake up, choose a host again and make another attempt.
Wake(r) ==
  /\ pc[r] = "sleep"
  /\ \E h \in Hosts : host' = [host EXCEPT ![r] = h]
  /\ goto(r, "incU")
  /\ UNCHANGED <<queryCounter, rateLimiter, tokens, queueCh, connections,
                 err, mode, deadline, slots>>

\* <-queueCh: blocks while the channel is empty.
dequeue(r, a) ==
  /\ a \in slots[r]
  /\ queueCh[a] > 0
  /\ queueCh' = [queueCh EXCEPT ![a] = @ - 1]
  /\ slots' = [slots EXCEPT ![r] = @ \ {a}]

\* Deferred calls run last in, first out.
LeaveQueue(r) ==
  /\ pc[r] \in {"accept", "reject"}
  /\ \/ dequeue(r, clusterUser(r))
     \/ clusterUser(r) \notin slots[r] /\ dequeue(r, user[r])
  /\ UNCHANGED <<queryCounter, rateLimiter, tokens, connections, pc,
                 host, err, mode, deadline>>

\* incQueued returns: the request runs, or the client gets 429.
Return(r) ==
  /\ pc[r] \in {"accept", "reject"}
  /\ slots[r] = {}
  /\ goto(r, IF pc[r] = "accept" THEN "running" ELSE "idle")
  /\ err' = [err EXCEPT ![r] = "nil"]
  /\ mode' = [mode EXCEPT ![r] = "once"]
  /\ deadline' = [deadline EXCEPT ![r] = "ahead"]
  /\ UNCHANGED <<queryCounter, rateLimiter, tokens, queueCh, connections,
                 host, slots>>

----------------------------------------------------------------------------
(* The admitted request: executeWithRetry may move it to another host,     *)
(* and the deferred s.dec() gives everything back.                         *)

\* Fault: the host that failed keeps the connection.
moveOutKeepsOld(r) ==
  /\ pc[r] = "running"
  /\ \E h \in Hosts \ {host[r]} : host' = [host EXCEPT ![r] = h]
  /\ goto(r, "move")
  /\ UNCHANGED <<queryCounter, rateLimiter, tokens, queueCh, connections,
                 err, mode, deadline, slots>>

\* currentHost.DecrementConnections() of a retry on a different host.
MoveOut(r) ==
  /\ pc[r] = "running"
  /\ \E h \in Hosts \ {host[r]} : host' = [host EXCEPT ![r] = h]
  /\ connections' = [connections EXCEPT ![host[r]] = dec(@)]
  /\ goto(r, "move")
  /\ UNCHANGED <<queryCounter, rateLimiter, tokens, queueCh,
                 err, mode, deadline, slots>>

\* nextHost.IncrementConnections().
MoveIn(r) ==
  /\ pc[r] = "move"
  /\ connections' = [connections EXCEPT ![host[r]] = inc(@)]
  /\ goto(r, "running")
  /\ UNCHANGED <<queryCounter, rateLimiter, tokens, queueCh,
                 host, err, mode, deadline, slots>>

\* The handler returns and the deferred s.dec() starts.
Finish(r) ==
  /\ pc[r] = "running"
  /\ goto(r, "decU")
  /\ UNCHANGED <<queryCounter, rateLimiter, tokens, queueCh, connections,
                 host, err, mode, deadline, slots>>

DecUser(r)    == pc[r] = "decU" /\ undoQuery(r, user[r]) /\ goto(r, "decC")
DecCluster(r) == pc[r] = "decC" /\ undoQuery(r, clusterUser(r)) /\ goto(r, "decH")

DecHost(r) ==
  /\ pc[r] = "decH"
  /\ connections' = [connections EXCEPT ![host[r]] = dec(@)]
  /\ goto(r, "idle")
  /\ UNCHANGED <<queryCounter, rateLimiter, tokens, queueCh,
                 host, err, mode, deadline, slots>>

----------------------------------------------------------------------------
(* Time.                                                                   *)

\* maxQueueTime has elapsed since the request was queued.
DeadlinePasses(r) ==
  /\ mode[r] = "loop"
  /\ deadline[r] = "ahead"
  /\ deadline' = [deadline EXCEPT ![r] = "past"]
  /\ UNCHANGED <<queryCounter, rateLimiter, tokens, queueCh, connections, pc,
                 host, err, mode, slots>>

\* rateLimiter.run: rl.store(0) once a minute, whoever is in the middle of inc.
\* No such goroutine is started for a copy.
ResetRate(a) ==
  /\ rateLimiter' = [rateLimiter EXCEPT ![a] = 0]
  /\ UNCHANGED <<queryCounter, tokens, queueCh, connections, pc,
                 host, err, mode, deadline, slots>>

\* The steps of incQueued, which the scheduler runs without waiting for others.
incQueued(r) ==
  \/ QueueUser(r) \/ QueueCluster(r)
  \/ IncUser(r) \/ IncCluster(r) \/ RateUser(r) \/ RateCluster(r)
  \/ TokensUser(r) \/ TokensCluster(r)
  \/ UndoUser(r) \/ UndoCluster(r) \/ UndoRateUser(r) \/ UndoRateCluster(r)
  \/ Connect(r) \/ Retry(r) \/ Wake(r)
  \/ LeaveQueue(r) \/ Return(r)

serve(r) == Arrive(r) \/ MoveOut(r) \/ MoveIn(r) \/ Finish(r)
            \/ DecUser(r) \/ DecCluster(r) \/ DecHost(r)

Next ==
  \/ \E r \in Requests : incQueued(r) \/ serve(r) \/ DeadlinePasses(r)
  \/ \E a \in Configured : ResetRate(a)

Spec == Init /\ [][Next]_vars

\* Goroutines keep running, sleeps end and the queue deadline arrives; no
\* fairness is assumed of arrivals, of running queries or of the rate reset.
FairSpec == /\ Spec
            /\ \A r \in Requests : /\ WF_vars(incQueued(r))
                                   /\ WF_vars(DeadlinePasses(r))

----------------------------------------------------------------------------
(* Properties.                                                             *)

\* Where a request's addition to the query counter of its user, and to that of
\* its cluster user, is not taken back yet.
countsUser    == {"incC", "rpmU", "rpmC", "tokU", "tokC", "undoU",
                  "connect", "accept", "running", "move", "decU"}
countsCluster == {"rpmU", "rpmC", "tokU", "tokC", "undoU", "undoC",
                  "connect", "accept", "running", "move", "decU", "decC"}

counts(r, a) == \/ a = user[r] /\ pc[r] \in countsUser
                \/ a = clusterUser(r) /\ pc[r] \in countsCluster

\* A request that inc has let through and that still counts for both accounts.
admitted(r) == pc[r] \in {"connect", "accept", "running", "move", "decU"}

\* max_concurrent_queries (scope.go:218,222): whatever the interleaving of the
\* increments and of their roll-backs, the queries admitted for a user, or for
\* a cluster user, never exceed its limit.  The limit of a cluster user binds
\* the requests whose user was addressed by name: a request that matched a
\* wildcarded user counts on a copy of its own (proxy.go:873), so any number of
\* them may run beside, up to the limit of the wildcarded user
\* (docs/src/content/docs/configuration/users.md:25).
ConcurrencyLimit ==
  \A a \in Accounts : maxConcurrentQueries[a] > 0 =>
    Cardinality({r \in Requests : admitted(r) /\ a \in {user[r], clusterUser(r)}})
      <= maxConcurrentQueries[a]

\* The query counters never drift: each holds exactly the requests between
\* their increment in inc and their decrement in inc's error path or in dec
\* (scope.go:214-234,302), so a rejected request never leaks a slot.
CountersExact ==
  \A a \in Accounts :
    queryCounter[a] = Cardinality({r \in Requests : counts(r, a)})

\* A request that holds a connection of host h.
connected(r, h) ==
  host[r] = h /\ pc[r] \in {"accept", "running", "decU", "decC", "decH"}

\* The connection counter of a node is the number of admitted requests whose
\* scope points to it, also across the host switch of executeWithRetry
\* (proxy.go:250-255): nothing leaks and dec never underflows it.
ConnectionsExact ==
  \A h \in Hosts : connections[h] = Cardinality({r \in Requests : connected(r, h)})

\* The queue of an account holds exactly the requests that will give their slot
\* back, at most its capacity, and only during incQueued (scope.go:117-149): the
\* deferred receive never blocks and no slot survives the request.
QueueExact ==
  /\ \A a \in Accounts :
       /\ queueCh[a] = Cardinality({r \in Requests : a \in slots[r]})
       /\ queueCh[a] <= maxQueueSize[a]
  /\ \A r \in Requests :
       pc[r] \in {"idle", "running", "move", "decU", "decC", "decH"} => slots[r] = {}

\* A request that incQueued has neither admitted nor sent away.
waiting == {r \in Requests :
              pc[r] \in Labels \ {"idle", "connect", "accept", "running", "move",
                                  "decU", "decC", "decH"}}
inside  == {r \in Requests : admitted(r)}

Abstract == INSTANCE Admission
              WITH accounts <- [r \in Requests |-> {user[r], clusterUser(r)}],
                   limit    <- maxConcurrentQueries

\* The counting, checking and taking back of incQueued and dec (scope.go:103-306)
\* looks like one atomic decision: a request is let in once, within the limits
\* of its user and of its cluster user, or refused, and leaves once.  For a
\* request that matched a wildcarded user the second limit is that of its own
\* copy of the cluster user, which no other request counts on.
Admits == Abstract!Spec

\* Every request that enters incQueued leaves it, started or rejected, however
\* busy the accounts are (scope.go:161-197).
QueuedReturns ==
  \A r \in Requests : pc[r] = "queueU" ~> pc[r] \in {"running", "idle"}
=============================================================================
