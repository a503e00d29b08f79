------------------------------ MODULE Dispatch -----------------------------
(***************************************************************************)
(* A request on its way through a cluster (scope.go, proxy.go): newScope   *)
(* picks a host, incQueued admits the request, executeWithRetry sends it,  *)
(* moves it to another host after a 502, and proxyRequest kills the query  *)
(* when the client leaves or the time limit passes.                        *)
(*                                                                         *)
(* Scope details the admission, Node the health and the penalty of a host, *)
(* HostScan one scan of getHost; here each of them is one step.  The scan  *)
(* of the replicas and the scan of the hosts of the chosen one are two     *)
(* steps: nodes go down and come up in between.                            *)
(* Operators whose comment starts with "Fault:" are faulty variants of the *)
(* operator below them.                                                    *)
(*                                                                         *)
(*   Requests             goroutines, each serving requests one by one     *)
(*   session              hash(session_id) of a goroutine's requests, or   *)
(*                        NoSession                                        *)
(*   Replicas             number of replicas of the cluster                *)
(*   Nodes                replica -> number of its hosts                   *)
(*   retryNumber          retry_number of the cluster                      *)
(*   MaxPenalty           bound on the penalties of a host, each counts 1  *)
(*   Wrap                 round-robin indexes are modulo Wrap (2^32)       *)
(***************************************************************************)
EXTENDS Balance, FiniteSets

CONSTANTS Requests, session, NoSession, Replicas, Nodes, retryNumber, MaxPenalty, Wrap

ASSUME DispatchAssumption == /\ IsFiniteSet(Requests)
                             /\ Replicas \in Nat \ {0}
                             /\ Nodes \in [0..(Replicas - 1) -> Nat \ {0}]
                             /\ \A r \in Requests : session[r] \in Nat \cup {NoSession}
                             /\ retryNumber \in Nat
                             /\ MaxPenalty \in Nat
                             /\ Wrap \in Nat \ {0}

hostsOf(p) == 0..(Nodes[p] - 1)
Hosts == UNION {{p} \X hostsOf(p) : p \in 0..(Replicas - 1)}

VARIABLES
  active, connections, penalty,  \* host -> the atomics of topology.Node
  nextIdx,   \* nextReplicaIdx, and nextHostIdx of each replica
  pc,        \* request -> next step
  host,      \* request -> s.host
  replica,   \* request -> the replica whose hosts are scanned next, 0 outside of a pick
  nextHost,  \* request -> the host that a retry would use
  numRetry,  \* request -> attempts made after the first one
  status,    \* request -> how the last attempt ended
  ctx,       \* request -> "ok", or why the context is done
  query,     \* request -> host -> what its query does on that ClickHouse node
  seen       \* history: request -> the hosts that were active when its replica was chosen

nodes == <<active, connections, penalty>>
pick  == <<nextIdx, replica, seen>>
vars  == <<active, connections, penalty, nextIdx, pc, host, replica, nextHost,
           numRetry, status, ctx, query, seen>>

\* The steps before the request is counted.
outside == {"idle", "getHost", "sticky", "getHostSticky", "queued"}

DispatchTypeOK ==
  /\ active \in [Hosts -> BOOLEAN]
  /\ connections \in [Hosts -> 0..Cardinality(Requests)]
  /\ penalty \in [Hosts -> 0..MaxPenalty]
  /\ nextIdx \in [replica : 0..(Wrap - 1), hosts : [0..(Replicas - 1) -> 0..(Wrap - 1)]]
  /\ pc \in [Requests -> outside \cup {"send", "sent", "returned", "pick", "getNext",
                                      "retry", "kill", "dec"}]
  /\ replica \in [Requests -> 0..(Replicas - 1)] /\ seen \in [Requests -> SUBSET Hosts]
  /\ host \in [Requests -> Hosts] /\ nextHost \in [Requests -> Hosts]
  /\ numRetry \in [Requests -> 0..retryNumber]
  /\ status \in [Requests -> {"none", "answer", "badGateway"}]
  /\ ctx \in [Requests -> {"ok", "canceled", "deadline"}]
  /\ query \in [Requests -> [Hosts -> {"none", "running", "lost", "unkilled"}]]

anyHost == CHOOSE h \in Hosts : TRUE
noQuery == [h \in Hosts |-> "none"]

\* Nodes are inactive until their first heartbeat.
Init ==
  /\ active = [h \in Hosts |-> FALSE]
  /\ connections = [h \in Hosts |-> 0]
  /\ penalty = [h \in Hosts |-> 0]
  /\ nextIdx = [replica |-> 0, hosts |-> [p \in 0..(Replicas - 1) |-> 0]]
  /\ pc = [r \in Requests |-> "idle"]
  /\ host = [r \in Requests |-> anyHost]
  /\ replica = [r \in Requests |-> 0] /\ seen = [r \in Requests |-> {}]
  /\ nextHost = [r \in Requests |-> anyHost]
  /\ numRetry = [r \in Requests |-> 0]
  /\ status = [r \in Requests |-> "none"]
  /\ ctx = [r \in Requests |-> "ok"]
  /\ query = [r \in Requests |-> noQuery]

----------------------------------------------------------------------------
(* cluster.getHost and cluster.getHostSticky.                              *)

CurrentLoad(h) == connections[h] + penalty[h]

\* Fault: a replica is taken for active whatever its hosts are.
isActiveAlways == [p \in 0..(Replicas - 1) |-> TRUE]

\* replica.isActive and replica.load.
isActive == [p \in 0..(Replicas - 1) |-> \E k \in hostsOf(p) : active[<<p, k>>]]
load     == [p \in 0..(Replicas - 1) |-> sumOf([k \in hostsOf(p) |-> CurrentLoad(<<p, k>>)], Nodes[p])]

getReplica(idx) ==
  IF Replicas = 1 THEN 0
  ELSE CHOOSE p \in 0..(Replicas - 1) : isLeastLoaded(p, idx % Replicas, Replicas, isActive, load)

replicaGetHost(p, idx) ==
  IF Nodes[p] = 1 THEN 0
  ELSE CHOOSE k \in hostsOf(p) :
         isLeastLoaded(k, idx % Nodes[p], Nodes[p],
                       [n \in hostsOf(p) |-> active[<<p, n>>]],
                       [n \in hostsOf(p) |-> CurrentLoad(<<p, n>>)])

\* Fault: the replica is taken in turn.
getReplicaInTurn(id, idx) == idx % Replicas

\* The loops of the sticky variants look at the same candidate in every pass.
getReplicaSticky(id, idx) ==
  IF Replicas > 1 /\ isActive[id % Replicas] THEN id % Replicas ELSE idx % Replicas

replicaGetHostSticky(p, id, idx) ==
  IF Nodes[p] > 1 /\ active[<<p, id % Nodes[p]>>] THEN id % Nodes[p] ELSE idx % Nodes[p]

\* An index that is added to; one into a single item is read by nobody and left out.
bumped(i, n) == IF n = 1 THEN i ELSE (i + 1) % Wrap
replicaIdx   == bumped(nextIdx.replica, Replicas)
hostIdx(p)   == bumped(nextIdx.hosts[p], Nodes[p])

\* r goes on with the hosts of replica p.
scanReplica(r, p) ==
  /\ replica' = [replica EXCEPT ![r] = p]
  /\ seen' = [seen EXCEPT ![r] = {h \in Hosts : active[h]}]
  /\ nextIdx' = [nextIdx EXCEPT !.replica = replicaIdx]

chooseReplica(r)       == scanReplica(r, getReplica(replicaIdx))
chooseReplicaSticky(r) == scanReplica(r, getReplicaSticky(session[r], replicaIdx))

\* The host of its replica that r is given, and the end of the pick.
givenHost(r)   == <<replica[r], replicaGetHost(replica[r], hostIdx(replica[r]))>>
givenSticky(r) == <<replica[r], replicaGetHostSticky(replica[r], session[r], hostIdx(replica[r]))>>
endPick(r) ==
  /\ nextIdx' = [nextIdx EXCEPT !.hosts[replica[r]] = hostIdx(replica[r])]
  /\ replica' = [replica EXCEPT ![r] = 0]
  /\ seen' = [seen EXCEPT ![r] = {}]

----------------------------------------------------------------------------
(* getScope and incQueued.                                                 *)

\* newScope calls getHost in any case, which begins with getReplica.
Arrive(r) ==
  /\ pc[r] = "idle"
  /\ chooseReplica(r)
  /\ pc' = [pc EXCEPT ![r] = "getHost"]
  /\ UNCHANGED <<nodes, host, nextHost, numRetry, status, ctx, query>>

\* replica.getHost; newScope goes on with getHostSticky for a session.
GetHost(r) ==
  /\ pc[r] = "getHost"
  /\ host' = [host EXCEPT ![r] = givenHost(r)]
  /\ endPick(r)
  /\ pc' = [pc EXCEPT ![r] = IF session[r] = NoSession THEN "queued" ELSE "sticky"]
  /\ UNCHANGED <<nodes, nextHost, numRetry, status, ctx, query>>

GetReplicaSticky(r) ==
  /\ pc[r] = "sticky"
  /\ chooseReplicaSticky(r)
  /\ pc' = [pc EXCEPT ![r] = "getHostSticky"]
  /\ UNCHANGED <<nodes, host, nextHost, numRetry, status, ctx, query>>

\* replica.getHostSticky.
GetHostSticky(r) ==
  /\ pc[r] = "getHostSticky"
  /\ host' = [host EXCEPT ![r] = givenSticky(r)]
  /\ endPick(r)
  /\ pc' = [pc EXCEPT ![r] = "queued"]
  /\ UNCHANGED <<nodes, nextHost, numRetry, status, ctx, query>>

\* waitUntilAllowStart picks again after a sleep.
Repick(r) ==
  /\ pc[r] = "queued"
  /\ \/ /\ session[r] = NoSession
        /\ chooseReplica(r)
        /\ pc' = [pc EXCEPT ![r] = "getHost"]
     \/ /\ session[r] # NoSession
        /\ chooseReplicaSticky(r)
        /\ pc' = [pc EXCEPT ![r] = "getHostSticky"]
  /\ UNCHANGED <<nodes, host, nextHost, numRetry, status, ctx, query>>

Reject(r) ==
  /\ pc[r] = "queued"
  /\ pc' = [pc EXCEPT ![r] = "idle"]
  /\ host' = [host EXCEPT ![r] = anyHost]
  /\ UNCHANGED <<nodes, pick, nextHost, numRetry, status, ctx, query>>

Admit(r) ==
  /\ pc[r] = "queued"
  /\ connections' = [connections EXCEPT ![host[r]] = @ + 1]
  /\ pc' = [pc EXCEPT ![r] = "send"]
  /\ UNCHANGED <<active, penalty, pick, host, nextHost, numRetry, status, ctx, query>>

----------------------------------------------------------------------------
(* executeWithRetry.                                                       *)

\* readAndRestoreRequestBody fails before the first attempt.  proxyRequest takes
\* the error for one of the context and panics; the deferred s.dec() follows.
BodyFails(r) ==
  /\ pc[r] = "send" /\ numRetry[r] = 0
  /\ pc' = [pc EXCEPT ![r] = "dec"]
  /\ UNCHANGED <<nodes, pick, host, nextHost, numRetry, status, ctx, query>>

\* rp(rw, req): the reverse proxy connects, and the query starts; or it does
\* not even connect and answers 502.
Send(r) ==
  /\ pc[r] = "send"
  /\ \/ /\ query' = [query EXCEPT ![r][host[r]] = "running"]
        /\ pc' = [pc EXCEPT ![r] = "sent"]
        /\ UNCHANGED status
     \/ /\ status' = [status EXCEPT ![r] = "badGateway"]
        /\ pc' = [pc EXCEPT ![r] = "returned"]
        /\ UNCHANGED query
  /\ UNCHANGED <<nodes, pick, host, nextHost, numRetry, ctx>>

\* The node answers.
Answer(r) ==
  /\ pc[r] = "sent"
  /\ query' = [query EXCEPT ![r][host[r]] = "none"]
  /\ status' = [status EXCEPT ![r] = "answer"]
  /\ pc' = [pc EXCEPT ![r] = "returned"]
  /\ UNCHANGED <<nodes, pick, host, nextHost, numRetry, ctx>>

\* The connection breaks before the answer: the reverse proxy reports 502
\* while ClickHouse may go on with the query.
Break(r) ==
  /\ pc[r] = "sent"
  /\ query' = [query EXCEPT ![r][host[r]] = "lost"]
  /\ status' = [status EXCEPT ![r] = "badGateway"]
  /\ pc' = [pc EXCEPT ![r] = "returned"]
  /\ UNCHANGED <<nodes, pick, host, nextHost, numRetry, ctx>>

\* The body is cut off after the header of the response, by the node or because it
\* cannot be written to the client: the reverse proxy just returns, with the status
\* of the header.  ClickHouse may go on with the query.
CutOff(r) ==
  /\ pc[r] = "sent"
  /\ query' = [query EXCEPT ![r][host[r]] = "lost"]
  /\ status' = [status EXCEPT ![r] = "answer"]
  /\ pc' = [pc EXCEPT ![r] = "returned"]
  /\ UNCHANGED <<nodes, pick, host, nextHost, numRetry, ctx>>

\* The reverse proxy gives up when the context is done; the query goes on.
Abandon(r) ==
  /\ pc[r] = "sent" /\ ctx[r] # "ok"
  /\ status' = [status EXCEPT ![r] = "badGateway"]
  /\ pc' = [pc EXCEPT ![r] = "returned"]
  /\ UNCHANGED <<nodes, pick, host, nextHost, numRetry, ctx, query>>

penalized(h) == [penalty EXCEPT ![h] = IF @ < MaxPenalty THEN @ + 1 ELSE @]

\* After rp: a done context goes first, then the status is looked at.  A 502
\* penalizes the host and marks it inactive.
Returned(r) ==
  /\ pc[r] = "returned"
  /\ \/ /\ ctx[r] # "ok"
        /\ pc' = [pc EXCEPT ![r] = "kill"]
        /\ UNCHANGED nodes
     \/ /\ ctx[r] = "ok" /\ status[r] = "answer"
        /\ pc' = [pc EXCEPT ![r] = "dec"]
        /\ UNCHANGED nodes
     \/ /\ ctx[r] = "ok" /\ status[r] = "badGateway"
        /\ penalty' = penalized(host[r])
        /\ active' = [active EXCEPT ![host[r]] = FALSE]
        /\ pc' = [pc EXCEPT ![r] = "pick"]
        /\ UNCHANGED connections
  /\ status' = [status EXCEPT ![r] = "none"]
  /\ UNCHANGED <<pick, host, nextHost, numRetry, ctx, query>>

\* nextHost := s.cluster.getHost(): the replica,
PickNext(r) ==
  /\ pc[r] = "pick"
  /\ chooseReplica(r)
  /\ pc' = [pc EXCEPT ![r] = "getNext"]
  /\ UNCHANGED <<nodes, host, nextHost, numRetry, status, ctx, query>>

\* and its host.
GetNext(r) ==
  /\ pc[r] = "getNext"
  /\ nextHost' = [nextHost EXCEPT ![r] = givenHost(r)]
  /\ endPick(r)
  /\ pc' = [pc EXCEPT ![r] = "retry"]
  /\ UNCHANGED <<nodes, host, numRetry, status, ctx, query>>

\* Fault: one attempt too many.
mayRetryOnceMore(r) == numRetry[r] <= retryNumber /\ active[nextHost[r]] /\ session[r] = NoSession

mayRetry(r) == numRetry[r] < retryNumber /\ active[nextHost[r]] /\ session[r] = NoSession

\* Fault: the connection stays counted on the host that failed.
retryKeepsConnections(r) ==
  /\ pc[r] = "retry"
  /\ \/ /\ mayRetry(r)
        /\ host' = [host EXCEPT ![r] = nextHost[r]]
        /\ numRetry' = [numRetry EXCEPT ![r] = @ + 1]
        /\ pc' = [pc EXCEPT ![r] = "send"]
     \/ /\ ~mayRetry(r)
        /\ pc' = [pc EXCEPT ![r] = "dec"]
        /\ UNCHANGED <<host, numRetry>>
  /\ nextHost' = [nextHost EXCEPT ![r] = anyHost]
  /\ UNCHANGED <<nodes, pick, status, ctx, query>>

\* Move the connection to the next host and try again, or give up.
Retry(r) ==
  /\ pc[r] = "retry"
  /\ \/ /\ mayRetry(r)
        /\ connections' = IF nextHost[r] = host[r] THEN connections
                          ELSE [connections EXCEPT ![host[r]] = @ - 1, ![nextHost[r]] = @ + 1]
        /\ host' = [host EXCEPT ![r] = nextHost[r]]
        /\ numRetry' = [numRetry EXCEPT ![r] = @ + 1]
        /\ pc' = [pc EXCEPT ![r] = "send"]
     \/ /\ ~mayRetry(r)
        /\ pc' = [pc EXCEPT ![r] = "dec"]
        /\ UNCHANGED <<connections, host, numRetry>>
  /\ nextHost' = [nextHost EXCEPT ![r] = anyHost]
  /\ UNCHANGED <<active, penalty, pick, status, ctx, query>>

----------------------------------------------------------------------------
(* proxyRequest and the deferred s.dec().                                  *)

\* Fault: the query of a client that left is not killed.
killOnlyTimedOut(r) ==
  /\ pc[r] = "kill"
  /\ IF ctx[r] = "deadline"
     THEN query' = [query EXCEPT ![r][host[r]] = "none"] /\ penalty' = penalized(host[r])
     ELSE UNCHANGED <<query, penalty>>
  /\ pc' = [pc EXCEPT ![r] = "dec"]
  /\ UNCHANGED <<active, connections, pick, host, nextHost, numRetry, status, ctx>>

\* killQuery at s.host, which may fail and is then only logged.
killQuery(r) ==
  \/ query' = [query EXCEPT ![r][host[r]] = "none"]
  \/ query' = [query EXCEPT ![r][host[r]] = IF @ = "none" THEN @ ELSE "unkilled"]

\* The client has left, or the time is over; only the latter is a penalty.
Kill(r) ==
  /\ pc[r] = "kill"
  /\ penalty' = IF ctx[r] = "deadline" THEN penalized(host[r]) ELSE penalty
  /\ killQuery(r)
  /\ pc' = [pc EXCEPT ![r] = "dec"]
  /\ UNCHANGED <<active, connections, pick, host, nextHost, numRetry, status, ctx>>

Finish(r) ==
  /\ pc[r] = "dec"
  /\ connections' = [connections EXCEPT ![host[r]] = @ - 1]
  /\ pc' = [pc EXCEPT ![r] = "idle"]
  /\ host' = [host EXCEPT ![r] = anyHost]
  /\ numRetry' = [numRetry EXCEPT ![r] = 0]
  /\ ctx' = [ctx EXCEPT ![r] = "ok"]
  /\ query' = [query EXCEPT ![r] = noQuery]
  /\ UNCHANGED <<active, penalty, pick, nextHost, status>>

----------------------------------------------------------------------------
(* Clients, time and nodes.                                                *)

\* The context of the proxied request is done.
ContextDone(r, why) ==
  /\ pc[r] \in {"send", "sent", "returned", "pick", "getNext", "retry"}
  /\ ctx[r] = "ok"
  /\ ctx' = [ctx EXCEPT ![r] = why]
  /\ UNCHANGED <<nodes, pick, pc, host, nextHost, numRetry, status, query>>

\* listenToCloseNotify: the client closes its connection.
CloseNotify(r) == ContextDone(r, "canceled")

\* The smaller of the two max_execution_time is over.
Timeout(r) == ContextDone(r, "deadline")

\* A heartbeat stores the health of a node.
Heartbeat(h, b) ==
  /\ active[h] # b
  /\ active' = [active EXCEPT ![h] = b]
  /\ UNCHANGED <<connections, penalty, pick, pc, host, nextHost, numRetry, status, ctx, query>>

PenaltyExpires(h) ==
  /\ penalty[h] > 0
  /\ penalty' = [penalty EXCEPT ![h] = @ - 1]
  /\ UNCHANGED <<active, connections, pick, pc, host, nextHost, numRetry, status, ctx, query>>

incQueued(r)    == Admit(r) \/ Reject(r)
picking(r)      == GetHost(r) \/ GetReplicaSticky(r) \/ GetHostSticky(r)
proxyRequest(r) == \/ BodyFails(r) \/ Send(r) \/ Answer(r) \/ Break(r) \/ CutOff(r) \/ Abandon(r)
                   \/ Returned(r) \/ PickNext(r) \/ GetNext(r) \/ Retry(r) \/ Kill(r) \/ Finish(r)

Next ==
  \/ \E r \in Requests : \/ Arrive(r) \/ Repick(r) \/ picking(r) \/ incQueued(r) \/ proxyRequest(r)
                         \/ CloseNotify(r) \/ Timeout(r)
  \/ \E h \in Hosts : PenaltyExpires(h) \/ \E b \in BOOLEAN : Heartbeat(h, b)

Spec == Init /\ [][Next]_vars

\* incQueued returns (Scope, QueuedReturns) and an attempt ends: the node
\* answers, the connection breaks, or the context is done.
FairSpec == /\ Spec
            /\ \A r \in Requests : WF_vars(picking(r)) /\ SF_vars(incQueued(r)) /\ WF_vars(proxyRequest(r))

----------------------------------------------------------------------------
(* Properties.                                                             *)

\* The scan of the hosts gives h to r: h is active, or no host was active when the
\* replica was chosen, or a host of the replica went down between the two scans.
picksActive(r, h) ==
  \/ active[h]
  \/ seen[r] = {}
  \/ \E d \in seen[r] : d[1] = h[1] /\ ~active[d]

\* "Unreachable and unhealthy nodes are skipped": over both levels, replicas
\* and hosts (scope.go:868-870,977-979), a request without a session is sent, and
\* one that got a 502 is moved, to an inactive host only when the whole cluster was
\* inactive, or when a host of the replica went down after the replica was chosen.
\* Then the request gets that inactive host, although other replicas are active.
PicksActive ==
  [][\A r \in Requests :
       /\ session[r] = NoSession /\ GetHost(r) => picksActive(r, host'[r])
       /\ GetNext(r) => picksActive(r, nextHost'[r])]_vars

\* The same of a request with a session, as the comments of getReplicaSticky
\* and getHostSticky say (scope.go:897-899,931-933).
StickyPicksActive ==
  [][\A r \in Requests : GetHostSticky(r) => picksActive(r, host'[r])]_vars

\* The node where a session lives.
home(r) == LET p == session[r] % Replicas IN <<p, session[r] % Nodes[p]>>

\* "if request has session_id, set same host" (scope.go:189): all requests of a
\* session, whichever of them is repicked and however loads and indexes move, are
\* sent to the same node, except those that found it inactive when the replica or
\* when the host was chosen.
SessionHome ==
  [][\A r \in Requests : GetHostSticky(r) =>
       host'[r] = home(r) \/ home(r) \notin seen[r] \/ ~active[home(r)]]_vars

\* The connections that the load balancer sees are those of the requests being
\* served, across retries on other hosts and on the same one (proxy.go:247-255).
LoadExact ==
  \A h \in Hosts : connections[h] =
    Cardinality({r \in Requests : host[r] = h /\ pc[r] \notin outside})

\* When a request is over, no query of it runs that chproxy knows to be running:
\* what may be left lost its connection, with a 502 or in the middle of the response
\* (chproxy takes both for the end of the query and kills nothing), or its KILL
\* QUERY failed.  A query abandoned since the client left or the time is over is
\* killed where it runs (proxy.go:223-228, 326-341).
NothingRuns == \A r \in Requests : pc[r] = "dec" => \A h \in Hosts : query[r][h] # "running"

\* The steps that are left to request r at most: of further attempts, and of the
\* present one.
rank(step) == CASE step = "send" -> 7 [] step = "sent" -> 6 [] step = "returned" -> 5
                [] step = "pick" -> 4 [] step = "getNext" -> 3
                [] step \in {"retry", "kill"} -> 2 [] step = "dec" -> 1 [] step = "idle" -> 0
left(r) == (retryNumber - numRetry[r]) * 7 + rank(pc[r])

\* The loop of executeWithRetry ends (proxy.go:194-260): whatever other requests,
\* heartbeats and penalties do, each step of a request that was admitted leaves
\* it fewer steps to the end, so a 502 is retried retry_number times at most.
BoundedWork ==
  [][\A r \in Requests : pc[r] \notin outside /\ pc'[r] # pc[r] =>
       pc'[r] = "idle" \/ (left(r)' \in Nat /\ left(r)' < left(r))]_vars
=============================================================================
