--------------------------- MODULE DispatchProofs ---------------------------
(***************************************************************************)
(* Requests on their way through a cluster, for any number of requests,    *)
(* replicas and hosts.                                                     *)
(***************************************************************************)
EXTENDS Dispatch, FiniteSetTheorems, WellFoundedInduction, TLAPS

Labels == outside \cup {"send", "sent", "returned", "pick", "getNext", "retry", "kill", "dec"}

\* The functions keep their domains, and what is counted is a number.
Shapes ==
  /\ connections \in [Hosts -> Int]
  /\ pc \in [Requests -> Labels]
  /\ numRetry \in [Requests -> 0..retryNumber]
  /\ DOMAIN host = Requests
  /\ ctx \in [Requests -> {"ok", "canceled", "deadline"}]
  /\ query \in [Requests -> [Hosts -> {"none", "running", "lost", "unkilled"}]]

\* A query that runs is that of the attempt at s.host, which goes on, or was
\* abandoned for a reason that ends in killQuery.
RunsHere ==
  \A r \in Requests : \A h \in Hosts : query[r][h] = "running" =>
    /\ h = host[r]
    /\ pc[r] = "sent" \/ (pc[r] \in {"returned", "kill"} /\ ctx[r] # "ok")

\* The round-robin indexes wrap around, and every host that a request holds is
\* one of the cluster.
Indexes == [replica : 0..(Wrap - 1), hosts : [0..(Replicas - 1) -> 0..(Wrap - 1)]]
Picks ==
  /\ active \in [Hosts -> BOOLEAN]
  /\ penalty \in [Hosts -> 0..MaxPenalty]
  /\ nextIdx \in Indexes
  /\ host \in [Requests -> Hosts]
  /\ nextHost \in [Requests -> Hosts]
  /\ replica \in [Requests -> 0..(Replicas - 1)]
  /\ seen \in [Requests -> SUBSET Hosts]
  /\ status \in [Requests -> {"none", "answer", "badGateway"}]

\* The replica whose hosts are scanned next had an active host when it was chosen,
\* if any had; for a session it is its own if its node was active.
ChosenFor(r) ==
  /\ pc[r] \in {"getHost", "getNext"} => seen[r] = {} \/ \E d \in seen[r] : d[1] = replica[r]
  /\ pc[r] \in {"sticky", "getHostSticky"} => session[r] # NoSession
  /\ pc[r] = "getHostSticky" => (home(r) \in seen[r] => replica[r] = session[r] % Replicas)
Chosen == \A r \in Requests : ChosenFor(r)

DInv == Shapes /\ LoadExact /\ RunsHere /\ Picks /\ Chosen

\* The steps of a request, and those around it.
step(r) == \/ Arrive(r) \/ Repick(r) \/ picking(r) \/ incQueued(r) \/ proxyRequest(r)
           \/ CloseNotify(r) \/ Timeout(r)
around  == \E h \in Hosts : PenaltyExpires(h) \/ \E b \in BOOLEAN : Heartbeat(h, b)

----------------------------------------------------------------------------
(* The state of the requests.                                              *)

\* A counter stays a number, also where it is not a counter of this cluster.
LEMMA Counted ==
  ASSUME NEW f \in [Hosts -> Int], NEW x
  PROVE  /\ [f EXCEPT ![x] = @ + 1] \in [Hosts -> Int]
         /\ [f EXCEPT ![x] = @ - 1] \in [Hosts -> Int]
<1>1. CASE x \in Hosts
  BY <1>1
<1>2. CASE x \notin Hosts
  <2>1. [f EXCEPT ![x] = @ + 1] = f /\ [f EXCEPT ![x] = @ - 1] = f
    BY <1>2, Zenon
  <2> QED  BY <2>1, Zenon
<1> QED  BY <1>1, <1>2, Zenon

\* A step of a request keeps the shapes.
LEMMA ShapesStep ==
  ASSUME Shapes, NEW r \in Requests, step(r)
  PROVE  Shapes'
<1>h. ASSUME NEW x, host' = [host EXCEPT ![r] = x]
      PROVE  DOMAIN host' = Requests
  BY <1>h, Zenon DEF Shapes
<1>n. 0 \in 0..retryNumber
  BY DispatchAssumption
<1> USE DEF Shapes, Labels, outside
<1>1. CASE GetHost(r) \/ GetHostSticky(r) \/ Reject(r)
  <2>1. \E x : host' = [host EXCEPT ![r] = x]
    BY <1>1, Zenon DEF GetHost, GetHostSticky, Reject
  <2>2. DOMAIN host' = Requests
    BY <1>h, <2>1, Zenon
  <2> QED  BY <1>1, <2>2, Zenon DEF GetHost, GetHostSticky, Reject, nodes
<1>0. CASE Arrive(r) \/ Repick(r) \/ GetReplicaSticky(r)
  BY <1>0, Zenon DEF Arrive, Repick, GetReplicaSticky, nodes
<1>2. CASE Admit(r)
  <2>1. connections' \in [Hosts -> Int]
    BY <1>2, Counted, Zenon DEF Admit
  <2> QED  BY <1>2, <2>1, Zenon DEF Admit
<1>3. CASE BodyFails(r) \/ Send(r) \/ Answer(r) \/ Break(r) \/ CutOff(r) \/ Abandon(r)
  <2>1. /\ UNCHANGED <<connections, host, numRetry, ctx>>
        /\ pc' \in [Requests -> Labels]
    BY <1>3, Zenon DEF BodyFails, Send, Answer, Break, CutOff, Abandon, nodes
  <2>2. \/ query' = query
        \/ \E q \in {"running", "none", "lost"} : query' = [query EXCEPT ![r][host[r]] = q]
    BY <1>3, Zenon DEF BodyFails, Send, Answer, Break, CutOff, Abandon
  <2>3. query' \in [Requests -> [Hosts -> {"none", "running", "lost", "unkilled"}]]
    BY <2>2
  <2> QED  BY <2>1, <2>3, Zenon
<1>4. CASE Returned(r) \/ PickNext(r) \/ GetNext(r)
  BY <1>4, Zenon DEF Returned, PickNext, GetNext, nodes
<1>5. CASE Retry(r)
  <2>1. CASE ~mayRetry(r)
    BY <1>5, <2>1, Zenon DEF Retry
  <2>2. CASE mayRetry(r)
    <3>1. numRetry[r] + 1 \in 0..retryNumber /\ numRetry' = [numRetry EXCEPT ![r] = @ + 1]
      BY <1>5, <2>2, DispatchAssumption DEF Retry, mayRetry
    <3>2. connections' \in [Hosts -> Int]
      <4>1. CASE nextHost[r] = host[r]
        BY <1>5, <2>2, <4>1, Zenon DEF Retry
      <4>2. CASE nextHost[r] # host[r]
        <5> DEFINE f == [connections EXCEPT ![host[r]] = @ - 1]
        <5>1. connections' = [f EXCEPT ![nextHost[r]] = @ + 1]
          BY <1>5, <2>2, <4>2 DEF Retry
        <5>2. f \in [Hosts -> Int]
          BY Counted, Zenon
        <5> HIDE DEF f
        <5> QED  BY <5>1, <5>2, Counted, Zenon
      <4> QED  BY <4>1, <4>2, Zenon
    <3>3. DOMAIN host' = Requests
      BY <1>5, <1>h, <2>2, Zenon DEF Retry
    <3> QED  BY <1>5, <2>2, <3>1, <3>2, <3>3, Zenon DEF Retry
  <2> QED  BY <2>1, <2>2, Zenon
<1>6. CASE Kill(r)
  <2>1. \/ query' = [query EXCEPT ![r][host[r]] = "none"]
        \/ query' = [query EXCEPT ![r][host[r]] = IF @ = "none" THEN @ ELSE "unkilled"]
    BY <1>6, Zenon DEF Kill, killQuery
  <2>2. query[r] \in [Hosts -> {"none", "running", "lost", "unkilled"}]
    OBVIOUS
  <2>3. \E q : query' = [query EXCEPT ![r] = q] /\ q \in [Hosts -> {"none", "running", "lost", "unkilled"}]
    <3> DEFINE q == [query[r] EXCEPT ![host[r]] = IF @ = "none" THEN @ ELSE "unkilled"]
    <3>1. q \in [Hosts -> {"none", "running", "lost", "unkilled"}]
      BY <2>2, Zenon
    <3>2. [query[r] EXCEPT ![host[r]] = "none"] \in [Hosts -> {"none", "running", "lost", "unkilled"}]
      BY <2>2, Zenon
    <3> QED  BY <2>1, <3>1, <3>2, Zenon
  <2> QED  BY <1>6, <2>3 DEF Kill
<1>7. CASE Finish(r)
  <2>1. numRetry' \in [Requests -> 0..retryNumber]
    BY <1>7, <1>n, Zenon DEF Finish
  <2>2. DOMAIN host' = Requests
    BY <1>7, <1>h, Zenon DEF Finish
  <2>3. noQuery \in [Hosts -> {"none", "running", "lost", "unkilled"}]
    BY Zenon DEF noQuery
  <2>4. connections' \in [Hosts -> Int]
    BY <1>7, Counted, Zenon DEF Finish
  <2> QED  BY <1>7, <2>1, <2>2, <2>3, <2>4, Zenon DEF Finish
<1>8. CASE CloseNotify(r) \/ Timeout(r)
  BY <1>8, Zenon DEF CloseNotify, Timeout, ContextDone, nodes
<1> QED
  BY <1>0, <1>1, <1>2, <1>3, <1>4, <1>5, <1>6, <1>7, <1>8, Zenon DEF step, picking, incQueued, proxyRequest

\* A step of a request changes nothing of the others.
LEMMA OthersStay ==
  ASSUME Shapes, NEW r \in Requests, step(r), NEW q \in Requests \ {r}
  PROVE  /\ pc'[q] = pc[q] /\ host'[q] = host[q] /\ ctx'[q] = ctx[q] /\ query'[q] = query[q]
         /\ numRetry'[q] = numRetry[q]
<1> USE DEF Shapes
<1>0. CASE Arrive(r) \/ Repick(r) \/ GetHost(r) \/ GetReplicaSticky(r) \/ GetHostSticky(r)
  BY <1>0, Zenon DEF Arrive, Repick, GetHost, GetReplicaSticky, GetHostSticky
<1>1. CASE Reject(r) \/ Admit(r)
  BY <1>1, Zenon DEF Reject, Admit
<1>2. CASE BodyFails(r) \/ Send(r) \/ Answer(r) \/ Break(r) \/ CutOff(r) \/ Abandon(r)
  BY <1>2, Zenon DEF BodyFails, Send, Answer, Break, CutOff, Abandon
<1>3. CASE Returned(r) \/ PickNext(r) \/ GetNext(r) \/ Retry(r)
  BY <1>3, Zenon DEF Returned, PickNext, GetNext, Retry
<1>4. CASE Kill(r) \/ Finish(r)
  BY <1>4, Zenon DEF Kill, killQuery, Finish
<1>5. CASE CloseNotify(r) \/ Timeout(r)
  BY <1>5, Zenon DEF CloseNotify, Timeout, ContextDone
<1> QED  BY <1>0, <1>1, <1>2, <1>3, <1>4, <1>5, Zenon DEF step, picking, incQueued, proxyRequest

----------------------------------------------------------------------------
(* The queries.                                                            *)

\* A running query is followed to its answer or its kill.
LEMMA RunsHereStep ==
  ASSUME Shapes, RunsHere, NEW r \in Requests, step(r)
  PROVE  RunsHere'
<1> DEFINE Here(h) == query[r][h] = "running" =>
             /\ h = host[r]
             /\ pc[r] = "sent" \/ (pc[r] \in {"returned", "kill"} /\ ctx[r] # "ok")
<1>1. \A h \in Hosts : Here(h)
  BY Zenon DEF RunsHere
<1>2. ASSUME NEW h \in Hosts  PROVE Here(h)'
  <2> USE DEF Shapes
  <2>0. CASE Arrive(r) \/ Repick(r) \/ GetHost(r) \/ GetReplicaSticky(r) \/ GetHostSticky(r)
    BY <1>1, <2>0, Zenon DEF Arrive, Repick, GetHost, GetReplicaSticky, GetHostSticky
  <2>1. CASE Reject(r) \/ Admit(r) \/ BodyFails(r)
    BY <1>1, <2>1, Zenon DEF Reject, Admit, BodyFails
  <2>2. CASE Send(r) \/ Answer(r) \/ Break(r) \/ CutOff(r) \/ Abandon(r)
    BY <1>1, <2>2 DEF Send, Answer, Break, CutOff, Abandon
  <2>3. CASE Returned(r) \/ PickNext(r) \/ GetNext(r) \/ Retry(r)
    BY <1>1, <2>3, Zenon DEF Returned, PickNext, GetNext, Retry
  <2>4. CASE Kill(r) \/ Finish(r)
    BY <1>1, <2>4 DEF Kill, killQuery, Finish, noQuery
  <2>5. CASE CloseNotify(r) \/ Timeout(r)
    BY <1>1, <2>5, Zenon DEF CloseNotify, Timeout, ContextDone
  <2> QED  BY <2>0, <2>1, <2>2, <2>3, <2>4, <2>5, Zenon DEF step, picking, incQueued, proxyRequest
<1> QED  BY <1>2, OthersStay DEF RunsHere

----------------------------------------------------------------------------
(* The connections.                                                        *)

\* The requests that host h serves.
held(h) == {r \in Requests : host[r] = h /\ pc[r] \notin outside}

\* One request more, one request less.
LEMMA HeldChange ==
  ASSUME NEW S \in SUBSET Requests, NEW r \in Requests
  PROVE  /\ Cardinality(S) \in Nat
         /\ r \notin S => Cardinality(S \cup {r}) = Cardinality(S) + 1
         /\ r \in S => Cardinality(S \ {r}) = Cardinality(S) - 1
<1>1. IsFiniteSet(S)
  BY FS_Subset, DispatchAssumption, Zenon
<1> QED  BY <1>1, FS_CardinalityType, FS_AddElement, FS_RemoveElement, Zenon

\* The counter of host h follows its set of requests.
LEMMA LoadStep ==
  ASSUME Shapes, LoadExact, NEW r \in Requests, step(r)
  PROVE  LoadExact'
<1>0. ASSUME NEW h \in Hosts
      PROVE  /\ connections[h] = Cardinality(held(h)) /\ held(h) \in SUBSET Requests
             /\ Cardinality(held(h)) \in Nat
  BY HeldChange, Zenon DEF LoadExact, held
<1> SUFFICES ASSUME NEW h \in Hosts  PROVE connections'[h] = Cardinality(held(h)')
  BY Zenon DEF LoadExact, held
<1> DEFINE Same == connections'[h] = connections[h] /\ held(h)' = held(h)
           More == /\ connections'[h] = connections[h] + 1
                   /\ r \notin held(h) /\ held(h)' = held(h) \cup {r}
           Less == /\ connections'[h] = connections[h] - 1
                   /\ r \in held(h) /\ held(h)' = held(h) \ {r}
<1> SUFFICES Same \/ More \/ Less
  BY <1>0, HeldChange
<1>1. \A q \in Requests \ {r} : pc'[q] = pc[q] /\ host'[q] = host[q]
  BY OthersStay, Zenon
<1>2. connections \in [Hosts -> Int]
  BY Zenon DEF Shapes
<1>3. pc \in [Requests -> Labels] /\ DOMAIN host = Requests
  BY Zenon DEF Shapes
<1> USE DEF outside
<1>4. CASE Admit(r)
  <2>1. /\ pc[r] = "queued" /\ pc'[r] = "send" /\ host' = host
        /\ connections' = [connections EXCEPT ![host[r]] = @ + 1]
    BY <1>3, <1>4, Zenon DEF Admit
  <2>2. CASE host[r] = h
    <3>1. More
      BY <1>1, <1>2, <2>1, <2>2, Zenon DEF held
    <3> QED  BY <3>1, Zenon
  <2>3. CASE host[r] # h
    <3>1. Same
      BY <1>1, <1>2, <2>1, <2>3, Zenon DEF held
    <3> QED  BY <3>1, Zenon
  <2> QED  BY <2>2, <2>3, Zenon
<1>5. CASE Finish(r)
  <2>1. /\ pc[r] = "dec" /\ pc'[r] = "idle"
        /\ connections' = [connections EXCEPT ![host[r]] = @ - 1]
    BY <1>3, <1>5, Zenon DEF Finish
  <2>2. CASE host[r] = h
    <3>1. Less
      BY <1>1, <1>2, <2>1, <2>2, Zenon DEF held
    <3> QED  BY <3>1, Zenon
  <2>3. CASE host[r] # h
    <3>1. Same
      BY <1>1, <1>2, <2>1, <2>3, Zenon DEF held
    <3> QED  BY <3>1, Zenon
  <2> QED  BY <2>2, <2>3, Zenon
<1>6. CASE Retry(r) /\ host'[r] # host[r]
  <2>1. /\ pc[r] = "retry" /\ pc'[r] = "send" /\ host'[r] = nextHost[r]
        /\ connections' = [connections EXCEPT ![host[r]] = @ - 1, ![nextHost[r]] = @ + 1]
    BY <1>3, <1>6, Zenon DEF Retry
  <2>2. CASE host[r] = h
    <3>1. Less
      BY <1>1, <1>2, <1>6, <2>1, <2>2, Zenon DEF held
    <3> QED  BY <3>1, Zenon
  <2>3. CASE nextHost[r] = h
    <3>1. More
      BY <1>1, <1>2, <1>6, <2>1, <2>3, Zenon DEF held
    <3> QED  BY <3>1, Zenon
  <2>4. CASE host[r] # h /\ nextHost[r] # h
    <3>1. Same
      BY <1>1, <1>2, <2>1, <2>4, Zenon DEF held
    <3> QED  BY <3>1, Zenon
  <2> QED  BY <2>2, <2>3, <2>4, Zenon
<1>7. CASE Retry(r) /\ host'[r] = host[r]
  <2>1. /\ pc[r] = "retry" /\ pc'[r] \in {"send", "dec"} /\ connections' = connections
    BY <1>3, <1>7, Zenon DEF Retry
  <2>2. Same
    BY <1>1, <1>7, <2>1, Zenon DEF held
  <2> QED  BY <2>2, Zenon
<1>8. CASE \/ Arrive(r) \/ Repick(r) \/ Reject(r)
           \/ GetHost(r) \/ GetReplicaSticky(r) \/ GetHostSticky(r)
  <2>1. pc[r] \in outside /\ pc'[r] \in outside /\ connections' = connections
    BY <1>3, <1>8, Zenon DEF Arrive, Repick, Reject, GetHost, GetReplicaSticky, GetHostSticky, nodes
  <2>2. Same
    BY <1>1, <2>1, Zenon DEF held
  <2> QED  BY <2>2, Zenon
<1>9. CASE \/ BodyFails(r) \/ Send(r) \/ Answer(r) \/ Break(r) \/ CutOff(r) \/ Abandon(r)
           \/ Returned(r) \/ PickNext(r) \/ GetNext(r) \/ Kill(r) \/ CloseNotify(r) \/ Timeout(r)
  <2>1. /\ pc[r] \notin outside /\ pc'[r] \notin outside
        /\ connections' = connections /\ host' = host
    BY <1>3, <1>9, Zenon DEF BodyFails, Send, Answer, Break, CutOff, Abandon, Returned, PickNext, GetNext,
                      Kill, CloseNotify, Timeout, ContextDone, nodes
  <2>2. Same
    BY <1>1, <2>1, Zenon DEF held
  <2> QED  BY <2>2, Zenon
<1> HIDE DEF Same, More, Less
<1> QED
  BY <1>4, <1>5, <1>6, <1>7, <1>8, <1>9, Zenon DEF step, picking, incQueued, proxyRequest

----------------------------------------------------------------------------
(* Numbers, and the scan of the balancer.                                  *)

\* A set of natural numbers has a least one.
LEMMA LeastNumber ==
  ASSUME NEW T \in SUBSET Nat, T # {}
  PROVE  \E x \in T : \A y \in T : x <= y
<1>1. PICK x \in T : \A y \in T : ~(<<y, x>> \in OpToRel(<, Nat))
  BY NatLessThanWellFounded, WFMin, Zenon
<1>2. ASSUME NEW y \in T  PROVE x <= y
  <2>1. ~(<<y, x>> \in {ss \in Nat \X Nat : ss[1] < ss[2]})
    BY <1>1 DEF OpToRel
  <2> QED  BY <2>1
<1> QED  BY <1>2

\* What holds of no least counterexample holds of every number of 0..n.
LEMMA NoLeast ==
  ASSUME NEW n \in Nat, NEW B \in SUBSET (0..n),
         \A m \in B : \E i \in 0..(m - 1) : i \in B
  PROVE  B = {}
<1> SUFFICES ASSUME B # {}  PROVE FALSE
  OBVIOUS
<1>1. PICK m \in B : \A i \in B : m <= i
  BY LeastNumber
<1>2. PICK i \in 0..(m - 1) : i \in B
  BY <1>1
<1> QED  BY <1>1, <1>2

\* The sum of natural numbers is one.
LEMMA SumType ==
  ASSUME NEW n \in Nat, NEW w \in [0..(n - 1) -> Nat]
  PROVE  sumOf(w, n) \in Nat
<1> DEFINE Sums(g, m) == g \in [0..m -> Nat] /\ \A i \in 0..m : g[i] = IF i = 0 THEN 0 ELSE g[i - 1] + w[i - 1]
           Without == {m \in 0..n : ~\E g : Sums(g, m)}
           Def(g) == g = [i \in 0..n |-> IF i = 0 THEN 0 ELSE g[i - 1] + w[i - 1]]
           sum == CHOOSE g : Def(g)
           Bad == {i \in 0..n : sum[i] \notin Nat}
<1>1. Without = {}
  <2>1. ASSUME NEW m \in Without  PROVE \E i \in 0..(m - 1) : i \in Without
    <3>1. m # 0
      <4>1. Sums([i \in 0..0 |-> 0], 0)
        OBVIOUS
      <4> QED  BY <4>1, <2>1, Zenon
    <3>2. m \in 0..n /\ m - 1 \in 0..n /\ m - 1 \in 0..(m - 1) /\ m \in Nat /\ m > 0
      BY <2>1, <3>1
    <3>3. ASSUME NEW g, Sums(g, m - 1)  PROVE FALSE
      <4>1. PICK h : h = [i \in 0..m |-> IF i = m THEN g[m - 1] + w[m - 1] ELSE g[i]]
        BY Zenon
      <4>2. g[m - 1] \in Nat /\ w[m - 1] \in Nat
        BY <3>2, <3>3
      <4>3. h \in [0..m -> Nat]
        BY <3>2, <3>3, <4>1, <4>2
      <4>4. ASSUME NEW i \in 0..m  PROVE h[i] = IF i = 0 THEN 0 ELSE h[i - 1] + w[i - 1]
        <5>1. CASE i = m
          BY <3>2, <4>1, <5>1
        <5>2. CASE i # m
          <6>1. i \in 0..(m - 1) /\ (i = 0 \/ i - 1 \in 0..(m - 1))
            BY <3>2, <5>2
          <6>2. h[i] = g[i] /\ (i = 0 \/ h[i - 1] = g[i - 1])
            BY <3>2, <4>1, <5>2, <6>1
          <6>3. g[i] = IF i = 0 THEN 0 ELSE g[i - 1] + w[i - 1]
            BY <3>3, <6>1
          <6> QED  BY <6>2, <6>3
        <5> QED  BY <5>1, <5>2
      <4> QED  BY <2>1, <4>3, <4>4, Zenon
    <3>4. m - 1 \in Without
      <4> HIDE DEF Sums
      <4> QED  BY <3>2, <3>3, Zenon
    <3> HIDE DEF Without
    <3> QED  BY <3>2, <3>4, Zenon
  <2> HIDE DEF Without
  <2>2. Without \in SUBSET (0..n)
    BY DEF Without
  <2> QED  BY <2>1, <2>2, NoLeast, Zenon
<1>2. Def(sum)
  <2>1. PICK g : Sums(g, n)
    <3>1. n \in 0..n
      OBVIOUS
    <3> HIDE DEF Sums
    <3> QED  BY <1>1, <3>1, Zenon
  <2>2. Def(g)
    BY <2>1
  <2> HIDE DEF Def
  <2> QED  BY <2>2
<1>3. Bad = {}
  <2>1. ASSUME NEW m \in Bad  PROVE \E i \in 0..(m - 1) : i \in Bad
    <3> HIDE DEF sum
    <3>1. m \in 0..n /\ sum[m] = IF m = 0 THEN 0 ELSE sum[m - 1] + w[m - 1]
      BY <1>2
    <3>2. m # 0
      BY <2>1, <3>1
    <3>3. m - 1 \in 0..(m - 1) /\ m - 1 \in 0..n /\ w[m - 1] \in Nat
      BY <3>1, <3>2
    <3>4. sum[m - 1] \notin Nat
      BY <2>1, <3>1, <3>2, <3>3
    <3> QED  BY <3>3, <3>4
  <2> HIDE DEF Bad
  <2>2. Bad \in SUBSET (0..n)
    BY DEF Bad
  <2> QED  BY <2>1, <2>2, NoLeast, Zenon
<1>4. sum[n] \in Nat
  BY <1>3
<1> QED  BY <1>4, Zenon DEF sumOf

\* The positions of a scan visit every item.
LEMMA ScanVisits ==
  ASSUME NEW n \in Nat \ {0}, NEW first \in 0..(n - 1)
  PROVE  /\ \A j \in Nat : at(first, j, n) \in 0..(n - 1)
         /\ \A k \in 0..(n - 1) : \E j \in 0..(n - 1) : at(first, j, n) = k
<1>1. ASSUME NEW j \in Nat  PROVE at(first, j, n) \in 0..(n - 1)
  BY DEF at
<1>2. ASSUME NEW k \in 0..(n - 1)  PROVE \E j \in 0..(n - 1) : at(first, j, n) = k
  <2>1. k % n = k /\ (k + n) % n = k % n
    OBVIOUS
  <2>2. CASE k >= first
    <3>1. k - first \in 0..(n - 1) /\ first + (k - first) = k
      BY <2>2
    <3> QED  BY <2>1, <3>1 DEF at
  <2>3. CASE k < first
    <3>1. k - first + n \in 0..(n - 1) /\ first + (k - first + n) = k + n
      BY <2>3
    <3> QED  BY <2>1, <3>1 DEF at
  <2> QED  BY <2>2, <2>3
<1> QED  BY <1>1, <1>2

\* There is always an item to choose: of the active items with the least load the
\* first one, or the starting item.
LEMMA LeastLoadedExists ==
  ASSUME NEW n \in Nat \ {0}, NEW first \in 0..(n - 1), NEW up, NEW l,
         \A i \in 0..(n - 1) : l[i] \in Nat
  PROVE  \E k \in 0..(n - 1) : isLeastLoaded(k, first, n, up, l)
<1> DEFINE item(j) == at(first, j, n)
           J == {j \in 0..(n - 1) : up[item(j)]}
           L == {l[item(j)] : j \in J}
<1>0. \A j \in 0..(n - 1) : item(j) \in 0..(n - 1)
  BY ScanVisits
<1>1. CASE J = {}
  <2>1. \A i \in 0..(n - 1) : ~up[i]
    BY <1>1, ScanVisits, Zenon
  <2> QED  BY <2>1, Zenon DEF isLeastLoaded
<1>2. CASE J # {}
  <2> HIDE DEF item
  <2>1. L \in SUBSET Nat /\ L # {}
    BY <1>0, <1>2
  <2>2. PICK v \in L : \A y \in L : v <= y
    BY <2>1, LeastNumber, Zenon
  <2> DEFINE M == {j \in J : l[item(j)] = v}
  <2>3. M \in SUBSET Nat /\ M # {}
    BY <2>2
  <2>4. PICK j \in M : \A m \in M : j <= m
    BY <2>3, LeastNumber, Zenon
  <2>5. j \in J /\ j \in 0..(n - 1) /\ l[item(j)] = v /\ up[item(j)]
    BY <2>4
  <2>6. ASSUME NEW m \in 0..(n - 1), up[item(m)]
        PROVE  l[item(j)] <= l[item(m)] /\ (m < j => l[item(j)] < l[item(m)])
    <3>1. m \in J /\ l[item(m)] \in Nat /\ v <= l[item(m)] /\ v \in Nat
      BY <1>0, <2>1, <2>2, <2>6
    <3>2. m < j => l[item(m)] # v
      BY <2>4, <2>5, <3>1
    <3> QED  BY <2>5, <3>1, <3>2
  <2>7. isLeastLoaded(item(j), first, n, up, l)
    BY <2>5, <2>6, Zenon DEF isLeastLoaded, item
  <2> QED  BY <1>0, <2>5, <2>7
<1> QED  BY <1>1, <1>2

\* The item that is chosen is active unless none is.
LEMMA LeastLoadedActive ==
  ASSUME NEW k, NEW first, NEW n, NEW up, NEW l, isLeastLoaded(k, first, n, up, l)
  PROVE  up[k] \/ \A i \in 0..(n - 1) : ~up[i]
BY Zenon DEF isLeastLoaded

----------------------------------------------------------------------------
(* The host that is picked.                                                *)

\* The balancer compares natural numbers.
Loads == connections \in [Hosts -> Nat] /\ penalty \in [Hosts -> 0..MaxPenalty]

\* A host is the k-th one of replica i.
LEMMA HostOf ==
  /\ \A i \in 0..(Replicas - 1) : \A k \in hostsOf(i) : <<i, k>> \in Hosts
  /\ \A h \in Hosts : \E i \in 0..(Replicas - 1) : \E k \in hostsOf(i) : h = <<i, k>>
  /\ anyHost \in Hosts
<1>1. \A i \in 0..(Replicas - 1) : \A k \in hostsOf(i) : <<i, k>> \in Hosts
  BY DEF Hosts
<1>2. \A h \in Hosts : \E i \in 0..(Replicas - 1) : \E k \in hostsOf(i) : h = <<i, k>>
  BY DEF Hosts
<1>3. 0 \in 0..(Replicas - 1) /\ 0 \in hostsOf(0)
  BY DispatchAssumption DEF hostsOf
<1>4. \E h : h \in Hosts
  BY <1>1, <1>3, Zenon
<1> QED  BY <1>1, <1>2, <1>4, Zenon DEF anyHost

\* CurrentLoad and replica.load are natural numbers.
LEMMA LoadType ==
  ASSUME Loads, NEW i \in 0..(Replicas - 1)
  PROVE  /\ \A k \in hostsOf(i) : CurrentLoad(<<i, k>>) \in Nat
         /\ load[i] \in Nat
<1>1. ASSUME NEW k \in hostsOf(i)  PROVE CurrentLoad(<<i, k>>) \in Nat
  <2>1. <<i, k>> \in Hosts
    BY HostOf, Zenon
  <2>2. connections[<<i, k>>] \in Nat /\ penalty[<<i, k>>] \in Nat
    BY <2>1, DispatchAssumption DEF Loads
  <2> QED  BY <2>2 DEF CurrentLoad
<1> DEFINE w == [k \in hostsOf(i) |-> CurrentLoad(<<i, k>>)]
<1>2. Nodes[i] \in Nat /\ w \in [0..(Nodes[i] - 1) -> Nat]
  BY <1>1, DispatchAssumption DEF hostsOf
<1>3. sumOf(w, Nodes[i]) \in Nat
  <2> HIDE DEF w
  <2> QED  BY <1>2, SumType, Zenon
<1> QED  BY <1>1, <1>3, Zenon DEF load

\* getReplica returns a replica, and an inactive one only if all are.
LEMMA ReplicaPick ==
  ASSUME Loads, NEW idx \in Nat
  PROVE  /\ getReplica(idx) \in 0..(Replicas - 1)
         /\ isActive[getReplica(idx)] \/ \A i \in 0..(Replicas - 1) : ~isActive[i]
<1>1. Replicas \in Nat \ {0}
  BY DispatchAssumption, Zenon
<1>2. CASE Replicas = 1
  <2>1. getReplica(idx) = 0
    BY <1>2, Zenon DEF getReplica
  <2>2. 0..(Replicas - 1) = {0}
    BY <1>2
  <2> QED  BY <2>1, <2>2, Zenon
<1>3. CASE Replicas # 1
  <2> DEFINE first == idx % Replicas
             chosen(i) == isLeastLoaded(i, first, Replicas, isActive, load)
  <2>1. first \in 0..(Replicas - 1)
    BY <1>1
  <2>2. \A i \in 0..(Replicas - 1) : load[i] \in Nat
    BY LoadType, Zenon
  <2> HIDE DEF first
  <2>3. \E i \in 0..(Replicas - 1) : chosen(i)
    BY <1>1, <2>1, <2>2, LeastLoadedExists, Zenon
  <2>4. getReplica(idx) = CHOOSE i \in 0..(Replicas - 1) : chosen(i)
    BY <1>3, Zenon DEF getReplica, first
  <2>5. getReplica(idx) \in 0..(Replicas - 1) /\ chosen(getReplica(idx))
    <3> HIDE DEF chosen
    <3> QED  BY <2>3, <2>4, Zenon
  <2> QED  BY <2>5, LeastLoadedActive, Zenon
<1> QED  BY <1>2, <1>3, Zenon

\* The same of the hosts of a replica.
LEMMA NodePick ==
  ASSUME Loads, NEW idx \in Nat, NEW i \in 0..(Replicas - 1)
  PROVE  /\ replicaGetHost(i, idx) \in hostsOf(i)
         /\ \/ active[<<i, replicaGetHost(i, idx)>>]
            \/ \A k \in hostsOf(i) : ~active[<<i, k>>]
<1> DEFINE n == Nodes[i]
<1>1. n \in Nat \ {0} /\ hostsOf(i) = 0..(n - 1)
  BY DispatchAssumption DEF hostsOf
<1>2. CASE n = 1
  <2>1. replicaGetHost(i, idx) = 0
    BY <1>2, Zenon DEF replicaGetHost
  <2>2. hostsOf(i) = {0}
    BY <1>1, <1>2
  <2> QED  BY <2>1, <2>2, Zenon
<1>3. CASE n # 1
  <2> DEFINE first == idx % n
             up == [k \in hostsOf(i) |-> active[<<i, k>>]]
             l  == [k \in hostsOf(i) |-> CurrentLoad(<<i, k>>)]
             chosen(k) == isLeastLoaded(k, first, n, up, l)
  <2>1. first \in 0..(n - 1)
    BY <1>1
  <2>2. \A k \in 0..(n - 1) : l[k] \in Nat
    BY <1>1, LoadType, Zenon
  <2>3. replicaGetHost(i, idx) = CHOOSE k \in hostsOf(i) : chosen(k)
    BY <1>3, Zenon DEF replicaGetHost
  <2>4. \A k \in 0..(n - 1) : up[k] = active[<<i, k>>]
    BY <1>1, Zenon
  <2> HIDE DEF n, first, up, l
  <2>5. \E k \in 0..(n - 1) : chosen(k)
    BY <1>1, <2>1, <2>2, LeastLoadedExists, Zenon
  <2>6. replicaGetHost(i, idx) \in 0..(n - 1) /\ chosen(replicaGetHost(i, idx))
    <3> HIDE DEF chosen
    <3> QED  BY <1>1, <2>3, <2>5, Zenon
  <2>7. up[replicaGetHost(i, idx)] \/ \A k \in 0..(n - 1) : ~up[k]
    BY <2>6, LeastLoadedActive, Zenon
  <2> QED  BY <1>1, <2>4, <2>6, <2>7, Zenon
<1> QED  BY <1>2, <1>3, Zenon

\* Every index that is taken from nextIdx is a number, and goes on from there.
LEMMA IndexType ==
  ASSUME nextIdx \in Indexes, NEW i \in 0..(Replicas - 1)
  PROVE  /\ replicaIdx \in Nat /\ hostIdx(i) \in Nat
         /\ [nextIdx EXCEPT !.replica = replicaIdx] \in Indexes
         /\ [nextIdx EXCEPT !.hosts[i] = hostIdx(i)] \in Indexes
<1>1. nextIdx.replica \in 0..(Wrap - 1) /\ nextIdx.hosts \in [0..(Replicas - 1) -> 0..(Wrap - 1)]
  BY Zenon DEF Indexes
<1>2. nextIdx.hosts[i] \in 0..(Wrap - 1) /\ Wrap \in Nat \ {0}
  BY <1>1, DispatchAssumption, Zenon
<1>3. ASSUME NEW y \in 0..(Wrap - 1), NEW n  PROVE bumped(y, n) \in 0..(Wrap - 1)
  BY <1>2 DEF bumped
<1>4. replicaIdx \in 0..(Wrap - 1) /\ hostIdx(i) \in 0..(Wrap - 1)
  BY <1>1, <1>2, <1>3, Zenon DEF replicaIdx, hostIdx
<1>5. replicaIdx \in Nat /\ hostIdx(i) \in Nat
  BY <1>4
<1>6. [nextIdx EXCEPT !.replica = replicaIdx] \in Indexes
  BY <1>4 DEF Indexes
<1>7. [nextIdx EXCEPT !.hosts[i] = hostIdx(i)] \in Indexes
  BY <1>1, <1>4, Zenon DEF Indexes
<1> QED  BY <1>5, <1>6, <1>7, Zenon

\* The replica that r is sent to, and what it saw.
LEMMA ScanType ==
  ASSUME Picks, NEW r \in Requests, NEW i \in 0..(Replicas - 1), scanReplica(r, i)
  PROVE  /\ nextIdx' \in Indexes
         /\ replica' \in [Requests -> 0..(Replicas - 1)] /\ replica'[r] = i
         /\ seen' \in [Requests -> SUBSET Hosts] /\ seen'[r] = {h \in Hosts : active[h]}
<1>1. nextIdx' \in Indexes
  BY IndexType, Zenon DEF Picks, scanReplica
<1>2. {h \in Hosts : active[h]} \in SUBSET Hosts
  BY Zenon
<1> QED  BY <1>1, <1>2, Zenon DEF Picks, scanReplica

\* getReplica: the replica had an active host, if any had.
LEMMA ReplicaScan ==
  ASSUME Loads, Picks, NEW r \in Requests, chooseReplica(r)
  PROVE  /\ nextIdx' \in Indexes
         /\ replica' \in [Requests -> 0..(Replicas - 1)]
         /\ seen' \in [Requests -> SUBSET Hosts]
         /\ seen'[r] = {} \/ \E d \in seen'[r] : d[1] = replica'[r]
<1> DEFINE i == getReplica(replicaIdx)
<1>1. 0 \in 0..(Replicas - 1)
  BY DispatchAssumption
<1>2. replicaIdx \in Nat
  BY <1>1, IndexType, Zenon DEF Picks
<1>3. i \in 0..(Replicas - 1) /\ (isActive[i] \/ \A j \in 0..(Replicas - 1) : ~isActive[j])
  BY <1>2, ReplicaPick, Zenon
<1>4. scanReplica(r, i)
  BY Zenon DEF chooseReplica
<1> HIDE DEF i
<1>5. /\ nextIdx' \in Indexes
      /\ replica' \in [Requests -> 0..(Replicas - 1)] /\ replica'[r] = i
      /\ seen' \in [Requests -> SUBSET Hosts] /\ seen'[r] = {h \in Hosts : active[h]}
  BY <1>3, <1>4, ScanType, Zenon
<1>6. CASE isActive[i]
  <2>1. PICK k \in hostsOf(i) : active[<<i, k>>]
    BY <1>3, <1>6, Zenon DEF isActive
  <2>2. <<i, k>> \in Hosts /\ <<i, k>>[1] = i
    BY <1>3, HostOf
  <2>3. <<i, k>> \in seen'[r]
    BY <1>5, <2>1, <2>2, Zenon
  <2> QED  BY <1>5, <2>2, <2>3, Zenon
<1>7. CASE \A j \in 0..(Replicas - 1) : ~isActive[j]
  <2>1. ASSUME NEW h \in Hosts, active[h]  PROVE FALSE
    <3>1. PICK j \in 0..(Replicas - 1) : \E m \in hostsOf(j) : h = <<j, m>>
      BY HostOf, Zenon
    <3> QED  BY <1>7, <2>1, <3>1, Zenon DEF isActive
  <2> QED  BY <1>5, <2>1, Zenon
<1> QED  BY <1>3, <1>6, <1>7, Zenon

\* The node of a session is one of the cluster.
LEMMA HomeType ==
  ASSUME NEW r \in Requests, session[r] \in Nat
  PROVE  /\ session[r] % Replicas \in 0..(Replicas - 1)
         /\ session[r] % Nodes[session[r] % Replicas] \in hostsOf(session[r] % Replicas)
         /\ home(r) = <<session[r] % Replicas, session[r] % Nodes[session[r] % Replicas]>>
<1>0. ASSUME NEW n \in Nat \ {0}, NEW y \in Nat  PROVE y % n \in 0..(n - 1)
  OBVIOUS
<1> DEFINE i == session[r] % Replicas
<1>1. i \in 0..(Replicas - 1)
  BY <1>0, DispatchAssumption, Zenon
<1>2. home(r) = <<i, session[r] % Nodes[i]>>
  BY Zenon DEF home
<1> HIDE DEF i
<1>3. Nodes[i] \in Nat \ {0}
  BY <1>1, DispatchAssumption, Zenon
<1>4. session[r] % Nodes[i] \in hostsOf(i)
  BY <1>0, <1>3, Zenon DEF hostsOf
<1> QED  BY <1>1, <1>2, <1>4, Zenon DEF i

\* getReplicaSticky: the replica of the session, if its node is active.
LEMMA StickyScan ==
  ASSUME Picks, NEW r \in Requests, session[r] \in Nat, chooseReplicaSticky(r)
  PROVE  /\ nextIdx' \in Indexes
         /\ replica' \in [Requests -> 0..(Replicas - 1)]
         /\ seen' \in [Requests -> SUBSET Hosts]
         /\ home(r) \in seen'[r] => replica'[r] = session[r] % Replicas
<1> DEFINE p == session[r] % Replicas
           i == getReplicaSticky(session[r], replicaIdx)
<1>0. ASSUME NEW n \in Nat \ {0}, NEW y \in Nat  PROVE y % n \in 0..(n - 1)
  OBVIOUS
<1>1. p \in 0..(Replicas - 1) /\ session[r] % Nodes[p] \in hostsOf(p) /\ home(r) = <<p, session[r] % Nodes[p]>>
  BY HomeType, Zenon
<1>2. replicaIdx \in Nat
  BY <1>1, IndexType, Zenon DEF Picks
<1>3. i \in 0..(Replicas - 1)
  BY <1>0, <1>1, <1>2, DispatchAssumption, Zenon DEF getReplicaSticky
<1>4. scanReplica(r, i)
  BY Zenon DEF chooseReplicaSticky
<1>5. isActive[p] => i = p
  <2>1. CASE Replicas = 1
    <3>1. 0..(Replicas - 1) = {0}
      BY <2>1
    <3> QED  BY <1>1, <1>3, <3>1, Zenon
  <2>2. CASE Replicas # 1
    <3>1. Replicas > 1
      BY <2>2, DispatchAssumption
    <3> QED  BY <3>1, Zenon DEF getReplicaSticky
  <2> QED  BY <2>1, <2>2, Zenon
<1> HIDE DEF i, p
<1>6. /\ nextIdx' \in Indexes
      /\ replica' \in [Requests -> 0..(Replicas - 1)] /\ replica'[r] = i
      /\ seen' \in [Requests -> SUBSET Hosts] /\ seen'[r] = {h \in Hosts : active[h]}
  BY <1>3, <1>4, ScanType, Zenon
<1>7. home(r) \in seen'[r] => isActive[p]
  BY <1>1, <1>6, Zenon DEF isActive
<1> QED  BY <1>5, <1>6, <1>7, Zenon DEF p

\* replica.getHost returns a host of the replica, an inactive one only if all are.
LEMMA HostGiven ==
  ASSUME Loads, Picks, NEW r \in Requests
  PROVE  /\ givenHost(r) \in Hosts /\ givenHost(r)[1] = replica[r]
         /\ active[givenHost(r)] \/ \A h \in Hosts : h[1] = replica[r] => ~active[h]
<1> DEFINE i == replica[r]
           k == replicaGetHost(i, hostIdx(i))
<1>1. i \in 0..(Replicas - 1)
  BY Zenon DEF Picks
<1>2. givenHost(r) = <<i, k>>
  BY Zenon DEF givenHost
<1> HIDE DEF i
<1>3. hostIdx(i) \in Nat
  BY <1>1, IndexType, Zenon DEF Picks
<1>4. k \in hostsOf(i) /\ (active[<<i, k>>] \/ \A m \in hostsOf(i) : ~active[<<i, m>>])
  BY <1>1, <1>3, NodePick, Zenon
<1> HIDE DEF k
<1>5. <<i, k>> \in Hosts /\ <<i, k>>[1] = i
  BY <1>1, <1>4, HostOf
<1>6. ASSUME \A m \in hostsOf(i) : ~active[<<i, m>>], NEW h \in Hosts, h[1] = i  PROVE ~active[h]
  <2>1. PICK j \in 0..(Replicas - 1) : \E m \in hostsOf(j) : h = <<j, m>>
    BY HostOf, Zenon
  <2>2. PICK m \in hostsOf(j) : h = <<j, m>>
    BY <2>1
  <2>3. j = i
    BY <1>6, <2>2
  <2> QED  BY <1>6, <2>2, <2>3, Zenon
<1> QED  BY <1>2, <1>4, <1>5, <1>6, Zenon DEF i

\* replica.getHostSticky returns a host of the replica, the node of the session if it
\* is active and the replica is the right one.
LEMMA StickyGiven ==
  ASSUME Picks, NEW r \in Requests, session[r] \in Nat
  PROVE  /\ givenSticky(r) \in Hosts
         /\ replica[r] = session[r] % Replicas /\ active[home(r)] => givenSticky(r) = home(r)
<1> DEFINE i == replica[r]
           k == replicaGetHostSticky(i, session[r], hostIdx(i))
<1>0. ASSUME NEW n \in Nat \ {0}, NEW y \in Nat  PROVE y % n \in 0..(n - 1)
  OBVIOUS
<1>1. i \in 0..(Replicas - 1)
  BY Zenon DEF Picks
<1>2. givenSticky(r) = <<i, k>>
  BY Zenon DEF givenSticky
<1>3. hostIdx(i) \in Nat
  BY <1>1, IndexType, Zenon DEF Picks
<1>4. Nodes[i] \in Nat \ {0} /\ hostsOf(i) = 0..(Nodes[i] - 1)
  BY <1>1, DispatchAssumption, Zenon DEF hostsOf
<1>5. k \in hostsOf(i) /\ session[r] % Nodes[i] \in hostsOf(i)
  BY <1>0, <1>3, <1>4, Zenon DEF replicaGetHostSticky
<1>6. ASSUME active[<<i, session[r] % Nodes[i]>>]  PROVE k = session[r] % Nodes[i]
  <2>1. CASE Nodes[i] = 1
    <3>1. hostsOf(i) = {0}
      BY <1>4, <2>1
    <3> QED  BY <1>5, <3>1, Zenon
  <2>2. CASE Nodes[i] # 1
    <3>1. Nodes[i] > 1
      BY <1>4, <2>2
    <3> QED  BY <1>6, <3>1, Zenon DEF replicaGetHostSticky
  <2> QED  BY <2>1, <2>2, Zenon
<1> HIDE DEF k
<1>7. i = session[r] % Replicas => home(r) = <<i, session[r] % Nodes[i]>>
  BY HomeType, Zenon
<1> HIDE DEF i
<1> QED  BY <1>1, <1>2, <1>5, <1>6, <1>7, HostOf, Zenon DEF i

\* After a pick the request has no replica, and the index of the hosts goes on.
LEMMA PickEnds ==
  ASSUME Picks, NEW r \in Requests, endPick(r)
  PROVE  /\ nextIdx' \in Indexes
         /\ replica' \in [Requests -> 0..(Replicas - 1)]
         /\ seen' \in [Requests -> SUBSET Hosts]
<1>1. 0 \in 0..(Replicas - 1)
  BY DispatchAssumption
<1>2. replica[r] \in 0..(Replicas - 1)
  BY Zenon DEF Picks
<1>3. nextIdx' \in Indexes
  BY <1>2, IndexType, Zenon DEF Picks, endPick
<1>4. {} \in SUBSET Hosts
  BY Zenon
<1> QED  BY <1>1, <1>3, <1>4, Zenon DEF Picks, endPick

\* The load of a host is a number of requests and of penalties.
LEMMA LoadsCounted ==
  ASSUME Shapes, LoadExact, Picks
  PROVE  Loads
<1>1. ASSUME NEW h \in Hosts  PROVE connections[h] \in Nat
  <2>1. held(h) \in SUBSET Requests /\ connections[h] = Cardinality(held(h))
    BY Zenon DEF held, LoadExact
  <2>2. Cardinality(held(h)) \in Nat
    BY <2>1, FS_Subset, FS_CardinalityType, DispatchAssumption, Zenon
  <2> QED  BY <2>1, <2>2, Zenon
<1>2. connections \in [Hosts -> Nat]
  BY <1>1, Zenon DEF Shapes
<1> QED  BY <1>2, Zenon DEF Loads, Picks

\* Before the first request.
LEMMA PicksInit ==
  ASSUME Init
  PROVE  Picks
<1>1. 0 \in 0..MaxPenalty /\ 0 \in 0..(Wrap - 1) /\ 0 \in 0..(Replicas - 1)
  BY DispatchAssumption
<1>2. nextIdx \in Indexes
  BY <1>1, Zenon DEF Init, Indexes
<1> QED  BY <1>1, <1>2, HostOf, Zenon DEF Init, Picks

\* A penalty more, a penalty less.
LEMMA PenaltyType ==
  ASSUME Picks, NEW h \in Hosts
  PROVE  /\ penalized(h) \in [Hosts -> 0..MaxPenalty]
         /\ penalty[h] > 0 => [penalty EXCEPT ![h] = @ - 1] \in [Hosts -> 0..MaxPenalty]
<1>1. penalty \in [Hosts -> 0..MaxPenalty] /\ penalty[h] \in 0..MaxPenalty /\ MaxPenalty \in Nat
  BY DispatchAssumption, Zenon DEF Picks
<1>2. /\ penalty[h] < MaxPenalty => penalty[h] + 1 \in 0..MaxPenalty
      /\ penalty[h] > 0 => penalty[h] - 1 \in 0..MaxPenalty
  BY <1>1
<1> QED  BY <1>1, <1>2, Zenon DEF penalized

\* Every step hands on hosts of the cluster.
LEMMA PicksStep ==
  ASSUME Shapes, LoadExact, Picks, Chosen, [Next]_vars
  PROVE  Picks'
<1>0. Loads
  BY LoadsCounted, Zenon
<1> USE DEF Picks
<1>a. ASSUME NEW r \in Requests, chooseReplica(r) \/ (session[r] \in Nat /\ chooseReplicaSticky(r)),
             UNCHANGED <<active, penalty, host, nextHost, status>>
      PROVE  Picks'
  <2>1. /\ nextIdx' \in Indexes
        /\ replica' \in [Requests -> 0..(Replicas - 1)]
        /\ seen' \in [Requests -> SUBSET Hosts]
    <3> HIDE DEF Picks
    <3> QED  BY <1>0, <1>a, ReplicaScan, StickyScan, Zenon
  <2> QED  BY <1>a, <2>1, Zenon
<1>b. ASSUME NEW r \in Requests, endPick(r)
      PROVE  /\ nextIdx' \in Indexes
             /\ replica' \in [Requests -> 0..(Replicas - 1)]
             /\ seen' \in [Requests -> SUBSET Hosts]
  <2> HIDE DEF Picks
  <2> QED  BY <1>b, PickEnds, Zenon
<1>c. ASSUME NEW r \in Requests, session[r] # NoSession  PROVE session[r] \in Nat
  BY <1>c, DispatchAssumption, Zenon
<1>1. ASSUME NEW r \in Requests, Arrive(r) \/ Repick(r) \/ GetReplicaSticky(r) \/ PickNext(r)
      PROVE  Picks'
  <2>1. pc[r] = "sticky" => session[r] # NoSession
    BY Zenon DEF Chosen, ChosenFor
  <2>2. UNCHANGED <<active, penalty, host, nextHost, status>>
    BY <1>1, Zenon DEF Arrive, Repick, GetReplicaSticky, PickNext, nodes
  <2>3. chooseReplica(r) \/ (session[r] \in Nat /\ chooseReplicaSticky(r))
    BY <1>1, <1>c, <2>1, Zenon DEF Arrive, Repick, GetReplicaSticky, PickNext
  <2> QED  BY <1>a, <2>2, <2>3, Zenon
<1>2. ASSUME NEW r \in Requests, Reject(r) \/ Admit(r)  PROVE Picks'
  BY <1>2, HostOf, Zenon DEF Reject, Admit, nodes, pick
<1>3. ASSUME NEW r \in Requests,
             BodyFails(r) \/ Send(r) \/ Answer(r) \/ Break(r) \/ CutOff(r) \/ Abandon(r)
      PROVE  Picks'
  BY <1>3, Zenon DEF BodyFails, Send, Answer, Break, CutOff, Abandon, nodes, pick
<1>4. ASSUME NEW r \in Requests, Returned(r)  PROVE Picks'
  <2>1. host[r] \in Hosts
    BY Zenon
  <2>2. penalized(host[r]) \in [Hosts -> 0..MaxPenalty]
    BY <2>1, PenaltyType, Zenon
  <2>3. UNCHANGED nodes \/ (penalty' = penalized(host[r]) /\ active' = [active EXCEPT ![host[r]] = FALSE])
    BY <1>4, Zenon DEF Returned
  <2>4. active' \in [Hosts -> BOOLEAN] /\ penalty' \in [Hosts -> 0..MaxPenalty]
    BY <2>2, <2>3, Zenon DEF nodes
  <2> QED  BY <1>4, <2>4, Zenon DEF Returned, pick
<1>5. ASSUME NEW r \in Requests, GetHost(r) \/ GetHostSticky(r) \/ GetNext(r)  PROVE Picks'
  <2>1. endPick(r)
    BY <1>5, Zenon DEF GetHost, GetHostSticky, GetNext
  <2>2. givenHost(r) \in Hosts
    <3> HIDE DEF Picks
    <3> QED  BY <1>0, HostGiven, Zenon
  <2>3. CASE GetHost(r)
    BY <1>b, <2>1, <2>2, <2>3, Zenon DEF GetHost, nodes
  <2>4. CASE GetNext(r)
    BY <1>b, <2>1, <2>2, <2>4, Zenon DEF GetNext, nodes
  <2>5. CASE GetHostSticky(r)
    <3>1. session[r] \in Nat
      BY <1>c, <2>5, Zenon DEF GetHostSticky, Chosen, ChosenFor
    <3>2. givenSticky(r) \in Hosts
      <4> HIDE DEF Picks
      <4> QED  BY <3>1, StickyGiven, Zenon
    <3> QED  BY <1>b, <2>1, <2>5, <3>2, Zenon DEF GetHostSticky, nodes
  <2> QED  BY <1>5, <2>3, <2>4, <2>5, Zenon
<1>6. ASSUME NEW r \in Requests, Retry(r)  PROVE Picks'
  BY <1>6, HostOf, Zenon DEF Retry, pick
<1>7. ASSUME NEW r \in Requests, Kill(r)  PROVE Picks'
  <2>1. host[r] \in Hosts
    BY Zenon
  <2>2. penalized(host[r]) \in [Hosts -> 0..MaxPenalty]
    BY <2>1, PenaltyType, Zenon
  <2> QED  BY <1>7, <2>2, Zenon DEF Kill, pick
<1>8. ASSUME NEW r \in Requests, Finish(r) \/ CloseNotify(r) \/ Timeout(r)  PROVE Picks'
  <2>1. UNCHANGED <<active, penalty, pick, nextHost, status>>
    BY <1>8, Zenon DEF Finish, CloseNotify, Timeout, ContextDone, nodes
  <2>2. host' = host \/ host' = [host EXCEPT ![r] = anyHost]
    BY <1>8, Zenon DEF Finish, CloseNotify, Timeout, ContextDone
  <2>3. host' \in [Requests -> Hosts]
    BY <2>2, HostOf, Zenon
  <2> QED  BY <2>1, <2>3, Zenon DEF pick
<1>9. ASSUME NEW h \in Hosts, NEW b \in BOOLEAN, PenaltyExpires(h) \/ Heartbeat(h, b)  PROVE Picks'
  <2>1. CASE PenaltyExpires(h)
    <3>1. penalty' \in [Hosts -> 0..MaxPenalty]
      <4> HIDE DEF Picks
      <4> QED  BY <2>1, PenaltyType, Zenon DEF PenaltyExpires
    <3> QED  BY <2>1, <3>1, Zenon DEF PenaltyExpires, pick
  <2>2. CASE Heartbeat(h, b)
    BY <2>2, Zenon DEF Heartbeat, pick
  <2> QED  BY <1>9, <2>1, <2>2, Zenon
<1>10. CASE UNCHANGED vars
  BY <1>10, Zenon DEF vars
<1> HIDE DEF Picks
<1>11. ASSUME NEW r \in Requests, step(r)  PROVE Picks'
  BY <1>1, <1>2, <1>3, <1>4, <1>5, <1>6, <1>7, <1>8, <1>11, Zenon
     DEF step, picking, incQueued, proxyRequest
<1> QED  BY <1>9, <1>10, <1>11, Zenon DEF Next, step

\* A step of a request leaves the picks of the others alone.
LEMMA OthersPick ==
  ASSUME Picks, NEW r \in Requests, step(r), NEW q \in Requests \ {r}
  PROVE  replica'[q] = replica[q] /\ seen'[q] = seen[q]
<1>1. CASE UNCHANGED pick
  BY <1>1, Zenon DEF pick
<1>2. ASSUME NEW i, scanReplica(r, i)  PROVE replica'[q] = replica[q] /\ seen'[q] = seen[q]
  BY <1>2, Zenon DEF scanReplica, Picks
<1>3. CASE endPick(r)
  BY <1>3, Zenon DEF endPick, Picks
<1>4. UNCHANGED pick \/ endPick(r) \/ chooseReplica(r) \/ chooseReplicaSticky(r)
  BY Zenon DEF step, picking, incQueued, proxyRequest, Arrive, Repick, GetHost, GetReplicaSticky, GetHostSticky,
       Reject, Admit, BodyFails, Send, Answer, Break, CutOff, Abandon, Returned, PickNext, GetNext, Retry, Kill,
       Finish, CloseNotify, Timeout, ContextDone, pick
<1> QED  BY <1>1, <1>2, <1>3, <1>4, Zenon DEF chooseReplica, chooseReplicaSticky

\* What a request saw when its replica was chosen is what it knows in the next scan.
LEMMA ChosenStep ==
  ASSUME Shapes, LoadExact, Picks, Chosen, NEW r \in Requests, step(r)
  PROVE  Chosen'
<1>0. Loads
  BY LoadsCounted, Zenon
<1>p. pc \in [Requests -> Labels]
  BY Zenon DEF Shapes
<1>c. session[r] # NoSession => session[r] \in Nat
  BY DispatchAssumption, Zenon
<1>s. pc[r] \in {"sticky", "getHostSticky"} => session[r] # NoSession
  BY Zenon DEF Chosen, ChosenFor
<1>h. home(r)' = home(r)
  BY Zenon DEF home
<1>1. ASSUME NEW q \in Requests \ {r}  PROVE ChosenFor(q)'
  <2>1. pc'[q] = pc[q] /\ replica'[q] = replica[q] /\ seen'[q] = seen[q] /\ ChosenFor(q)
    BY OthersStay, OthersPick, Zenon DEF Chosen
  <2>2. home(q)' = home(q)
    BY Zenon DEF home
  <2> QED  BY <2>1, <2>2, Zenon DEF ChosenFor
<1>2. CASE chooseReplica(r) /\ pc'[r] \in {"getHost", "getNext"}
  <2>1. seen'[r] = {} \/ \E d \in seen'[r] : d[1] = replica'[r]
    BY <1>0, <1>2, ReplicaScan, Zenon
  <2>2. ChosenFor(r)'
    BY <1>2, <2>1, Zenon DEF ChosenFor
  <2> QED  BY <1>1, <2>2, Zenon DEF Chosen
<1>3. CASE session[r] # NoSession /\ chooseReplicaSticky(r) /\ pc'[r] = "getHostSticky"
  <2>1. home(r) \in seen'[r] => replica'[r] = session[r] % Replicas
    BY <1>3, <1>c, StickyScan, Zenon
  <2>2. ChosenFor(r)'
    BY <1>3, <1>h, <2>1, Zenon DEF ChosenFor
  <2> QED  BY <1>1, <2>2, Zenon DEF Chosen
<1>4. CASE \/ pc'[r] \notin {"getHost", "getNext", "sticky", "getHostSticky"}
           \/ pc'[r] = "sticky" /\ session[r] # NoSession
  <2>1. ChosenFor(r)'
    BY <1>4, Zenon DEF ChosenFor
  <2> QED  BY <1>1, <2>1, Zenon DEF Chosen
<1>5. CASE pc'[r] = pc[r] /\ UNCHANGED pick
  <2>1. ChosenFor(r)'
    BY <1>5, <1>h, Zenon DEF Chosen, ChosenFor, pick
  <2> QED  BY <1>1, <2>1, Zenon DEF Chosen
<1>6. CASE Arrive(r) \/ Repick(r) \/ PickNext(r) \/ GetReplicaSticky(r)
  BY <1>2, <1>3, <1>6, <1>p, <1>s, Zenon DEF Arrive, Repick, PickNext, GetReplicaSticky
<1>7. CASE GetHost(r) \/ GetHostSticky(r) \/ GetNext(r)
  BY <1>4, <1>7, <1>p, Zenon DEF GetHost, GetHostSticky, GetNext
<1>8. CASE \/ Reject(r) \/ Admit(r) \/ BodyFails(r) \/ Send(r) \/ Answer(r) \/ Break(r) \/ CutOff(r) \/ Abandon(r)
  BY <1>4, <1>8, <1>p, Zenon DEF Reject, Admit, BodyFails, Send, Answer, Break, CutOff, Abandon
<1>9. CASE Returned(r) \/ Retry(r) \/ Kill(r) \/ Finish(r)
  BY <1>4, <1>9, <1>p, Zenon DEF Returned, Retry, Kill, Finish
<1>10. CASE CloseNotify(r) \/ Timeout(r)
  BY <1>5, <1>10, Zenon DEF CloseNotify, Timeout, ContextDone
<1> QED  BY <1>6, <1>7, <1>8, <1>9, <1>10, Zenon DEF step, picking, incQueued, proxyRequest

----------------------------------------------------------------------------
(* The theorems.                                                           *)

\* A step is one of a request, or leaves all requests and connections alone.
LEMMA Steps ==
  ASSUME [Next]_vars
  PROVE  \/ \E r \in Requests : step(r)
         \/ UNCHANGED <<connections, pc, host, numRetry, ctx, query, pick>>
<1>1. CASE UNCHANGED vars
  BY <1>1, Zenon DEF vars, pick
<1>2. CASE around
  BY <1>2, Zenon DEF around, PenaltyExpires, Heartbeat
<1> QED  BY <1>1, <1>2, Zenon DEF Next, step, around

\* The inductive invariant holds of every execution.
THEOREM DispatchInvariant == Spec => []DInv
<1>1. Init => DInv
  <2> SUFFICES ASSUME Init  PROVE DInv
    OBVIOUS
  <2>1. Shapes
    BY DispatchAssumption DEF Init, Shapes, Labels, outside, noQuery
  <2>2. ASSUME NEW h \in Hosts  PROVE held(h) = {}
    BY Zenon DEF Init, held, outside
  <2>3. LoadExact
    BY <2>2, FS_EmptySet, Zenon DEF Init, LoadExact, held
  <2>4. RunsHere
    BY Zenon DEF Init, RunsHere, noQuery
  <2>5. Chosen
    BY Zenon DEF Init, Chosen, ChosenFor
  <2> QED  BY <2>1, <2>3, <2>4, <2>5, PicksInit, Zenon DEF DInv
<1>2. DInv /\ [Next]_vars => DInv'
  <2> SUFFICES ASSUME DInv, [Next]_vars  PROVE DInv'
    OBVIOUS
  <2>0. Picks'
    BY PicksStep, Zenon DEF DInv
  <2>1. ASSUME NEW r \in Requests, step(r)  PROVE DInv'
    BY <2>0, <2>1, ShapesStep, LoadStep, RunsHereStep, ChosenStep, Zenon DEF DInv
  <2>2. CASE UNCHANGED <<connections, pc, host, numRetry, ctx, query, pick>>
    <3>1. Shapes' /\ LoadExact' /\ RunsHere'
      BY <2>2 DEF DInv, Shapes, LoadExact, RunsHere
    <3>2. Chosen'
      BY <2>2, Zenon DEF DInv, Chosen, ChosenFor, home, pick
    <3> QED  BY <2>0, <3>1, <3>2, Zenon DEF DInv
  <2> QED  BY <2>1, <2>2, Steps, Zenon
<1> QED  BY <1>1, <1>2, PTL DEF Spec

\* The load that the balancer sees is exact, for any number of hosts, requests
\* and retries (proxy.go:241-260 with the deferred s.dec()).
THEOREM LoadStaysExact == Spec => []LoadExact
<1>1. DInv => LoadExact
  BY Zenon DEF DInv
<1> QED  BY <1>1, DispatchInvariant, PTL

\* A query that was abandoned because the client left or the time is over has been
\* sent a KILL QUERY when its request is over, wherever it was retried; what may be
\* left lost its connection or survived the kill (proxy.go:218-240, 326-341).
THEOREM NothingLeftRunning == Spec => []NothingRuns
<1>1. DInv => NothingRuns
  BY Zenon DEF DInv, RunsHere, NothingRuns
<1> QED  BY <1>1, DispatchInvariant, PTL

\* All requests of a session go to the same node while it is active, for any number
\* of replicas and hosts (scope.go:874-935).
THEOREM SessionsGoHome == Spec => SessionHome
<1> DEFINE Home(r) == GetHostSticky(r) =>
             host'[r] = home(r) \/ home(r) \notin seen[r] \/ ~active[home(r)]
<1>1. ASSUME DInv, NEW r \in Requests, GetHostSticky(r), home(r) \in seen[r], active[home(r)]
      PROVE  host'[r] = home(r)
  <2>1. Picks /\ session[r] # NoSession /\ replica[r] = session[r] % Replicas
    BY <1>1, Zenon DEF DInv, Chosen, ChosenFor, GetHostSticky
  <2>2. session[r] \in Nat
    BY <2>1, DispatchAssumption, Zenon
  <2>3. host'[r] = givenSticky(r)
    BY <1>1, <2>1, Zenon DEF GetHostSticky, Picks
  <2> QED  BY <1>1, <2>1, <2>2, <2>3, StickyGiven, Zenon
<1>2. DInv /\ [Next]_vars => [\A r \in Requests : Home(r)]_vars
  BY <1>1, Zenon
<1> QED  BY <1>2, DispatchInvariant, PTL DEF Spec, SessionHome

\* Every request comes nearer to its end with each of its own steps, for any
\* retry_number (proxy.go:217-262).
THEOREM WorkIsBounded == Spec => BoundedWork
<1> DEFINE Nearer(r) == pc[r] \notin outside /\ pc'[r] # pc[r] =>
             pc'[r] = "idle" \/ (left(r)' \in Nat /\ left(r)' < left(r))
<1>1. ASSUME DInv, [Next]_vars, NEW r \in Requests  PROVE Nearer(r)
  <2>1. Shapes /\ Shapes'
    <3>1. Shapes
      BY <1>1, Zenon DEF DInv
    <3>2. CASE UNCHANGED <<connections, pc, host, numRetry, ctx, query, pick>>
      BY <3>1, <3>2, Zenon DEF Shapes
    <3> QED  BY <1>1, <3>1, <3>2, Steps, ShapesStep, Zenon
  <2>2. /\ pc[r] \in Labels /\ pc'[r] \in Labels
        /\ numRetry[r] \in 0..retryNumber /\ numRetry'[r] \in 0..retryNumber
    BY <2>1, Zenon DEF Shapes
  <2>3. ASSUME NEW q \in Requests \ {r}, step(q)  PROVE Nearer(r)
    BY <2>1, <2>3, OthersStay, Zenon
  <2>4. CASE step(r) /\ pc[r] \notin outside /\ pc'[r] # pc[r] /\ pc'[r] # "idle"
    <3>1. \/ /\ numRetry'[r] = numRetry[r]
             /\ <<pc[r], pc'[r]>> \in {<<"send", "dec">>, <<"send", "sent">>, <<"send", "returned">>,
                   <<"sent", "returned">>, <<"returned", "kill">>, <<"returned", "dec">>, <<"returned", "pick">>,
                   <<"pick", "getNext">>, <<"getNext", "retry">>, <<"retry", "dec">>, <<"kill", "dec">>}
          \/ numRetry'[r] = numRetry[r] + 1 /\ pc[r] = "retry" /\ pc'[r] = "send"
      <4> USE <2>1, <2>4 DEF Shapes, outside
      <4>1. ~(Arrive(r) \/ Repick(r) \/ picking(r) \/ incQueued(r))
        BY Zenon DEF Arrive, Repick, picking, GetHost, GetReplicaSticky, GetHostSticky, incQueued, Reject, Admit
      <4>2. CASE BodyFails(r) \/ Send(r) \/ Answer(r) \/ Break(r) \/ CutOff(r) \/ Abandon(r)
        BY <4>2, Zenon DEF BodyFails, Send, Answer, Break, CutOff, Abandon
      <4>3. CASE Returned(r) \/ PickNext(r) \/ GetNext(r) \/ Kill(r) \/ Finish(r)
        BY <4>3, Zenon DEF Returned, PickNext, GetNext, Kill, Finish
      <4>4. CASE Retry(r)
        BY <4>4, Zenon DEF Retry
      <4>5. CASE CloseNotify(r) \/ Timeout(r)
        BY <4>5, Zenon DEF CloseNotify, Timeout, ContextDone
      <4> QED  BY <4>1, <4>2, <4>3, <4>4, <4>5, Zenon DEF step, proxyRequest
    <3>2. /\ left(r) = (retryNumber - numRetry[r]) * 7 + rank(pc[r])
          /\ left(r)' = (retryNumber - numRetry'[r]) * 7 + rank(pc'[r])
      BY Zenon DEF left, rank
    <3>3. /\ rank("send") = 7 /\ rank("sent") = 6 /\ rank("returned") = 5 /\ rank("pick") = 4
          /\ rank("getNext") = 3 /\ rank("retry") = 2 /\ rank("kill") = 2 /\ rank("dec") = 1
      BY Zenon DEF rank
    <3> DEFINE k == numRetry[r]
               n == numRetry'[r]
    <3>4. k \in Nat /\ n \in Nat /\ k <= retryNumber /\ n <= retryNumber /\ retryNumber \in Nat
      BY <2>2, DispatchAssumption
    <3>5. \/ n = k /\ rank(pc[r]) \in Nat /\ rank(pc'[r]) \in Nat /\ rank(pc'[r]) < rank(pc[r])
          \/ n = k + 1 /\ rank(pc[r]) = 2 /\ rank(pc'[r]) = 7
      BY <3>1, <3>3
    <3> HIDE DEF k, n
    <3>6. left(r)' \in Nat /\ left(r)' < left(r)
      BY <3>2, <3>4, <3>5 DEF k, n
    <3> QED  BY <3>6, Zenon
  <2> QED  BY <1>1, <2>3, <2>4, Steps, Zenon
<1>2. DInv /\ [Next]_vars => [\A r \in Requests : Nearer(r)]_vars
  BY <1>1, Zenon
<1> QED  BY <1>2, DispatchInvariant, PTL DEF Spec, BoundedWork

\* getHost and getHostSticky always return a host of the cluster ("Always returns
\* non-nil", scope.go:831,905,939,985,993), whatever the loads are; a host has at
\* most as many connections as there are requests, and the indexes wrap around.
THEOREM DispatchTypeCorrect == Spec => []DispatchTypeOK
<1>1. DInv => DispatchTypeOK
  <2> SUFFICES ASSUME DInv  PROVE DispatchTypeOK
    OBVIOUS
  <2>1. Shapes /\ LoadExact /\ Picks
    BY Zenon DEF DInv
  <2>2. ASSUME NEW h \in Hosts  PROVE connections[h] \in 0..Cardinality(Requests)
    <3>1. held(h) \in SUBSET Requests /\ connections[h] = Cardinality(held(h))
      BY <2>1, Zenon DEF held, LoadExact
    <3>2. IsFiniteSet(held(h)) /\ Cardinality(held(h)) <= Cardinality(Requests)
      BY <3>1, FS_Subset, DispatchAssumption, Zenon
    <3>3. Cardinality(held(h)) \in Nat /\ Cardinality(Requests) \in Nat
      BY <3>2, FS_CardinalityType, DispatchAssumption, Zenon
    <3> QED  BY <3>1, <3>2, <3>3
  <2>3. connections \in [Hosts -> 0..Cardinality(Requests)]
    BY <2>1, <2>2, Zenon DEF Shapes
  <2> QED  BY <2>1, <2>3, Zenon DEF DispatchTypeOK, Shapes, Labels, Picks, Indexes
<1> QED  BY <1>1, DispatchInvariant, PTL

\* A request without a session is sent, and a retry is moved, to an inactive host only
\* if the whole cluster was inactive when its replica was chosen or a host of that
\* replica went down before its host was, for any number of replicas and hosts, and
\* whatever the loads and the round-robin indexes are (scope.go:829-872,937-997).
THEOREM PicksStayActive == Spec => PicksActive
<1> DEFINE Active(r) == /\ session[r] = NoSession /\ GetHost(r) => picksActive(r, host'[r])
                        /\ GetNext(r) => picksActive(r, nextHost'[r])
<1>1. ASSUME DInv, NEW r \in Requests, GetHost(r) \/ GetNext(r)  PROVE picksActive(r, givenHost(r))
  <2>1. Loads /\ Picks
    BY <1>1, LoadsCounted, Zenon DEF DInv
  <2>2. seen[r] = {} \/ \E d \in seen[r] : d[1] = replica[r]
    BY <1>1, Zenon DEF DInv, Chosen, ChosenFor, GetHost, GetNext
  <2>3. /\ givenHost(r)[1] = replica[r]
        /\ active[givenHost(r)] \/ \A h \in Hosts : h[1] = replica[r] => ~active[h]
    BY <2>1, HostGiven, Zenon
  <2>4. seen[r] \in SUBSET Hosts
    BY <2>1, Zenon DEF Picks
  <2> QED  BY <2>2, <2>3, <2>4, Zenon DEF picksActive
<1>2. ASSUME DInv, NEW r \in Requests  PROVE Active(r)
  <2>1. Picks
    BY <1>2, Zenon DEF DInv
  <2>2. /\ GetHost(r) => host'[r] = givenHost(r)
        /\ GetNext(r) => nextHost'[r] = givenHost(r)
    BY <2>1, Zenon DEF GetHost, GetNext, Picks
  <2> QED  BY <1>1, <1>2, <2>2, Zenon
<1> HIDE DEF Active
<1>3. DInv /\ [Next]_vars => [\A r \in Requests : Active(r)]_vars
  BY <1>2, Zenon
<1> QED  BY <1>3, DispatchInvariant, PTL DEF Spec, PicksActive, Active
=============================================================================
