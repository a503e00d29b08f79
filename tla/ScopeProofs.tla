---------------------------- MODULE ScopeProofs ----------------------------
(***************************************************************************)
(* The limits of Scope hold for every set of goroutines, users, hosts and  *)
(* every choice of limits.  The inductive invariant IInv adds to the       *)
(* properties where each goroutine can be: ErrAgrees and SlotsAgree tie    *)
(* the local variables to the label, PassingLimit counts the requests that *)
(* have passed the checks of inc so far.  The last part is about ScopeRate *)
(* and what the reset of the rate limiters costs.                          *)
(***************************************************************************)
EXTENDS ScopeRate, FiniteSetTheorems, TLAPS

\* The error of inc at each label: undone additions mean an error, and a
\* request that goes on has none.
ErrAgrees ==
  \A r \in Requests :
    /\ pc[r] \in {"undoU", "undoC", "rpmUndoU", "rpmUndoC", "retry", "sleep", "reject"}
         => err[r] = "limit"
    /\ pc[r] \in {"connect", "accept", "running", "move", "decU", "decC", "decH"}
         => err[r] = "nil"

\* The goroutines counted by an account, and those of them without an error so far.
Counting(a) == {r \in Requests : counts(r, a)}
Passing(a)  == {r \in Requests : counts(r, a) /\ err[r] = "nil"}

\* The strengthening of ConcurrencyLimit: it holds from the increment on, before
\* the other checks of inc are made.
PassingLimit ==
  \A a \in Accounts :
    maxConcurrentQueries[a] > 0 => Cardinality(Passing(a)) <= maxConcurrentQueries[a]

----------------------------------------------------------------------------
(* Counting goroutines.                                                    *)

\* A set of goroutines is finite and smaller than what a counter can hold.
LEMMA CardRange ==
  ASSUME NEW S \in SUBSET Requests
  PROVE  /\ IsFiniteSet(S)
         /\ Cardinality(S) \in Nat
         /\ Cardinality(S) < Wrap
<1>1. IsFiniteSet(S) /\ Cardinality(S) <= Cardinality(Requests)
  BY FS_Subset, RequestsAssumption, Zenon
<1>2. Cardinality(S) \in Nat /\ Cardinality(Requests) \in Nat
  BY <1>1, FS_CardinalityType, RequestsAssumption, Zenon
<1> QED  BY <1>1, <1>2, WrapAssumption

\* One goroutine more.
LEMMA CardPlus ==
  ASSUME NEW S \in SUBSET Requests, NEW r \in Requests, r \notin S
  PROVE  /\ Cardinality(S \cup {r}) = Cardinality(S) + 1
         /\ Cardinality(S) + 1 < Wrap
<1>1. IsFiniteSet(S)
  BY CardRange, Zenon
<1>2. Cardinality(S \cup {r}) = Cardinality(S) + 1
  BY <1>1, FS_AddElement, Zenon
<1>3. S \cup {r} \in SUBSET Requests
  OBVIOUS
<1>4. Cardinality(S \cup {r}) < Wrap
  BY <1>3, CardRange, Zenon
<1> QED  BY <1>2, <1>4, Zenon

\* One goroutine less.
LEMMA CardMinus ==
  ASSUME NEW S \in SUBSET Requests, NEW r \in S
  PROVE  /\ Cardinality(S \ {r}) = Cardinality(S) - 1
         /\ Cardinality(S) > 0
<1>1. IsFiniteSet(S) /\ Cardinality(S) \in Nat
  BY CardRange, Zenon
<1>2. Cardinality(S \ {r}) = Cardinality(S) - 1
  BY <1>1, FS_RemoveElement, Zenon
<1>3. S \ {r} \in SUBSET Requests
  OBVIOUS
<1>4. Cardinality(S \ {r}) \in Nat
  BY <1>3, CardRange, Zenon
<1> QED  BY <1>1, <1>2, <1>4

\* The atomic additions stay within the width of a counter.
LEMMA CounterType ==
  ASSUME NEW n \in 0..(Wrap - 1)
  PROVE  inc(n) \in 0..(Wrap - 1) /\ dec(n) \in 0..(Wrap - 1)
BY WrapAssumption DEF inc, dec

\* Below the width, inc adds one.
LEMMA IncIsPlus ==
  ASSUME NEW n \in Nat, n + 1 < Wrap
  PROVE  inc(n) = n + 1
BY WrapAssumption DEF inc

\* Above zero, dec subtracts one.
LEMMA DecIsMinus ==
  ASSUME NEW n \in Nat, n > 0, n < Wrap
  PROVE  dec(n) = n - 1
<1>1. n - 1 \in 0..(Wrap - 1) /\ Wrap > 0 /\ Wrap \in Nat
  BY WrapAssumption
<1>2. n + Wrap - 1 = (n - 1) + Wrap
  BY <1>1
<1>3. ((n - 1) + Wrap) % Wrap = (n - 1) % Wrap
  BY <1>1
<1>4. (n - 1) % Wrap = n - 1
  BY <1>1
<1> QED  BY <1>2, <1>3, <1>4, Zenon DEF dec

----------------------------------------------------------------------------
(* Types and labels.                                                       *)

\* The cluster user of a request is an account, different from its user.
LEMMA AccountsOf ==
  ASSUME NEW r \in Requests
  PROVE  /\ user[r] \in Users /\ user[r] \in Accounts
         /\ clusterUser(r) \in Accounts
         /\ user[r] # clusterUser(r)
BY RequestsAssumption, AccountsAssumption DEF Accounts, Configured, clusterUser

\* The counters start at 0 and every goroutine outside its handler.
LEMMA TypeInit == Init => TypeOK
BY LimitsAssumption, WrapAssumption, RequestsAssumption, FS_CardinalityType
   DEF Init, TypeOK, Labels

\* No step leaves the types.
LEMMA TypeStep == TypeOK /\ [Next]_vars => TypeOK'
<1> SUFFICES ASSUME TypeOK, [Next]_vars PROVE TypeOK'
  OBVIOUS
<1> USE DEF TypeOK
<1>1. CASE UNCHANGED vars
  BY <1>1, Zenon DEF vars
<1>2. ASSUME NEW r \in Requests, incQueued(r) PROVE TypeOK'
  <2>a. /\ user[r] \in Accounts
        /\ clusterUser(r) \in Accounts
    BY AccountsOf, Zenon
  <2>b. /\ \A a \in Accounts : /\ inc(queryCounter[a]) \in 0..(Wrap - 1)
                               /\ dec(queryCounter[a]) \in 0..(Wrap - 1)
                               /\ inc(rateLimiter[a]) \in 0..(Wrap - 1)
                               /\ dec(rateLimiter[a]) \in 0..(Wrap - 1)
        /\ \A h \in Hosts : inc(connections[h]) \in 0..(Wrap - 1)
    BY CounterType, Zenon
  <2>c. packet[r] \in Nat /\ tokensBurst \in [Accounts -> Nat]
    BY RequestsAssumption, LimitsAssumption, Zenon
  <2>q. \A a \in Accounts : queueCh[a] + 1 \in Nat
    OBVIOUS
  <2>1. CASE QueueUser(r)
    <3>1. queueCh' \in [Accounts -> Nat] /\ slots' \in [Requests -> SUBSET Accounts]
      BY <2>1, <2>a, <2>q DEF QueueUser, enqueue
    <3>2. pc' \in [Requests -> Labels]
      BY <2>1 DEF QueueUser, goto, Labels
    <3> QED  BY <2>1, <3>1, <3>2, Zenon DEF QueueUser
  <2>2. CASE QueueCluster(r)
    <3>1. queueCh' \in [Accounts -> Nat] /\ slots' \in [Requests -> SUBSET Accounts]
      BY <2>2, <2>a, <2>q DEF QueueCluster, enqueue
    <3>2. pc' \in [Requests -> Labels] /\ mode' \in [Requests -> {"once", "loop"}]
      BY <2>2, Zenon DEF QueueCluster, goto, Labels
    <3> QED  BY <2>2, <3>1, <3>2, Zenon DEF QueueCluster
  <2>3. CASE IncUser(r) \/ IncCluster(r)
    BY <2>3, <2>a, <2>b DEF IncUser, IncCluster, fail, goto, Labels
  <2>4. CASE RateUser(r) \/ RateCluster(r)
    BY <2>4, <2>a, <2>b DEF RateUser, RateCluster, incRate, countRate, fail, goto, Labels
  <2>5. CASE TokensUser(r) \/ TokensCluster(r)
    BY <2>5, <2>a, <2>c DEF TokensUser, TokensCluster, AllowN, fail, goto, Labels
  <2>6. CASE UndoUser(r) \/ UndoCluster(r)
    BY <2>6, <2>a, <2>b DEF UndoUser, UndoCluster, undoQuery, goto, Labels
  <2>7. CASE UndoRateUser(r) \/ UndoRateCluster(r)
    BY <2>7, <2>a, <2>b DEF UndoRateUser, UndoRateCluster, undoRate, countRate, goto, Labels
  <2>8. CASE Connect(r)
    BY <2>8, <2>b, Zenon DEF Connect, goto, Labels
  <2>9. CASE Retry(r) \/ Wake(r) \/ Return(r)
    BY <2>9 DEF Retry, Wake, Return, goto, Labels
  <2>10. CASE LeaveQueue(r)
    BY <2>10, <2>a DEF LeaveQueue, dequeue
  <2> HIDE DEF TypeOK
  <2> QED
    BY <1>2, <2>1, <2>2, <2>3, <2>4, <2>5, <2>6, <2>7, <2>8, <2>9, <2>10, Zenon DEF incQueued
<1>3. ASSUME NEW r \in Requests, serve(r) PROVE TypeOK'
  <2>a. /\ user[r] \in Accounts
        /\ clusterUser(r) \in Accounts
    BY AccountsOf, Zenon
  <2>b. /\ \A a \in Accounts : dec(queryCounter[a]) \in 0..(Wrap - 1)
        /\ \A h \in Hosts : /\ inc(connections[h]) \in 0..(Wrap - 1)
                            /\ dec(connections[h]) \in 0..(Wrap - 1)
    BY CounterType, Zenon
  <2>1. CASE Arrive(r) \/ Finish(r)
    BY <2>1 DEF Arrive, Finish, goto, Labels
  <2>2. CASE MoveOut(r) \/ MoveIn(r) \/ DecHost(r)
    BY <2>2, <2>b DEF MoveOut, MoveIn, DecHost, goto, Labels
  <2>3. CASE DecUser(r) \/ DecCluster(r)
    BY <2>3, <2>a, <2>b DEF DecUser, DecCluster, undoQuery, goto, Labels
  <2> HIDE DEF TypeOK
  <2> QED
    BY <1>3, <2>1, <2>2, <2>3, Zenon DEF serve
<1>4. ASSUME NEW r \in Requests, DeadlinePasses(r) PROVE TypeOK'
  BY <1>4, Zenon DEF DeadlinePasses
<1>5. ASSUME NEW a \in Configured, ResetRate(a) PROVE TypeOK'
  <2>1. 0 \in 0..(Wrap - 1)
    BY RequestsAssumption, WrapAssumption, FS_CardinalityType
  <2> QED
    BY <1>5, <2>1, Zenon DEF ResetRate
<1> HIDE DEF TypeOK
<1> QED
  BY <1>1, <1>2, <1>3, <1>4, <1>5, Zenon DEF Next

\* Each step sets the error that its new label calls for.
LEMMA ErrStep == TypeOK /\ ErrAgrees /\ [Next]_vars => ErrAgrees'
<1> SUFFICES ASSUME TypeOK, ErrAgrees, [Next]_vars PROVE ErrAgrees'
  OBVIOUS
<1>t. /\ pc \in [Requests -> Labels]
      /\ err \in [Requests -> {"nil", "limit"}]
  BY Zenon DEF TypeOK
<1> USE <1>t DEF ErrAgrees
<1>1. CASE UNCHANGED vars
  BY <1>1, Zenon DEF vars
<1>2. ASSUME NEW r \in Requests, incQueued(r) PROVE ErrAgrees'
  <2>1. CASE QueueUser(r) \/ QueueCluster(r)
    BY <2>1 DEF QueueUser, QueueCluster, enqueue, goto
  <2>2. CASE IncUser(r) \/ IncCluster(r)
    BY <2>2 DEF IncUser, IncCluster, fail, goto
  <2>3. CASE RateUser(r) \/ RateCluster(r)
    BY <2>3 DEF RateUser, RateCluster, incRate, fail, goto
  <2>4. CASE TokensUser(r) \/ TokensCluster(r)
    BY <2>4 DEF TokensUser, TokensCluster, AllowN, fail, goto
  <2>5. CASE UndoUser(r) \/ UndoCluster(r)
    BY <2>5 DEF UndoUser, UndoCluster, undoQuery, goto
  <2>6. CASE UndoRateUser(r) \/ UndoRateCluster(r)
    BY <2>6 DEF UndoRateUser, UndoRateCluster, undoRate, goto
  <2>7. CASE Connect(r) \/ Retry(r) \/ Wake(r)
    BY <2>7 DEF Connect, Retry, Wake, goto
  <2>8. CASE LeaveQueue(r) \/ Return(r)
    BY <2>8 DEF LeaveQueue, Return, goto
  <2> HIDE DEF ErrAgrees
  <2> QED
    BY <1>2, <2>1, <2>2, <2>3, <2>4, <2>5, <2>6, <2>7, <2>8, Zenon DEF incQueued
<1>3. ASSUME NEW r \in Requests, serve(r) PROVE ErrAgrees'
  BY <1>3 DEF serve, Arrive, Finish, MoveOut, MoveIn, DecUser, DecCluster, DecHost,
              undoQuery, goto
<1>4. ASSUME NEW r \in Requests, DeadlinePasses(r) PROVE ErrAgrees'
  BY <1>4, Zenon DEF DeadlinePasses
<1>5. ASSUME NEW a \in Configured, ResetRate(a) PROVE ErrAgrees'
  BY <1>5, Zenon DEF ResetRate
<1> HIDE DEF ErrAgrees
<1> QED
  BY <1>1, <1>2, <1>3, <1>4, <1>5, Zenon DEF Next

----------------------------------------------------------------------------
(* The query counters.                                                     *)

\* What a step does to one query counter and to the requests it counts: it
\* leaves both alone, or the goroutine r enters, or it leaves.
Entered(r, a) == /\ r \notin Counting(a)
                 /\ Counting(a)' = Counting(a) \cup {r}
                 /\ queryCounter[a]' = inc(queryCounter[a])
Left(r, a)    == /\ r \in Counting(a)
                 /\ Counting(a)' = Counting(a) \ {r}
                 /\ queryCounter[a]' = dec(queryCounter[a])
Kept(a)       == /\ Counting(a)' = Counting(a)
                 /\ queryCounter[a]' = queryCounter[a]

\* Each step of a goroutine changes the counter of an account together with the
\* set of the requests that count for it.
LEMMA CountingStep ==
  ASSUME TypeOK, [Next]_vars, NEW a \in Accounts
  PROVE  Kept(a) \/ \E r \in Requests : Entered(r, a) \/ Left(r, a)
<1>t. /\ pc \in [Requests -> Labels]
      /\ queryCounter \in [Accounts -> 0..(Wrap - 1)]
  BY Zenon DEF TypeOK
<1> USE <1>t
<1>1. CASE UNCHANGED vars
  BY <1>1, Zenon DEF vars, Kept, Counting, counts
<1>2. ASSUME NEW r \in Requests, incQueued(r)
      PROVE  Kept(a) \/ Entered(r, a) \/ Left(r, a)
  <2>a. user[r] \in Accounts /\ clusterUser(r) \in Accounts /\ user[r] # clusterUser(r)
    BY AccountsOf, Zenon
  <2> USE DEF Kept, Entered, Left, Counting, counts, countsUser, countsCluster, goto
  <2>1. CASE QueueUser(r) \/ QueueCluster(r)
    BY <2>1, SMTT(20) DEF QueueUser, QueueCluster
  <2>2. CASE IncUser(r)
    <3>1. CASE a = user[r]
      BY <2>2, <2>a, <3>1, Zenon DEF IncUser
    <3>2. CASE a # user[r]
      BY <2>2, <2>a, <3>2, SMTT(20) DEF IncUser
    <3> QED  BY <3>1, <3>2, Zenon
  <2>3. CASE IncCluster(r)
    <3>1. CASE a = clusterUser(r)
      BY <2>3, <2>a, <3>1, Zenon DEF IncCluster
    <3>2. CASE a # clusterUser(r)
      BY <2>3, <2>a, <3>2, SMTT(20) DEF IncCluster
    <3> QED  BY <3>1, <3>2, Zenon
  <2>4. CASE RateUser(r) \/ RateCluster(r)
    BY <2>4, SMTT(20) DEF RateUser, RateCluster, incRate
  <2>5. CASE TokensUser(r) \/ TokensCluster(r)
    BY <2>5, Zenon DEF TokensUser, TokensCluster, AllowN
  <2>6. CASE UndoUser(r)
    <3>1. CASE a = user[r]
      BY <2>6, <2>a, <3>1, Zenon DEF UndoUser, undoQuery
    <3>2. CASE a # user[r]
      BY <2>6, <2>a, <3>2, Zenon DEF UndoUser, undoQuery
    <3> QED  BY <3>1, <3>2, Zenon
  <2>7. CASE UndoCluster(r)
    <3>1. CASE a = clusterUser(r)
      BY <2>7, <2>a, <3>1, Zenon DEF UndoCluster, undoQuery
    <3>2. CASE a # clusterUser(r)
      BY <2>7, <2>a, <3>2, Zenon DEF UndoCluster, undoQuery
    <3> QED  BY <3>1, <3>2, Zenon
  <2>8. CASE UndoRateUser(r) \/ UndoRateCluster(r)
    BY <2>8 DEF UndoRateUser, UndoRateCluster, undoRate
  <2>9. CASE Connect(r) \/ Retry(r) \/ Wake(r)
    BY <2>9, SMTT(20) DEF Connect, Retry, Wake
  <2>10. CASE LeaveQueue(r) \/ Return(r)
    BY <2>10 DEF LeaveQueue, Return
  <2> HIDE DEF Kept, Entered, Left, Counting, counts, countsUser, countsCluster, goto
  <2> QED
    BY <1>2, <2>1, <2>2, <2>3, <2>4, <2>5, <2>6, <2>7, <2>8, <2>9, <2>10, Zenon DEF incQueued
<1>3. ASSUME NEW r \in Requests, serve(r)
      PROVE  Kept(a) \/ Entered(r, a) \/ Left(r, a)
  <2>a. user[r] \in Accounts /\ clusterUser(r) \in Accounts /\ user[r] # clusterUser(r)
    BY AccountsOf, Zenon
  <2> USE DEF Kept, Entered, Left, Counting, counts, countsUser, countsCluster, goto
  <2>1. CASE Arrive(r) \/ Finish(r) \/ MoveOut(r) \/ MoveIn(r) \/ DecHost(r)
    BY <2>1 DEF Arrive, Finish, MoveOut, MoveIn, DecHost
  <2>2. CASE DecUser(r)
    <3>1. CASE a = user[r]
      BY <2>2, <2>a, <3>1, Zenon DEF DecUser, undoQuery
    <3>2. CASE a # user[r]
      BY <2>2, <2>a, <3>2, Zenon DEF DecUser, undoQuery
    <3> QED  BY <3>1, <3>2, Zenon
  <2>3. CASE DecCluster(r)
    <3>1. CASE a = clusterUser(r)
      BY <2>3, <2>a, <3>1, Zenon DEF DecCluster, undoQuery
    <3>2. CASE a # clusterUser(r)
      BY <2>3, <2>a, <3>2, Zenon DEF DecCluster, undoQuery
    <3> QED  BY <3>1, <3>2, Zenon
  <2> HIDE DEF Kept, Entered, Left, Counting, counts, countsUser, countsCluster, goto
  <2> QED
    BY <1>3, <2>1, <2>2, <2>3, Zenon DEF serve
<1>4. ASSUME NEW r \in Requests, DeadlinePasses(r) PROVE Kept(a)
  BY <1>4, Zenon DEF DeadlinePasses, Kept, Counting, counts
<1>5. ASSUME NEW b \in Configured, ResetRate(b) PROVE Kept(a)
  BY <1>5, Zenon DEF ResetRate, Kept, Counting, counts
<1> QED
  BY <1>1, <1>2, <1>3, <1>4, <1>5, Zenon DEF Next

\* The counters stay exact.
LEMMA CountersStep == TypeOK /\ CountersExact /\ [Next]_vars => CountersExact'
<1> SUFFICES ASSUME TypeOK, CountersExact, [Next]_vars, NEW a \in Accounts
             PROVE  queryCounter[a]' = Cardinality(Counting(a))'
  BY Zenon DEF CountersExact, Counting
<1> DEFINE S == Counting(a)
<1>1. S \in SUBSET Requests /\ queryCounter[a] = Cardinality(S)
  BY Zenon DEF CountersExact, Counting
<1>2. Cardinality(S) \in Nat /\ Cardinality(S) < Wrap
  BY <1>1, CardRange, Zenon
<1>3. CASE Kept(a)
  BY <1>1, <1>3, Zenon DEF Kept
<1>4. ASSUME NEW r \in Requests, Entered(r, a)
      PROVE  queryCounter[a]' = Cardinality(Counting(a))'
  <2>1. /\ Cardinality(S \cup {r}) = Cardinality(S) + 1
        /\ Cardinality(S) + 1 < Wrap
    BY <1>1, <1>4, CardPlus, Zenon DEF Entered
  <2>2. inc(Cardinality(S)) = Cardinality(S) + 1
    BY <1>2, <2>1, IncIsPlus, Zenon
  <2> QED  BY <1>1, <1>4, <2>1, <2>2, Zenon DEF Entered
<1>5. ASSUME NEW r \in Requests, Left(r, a)
      PROVE  queryCounter[a]' = Cardinality(Counting(a))'
  <2>1. /\ Cardinality(S \ {r}) = Cardinality(S) - 1
        /\ Cardinality(S) > 0
    BY <1>1, <1>5, CardMinus, Zenon DEF Left
  <2>2. dec(Cardinality(S)) = Cardinality(S) - 1
    BY <1>2, <2>1, DecIsMinus, Zenon
  <2> QED  BY <1>1, <1>5, <2>1, <2>2, Zenon DEF Left
<1> QED
  BY <1>3, <1>4, <1>5, CountingStep, Zenon

----------------------------------------------------------------------------
(* The concurrency limit.                                                  *)

\* The increment whose check succeeds: after it, all the requests that count
\* are within the limit, whether they pass their other checks or not.
Checked(a) == Cardinality(Counting(a)') <= maxConcurrentQueries[a]

\* No step makes a counted request pass, but the increment of its account, and
\* this one only if the value it returned is within the limit.
LEMMA PassingStep ==
  ASSUME TypeOK, ErrAgrees, CountersExact, CountersExact', [Next]_vars,
         NEW a \in Accounts, maxConcurrentQueries[a] > 0
  PROVE  Passing(a)' \subseteq Passing(a) \/ Checked(a)
<1>t. /\ pc \in [Requests -> Labels]
      /\ err \in [Requests -> {"nil", "limit"}]
      /\ queryCounter \in [Accounts -> 0..(Wrap - 1)]
  BY Zenon DEF TypeOK
<1> USE <1>t
<1>a. maxConcurrentQueries[a] \in Nat
  BY LimitsAssumption, Zenon
<1>b. Cardinality(Counting(a)') = queryCounter'[a]
  BY Zenon DEF CountersExact, Counting
<1>1. CASE UNCHANGED vars
  BY <1>1, Zenon DEF vars, Passing, counts
<1>2. ASSUME NEW r \in Requests, incQueued(r)
      PROVE  Passing(a)' \subseteq Passing(a) \/ Checked(a)
  <2>a. user[r] \in Accounts /\ clusterUser(r) \in Accounts /\ user[r] # clusterUser(r)
    BY AccountsOf, Zenon
  <2>b. inc(queryCounter[a]) \in Int
    BY CounterType
  <2> USE DEF Passing, counts, countsUser, countsCluster, goto
  <2>1. CASE QueueUser(r) \/ QueueCluster(r)
    BY <2>1, SMTT(20) DEF QueueUser, QueueCluster
  <2>2. CASE IncUser(r)
    <3>1. CASE a # user[r]
      BY <2>2, <2>a, <3>1 DEF IncUser
    <3>2. CASE a = user[r] /\ overConcurrent(a, inc(queryCounter[a]))
      BY <2>2, <2>a, <3>2, Zenon DEF IncUser
    <3>3. CASE a = user[r] /\ ~overConcurrent(a, inc(queryCounter[a]))
      <4>1. queryCounter'[a] = inc(queryCounter[a])
        BY <2>2, <3>3, Zenon DEF IncUser
      <4> QED  BY <3>3, <4>1, <1>a, <1>b, <2>b DEF overConcurrent, Checked
    <3> QED  BY <3>1, <3>2, <3>3, Zenon
  <2>3. CASE IncCluster(r)
    <3>1. CASE a # clusterUser(r)
      BY <2>3, <2>a, <3>1 DEF IncCluster, fail
    <3>2. CASE a = clusterUser(r) /\ overConcurrent(a, inc(queryCounter[a]))
      BY <2>3, <2>a, <3>2 DEF IncCluster, fail
    <3>3. CASE a = clusterUser(r) /\ ~overConcurrent(a, inc(queryCounter[a]))
      <4>1. queryCounter'[a] = inc(queryCounter[a])
        BY <2>3, <3>3, Zenon DEF IncCluster
      <4> QED  BY <3>3, <4>1, <1>a, <1>b, <2>b DEF overConcurrent, Checked
    <3> QED  BY <3>1, <3>2, <3>3, Zenon
  <2>4. CASE RateUser(r) \/ RateCluster(r)
    BY <2>4, SMTT(20) DEF RateUser, RateCluster, incRate, fail
  <2>5. CASE TokensUser(r) \/ TokensCluster(r)
    BY <2>5 DEF TokensUser, TokensCluster, AllowN, fail
  <2>6. CASE UndoUser(r) \/ UndoCluster(r)
    <3>1. CASE UndoUser(r)
      BY <3>1, Zenon DEF UndoUser, undoQuery
    <3>2. CASE UndoCluster(r)
      BY <3>2, Zenon DEF UndoCluster, undoQuery
    <3> QED  BY <2>6, <3>1, <3>2, Zenon
  <2>7. CASE UndoRateUser(r) \/ UndoRateCluster(r)
    <3>1. CASE UndoRateUser(r)
      BY <3>1, Zenon DEF UndoRateUser, undoRate
    <3>2. CASE UndoRateCluster(r)
      BY <3>2, Zenon DEF UndoRateCluster, undoRate
    <3> QED  BY <2>7, <3>1, <3>2, Zenon
  <2>8. CASE Connect(r) \/ Retry(r) \/ Wake(r)
    BY <2>8 DEF Connect, Retry, Wake
  <2>9. CASE LeaveQueue(r) \/ Return(r)
    BY <2>9, SMTT(20) DEF LeaveQueue, Return, ErrAgrees
  <2> HIDE DEF Passing, counts, countsUser, countsCluster, goto
  <2> QED
    BY <1>2, <2>1, <2>2, <2>3, <2>4, <2>5, <2>6, <2>7, <2>8, <2>9, Zenon DEF incQueued
<1>3. ASSUME NEW r \in Requests, serve(r) PROVE Passing(a)' \subseteq Passing(a)
  BY <1>3, SMTT(20) DEF serve, Arrive, Finish, MoveOut, MoveIn, DecUser, DecCluster, DecHost,
              undoQuery, goto, Passing, counts, countsUser, countsCluster
<1>4. ASSUME NEW r \in Requests, DeadlinePasses(r) PROVE Passing(a)' \subseteq Passing(a)
  BY <1>4, Zenon DEF DeadlinePasses, Passing, counts
<1>5. ASSUME NEW b \in Configured, ResetRate(b)
      PROVE  Passing(a)' \subseteq Passing(a)
  BY <1>5, Zenon DEF ResetRate, Passing, counts
<1> QED
  BY <1>1, <1>2, <1>3, <1>4, <1>5, Zenon DEF Next

\* The requests that pass stay within the limit.
LEMMA PassingLimitStep ==
  TypeOK /\ ErrAgrees /\ CountersExact /\ PassingLimit /\ [Next]_vars => PassingLimit'
<1> SUFFICES ASSUME TypeOK, ErrAgrees, CountersExact, PassingLimit, [Next]_vars,
                    NEW a \in Accounts, maxConcurrentQueries[a] > 0
             PROVE  Cardinality(Passing(a)') <= maxConcurrentQueries[a]
  BY Zenon DEF PassingLimit
<1>a. maxConcurrentQueries[a] \in Nat
  BY LimitsAssumption, Zenon
<1>b. /\ Passing(a) \in SUBSET Requests
      /\ Counting(a)' \in SUBSET Requests
      /\ Passing(a)' \subseteq Counting(a)'
  BY Zenon DEF Passing, Counting
<1>c. Passing(a)' \in SUBSET Requests
  BY <1>b, Zenon
<1>1. CASE Passing(a)' \subseteq Passing(a)
  <2>1. Cardinality(Passing(a)') <= Cardinality(Passing(a))
    BY <1>b, <1>1, CardRange, FS_Subset, Zenon
  <2> QED  BY <2>1, <1>a, <1>b, <1>c, CardRange DEF PassingLimit
<1>2. CASE Checked(a)
  <2>1. Cardinality(Passing(a)') <= Cardinality(Counting(a)')
    BY <1>b, CardRange, FS_Subset, Zenon
  <2> QED  BY <2>1, <1>2, <1>a, <1>b, <1>c, CardRange DEF Checked
<1> QED
  BY <1>1, <1>2, CountersStep, PassingStep, Zenon

----------------------------------------------------------------------------
(* Queues, connections and the invariant.                                  *)

\* Only the two queues of a request can hold its slots.
SlotsAgree ==
  \A r \in Requests :
    /\ slots[r] \subseteq {user[r], clusterUser(r)}
    /\ pc[r] = "queueU" => slots[r] = {}
    /\ pc[r] = "queueC" => slots[r] \subseteq {user[r]}

\* The goroutines connected to a host, and those in a queue.
Connected(h) == {r \in Requests : connected(r, h)}
Queued(a)    == {r \in Requests : a \in slots[r]}

IInv == /\ TypeOK
        /\ ErrAgrees
        /\ SlotsAgree
        /\ CountersExact
        /\ PassingLimit
        /\ ConnectionsExact
        /\ QueueExact

----------------------------------------------------------------------------
(* The connections of the hosts.                                           *)

\* What a step does to the connections of one host.
Opened(r, h)   == /\ r \notin Connected(h)
                  /\ Connected(h)' = Connected(h) \cup {r}
                  /\ connections[h]' = inc(connections[h])
Closed(r, h)   == /\ r \in Connected(h)
                  /\ Connected(h)' = Connected(h) \ {r}
                  /\ connections[h]' = dec(connections[h])
Untouched(h)   == /\ Connected(h)' = Connected(h)
                  /\ connections[h]' = connections[h]

\* Each step changes the counter of a host together with the requests connected
\* to it; a host is chosen or changed only while its request is not connected.
LEMMA ConnectedStep ==
  ASSUME TypeOK, [Next]_vars, NEW h \in Hosts
  PROVE  Untouched(h) \/ \E r \in Requests : Opened(r, h) \/ Closed(r, h)
<1>t. /\ pc \in [Requests -> Labels]
      /\ host \in [Requests -> Hosts]
      /\ connections \in [Hosts -> 0..(Wrap - 1)]
  BY Zenon DEF TypeOK
<1> USE <1>t DEF Untouched, Opened, Closed, Connected, connected
<1>1. CASE UNCHANGED vars
  BY <1>1, Zenon DEF vars
<1>2. ASSUME NEW r \in Requests, incQueued(r)
      PROVE  Untouched(h) \/ Opened(r, h) \/ Closed(r, h)
  <2> USE DEF goto
  <2>1. CASE QueueUser(r) \/ QueueCluster(r)
    BY <2>1, Zenon DEF QueueUser, QueueCluster
  <2>2. CASE IncUser(r) \/ IncCluster(r)
    BY <2>2, Zenon DEF IncUser, IncCluster
  <2>3. CASE RateUser(r) \/ RateCluster(r)
    BY <2>3, Zenon DEF RateUser, RateCluster, incRate
  <2>4. CASE TokensUser(r) \/ TokensCluster(r)
    BY <2>4, Zenon DEF TokensUser, TokensCluster, AllowN
  <2>5. CASE UndoUser(r) \/ UndoCluster(r)
    BY <2>5, Zenon DEF UndoUser, UndoCluster, undoQuery
  <2>6. CASE UndoRateUser(r) \/ UndoRateCluster(r)
    BY <2>6, Zenon DEF UndoRateUser, UndoRateCluster, undoRate
  <2>7. CASE Connect(r)
    <3>1. CASE h = host[r]
      BY <2>7, <3>1, Zenon DEF Connect
    <3>2. CASE h # host[r]
      BY <2>7, <3>2, Zenon DEF Connect
    <3> QED  BY <3>1, <3>2, Zenon
  <2>8. CASE Retry(r) \/ Wake(r)
    BY <2>8, Zenon DEF Retry, Wake
  <2>9. CASE LeaveQueue(r) \/ Return(r)
    BY <2>9, Zenon DEF LeaveQueue, Return
  <2> HIDE DEF Untouched, Opened, Closed, Connected, connected, goto
  <2> QED
    BY <1>2, <2>1, <2>2, <2>3, <2>4, <2>5, <2>6, <2>7, <2>8, <2>9 DEF incQueued
<1>3. ASSUME NEW r \in Requests, serve(r)
      PROVE  Untouched(h) \/ Opened(r, h) \/ Closed(r, h)
  <2> USE DEF goto
  <2>1. CASE Arrive(r) \/ Finish(r)
    BY <2>1, Zenon DEF Arrive, Finish
  <2>2. CASE DecUser(r) \/ DecCluster(r)
    BY <2>2, Zenon DEF DecUser, DecCluster, undoQuery
  <2>3. CASE MoveOut(r)
    <3>1. CASE h = host[r]
      BY <2>3, <3>1, Zenon DEF MoveOut
    <3>2. CASE h # host[r]
      BY <2>3, <3>2, Zenon DEF MoveOut
    <3> QED  BY <3>1, <3>2, Zenon
  <2>4. CASE MoveIn(r)
    <3>1. CASE h = host[r]
      BY <2>4, <3>1, Zenon DEF MoveIn
    <3>2. CASE h # host[r]
      BY <2>4, <3>2, Zenon DEF MoveIn
    <3> QED  BY <3>1, <3>2, Zenon
  <2>5. CASE DecHost(r)
    <3>1. CASE h = host[r]
      BY <2>5, <3>1, Zenon DEF DecHost
    <3>2. CASE h # host[r]
      BY <2>5, <3>2, Zenon DEF DecHost
    <3> QED  BY <3>1, <3>2, Zenon
  <2> HIDE DEF Untouched, Opened, Closed, Connected, connected, goto
  <2> QED
    BY <1>3, <2>1, <2>2, <2>3, <2>4, <2>5, Zenon DEF serve
<1>4. ASSUME NEW r \in Requests, DeadlinePasses(r) PROVE Untouched(h)
  BY <1>4, Zenon DEF DeadlinePasses
<1>5. ASSUME NEW b \in Configured, ResetRate(b) PROVE Untouched(h)
  BY <1>5, Zenon DEF ResetRate
<1> HIDE DEF Untouched, Opened, Closed, Connected, connected
<1> QED
  BY <1>1, <1>2, <1>3, <1>4, <1>5, Zenon DEF Next

\* The connection counters stay exact.
LEMMA ConnectionsStep == TypeOK /\ ConnectionsExact /\ [Next]_vars => ConnectionsExact'
<1> SUFFICES ASSUME TypeOK, ConnectionsExact, [Next]_vars, NEW h \in Hosts
             PROVE  connections[h]' = Cardinality(Connected(h))'
  BY Zenon DEF ConnectionsExact, Connected
<1> DEFINE S == Connected(h)
<1>1. S \in SUBSET Requests /\ connections[h] = Cardinality(S)
  BY Zenon DEF ConnectionsExact, Connected
<1>2. Cardinality(S) \in Nat /\ Cardinality(S) < Wrap
  BY <1>1, CardRange, Zenon
<1>3. CASE Untouched(h)
  BY <1>1, <1>3, Zenon DEF Untouched
<1>4. ASSUME NEW r \in Requests, Opened(r, h)
      PROVE  connections[h]' = Cardinality(Connected(h))'
  <2>1. /\ Cardinality(S \cup {r}) = Cardinality(S) + 1
        /\ Cardinality(S) + 1 < Wrap
    BY <1>1, <1>4, CardPlus, Zenon DEF Opened
  <2>2. inc(Cardinality(S)) = Cardinality(S) + 1
    BY <1>2, <2>1, IncIsPlus, Zenon
  <2> QED  BY <1>1, <1>4, <2>1, <2>2, Zenon DEF Opened
<1>5. ASSUME NEW r \in Requests, Closed(r, h)
      PROVE  connections[h]' = Cardinality(Connected(h))'
  <2>1. /\ Cardinality(S \ {r}) = Cardinality(S) - 1
        /\ Cardinality(S) > 0
    BY <1>1, <1>5, CardMinus, Zenon DEF Closed
  <2>2. dec(Cardinality(S)) = Cardinality(S) - 1
    BY <1>2, <2>1, DecIsMinus, Zenon
  <2> QED  BY <1>1, <1>5, <2>1, <2>2, Zenon DEF Closed
<1> QED
  BY <1>3, <1>4, <1>5, ConnectedStep, Zenon

----------------------------------------------------------------------------
(* The request queues.                                                     *)

\* Outside incQueued a request holds no slot (the second part of QueueExact).
NoSlotOutside ==
  \A r \in Requests :
    pc[r] \in {"idle", "running", "move", "decU", "decC", "decH"} => slots[r] = {}

\* A goroutine takes slots only at the two queue labels and gives all of them back
\* before its label leaves incQueued.
LEMMA SlotsStep ==
  TypeOK /\ SlotsAgree /\ NoSlotOutside /\ [Next]_vars => SlotsAgree' /\ NoSlotOutside'
<1> SUFFICES ASSUME TypeOK, SlotsAgree, NoSlotOutside, [Next]_vars
             PROVE  SlotsAgree' /\ NoSlotOutside'
  OBVIOUS
<1>t. /\ pc \in [Requests -> Labels]
      /\ slots \in [Requests -> SUBSET Accounts]
  BY Zenon DEF TypeOK
<1> USE <1>t DEF SlotsAgree, NoSlotOutside
<1>1. CASE UNCHANGED vars
  BY <1>1, Zenon DEF vars, clusterUser
<1>2. ASSUME NEW r \in Requests, incQueued(r) PROVE SlotsAgree' /\ NoSlotOutside'
  <2>a. clusterUser(r)' = clusterUser(r)
    BY Zenon DEF clusterUser
  <2> USE DEF goto, clusterUser
  <2>1. CASE QueueUser(r)
    BY <2>1 DEF QueueUser, enqueue
  <2>2. CASE QueueCluster(r)
    BY <2>2 DEF QueueCluster, enqueue
  <2>3. CASE IncUser(r) \/ IncCluster(r)
    BY <2>3 DEF IncUser, IncCluster
  <2>4. CASE RateUser(r) \/ RateCluster(r)
    BY <2>4 DEF RateUser, RateCluster, incRate
  <2>5. CASE TokensUser(r) \/ TokensCluster(r)
    BY <2>5 DEF TokensUser, TokensCluster, AllowN
  <2>6. CASE UndoUser(r) \/ UndoCluster(r)
    BY <2>6 DEF UndoUser, UndoCluster, undoQuery
  <2>7. CASE UndoRateUser(r) \/ UndoRateCluster(r)
    BY <2>7, Zenon DEF UndoRateUser, UndoRateCluster, undoRate
  <2>8. CASE Connect(r) \/ Retry(r) \/ Wake(r)
    BY <2>8 DEF Connect, Retry, Wake
  <2>9. CASE LeaveQueue(r) \/ Return(r)
    BY <2>9 DEF LeaveQueue, dequeue, Return
  <2> HIDE DEF SlotsAgree, NoSlotOutside, goto, clusterUser
  <2> QED
    BY <1>2, <2>1, <2>2, <2>3, <2>4, <2>5, <2>6, <2>7, <2>8, <2>9, Zenon DEF incQueued
<1>3. ASSUME NEW r \in Requests, serve(r) PROVE SlotsAgree' /\ NoSlotOutside'
  BY <1>3 DEF serve, Arrive, Finish, MoveOut, MoveIn, DecUser, DecCluster, DecHost,
              undoQuery, goto, clusterUser
<1>4. ASSUME NEW r \in Requests, DeadlinePasses(r) PROVE SlotsAgree' /\ NoSlotOutside'
  BY <1>4, Zenon DEF DeadlinePasses, clusterUser
<1>5. ASSUME NEW b \in Configured, ResetRate(b)
      PROVE  SlotsAgree' /\ NoSlotOutside'
  BY <1>5, Zenon DEF ResetRate, clusterUser
<1> HIDE DEF SlotsAgree, NoSlotOutside
<1> QED
  BY <1>1, <1>2, <1>3, <1>4, <1>5, Zenon DEF Next

\* What a step does to one queue.
Sent(r, a)     == /\ r \notin Queued(a)
                  /\ Queued(a)' = Queued(a) \cup {r}
                  /\ queueCh[a]' = queueCh[a] + 1
                  /\ queueCh[a] < maxQueueSize[a]
Received(r, a) == /\ r \in Queued(a)
                  /\ Queued(a)' = Queued(a) \ {r}
                  /\ queueCh[a]' = queueCh[a] - 1
Same(a)        == /\ Queued(a)' = Queued(a)
                  /\ queueCh[a]' = queueCh[a]

\* Each step changes the occupancy of a queue together with the slots held.
LEMMA QueuedStep ==
  ASSUME TypeOK, SlotsAgree, [Next]_vars, NEW a \in Accounts
  PROVE  Same(a) \/ \E r \in Requests : Sent(r, a) \/ Received(r, a)
<1>t. /\ pc \in [Requests -> Labels]
      /\ slots \in [Requests -> SUBSET Accounts]
      /\ queueCh \in [Accounts -> Nat]
  BY Zenon DEF TypeOK
<1> USE <1>t DEF Same, Sent, Received, Queued
<1>1. CASE UNCHANGED vars
  BY <1>1, Zenon DEF vars
<1>2. ASSUME NEW r \in Requests, QueueUser(r) PROVE Same(a) \/ Sent(r, a)
  <2>a. user[r] \in Accounts
    BY AccountsOf, Zenon
  <2>1. CASE enqueue(r, user[r])
    <3>1. CASE a = user[r]
      BY <1>2, <2>a, <2>1, <3>1 DEF QueueUser, enqueue, SlotsAgree
    <3>2. CASE a # user[r]
      BY <2>a, <2>1, <3>2, Zenon DEF enqueue
    <3> QED  BY <3>1, <3>2, Zenon
  <2>2. CASE UNCHANGED <<queueCh, slots>>
    BY <2>2, Zenon
  <2> QED  BY <1>2, <2>1, <2>2, Zenon DEF QueueUser
<1>3. ASSUME NEW r \in Requests, QueueCluster(r) PROVE Same(a) \/ Sent(r, a)
  <2>a. clusterUser(r) \in Accounts /\ clusterUser(r) # user[r]
    BY AccountsOf, Zenon
  <2>1. CASE enqueue(r, clusterUser(r))
    <3>1. CASE a = clusterUser(r)
      BY <1>3, <2>a, <2>1, <3>1 DEF QueueCluster, enqueue, SlotsAgree
    <3>2. CASE a # clusterUser(r)
      BY <2>a, <2>1, <3>2, Zenon DEF enqueue
    <3> QED  BY <3>1, <3>2, Zenon
  <2>2. CASE UNCHANGED <<queueCh, slots>>
    BY <2>2, Zenon
  <2> QED  BY <1>3, <2>1, <2>2, Zenon DEF QueueCluster
<1>4. ASSUME NEW r \in Requests, LeaveQueue(r) PROVE Same(a) \/ Received(r, a)
  <2>1. ASSUME NEW b \in Accounts, dequeue(r, b) PROVE Same(a) \/ Received(r, a)
    <3>1. CASE a = b
      BY <2>1, <3>1, Zenon DEF dequeue
    <3>2. CASE a # b
      BY <2>1, <3>2, Zenon DEF dequeue
    <3> QED  BY <3>1, <3>2, Zenon
  <2> QED  BY <1>4, <2>1, AccountsOf, Zenon DEF LeaveQueue
<1>5. ASSUME NEW r \in Requests,
             incQueued(r), ~QueueUser(r), ~QueueCluster(r), ~LeaveQueue(r)
      PROVE  Same(a)
  <2>1. UNCHANGED <<queueCh, slots>>
    BY <1>5, Zenon DEF incQueued, IncUser, IncCluster, RateUser, RateCluster, incRate,
                TokensUser, TokensCluster, AllowN, UndoUser, UndoCluster, undoQuery,
                UndoRateUser, UndoRateCluster, undoRate, Connect, Retry, Wake, Return
  <2> QED  BY <2>1, Zenon
<1>6. ASSUME NEW r \in Requests, serve(r) \/ DeadlinePasses(r) PROVE Same(a)
  <2>1. UNCHANGED <<queueCh, slots>>
    BY <1>6, Zenon DEF serve, Arrive, Finish, MoveOut, MoveIn, DecUser, DecCluster, DecHost,
                undoQuery, DeadlinePasses
  <2> QED  BY <2>1, Zenon
<1>7. ASSUME NEW b \in Configured, ResetRate(b) PROVE Same(a)
  BY <1>7, Zenon DEF ResetRate
<1> HIDE DEF Same, Sent, Received, Queued
<1> QED
  BY <1>1, <1>2, <1>3, <1>4, <1>5, <1>6, <1>7, Zenon DEF Next, incQueued

\* The queues stay exact and within their capacity.
LEMMA QueueStep ==
  TypeOK /\ SlotsAgree /\ QueueExact /\ [Next]_vars => QueueExact'
<1> SUFFICES ASSUME TypeOK, SlotsAgree, QueueExact, [Next]_vars PROVE QueueExact'
  OBVIOUS
<1>1. NoSlotOutside'
  BY SlotsStep, Zenon DEF NoSlotOutside, QueueExact
<1>2. ASSUME NEW a \in Accounts
      PROVE  /\ queueCh[a]' = Cardinality(Queued(a))'
             /\ queueCh[a]' <= maxQueueSize[a]
  <2> DEFINE S == Queued(a)
  <2>1. /\ S \in SUBSET Requests
        /\ queueCh[a] = Cardinality(S)
        /\ queueCh[a] <= maxQueueSize[a]
        /\ maxQueueSize[a] \in Nat
    BY LimitsAssumption, Zenon DEF QueueExact, Queued
  <2>2. Cardinality(S) \in Nat
    BY <2>1, CardRange, Zenon
  <2>3. CASE Same(a)
    BY <2>1, <2>3, Zenon DEF Same
  <2>4. ASSUME NEW r \in Requests, Sent(r, a)
        PROVE  queueCh[a]' = Cardinality(Queued(a))' /\ queueCh[a]' <= maxQueueSize[a]
    <3>1. Cardinality(S \cup {r}) = Cardinality(S) + 1
      BY <2>1, <2>4, CardPlus, Zenon DEF Sent
    <3> QED  BY <2>1, <2>2, <2>4, <3>1 DEF Sent
  <2>5. ASSUME NEW r \in Requests, Received(r, a)
        PROVE  queueCh[a]' = Cardinality(Queued(a))' /\ queueCh[a]' <= maxQueueSize[a]
    <3>1. Cardinality(S \ {r}) = Cardinality(S) - 1
      BY <2>1, <2>5, CardMinus, Zenon DEF Received
    <3> QED  BY <2>1, <2>2, <2>5, <3>1 DEF Received
  <2> QED
    BY <2>3, <2>4, <2>5, QueuedStep, Zenon
<1> QED
  BY <1>1, <1>2, Zenon DEF QueueExact, Queued, NoSlotOutside

----------------------------------------------------------------------------
(* The invariant.                                                          *)

\* At the start nothing is counted, connected or queued.
LEMMA InvInit == Init => IInv
<1> SUFFICES ASSUME Init PROVE IInv
  OBVIOUS
<1>1. TypeOK
  BY TypeInit, Zenon
<1>2. ErrAgrees /\ SlotsAgree
  BY Zenon DEF Init, ErrAgrees, SlotsAgree
<1>3. /\ \A a \in Accounts : Counting(a) = {} /\ Passing(a) = {} /\ Queued(a) = {}
      /\ \A h \in Hosts : Connected(h) = {}
  BY Zenon DEF Init, Counting, counts, countsUser, countsCluster, Passing, Queued,
         Connected, connected
<1>4. CountersExact /\ ConnectionsExact /\ QueueExact
  <2>1. \A a \in Accounts : queryCounter[a] = Cardinality(Counting(a))
    BY <1>3, FS_EmptySet, Zenon DEF Init
  <2>2. \A h \in Hosts : connections[h] = Cardinality(Connected(h))
    BY <1>3, FS_EmptySet, Zenon DEF Init
  <2>3. \A a \in Accounts : /\ queueCh[a] = Cardinality(Queued(a))
                            /\ queueCh[a] <= maxQueueSize[a]
    <3> SUFFICES ASSUME NEW a \in Accounts
                 PROVE  queueCh[a] = Cardinality(Queued(a)) /\ queueCh[a] <= maxQueueSize[a]
      OBVIOUS
    <3>1. queueCh[a] = 0 /\ maxQueueSize[a] \in Nat
      BY LimitsAssumption, Zenon DEF Init
    <3>2. Cardinality(Queued(a)) = 0
      BY <1>3, FS_EmptySet, Zenon
    <3> QED  BY <3>1, <3>2
  <2>4. NoSlotOutside
    BY Zenon DEF Init, NoSlotOutside
  <2> QED
    BY <2>1, <2>2, <2>3, <2>4, Zenon DEF CountersExact, ConnectionsExact, QueueExact,
                                  Counting, Connected, Queued, NoSlotOutside
<1>5. PassingLimit
  BY <1>3, FS_EmptySet, LimitsAssumption DEF PassingLimit
<1> QED
  BY <1>1, <1>2, <1>4, <1>5, Zenon DEF IInv

\* Each conjunct of the invariant is kept by the lemmas above.
LEMMA InvStep == IInv /\ [Next]_vars => IInv'
<1> SUFFICES ASSUME IInv, [Next]_vars PROVE IInv'
  OBVIOUS
<1>1. TypeOK' /\ ErrAgrees'
  BY TypeStep, ErrStep, Zenon DEF IInv
<1>2. CountersExact' /\ PassingLimit'
  BY CountersStep, PassingLimitStep, Zenon DEF IInv
<1>3. SlotsAgree'
  BY SlotsStep, Zenon DEF IInv, QueueExact, NoSlotOutside
<1>4. ConnectionsExact' /\ QueueExact'
  BY ConnectionsStep, QueueStep, Zenon DEF IInv
<1> QED
  BY <1>1, <1>2, <1>3, <1>4, Zenon DEF IInv

\* Type correctness: whatever the interleaving, counters stay within their width
\* and every goroutine is at a label of its handler (scope.go:103-306).
THEOREM TypeCorrect == Spec => []TypeOK
BY TypeInit, TypeStep, PTL DEF Spec

\* The inductive invariant holds of every execution of the admission code
\* (scope.go:103-306): the properties below follow from it.
THEOREM Invariant == Spec => []IInv
BY InvInit, InvStep, PTL DEF Spec

\* An admitted request has passed its checks, so the limit on the latter holds
\* of the former.
LEMMA LimitFromInv == IInv => ConcurrencyLimit
<1> SUFFICES ASSUME IInv, NEW a \in Accounts, maxConcurrentQueries[a] > 0
             PROVE  Cardinality({r \in Requests : admitted(r) /\ a \in {user[r], clusterUser(r)}})
                      <= maxConcurrentQueries[a]
  BY Zenon DEF ConcurrencyLimit
<1> DEFINE A == {r \in Requests : admitted(r) /\ a \in {user[r], clusterUser(r)}}
<1>1. A \subseteq Passing(a) /\ Passing(a) \in SUBSET Requests
  BY Zenon DEF IInv, ErrAgrees, admitted, Passing, counts, countsUser, countsCluster
<1>2. Cardinality(A) <= Cardinality(Passing(a))
  BY <1>1, CardRange, FS_Subset, Zenon
<1>3. /\ Cardinality(A) \in Nat /\ Cardinality(Passing(a)) \in Nat
      /\ maxConcurrentQueries[a] \in Nat
  BY <1>1, CardRange, LimitsAssumption, Zenon
<1> QED
  BY <1>2, <1>3 DEF IInv, PassingLimit

\* max_concurrent_queries is never exceeded by the count-then-check of scope.inc
\* (scope.go:213-246): for a user by any of its requests, for a cluster user by
\* the requests whose user was addressed by name.  A request that matched a
\* wildcarded user counts on a copy of the cluster user (proxy.go:873), whose
\* limit binds nobody else.
THEOREM LimitHolds == Spec => []ConcurrencyLimit
BY Invariant, LimitFromInv, PTL

\* The query counters of users and cluster users never drift (scope.go:213-246,
\* 298-306), and the connections of a node never leak across retries
\* (proxy.go:250-255).
THEOREM NothingLeaks == Spec => [](CountersExact /\ ConnectionsExact)
<1>1. IInv => CountersExact /\ ConnectionsExact
  BY Zenon DEF IInv
<1> QED  BY <1>1, Invariant, PTL

\* The request queues never exceed their capacity, and every slot is given back
\* before incQueued returns (scope.go:117-149).
THEOREM QueueHolds == Spec => []QueueExact
<1>1. IInv => QueueExact
  BY Zenon DEF IInv
<1> QED  BY <1>1, Invariant, PTL

----------------------------------------------------------------------------
(* The admission as one decision.                                          *)

asks == Labels \ {"idle", "connect", "accept", "running", "move", "decU", "decC", "decH"}
runs == {"connect", "accept", "running", "move", "decU"}

\* No label is on both sides of the decision.
LEMMA Sides == asks \subseteq Labels /\ runs \subseteq Labels /\ asks \cap runs = {}
BY Zenon DEF asks, runs, Labels

\* A step that moves one goroutine from label l to label m, seen from Abstract.
LEMMA Seen ==
  ASSUME TypeOK, NEW r \in Requests, NEW l \in Labels, NEW m \in Labels,
         pc[r] = l, pc' = [pc EXCEPT ![r] = m]
  PROVE  /\ waiting' = IF m \in asks THEN waiting \cup {r} ELSE waiting \ {r}
         /\ inside' = IF m \in runs THEN inside \cup {r} ELSE inside \ {r}
         /\ r \in waiting <=> l \in asks
         /\ r \in inside <=> l \in runs
<1>1. pc \in [Requests -> Labels]
  BY Zenon DEF TypeOK
<1> QED
  BY <1>1, Zenon DEF waiting, inside, admitted, asks, runs

\* A step that stays on its side of the decision is a stutter.
LEMMA SameSide ==
  ASSUME TypeOK, NEW r \in Requests, NEW l \in Labels, NEW m \in Labels,
         pc[r] = l, pc' = [pc EXCEPT ![r] = m],
         l \in asks <=> m \in asks, l \in runs <=> m \in runs
  PROVE  UNCHANGED <<waiting, inside>>
<1>1. /\ waiting' = IF m \in asks THEN waiting \cup {r} ELSE waiting \ {r}
      /\ inside' = IF m \in runs THEN inside \cup {r} ELSE inside \ {r}
      /\ r \in waiting <=> m \in asks
      /\ r \in inside <=> m \in runs
  BY Seen, Zenon
<1> QED  BY <1>1, Zenon

\* The steps of incQueued: the last check lets the request in, Return refuses
\* it, and the others change nothing.
LEMMA QueuedSeen ==
  ASSUME IInv, ConcurrencyLimit', NEW r \in Requests, incQueued(r)
  PROVE  Abstract!LetIn(r) \/ Abstract!Refuse(r) \/ UNCHANGED <<waiting, inside>>
<1>t. TypeOK /\ pc \in [Requests -> Labels] /\ err \in [Requests -> {"nil", "limit"}]
  BY Zenon DEF IInv, TypeOK
<1> USE <1>t
<1>1. CASE TokensCluster(r)
  <2>1. PICK m \in {"connect", "undoU"} : pc' = [pc EXCEPT ![r] = m]
    BY <1>1, Zenon DEF TokensCluster, goto
  <2>l. pc[r] = "tokC"
    BY <1>1, Zenon DEF TokensCluster
  <2>s. /\ {"tokC", "undoU", "connect"} \subseteq Labels
        /\ {"tokC", "undoU"} \subseteq asks \ runs /\ "connect" \in runs \ asks
    BY Zenon DEF Labels, asks, runs
  <2>2. CASE m = "undoU"
    BY <2>l, <2>s, <2>1, <2>2, SameSide, Zenon
  <2>3. CASE m = "connect"
    <3>1. /\ waiting' = waiting \ {r} /\ r \in waiting
          /\ inside' = inside \cup {r}
      BY <2>l, <2>s, <2>1, <2>3, Seen, Zenon
    <3>2. ASSUME NEW a \in Accounts, maxConcurrentQueries[a] > 0
          PROVE  Cardinality({q \in inside \cup {r} : a \in {user[q], clusterUser(q)}})
                   <= maxConcurrentQueries[a]
      <4>1. {q \in inside \cup {r} : a \in {user[q], clusterUser(q)}}
              = {q \in Requests : admitted(q)' /\ a \in {user[q], clusterUser(q)}}
        BY <3>1, Zenon DEF inside
      <4>2. \A q \in Requests : clusterUser(q)' = clusterUser(q)
        BY Zenon DEF clusterUser
      <4> QED  BY <3>2, <4>1, <4>2, Zenon DEF ConcurrencyLimit
    <3>3. \A a \in Accounts : Abstract!fits(inside \cup {r}, a)
      <4> SUFFICES ASSUME NEW a \in Accounts PROVE Abstract!fits(inside \cup {r}, a)
        OBVIOUS
      <4>1. inside \cup {r} \subseteq Requests
        BY Zenon DEF inside
      <4>2. {q \in inside \cup {r} : a \in [p \in Requests |-> {user[p], clusterUser(p)}][q]}
              = {q \in inside \cup {r} : a \in {user[q], clusterUser(q)}}
        BY <4>1, Zenon
      <4>3. \A S : Abstract!Cardinality(S) = Cardinality(S)
        BY Zenon DEF Abstract!Cardinality, Cardinality
      <4> QED  BY <3>2, <4>2, <4>3, Zenon DEF Abstract!fits
    <3> QED  BY <3>1, <3>3, Zenon DEF Abstract!LetIn
  <2> QED  BY <2>1, <2>2, <2>3, Zenon
<1>2. CASE Return(r)
  <2>1. CASE pc[r] = "accept"
    BY <1>2, <2>1, SameSide, Zenon DEF Return, goto, Labels, asks, runs
  <2>2. CASE pc[r] = "reject"
    <3>1. pc' = [pc EXCEPT ![r] = "idle"]
      BY <1>2, <2>2, Zenon DEF Return, goto
    <3>0. /\ {"reject", "idle"} \subseteq Labels
          /\ "reject" \in asks \ runs /\ "idle" \notin asks \cup runs
      BY Zenon DEF Labels, asks, runs
    <3>2. waiting' = waiting \ {r} /\ inside' = inside \ {r} /\ r \in waiting /\ r \notin inside
      BY <2>2, <3>0, <3>1, Seen, Zenon
    <3> QED  BY <3>2, Zenon DEF Abstract!Refuse
  <2> QED  BY <1>2, <2>1, <2>2, Zenon DEF Return
<1>3. CASE LeaveQueue(r)
  BY <1>3, Zenon DEF LeaveQueue, waiting, inside, admitted
<1>4. CASE QueueUser(r) \/ QueueCluster(r) \/ IncUser(r) \/ IncCluster(r)
  <2>1. PICK l \in asks, m \in asks : pc[r] = l /\ pc' = [pc EXCEPT ![r] = m]
    BY <1>4, Zenon DEF Labels, asks, QueueUser, QueueCluster, IncUser, IncCluster, goto
  <2> QED  BY <2>1, SameSide, Sides, Zenon
<1>5. CASE RateUser(r) \/ RateCluster(r) \/ TokensUser(r) \/ Retry(r) \/ Wake(r)
  <2>1. PICK l \in asks, m \in asks : pc[r] = l /\ pc' = [pc EXCEPT ![r] = m]
    BY <1>5, Zenon DEF Labels, asks, RateUser, RateCluster, TokensUser, Retry, Wake, goto
  <2> QED  BY <2>1, SameSide, Sides, Zenon
<1>6. CASE UndoUser(r) \/ UndoCluster(r) \/ UndoRateUser(r) \/ UndoRateCluster(r)
  <2>1. PICK l \in asks, m \in asks : pc[r] = l /\ pc' = [pc EXCEPT ![r] = m]
    BY <1>6, Zenon DEF Labels, asks, UndoUser, UndoCluster, UndoRateUser, UndoRateCluster, goto
  <2> QED  BY <2>1, SameSide, Sides, Zenon
<1>7. CASE Connect(r)
  BY <1>7, SameSide, Zenon DEF Connect, goto, Labels, asks, runs
<1> QED
  BY <1>1, <1>2, <1>3, <1>4, <1>5, <1>6, <1>7, Zenon DEF incQueued

\* The other steps: a request asks when it arrives and leaves with the first
\* decrement of dec.
LEMMA ServeSeen ==
  ASSUME IInv, NEW r \in Requests, serve(r)
  PROVE  Abstract!Ask(r) \/ Abstract!Leave(r) \/ UNCHANGED <<waiting, inside>>
<1>t. TypeOK /\ pc \in [Requests -> Labels]
  BY Zenon DEF IInv, TypeOK
<1> USE <1>t
<1>1. CASE Arrive(r)
  <2>1. pc[r] = "idle" /\ pc' = [pc EXCEPT ![r] = "queueU"]
    BY <1>1, Zenon DEF Arrive, goto
  <2>0. /\ "idle" \in Labels /\ "queueU" \in Labels /\ "idle" \notin asks \cup runs
        /\ "queueU" \in asks /\ "queueU" \notin runs
    BY Zenon DEF Labels, asks, runs
  <2>2. waiting' = waiting \cup {r} /\ inside' = inside \ {r} /\ r \notin waiting /\ r \notin inside
    BY <2>0, <2>1, Seen, Zenon
  <2> QED  BY <2>2, Zenon DEF Abstract!Ask
<1>2. CASE DecUser(r)
  <2>1. pc[r] = "decU" /\ pc' = [pc EXCEPT ![r] = "decC"]
    BY <1>2, Zenon DEF DecUser, goto
  <2>0. "decU" \in Labels /\ "decC" \in Labels /\ "decU" \in runs /\ "decU" \notin asks /\ "decC" \notin asks \cup runs
    BY Zenon DEF Labels, asks, runs
  <2>2. waiting' = waiting \ {r} /\ inside' = inside \ {r} /\ r \notin waiting /\ r \in inside
    BY <2>0, <2>1, Seen, Zenon
  <2> QED  BY <2>2, Zenon DEF Abstract!Leave
<1>3. CASE MoveOut(r)
  BY <1>3, SameSide, Zenon DEF MoveOut, goto, Labels, asks, runs
<1>4. CASE MoveIn(r)
  BY <1>4, SameSide, Zenon DEF MoveIn, goto, Labels, asks, runs
<1>5. CASE Finish(r)
  BY <1>5, SameSide, Zenon DEF Finish, goto, Labels, asks, runs
<1>6. CASE DecCluster(r)
  BY <1>6, SameSide, Zenon DEF DecCluster, goto, Labels, asks, runs
<1>7. CASE DecHost(r)
  BY <1>7, SameSide, Zenon DEF DecHost, goto, Labels, asks, runs
<1> QED
  BY <1>1, <1>2, <1>3, <1>4, <1>5, <1>6, <1>7, Zenon DEF serve

\* The admission code implements the atomic decision of Admission for every set
\* of goroutines and every choice of limits (scope.go:103-306).
THEOREM AdmissionRefined == Spec => Admits
<1>1. Init => Abstract!Init
  BY DEF Init, Abstract!Init, waiting, inside, admitted
<1>2. IInv /\ ConcurrencyLimit' /\ [Next]_vars => [Abstract!Next]_<<waiting, inside>>
  <2> SUFFICES ASSUME IInv, ConcurrencyLimit', [Next]_vars
               PROVE  Abstract!Next \/ UNCHANGED <<waiting, inside>>
    OBVIOUS
  <2>1. ASSUME NEW r \in Requests, incQueued(r)
        PROVE  Abstract!Next \/ UNCHANGED <<waiting, inside>>
    BY <2>1, QueuedSeen, Zenon DEF Abstract!Next
  <2>2. ASSUME NEW r \in Requests, serve(r)
        PROVE  Abstract!Next \/ UNCHANGED <<waiting, inside>>
    BY <2>2, ServeSeen, Zenon DEF Abstract!Next
  <2>3. CASE UNCHANGED pc
    BY <2>3, Zenon DEF waiting, inside, admitted
  <2>4. ASSUME NEW r \in Requests, DeadlinePasses(r) PROVE UNCHANGED pc
    BY <2>4, Zenon DEF DeadlinePasses
  <2>5. ASSUME NEW a \in Configured, ResetRate(a) PROVE UNCHANGED pc
    BY <2>5, Zenon DEF ResetRate
  <2> QED  BY <2>1, <2>2, <2>3, <2>4, <2>5, Zenon DEF Next, vars
<1> QED  BY <1>1, <1>2, Invariant, LimitHolds, PTL DEF Spec, Admits, Abstract!Spec

----------------------------------------------------------------------------
(* The rate limiters.  The counter of an account is the number of requests *)
(* it has started in this minute, plus the increments not yet settled,     *)
(* less the requests that settled an increment of the previous minute in   *)
(* this one; the last part makes it negative at times, and the uint32      *)
(* wrap.                                                                   *)

\* Where a request's addition to the rate limiter of its user, and to that of
\* its cluster user, is neither taken back nor settled by its start.
holdsUser    == {"rpmC", "tokU", "tokC", "undoU", "undoC", "rpmUndoU", "connect"}
holdsCluster == {"tokU", "tokC", "undoU", "undoC", "rpmUndoU", "rpmUndoC", "connect"}

holds(r, a) == \/ a = user[r] /\ pc[r] \in holdsUser
               \/ a = clusterUser(r) /\ pc[r] \in holdsCluster

Holding(a) == {r \in Requests : holds(r, a)}
Fresh(a)   == {r \in Requests : a \in fresh[r]}
Passed(a)  == {r \in Requests : holds(r, a) /\ err[r] = "nil"}
Sure(a)    == {r \in Requests : a \in fresh[r] /\ err[r] = "nil"}
Late(a)    == Cardinality(late[a])

\* A number below zero as an unsigned counter holds it.
unsigned(v) == IF v >= 0 THEN v ELSE v + Wrap

\* The inductive invariant of one account with a limit.
RateInv(a) ==
  /\ Fresh(a) \subseteq Holding(a)
  /\ rateLimiter[a] = unsigned(started[a] + Cardinality(Fresh(a)) - Late(a))
  /\ late[a] \cap (Holding(a) \ Fresh(a)) = {}
  /\ reqPerMin[a] > 0 =>
       started[a] + Cardinality(Sure(a)) <= reqPerMin[a] + Late(a)
  /\ reqPerMin[a] < 0 => started[a] = 0 /\ Passed(a) = {}

RInv == /\ RateTypeOK
        /\ ErrAgrees
        /\ \A a \in Accounts : limited(a) => RateInv(a)

----------------------------------------------------------------------------
(* ScopeRate is Scope with history variables.                              *)

\* Every step is a step of Scope.
LEMMA RateIsNext == [RateNext]_rateVars => [Next]_vars
BY Zenon DEF RateNext, rateVars, vars, Next, others, incQueued

\* The history keeps its type.
LEMMA RateTypeStep == RateTypeOK /\ [RateNext]_rateVars => RateTypeOK'
<1> SUFFICES ASSUME RateTypeOK, [RateNext]_rateVars PROVE RateTypeOK'
  OBVIOUS
<1>t. TypeOK'
  BY RateIsNext, TypeStep, Zenon DEF RateTypeOK
<1>h. /\ fresh \in [Requests -> SUBSET Accounts]
      /\ started \in [Accounts -> Nat]
      /\ late \in [Accounts -> SUBSET Requests]
  BY Zenon DEF RateTypeOK
<1> DEFINE H == /\ fresh' \in [Requests -> SUBSET Accounts]
                /\ started' \in [Accounts -> Nat]
                /\ late' \in [Accounts -> SUBSET Requests]
<1>1. ASSUME UNCHANGED history PROVE H
  BY <1>1, <1>h, Zenon DEF history
<1>2. ASSUME NEW r \in Requests, NEW a \in Accounts, noteInc(r, a) PROVE H
  BY <1>2, <1>h, Zenon DEF noteInc
<1>3. ASSUME NEW r \in Requests, NEW a \in Accounts, noteUndo(r, a) PROVE H
  BY <1>3, <1>h DEF noteUndo
<1>4. ASSUME NEW r \in Requests, noteStart(r) PROVE H
  BY <1>4, <1>h DEF noteStart
<1>5. ASSUME NEW a \in Configured, noteReset(a) PROVE H
  BY <1>5, <1>h, Zenon DEF noteReset
<1>6. H
  BY <1>1, <1>2, <1>3, <1>4, <1>5, AccountsOf, Zenon DEF RateNext, rateVars, history
<1> QED  BY <1>t, <1>6, Zenon DEF RateTypeOK

----------------------------------------------------------------------------
(* What a step does to the rate limiter of one account and to the requests *)
(* it counts.                                                              *)

Counted(r, a) == /\ r \notin Holding(a)
                 /\ Holding(a)' = Holding(a) \cup {r}
                 /\ Fresh(a)' = Fresh(a) \cup {r}
                 /\ overRate(a, inc(rateLimiter[a])) =>
                      Sure(a)' \subseteq Sure(a) /\ Passed(a)' \subseteq Passed(a)
                 /\ rateLimiter[a]' = inc(rateLimiter[a])
                 /\ started[a]' = started[a] /\ late[a]' = late[a]
TakenBack(r, a) == /\ r \in Holding(a)
                   /\ Holding(a)' = Holding(a) \ {r}
                   /\ Fresh(a)' = Fresh(a) \ {r}
                   /\ Sure(a)' \subseteq Sure(a) /\ Passed(a)' \subseteq Passed(a)
                   /\ rateLimiter[a]' = dec(rateLimiter[a])
                   /\ started[a]' = started[a]
                   /\ late[a]' = IF r \in Fresh(a) THEN late[a] ELSE late[a] \cup {r}
Started(r, a) == /\ r \in Holding(a) /\ r \in Passed(a)
                 /\ Holding(a)' = Holding(a) \ {r}
                 /\ Fresh(a)' = Fresh(a) \ {r}
                 /\ Sure(a)' = Sure(a) \ {r}
                 /\ r \in Fresh(a) => r \in Sure(a)
                 /\ rateLimiter[a]' = rateLimiter[a]
                 /\ started[a]' = started[a] + 1
                 /\ late[a]' = IF r \in Fresh(a) THEN late[a] ELSE late[a] \cup {r}
Renewed(a) == /\ Holding(a)' = Holding(a) /\ Passed(a)' = Passed(a)
              /\ Fresh(a)' = {} /\ Sure(a)' = {}
              /\ rateLimiter[a]' = 0 /\ started[a]' = 0 /\ late[a]' = {}
Alone(a) == /\ Holding(a)' = Holding(a)
            /\ Fresh(a)' = Fresh(a)
            /\ Sure(a)' \subseteq Sure(a) /\ Passed(a)' \subseteq Passed(a)
            /\ rateLimiter[a]' = rateLimiter[a]
            /\ started[a]' = started[a] /\ late[a]' = late[a]

\* The request that makes the step is one of those above, and the history notes
\* what it does (scope.go:236-266).
LEMMA EffectStep ==
  ASSUME RateTypeOK, ErrAgrees, [RateNext]_rateVars,
         NEW a \in Accounts, limited(a), Fresh(a) \subseteq Holding(a)
  PROVE  \/ Alone(a) \/ Renewed(a)
         \/ \E r \in Requests : Counted(r, a) \/ TakenBack(r, a) \/ Started(r, a)
<1>t. /\ pc \in [Requests -> Labels]
      /\ err \in [Requests -> {"nil", "limit"}]
      /\ rateLimiter \in [Accounts -> 0..(Wrap - 1)]
      /\ fresh \in [Requests -> SUBSET Accounts]
      /\ started \in [Accounts -> Nat]
      /\ late \in [Accounts -> SUBSET Requests]
  BY Zenon DEF RateTypeOK, TypeOK
<1> USE <1>t DEF Holding, holds, Fresh, Passed, Sure
<1>1. ASSUME UNCHANGED rateVars PROVE Alone(a)
  BY <1>1, Zenon DEF rateVars, vars, history, Alone
<1>2. ASSUME NEW r \in Requests, NEW b \in Accounts, b = user[r] \/ b = clusterUser(r),
             incRate(r, b), noteInc(r, b),
             pc' = [pc EXCEPT ![r] = IF b = user[r] THEN "rpmC" ELSE "tokU"],
             pc[r] = IF b = user[r] THEN "rpmU" ELSE "rpmC"
      PROVE  Alone(a) \/ Counted(r, a)
  <2>a. user[r] # clusterUser(r)
    BY AccountsOf, Zenon
  <2> USE DEF holdsUser, holdsCluster, incRate, countRate, noteInc, fail, limited
  <2>1. CASE a = b
    <3>1. r \notin Holding(a) /\ Holding(a)' = Holding(a) \cup {r}
      BY <1>2, <2>1, <2>a, Zenon
    <3>2. Fresh(a)' = Fresh(a) \cup {r}
      BY <1>2, <2>1, Zenon
    <3>3. ASSUME overRate(a, inc(rateLimiter[a]))
          PROVE  Sure(a)' \subseteq Sure(a) /\ Passed(a)' \subseteq Passed(a)
      <4>1. err'[r] = "limit" /\ \A q \in Requests \ {r} : err'[q] = err[q]
        BY <1>2, <2>1, <3>3, Zenon
      <4> QED  BY <3>1, <3>2, <4>1, Zenon
    <3>4. /\ rateLimiter[a]' = inc(rateLimiter[a])
          /\ started[a]' = started[a] /\ late[a]' = late[a]
      BY <1>2, <2>1, Zenon
    <3> HIDE DEF Holding, Fresh, Passed, Sure
    <3> QED  BY <3>1, <3>2, <3>3, <3>4, Zenon DEF Counted
  <2>2. CASE a # b
    BY <1>2, <2>2, <2>a DEF Alone
  <2> QED  BY <2>1, <2>2, Zenon
<1>3. ASSUME NEW r \in Requests, NEW b \in Accounts, b = user[r] \/ b = clusterUser(r),
             undoRate(r, b), noteUndo(r, b),
             pc' = [pc EXCEPT ![r] = IF b = user[r] THEN "rpmUndoC" ELSE "retry"],
             pc[r] = IF b = user[r] THEN "rpmUndoU" ELSE "rpmUndoC"
      PROVE  Alone(a) \/ TakenBack(r, a)
  <2>a. user[r] # clusterUser(r)
    BY AccountsOf, Zenon
  <2> USE DEF holdsUser, holdsCluster, undoRate, countRate, noteUndo, limited
  <2>1. CASE a = b
    BY <1>3, <2>1, <2>a, Zenon DEF TakenBack
  <2>2. CASE a # b
    BY <1>3, <2>2, <2>a DEF Alone
  <2> QED  BY <2>1, <2>2, Zenon
<1>4. ASSUME NEW r \in Requests, Connect(r), noteStart(r)
      PROVE  Alone(a) \/ Started(r, a)
  <2> USE DEF holdsUser, holdsCluster, Connect, noteStart, rated, goto
  <2>1. CASE a = user[r] \/ a = clusterUser(r)
    BY <1>4, <2>1, Zenon DEF Started, ErrAgrees
  <2>2. CASE a # user[r] /\ a # clusterUser(r)
    BY <1>4, <2>2, Zenon DEF Alone
  <2> QED  BY <2>1, <2>2, Zenon
<1>5. ASSUME NEW b \in Configured, ResetRate(b), noteReset(b)
      PROVE  Alone(a) \/ Renewed(a)
  <2> USE DEF ResetRate, noteReset
  <2>1. CASE a = b
    BY <1>5, <2>1, Zenon DEF Renewed
  <2>2. CASE a # b
    BY <1>5, <2>2, Zenon DEF Alone
  <2> QED  BY <2>1, <2>2, Zenon
<1>6. ASSUME NEW r \in Requests, others(r), UNCHANGED history PROVE Alone(a)
  <2>1. rateLimiter' = rateLimiter
    BY <1>6, Zenon DEF others, QueueUser, QueueCluster, IncUser, IncCluster, TokensUser,
                TokensCluster, AllowN, UndoUser, UndoCluster, undoQuery, Retry, Wake,
                LeaveQueue, Return, serve, Arrive, MoveOut, MoveIn, Finish, DecUser,
                DecCluster, DecHost, DeadlinePasses
  <2>2. \E l \in Labels : pc' = [pc EXCEPT ![r] = l] /\ (l \in holdsUser <=> pc[r] \in holdsUser)
                        /\ (l \in holdsCluster <=> pc[r] \in holdsCluster)
    <3> USE DEF holdsUser, holdsCluster, Labels, goto
    <3>1. CASE QueueUser(r) \/ QueueCluster(r) \/ IncUser(r) \/ IncCluster(r)
      BY <3>1, Zenon DEF QueueUser, QueueCluster, IncUser, IncCluster
    <3>2. CASE TokensUser(r) \/ TokensCluster(r) \/ UndoUser(r) \/ UndoCluster(r)
      BY <3>2, Zenon DEF TokensUser, TokensCluster, UndoUser, UndoCluster
    <3>3. CASE Retry(r) \/ Wake(r) \/ Return(r)
      BY <3>3, Zenon DEF Retry, Wake, Return
    <3>4. CASE LeaveQueue(r) \/ DeadlinePasses(r)
      BY <3>4 DEF LeaveQueue, DeadlinePasses
    <3>5. CASE serve(r)
      BY <3>5, Zenon DEF serve, Arrive, MoveOut, MoveIn, Finish, DecUser, DecCluster, DecHost
    <3> QED  BY <1>6, <3>1, <3>2, <3>3, <3>4, <3>5, Zenon DEF others
  <2>3. \/ err'[r] = err[r] \/ err'[r] = "limit"
        \/ pc[r] \in {"incU", "accept", "reject"}
    BY <1>6, Zenon DEF others, QueueUser, QueueCluster, IncUser, IncCluster, TokensUser,
                TokensCluster, AllowN, UndoUser, UndoCluster, undoQuery, Retry, Wake,
                LeaveQueue, Return, serve, Arrive, MoveOut, MoveIn, Finish, DecUser,
                DecCluster, DecHost, DeadlinePasses, fail
  <2>4. \A q \in Requests \ {r} : err'[q] = err[q]
    BY <1>6, Zenon DEF others, QueueUser, QueueCluster, IncUser, IncCluster, TokensUser,
                TokensCluster, AllowN, UndoUser, UndoCluster, undoQuery, Retry, Wake,
                LeaveQueue, Return, serve, Arrive, MoveOut, MoveIn, Finish, DecUser,
                DecCluster, DecHost, DeadlinePasses, fail
  <2>5. fresh' = fresh /\ started' = started /\ late' = late
    BY <1>6, Zenon DEF history
  <2>6. Holding(a)' = Holding(a)
    BY <2>2, Zenon
  <2>7. r \in Holding(a) => pc[r] \notin {"incU", "accept", "reject"}
    BY Zenon DEF holdsUser, holdsCluster
  <2>8. /\ Sure(a)' \subseteq Sure(a)
        /\ Passed(a)' \subseteq Passed(a)
    <3>1. \A q \in Holding(a) : err'[q] = "nil" => err[q] = "nil"
      BY <2>3, <2>4, <2>7, Zenon
    <3> QED  BY <2>5, <2>6, <3>1, Zenon
  <2> QED  BY <2>1, <2>5, <2>6, <2>8, Zenon DEF Alone
<1> HIDE DEF Holding, holds, Fresh, Passed, Sure
<1>7. ASSUME NEW r \in Requests,
             \/ RateUser(r) /\ noteInc(r, user[r])
             \/ RateCluster(r) /\ noteInc(r, clusterUser(r))
      PROVE  Alone(a) \/ Counted(r, a)
  BY <1>2, <1>7, AccountsOf, Zenon DEF RateUser, RateCluster, goto
<1>8. ASSUME NEW r \in Requests,
             \/ UndoRateUser(r) /\ noteUndo(r, user[r])
             \/ UndoRateCluster(r) /\ noteUndo(r, clusterUser(r))
      PROVE  Alone(a) \/ TakenBack(r, a)
  BY <1>3, <1>8, AccountsOf, Zenon DEF UndoRateUser, UndoRateCluster, goto
<1> QED
  BY <1>1, <1>4, <1>5, <1>6, <1>7, <1>8, Zenon DEF RateNext

----------------------------------------------------------------------------
(* The counter below zero.                                                 *)

\* Adding one, also to a counter that has wrapped.
LEMMA UnsignedInc ==
  ASSUME NEW v \in Int, -Wrap <= v, v + 1 < Wrap
  PROVE  inc(unsigned(v)) = unsigned(v + 1)
<1>0. Wrap \in Nat /\ Wrap > 0
  BY WrapAssumption, RequestsAssumption, FS_CardinalityType
<1>1. CASE v >= 0
  BY <1>0, <1>1, IncIsPlus DEF unsigned
<1>2. CASE v < -1
  <2>1. v + Wrap \in Nat /\ (v + Wrap) + 1 < Wrap
    BY <1>0, <1>2
  <2> QED  BY <1>0, <1>2, <2>1, IncIsPlus DEF unsigned
<1>3. CASE v = -1
  <2>1. unsigned(v) = Wrap - 1 /\ unsigned(v + 1) = 0
    BY <1>0, <1>3 DEF unsigned
  <2>2. (Wrap - 1) + 1 = Wrap /\ Wrap % Wrap = 0
    BY <1>0
  <2> QED  BY <2>1, <2>2, Zenon DEF inc
<1> QED  BY <1>0, <1>1, <1>2, <1>3

\* Subtracting one, also from zero.
LEMMA UnsignedDec ==
  ASSUME NEW v \in Int, -Wrap < v, v < Wrap
  PROVE  dec(unsigned(v)) = unsigned(v - 1)
<1>0. Wrap \in Nat /\ Wrap > 0
  BY WrapAssumption, RequestsAssumption, FS_CardinalityType
<1>1. CASE v > 0
  BY <1>0, <1>1, DecIsMinus DEF unsigned
<1>2. CASE v < 0
  <2>1. v + Wrap \in Nat /\ v + Wrap > 0 /\ v + Wrap < Wrap
    BY <1>0, <1>2
  <2> QED  BY <1>0, <1>2, <2>1, DecIsMinus DEF unsigned
<1>3. CASE v = 0
  <2>1. unsigned(v) = 0 /\ unsigned(v - 1) = Wrap - 1
    BY <1>0, <1>3 DEF unsigned
  <2>2. (0 + Wrap - 1) % Wrap = Wrap - 1
    BY <1>0
  <2> QED  BY <2>1, <2>2, Zenon DEF dec
<1> QED  BY <1>0, <1>1, <1>2, <1>3

\* The check of inc: a value that it lets pass is at most the limit, also below
\* zero, where the int32 of the code is negative.
LEMMA PassedCheck ==
  ASSUME NEW a \in Accounts, reqPerMin[a] > 0, NEW v \in Int,
         -Cardinality(Requests) <= v, v <= reqPerMin[a] + 2 * Cardinality(Requests),
         ~overRate(a, unsigned(v))
  PROVE  v <= reqPerMin[a]
<1> DEFINE c == Cardinality(Requests)
           h == Wrap \div 2
           l == reqPerMin[a]
<1>1. Wrap \in Nat /\ c \in Nat /\ l \in Int /\ l + 2 * c < h
  BY WrapAssumption, RequestsAssumption, FS_CardinalityType, LimitsAssumption, RateAssumption, Zenon
<1>2. h \in Int /\ h <= Wrap
  BY <1>1
<1> HIDE DEF c, h, l
<1>3. CASE v > 0
  <2>1. unsigned(v) = v /\ v < h
    BY <1>1, <1>2, <1>3 DEF unsigned, c, l
  <2> QED  BY <1>1, <1>3, <2>1 DEF overRate, int32Positive, h, l
<1> QED  BY <1>1, <1>3 DEF l

----------------------------------------------------------------------------
(* The invariant.                                                          *)

\* The sizes of the sets, and how far the counter is from wrapping.
LEMMA Bounds ==
  ASSUME RateTypeOK, NEW a \in Accounts, limited(a), RateInv(a)
  PROVE  /\ Holding(a) \in SUBSET Requests /\ Fresh(a) \in SUBSET Requests
         /\ Sure(a) \in SUBSET Requests /\ Sure(a) \subseteq Fresh(a)
         /\ Cardinality(Holding(a)) \in Nat /\ Cardinality(Fresh(a)) \in Nat
         /\ Cardinality(Sure(a)) \in Nat /\ Cardinality(Requests) \in Nat
         /\ late[a] \in SUBSET Requests
         /\ Cardinality(Fresh(a)) <= Cardinality(Requests)
         /\ started[a] \in Nat /\ Late(a) \in Nat /\ reqPerMin[a] \in Int
         /\ Wrap \in Nat /\ Cardinality(Requests) < Wrap
         /\ reqPerMin[a] + 2 * Cardinality(Requests) < Wrap
         /\ Late(a) <= Cardinality(Requests)
         /\ started[a] - Late(a) <= reqPerMin[a] \/ started[a] = 0
<1>1. /\ Holding(a) \in SUBSET Requests /\ Fresh(a) \in SUBSET Requests
      /\ Sure(a) \in SUBSET Requests /\ Sure(a) \subseteq Fresh(a)
      /\ late[a] \in SUBSET Requests
  BY Zenon DEF Holding, Fresh, Sure, RateTypeOK
<1>2. /\ Cardinality(Holding(a)) \in Nat /\ Cardinality(Fresh(a)) \in Nat
      /\ Cardinality(Sure(a)) \in Nat /\ Late(a) \in Nat
  BY <1>1, CardRange, Zenon DEF Late
<1>3. Cardinality(Requests) \in Nat /\ Cardinality(Fresh(a)) <= Cardinality(Requests)
  BY <1>1, RequestsAssumption, FS_Subset, FS_CardinalityType, Zenon
<1>4. started[a] \in Nat /\ reqPerMin[a] \in Int
  BY LimitsAssumption, Zenon DEF RateTypeOK
<1>5. Wrap \in Nat /\ Cardinality(Requests) < Wrap
  BY WrapAssumption, Zenon
<1>6. reqPerMin[a] + 2 * Cardinality(Requests) < Wrap
  <2>1. reqPerMin[a] + 2 * Cardinality(Requests) < Wrap \div 2
    BY RateAssumption, Zenon
  <2>2. Wrap \div 2 \in Int /\ Wrap \div 2 <= Wrap
    BY <1>5
  <2> QED  BY <1>3, <1>4, <1>5, <2>1, <2>2
<1>7. Late(a) <= Cardinality(Requests)
  BY <1>1, RequestsAssumption, FS_Subset, Zenon DEF Late
<1>8. started[a] - Late(a) <= reqPerMin[a] \/ started[a] = 0
  <2>1. reqPerMin[a] # 0
    BY Zenon DEF limited
  <2>2. CASE reqPerMin[a] > 0
    BY <1>2, <1>4, <2>2 DEF RateInv
  <2>3. CASE reqPerMin[a] < 0
    BY <2>3, Zenon DEF RateInv
  <2> QED  BY <1>4, <2>1, <2>2, <2>3
<1> QED  BY <1>1, <1>2, <1>3, <1>4, <1>5, <1>6, <1>7, <1>8

\* The increment of checkTokenFreeRateLimiters.
LEMMA CountedStep ==
  ASSUME RateTypeOK, NEW a \in Accounts, limited(a), RateInv(a),
         NEW r \in Requests, Counted(r, a)
  PROVE  RateInv(a)'
<1> DEFINE f == Cardinality(Fresh(a))
           v == started[a] + f - Late(a)
<1>b. /\ Holding(a) \in SUBSET Requests /\ Fresh(a) \in SUBSET Requests
      /\ Sure(a) \in SUBSET Requests /\ Sure(a) \subseteq Fresh(a)
      /\ f \in Nat /\ Cardinality(Sure(a)) \in Nat /\ Cardinality(Requests) \in Nat
      /\ started[a] \in Nat /\ Late(a) \in Nat /\ reqPerMin[a] \in Int
      /\ Wrap \in Nat /\ Cardinality(Requests) < Wrap
      /\ reqPerMin[a] + 2 * Cardinality(Requests) < Wrap
      /\ Late(a) <= Cardinality(Requests)
      /\ started[a] - Late(a) <= reqPerMin[a] \/ started[a] = 0
  BY Bounds, Zenon
<1>l. Late(a)' = Late(a)
  BY Zenon DEF Counted, Late
<1>1. r \notin Fresh(a) /\ r \notin Sure(a)
  BY <1>b, Zenon DEF Counted, RateInv
<1>2. /\ Cardinality(Fresh(a)') = f + 1
      /\ Cardinality(Fresh(a)') <= Cardinality(Requests)
  <2>1. Fresh(a)' = Fresh(a) \cup {r}
    BY Zenon DEF Counted
  <2>2. Cardinality(Fresh(a) \cup {r}) = f + 1
    BY <1>b, <1>1, CardPlus, Zenon
  <2>3. Fresh(a) \cup {r} \subseteq Requests
    BY <1>b, Zenon
  <2> QED  BY <2>1, <2>2, <2>3, RequestsAssumption, FS_Subset, Zenon
<1>3. v \in Int /\ -Cardinality(Requests) <= v /\ v + 1 < Wrap
      /\ (reqPerMin[a] > 0 => v + 1 <= reqPerMin[a] + 2 * Cardinality(Requests))
  BY <1>b, <1>2
<1>4. rateLimiter[a]' = unsigned(started[a]' + Cardinality(Fresh(a)') - Late(a)')
  <2>1. inc(unsigned(v)) = unsigned(v + 1)
    BY <1>3, <1>b, UnsignedInc
  <2>2. v + 1 = started[a]' + Cardinality(Fresh(a)') - Late(a)'
    BY <1>b, <1>2, <1>l DEF Counted
  <2> QED  BY <2>1, <2>2, Zenon DEF Counted, RateInv
<1>5. (Holding(a) \ Fresh(a))' = Holding(a) \ Fresh(a)
  BY Zenon DEF Counted
<1>6. ASSUME reqPerMin[a] > 0
      PROVE  started[a] + Cardinality(Sure(a)') <= reqPerMin[a] + Late(a)
  <2>0. /\ Sure(a)' \in SUBSET Requests /\ Cardinality(Sure(a)') \in Nat
        /\ Sure(a)' \subseteq Fresh(a)'
    <3>1. Sure(a)' \in SUBSET Requests /\ Sure(a)' \subseteq Fresh(a)'
      BY Zenon DEF Sure, Fresh
    <3> QED  BY <3>1, CardRange, Zenon
  <2>1. CASE overRate(a, inc(rateLimiter[a]))
    <3>1. Sure(a)' \subseteq Sure(a) /\ IsFiniteSet(Sure(a))
      BY <1>b, <2>1, CardRange, Zenon DEF Counted
    <3>2. Cardinality(Sure(a)') <= Cardinality(Sure(a))
      BY <3>1, FS_Subset, Zenon
    <3> QED  BY <1>6, <1>b, <2>0, <3>2 DEF RateInv
  <2>2. CASE ~overRate(a, inc(rateLimiter[a]))
    <3>1. inc(rateLimiter[a]) = unsigned(v + 1)
      BY <1>3, <1>b, UnsignedInc DEF RateInv
    <3>2. v + 1 <= reqPerMin[a]
      BY <1>3, <1>6, <1>b, <2>2, <3>1, PassedCheck
    <3>3. IsFiniteSet(Fresh(a)')
      BY <2>0, CardRange, Zenon DEF Fresh
    <3>4. Cardinality(Sure(a)') <= f + 1
      BY <1>2, <2>0, <3>3, FS_Subset, Zenon
    <3> QED  BY <1>b, <2>0, <3>2, <3>4
  <2> QED  BY <2>1, <2>2, Zenon
<1>7. reqPerMin[a] < 0 => started[a] = 0 /\ Passed(a)' = {}
  BY Zenon DEF Counted, RateInv, overRate
<1> QED
  BY <1>l, <1>4, <1>5, <1>6, <1>7, Zenon DEF RateInv, Counted

\* The roll-back of inc, of an increment of this minute or of the last one.
LEMMA TakenBackStep ==
  ASSUME RateTypeOK, NEW a \in Accounts, limited(a), RateInv(a),
         NEW r \in Requests, TakenBack(r, a)
  PROVE  RateInv(a)'
<1> DEFINE f == Cardinality(Fresh(a))
           v == started[a] + f - Late(a)
<1>b. /\ Holding(a) \in SUBSET Requests /\ Fresh(a) \in SUBSET Requests
      /\ Sure(a) \in SUBSET Requests /\ late[a] \in SUBSET Requests
      /\ f \in Nat /\ Cardinality(Sure(a)) \in Nat
      /\ Cardinality(Requests) \in Nat /\ f <= Cardinality(Requests)
      /\ started[a] \in Nat /\ Late(a) \in Nat /\ reqPerMin[a] \in Int
      /\ Wrap \in Nat /\ Cardinality(Requests) < Wrap
      /\ reqPerMin[a] + 2 * Cardinality(Requests) < Wrap
      /\ Late(a) <= Cardinality(Requests)
      /\ started[a] - Late(a) <= reqPerMin[a] \/ started[a] = 0
  BY Bounds, Zenon
<1>1. v \in Int /\ -Wrap < v /\ v < Wrap
  BY <1>b
<1>2. rateLimiter[a]' = unsigned(v - 1)
  BY <1>1, UnsignedDec, Zenon DEF TakenBack, RateInv
<1>3. Sure(a)' \in SUBSET Requests /\ Cardinality(Sure(a)') \in Nat
      /\ Cardinality(Sure(a)') <= Cardinality(Sure(a))
  <2>1. Sure(a)' \in SUBSET Requests /\ Sure(a)' \subseteq Sure(a) /\ IsFiniteSet(Sure(a))
    BY <1>b, CardRange, Zenon DEF TakenBack
  <2> QED  BY <2>1, CardRange, FS_Subset, Zenon
<1>4. Fresh(a)' \subseteq Holding(a)'
  BY Zenon DEF TakenBack, RateInv
<1>5. reqPerMin[a] < 0 => started[a]' = 0 /\ Passed(a)' = {}
  BY Zenon DEF TakenBack, RateInv
<1>6. (late[a] \cap (Holding(a) \ Fresh(a)))' = {}
  BY Zenon DEF TakenBack, RateInv
<1>7. /\ started[a]' = started[a]
      /\ v - 1 = started[a]' + Cardinality(Fresh(a)') - Late(a)'
      /\ Late(a)' \in Nat /\ Late(a)' >= Late(a)
  <2>1. CASE r \in Fresh(a)
    <3>1. Cardinality(Fresh(a)') = f - 1
      BY <1>b, <2>1, CardMinus, Zenon DEF TakenBack
    <3>2. Late(a)' = Late(a) /\ started[a]' = started[a]
      BY <2>1, Zenon DEF TakenBack, Late
    <3> QED  BY <1>b, <3>1, <3>2
  <2>2. CASE r \notin Fresh(a)
    <3>1. Fresh(a)' = Fresh(a) /\ started[a]' = started[a] /\ late[a]' = late[a] \cup {r}
      BY <2>2, Zenon DEF TakenBack
    <3>2. r \notin late[a]
      BY <2>2, Zenon DEF TakenBack, RateInv
    <3>3. Late(a)' = Late(a) + 1
      BY <1>b, <3>1, <3>2, CardPlus, Zenon DEF Late
    <3> QED  BY <1>b, <3>1, <3>3
  <2> QED  BY <2>1, <2>2, Zenon
<1>8. reqPerMin[a] > 0 => started[a]' + Cardinality(Sure(a)') <= reqPerMin[a] + Late(a)'
  BY <1>b, <1>3, <1>7 DEF RateInv
<1> QED  BY <1>2, <1>4, <1>5, <1>6, <1>7, <1>8, Zenon DEF RateInv

\* A request that has passed all checks starts, in the minute of its increment
\* or after a reset.
LEMMA StartedStep ==
  ASSUME RateTypeOK, NEW a \in Accounts, limited(a), RateInv(a),
         NEW r \in Requests, Started(r, a)
  PROVE  RateInv(a)'
<1> DEFINE f == Cardinality(Fresh(a))
           v == started[a] + f - Late(a)
<1>b. /\ Holding(a) \in SUBSET Requests /\ Fresh(a) \in SUBSET Requests
      /\ Sure(a) \in SUBSET Requests /\ Sure(a) \subseteq Fresh(a)
      /\ late[a] \in SUBSET Requests
      /\ f \in Nat /\ Cardinality(Sure(a)) \in Nat
      /\ Cardinality(Requests) \in Nat
      /\ started[a] \in Nat /\ Late(a) \in Nat /\ reqPerMin[a] \in Int
  BY Bounds, Zenon
<1>1. rateLimiter[a]' = unsigned(v) /\ started[a]' = started[a] + 1
  BY Zenon DEF Started, RateInv
<1>2. Fresh(a)' \subseteq Holding(a)'
  BY Zenon DEF Started, RateInv
<1>3. ~(reqPerMin[a] < 0)
  BY Zenon DEF Started, RateInv
<1>4. (late[a] \cap (Holding(a) \ Fresh(a)))' = {}
  BY Zenon DEF Started, RateInv
<1>5. /\ v = started[a]' + Cardinality(Fresh(a)') - Late(a)'
      /\ reqPerMin[a] > 0 => started[a]' + Cardinality(Sure(a)') <= reqPerMin[a] + Late(a)'
  <2>1. CASE r \in Fresh(a)
    <3>1. Cardinality(Fresh(a)') = f - 1
      BY <1>b, <2>1, CardMinus, Zenon DEF Started
    <3>2. Cardinality(Sure(a)') = Cardinality(Sure(a)) - 1
      BY <1>b, <2>1, CardMinus, Zenon DEF Started
    <3>3. Late(a)' = Late(a)
      BY <2>1, Zenon DEF Started, Late
    <3> QED  BY <1>b, <1>1, <3>1, <3>2, <3>3 DEF RateInv
  <2>2. CASE r \notin Fresh(a)
    <3>1. Fresh(a)' = Fresh(a) /\ Sure(a)' = Sure(a) /\ late[a]' = late[a] \cup {r}
      BY <1>b, <2>2, Zenon DEF Started
    <3>2. r \notin late[a]
      BY <2>2, Zenon DEF Started, RateInv
    <3>3. Late(a)' = Late(a) + 1
      BY <1>b, <3>1, <3>2, CardPlus, Zenon DEF Late
    <3> QED  BY <1>b, <1>1, <3>1, <3>3 DEF RateInv
  <2> QED  BY <2>1, <2>2, Zenon
<1> QED  BY <1>1, <1>2, <1>3, <1>4, <1>5, Zenon DEF RateInv

\* rateLimiter.run stores 0, and a new minute begins.
LEMMA RenewedStep ==
  ASSUME RateTypeOK, NEW a \in Accounts, limited(a), RateInv(a), Renewed(a)
  PROVE  RateInv(a)'
<1>1. reqPerMin[a] \in Int
  BY Bounds, Zenon
<1>2. /\ (late[a] \cap (Holding(a) \ Fresh(a)))' = {} /\ Fresh(a)' \subseteq Holding(a)'
      /\ Passed(a)' = Passed(a)
  BY Zenon DEF Renewed
<1>3. /\ Fresh(a)' = {} /\ Sure(a)' = {} /\ Cardinality({}) = 0
      /\ rateLimiter[a]' = 0 /\ started[a]' = 0 /\ Late(a)' = 0
  BY FS_EmptySet, Zenon DEF Renewed, Late
<1> QED
  BY <1>1, <1>2, <1>3 DEF RateInv, unsigned

\* A step of another account, or a check that may still fail.
LEMMA AloneStep ==
  ASSUME RateTypeOK, NEW a \in Accounts, limited(a), RateInv(a), Alone(a)
  PROVE  RateInv(a)'
<1>1. /\ Sure(a) \in SUBSET Requests /\ Cardinality(Sure(a)) \in Nat
      /\ started[a] \in Nat /\ Late(a) \in Nat /\ reqPerMin[a] \in Int
  BY Bounds, Zenon
<1>2. Cardinality(Sure(a)') \in Nat /\ Cardinality(Sure(a)') <= Cardinality(Sure(a))
  <2>1. Sure(a)' \in SUBSET Requests /\ Sure(a)' \subseteq Sure(a) /\ IsFiniteSet(Sure(a))
    BY <1>1, CardRange, Zenon DEF Alone
  <2> QED  BY <2>1, CardRange, FS_Subset, Zenon
<1>3. reqPerMin[a] > 0 => started[a]' + Cardinality(Sure(a)') <= reqPerMin[a] + Late(a)'
  <2>1. Late(a)' = Late(a)
    BY Zenon DEF Alone, Late
  <2> QED  BY <1>1, <1>2, <2>1 DEF RateInv, Alone
<1>4. Late(a)' = Late(a)
  BY Zenon DEF Alone, Late
<1> QED
  BY <1>3, <1>4, Zenon DEF RateInv, Alone

\* Nothing is counted at the start.
LEMMA RateInvInit == RateInit => RInv
<1> SUFFICES ASSUME RateInit PROVE RInv
  OBVIOUS
<1>1. RateTypeOK /\ ErrAgrees
  <2>1. TypeOK /\ ErrAgrees
    BY TypeInit, Zenon DEF RateInit, Init, ErrAgrees
  <2> QED  BY <2>1, Zenon DEF RateInit, RateTypeOK
<1>2. ASSUME NEW a \in Accounts PROVE RateInv(a)
  <2>1. Holding(a) = {} /\ Fresh(a) = {} /\ Sure(a) = {} /\ Passed(a) = {}
    BY Zenon DEF RateInit, Init, Holding, holds, holdsUser, holdsCluster, Fresh, Sure, Passed
  <2>2. rateLimiter[a] = 0 /\ started[a] = 0 /\ late[a] = {} /\ Late(a) = 0
    BY FS_EmptySet, Zenon DEF RateInit, Init, Late
  <2>3. Cardinality({}) = 0 /\ reqPerMin[a] \in Int
    BY FS_EmptySet, LimitsAssumption, Zenon
  <2> QED  BY <2>1, <2>2, <2>3 DEF RateInv, unsigned
<1> QED  BY <1>1, <1>2, Zenon DEF RInv

\* Every step keeps the invariant of every account.
LEMMA RateInvStep == RInv /\ [RateNext]_rateVars => RInv'
<1> SUFFICES ASSUME RInv, [RateNext]_rateVars PROVE RInv'
  OBVIOUS
<1>1. RateTypeOK' /\ ErrAgrees'
  BY RateIsNext, RateTypeStep, ErrStep, Zenon DEF RInv, RateTypeOK
<1>2. ASSUME NEW a \in Accounts, limited(a) PROVE RateInv(a)'
  <2>1. RateTypeOK /\ ErrAgrees /\ RateInv(a) /\ Fresh(a) \subseteq Holding(a)
    BY <1>2, Zenon DEF RInv, RateInv
  <2> QED
    BY <1>2, <2>1, EffectStep, CountedStep, TakenBackStep, StartedStep, RenewedStep, AloneStep
<1>3. \A a \in Accounts : limited(a)' <=> limited(a)
  BY Zenon DEF limited
<1> QED  BY <1>1, <1>2, <1>3, Zenon DEF RInv

\* The invariant of the rate limiters holds of every execution of inc, dec and
\* rateLimiter.run (scope.go:213-306,1003-1012).
THEOREM RateInvariant == RateSpec => []RInv
BY RateInvInit, RateInvStep, PTL DEF RateSpec

\* The history and the state of Scope keep their types.
THEOREM RateTypeCorrect == RateSpec => []RateTypeOK
<1>1. RInv => RateTypeOK
  BY Zenon DEF RInv
<1> QED  BY <1>1, RateInvariant, PTL

\* The requests that a configured account starts in a minute exceed its
\* requests_per_minute by at most one for each request that was between its
\* increment and its start, or roll-back, when the minute began and that settled
\* afterwards, whatever the interleaving (scope.go:238,248-266,1009); a blocked
\* account starts none.
THEOREM OvershootIsBounded == RateSpec => []RateOvershoot
<1>1. RInv => RateOvershoot
  <2> SUFFICES ASSUME RInv, NEW a \in Configured
               PROVE  /\ reqPerMin[a] > 0 => started[a] <= reqPerMin[a] + Late(a)
                      /\ reqPerMin[a] < 0 => started[a] = 0
    BY Zenon DEF RateOvershoot, Late
  <2>a. a \in Accounts /\ a \notin wildcarded
    BY RequestsAssumption, AccountsAssumption, Zenon DEF Accounts
  <2>1. /\ Cardinality(Sure(a)) \in Nat /\ reqPerMin[a] \in Int
        /\ started[a] \in Nat /\ Late(a) \in Nat
    <3>1. Sure(a) \in SUBSET Requests /\ late[a] \in SUBSET Requests
      BY <2>a, Zenon DEF Sure, RInv, RateTypeOK
    <3> QED  BY <2>a, <3>1, CardRange, LimitsAssumption, Zenon DEF RInv, RateTypeOK, Late
  <2>2. CASE reqPerMin[a] = 0
    BY <2>2
  <2>3. CASE reqPerMin[a] # 0
    <3>1. /\ reqPerMin[a] > 0 =>
               started[a] + Cardinality(Sure(a)) <= reqPerMin[a] + Late(a)
          /\ reqPerMin[a] < 0 => started[a] = 0
      BY <2>3, <2>a, Zenon DEF RInv, RateInv, limited
    <3> QED  BY <2>1, <3>1
  <2> QED  BY <2>2, <2>3, Zenon
<1> QED  BY <1>1, RateInvariant, PTL

\* ScopeRate only adds history: its executions are executions of Scope, so that
\* the theorems about Scope hold of them.
THEOREM RateImplementsScope == RateSpec => Spec
<1>1. RateInit => Init
  BY Zenon DEF RateInit
<1> QED  BY <1>1, RateIsNext, PTL DEF RateSpec, Spec

\* The connections of a host are those of the requests it serves, with a retry
\* that moves one between two hosts (proxy.go:242-255), while the rate limiters
\* are reset in between.
THEOREM ConnectionsStayExact == RateSpec => []ConnectionsExact
BY RateImplementsScope, NothingLeaks, PTL
=============================================================================
