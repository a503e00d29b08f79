----------------------------- MODULE ScopeRate -----------------------------
(***************************************************************************)
(* Scope with a record of what each minute really admitted, to judge       *)
(* requests_per_minute.  rateLimiter.run stores 0 while requests may be    *)
(* between their increment and what settles it, the start of the request   *)
(* or the roll-back; the three history variables tell the requests counted *)
(* in the current minute from those that straddle a reset:                 *)
(*   fresh    request -> accounts whose counter of this minute holds the   *)
(*            request's increment, not yet settled                         *)
(*   started  account -> requests started in this minute                   *)
(*   late     account -> requests that settled, in this minute, an         *)
(*            increment of an earlier one, which the reset has wiped       *)
(* They are kept for the accounts that have a limit.                       *)
(***************************************************************************)
EXTENDS Scope

VARIABLES fresh, started, late

history == <<fresh, started, late>>
rateVars == <<vars, history>>

\* The limits are small against the width of int32, so that its sign tells a
\* counter below zero from a large one.
ASSUME RateAssumption == \A a \in Accounts :
                           reqPerMin[a] + 2 * Cardinality(Requests) < Wrap \div 2

RateTypeOK == /\ TypeOK
              /\ fresh \in [Requests -> SUBSET Accounts]
              /\ started \in [Accounts -> Nat]
              /\ late \in [Accounts -> SUBSET Requests]

RateInit == /\ Init
            /\ fresh = [r \in Requests |-> {}]
            /\ started = [a \in Accounts |-> 0]
            /\ late = [a \in Accounts |-> {}]

\* r's increment of the counter of a.
noteInc(r, a) == /\ fresh' = [fresh EXCEPT ![r] = IF limited(a) THEN @ \cup {a} ELSE @]
                 /\ UNCHANGED <<started, late>>

\* r takes its increment of a back, in the same minute or after a reset.
noteUndo(r, a) == /\ fresh' = [fresh EXCEPT ![r] = @ \ {a}]
                  /\ late' = IF limited(a) /\ a \notin fresh[r]
                             THEN [late EXCEPT ![a] = @ \cup {r}] ELSE late
                  /\ UNCHANGED started

\* The accounts whose limit on starts r counts for.
rated(r) == {a \in {user[r], clusterUser(r)} : limited(a)}

\* r starts, in the minute of its increments or after a reset.
noteStart(r) == /\ fresh' = [fresh EXCEPT ![r] = {}]
                /\ started' = [a \in Accounts |->
                                 IF a \in rated(r) THEN started[a] + 1 ELSE started[a]]
                /\ late' = [a \in Accounts |->
                              IF a \in rated(r) \ fresh[r] THEN late[a] \cup {r} ELSE late[a]]

\* A new minute begins for a.
noteReset(a) == /\ fresh' = [r \in Requests |-> fresh[r] \ {a}]
                /\ started' = [started EXCEPT ![a] = 0]
                /\ late' = [late EXCEPT ![a] = {}]

others(r) ==
  \/ QueueUser(r) \/ QueueCluster(r) \/ IncUser(r) \/ IncCluster(r)
  \/ TokensUser(r) \/ TokensCluster(r) \/ UndoUser(r) \/ UndoCluster(r)
  \/ Retry(r) \/ Wake(r) \/ LeaveQueue(r) \/ Return(r)
  \/ serve(r) \/ DeadlinePasses(r)

RateNext ==
  \/ \E r \in Requests :
       \/ RateUser(r) /\ noteInc(r, user[r])
       \/ RateCluster(r) /\ noteInc(r, clusterUser(r))
       \/ UndoRateUser(r) /\ noteUndo(r, user[r])
       \/ UndoRateCluster(r) /\ noteUndo(r, clusterUser(r))
       \/ Connect(r) /\ noteStart(r)
       \/ others(r) /\ UNCHANGED history
  \/ \E a \in Configured : ResetRate(a) /\ noteReset(a)

RateSpec == RateInit /\ [][RateNext]_rateVars

\* What the reset race costs (scope.go:238,254-258,1009): the requests that an
\* account starts in a minute exceed its requests_per_minute by at most the
\* requests that were between their increment and their start, or its roll-back,
\* when the minute began - the reset wipes their increments, so a late start is
\* not counted and a late roll-back takes off another request - and by one for
\* each of them; an account with a negative limit starts none.  The accounts
\* are those of the configuration: the copy of a cluster user that a wildcarded
\* request gets (proxy.go:873) counts nobody else.
RateOvershoot ==
  \A a \in Configured :
    /\ reqPerMin[a] > 0 => started[a] <= reqPerMin[a] + Cardinality(late[a])
    /\ reqPerMin[a] < 0 => started[a] = 0
=============================================================================
