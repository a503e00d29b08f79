------------------------------ MODULE MCScope ------------------------------
(***************************************************************************)
(* Scope on three goroutines: r1 serves user u1, r2 and r3 serve user u2,  *)
(* and both users are mapped to the cluster user c1.  u2 is wildcarded: r2 *)
(* addresses it by name and counts on c1, r3 matches its pattern and       *)
(* counts on a copy of c1.                                                 *)
(***************************************************************************)
EXTENDS Scope, TLC

CONSTANTS r1, r2, r3, u1, u2, c1, h1

MCuser   == [r \in Requests |-> IF r = r1 THEN u1 ELSE u2]
MCpacket == [r \in Requests |-> 1]
MCtoUser == [u \in Users |-> c1]
MCnone   == [a \in Accounts |-> 0]

\* The concurrency limits bind on the cluster user, for r1 and r2, and on the
\* user u2, for r2 and r3; both kinds of queue can fill up.
MCmaxConcurrentQueries == (u1 :> 0) @@ (u2 :> 1) @@ (c1 :> 1) @@ (r3 :> 1)
MCmaxQueueSize         == (u1 :> 0) @@ (u2 :> 1) @@ (c1 :> 1) @@ (r3 :> 1)

\* Bound: only r3 is ever sent to a host other than h1, and only while r2 is
\* not in use.  MCScopeRate moves every request at any time.
MCHostBound == \A r \in Requests : host[r] # h1 => r = r3 /\ pc[r2] = "idle"
=============================================================================
