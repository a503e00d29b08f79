---------------------------- MODULE MCDispatch -----------------------------
(***************************************************************************)
(* Dispatch on two replicas with a single host each, or on one with two    *)
(* hosts and one with a single host.  The requests of q1 have no session,  *)
(* those of q2 have one.                                                   *)
(***************************************************************************)
EXTENDS Dispatch, TLC

CONSTANTS q1, q2

MCsession == [r \in Requests |-> IF r = q2 THEN 2 ELSE NoSession]
MCSingle  == [p \in 0..(Replicas - 1) |-> 1]
MCNodes   == [p \in 0..(Replicas - 1) |-> IF p = 0 THEN 2 ELSE 1]

\* Bound: only the requests of q1 are given up, and one penalty runs at a time.
MCBound == /\ \A r \in Requests : r # q1 => ctx[r] = "ok"
           /\ Cardinality({h \in Hosts : penalty[h] > 0}) <= 1
=============================================================================
