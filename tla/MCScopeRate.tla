---------------------------- MODULE MCScopeRate ----------------------------
(***************************************************************************)
(* ScopeRate on three goroutines: r1 and r2 serve user u1, which may start *)
(* one request a minute, r3 serves user u2, which a negative limit blocks. *)
(***************************************************************************)
EXTENDS ScopeRate, TLC

CONSTANTS r1, r2, r3, u1, u2, c1

MCuser   == [r \in Requests |-> IF r = r3 THEN u2 ELSE u1]
MCpacket == [r \in Requests |-> 1]
MCtoUser == [u \in Users |-> c1]
MCnone   == [a \in Accounts |-> 0]

MCreqPerMin == (u1 :> 1) @@ (u2 :> -1) @@ (c1 :> 0)

\* The packet size bucket of the cluster user holds one packet.
MCtokensBurst == (u1 :> 0) @@ (u2 :> 0) @@ (c1 :> 1)

MCSymmetry == Permutations({r1, r2}) \cup Permutations(Hosts)
=============================================================================
