------------------------------ MODULE Admission ----------------------------
(***************************************************************************)
(* What the admission of requests promises: a request asks, and is let in  *)
(* or refused in one atomic step; it is let in only when every account it  *)
(* counts for stays within its limit, and counts until it leaves.          *)
(*                                                                         *)
(*   accounts   request -> the accounts it counts for                      *)
(*   limit      account -> requests let in at a time, 0 is no limit        *)
(***************************************************************************)
EXTENDS Naturals, FiniteSets

CONSTANTS Requests, Accounts, accounts, limit

VARIABLES
  waiting,  \* requests that have asked
  inside    \* requests that were let in and have not left

Init == waiting = {} /\ inside = {}

Ask(r) ==
  /\ r \notin waiting \cup inside
  /\ waiting' = waiting \cup {r}
  /\ UNCHANGED inside

\* The requests in S stay within the limit of account a.
fits(S, a) == limit[a] > 0 => Cardinality({q \in S : a \in accounts[q]}) <= limit[a]

LetIn(r) ==
  /\ r \in waiting
  /\ \A a \in Accounts : fits(inside \cup {r}, a)
  /\ waiting' = waiting \ {r}
  /\ inside' = inside \cup {r}

Refuse(r) ==
  /\ r \in waiting
  /\ waiting' = waiting \ {r}
  /\ UNCHANGED inside

Leave(r) ==
  /\ r \in inside
  /\ inside' = inside \ {r}
  /\ UNCHANGED waiting

Next == \E r \in Requests : Ask(r) \/ LetIn(r) \/ Refuse(r) \/ Leave(r)

Spec == Init /\ [][Next]_<<waiting, inside>>
=============================================================================
