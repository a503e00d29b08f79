------------------------------ MODULE Balance ------------------------------
(***************************************************************************)
(* What "least loaded + round robin" (scope.go, getReplica and getHost)    *)
(* chooses, as a definition: items are numbered 0..n-1, a pick starts at   *)
(* item "first", up and load are functions of the items.                   *)
(***************************************************************************)
EXTENDS Integers

\* The item that the scan visits after j steps: (idx + i) % n.
at(first, j, n) == (first + j) % n

\* Item k is an active item with the least load, and the first such item in
\* the order of the scan; it is the starting item when no item is active.
isLeastLoaded(k, first, n, up, load) ==
  \/ /\ k = first
     /\ \A i \in 0..(n - 1) : ~up[i]
  \/ \E j \in 0..(n - 1) :
       /\ k = at(first, j, n)
       /\ up[k]
       /\ \A m \in 0..(n - 1) : up[at(first, m, n)] =>
            /\ load[k] <= load[at(first, m, n)]
            /\ m < j => load[k] < load[at(first, m, n)]

\* The sum of w[0], ..., w[n-1], added up one by one.
sumOf(w, n) == LET sum[i \in 0..n] == IF i = 0 THEN 0 ELSE sum[i - 1] + w[i - 1]
               IN  sum[n]
=============================================================================
