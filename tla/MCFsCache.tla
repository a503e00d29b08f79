----------------------------- MODULE MCFsCache ------------------------------
(***************************************************************************)
(* FsCache with an empty response and a longer one, both for one key.      *)
(***************************************************************************)
EXTENDS FsCache, TLC

CONSTANTS k1, p1, p2

MCkey    == [q \in Puts |-> k1]
MClength == [q \in Puts |-> IF q = p2 THEN 2 ELSE 0]

\* Bound: no Get is under way once an I/O operation has failed.  What a failure
\* leaves for a Get to see is a short file, as a Put does that is not over.
MCGets == failures = 0 \/ \A g \in Gets : gpc[g] = "idle"
=============================================================================
