---------------------------- MODULE MCRedisCache ---------------------------
(***************************************************************************)
(* Instance of RedisCache for TLC.                                         *)
(***************************************************************************)
EXTENDS RedisCache

CONSTANTS p1

\* The Puts are interchangeable, so one of two has the longer response; two
\* short ones are left out, since none of them is streamed.
MCSizes == \A n \in Sizes : n <= size[p1]

\* Bound: one of the Puts meets a fault that it does not notice.
MCFaults == Cardinality(spoiled) <= 1
=============================================================================
