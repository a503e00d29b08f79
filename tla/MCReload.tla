------------------------------ MODULE MCReload ------------------------------
(***************************************************************************)
(* Instances of Reload.                                                    *)
(***************************************************************************)
EXTENDS Reload

\* A pool that a reverseProxy remembers rightly, and one it does not.
MCPools == {<<2, 2>>, <<3, 2>>}

\* Bound: the file chproxy starts with.  Later files take every form.
MCFirstConfig == config[1].pool = <<2, 2>> /\ ~config[1].wild

\* The default of connection_pool: 100 and 2.
MCDefaultPool == {<<100, 2>>}
=============================================================================
