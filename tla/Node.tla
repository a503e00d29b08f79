-------------------------------- MODULE Node -------------------------------
(***************************************************************************)
(* topology.Node: the health of one ClickHouse node and its penalty.       *)
(*                                                                         *)
(* One goroutine runs StartHeartbeat.  Requests that fail on the node      *)
(* penalize it and, after a 502, mark it inactive; each penalty is taken   *)
(* back by a timer of its own.  "active" and "penalty" are atomics, every  *)
(* access to them is one action.                                           *)
(*                                                                         *)
(*   Callers                      request goroutines using the node        *)
(*   penaltySize, penaltyMaxSize  5 and 300 in the code                    *)
(*   Wrap                         2^32, the width of the penalty counter   *)
(* Operators whose comment starts with "Fault:" are faulty variants of the *)
(* operator below them; with one in its place a property fails.            *)
(***************************************************************************)
EXTENDS Integers, FiniteSets

CONSTANTS Callers, penaltySize, penaltyMaxSize, Wrap

ASSUME NodeAssumption == /\ IsFiniteSet(Callers)
                         /\ penaltySize \in Nat \ {0}
                         /\ penaltyMaxSize \in Nat \ {0}
                         /\ Wrap \in Nat
                         /\ penaltyMaxSize + penaltySize * Cardinality(Callers) <= Wrap

VARIABLES
  active, penalty,  \* Node.active and Node.penalty
  timers,           \* running AfterFunc timers of Penalize
  reachable,        \* environment: whether the node answers its health check
  probe,            \* the heartbeat: waiting, or the answer it is about to store
  done,             \* the done channel of StartHeartbeat is closed (reload)
  pc,               \* caller -> next atomic operation
  cause             \* caller -> why it penalizes the node

vars == <<active, penalty, timers, reachable, probe, done, pc, cause>>

NodeTypeOK ==
  /\ active \in BOOLEAN /\ reachable \in BOOLEAN /\ done \in BOOLEAN
  /\ penalty \in 0..(Wrap - 1)
  /\ timers \in Nat
  /\ probe \in {"wait", "healthy", "error", "stopped"}
  /\ pc \in [Callers -> {"idle", "load", "add", "arm", "mark"}]
  /\ cause \in [Callers -> {"none", "badGateway", "timeout"}]

\* newNodes creates nodes without WithDefaultActiveState: inactive until the
\* first heartbeat, which StartHeartbeat sends at once.
Init ==
  /\ active = FALSE /\ penalty = 0 /\ timers = 0
  /\ reachable \in BOOLEAN
  /\ probe = "wait" /\ done = FALSE
  /\ pc = [r \in Callers |-> "idle"]
  /\ cause = [r \in Callers |-> "none"]

----------------------------------------------------------------------------
(* StartHeartbeat.                                                         *)

\* IsHealthy asks the node, at the start and whenever the interval is over.
Probe ==
  /\ probe = "wait"
  /\ probe' = IF reachable THEN "healthy" ELSE "error"
  /\ UNCHANGED <<active, penalty, timers, reachable, done, pc, cause>>

\* Fault: a failed heartbeat is ignored.
storeProbeOnlyUp ==
  /\ probe \in {"healthy", "error"}
  /\ active' = (active \/ probe = "healthy")
  /\ probe' = "wait"
  /\ UNCHANGED <<penalty, timers, reachable, done, pc, cause>>

\* Fault: a successful heartbeat is ignored.
storeProbeOnlyDown ==
  /\ probe \in {"healthy", "error"}
  /\ active' = (active /\ probe = "healthy")
  /\ probe' = "wait"
  /\ UNCHANGED <<penalty, timers, reachable, done, pc, cause>>

\* heartbeat stores the outcome, which may be outdated by now.
StoreProbe ==
  /\ probe \in {"healthy", "error"}
  /\ active' = (probe = "healthy")
  /\ probe' = "wait"
  /\ UNCHANGED <<penalty, timers, reachable, done, pc, cause>>

\* The select after a heartbeat sees the closed channel.
Stop ==
  /\ probe = "wait" /\ done
  /\ probe' = "stopped"
  /\ UNCHANGED <<active, penalty, timers, reachable, done, pc, cause>>

----------------------------------------------------------------------------
(* A request that fails on this node (executeWithRetry, proxyRequest).     *)

\* The proxied request ends with 502, or its deadline passes.
Fail(r, why) ==
  /\ pc[r] = "idle"
  /\ pc' = [pc EXCEPT ![r] = "load"]
  /\ cause' = [cause EXCEPT ![r] = why]
  /\ UNCHANGED <<active, penalty, timers, reachable, probe, done>>

\* What follows Penalize: SetIsActive(false) after a 502, nothing otherwise.
return(r) == pc' = [pc EXCEPT ![r] = IF cause[r] = "badGateway" THEN "mark" ELSE "idle"]

\* Fault: no maximum.
loadPenaltyNoMax(r) ==
  /\ pc[r] = "load"
  /\ pc' = [pc EXCEPT ![r] = "add"]
  /\ UNCHANGED <<active, penalty, timers, reachable, probe, done, cause>>

\* Penalize: the check of the maximum.
LoadPenalty(r) ==
  /\ pc[r] = "load"
  /\ IF penalty >= penaltyMaxSize
     THEN return(r)
     ELSE pc' = [pc EXCEPT ![r] = "add"]
  /\ UNCHANGED <<active, penalty, timers, reachable, probe, done, cause>>

\* Penalize: the addition, on a counter that others may have raised meanwhile.
AddPenalty(r) ==
  /\ pc[r] = "add"
  /\ penalty' = (penalty + penaltySize) % Wrap
  /\ pc' = [pc EXCEPT ![r] = "arm"]
  /\ UNCHANGED <<active, timers, reachable, probe, done, cause>>

\* Fault: no timer takes the penalty back.
armTimerForgotten(r) ==
  /\ pc[r] = "arm"
  /\ return(r)
  /\ UNCHANGED <<active, penalty, timers, reachable, probe, done, cause>>

\* Penalize: time.AfterFunc.
ArmTimer(r) ==
  /\ pc[r] = "arm"
  /\ timers' = timers + 1
  /\ return(r)
  /\ UNCHANGED <<active, penalty, reachable, probe, done, cause>>

\* s.host.SetIsActive(false).
MarkInactive(r) ==
  /\ pc[r] = "mark"
  /\ active' = FALSE
  /\ pc' = [pc EXCEPT ![r] = "idle"]
  /\ UNCHANGED <<penalty, timers, reachable, probe, done, cause>>

\* Fault: Add(^uint32(penaltySize)), without the - 1.
expireByOneMore ==
  /\ timers > 0
  /\ timers' = timers - 1
  /\ penalty' = penalty - (penaltySize + 1)
  /\ UNCHANGED <<active, reachable, probe, done, pc, cause>>

\* A timer fires: Add(^uint32(penaltySize - 1)) subtracts penaltySize.
Expire ==
  /\ timers > 0
  /\ timers' = timers - 1
  /\ penalty' = (penalty + Wrap - penaltySize) % Wrap
  /\ UNCHANGED <<active, reachable, probe, done, pc, cause>>

----------------------------------------------------------------------------
(* The environment.                                                        *)

Flip ==
  /\ reachable' = ~reachable
  /\ UNCHANGED <<active, penalty, timers, probe, done, pc, cause>>

\* restartWithNewConfig closes the channel; requests still use the node.
CloseDone ==
  /\ ~done
  /\ done' = TRUE
  /\ UNCHANGED <<active, penalty, timers, reachable, probe, pc, cause>>

StartHeartbeat == Probe \/ StoreProbe \/ Stop

penalize(r) == LoadPenalty(r) \/ AddPenalty(r) \/ ArmTimer(r) \/ MarkInactive(r)

Next ==
  \/ StartHeartbeat \/ Expire \/ Flip \/ CloseDone
  \/ \E r \in Callers : penalize(r) \/ \E why \in {"badGateway", "timeout"} : Fail(r, why)

Spec == Init /\ [][Next]_vars

\* The heartbeat has a timeout and an interval, goroutines keep running and
\* timers fire; nothing is assumed of the node, of requests or of reloads.
FairSpec == /\ Spec
            /\ WF_vars(StartHeartbeat) /\ WF_vars(Expire)
            /\ \A r \in Callers : WF_vars(penalize(r))

----------------------------------------------------------------------------
(* Properties.                                                             *)

\* Callers between the addition and the timer that will take it back.
arming == {r \in Callers : pc[r] = "arm"}

\* Penalize and its timers (node.go:149-153): the penalty is always what the
\* running timers, and those about to be started, will take back, so it
\* neither leaks nor underflows to a huge load.
PenaltyExact == penalty = penaltySize * (timers + Cardinality(arming))

\* Penalize checks the maximum before it adds (node.go:142-149): concurrent
\* callers exceed penaltyMaxSize, but by less than one penalty each.
PenaltyBound == penalty < penaltyMaxSize + penaltySize * Cardinality(Callers)

\* A node that goes down for good is seen inactive for good while its heartbeat
\* runs, even when a stale probe reported it healthy after a request failed.
DownDetected == (<>[](~reachable /\ ~done)) => <>[]~active

\* A node that stays healthy is seen active again and again: no number of
\* failed requests keeps it out for good (node.go:125-134).
UpDetected == (<>[](reachable /\ ~done)) => []<>active

\* Once requests stop failing on the node its penalty goes back to 0.
PenaltyFades == (<>[](\A r \in Callers : pc[r] = "idle")) => <>[](penalty = 0)
=============================================================================
