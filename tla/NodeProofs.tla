----------------------------- MODULE NodeProofs -----------------------------
(***************************************************************************)
(* The penalty of a node for every number of callers and every penalty     *)
(* size: it is what the timers will take back, and concurrent callers      *)
(* overshoot the maximum by less than one penalty each.  The inductive     *)
(* invariant counts, besides the penalty, those callers that have passed   *)
(* the check of the maximum and have not added yet.                        *)
(***************************************************************************)
EXTENDS Node, FiniteSetTheorems, TLAPS

\* Callers that have passed the check of the maximum.
adding == {r \in Callers : pc[r] = "add"}

\* The penalty with all the additions that are already decided.
Committed ==
  penalty + penaltySize * Cardinality(adding)
    < penaltyMaxSize + penaltySize * Cardinality(Callers)

PInv == NodeTypeOK /\ PenaltyExact /\ Committed

----------------------------------------------------------------------------
(* Counting callers.                                                       *)

\* A set of callers is finite and no larger than that of all callers.
LEMMA CallersCard ==
  ASSUME NEW S \in SUBSET Callers
  PROVE  /\ IsFiniteSet(S)
         /\ Cardinality(S) \in Nat
         /\ Cardinality(Callers) \in Nat
         /\ Cardinality(S) <= Cardinality(Callers)
<1>1. IsFiniteSet(S) /\ Cardinality(S) <= Cardinality(Callers)
  BY FS_Subset, NodeAssumption
<1> QED  BY <1>1, FS_CardinalityType, NodeAssumption

\* One caller more, one caller less.
LEMMA CallersChange ==
  ASSUME NEW S \in SUBSET Callers, NEW r \in Callers
  PROVE  /\ r \notin S => Cardinality(S \cup {r}) = Cardinality(S) + 1
         /\ r \in S => Cardinality(S \ {r}) = Cardinality(S) - 1
<1>1. IsFiniteSet(S)
  BY CallersCard
<1> QED  BY <1>1, FS_AddElement, FS_RemoveElement

\* The product is monotonic, and grows by one penalty with each caller.
LEMMA Product ==
  ASSUME NEW m \in Nat, NEW n \in Nat
  PROVE  /\ penaltySize * m \in Nat
         /\ penaltySize * (m + 1) = penaltySize * m + penaltySize
         /\ m <= n => penaltySize * m <= penaltySize * n
<1>1. penaltySize \in Nat
  BY NodeAssumption
<1>2. penaltySize * m \in Nat /\ penaltySize * (m + 1) = penaltySize * m + penaltySize
  BY <1>1
<1>3. ASSUME m <= n PROVE penaltySize * m <= penaltySize * n
  <2>1. n - m \in Nat /\ n = m + (n - m)
    BY <1>3
  <2>2. penaltySize * n = penaltySize * m + penaltySize * (n - m)
    BY <1>1, <2>1
  <2>3. penaltySize * (n - m) \in Nat
    BY <1>1, <2>1
  <2> QED  BY <1>2, <2>2, <2>3
<1> QED  BY <1>2, <1>3

----------------------------------------------------------------------------
(* One step.                                                               *)

\* At the start there is no penalty and no caller.
LEMMA PInit == Init => PInv
<1> SUFFICES ASSUME Init PROVE PInv
  OBVIOUS
<1>1. arming = {} /\ adding = {}
  BY DEF Init, arming, adding
<1>2. Cardinality({}) = 0 /\ Cardinality(Callers) \in Nat
  BY FS_EmptySet, FS_CardinalityType, NodeAssumption
<1>3. penaltySize * Cardinality(Callers) \in Nat /\ penaltySize * 0 = 0
  BY <1>2, NodeAssumption
<1>4. Wrap > 0
  BY <1>3, NodeAssumption
<1>5. NodeTypeOK
  <2>1. penalty \in 0..(Wrap - 1) /\ timers \in Nat
    BY <1>4, NodeAssumption DEF Init
  <2>2. /\ probe \in {"wait", "healthy", "error", "stopped"}
        /\ pc \in [Callers -> {"idle", "load", "add", "arm", "mark"}]
        /\ cause \in [Callers -> {"none", "badGateway", "timeout"}]
    BY DEF Init
  <2>3. active \in BOOLEAN /\ reachable \in BOOLEAN /\ done \in BOOLEAN
    BY Zenon DEF Init
  <2> QED  BY <2>1, <2>2, <2>3, Zenon DEF NodeTypeOK
<1>6. PenaltyExact
  BY <1>1, <1>2, <1>3 DEF Init, PenaltyExact
<1>7. Committed
  BY <1>1, <1>2, <1>3, NodeAssumption DEF Init, Committed
<1> QED  BY <1>5, <1>6, <1>7 DEF PInv

\* What the invariant says of the penalty as a number: it fits into the
\* counter with room for one more caller that adds, and covers each timer.
LEMMA PenaltyRange ==
  ASSUME PInv
  PROVE  /\ penalty \in Nat /\ penalty < Wrap
         /\ adding # {} => penalty + penaltySize < Wrap
         /\ timers > 0 => penalty >= penaltySize
<1>1. /\ Cardinality(adding) \in Nat /\ Cardinality(arming) \in Nat
      /\ Cardinality(Callers) \in Nat
  BY CallersCard DEF adding, arming
<1>2. penalty \in Nat /\ timers \in Nat /\ penalty < Wrap
  BY NodeAssumption DEF PInv, NodeTypeOK
<1>3. ASSUME adding # {} PROVE penalty + penaltySize < Wrap
  <2>1. PICK r \in adding : TRUE
    BY <1>3
  <2>2. adding \in SUBSET Callers /\ r \in Callers
    BY <2>1 DEF adding
  <2>3. Cardinality(adding \ {r}) = Cardinality(adding) - 1
        /\ Cardinality(adding \ {r}) \in Nat
    BY <2>1, <2>2, CallersChange, CallersCard
  <2>4. penaltySize * 1 <= penaltySize * Cardinality(adding)
    BY <1>1, <2>3, Product
  <2>5. penaltySize * 1 = penaltySize /\ penaltySize * Cardinality(adding) \in Nat
        /\ penaltySize * Cardinality(Callers) \in Nat
    BY <1>1, Product, NodeAssumption
  <2> QED  BY <1>2, <2>4, <2>5, NodeAssumption DEF PInv, Committed
<1>4. ASSUME timers > 0 PROVE penalty >= penaltySize
  <2>1. penaltySize * 1 <= penaltySize * (timers + Cardinality(arming))
    BY <1>1, <1>2, <1>4, Product
  <2>2. penaltySize * 1 = penaltySize
    BY NodeAssumption
  <2> QED  BY <2>1, <2>2 DEF PInv, PenaltyExact
<1> QED  BY <1>2, <1>3, <1>4

\* Flags stay Boolean: heartbeats and failed requests store truth values.
LEMMA FlagStep ==
  ASSUME NodeTypeOK, [Next]_vars
  PROVE  active' \in BOOLEAN /\ reachable' \in BOOLEAN /\ done' \in BOOLEAN
<1> USE DEF NodeTypeOK
<1>1. CASE UNCHANGED vars
  BY <1>1, Zenon DEF vars
<1>2. CASE StartHeartbeat
  BY <1>2, Zenon DEF StartHeartbeat, Probe, StoreProbe, Stop
<1>3. CASE Expire \/ Flip \/ CloseDone
  BY <1>3, Zenon DEF Expire, Flip, CloseDone
<1>4. ASSUME NEW r \in Callers, penalize(r)
      PROVE  active' \in BOOLEAN /\ reachable' \in BOOLEAN /\ done' \in BOOLEAN
  BY <1>4, Zenon DEF penalize, LoadPenalty, AddPenalty, ArmTimer, MarkInactive
<1>5. ASSUME NEW r \in Callers, NEW why, Fail(r, why)
      PROVE  active' \in BOOLEAN /\ reachable' \in BOOLEAN /\ done' \in BOOLEAN
  BY <1>5, Zenon DEF Fail
<1> QED  BY <1>1, <1>2, <1>3, <1>4, <1>5, Zenon DEF Next

\* Goroutines stay at the labels of their functions.
LEMMA LabelStep ==
  ASSUME NodeTypeOK, [Next]_vars
  PROVE  /\ probe' \in {"wait", "healthy", "error", "stopped"}
         /\ pc' \in [Callers -> {"idle", "load", "add", "arm", "mark"}]
         /\ cause' \in [Callers -> {"none", "badGateway", "timeout"}]
<1> USE DEF NodeTypeOK
<1> DEFINE Goal == /\ probe' \in {"wait", "healthy", "error", "stopped"}
                   /\ pc' \in [Callers -> {"idle", "load", "add", "arm", "mark"}]
                   /\ cause' \in [Callers -> {"none", "badGateway", "timeout"}]
<1>1. CASE UNCHANGED vars
  BY <1>1 DEF vars
<1>2. CASE StartHeartbeat
  BY <1>2 DEF StartHeartbeat, Probe, StoreProbe, Stop
<1>3. CASE Expire \/ Flip \/ CloseDone
  BY <1>3 DEF Expire, Flip, CloseDone
<1>4. ASSUME NEW r \in Callers, penalize(r) PROVE Goal
  BY <1>4 DEF penalize, LoadPenalty, AddPenalty, ArmTimer, MarkInactive, return
<1>5. ASSUME NEW r \in Callers, NEW why \in {"badGateway", "timeout"}, Fail(r, why)
      PROVE  Goal
  BY <1>5 DEF Fail
<1> QED  BY <1>1, <1>2, <1>3, <1>4, <1>5 DEF Next

\* What a step does to the numbers: nothing, or a caller passes the check, adds
\* or arms, or a timer fires.
Steady   == /\ penalty' = penalty /\ timers' = timers
            /\ arming' = arming /\ adding' = adding
Decide   == /\ penalty < penaltyMaxSize
            /\ penalty' = penalty /\ timers' = timers
            /\ arming' = arming
Add(r)   == /\ r \in adding /\ adding' = adding \ {r}
            /\ r \notin arming /\ arming' = arming \cup {r}
            /\ penalty' = (penalty + penaltySize) % Wrap /\ timers' = timers
Arm(r)   == /\ r \in arming /\ arming' = arming \ {r}
            /\ adding' = adding
            /\ penalty' = penalty /\ timers' = timers + 1
Fire     == /\ timers > 0 /\ timers' = timers - 1
            /\ penalty' = (penalty + Wrap - penaltySize) % Wrap
            /\ arming' = arming /\ adding' = adding

\* There are no other steps.
LEMMA NumberCases ==
  ASSUME NodeTypeOK, [Next]_vars
  PROVE  Steady \/ Decide \/ Fire \/ \E r \in Callers : Add(r) \/ Arm(r)
<1> USE DEF NodeTypeOK, arming, adding
<1>1. CASE UNCHANGED vars
  BY <1>1 DEF vars, Steady
<1>2. CASE StartHeartbeat
  BY <1>2 DEF StartHeartbeat, Probe, StoreProbe, Stop, Steady
<1>3. CASE Flip \/ CloseDone
  BY <1>3 DEF Flip, CloseDone, Steady
<1>4. CASE Expire
  BY <1>4 DEF Expire, Fire
<1>5. ASSUME NEW r \in Callers, LoadPenalty(r) PROVE Steady \/ Decide
  <2>1. CASE penalty >= penaltyMaxSize
    BY <1>5, <2>1 DEF LoadPenalty, return, Steady
  <2>2. CASE ~(penalty >= penaltyMaxSize)
    <3>1. penalty < penaltyMaxSize
      BY <2>2, NodeAssumption
    <3> QED  BY <1>5, <2>2, <3>1 DEF LoadPenalty, Decide
  <2> QED  BY <2>1, <2>2
<1>6. ASSUME NEW r \in Callers, AddPenalty(r) PROVE Add(r)
  BY <1>6 DEF AddPenalty, Add
<1>7. ASSUME NEW r \in Callers, ArmTimer(r) PROVE Arm(r)
  BY <1>7 DEF ArmTimer, return, Arm
<1>8. ASSUME NEW r \in Callers, MarkInactive(r) PROVE Steady
  BY <1>8 DEF MarkInactive, Steady
<1>9. ASSUME NEW r \in Callers, NEW why, Fail(r, why) PROVE Steady
  BY <1>9 DEF Fail, Steady
<1> QED
  BY <1>1, <1>2, <1>3, <1>4, <1>5, <1>6, <1>7, <1>8, <1>9 DEF Next, penalize

\* The numbers stay exact and bounded.
LEMMA NumberStep ==
  ASSUME PInv, [Next]_vars
  PROVE  penalty' \in 0..(Wrap - 1) /\ timers' \in Nat /\ PenaltyExact' /\ Committed'
<1> DEFINE a == Cardinality(adding)
           m == Cardinality(arming)
           n == Cardinality(Callers)
           Goal == penalty' \in 0..(Wrap - 1) /\ timers' \in Nat /\ PenaltyExact' /\ Committed'
<1>1. /\ adding \in SUBSET Callers /\ arming \in SUBSET Callers
      /\ adding' \in SUBSET Callers
  BY DEF adding, arming
<1>2. a \in Nat /\ m \in Nat /\ n \in Nat /\ Cardinality(adding') \in Nat
      /\ Cardinality(adding') <= n
  BY <1>1, CallersCard
<1>3. /\ penalty \in Nat /\ penalty < Wrap /\ timers \in Nat
      /\ penaltySize \in Nat /\ penaltyMaxSize \in Nat /\ Wrap \in Nat
  BY PenaltyRange, NodeAssumption DEF PInv, NodeTypeOK
<1>4. /\ penalty = penaltySize * (timers + m)
      /\ penalty + penaltySize * a < penaltyMaxSize + penaltySize * n
  BY DEF PInv, PenaltyExact, Committed
<1>5. CASE Steady
  BY <1>3, <1>4, <1>5 DEF Steady, PenaltyExact, Committed
<1>6. CASE Decide
  <2>1. penaltySize * Cardinality(adding') <= penaltySize * n
    BY <1>2, Product
  <2>2. penaltySize * Cardinality(adding') \in Nat /\ penaltySize * n \in Nat
    BY <1>2, Product
  <2>3. Committed'
    BY <1>3, <1>6, <2>1, <2>2 DEF Decide, Committed
  <2> QED  BY <1>3, <1>4, <1>6, <2>3 DEF Decide, PenaltyExact
<1>7. ASSUME NEW r \in Callers, Add(r) PROVE Goal
  <2>1. penalty' = penalty + penaltySize /\ penalty + penaltySize < Wrap
    <3>1. penalty + penaltySize < Wrap
      BY <1>7, PenaltyRange DEF Add
    <3> QED  BY <1>3, <1>7, <3>1 DEF Add
  <2>2. Cardinality(arming') = m + 1 /\ Cardinality(adding') = a - 1
    BY <1>1, <1>7, CallersChange DEF Add
  <2>3. penaltySize * ((timers + m) + 1) = penaltySize * (timers + m) + penaltySize
    BY <1>2, <1>3, Product
  <2>4. PenaltyExact'
    BY <1>2, <1>3, <1>4, <1>7, <2>1, <2>2, <2>3 DEF Add, PenaltyExact
  <2>5. penaltySize * a = penaltySize * (a - 1) + penaltySize /\ penaltySize * (a - 1) \in Nat
    <3>1. a - 1 \in Nat /\ a = (a - 1) + 1
      BY <1>2, <2>2
    <3> QED  BY <3>1, Product
  <2>6. Committed'
    BY <1>2, <1>3, <1>4, <2>1, <2>2, <2>5, Product DEF Committed
  <2> QED  BY <1>3, <1>7, <2>1, <2>4, <2>6 DEF Add
<1>8. ASSUME NEW r \in Callers, Arm(r) PROVE Goal
  <2>1. Cardinality(arming') = m - 1
    BY <1>1, <1>8, CallersChange DEF Arm
  <2>2. timers' + Cardinality(arming') = timers + m
    BY <1>2, <1>3, <1>8, <2>1 DEF Arm
  <2> QED  BY <1>3, <1>4, <1>8, <2>2 DEF Arm, PenaltyExact, Committed
<1>9. CASE Fire
  <2>1. penalty - penaltySize \in Nat
    BY <1>3, <1>9, PenaltyRange DEF Fire
  <2>2. penalty' = penalty - penaltySize
    BY <1>3, <1>9, <2>1 DEF Fire
  <2>3. timers' \in Nat /\ timers + m = (timers' + m) + 1
    BY <1>2, <1>3, <1>9 DEF Fire
  <2>4. penaltySize * (timers + m) = penaltySize * (timers' + m) + penaltySize
    BY <1>2, <2>3, Product
  <2>5. penaltySize * (timers' + m) \in Nat
    BY <1>2, <2>3, Product
  <2>6. PenaltyExact'
    BY <1>3, <1>4, <1>9, <2>2, <2>4, <2>5 DEF Fire, PenaltyExact
  <2>7. Committed'
    BY <1>2, <1>3, <1>4, <1>9, <2>2, Product DEF Fire, Committed
  <2> QED  BY <1>3, <2>1, <2>2, <2>3, <2>6, <2>7
<1> QED
  BY <1>5, <1>6, <1>7, <1>8, <1>9, NumberCases DEF PInv

\* The invariant is kept by every step.
LEMMA PStep == PInv /\ [Next]_vars => PInv'
<1> SUFFICES ASSUME PInv, [Next]_vars PROVE PInv'
  OBVIOUS
<1>1. NodeTypeOK
  BY DEF PInv
<1>2. NodeTypeOK'
  BY <1>1, FlagStep, LabelStep, NumberStep, Zenon DEF NodeTypeOK
<1> QED  BY <1>2, NumberStep DEF PInv

----------------------------------------------------------------------------
(* The theorems.                                                           *)

\* The inductive invariant holds of every execution.
THEOREM PenaltyInvariant == Spec => []PInv
BY PInit, PStep, PTL DEF Spec

\* Penalize and its timers (node.go:137-153), for any number of concurrent
\* callers: the penalty is always what the timers will take back; the
\* unsigned subtraction of a timer never underflows.
THEOREM PenaltyNeverDrifts == Spec => []PenaltyExact
<1>1. PInv => PenaltyExact
  BY DEF PInv
<1> QED  BY <1>1, PenaltyInvariant, PTL

\* Callers that pass the check of the maximum together exceed it by less than
\* one penalty each (node.go:142-149).
THEOREM PenaltyIsBounded == Spec => []PenaltyBound
<1>1. PInv => PenaltyBound
  <2> SUFFICES ASSUME PInv PROVE PenaltyBound
    OBVIOUS
  <2>1. Cardinality(adding) \in Nat /\ Cardinality(Callers) \in Nat
    BY CallersCard DEF adding
  <2>2. penaltySize * Cardinality(adding) \in Nat /\ penaltySize * Cardinality(Callers) \in Nat
    BY <2>1, Product
  <2>3. penalty \in Nat /\ penaltyMaxSize \in Nat
    BY PenaltyRange, NodeAssumption
  <2> QED  BY <2>2, <2>3 DEF PInv, Committed, PenaltyBound
<1> QED  BY <1>1, PenaltyInvariant, PTL
=============================================================================
