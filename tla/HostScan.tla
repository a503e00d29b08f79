----------------------------- MODULE HostScan ------------------------------
(***************************************************************************)
(* replica.getHost (scope.go): one goroutine scans the N hosts of a        *)
(* replica for the least loaded one while the other goroutines change what *)
(* it reads: heartbeats and failed requests switch hosts on and off,       *)
(* requests start and end, penalties come and go.                          *)
(*                                                                         *)
(* Each atomic load of the scan is one action.  The load of a host is read *)
(* in two parts (Node.CurrentLoad), so the sum may never have been its     *)
(* load at any instant.                                                    *)
(*                                                                         *)
(*   N                 number of hosts                                     *)
(*   MaxConn, MaxPen   bounds on the connections and the penalty of a host *)
(*   MaxUint           ^uint32(0), larger than every load                  *)
(* Operators whose comment starts with "Fault:" are faulty variants of the *)
(* operator below them; with one in its place a property fails.            *)
(***************************************************************************)
EXTENDS Balance

CONSTANTS N, MaxConn, MaxPen, MaxUint

ASSUME HostScanAssumption == /\ N \in Nat \ {0}
                             /\ MaxConn \in Nat
                             /\ MaxPen \in Nat
                             /\ MaxUint \in Nat
                             /\ MaxConn + MaxPen < MaxUint

Hosts == 0..(N - 1)

VARIABLES
  active, conn, pen,  \* host -> Node.active, Node.connections, Node.penalty
  pc,                 \* next atomic operation of the scan
  idx,                \* where the scan starts
  i,                  \* the loop variable, 0 for the starting host
  c,                  \* connections read by the CurrentLoad under way
  h, reqs,            \* the best host so far and its load
  touched,            \* history: hosts changed since the scan started
  dropped,            \* history: hosts inactive at some point of the scan
  wasUp               \* history: hosts active at some point of the scan

shared == <<active, conn, pen>>
scan   == <<pc, idx, i, c, h, reqs>>
vars   == <<active, conn, pen, pc, idx, i, c, h, reqs, touched, dropped, wasUp>>

load == [k \in Hosts |-> conn[k] + pen[k]]
tmpH == at(idx, i, N)

ScanTypeOK ==
  /\ active \in [Hosts -> BOOLEAN]
  /\ conn \in [Hosts -> 0..MaxConn]
  /\ pen \in [Hosts -> 0..MaxPen]
  /\ pc \in {"start", "conn", "pen", "active", "done"}
  /\ idx \in Hosts /\ i \in 0..N /\ h \in Hosts
  /\ c \in 0..MaxConn
  /\ reqs \in 0..(MaxConn + MaxPen) \cup {MaxUint}
  /\ touched \subseteq Hosts /\ dropped \subseteq Hosts /\ wasUp \subseteq Hosts

Init ==
  /\ active \in [Hosts -> BOOLEAN]
  /\ conn \in [Hosts -> 0..MaxConn]
  /\ pen \in [Hosts -> 0..MaxPen]
  /\ pc = "start" /\ idx = 0 /\ i = 0 /\ c = 0 /\ h = 0 /\ reqs = MaxUint
  /\ touched = {} /\ dropped = {} /\ wasUp = {}

----------------------------------------------------------------------------
(* The scan.                                                               *)

\* atomic.AddUint32(&r.nextHostIdx, 1) % n: other goroutines advance it too.
\* A single host is returned without looking at it.
Start ==
  /\ pc = "start"
  /\ \E k \in Hosts : idx' = k /\ h' = k
  /\ pc' = IF N = 1 THEN "done" ELSE "conn"
  /\ i' = 0 /\ c' = 0 /\ reqs' = MaxUint
  /\ touched' = {}
  /\ dropped' = {k \in Hosts : ~active[k]}
  /\ wasUp' = {k \in Hosts : active[k]}
  /\ UNCHANGED shared

\* Go on with host i+1, or return the best host so far.
advance ==
  /\ i' = i + 1
  /\ pc' = IF i + 1 < N THEN "active" ELSE "done"

\* CurrentLoad of the host under examination, first read.
ReadConnections ==
  /\ pc = "conn"
  /\ c' = conn[tmpH]
  /\ pc' = "pen"
  /\ UNCHANGED <<idx, i, h, reqs, touched, dropped, wasUp, shared>>

\* Fault: reqs is not updated with the host.
readPenaltyKeepsReqs ==
  /\ pc = "pen"
  /\ LET tmpReqs == c + pen[tmpH]
     IN  \/ i = 0 /\ reqs' = tmpReqs /\ pc' = "active" /\ UNCHANGED <<i, h>>
         \/ /\ i > 0
            /\ h' = IF tmpReqs < reqs THEN tmpH ELSE h
            /\ advance
            /\ UNCHANGED reqs
  /\ c' = 0
  /\ UNCHANGED <<idx, touched, dropped, wasUp, shared>>

\* Fault: <= for <.
readPenaltyLastOfEqual ==
  /\ pc = "pen"
  /\ LET tmpReqs == c + pen[tmpH]
     IN  \/ i = 0 /\ reqs' = tmpReqs /\ pc' = "active" /\ UNCHANGED <<i, h>>
         \/ /\ i > 0
            /\ h' = IF tmpReqs <= reqs THEN tmpH ELSE h
            /\ reqs' = IF tmpReqs <= reqs THEN tmpReqs ELSE reqs
            /\ advance
  /\ c' = 0
  /\ UNCHANGED <<idx, touched, dropped, wasUp, shared>>

\* Second read.  The starting host's activity is read after its load; of any
\* other host a load of 0 ends the scan and a smaller load replaces the best.
ReadPenalty ==
  /\ pc = "pen"
  /\ LET tmpReqs == c + pen[tmpH]
     IN  \/ /\ i = 0
            /\ reqs' = tmpReqs
            /\ pc' = "active"
            /\ UNCHANGED <<i, h>>
         \/ /\ i > 0 /\ tmpReqs = 0
            /\ h' = tmpH /\ reqs' = 0
            /\ pc' = "done"
            /\ UNCHANGED i
         \/ /\ i > 0 /\ tmpReqs > 0
            /\ h' = IF tmpReqs < reqs THEN tmpH ELSE h
            /\ reqs' = IF tmpReqs < reqs THEN tmpReqs ELSE reqs
            /\ advance
  /\ c' = 0
  /\ UNCHANGED <<idx, touched, dropped, wasUp, shared>>

\* Fault: an inactive first host is compared like an active one.
checkFirstNoPriority ==
  /\ pc = "active" /\ i = 0
  /\ reqs' = reqs
  /\ IF reqs' = 0 THEN pc' = "done" /\ UNCHANGED i ELSE advance
  /\ UNCHANGED <<idx, c, h, touched, dropped, wasUp, shared>>

\* IsActive of the starting host: inactive gets the least priority.
CheckFirst ==
  /\ pc = "active" /\ i = 0
  /\ reqs' = IF active[idx] THEN reqs ELSE MaxUint
  /\ IF reqs' = 0 THEN pc' = "done" /\ UNCHANGED i ELSE advance
  /\ UNCHANGED <<idx, c, h, touched, dropped, wasUp, shared>>

\* IsActive of another host: an inactive one is skipped.
CheckOther ==
  /\ pc = "active" /\ i > 0
  /\ IF active[tmpH] THEN pc' = "conn" /\ UNCHANGED i ELSE advance
  /\ UNCHANGED <<idx, c, h, reqs, touched, dropped, wasUp, shared>>

----------------------------------------------------------------------------
(* The other goroutines.                                                   *)

SetIsActive(k, b) ==
  /\ active[k] # b
  /\ active' = [active EXCEPT ![k] = b]
  /\ touched' = touched \cup {k}
  /\ dropped' = IF b THEN dropped ELSE dropped \cup {k}
  /\ wasUp' = IF b THEN wasUp \cup {k} ELSE wasUp
  /\ UNCHANGED <<conn, pen, scan>>

SetConnections(k, n) ==
  /\ conn[k] # n
  /\ conn' = [conn EXCEPT ![k] = n]
  /\ touched' = touched \cup {k}
  /\ UNCHANGED <<active, pen, scan, dropped, wasUp>>

SetPenalty(k, n) ==
  /\ pen[k] # n
  /\ pen' = [pen EXCEPT ![k] = n]
  /\ touched' = touched \cup {k}
  /\ UNCHANGED <<active, conn, scan, dropped, wasUp>>

getHost == Start \/ ReadConnections \/ ReadPenalty \/ CheckFirst \/ CheckOther

Others == \E k \in Hosts : \/ \E b \in BOOLEAN : SetIsActive(k, b)
                           \/ \E n \in 0..MaxConn : SetConnections(k, n)
                           \/ \E n \in 0..MaxPen : SetPenalty(k, n)

Next == pc # "done" /\ (getHost \/ Others)

Spec == Init /\ [][Next]_vars

----------------------------------------------------------------------------
(* Properties of the host that getHost returns.                            *)

\* The comment of getHost (scope.go:977-979), made precise under concurrency:
\* when some host was active from the beginning of the scan to its end, the
\* host returned was active at some point of the scan as well.
PickedWasUp == pc = "done" /\ N > 1 /\ (\E k \in Hosts : k \notin dropped) => h \in wasUp

\* Least loaded, under concurrency: the load that the scan read from the host
\* it returns is at most the load of every host that stayed active and kept
\* its load during the scan, whatever the others did.
PickedLeast ==
  pc = "done" /\ N > 1 => \A k \in Hosts : active[k] /\ k \notin touched => reqs <= load[k]

\* Undisturbed, the loop with its two early returns computes the definition.
QuietPick ==
  pc = "done" /\ touched = {} /\ N > 1 => isLeastLoaded(h, idx, N, active, load)
=============================================================================
