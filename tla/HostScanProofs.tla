--------------------------- MODULE HostScanProofs ---------------------------
(***************************************************************************)
(* What the scan of getHost returns, for every number of hosts and however *)
(* the other goroutines change what it reads.  The inductive invariant     *)
(* says of the i hosts that are behind the scan what the properties say of *)
(* all of them at the end.                                                 *)
(***************************************************************************)
EXTENDS HostScan, TLAPS

running == pc \in {"conn", "pen", "active"}

\* Where the scan is.
Bounds ==
  /\ running => i < N /\ N > 1
  /\ running /\ i = 0 => h = idx
  /\ pc = "done" /\ N > 1 => reqs = 0 \/ i = N

\* A value read from a host that has not changed since is still right.
ReadsRight ==
  /\ pc = "pen" /\ tmpH \notin touched => c = conn[tmpH]
  /\ pc = "active" /\ i = 0 => /\ reqs <= MaxConn + MaxPen
                               /\ idx \notin touched => reqs = load[idx]
  /\ pc \in {"conn", "pen"} /\ i > 0 /\ tmpH \notin touched => active[tmpH]

\* The hosts behind the scan: reqs is at most the load of those that kept it,
\* and some host was chosen if one of them stayed active.
Behind ==
  pc # "start" => \A j \in Hosts : j < i =>
    /\ active[at(idx, j, N)] /\ at(idx, j, N) \notin touched => reqs <= load[at(idx, j, N)]
    /\ at(idx, j, N) \notin dropped => reqs # MaxUint

\* Hosts that are not dropped are active.
NotDropped == pc # "start" => \A k \in Hosts : k \notin dropped => active[k]

\* h is the least loaded of the first n hosts, the first one of them.
Best(n) ==
  \/ reqs = MaxUint /\ h = idx /\ \A m \in Hosts : m < n => ~active[at(idx, m, N)]
  \/ \E j \in Hosts :
       /\ j < n /\ h = at(idx, j, N) /\ active[h] /\ reqs = load[h]
       /\ \A m \in Hosts : m < n /\ active[at(idx, m, N)] =>
            /\ reqs <= load[at(idx, m, N)]
            /\ m < j => reqs < load[at(idx, m, N)]

\* An undisturbed scan has the best host of those behind it.
Undisturbed ==
  touched = {} /\ N > 1 =>
    /\ running /\ i > 0 => reqs > 0 /\ Best(i)
    /\ pc = "done" => Best(N)

\* A host chosen so far, or about to be, was active when it was looked at.  The
\* first host has no such history before its activity is read.
ChosenUp ==
  pc # "start" =>
    /\ \A k \in Hosts : active[k] => k \in wasUp
    /\ pc \in {"conn", "pen"} /\ i > 0 => tmpH \in wasUp
    /\ (i > 0 \/ pc = "done") /\ reqs # MaxUint => h \in wasUp

SInv == ScanTypeOK /\ Bounds /\ ReadsRight /\ Behind /\ NotDropped /\ Undisturbed

----------------------------------------------------------------------------
(* The order of the scan.                                                  *)

\* A position of the scan is a host, the first one where it starts.
LEMMA AtHost ==
  ASSUME NEW first \in Hosts, NEW j \in Nat
  PROVE  at(first, j, N) \in Hosts /\ at(first, 0, N) = first
<1>1. N \in Nat /\ N > 0 /\ first \in Nat /\ first < N
  BY HostScanAssumption DEF Hosts
<1>2. (first + j) % N \in 0..(N - 1)
  BY <1>1
<1>3. (first + 0) % N = first
  BY <1>1
<1> QED  BY <1>2, <1>3 DEF at, Hosts

\* N positions visit every host.
LEMMA AtOnto ==
  ASSUME NEW first \in Hosts, NEW k \in Hosts
  PROVE  \E j \in Hosts : at(first, j, N) = k
<1>1. N \in Nat /\ N > 0 /\ first \in 0..(N - 1) /\ k \in 0..(N - 1)
  BY HostScanAssumption DEF Hosts
<1>2. CASE k >= first
  <2>1. k - first \in Hosts
    BY <1>1, <1>2 DEF Hosts
  <2>2. first + (k - first) = k /\ k % N = k
    BY <1>1
  <2> QED  BY <2>1, <2>2 DEF at
<1>3. CASE k < first
  <2>1. k - first + N \in Hosts
    BY <1>1, <1>3 DEF Hosts
  <2>2. first + (k - first + N) = k + N
    BY <1>1
  <2>3. (k + N) % N = k % N
    BY <1>1
  <2>4. k % N = k
    BY <1>1
  <2> QED  BY <2>1, <2>2, <2>3, <2>4 DEF at
<1> QED  BY <1>1, <1>2, <1>3

\* What the constants are, and that a load is smaller than ^uint32(0).
LEMMA Loads ==
  ASSUME ScanTypeOK
  PROVE  /\ N \in Nat /\ N > 0 /\ MaxConn \in Nat /\ MaxPen \in Nat /\ MaxUint \in Nat
         /\ MaxConn + MaxPen < MaxUint
         /\ \A k \in Hosts : /\ conn[k] \in 0..MaxConn /\ pen[k] \in 0..MaxPen
                             /\ load[k] = conn[k] + pen[k]
                             /\ load[k] \in Nat /\ load[k] < MaxUint
<1>1. /\ N \in Nat /\ N > 0 /\ MaxConn \in Nat /\ MaxPen \in Nat /\ MaxUint \in Nat
      /\ MaxConn + MaxPen < MaxUint
  BY HostScanAssumption
<1>2. \A k \in Hosts : /\ conn[k] \in 0..MaxConn /\ pen[k] \in 0..MaxPen
                       /\ load[k] = conn[k] + pen[k]
  BY DEF ScanTypeOK, load
<1> QED  BY <1>1, <1>2

----------------------------------------------------------------------------
(* Types.                                                                  *)

\* Before the scan starts.
LEMMA ScanInit == Init => SInv
<1> SUFFICES ASSUME Init PROVE SInv
  OBVIOUS
<1>1. 0 \in Hosts /\ 0 \in 0..N /\ 0 \in 0..MaxConn
  BY HostScanAssumption DEF Hosts
<1>2. ScanTypeOK
  BY <1>1 DEF Init, ScanTypeOK
<1> QED
  BY <1>2 DEF Init, SInv, Bounds, ReadsRight, Behind, NotDropped, Undisturbed, running

\* The scan stays within the hosts and the other goroutines within their bounds.
LEMMA ScanTypeStep == ScanTypeOK /\ Bounds /\ Next => ScanTypeOK'
<1> SUFFICES ASSUME ScanTypeOK, Bounds, Next PROVE ScanTypeOK'
  OBVIOUS
<1>a. /\ N \in Nat /\ MaxConn \in Nat /\ MaxPen \in Nat
      /\ tmpH \in Hosts /\ i \in Nat
      /\ conn[tmpH] \in 0..MaxConn /\ pen[tmpH] \in 0..MaxPen
  <2>1. idx \in Hosts /\ i \in Nat
    BY Loads DEF ScanTypeOK
  <2>2. tmpH \in Hosts
    BY <2>1, AtHost DEF tmpH
  <2> QED  BY <2>1, <2>2, Loads
<1> USE DEF ScanTypeOK
<1>1. CASE Start
  BY <1>1, <1>a DEF Start, shared
<1>2. CASE ReadConnections
  BY <1>2, <1>a DEF ReadConnections, shared
<1>3. CASE ReadPenalty
  <2>1. c + pen[tmpH] \in 0..(MaxConn + MaxPen)
    BY <1>a
  <2>2. pc = "pen" /\ i + 1 \in 0..N /\ 0 \in 0..MaxConn
    BY <1>3, <1>a DEF ReadPenalty, Bounds, running
  <2>3. 0 \in 0..(MaxConn + MaxPen)
    BY <1>a
  <2> QED  BY <1>3, <1>a, <2>1, <2>2, <2>3 DEF ReadPenalty, advance, shared
<1>4. CASE CheckFirst \/ CheckOther
  <2>1. i + 1 \in 0..N
    BY <1>4, <1>a DEF CheckFirst, CheckOther, Bounds, running
  <2> QED  BY <1>4, <2>1 DEF CheckFirst, CheckOther, advance, shared
<1>5. CASE Others
  BY <1>5 DEF Others, SetIsActive, SetConnections, SetPenalty, scan
<1> QED
  BY <1>1, <1>2, <1>3, <1>4, <1>5 DEF Next, getHost

----------------------------------------------------------------------------
(* The other goroutines: what they change, they touch.                     *)

\* A host that is not touched after the step is as it was before.
LEMMA OthersTouch ==
  ASSUME ScanTypeOK, Others
  PROVE  /\ UNCHANGED <<pc, idx, i, c, h, reqs>>
         /\ touched' # {}
         /\ touched \subseteq touched' /\ dropped \subseteq dropped'
         /\ \A k \in Hosts : k \notin touched' =>
              active'[k] = active[k] /\ conn'[k] = conn[k] /\ pen'[k] = pen[k]
         /\ \A k \in Hosts : k \notin dropped' /\ active[k] => active'[k]
BY DEF Others, SetIsActive, SetConnections, SetPenalty, scan, ScanTypeOK

\* They keep the invariant.
LEMMA OthersStep == SInv /\ Others /\ ScanTypeOK' => SInv'
<1> SUFFICES ASSUME SInv, Others, ScanTypeOK' PROVE SInv'
  OBVIOUS
<1>1. /\ pc' = pc /\ idx' = idx /\ i' = i /\ c' = c /\ h' = h /\ reqs' = reqs
      /\ touched' # {} /\ touched \subseteq touched' /\ dropped \subseteq dropped'
      /\ \A k \in Hosts : k \notin touched' =>
           active'[k] = active[k] /\ conn'[k] = conn[k] /\ pen'[k] = pen[k]
      /\ \A k \in Hosts : k \notin dropped' /\ active[k] => active'[k]
  BY OthersTouch DEF SInv
<1>2. /\ idx \in Hosts /\ i \in Nat /\ Hosts \subseteq Nat
      /\ \A j \in Hosts : at(idx, j, N) \in Hosts
  <2>1. idx \in Hosts /\ i \in Nat /\ Hosts \subseteq Nat
    BY HostScanAssumption DEF SInv, ScanTypeOK, Hosts
  <2> QED  BY <2>1, AtHost
<1>3. tmpH \in Hosts /\ tmpH' = tmpH
  BY <1>1, <1>2, AtHost DEF tmpH
<1>4. \A k \in Hosts : k \notin touched' => load'[k] = load[k]
  BY <1>1 DEF load
<1>5. Bounds'
  BY <1>1 DEF SInv, Bounds, running
<1>6. ReadsRight'
  BY <1>1, <1>2, <1>3, <1>4 DEF SInv, ReadsRight
<1>7. Behind'
  BY <1>1, <1>2, <1>4, Zenon DEF SInv, Behind
<1>8. NotDropped' /\ Undisturbed'
  BY <1>1 DEF SInv, NotDropped, Undisturbed
<1> QED  BY <1>5, <1>6, <1>7, <1>8 DEF SInv

----------------------------------------------------------------------------
(* The scan.                                                               *)

\* What the invariant says of the numbers of a scan in progress.
LEMMA ScanNumbers ==
  ASSUME SInv
  PROVE  /\ idx \in Hosts /\ i \in Nat /\ i <= N /\ Hosts \subseteq Nat /\ tmpH \in Hosts
         /\ c \in Nat /\ reqs \in Nat /\ reqs <= MaxUint
         /\ \A k \in Hosts : k < N /\ k >= 0
         /\ \A j \in Hosts : at(idx, j, N) \in Hosts
         /\ \A j \in Nat : j < N => j \in Hosts
         /\ at(idx, 0, N) = idx
         /\ c + pen[tmpH] \in Nat /\ c + pen[tmpH] < MaxUint
         /\ pc = "pen" /\ tmpH \notin touched => c + pen[tmpH] = load[tmpH]
<1>1. ScanTypeOK
  BY DEF SInv
<1>2. /\ N \in Nat /\ N > 0 /\ MaxConn \in Nat /\ MaxPen \in Nat /\ MaxUint \in Nat
      /\ MaxConn + MaxPen < MaxUint
  BY <1>1, Loads
<1>3. /\ idx \in Hosts /\ i \in Nat /\ i <= N
      /\ c \in Nat /\ c <= MaxConn /\ reqs \in Nat /\ reqs <= MaxUint
  BY <1>1, <1>2 DEF ScanTypeOK
<1>4. Hosts \subseteq Nat /\ (\A k \in Hosts : k < N /\ k >= 0) /\ (\A j \in Nat : j < N => j \in Hosts)
  BY <1>2 DEF Hosts
<1>5. /\ at(idx, 0, N) = idx /\ tmpH \in Hosts
      /\ \A j \in Hosts : at(idx, j, N) \in Hosts
  BY <1>3, <1>4, AtHost DEF tmpH
<1>6. pen[tmpH] \in Nat /\ pen[tmpH] <= MaxPen /\ load[tmpH] = conn[tmpH] + pen[tmpH]
  BY <1>1, <1>2, <1>5, Loads
<1>7. c + pen[tmpH] \in Nat /\ c + pen[tmpH] < MaxUint
  BY <1>2, <1>3, <1>6
<1>8. pc = "pen" /\ tmpH \notin touched => c + pen[tmpH] = load[tmpH]
  BY <1>6 DEF SInv, ReadsRight
<1> QED  BY <1>3, <1>4, <1>5, <1>7, <1>8

\* The scan starts: no host is behind it.
LEMMA StartStep == SInv /\ Start /\ ScanTypeOK' => SInv'
<1> SUFFICES ASSUME SInv, Start, ScanTypeOK' PROVE SInv'
  OBVIOUS
<1>1. N \in Nat /\ N > 0 /\ \A k \in Hosts : k >= 0 /\ k \in Nat
  BY ScanNumbers, HostScanAssumption
<1>2. i' = 0 /\ touched' = {} /\ idx' = h' /\ pc' = IF N = 1 THEN "done" ELSE "conn"
  BY DEF Start
<1>3. Bounds'
  BY <1>1, <1>2 DEF Bounds, running
<1>4. ReadsRight' /\ Behind' /\ Undisturbed'
  BY <1>1, <1>2 DEF ReadsRight, Behind, Undisturbed, running
<1>5. NotDropped'
  BY DEF Start, NotDropped, shared
<1> QED  BY <1>3, <1>4, <1>5 DEF SInv

\* The first read of CurrentLoad.
LEMMA ReadConnectionsStep == SInv /\ ReadConnections /\ ScanTypeOK' => SInv'
<1> SUFFICES ASSUME SInv, ReadConnections, ScanTypeOK' PROVE SInv'
  OBVIOUS
<1>1. /\ pc = "conn" /\ pc' = "pen" /\ c' = conn[tmpH] /\ tmpH' = tmpH
      /\ UNCHANGED <<idx, i, h, reqs, touched, dropped, active, conn, pen>>
      /\ load' = load
  BY DEF ReadConnections, shared, tmpH, load
<1>2. Bounds' /\ ReadsRight'
  BY <1>1 DEF SInv, Bounds, ReadsRight, running
<1>3. Behind' /\ NotDropped'
  BY <1>1 DEF SInv, Behind, NotDropped
<1>4. Undisturbed'
  BY <1>1 DEF SInv, Undisturbed, Best, running
<1> QED  BY <1>2, <1>3, <1>4 DEF SInv

\* The second read of CurrentLoad of the starting host.
LEMMA ReadFirstStep == SInv /\ ReadPenalty /\ i = 0 /\ ScanTypeOK' => SInv'
<1> SUFFICES ASSUME SInv, ReadPenalty, i = 0, ScanTypeOK' PROVE SInv'
  OBVIOUS
<1>1. /\ pc = "pen" /\ pc' = "active" /\ i' = 0 /\ h' = h /\ reqs' = c + pen[tmpH]
      /\ UNCHANGED <<idx, touched, dropped, active, conn, pen>>
      /\ load' = load /\ tmpH = idx
  BY ScanNumbers DEF ReadPenalty, shared, load, tmpH
<1>2. reqs' <= MaxConn + MaxPen
  BY <1>1, Loads DEF SInv, ScanTypeOK
<1>3. Bounds' /\ ReadsRight'
  BY <1>1, <1>2, ScanNumbers DEF SInv, Bounds, ReadsRight, running
<1>4. Behind' /\ NotDropped' /\ Undisturbed'
  BY <1>1, ScanNumbers DEF SInv, Behind, NotDropped, Undisturbed, running
<1> QED  BY <1>3, <1>4 DEF SInv

\* Another host has load 0: it is returned at once.
LEMMA ReadZeroStep ==
  SInv /\ ReadPenalty /\ i > 0 /\ c + pen[tmpH] = 0 /\ ScanTypeOK' => SInv'
<1> SUFFICES ASSUME SInv, ReadPenalty, i > 0, c + pen[tmpH] = 0, ScanTypeOK' PROVE SInv'
  OBVIOUS
<1>1. /\ pc = "pen" /\ pc' = "done" /\ i' = i /\ h' = tmpH /\ reqs' = 0
      /\ UNCHANGED <<idx, touched, dropped, active, conn, pen>>
      /\ load' = load
  BY ScanNumbers DEF ReadPenalty, shared, load
<1>2. MaxUint > 0 /\ \A k \in Hosts : load[k] \in Nat
  BY Loads DEF SInv
<1>3. Bounds' /\ ReadsRight' /\ NotDropped'
  BY <1>1 DEF SInv, Bounds, ReadsRight, NotDropped, running
<1>4. Behind'
  BY <1>1, <1>2, ScanNumbers DEF Behind
<1>5. ASSUME touched = {}, N > 1 PROVE Best(N)'
  <2>1. /\ active[tmpH] /\ load[tmpH] = 0 /\ i \in Hosts /\ tmpH = at(idx, i, N)
        /\ reqs > 0 /\ Best(i)
    BY <1>1, <1>5, ScanNumbers DEF SInv, ReadsRight, Bounds, Undisturbed, running, tmpH
  <2>2. ASSUME NEW m \in Hosts, m < i, active[at(idx, m, N)]
        PROVE  0 < load[at(idx, m, N)]
    <3>1. reqs <= load[at(idx, m, N)]
      BY <2>1, <2>2 DEF Best
    <3> QED  BY <1>2, <2>1, <3>1, ScanNumbers
  <2>3. \A m \in Hosts : 0 <= load[at(idx, m, N)]
    BY <1>2, ScanNumbers
  <2> QED  BY <1>1, <2>1, <2>2, <2>3, ScanNumbers DEF Best
<1>6. Undisturbed'
  BY <1>1, <1>5 DEF Undisturbed, running
<1> QED  BY <1>3, <1>4, <1>6 DEF SInv

\* Another host has a load: it replaces the best host if that is smaller.
LEMMA ReadOtherStep ==
  SInv /\ ReadPenalty /\ i > 0 /\ c + pen[tmpH] > 0 /\ ScanTypeOK' => SInv'
<1> SUFFICES ASSUME SInv, ReadPenalty, i > 0, c + pen[tmpH] > 0, ScanTypeOK' PROVE SInv'
  OBVIOUS
<1> DEFINE t == c + pen[tmpH]
<1>1. /\ pc = "pen" /\ i' = i + 1
      /\ pc' = IF i + 1 < N THEN "active" ELSE "done"
      /\ h' = IF t < reqs THEN tmpH ELSE h
      /\ reqs' = IF t < reqs THEN t ELSE reqs
      /\ UNCHANGED <<idx, touched, dropped, active, conn, pen>>
      /\ load' = load
  BY ScanNumbers DEF ReadPenalty, advance, shared, load
<1>2. /\ i \in Hosts /\ i \in Nat /\ tmpH = at(idx, i, N) /\ i < N /\ N \in Nat
      /\ t \in Nat /\ t < MaxUint /\ reqs \in Nat /\ reqs <= MaxUint
      /\ tmpH \notin touched => t = load[tmpH]
  BY <1>1, ScanNumbers, HostScanAssumption DEF SInv, Bounds, running, tmpH
<1>3. /\ reqs' \in Nat /\ reqs' <= t /\ reqs' <= reqs /\ reqs' # MaxUint
      /\ \A k \in Hosts : load[k] \in Nat
  BY <1>1, <1>2, HostScanAssumption, Loads DEF SInv
<1>4. Bounds' /\ ReadsRight' /\ NotDropped'
  BY <1>1, <1>2 DEF SInv, Bounds, ReadsRight, NotDropped, running
<1>5. Behind'
  <2> SUFFICES ASSUME NEW j \in Hosts, j < i + 1,
                      active[at(idx, j, N)], at(idx, j, N) \notin touched
               PROVE  reqs' <= load[at(idx, j, N)]
    BY <1>1, <1>3 DEF Behind
  <2>1. CASE j = i
    BY <1>2, <1>3, <2>1
  <2>2. CASE j < i
    <3>1. reqs <= load[at(idx, j, N)] /\ load[at(idx, j, N)] \in Nat
      BY <1>1, <1>3, <2>2, ScanNumbers DEF SInv, Behind
    <3> QED  BY <1>2, <1>3, <3>1
  <2> QED  BY <1>2, <2>1, <2>2, ScanNumbers
<1>6. ASSUME touched = {}, N > 1 PROVE Best(i)'
  <2>1. active[tmpH] /\ load[tmpH] = t /\ Best(i)
    BY <1>1, <1>2, <1>6 DEF SInv, ReadsRight, Undisturbed, running
  <2>2. CASE t < reqs
    <3>1. ASSUME NEW m \in Hosts, m < i, active[at(idx, m, N)]
          PROVE  t < load[at(idx, m, N)]
      <4>1. reqs <= load[at(idx, m, N)] /\ load[at(idx, m, N)] \in Nat
        BY <1>3, <2>1, <3>1, ScanNumbers DEF Best
      <4> QED  BY <1>2, <2>2, <4>1
    <3>2. \A m \in Hosts : m < i + 1 => m < i \/ m = i
      BY <1>2, ScanNumbers
    <3>3. \A m \in Hosts : m < i + 1 /\ active[at(idx, m, N)] =>
            /\ t <= load[at(idx, m, N)]
            /\ m < i => t < load[at(idx, m, N)]
      <4> SUFFICES ASSUME NEW m \in Hosts, m < i + 1, active[at(idx, m, N)]
                   PROVE  /\ t <= load[at(idx, m, N)]
                          /\ m < i => t < load[at(idx, m, N)]
        OBVIOUS
      <4>1. CASE m < i
        <5>1. t < load[at(idx, m, N)] /\ load[at(idx, m, N)] \in Nat
          BY <1>3, <3>1, <4>1, ScanNumbers
        <5> QED  BY <1>2, <5>1
      <4>2. CASE m = i
        BY <1>2, <2>1, <4>2
      <4> QED  BY <3>2, <4>1, <4>2
    <3> QED  BY <1>1, <1>2, <2>1, <2>2, <3>3 DEF Best
  <2>3. CASE ~(t < reqs)
    <3>1. PICK j \in Hosts :
            /\ j < i /\ h = at(idx, j, N) /\ active[h] /\ reqs = load[h]
            /\ \A m \in Hosts : m < i /\ active[at(idx, m, N)] =>
                 /\ reqs <= load[at(idx, m, N)]
                 /\ m < j => reqs < load[at(idx, m, N)]
      BY <1>2, <2>1, <2>3, HostScanAssumption DEF Best
    <3>2. \A m \in Hosts : m < i + 1 => m < i \/ (m = i /\ ~(m < j))
      BY <1>2, <3>1, ScanNumbers
    <3>3. \A m \in Hosts : m < i + 1 /\ active[at(idx, m, N)] =>
            /\ reqs <= load[at(idx, m, N)]
            /\ m < j => reqs < load[at(idx, m, N)]
      BY <1>2, <2>1, <2>3, <3>1, <3>2
    <3>4. j < i + 1
      BY <1>2, <3>1, ScanNumbers
    <3> QED  BY <1>1, <2>3, <3>1, <3>3, <3>4 DEF Best
  <2> QED  BY <2>2, <2>3
<1>7. Undisturbed'
  <2>1. CASE i + 1 < N
    <3>1. touched = {} /\ N > 1 => reqs > 0
      BY <1>1 DEF SInv, Undisturbed, running
    <3>2. touched' = touched /\ pc' # "done" /\ (reqs > 0 => reqs' > 0)
      BY <1>1, <1>2, <2>1
    <3> QED  BY <1>6, <3>1, <3>2 DEF Undisturbed
  <2>2. CASE ~(i + 1 < N)
    <3>1. i + 1 = N
      BY <1>2, <2>2
    <3>2. touched' = touched /\ pc' = "done" /\ i' = N
      BY <1>1, <2>2, <3>1
    <3>3. touched = {} /\ N > 1 => Best(N)'
      BY <1>6, <3>2 DEF Best
    <3> QED  BY <3>2, <3>3 DEF Undisturbed, running
  <2> QED  BY <2>1, <2>2
<1> QED  BY <1>4, <1>5, <1>7 DEF SInv

\* The activity of the starting host is looked at.
LEMMA CheckFirstStep == SInv /\ CheckFirst /\ ScanTypeOK' => SInv'
<1> SUFFICES ASSUME SInv, CheckFirst, ScanTypeOK' PROVE SInv'
  OBVIOUS
<1>1. /\ pc = "active" /\ i = 0 /\ h' = h /\ h = idx
      /\ reqs' = IF active[idx] THEN reqs ELSE MaxUint
      /\ UNCHANGED <<idx, touched, dropped, active, conn, pen>>
      /\ load' = load
  BY DEF CheckFirst, shared, load, SInv, Bounds, running
<1>2. /\ reqs \in Nat /\ reqs < MaxUint /\ MaxUint \in Nat /\ N \in Nat /\ N > 1
      /\ idx \notin touched => reqs = load[idx]
      /\ \A k \in Hosts : load[k] \in Nat
      /\ 0 \in Hosts /\ at(idx, 0, N) = idx
  <2>1. reqs \in Nat /\ reqs <= MaxConn + MaxPen /\ N > 1
    BY <1>1, ScanNumbers DEF SInv, ReadsRight, Bounds, running
  <2> QED  BY <1>1, <2>1, ScanNumbers, HostScanAssumption, Loads DEF SInv, ReadsRight
<1>3. \A m \in Hosts : m < 1 => m = 0
  BY ScanNumbers
<1>4. NotDropped'
  BY <1>1 DEF SInv, NotDropped
<1>5. CASE reqs' = 0
  <2>1. active[idx] /\ reqs = 0 /\ pc' = "done" /\ i' = 0
    BY <1>1, <1>2, <1>5 DEF CheckFirst
  <2>2. Bounds' /\ ReadsRight'
    BY <1>5, <2>1 DEF Bounds, ReadsRight, running
  <2>3. Behind'
    BY <2>1, ScanNumbers DEF Behind
  <2>4. ASSUME touched = {} PROVE Best(N)'
    <3>1. \A m \in Hosts : 0 <= load[at(idx, m, N)] /\ ~(m < 0)
      BY <1>2, ScanNumbers
    <3> QED  BY <1>1, <1>2, <2>1, <2>4, <3>1 DEF Best
  <2>5. Undisturbed'
    BY <1>1, <2>1, <2>4 DEF Undisturbed, running
  <2> QED  BY <1>4, <2>2, <2>3, <2>5 DEF SInv
<1>6. CASE reqs' # 0
  <2>1. pc' = "active" /\ i' = 1
    BY <1>1, <1>2, <1>6 DEF CheckFirst, advance
  <2>2. Bounds' /\ ReadsRight'
    BY <1>2, <2>1 DEF Bounds, ReadsRight, running
  <2>3. idx \notin dropped => active[idx]
    BY <1>1, ScanNumbers DEF SInv, NotDropped
  <2>4. Behind'
    BY <1>1, <1>2, <1>3, <2>1, <2>3 DEF Behind
  <2>5. ASSUME touched = {} PROVE Best(i)'
    <3>1. CASE active[idx]
      <4>1. \A m \in Hosts : m < 1 => reqs <= load[at(idx, m, N)] /\ ~(m < 0)
        BY <1>2, <1>3, <2>5
      <4> QED  BY <1>1, <1>2, <2>1, <2>5, <3>1, <4>1 DEF Best
    <3>2. CASE ~active[idx]
      BY <1>1, <1>2, <1>3, <2>1, <3>2 DEF Best
    <3> QED  BY <3>1, <3>2
  <2>6. reqs' > 0
    BY <1>1, <1>2, <1>6
  <2>7. Undisturbed'
    BY <1>1, <2>1, <2>5, <2>6 DEF Undisturbed
  <2> QED  BY <1>4, <2>2, <2>4, <2>7 DEF SInv
<1> QED  BY <1>5, <1>6

\* The activity of another host is looked at: an inactive one is passed.
LEMMA CheckOtherStep == SInv /\ CheckOther /\ ScanTypeOK' => SInv'
<1> SUFFICES ASSUME SInv, CheckOther, ScanTypeOK' PROVE SInv'
  OBVIOUS
<1>1. /\ pc = "active" /\ i > 0
      /\ UNCHANGED <<idx, h, reqs, touched, dropped, active, conn, pen>>
      /\ load' = load
  BY DEF CheckOther, shared, load
<1>2. /\ i \in Hosts /\ i \in Nat /\ tmpH = at(idx, i, N) /\ i < N /\ N \in Nat
      /\ tmpH \in Hosts
  BY <1>1, ScanNumbers, HostScanAssumption DEF SInv, Bounds, running, tmpH
<1>3. NotDropped'
  BY <1>1 DEF SInv, NotDropped
<1>4. CASE active[tmpH]
  <2>1. pc' = "conn" /\ i' = i /\ tmpH' = tmpH
    BY <1>1, <1>4 DEF CheckOther, tmpH
  <2>2. Bounds' /\ ReadsRight'
    BY <1>1, <1>4, <2>1 DEF SInv, Bounds, ReadsRight, running
  <2>3. Behind' /\ Undisturbed'
    BY <1>1, <2>1 DEF SInv, Behind, Undisturbed, Best, running
  <2> QED  BY <1>3, <2>2, <2>3 DEF SInv
<1>5. CASE ~active[tmpH]
  <2>1. i' = i + 1 /\ pc' = IF i + 1 < N THEN "active" ELSE "done"
    BY <1>5 DEF CheckOther, advance
  <2>2. \A m \in Hosts : m < i + 1 => m < i \/ m = i
    BY <1>2, ScanNumbers
  <2>3. Bounds' /\ ReadsRight'
    BY <1>1, <1>2, <2>1 DEF SInv, Bounds, ReadsRight, running
  <2>4. tmpH \in dropped
    BY <1>1, <1>2, <1>5 DEF SInv, NotDropped
  <2>5. Behind'
    BY <1>1, <1>2, <1>5, <2>1, <2>2, <2>4 DEF SInv, Behind
  <2>6. ASSUME touched = {}, N > 1 PROVE Best(i)' /\ reqs > 0
    <3>1. Best(i) /\ reqs > 0
      BY <1>1, <2>6 DEF SInv, Undisturbed, running
    <3>2. CASE reqs = MaxUint /\ h = idx /\ \A m \in Hosts : m < i => ~active[at(idx, m, N)]
      BY <1>1, <1>2, <1>5, <2>1, <2>2, <3>1, <3>2 DEF Best
    <3>3. ASSUME NEW j \in Hosts,
                 j < i, h = at(idx, j, N), active[h], reqs = load[h],
                 \A m \in Hosts : m < i /\ active[at(idx, m, N)] =>
                   /\ reqs <= load[at(idx, m, N)]
                   /\ m < j => reqs < load[at(idx, m, N)]
          PROVE  Best(i)'
      <4>1. j < i + 1
        BY <1>2, <3>3, ScanNumbers
      <4> QED  BY <1>1, <1>2, <1>5, <2>1, <2>2, <3>3, <4>1 DEF Best
    <3> QED  BY <3>1, <3>2, <3>3 DEF Best
  <2>7. Undisturbed'
    <3>1. CASE i + 1 < N
      BY <1>1, <2>1, <2>6, <3>1 DEF Undisturbed
    <3>2. CASE ~(i + 1 < N)
      <4>1. pc' = "done" /\ i' = N
        BY <1>2, <2>1, <3>2
      <4>2. touched = {} /\ N > 1 => Best(N)'
        BY <2>6, <4>1 DEF Best
      <4> QED  BY <1>1, <4>1, <4>2 DEF Undisturbed, running
    <3> QED  BY <3>1, <3>2
  <2> QED  BY <1>3, <2>3, <2>5, <2>7 DEF SInv
<1> QED  BY <1>4, <1>5

\* Every step keeps the invariant.
LEMMA ScanStep == SInv /\ [Next]_vars => SInv'
<1> SUFFICES ASSUME SInv, [Next]_vars PROVE SInv'
  OBVIOUS
<1>1. CASE UNCHANGED vars
  <2>1. load' = load /\ tmpH' = tmpH
    BY <1>1 DEF vars, load, tmpH
  <2>2. ScanTypeOK' /\ Bounds' /\ NotDropped'
    BY <1>1 DEF vars, SInv, ScanTypeOK, Bounds, NotDropped, running
  <2>3. ReadsRight' /\ Behind'
    BY <1>1, <2>1 DEF vars, SInv, ReadsRight, Behind
  <2>4. Undisturbed'
    BY <1>1, <2>1 DEF vars, SInv, Undisturbed, Best, running
  <2> QED  BY <2>2, <2>3, <2>4 DEF SInv
<1>2. CASE Next
  <2>1. ScanTypeOK'
    BY <1>2, ScanTypeStep DEF SInv
  <2>2. CASE ReadPenalty
    <3>1. i = 0 \/ i > 0
      BY ScanNumbers
    <3>2. c + pen[tmpH] = 0 \/ c + pen[tmpH] > 0
      BY ScanNumbers
    <3> QED  BY <2>1, <2>2, <3>1, <3>2, ReadFirstStep, ReadZeroStep, ReadOtherStep
  <2> QED
    BY <1>2, <2>1, <2>2, StartStep, ReadConnectionsStep, CheckFirstStep, CheckOtherStep,
       OthersStep DEF Next, getHost
<1> QED  BY <1>1, <1>2

\* What is chosen was active.
LEMMA ChosenStep == SInv /\ ChosenUp /\ [Next]_vars => ChosenUp'
<1> SUFFICES ASSUME SInv, ChosenUp, [Next]_vars PROVE ChosenUp'
  OBVIOUS
<1>a. /\ i \in Nat /\ N \in Nat /\ tmpH \in Hosts /\ idx \in Hosts
      /\ running /\ i = 0 => h = idx
  BY ScanNumbers, HostScanAssumption DEF SInv, Bounds
<1>1. CASE UNCHANGED vars
  BY <1>1 DEF vars, ChosenUp, tmpH
<1>2. CASE Start
  BY <1>2, HostScanAssumption DEF Start, shared, ChosenUp
<1>3. CASE ReadConnections
  BY <1>3 DEF ReadConnections, shared, ChosenUp, tmpH
<1>4. CASE ReadPenalty
  <2>1. /\ pc = "pen" /\ pc' \in {"active", "done"}
        /\ UNCHANGED <<active, wasUp>>
        /\ i = 0 => i' = 0 /\ pc' = "active"
        /\ i > 0 => h' = tmpH \/ (h' = h /\ reqs' = reqs)
    BY <1>4, <1>a DEF ReadPenalty, advance, shared
  <2> QED  BY <1>a, <2>1 DEF ChosenUp
<1>5. CASE CheckFirst
  <2>1. /\ pc = "active" /\ i = 0 /\ pc' \in {"active", "done"}
        /\ h' = idx /\ UNCHANGED <<active, wasUp>>
        /\ reqs' # MaxUint => active[idx]
    BY <1>5, <1>a DEF CheckFirst, advance, shared, running
  <2> QED  BY <1>a, <2>1 DEF ChosenUp
<1>6. CASE CheckOther
  <2>1. /\ pc = "active" /\ i > 0 /\ UNCHANGED <<active, wasUp, h, reqs, idx>>
        /\ pc' \in {"active", "done"} \/ (pc' = "conn" /\ i' = i /\ active[tmpH])
    BY <1>6 DEF CheckOther, advance, shared
  <2> QED  BY <1>a, <2>1 DEF ChosenUp, tmpH
<1>7. CASE Others
  <2>1. /\ UNCHANGED <<pc, idx, i, h, reqs>>
        /\ wasUp \subseteq wasUp'
        /\ \A k \in Hosts : active'[k] => active[k] \/ k \in wasUp'
    BY <1>7 DEF Others, SetIsActive, SetConnections, SetPenalty, scan, SInv, ScanTypeOK
  <2> QED  BY <1>a, <2>1 DEF ChosenUp, tmpH
<1> QED  BY <1>1, <1>2, <1>3, <1>4, <1>5, <1>6, <1>7 DEF Next, getHost

----------------------------------------------------------------------------
(* The theorems, for every number of hosts.                                *)

\* The inductive invariant holds of every scan.
THEOREM ScanInvariant == Spec => []SInv
BY ScanInit, ScanStep, PTL DEF Spec

\* getHost (scope.go:941-981) returns a host that was active during the scan
\* when some host was active during the whole scan.
THEOREM ScanFindsActive == Spec => []PickedWasUp
<1>1. SInv /\ ChosenUp => PickedWasUp
  <2> SUFFICES ASSUME SInv, ChosenUp, pc = "done", N > 1, NEW k \in Hosts, k \notin dropped
               PROVE  reqs # MaxUint
    BY DEF PickedWasUp, ChosenUp
  <2>1. CASE reqs = 0
    BY <2>1, HostScanAssumption
  <2>2. CASE i = N
    <3>1. PICK j \in Hosts : at(idx, j, N) = k
      BY ScanNumbers, AtOnto
    <3>2. j < i
      BY <2>2, ScanNumbers
    <3> QED  BY <3>1, <3>2 DEF SInv, Behind
  <2> QED  BY <2>1, <2>2 DEF SInv, Bounds
<1>2. Init => ChosenUp
  BY DEF Init, ChosenUp
<1>3. Spec => []ChosenUp
  BY <1>2, ScanInvariant, ChosenStep, PTL DEF Spec
<1> QED  BY <1>1, <1>3, ScanInvariant, PTL

\* The load that getHost has read from its choice is at most the load of every
\* host that stayed active with the same load during the scan.
THEOREM ScanFindsLeast == Spec => []PickedLeast
<1>1. SInv => PickedLeast
  <2> SUFFICES ASSUME SInv, pc = "done", N > 1,
                      NEW k \in Hosts, active[k], k \notin touched
               PROVE  reqs <= load[k]
    BY DEF PickedLeast
  <2>1. CASE reqs = 0
    <3>1. load[k] \in Nat
      BY Loads DEF SInv
    <3> QED  BY <2>1, <3>1
  <2>2. CASE i = N
    <3>1. PICK j \in Hosts : at(idx, j, N) = k
      BY ScanNumbers, AtOnto
    <3>2. j < i
      BY <2>2, ScanNumbers
    <3> QED  BY <3>1, <3>2 DEF SInv, Behind
  <2> QED  BY <2>1, <2>2 DEF SInv, Bounds
<1> QED  BY <1>1, ScanInvariant, PTL

\* The loop of getHost, with its early returns, computes "least loaded + round
\* robin" when nothing changes meanwhile.
THEOREM ScanComputesDefinition == Spec => []QuietPick
<1>1. SInv => QuietPick
  <2> SUFFICES ASSUME SInv, pc = "done", touched = {}, N > 1
               PROVE  isLeastLoaded(h, idx, N, active, load)
    BY DEF QuietPick
  <2>1. Best(N)
    BY DEF SInv, Undisturbed
  <2>2. CASE reqs = MaxUint /\ h = idx /\ \A m \in Hosts : m < N => ~active[at(idx, m, N)]
    <3>1. ASSUME NEW k \in Hosts PROVE ~active[k]
      <4>1. PICK m \in Hosts : at(idx, m, N) = k
        BY ScanNumbers, AtOnto
      <4>2. m < N
        BY ScanNumbers
      <4> QED  BY <2>2, <4>1, <4>2
    <3> QED  BY <2>2, <3>1 DEF isLeastLoaded, Hosts
  <2>3. ASSUME NEW j \in Hosts,
               h = at(idx, j, N), active[h], reqs = load[h],
               \A m \in Hosts : m < N /\ active[at(idx, m, N)] =>
                 /\ reqs <= load[at(idx, m, N)]
                 /\ m < j => reqs < load[at(idx, m, N)]
        PROVE  isLeastLoaded(h, idx, N, active, load)
    <3>1. \A m \in Hosts : active[at(idx, m, N)] =>
                 /\ load[h] <= load[at(idx, m, N)]
                 /\ m < j => load[h] < load[at(idx, m, N)]
      <4>1. \A m \in Hosts : m < N
        BY ScanNumbers
      <4> QED  BY <2>3, <4>1
    <3> QED  BY <2>3, <3>1 DEF isLeastLoaded, Hosts
  <2> QED  BY <2>1, <2>2, <2>3 DEF Best
<1> QED  BY <1>1, ScanInvariant, PTL

\* Of the items of a scan one and only one fits the definition: the first of the
\* least loaded ones.
LEMMA LeastLoadedUnique ==
  ASSUME ScanTypeOK, NEW x \in Hosts, NEW y \in Hosts,
         isLeastLoaded(x, idx, N, active, load), isLeastLoaded(y, idx, N, active, load)
  PROVE  x = y
<1> DEFINE Wins(k, j) == /\ k = at(idx, j, N) /\ active[k]
                         /\ \A m \in 0..(N - 1) : active[at(idx, m, N)] =>
                              /\ load[k] <= load[at(idx, m, N)]
                              /\ m < j => load[k] < load[at(idx, m, N)]
<1>1. CASE \A k \in 0..(N - 1) : ~active[k]
  <2>1. ~active[x] /\ ~active[y]
    BY <1>1, Zenon DEF Hosts
  <2> QED  BY <2>1, Zenon DEF isLeastLoaded
<1>2. CASE ~\A k \in 0..(N - 1) : ~active[k]
  <2>1. (\E j \in 0..(N - 1) : Wins(x, j)) /\ (\E j \in 0..(N - 1) : Wins(y, j))
    BY <1>2, Zenon DEF isLeastLoaded
  <2>2. PICK j \in 0..(N - 1) : Wins(x, j)
    BY <2>1, Zenon
  <2>3. PICK m \in 0..(N - 1) : Wins(y, m)
    BY <2>1, Zenon
  <2>4. /\ load[x] <= load[y] /\ (m < j => load[x] < load[y])
        /\ load[y] <= load[x] /\ (j < m => load[y] < load[x])
    BY <2>2, <2>3, Zenon
  <2>5. load[x] \in Nat /\ load[y] \in Nat
    BY Loads, Zenon
  <2>6. j = m
    BY <2>4, <2>5
  <2> QED  BY <2>2, <2>3, <2>6, Zenon
<1> QED  BY <1>1, <1>2, Zenon

\* What replicaGetHost of Dispatch takes for one step: undisturbed, the loop of
\* getHost (scope.go:940-981) returns the host that is chosen there.
DefinedPick ==
  pc = "done" /\ touched = {} /\ N > 1 =>
    h = CHOOSE k \in Hosts : isLeastLoaded(k, idx, N, active, load)

\* The scan of getHost returns the one host that "least loaded + round robin" means,
\* for any number of hosts, so that Dispatch may take it for a function of the loads.
THEOREM ScanIsTheChoice == Spec => []DefinedPick
<1>1. SInv /\ QuietPick => DefinedPick
  <2> SUFFICES ASSUME SInv, QuietPick, pc = "done", touched = {}, N > 1
               PROVE  h = CHOOSE k \in Hosts : isLeastLoaded(k, idx, N, active, load)
    BY Zenon DEF DefinedPick
  <2> DEFINE Fits(k) == isLeastLoaded(k, idx, N, active, load)
  <2>1. ScanTypeOK /\ h \in Hosts /\ Fits(h)
    BY Zenon DEF SInv, ScanTypeOK, QuietPick
  <2>2. \A x \in Hosts : Fits(x) => x = h
    BY <2>1, LeastLoadedUnique, Zenon
  <2> HIDE DEF Fits
  <2>3. h = CHOOSE k \in Hosts : Fits(k)
    BY <2>1, <2>2, Zenon
  <2> QED  BY <2>3, Zenon DEF Fits
<1> QED  BY <1>1, ScanInvariant, ScanComputesDefinition, PTL
=============================================================================
