---------------------------- MODULE FsCacheProofs ---------------------------
(***************************************************************************)
(* Files that Puts, Gets and the cleaner share without a lock, for any     *)
(* keys, responses and numbers of each, and any failures.                  *)
(***************************************************************************)
EXTENDS FsCache, SequenceTheorems, TLAPS

\* The first n cells of the response of Put q.
firstCells(q, n) == [i \in 1..n |-> <<q, i - 1>>]

\* A Put has a file from os.Create to its return, that of its key; a Get has one
\* from os.Open to the close.
Opened ==
  /\ DOMAIN written = Puts
  /\ \A q \in Puts : /\ file[q] # NoPut <=> pc[q] \in {"header", "body"}
                     /\ pc[q] \in {"idle", "header"} => written[q] = 0
                     /\ file[q] # NoPut => key[file[q]] = key[q]
  /\ \A g \in Gets : gfile[g] # NoPut <=> gpc[g] # "idle"

\* Nothing leads to the inode of a Put that has not started, and no inode is taken
\* for its work.
Unused ==
  \A q \in Puts : pc[q] = "idle" =>
    /\ \A k \in Keys : dir[k] # q
    /\ \A r \in Puts : file[r] # q /\ inode[r].sole # q
    /\ \A g \in Gets : gfile[g] # q

\* What the Put, that alone wrote an inode, has written: all, when it is done, and
\* nobody writes there then.
Sole ==
  \A f \in Puts : LET q == inode[f].sole IN q # NoPut =>
    \/ /\ pc[q] \in {"header", "body"}
       /\ writers(f) = {q} /\ inode[f].data = firstCells(q, written[q])
    \/ /\ pc[q] = "done"
       /\ writers(f) = {} /\ inode[f].data = response(q)
    \/ pc[q] = "failed" /\ writers(f) = {}

\* The file of a Get that must succeed is complete.
Quiet ==
  \A g \in Gets : quiet[g] =>
    /\ gfile[g] # NoPut
    /\ inode[gfile[g]].sole # NoPut /\ pc[inode[gfile[g]].sole] = "done"

\* What the first walk found too old, and no Put has written since, is too old.
Listed ==
  \A k \in Keys : cpc = "walk" /\ k \in todo \ renewed /\ listed[k].old /\ dir[k] # NoPut =>
    inode[dir[k]].age = "outdated"

FsInv == FsTypeOK /\ Opened /\ Unused /\ Sole /\ Quiet /\ WholeAnswer /\ Listed

----------------------------------------------------------------------------
(* The types, by groups of variables.                                      *)

Inode == [data : Seq(Cells), age : Ages, sole : Puts \cup {NoPut}]

DirType == /\ dir \in [Keys -> Puts \cup {NoPut}]
           /\ \A k \in Keys : dir[k] # NoPut => key[dir[k]] = k
InodeType == inode \in [Puts -> Inode]
PutType == /\ pc \in [Puts -> {"idle", "header", "body", "done", "failed"}]
           /\ file \in [Puts -> Puts \cup {NoPut}]
           /\ \A q \in Puts : written[q] \in 0..(length[q] + 1)
GetType == /\ gpc \in [Gets -> {"idle", "header", "read"}]
           /\ gfile \in [Gets -> Puts \cup {NoPut}]
           /\ quiet \in [Gets -> BOOLEAN] /\ broken \in [Gets -> BOOLEAN]
CleanType == /\ size \in 0..(Wrap - 1) /\ total \in 0..(Wrap - 1)
             /\ cpc \in {"start", "idle", "walk", "shrink", "stopped"}
             /\ listed \in [Keys -> [size : Nat, old : BOOLEAN]] /\ todo \subseteq Keys
             /\ p \in Nat /\ loopsCount \in 0..3 /\ failures \in 0..MaxFailures
             /\ renewed \subseteq Keys

\* The type invariant in groups, in this state and in the next one.
LEMMA TypeGroups ==
  FsTypeOK <=> DirType /\ InodeType /\ PutType /\ GetType /\ CleanType
BY Zenon DEF FsTypeOK, present, DirType, Inode, InodeType, PutType, GetType, CleanType

LEMMA TypeGroupsNext ==
  FsTypeOK' <=> DirType' /\ InodeType' /\ PutType' /\ GetType' /\ CleanType'
BY Zenon DEF FsTypeOK, present, DirType, Inode, InodeType, PutType, GetType, CleanType

Files == DirType /\ InodeType /\ PutType /\ GetType

\* The inductive invariant, with the type of each group.
LEMMA InvGroups ==
  FsInv <=> Files /\ CleanType /\ Opened /\ Unused /\ Sole /\ Quiet /\ WholeAnswer /\ Listed
BY TypeGroups, Zenon DEF FsInv, Files

LEMMA InvGroupsNext ==
  FsInv' <=> /\ Files' /\ CleanType' /\ Opened' /\ Unused' /\ Sole' /\ Quiet' /\ WholeAnswer' /\ Listed'
BY TypeGroupsNext, Zenon DEF FsInv, Files

\* The counters of the cleaner keep their types.
LEMMA CleanSame ==
  ASSUME CleanType, UNCHANGED cleanVars, size' = size \/ \E n \in Nat : size' = (size + n) % Wrap,
         failures' = failures \/ fails,
         renewed' \subseteq Keys
  PROVE  CleanType'
<1>1. size' \in 0..(Wrap - 1)
  BY FsAssumption DEF CleanType
<1>2. failures' \in 0..MaxFailures
  BY FsAssumption DEF CleanType, fails
<1> QED  BY <1>1, <1>2, Zenon DEF CleanType, cleanVars

\* What a Put renews is a key.
LEMMA RenewType ==
  ASSUME CleanType, NEW k \in Keys, renew(k)
  PROVE  renewed' \subseteq Keys
BY Zenon DEF CleanType, renew

\* A function of 1..n is a sequence of n elements.
LEMMA FunctionIsSeq ==
  ASSUME NEW S, NEW n \in Nat, NEW s \in [1..n -> S]
  PROVE  s \in Seq(S) /\ Len(s) = n
<1>1. s \in Seq(S)
  BY SeqDef
<1>2. 1..Len(s) = 1..n /\ Len(s) \in Nat
  BY <1>1, LenProperties
<1> QED  BY <1>1, <1>2

\* A response is its first cells, and has one at least.
LEMMA ResponseCells ==
  ASSUME NEW q \in Puts
  PROVE  /\ response(q) = firstCells(q, length[q] + 1)
         /\ response(q) # <<>>
         /\ response(q) \in Seq(Cells)
         /\ \A n \in 1..(length[q] + 1) : response(q)[n] = <<q, n - 1>> /\ response(q)[n] \in Cells
<1>0. length[q] \in Nat
  BY FsAssumption
<1>1. response(q) = firstCells(q, length[q] + 1)
  BY DEF response, firstCells
<1>2. \A n \in 1..(length[q] + 1) : response(q)[n] = <<q, n - 1>> /\ <<q, n - 1>> \in Cells
  BY <1>0 DEF response, Cells
<1>3. response(q) \in Seq(Cells) /\ Len(response(q)) = length[q] + 1
  <2>1. response(q) \in [1..(length[q] + 1) -> Cells]
    BY <1>2, Zenon DEF response
  <2> QED  BY <1>0, <2>1, FunctionIsSeq
<1>4. response(q) # <<>>
  BY <1>0, <1>3, EmptySeq
<1> QED  BY <1>1, <1>2, <1>3, <1>4, Zenon

\* What freed leaves: an inode that something leads to, as it was.
LEMMA Freed ==
  ASSUME InodeType, NEW f, freed(f)
  PROVE  /\ InodeType'
         /\ \A x \in Puts : \/ inode'[x] = inode[x]
                            \/ /\ inode'[x] = Free
                               /\ dir'[key[x]] # x
                               /\ \A q \in Puts : file'[q] # x
                               /\ \A g \in Gets : gfile'[g] # x
<1>1. Free \in Inode
  BY DEF Free, Inode, Ages
<1>2. CASE inode' = inode
  BY <1>2, Zenon DEF InodeType
<1>3. CASE inode' # inode
  <2>1. /\ inode' = [inode EXCEPT ![f] = Free] /\ dir'[key[f]] # f
        /\ \A q \in Puts : file'[q] # f
        /\ \A g \in Gets : gfile'[g] # f
    BY <1>3, Zenon DEF freed
  <2> QED  BY <1>1, <2>1, Zenon DEF InodeType
<1> QED  BY <1>2, <1>3, Zenon

----------------------------------------------------------------------------
(* The initial state.                                                      *)

\* A directory as chproxy finds it: complete files, nothing open.
LEMMA InvInit == Init => FsInv
<1> SUFFICES ASSUME Init PROVE FsInv
  OBVIOUS
<1>1. PICK early \in SUBSET Puts :
       /\ \A q, r \in early : key[q] = key[r] => q = r
       /\ dir = [k \in Keys |-> IF \E q \in early : key[q] = k
                                THEN CHOOSE q \in early : key[q] = k ELSE NoPut]
       /\ inode = [q \in Puts |-> IF q \in early THEN [Free EXCEPT !.data = response(q), !.sole = q]
                                 ELSE Free]
       /\ pc = [q \in Puts |-> IF q \in early THEN "done" ELSE "idle"]
  BY Zenon DEF Init
<1>2. /\ file = [q \in Puts |-> NoPut] /\ written = [q \in Puts |-> 0]
      /\ gpc = [g \in Gets |-> "idle"] /\ gfile = [g \in Gets |-> NoPut]
      /\ quiet = [g \in Gets |-> FALSE] /\ broken = quiet
      /\ cpc = "start"
  BY Zenon DEF Init
<1>3. \A k \in Keys : dir[k] = NoPut \/ (dir[k] \in early /\ key[dir[k]] = k)
  BY <1>1, Zenon
<1>4. DirType
  BY <1>1, <1>3, Zenon DEF DirType
<1>5. \A f \in Puts : \/ f \notin early /\ inode[f] = Free
                      \/ f \in early /\ inode[f] = [data |-> response(f), age |-> "fresh", sole |-> f]
  BY <1>1 DEF Free
<1>6. InodeType
  <2>1. \A f \in Puts : inode[f] \in Inode
    <3> TAKE f \in Puts
    <3>1. Free \in Inode
      BY DEF Free, Inode, Ages
    <3>2. [data |-> response(f), age |-> "fresh", sole |-> f] \in Inode
      BY ResponseCells DEF Inode, Ages
    <3> QED  BY <1>5, <3>1, <3>2, Zenon
  <2> QED  BY <1>1, <2>1, Zenon DEF InodeType
<1>7. PutType
  <2>1. \A q \in Puts : 0 \in 0..(length[q] + 1)
    BY FsAssumption
  <2> QED  BY <1>1, <1>2, <2>1, Zenon DEF PutType
<1>8. GetType
  BY <1>2, Zenon DEF GetType
<1>9. CleanType
  <2>1. 0 \in 0..(Wrap - 1) /\ 0 \in Nat /\ 0 \in 0..3 /\ 0 \in 0..MaxFailures
    BY FsAssumption
  <2>2. NoFile \in [size : Nat, old : BOOLEAN]
    BY DEF NoFile
  <2> QED  BY <2>1, <2>2, Zenon DEF Init, CleanType
<1>10. Opened
  BY <1>1, <1>2, Zenon DEF Opened
<1>11. Free.sole = NoPut
  BY DEF Free
<1>12. \A f \in Puts : \/ inode[f].sole = NoPut
                       \/ /\ f \in early /\ inode[f].sole = f /\ inode[f].data = response(f)
  <2> TAKE f \in Puts
  <2>1. CASE f \in early
    <3>1. inode[f] = [data |-> response(f), age |-> "fresh", sole |-> f]
      BY <1>5, <2>1, Zenon
    <3> QED  BY <2>1, <3>1
  <2> QED  BY <1>5, <1>11, <2>1, Zenon
<1>13. Unused
  <2>1. \A q \in Puts : q # NoPut /\ (pc[q] = "idle" => q \notin early)
    BY <1>1, FsAssumption, Zenon
  <2>2. (\A r \in Puts : file[r] = NoPut) /\ (\A g \in Gets : gfile[g] = NoPut)
    BY <1>2, Zenon
  <2> QED  BY <1>3, <1>12, <2>1, <2>2 DEF Unused
<1>14. Sole
  <2>1. \A f \in early : f \in Puts /\ f # NoPut /\ pc[f] = "done"
    BY <1>1, FsAssumption, Zenon
  <2>2. \A f \in Puts : writers(f) = {}
    BY <1>1, <1>2, FsAssumption, Zenon DEF writers
  <2> QED  BY <1>12, <2>1, <2>2, Zenon DEF Sole
<1>15. Quiet /\ WholeAnswer
  BY <1>2, Zenon DEF Quiet, WholeAnswer
<1>16. Listed
  BY <1>2, Zenon DEF Listed
<1> QED
  BY <1>4, <1>6, <1>7, <1>8, <1>9, <1>10, <1>13, <1>14, <1>15, <1>16, InvGroups, Zenon DEF Files

----------------------------------------------------------------------------
(* Put.                                                                    *)

\* What a step does not touch.
LEMMA GetsSame ==
  ASSUME GetType, WholeAnswer, UNCHANGED <<gpc, gfile, broken>>, quiet' \in [Gets -> BOOLEAN]
  PROVE  GetType' /\ WholeAnswer'
BY Zenon DEF GetType, WholeAnswer

\* os.Create gives the name a new inode, or truncates the one it has.
LEMMA CreateStep ==
  ASSUME FsInv, NEW q \in Puts, Create(q)
  PROVE  FsInv'
<1> /\ DirType /\ InodeType /\ PutType /\ GetType /\ CleanType
    /\ Opened /\ Unused /\ Sole /\ Quiet /\ WholeAnswer /\ Listed
  BY InvGroups, Zenon DEF Files
<1>0. PICK f, one : /\ f = IF dir[key[q]] = NoPut THEN q ELSE dir[key[q]]
                    /\ one = [Free EXCEPT !.sole = IF writers(f) = {} THEN q ELSE NoPut]
  BY Zenon
<1>1. /\ pc[q] = "idle" /\ pc' = [pc EXCEPT ![q] = "header"]
      /\ file' = [file EXCEPT ![q] = f]
      /\ dir' = [dir EXCEPT ![key[q]] = f]
      /\ inode' = [inode EXCEPT ![f] = one]
      /\ quiet' = [g \in Gets |-> quiet[g] /\ gfile[g] # f]
      /\ renew(key[q])
      /\ UNCHANGED <<written, gpc, gfile, broken, size, cleanVars, failures>>
  BY <1>0 DEF Create
<1>2. key[q] \in Keys /\ f \in Puts /\ key[f] = key[q]
  <2>1. key[q] \in Keys
    BY FsAssumption, Zenon
  <2>2. f = q \/ (f = dir[key[q]] /\ f # NoPut)
    BY <1>0, Zenon
  <2> QED  BY <2>1, <2>2, Zenon DEF DirType
<1>3. /\ (one.sole = q /\ writers(f) = {}) \/ one.sole = NoPut
      /\ one.data = <<>> /\ one \in Inode
  <2>1. PICK s : s = IF writers(f) = {} THEN q ELSE NoPut
    BY Zenon
  <2>2. one = [data |-> <<>>, age |-> "fresh", sole |-> s]
    BY <1>0, <2>1 DEF Free
  <2>3. s \in Puts \cup {NoPut} /\ <<>> \in Seq(Cells) /\ "fresh" \in Ages
    BY <2>1, EmptySeq, Zenon DEF Ages
  <2>4. one \in Inode /\ one.data = <<>> /\ one.sole = s
    BY <2>2, <2>3 DEF Inode
  <2> QED  BY <2>1, <2>4, Zenon
<1>4. DirType'
  BY <1>1, <1>2, Zenon DEF DirType
<1>5. InodeType'
  BY <1>1, <1>2, <1>3, Zenon DEF InodeType
<1>6. PutType'
  BY <1>1, <1>2, Zenon DEF PutType
<1>7. GetType' /\ WholeAnswer'
  <2>1. quiet' \in [Gets -> BOOLEAN]
    BY <1>1, Zenon
  <2> QED  BY <1>1, <2>1, GetsSame, Zenon
<1>8. CleanType'
  BY <1>1, <1>2, CleanSame, RenewType, Zenon
<1>9. /\ \A r \in Puts \ {q} : pc'[r] = pc[r] /\ file'[r] = file[r]
      /\ pc'[q] = "header" /\ file'[q] = f /\ f # NoPut
      /\ \A x \in Puts \ {f} : inode'[x] = inode[x]
      /\ inode'[f] = one
      /\ file[q] = NoPut
  BY <1>1, <1>2, FsAssumption, Zenon DEF PutType, InodeType, Opened
<1>10. Opened'
  <2>1. written[q] = 0
    BY <1>1, Zenon DEF Opened
  <2>2. DOMAIN written' = Puts /\ \A g \in Gets : gfile'[g] # NoPut <=> gpc'[g] # "idle"
    BY <1>1, Zenon DEF Opened
  <2>3. ASSUME NEW r \in Puts
        PROVE  /\ file'[r] # NoPut <=> pc'[r] \in {"header", "body"}
               /\ pc'[r] \in {"idle", "header"} => written'[r] = 0
               /\ file'[r] # NoPut => key[file'[r]] = key[r]
    BY <1>1, <1>2, <1>9, <2>1 DEF Opened
  <2> QED  BY <2>2, <2>3, Zenon DEF Opened
<1>11. Unused'
  <2> SUFFICES ASSUME NEW r \in Puts, pc'[r] = "idle"
               PROVE  /\ \A k \in Keys : dir'[k] # r
                      /\ \A x \in Puts : file'[x] # r /\ inode'[x].sole # r
                      /\ \A g \in Gets : gfile'[g] # r
    BY Zenon DEF Unused
  <2>1. r # q /\ pc[r] = "idle"
    BY <1>9, Zenon
  <2>2. f # r
    <3>1. f = q \/ f = dir[key[q]]
      BY <1>0, Zenon
    <3> QED  BY <1>2, <2>1, <3>1, Zenon DEF Unused
  <2>3. one.sole # r
    BY <1>3, <2>1, FsAssumption, Zenon
  <2>4. \A k \in Keys : dir'[k] # r
    BY <1>1, <2>1, <2>2, Zenon DEF Unused, DirType
  <2>5. \A x \in Puts : file'[x] # r
    BY <1>9, <2>1, <2>2 DEF Unused
  <2>6. \A x \in Puts : inode'[x].sole # r
    BY <1>9, <2>1, <2>3 DEF Unused
  <2> QED  BY <1>1, <2>1, <2>4, <2>5, <2>6, Zenon DEF Unused
<1>12. Sole'
  <2> SUFFICES ASSUME NEW x \in Puts, NEW s, s = inode'[x].sole, s # NoPut
               PROVE  \/ /\ pc'[s] \in {"header", "body"}
                         /\ writers(x)' = {s} /\ inode'[x].data = firstCells(s, written'[s])
                      \/ /\ pc'[s] = "done"
                         /\ writers(x)' = {} /\ inode'[x].data = response(s)
                      \/ pc'[s] = "failed" /\ writers(x)' = {}
    BY Zenon DEF Sole
  <2>1. CASE x = f
    <3>1. s = q /\ writers(f) = {}
      BY <1>3, <1>9, <2>1, Zenon
    <3>2. writers(f)' = {q}
      BY <1>9, <3>1 DEF writers
    <3>3. firstCells(q, written'[q]) = <<>>
      <4>1. written'[q] = 0
        BY <1>1, Zenon DEF Opened
      <4> QED  BY <4>1 DEF firstCells
    <3> QED  BY <1>3, <1>9, <2>1, <3>1, <3>2, <3>3, Zenon
  <2>2. CASE x # f
    <3>1. s \in Puts \ {q} /\ inode'[x] = inode[x]
      BY <1>1, <1>9, <2>2, FsAssumption DEF Unused, InodeType, Inode
    <3>2. writers(x)' = writers(x)
      BY <1>9, <2>2, FsAssumption, Zenon DEF writers
    <3> QED  BY <1>1, <1>9, <3>1, <3>2 DEF Sole
  <2> QED  BY <2>1, <2>2, Zenon
<1>13. Quiet'
  <2> SUFFICES ASSUME NEW g \in Gets, quiet'[g]
               PROVE  /\ gfile'[g] # NoPut
                      /\ inode'[gfile'[g]].sole # NoPut /\ pc'[inode'[gfile'[g]].sole] = "done"
    BY Zenon DEF Quiet
  <2>1. quiet[g] /\ gfile[g] # f /\ gfile'[g] = gfile[g]
    BY <1>1, Zenon
  <2>2. gfile[g] \in Puts \ {f} /\ pc[inode[gfile[g]].sole] = "done"
    BY <2>1, Zenon DEF Quiet, GetType
  <2>3. inode[gfile[g]].sole \in Puts
    BY <2>1, <2>2 DEF InodeType, Inode, Quiet
  <2> QED  BY <1>1, <1>9, <2>1, <2>2, <2>3 DEF Quiet
<1>14. Listed'
  <2> SUFFICES ASSUME NEW k \in Keys, cpc' = "walk", k \in todo' \ renewed', listed'[k].old, dir'[k] # NoPut
               PROVE  inode'[dir'[k]].age = "outdated"
    BY Zenon DEF Listed
  <2>1. k # key[q] /\ k \notin renewed /\ UNCHANGED <<cpc, todo, listed>>
    BY <1>1, Zenon DEF renew, cleanVars
  <2>2. dir'[k] = dir[k] /\ dir[k] \in Puts \ {f}
    BY <1>1, <1>2, <2>1, Zenon DEF DirType
  <2> QED  BY <1>9, <2>1, <2>2, Zenon DEF Listed
<1> QED
  BY <1>4, <1>5, <1>6, <1>7, <1>8, <1>10, <1>11, <1>12, <1>13, <1>14, InvGroupsNext, Zenon DEF Files

\* The file s once Put q has written its n-th cell.
grown(s, n) == IF Len(s) > n THEN Len(s) ELSE n
overwritten(q, s, n, m) == [i \in 1..m |-> IF i = n THEN response(q)[n]
                                           ELSE IF i <= Len(s) THEN s[i] ELSE Hole]

\* A write at the offset of the Put keeps the file a sequence, and adds the next
\* cell to the first ones of its response when they are all there is.
LEMMA WrittenCells ==
  ASSUME NEW q \in Puts, NEW s \in Seq(Cells), NEW n \in 1..(length[q] + 1),
         NEW m, m = grown(s, n), NEW c, c = overwritten(q, s, n, m)
  PROVE  /\ c \in Seq(Cells)
         /\ s = firstCells(q, n - 1) => c = firstCells(q, n)
<1> USE DEF grown, overwritten
<1>0. length[q] \in Nat /\ Len(s) \in Nat /\ n \in Nat /\ m \in Nat
  BY FsAssumption, LenProperties
<1>1. \A i \in 1..m : c[i] \in Cells
  <2>1. response(q)[n] \in Cells
    BY ResponseCells
  <2>2. Hole \in Cells
    BY DEF Hole, Cells
  <2>3. \A i \in 1..Len(s) : s[i] \in Cells
    BY ElementOfSeq
  <2> QED  BY <1>0, <2>1, <2>2, <2>3
<1>2. c \in Seq(Cells)
  <2>1. c \in [1..m -> Cells]
    BY <1>1, Zenon
  <2> QED  BY <1>0, <2>1, FunctionIsSeq, Zenon
<1>3. ASSUME s = firstCells(q, n - 1)  PROVE c = firstCells(q, n)
  <2>1. Len(s) = n - 1
    <3>1. DOMAIN s = 1..(n - 1) /\ DOMAIN s = 1..Len(s)
      BY <1>3, LenProperties DEF firstCells
    <3> QED  BY <1>0, <3>1
  <2>2. m = n
    BY <1>0, <2>1
  <2>3. ASSUME NEW i \in 1..n  PROVE c[i] = <<q, i - 1>>
    <3>1. CASE i = n
      BY <2>2, <3>1, ResponseCells
    <3>2. CASE i # n
      <4>1. i \in 1..(n - 1) /\ i <= Len(s)
        BY <1>0, <2>1, <3>2
      <4>2. c[i] = s[i]
        BY <2>2, <3>2, <4>1
      <4> QED  BY <1>3, <4>1, <4>2 DEF firstCells
    <3> QED  BY <3>1, <3>2, Zenon
  <2> QED  BY <2>2, <2>3, Zenon DEF firstCells
<1> QED  BY <1>2, <1>3, Zenon

\* A write of the header or of a chunk, at the offset of its Put.
LEMMA WriteStep ==
  ASSUME FsInv, NEW q \in Puts, WriteHeader(q) \/ Copy(q)
  PROVE  FsInv'
<1> /\ DirType /\ InodeType /\ PutType /\ GetType /\ CleanType
    /\ Opened /\ Unused /\ Sole /\ Quiet /\ WholeAnswer /\ Listed
  BY InvGroups, Zenon DEF Files
<1>1. /\ pc[q] \in {"header", "body"} /\ pc' = [pc EXCEPT ![q] = "body"] /\ write(q)
      /\ pc[q] = "body" => ~copied(q)
  <2>1. CASE WriteHeader(q)
    BY <2>1, Zenon DEF WriteHeader
  <2>2. CASE Copy(q)
    <3>1. pc[q] = "body" /\ pc' = pc /\ write(q) /\ ~copied(q)
      BY <2>2, Zenon DEF Copy
    <3> QED  BY <3>1, Zenon DEF PutType
  <2> QED  BY <2>1, <2>2, Zenon
<1>2. PICK f, n, s : f = file[q] /\ n = written[q] + 1 /\ s = inode[f].data
  BY Zenon
<1>3. f \in Puts /\ key[f] = key[q] /\ key[q] \in Keys
  BY <1>1, <1>2, FsAssumption, Zenon DEF PutType, Opened
<1>4. n \in 1..(length[q] + 1) /\ length[q] \in Nat /\ written[q] = n - 1
  <2>1. written[q] \in 0..(length[q] + 1) /\ length[q] \in Nat
    BY FsAssumption, Zenon DEF PutType
  <2>2. written[q] # length[q] + 1
    <3>1. CASE pc[q] = "header"
      <4>1. written[q] = 0
        BY <3>1, Zenon DEF Opened
      <4> QED  BY <2>1, <4>1
    <3>2. CASE pc[q] = "body"
      BY <1>1, <3>2, Zenon DEF copied
    <3> QED  BY <1>1, <3>1, <3>2, Zenon
  <2> QED  BY <1>2, <2>1, <2>2
<1>5. inode[f] \in Inode /\ s \in Seq(Cells)
  BY <1>2, <1>3 DEF InodeType, Inode
<1>6. PICK m : m = grown(s, n)
  BY Zenon
<1>7. PICK c : c = overwritten(q, s, n, m)
  BY Zenon
<1>8. c \in Seq(Cells) /\ (s = firstCells(q, n - 1) => c = firstCells(q, n))
  BY <1>4, <1>5, <1>6, <1>7, WrittenCells, Zenon
<1>9. /\ inode' = [inode EXCEPT ![f].data = c, ![f].age = "fresh"]
      /\ written' = [written EXCEPT ![q] = n]
      /\ renew(key[q])
      /\ UNCHANGED <<dir, file, getVars, size, cleanVars, failures>>
  BY <1>1, <1>2, <1>6, <1>7 DEF write, grown, overwritten
<1>10. /\ inode'[f] = [data |-> c, age |-> "fresh", sole |-> inode[f].sole]
       /\ \A x \in Puts \ {f} : inode'[x] = inode[x]
  BY <1>3, <1>5, <1>9, Zenon DEF InodeType, Inode
<1>11. /\ inode'[f].data = c /\ inode'[f].sole = inode[f].sole
       /\ \A x \in Puts : inode'[x].sole = inode[x].sole
  BY <1>10
<1>12. DirType'
  BY <1>9, Zenon DEF DirType
<1>13. InodeType'
  <2>1. inode'[f] \in Inode
    BY <1>5, <1>8, <1>10 DEF Inode, Ages
  <2>2. inode' = [inode EXCEPT ![f] = inode'[f]]
    BY <1>3, <1>5, <1>9, Zenon DEF InodeType, Inode
  <2> QED  BY <2>1, <2>2, Zenon DEF InodeType
<1>14. /\ \A r \in Puts \ {q} : pc'[r] = pc[r] /\ written'[r] = written[r]
       /\ pc'[q] = "body" /\ written'[q] = n /\ file' = file /\ DOMAIN written' = Puts
  BY <1>1, <1>9, Zenon DEF PutType, Opened
<1>15. PutType'
  <2>1. pc' \in [Puts -> {"idle", "header", "body", "done", "failed"}]
    BY <1>1, Zenon DEF PutType
  <2>2. n \in 0..(length[q] + 1)
    BY <1>4
  <2> QED  BY <1>14, <2>1, <2>2 DEF PutType
<1>16. GetType' /\ WholeAnswer'
  BY <1>9, Zenon DEF getVars, GetType, WholeAnswer
<1>17. CleanType'
  BY <1>3, <1>9, CleanSame, RenewType, Zenon
<1>18. Opened'
  <2>1. \A g \in Gets : gfile'[g] # NoPut <=> gpc'[g] # "idle"
    BY <1>9, Zenon DEF Opened, getVars
  <2>2. ASSUME NEW r \in Puts
        PROVE  /\ file'[r] # NoPut <=> pc'[r] \in {"header", "body"}
               /\ pc'[r] \in {"idle", "header"} => written'[r] = 0
               /\ file'[r] # NoPut => key[file'[r]] = key[r]
    BY <1>1, <1>14 DEF Opened
  <2> QED  BY <1>14, <2>1, <2>2, Zenon DEF Opened
<1>19. Unused'
  <2>1. UNCHANGED <<dir, file, gfile>>
    BY <1>9, Zenon DEF getVars
  <2>2. \A r \in Puts : pc'[r] = "idle" => pc[r] = "idle"
    BY <1>14
  <2> QED  BY <1>11, <2>1, <2>2 DEF Unused
<1>20. \A x \in Puts : writers(x)' = writers(x)
  BY <1>14, Zenon DEF writers
<1>21. Sole'
  <2> SUFFICES ASSUME NEW x \in Puts, NEW r, r = inode'[x].sole, r # NoPut
               PROVE  \/ /\ pc'[r] \in {"header", "body"}
                         /\ writers(x)' = {r} /\ inode'[x].data = firstCells(r, written'[r])
                      \/ /\ pc'[r] = "done"
                         /\ writers(x)' = {} /\ inode'[x].data = response(r)
                      \/ pc'[r] = "failed" /\ writers(x)' = {}
    BY Zenon DEF Sole
  <2>0. r = inode[x].sole /\ r \in Puts
    BY <1>11 DEF InodeType, Inode
  <2>1. CASE x = f
    <3>1. q \in writers(f)
      BY <1>2, Zenon DEF writers
    <3>2. r = q /\ writers(f) = {q} /\ s = firstCells(q, written[q])
      BY <1>2, <2>0, <2>1, <3>1 DEF Sole
    <3> QED  BY <1>4, <1>8, <1>11, <1>14, <1>20, <2>1, <3>2
  <2>2. CASE x # f
    <3>1. q \notin writers(x)
      BY <1>2, <2>2, Zenon DEF writers
    <3>2. r # q
      BY <1>1, <2>0, <3>1 DEF Sole
    <3> QED  BY <1>10, <1>14, <1>20, <2>0, <2>2, <3>2 DEF Sole
  <2> QED  BY <2>1, <2>2, Zenon
<1>22. Quiet'
  <2>1. \A r \in Puts : pc[r] = "done" => pc'[r] = "done"
    BY <1>1, <1>14
  <2> SUFFICES ASSUME NEW g \in Gets, quiet'[g]
               PROVE  /\ gfile'[g] # NoPut
                      /\ inode'[gfile'[g]].sole # NoPut /\ pc'[inode'[gfile'[g]].sole] = "done"
    BY Zenon DEF Quiet
  <2>2. quiet[g] /\ gfile'[g] = gfile[g]
    BY <1>9, Zenon DEF getVars
  <2>3. gfile[g] \in Puts
    BY <2>2, Zenon DEF Quiet, GetType
  <2>4. inode[gfile[g]].sole \in Puts
    BY <2>2, <2>3 DEF InodeType, Inode, Quiet
  <2> QED  BY <1>11, <2>1, <2>2, <2>3, <2>4, Zenon DEF Quiet
<1>23. Listed'
  <2> SUFFICES ASSUME NEW k \in Keys, cpc' = "walk", k \in todo' \ renewed', listed'[k].old, dir'[k] # NoPut
               PROVE  inode'[dir'[k]].age = "outdated"
    BY Zenon DEF Listed
  <2>1. k # key[q] /\ k \notin renewed /\ UNCHANGED <<cpc, todo, listed, dir>>
    BY <1>9, Zenon DEF renew, cleanVars
  <2>2. dir[k] \in Puts \ {f}
    BY <1>3, <2>1, Zenon DEF DirType
  <2> QED  BY <1>10, <2>1, <2>2, Zenon DEF Listed
<1> QED
  BY <1>12, <1>13, <1>15, <1>16, <1>17, <1>18, <1>19, <1>21, <1>22, <1>23, InvGroupsNext, Zenon DEF Files

\* What every step that frees an inode keeps: it takes names and open files away,
\* and leaves what an inode holds that is still in use.
LEMMA FreedUnused ==
  ASSUME InodeType, Unused, NEW f, freed(f),
         \A k \in Keys : dir'[k] \in {dir[k], NoPut},
         \A q \in Puts : file'[q] \in {file[q], NoPut} /\ (pc'[q] = "idle" => pc[q] = "idle"),
         \A g \in Gets : gfile'[g] \in {gfile[g], NoPut}
  PROVE  Unused'
<1>1. \A x \in Puts : inode'[x].sole \in {inode[x].sole, NoPut}
  BY Freed DEF Free
<1>2. \A q \in Puts : q # NoPut
  BY FsAssumption, Zenon
<1> SUFFICES ASSUME NEW q \in Puts, pc'[q] = "idle"
             PROVE  /\ \A k \in Keys : dir'[k] # q
                    /\ \A r \in Puts : file'[r] # q /\ inode'[r].sole # q
                    /\ \A g \in Gets : gfile'[g] # q
  BY Zenon DEF Unused
<1>3. pc[q] = "idle" /\ q # NoPut
  BY <1>2, Zenon
<1>4. \A k \in Keys : dir'[k] # q
  BY <1>3, Zenon DEF Unused
<1>5. \A r \in Puts : file'[r] # q /\ inode'[r].sole # q
  BY <1>1, <1>3 DEF Unused
<1>6. \A g \in Gets : gfile'[g] # q
  BY <1>3, Zenon DEF Unused
<1> QED  BY <1>4, <1>5, <1>6, Zenon

\* The file of a Get that must succeed is in use, so it stays complete.
LEMMA FreedQuiet ==
  ASSUME InodeType, GetType, Quiet, NEW f, freed(f),
         \A q \in Puts : pc[q] = "done" => pc'[q] = "done",
         \A g \in Gets : quiet'[g] => quiet[g] /\ gfile'[g] = gfile[g]
  PROVE  Quiet'
<1> SUFFICES ASSUME NEW g \in Gets, quiet'[g]
             PROVE  /\ gfile'[g] # NoPut
                    /\ inode'[gfile'[g]].sole # NoPut /\ pc'[inode'[gfile'[g]].sole] = "done"
  BY Zenon DEF Quiet
<1>1. quiet[g] /\ gfile'[g] = gfile[g]
  BY Zenon
<1>2. gfile[g] \in Puts
  <2>1. gfile[g] \in Puts \cup {NoPut}
    BY Zenon DEF GetType
  <2>2. gfile[g] # NoPut
    BY <1>1, Zenon DEF Quiet
  <2> QED  BY <2>1, <2>2, Zenon
<1>3. inode[gfile[g]].sole \in Puts
  BY <1>1, <1>2 DEF InodeType, Inode, Quiet
<1>4. inode'[gfile[g]] = inode[gfile[g]]
  BY <1>1, <1>2, Freed, Zenon
<1> QED  BY <1>1, <1>2, <1>3, <1>4 DEF Quiet

\* The work of a single Put is as it was, or its inode is free.
LEMMA FreedSole ==
  ASSUME InodeType, Sole, NEW f, freed(f), UNCHANGED <<pc, file, written>>
  PROVE  Sole'
<1>1. \A x \in Puts : inode'[x] = inode[x] \/ inode'[x].sole = NoPut
  BY Freed DEF Free
<1>2. \A x \in Puts : writers(x)' = writers(x)
  BY Zenon DEF writers
<1> QED  BY <1>1, <1>2 DEF Sole

\* A file with a name is in use, so it stays as old as the walk found it.
LEMMA FreedListed ==
  ASSUME DirType, InodeType, Listed, NEW f, freed(f),
         \A k \in Keys : dir'[k] \in {dir[k], NoPut},
         cpc' = cpc, todo' \subseteq todo, renewed' = renewed,
         \A k \in todo' : listed'[k] = listed[k]
  PROVE  Listed'
<1> SUFFICES ASSUME NEW k \in Keys, cpc' = "walk", k \in todo' \ renewed', listed'[k].old, dir'[k] # NoPut
             PROVE  inode'[dir'[k]].age = "outdated"
  BY Zenon DEF Listed
<1>1. dir'[k] = dir[k] /\ dir[k] \in Puts /\ key[dir[k]] = k
  BY Zenon DEF DirType
<1>2. dir'[key[dir[k]]] = dir[k]
  BY <1>1, Zenon
<1>3. inode'[dir[k]] = inode[dir[k]]
  BY <1>1, <1>2, Freed, Zenon
<1> QED  BY <1>1, <1>3, Zenon DEF Listed

\* A Put that returns, well or with an error, closes its file.
LEMMA ReturnStep ==
  ASSUME FsInv, NEW q \in Puts, AddSize(q) \/ PutFails(q)
  PROVE  FsInv'
<1> /\ DirType /\ InodeType /\ PutType /\ GetType /\ CleanType
    /\ Opened /\ Unused /\ Sole /\ Quiet /\ WholeAnswer /\ Listed
  BY InvGroups, Zenon DEF Files
<1>1. PICK l \in {"done", "failed"} :
        /\ return(q, l) /\ pc[q] \in {"idle", "header", "body"}
        /\ l = "done" => pc[q] = "body" /\ copied(q)
  BY Zenon DEF AddSize, PutFails
<1>2. UNCHANGED <<cleanVars, renewed>>
  BY Zenon DEF AddSize, PutFails
<1>3. PICK f : f = file[q]
  BY Zenon
<1>4. /\ pc' = [pc EXCEPT ![q] = l]
      /\ file' = [file EXCEPT ![q] = NoPut] /\ written' = [written EXCEPT ![q] = 0]
      /\ UNCHANGED <<dir, gpc, gfile, quiet, broken>> /\ freed(f)
  BY <1>1, <1>3, Zenon DEF return, getVars
<1>5. /\ \A r \in Puts \ {q} : pc'[r] = pc[r] /\ file'[r] = file[r] /\ written'[r] = written[r]
      /\ pc'[q] = l /\ file'[q] = NoPut /\ written'[q] = 0 /\ DOMAIN written' = Puts
  BY <1>4, Zenon DEF PutType, Opened
<1>6. DirType' /\ GetType' /\ WholeAnswer'
  BY <1>4, Zenon DEF DirType, GetType, WholeAnswer
<1>7. InodeType'
  BY <1>4, Freed, Zenon
<1>8. PutType'
  <2>1. pc' \in [Puts -> {"idle", "header", "body", "done", "failed"}]
    BY <1>4, Zenon DEF PutType
  <2>2. file' \in [Puts -> Puts \cup {NoPut}]
    BY <1>4, Zenon DEF PutType
  <2>3. 0 \in 0..(length[q] + 1)
    BY FsAssumption
  <2> QED  BY <1>5, <2>1, <2>2, <2>3 DEF PutType
<1>9. CleanType'
  <2>1. size' = size \/ \E n \in Nat : size' = (size + n) % Wrap
    BY FsAssumption, Zenon DEF AddSize, PutFails
  <2>2. failures' = failures \/ fails
    BY Zenon DEF AddSize, PutFails
  <2>3. renewed' \subseteq Keys
    BY <1>2, Zenon DEF CleanType
  <2> QED  BY <1>2, <2>1, <2>2, <2>3, CleanSame, Zenon
<1>10. Opened'
  <2>1. \A g \in Gets : gfile'[g] # NoPut <=> gpc'[g] # "idle"
    BY <1>4, Zenon DEF Opened
  <2>2. ASSUME NEW r \in Puts
        PROVE  /\ file'[r] # NoPut <=> pc'[r] \in {"header", "body"}
               /\ pc'[r] \in {"idle", "header"} => written'[r] = 0
               /\ file'[r] # NoPut => key[file'[r]] = key[r]
    BY <1>5 DEF Opened
  <2> QED  BY <1>5, <2>1, <2>2, Zenon DEF Opened
<1>11. Unused'
  <2>1. \A r \in Puts : file'[r] \in {file[r], NoPut} /\ (pc'[r] = "idle" => pc[r] = "idle")
    BY <1>5
  <2> QED  BY <1>4, <2>1, FreedUnused, Zenon
<1>12. Quiet'
  <2>1. \A r \in Puts : pc[r] = "done" => pc'[r] = "done"
    BY <1>1, <1>5
  <2> QED  BY <1>4, <2>1, FreedQuiet, Zenon
<1>13. Listed'
  BY <1>2, <1>4, FreedListed, Zenon DEF cleanVars
<1>14. Sole'
  <2> SUFFICES ASSUME NEW x \in Puts, NEW r, r = inode'[x].sole, r # NoPut
               PROVE  \/ /\ pc'[r] \in {"header", "body"}
                         /\ writers(x)' = {r} /\ inode'[x].data = firstCells(r, written'[r])
                      \/ /\ pc'[r] = "done"
                         /\ writers(x)' = {} /\ inode'[x].data = response(r)
                      \/ pc'[r] = "failed" /\ writers(x)' = {}
    BY Zenon DEF Sole
  <2>1. inode'[x] = inode[x] /\ r \in Puts
    <3>1. Free.sole = NoPut
      BY DEF Free
    <3>2. inode'[x] = inode[x]
      BY <1>4, <3>1, Freed, Zenon
    <3> QED  BY <3>2 DEF InodeType, Inode
  <2>2. writers(x)' = writers(x) \ {q}
    BY <1>5, FsAssumption DEF writers
  <2>3. CASE r = q
    <3>1. pc[q] \in {"header", "body"} /\ writers(x) = {q} /\ inode[x].data = firstCells(q, written[q])
      BY <1>1, <2>1, <2>3 DEF Sole, Unused
    <3>2. CASE l = "done"
      BY <1>1, <1>5, <2>1, <2>2, <2>3, <3>1, <3>2, ResponseCells DEF copied
    <3>3. CASE l = "failed"
      BY <1>5, <2>2, <2>3, <3>1, <3>3
    <3> QED  BY <3>2, <3>3, Zenon
  <2>4. CASE r # q
    <3>1. pc'[r] = pc[r] /\ written'[r] = written[r]
      BY <1>5, <2>1, <2>4, Zenon
    <3>2. q \notin writers(x) \/ pc[r] \notin {"header", "body"}
      BY <2>1, <2>4 DEF Sole
    <3> QED  BY <2>1, <2>2, <3>1, <3>2 DEF Sole
  <2> QED  BY <2>3, <2>4, Zenon
<1> QED
  BY <1>6, <1>7, <1>8, <1>9, <1>10, <1>11, <1>12, <1>13, <1>14, InvGroupsNext, Zenon DEF Files

----------------------------------------------------------------------------
(* Time, Get and the cleaner.                                              *)

\* Time passes for a file.
LEMMA AgeStep ==
  ASSUME FsInv, NEW f \in Puts, Age(f)
  PROVE  FsInv'
<1> /\ DirType /\ InodeType /\ PutType /\ GetType /\ CleanType
    /\ Opened /\ Unused /\ Sole /\ Quiet /\ WholeAnswer /\ Listed
  BY InvGroups, Zenon DEF Files
<1>1. PICK a \in {<<"fresh", "expired">>, <<"expired", "outdated">>} :
        inode[f].age = a[1] /\ inode' = [inode EXCEPT ![f].age = a[2]]
  BY Zenon DEF Age
<1>2. UNCHANGED <<dir, pc, file, written, gpc, gfile, quiet, broken, size, cpc, listed, todo, total, p,
                  loopsCount, failures, renewed>>
  BY Zenon DEF Age, putVars, getVars, cleanVars
<1>3. /\ inode'[f] = [data |-> inode[f].data, age |-> a[2], sole |-> inode[f].sole]
      /\ inode' = [inode EXCEPT ![f] = inode'[f]]
      /\ inode[f] \in Inode
  BY <1>1 DEF InodeType, Inode
<1>4. inode[f].age # "outdated" /\ a[2] \in Ages
  BY <1>1 DEF Ages
<1>5. InodeType'
  <2>1. inode'[f] \in Inode
    BY <1>3, <1>4 DEF Inode
  <2> QED  BY <1>3, <2>1, Zenon DEF InodeType
<1>6. \A x \in Puts : inode'[x].data = inode[x].data /\ inode'[x].sole = inode[x].sole
  BY <1>3 DEF InodeType
<1>7. \A x \in Puts : inode[x].age = "outdated" => inode'[x].age = "outdated"
  BY <1>3, <1>4 DEF InodeType
<1>8. DirType' /\ PutType' /\ GetType' /\ CleanType' /\ Opened' /\ WholeAnswer'
  BY <1>2, Zenon DEF DirType, PutType, GetType, CleanType, Opened, WholeAnswer
<1>9. Unused'
  BY <1>2, <1>6 DEF Unused
<1>10. Sole'
  <2>1. \A x \in Puts : writers(x)' = writers(x)
    BY <1>2, Zenon DEF writers
  <2> QED  BY <1>2, <1>6, <2>1 DEF Sole
<1>11. Quiet'
  BY <1>2, <1>6 DEF Quiet, GetType
<1>12. Listed'
  BY <1>2, <1>7 DEF Listed, DirType
<1> QED
  BY <1>5, <1>8, <1>9, <1>10, <1>11, <1>12, InvGroupsNext, Zenon DEF Files

\* Get opens the file of a name.
LEMMA OpenStep ==
  ASSUME FsInv, NEW g \in Gets, NEW k \in Keys, Open(g, k)
  PROVE  FsInv'
<1> /\ DirType /\ InodeType /\ PutType /\ GetType /\ CleanType
    /\ Opened /\ Unused /\ Sole /\ Quiet /\ WholeAnswer /\ Listed
  BY InvGroups, Zenon DEF Files
<1>1. /\ gpc' = [gpc EXCEPT ![g] = "header"]
      /\ dir[k] # NoPut
      /\ gfile' = [gfile EXCEPT ![g] = dir[k]]
      /\ quiet' = [quiet EXCEPT ![g] = inode[dir[k]].sole # NoPut /\ pc[inode[dir[k]].sole] = "done"]
  BY Zenon DEF Open, getStep
<1>2. UNCHANGED <<dir, inode, pc, file, written, broken, size, cpc, listed, todo, total, p, loopsCount,
                  failures, renewed>>
  BY Zenon DEF Open, getStep, putVars, cleanVars
<1>3. DirType' /\ InodeType' /\ PutType' /\ CleanType' /\ WholeAnswer' /\ Listed'
  BY <1>2, Zenon DEF DirType, InodeType, PutType, CleanType, WholeAnswer, Listed
<1>4. Sole'
  BY <1>2, Zenon DEF Sole, writers
<1>5. dir[k] \in Puts
  BY <1>1, Zenon DEF DirType
<1>6. GetType'
  <2>1. gpc' \in [Gets -> {"idle", "header", "read"}] /\ gfile' \in [Gets -> Puts \cup {NoPut}]
    BY <1>1, <1>5, Zenon DEF GetType
  <2>2. quiet' \in [Gets -> BOOLEAN]
    BY <1>1, Zenon DEF GetType
  <2> QED  BY <1>2, <2>1, <2>2, Zenon DEF GetType
<1>7. /\ \A h \in Gets \ {g} : gpc'[h] = gpc[h] /\ gfile'[h] = gfile[h] /\ quiet'[h] = quiet[h]
      /\ gpc'[g] = "header" /\ gfile'[g] = dir[k]
      /\ quiet'[g] => inode[dir[k]].sole # NoPut /\ pc[inode[dir[k]].sole] = "done"
  BY <1>1, Zenon DEF GetType
<1>8. Opened'
  <2>1. ASSUME NEW h \in Gets  PROVE gfile'[h] # NoPut <=> gpc'[h] # "idle"
    <3>1. CASE h = g
      BY <1>1, <1>7, <3>1, Zenon
    <3>2. CASE h # g
      <4>1. gfile'[h] = gfile[h] /\ gpc'[h] = gpc[h]
        BY <1>7, <3>2, Zenon
      <4>2. gfile[h] # NoPut <=> gpc[h] # "idle"
        BY Zenon DEF Opened
      <4> QED  BY <4>1, <4>2, Zenon
    <3> QED  BY <3>1, <3>2, Zenon
  <2> QED  BY <1>2, <2>1, Zenon DEF Opened
<1>9. Unused'
  <2>1. ASSUME NEW q \in Puts, pc[q] = "idle", NEW h \in Gets  PROVE gfile'[h] # q
    BY <1>7, <2>1 DEF Unused
  <2> QED  BY <1>2, <2>1 DEF Unused
<1>10. Quiet'
  <2>1. ASSUME NEW h \in Gets, quiet'[h]
        PROVE  /\ gfile'[h] # NoPut
               /\ inode[gfile'[h]].sole # NoPut /\ pc[inode[gfile'[h]].sole] = "done"
    BY <1>1, <1>7, <2>1 DEF Quiet
  <2> QED  BY <1>2, <2>1 DEF Quiet
<1> QED
  BY <1>3, <1>4, <1>6, <1>8, <1>9, <1>10, InvGroupsNext, Zenon DEF Files

\* A Get whose file is complete reads the response of the Put that wrote it.
LEMMA QuietReads ==
  ASSUME InodeType, GetType, Sole, Quiet, NEW g \in Gets, quiet[g]
  PROVE  /\ gfile[g] \in Puts /\ inode[gfile[g]].sole \in Puts
         /\ inode[gfile[g]].data = response(inode[gfile[g]].sole)
         /\ inode[gfile[g]].data # <<>>
<1>1. gfile[g] \in Puts /\ pc[inode[gfile[g]].sole] = "done" /\ inode[gfile[g]].sole # NoPut
  BY Zenon DEF Quiet, GetType
<1>2. inode[gfile[g]].sole \in Puts
  BY <1>1 DEF InodeType, Inode
<1>3. inode[gfile[g]].data = response(inode[gfile[g]].sole)
  BY <1>1 DEF Sole
<1> QED  BY <1>1, <1>2, <1>3, ResponseCells, Zenon

\* A Get reads what its file holds, and closes it.
LEMMA GetStep ==
  ASSUME FsInv, NEW g \in Gets, Get(g)
  PROVE  FsInv'
<1> /\ DirType /\ InodeType /\ PutType /\ GetType /\ CleanType
    /\ Opened /\ Unused /\ Sole /\ Quiet /\ WholeAnswer /\ Listed
  BY InvGroups, Zenon DEF Files
<1>1. UNCHANGED <<dir, pc, file, written, size, cpc, listed, todo, total, p, loopsCount, failures, renewed>>
  BY Zenon DEF Get, decodeHeader, Read, getStep, putVars, cleanVars
<1>2. DirType' /\ PutType' /\ CleanType'
  BY <1>1, Zenon DEF DirType, PutType, CleanType
<1>3. broken' = broken
  <2>1. PICK b : /\ note(g, b)
                 /\ \/ b = quiet[g] /\ inode[gfile[g]].data = <<>>
                    \/ b = differs(g, gfile[g], Head)
                    \/ b = differs(g, gfile[g], payload)
    BY Zenon DEF Get, decodeHeader, Read
  <2>2. b = FALSE
    <3>1. CASE ~quiet[g]
      BY <2>1, <3>1 DEF differs, GetType
    <3>2. CASE quiet[g]
      BY <2>1, <3>2, QuietReads, FsAssumption, Zenon DEF differs
    <3> QED  BY <3>1, <3>2, Zenon
  <2>3. broken[g] = FALSE
    BY Zenon DEF WholeAnswer, GetType
  <2> QED  BY <2>1, <2>2, <2>3 DEF note, GetType
<1>4. WholeAnswer'
  BY <1>3, Zenon DEF WholeAnswer
<1>5. CASE UNCHANGED <<inode, gfile, quiet>> /\ gpc[g] = "header" /\ gpc' = [gpc EXCEPT ![g] = "read"]
  <2>1. InodeType' /\ GetType'
    BY <1>3, <1>5, Zenon DEF InodeType, GetType
  <2>2. Opened'
    <3>1. \A h \in Gets : gpc'[h] # "idle" <=> gpc[h] # "idle"
      BY <1>5 DEF GetType
    <3> QED  BY <1>1, <1>5, <3>1 DEF Opened
  <2>3. Unused' /\ Quiet' /\ Listed'
    BY <1>1, <1>5, Zenon DEF Unused, Quiet, Listed
  <2>4. Sole'
    BY <1>1, <1>5, Zenon DEF Sole, writers
  <2> QED  BY <1>2, <1>4, <2>1, <2>2, <2>3, <2>4, InvGroupsNext, Zenon DEF Files
<1>6. CASE close(g) /\ gpc' = [gpc EXCEPT ![g] = "idle"]
  <2>1. PICK f : f = gfile[g]
    BY Zenon
  <2>2. /\ gfile' = [gfile EXCEPT ![g] = NoPut]
        /\ quiet' = [quiet EXCEPT ![g] = FALSE]
        /\ freed(f)
    BY <1>6, <2>1, Zenon DEF close
  <2>3. /\ \A h \in Gets \ {g} : gpc'[h] = gpc[h] /\ gfile'[h] = gfile[h] /\ quiet'[h] = quiet[h]
        /\ gpc'[g] = "idle" /\ gfile'[g] = NoPut /\ quiet'[g] = FALSE
    BY <1>6, <2>2, Zenon DEF GetType
  <2>4. InodeType'
    BY <2>2, Freed, Zenon
  <2>5. GetType'
    BY <1>3, <1>6, <2>2, Zenon DEF GetType
  <2>6. Opened'
    <3>1. \A h \in Gets : gfile'[h] # NoPut <=> gpc'[h] # "idle"
      BY <2>3 DEF Opened
    <3> QED  BY <1>1, <3>1, Zenon DEF Opened
  <2>7. /\ \A k \in Keys : dir'[k] \in {dir[k], NoPut}
        /\ \A q \in Puts : file'[q] \in {file[q], NoPut} /\ (pc'[q] = "idle" => pc[q] = "idle")
        /\ \A h \in Gets : gfile'[h] \in {gfile[h], NoPut}
        /\ \A h \in Gets : quiet'[h] => quiet[h] /\ gfile'[h] = gfile[h]
    BY <1>1, <2>3
  <2>8. Unused'
    BY <2>2, <2>7, FreedUnused, Zenon
  <2>9. Quiet'
    BY <1>1, <2>2, <2>7, FreedQuiet, Zenon
  <2>10. Listed'
    BY <1>1, <2>2, <2>7, FreedListed, Zenon
  <2>11. Sole'
    BY <1>1, <2>2, FreedSole, Zenon
  <2> QED
    BY <1>2, <1>4, <2>4, <2>5, <2>6, <2>8, <2>9, <2>10, <2>11, InvGroupsNext, Zenon DEF Files
<1> QED  BY <1>5, <1>6, Zenon DEF Get, decodeHeader, Read, getStep

\* A listing is one of sizes and flags.
LEMMA ListType ==
  ASSUME DirType, InodeType, list
  PROVE  listed' \in [Keys -> [size : Nat, old : BOOLEAN]] /\ todo' \subseteq Keys /\ renewed' = {}
<1>1. ASSUME NEW k \in present
      PROVE  [size |-> Len(inode[dir[k]].data), old |-> old(k)] \in [size : Nat, old : BOOLEAN]
  <2>1. dir[k] \in Puts
    BY Zenon DEF present, DirType
  <2>2. inode[dir[k]].data \in Seq(Cells)
    BY <2>1 DEF InodeType, Inode
  <2>3. Len(inode[dir[k]].data) \in Nat
    BY <2>2, LenProperties
  <2>4. old(k) \in BOOLEAN
    BY Zenon DEF old
  <2> QED  BY <2>3, <2>4
<1>2. NoFile \in [size : Nat, old : BOOLEAN]
  BY DEF NoFile
<1> QED  BY <1>1, <1>2, Zenon DEF list, present

\* p is a percentage of ten and more.
LEMMA PercentType ==
  ASSUME NEW t \in Nat, t > maxSize
  PROVE  ((t - maxSize) * 100) \div t + 10 \in Nat
<1>1. t - maxSize \in Nat /\ t > 0
  BY FsAssumption
<1>2. (t - maxSize) * 100 \in Nat
  BY <1>1
<1>3. ASSUME NEW a \in Nat  PROVE a \div t \in Nat
  BY <1>1
<1> QED  BY <1>2, <1>3

\* The steps of the cleaner that leave the files alone.
LEMMA CountStep ==
  ASSUME FsInv, StartClean \/ ShrinkAgain \/ StoreSize \/ WalkFails \/ CloseCache
  PROVE  FsInv'
<1> /\ DirType /\ InodeType /\ PutType /\ GetType /\ CleanType
    /\ Opened /\ Unused /\ Sole /\ Quiet /\ WholeAnswer /\ Listed
  BY InvGroups, Zenon DEF Files
<1>1. UNCHANGED <<dir, inode, pc, file, written, gpc, gfile, quiet, broken>>
  BY Zenon DEF StartClean, ShrinkAgain, StoreSize, WalkFails, CloseCache, putVars, getVars
<1>2. DirType' /\ InodeType' /\ PutType' /\ GetType' /\ WholeAnswer'
  BY <1>1, Zenon DEF DirType, InodeType, PutType, GetType, WholeAnswer
<1>3. Opened' /\ Unused' /\ Quiet'
  <2>1. Opened'
    BY <1>1, Zenon DEF Opened
  <2>2. Unused'
    BY <1>1, Zenon DEF Unused
  <2>3. Quiet'
    BY <1>1, Zenon DEF Quiet
  <2> QED  BY <2>1, <2>2, <2>3, Zenon
<1>4. Sole'
  BY <1>1, Zenon DEF Sole, writers
<1>5. 0 \in 0..(Wrap - 1) /\ 0 \in Nat /\ 0 \in 0..3
  BY FsAssumption
<1>6. CASE StartClean
  <2>1. /\ cpc' = "walk" /\ list /\ total' = 0 /\ p' = 0 /\ loopsCount' = 0
        /\ UNCHANGED <<size, failures>>
    BY <1>6, Zenon DEF StartClean
  <2>2. CleanType'
    BY <1>5, <2>1, ListType, Zenon DEF CleanType
  <2>3. Listed'
    <3> SUFFICES ASSUME NEW k \in Keys, k \in todo', listed'[k].old, dir'[k] # NoPut
                 PROVE  inode'[dir'[k]].age = "outdated"
      BY Zenon DEF Listed
    <3>1. listed'[k] = [size |-> Len(inode[dir[k]].data), old |-> old(k)]
      BY <1>1, <2>1, Zenon DEF list, present
    <3>2. old(k)
      BY <3>1
    <3> QED  BY <1>1, <3>2, Zenon DEF old
  <2> QED  BY <1>2, <1>3, <1>4, <2>2, <2>3, InvGroupsNext, Zenon DEF Files
<1>7. CASE ShrinkAgain
  <2>1. /\ cpc' = "shrink" /\ list /\ loopsCount' = loopsCount + 1 /\ again
        /\ p' = ((total - maxSize) * 100) \div total + 10
        /\ UNCHANGED <<size, total, failures>>
    BY <1>7, Zenon DEF ShrinkAgain
  <2>2. loopsCount' \in 0..3
    BY <2>1 DEF CleanType, again
  <2>3. p' \in Nat
    <3>1. total \in Nat /\ total > maxSize
      BY <2>1, FsAssumption DEF CleanType, again
    <3> QED  BY <2>1, <3>1, PercentType, Zenon
  <2>4. CleanType'
    BY <2>1, <2>2, <2>3, ListType, Zenon DEF CleanType
  <2>5. Listed'
    BY <2>1, Zenon DEF Listed
  <2> QED  BY <1>2, <1>3, <1>4, <2>4, <2>5, InvGroupsNext, Zenon DEF Files
<1>8. CASE StoreSize \/ WalkFails \/ CloseCache
  <2>1. cpc' \in {"idle", "stopped"}
    BY <1>8, Zenon DEF StoreSize, WalkFails, CloseCache
  <2>2. Listed'
    BY <2>1, Zenon DEF Listed
  <2>3. CASE StoreSize
    <3>1. CleanType'
      BY <1>5, <2>3, Zenon DEF StoreSize, CleanType
    <3> QED  BY <1>2, <1>3, <1>4, <2>2, <3>1, InvGroupsNext, Zenon DEF Files
  <2>4. CASE WalkFails
    <3>1. failures' \in 0..MaxFailures
      BY <2>4, FsAssumption DEF WalkFails, fails, CleanType
    <3>2. NoFile \in [size : Nat, old : BOOLEAN]
      BY DEF NoFile
    <3>3. CleanType'
      BY <1>5, <2>4, <3>1, <3>2, Zenon DEF WalkFails, CleanType
    <3> QED  BY <1>2, <1>3, <1>4, <2>2, <3>3, InvGroupsNext, Zenon DEF Files
  <2>5. CASE CloseCache
    <3>1. CleanType'
      BY <2>5, Zenon DEF CloseCache, CleanType
    <3> QED  BY <1>2, <1>3, <1>4, <2>2, <3>1, InvGroupsNext, Zenon DEF Files
  <2> QED  BY <1>8, <2>3, <2>4, <2>5, Zenon
<1> QED  BY <1>6, <1>7, <1>8, Zenon

\* The steps of the cleaner that may remove a file.
LEMMA VisitStep ==
  ASSUME FsInv, NEW k \in Keys, Walk(k) \/ Shrink(k)
  PROVE  FsInv'
<1> /\ DirType /\ InodeType /\ PutType /\ GetType /\ CleanType
    /\ Opened /\ Unused /\ Sole /\ Quiet /\ WholeAnswer /\ Listed
  BY InvGroups, Zenon DEF Files
<1>1. /\ k \in todo /\ todo' = todo \ {k}
      /\ listed' = [listed EXCEPT ![k] = NoFile]
      /\ UNCHANGED <<pc, file, written, gpc, gfile, quiet, broken, size, cpc, p, loopsCount, renewed>>
  BY Zenon DEF Walk, Shrink, visited, putVars, getVars
<1>2. /\ remove(k) \/ keep
      /\ failures' = failures \/ fails
      /\ total' = total \/ count(k) \/ total' = shrunk(k)
  BY Zenon DEF Walk, Shrink
<1>3. CleanType'
  <2>1. total' \in 0..(Wrap - 1)
    <3>1. listed[k].size \in Nat
      BY DEF CleanType
    <3> QED  BY <1>2, <3>1, FsAssumption DEF CleanType, count, shrunk
  <2>2. failures' \in 0..MaxFailures
    BY <1>2, FsAssumption DEF fails, CleanType
  <2>3. NoFile \in [size : Nat, old : BOOLEAN]
    BY DEF NoFile
  <2> QED  BY <1>1, <2>1, <2>2, <2>3, Zenon DEF CleanType
<1>4. PutType' /\ GetType' /\ WholeAnswer' /\ Opened'
  BY <1>1, Zenon DEF PutType, GetType, WholeAnswer, Opened
<1>5. todo' \subseteq todo /\ \A x \in todo' : listed'[x] = listed[x]
  BY <1>1, Zenon DEF CleanType
<1>6. CASE keep
  <2>1. UNCHANGED <<dir, inode>>
    BY <1>6, Zenon DEF keep
  <2>2. DirType' /\ InodeType' /\ Unused' /\ Quiet'
    BY <1>1, <2>1, Zenon DEF DirType, InodeType, Unused, Quiet
  <2>3. Sole'
    BY <1>1, <2>1, Zenon DEF Sole, writers
  <2>4. Listed'
    BY <1>1, <1>5, <2>1 DEF Listed
  <2> QED  BY <1>3, <1>4, <2>2, <2>3, <2>4, InvGroupsNext, Zenon DEF Files
<1>7. CASE remove(k)
  <2>1. PICK f : f = dir[k]
    BY Zenon
  <2>2. dir' = [dir EXCEPT ![k] = NoPut] /\ freed(f)
    BY <1>7, <2>1, Zenon DEF remove
  <2>3. InodeType'
    BY <2>2, Freed, Zenon
  <2>4. DirType'
    BY <2>2, Zenon DEF DirType
  <2>5. /\ \A x \in Keys : dir'[x] \in {dir[x], NoPut}
        /\ \A q \in Puts : file'[q] \in {file[q], NoPut} /\ (pc'[q] = "idle" => pc[q] = "idle")
        /\ \A g \in Gets : gfile'[g] \in {gfile[g], NoPut}
    BY <1>1, <2>2 DEF DirType
  <2>6. Unused'
    BY <2>2, <2>5, FreedUnused, Zenon
  <2>7. Quiet'
    BY <1>1, <2>2, FreedQuiet, Zenon
  <2>8. Sole'
    BY <1>1, <2>2, FreedSole, Zenon
  <2>9. Listed'
    BY <1>1, <1>5, <2>2, <2>5, FreedListed, Zenon
  <2> QED
    BY <1>3, <1>4, <2>3, <2>4, <2>6, <2>7, <2>8, <2>9, InvGroupsNext, Zenon DEF Files
<1> QED  BY <1>2, <1>6, <1>7, Zenon

----------------------------------------------------------------------------
(* The theorems.                                                           *)

\* The inductive invariant holds of every execution: the writes of Puts to one
\* file, reads, removals and renewals of a name in any order.
THEOREM FsInvariant == Spec => []FsInv
<1>1. FsInv /\ [Next]_vars => FsInv'
  <2> SUFFICES ASSUME FsInv, [Next]_vars  PROVE FsInv'
    OBVIOUS
  <2>1. CASE UNCHANGED vars
    <3>1. UNCHANGED <<dir, inode, pc, file, written, gpc, gfile, quiet, broken, size, cpc, listed, todo, total,
                      p, loopsCount, failures, renewed>>
      BY <2>1, Zenon DEF vars, putVars, getVars, cleanVars
    <3>2. DirType' /\ InodeType' /\ PutType' /\ GetType' /\ CleanType'
      BY <3>1, InvGroups, Zenon DEF Files, DirType, InodeType, PutType, GetType, CleanType
    <3>3. Opened' /\ Unused' /\ Quiet' /\ WholeAnswer' /\ Listed'
      <4>1. Opened' /\ WholeAnswer'
        BY <3>1, InvGroups, Zenon DEF Opened, WholeAnswer
      <4>2. Unused'
        BY <3>1, InvGroups, Zenon DEF Unused
      <4>3. Quiet'
        BY <3>1, InvGroups, Zenon DEF Quiet
      <4>4. Listed'
        BY <3>1, InvGroups, Zenon DEF Listed
      <4> QED  BY <4>1, <4>2, <4>3, <4>4, Zenon
    <3>4. Sole'
      BY <3>1, InvGroups, Zenon DEF Sole, writers
    <3> QED  BY <3>2, <3>3, <3>4, InvGroupsNext, Zenon DEF Files
  <2>2. CASE \E q \in Puts : Put(q) \/ PutFails(q) \/ Age(q)
    BY <2>2, CreateStep, WriteStep, ReturnStep, AgeStep, Zenon DEF Put
  <2>3. CASE \E g \in Gets : Get(g) \/ \E k \in Keys : Open(g, k)
    BY <2>3, GetStep, OpenStep, Zenon
  <2>4. CASE clean \/ WalkFails \/ CloseCache
    BY <2>4, CountStep, VisitStep, Zenon DEF clean
  <2> QED  BY <2>1, <2>2, <2>3, <2>4, Zenon DEF Next
<1> QED  BY <1>1, InvInit, PTL DEF Spec

\* Names lead to inodes of their keys, offsets stay within the response, sizes
\* within uint64 and the extra walks of clean within three.
THEOREM FsTypeCorrect == Spec => []FsTypeOK
<1>1. FsInv => FsTypeOK
  BY Zenon DEF FsInv
<1> QED  BY <1>1, FsInvariant, PTL

\* A Get that opens a complete file gives the client exactly what its Put wrote,
\* for any number of Puts and Gets of any keys, and whatever the cleaner removes
\* meanwhile (filesystem_cache.go:83-131,247-312).
THEOREM AnswersAreWhole == Spec => []WholeAnswer
<1>1. FsInv => WholeAnswer
  BY Zenon DEF FsInv
<1> QED  BY <1>1, FsInvariant, PTL

\* The cleaner removes a file that Get would still serve only to make room, or
\* when a Put has written it since the walk looked (filesystem_cache.go:238-263).
THEOREM ServableStays == Spec => ServableKept
<1>1. ASSUME FsInv, [Next]_vars, NEW k \in Keys, dir[k] # NoPut, dir'[k] = NoPut,
             inode[dir[k]].age # "outdated"
      PROVE  cpc = "shrink" \/ k \in renewed
  <2> DirType /\ CleanType /\ Listed
    BY <1>1, InvGroups, Zenon DEF Files
  <2>1. ASSUME NEW q \in Puts, Create(q)  PROVE FALSE
    <3>1. PICK f : f = (IF dir[key[q]] = NoPut THEN q ELSE dir[key[q]]) /\ dir' = [dir EXCEPT ![key[q]] = f]
      BY <2>1, Zenon DEF Create
    <3>2. f # NoPut
      BY <3>1, FsAssumption, Zenon
    <3> QED  BY <1>1, <3>1, <3>2, Zenon DEF DirType
  <2>2. ASSUME dir' = dir  PROVE FALSE
    BY <1>1, <2>2, Zenon
  <2>3. ASSUME NEW x \in Keys, Walk(x) \/ Shrink(x)  PROVE cpc = "shrink" \/ k \in renewed
    <3>1. k = x
      BY <1>1, <2>3, Zenon DEF Walk, Shrink, remove, keep, DirType
    <3>2. CASE Walk(k)
      <4>1. cpc = "walk" /\ k \in todo /\ listed[k].old
        BY <1>1, <3>2, Zenon DEF Walk, visited, keep
      <4> QED  BY <1>1, <4>1, Zenon DEF Listed
    <3> QED  BY <2>3, <3>1, <3>2, Zenon DEF Shrink
  <2>4. CASE \E q \in Puts : Put(q) \/ PutFails(q) \/ Age(q)
    BY <2>1, <2>2, <2>4, Zenon DEF Put, WriteHeader, Copy, write, AddSize, PutFails, return, Age
  <2>5. CASE \E g \in Gets : Get(g) \/ \E y \in Keys : Open(g, y)
    BY <2>2, <2>5, Zenon DEF Get, decodeHeader, Read, Open, getStep
  <2>6. CASE clean \/ WalkFails \/ CloseCache
    BY <2>2, <2>3, <2>6, Zenon DEF clean, StartClean, ShrinkAgain, StoreSize, WalkFails, CloseCache
  <2>7. CASE UNCHANGED vars
    BY <2>2, <2>7, Zenon DEF vars
  <2> QED  BY <1>1, <2>4, <2>5, <2>6, <2>7, Zenon DEF Next
<1>2. FsInv /\ [Next]_vars => [\A k \in Keys : dir[k] # NoPut /\ dir'[k] = NoPut /\ inode[dir[k]].age # "outdated"
                                  => cpc = "shrink" \/ k \in renewed]_vars
  BY <1>1, Zenon
<1> QED  BY <1>2, FsInvariant, PTL DEF Spec, ServableKept
=============================================================================
