------------------------------- MODULE FsCache ------------------------------
(***************************************************************************)
(* The file system cache (cache/filesystem_cache.go): Put writes the file  *)
(* of a key in place, Get reads it while it may be written, and the        *)
(* cleaner removes files by name; nothing is locked.                       *)
(*                                                                         *)
(* A file is a sequence of cells.  Cell 0 of a response is its metadata,   *)
(* cells 1..length are its payload; each is read and written in one step.  *)
(* As on a POSIX file system a name leads to an inode, os.Create truncates *)
(* the inode that is there, os.Remove takes the name away and an open file *)
(* keeps its inode.  An inode is named after the Put that made it.         *)
(* Stats.Items, which only the metrics use, is left out.                   *)
(* Operators whose comment starts with "Fault:" are faulty variants of the *)
(* operator below them.                                                    *)
(***************************************************************************)
EXTENDS Integers, Sequences, FiniteSetsExt

CONSTANTS
  Keys, Puts, Gets, \* cache keys, calls of Put, goroutines that call Get
  NoPut,
  key,              \* Put -> its key
  length,           \* Put -> payload cells of its response
  maxSize,
  Wrap,             \* sizes are modulo Wrap (2^64)
  MaxFailures       \* bound: I/O operations that fail

ASSUME FsAssumption ==
  /\ NoPut \notin Puts
  /\ key \in [Puts -> Keys] /\ length \in [Puts -> Nat]
  /\ maxSize \in Nat \ {0} /\ Wrap \in Nat \ {0} /\ MaxFailures \in Nat

VARIABLES
  dir,       \* key -> the inode its name leads to, NoPut when there is none
  inode,     \* inode -> its cells, how long ago it was written, and (history)
             \* the Put that alone wrote what it holds
  pc, file,  \* Put -> next operation, and its open file
  written,   \* Put -> cells written
  gpc, gfile,       \* Get -> next operation, its open file
  size,      \* Stats.Size
  cpc, listed, todo, total, p, loopsCount,  \* the cleaner
  failures,
  quiet,     \* history: Get -> its file was complete and is not written since
  broken,    \* history: Get -> it then got something else than what the Put wrote
  renewed    \* history: keys whose file was written since the cleaner listed it

putVars   == <<pc, file, written>>
getVars   == <<gpc, gfile, quiet, broken>>
cleanVars == <<cpc, listed, todo, total, p, loopsCount>>
vars == <<dir, inode, putVars, getVars, size, cleanVars, failures, renewed>>

Hole == <<NoPut, 0>>
Free == [data |-> <<>>, age |-> "fresh", sole |-> NoPut]
NoFile == [size |-> 0, old |-> FALSE]
present == {k \in Keys : dir[k] # NoPut}

\* The bytes that Put writes for a response, metadata first.
response(q) == [n \in 1..(length[q] + 1) |-> <<q, n - 1>>]

\* newFilesSystemCache: the directory may hold files of an earlier process.
Init ==
  /\ \E old \in SUBSET Puts :
       /\ \A q, r \in old : key[q] = key[r] => q = r
       /\ dir = [k \in Keys |-> IF \E q \in old : key[q] = k
                                THEN CHOOSE q \in old : key[q] = k ELSE NoPut]
       /\ inode = [q \in Puts |-> IF q \in old THEN [Free EXCEPT !.data = response(q), !.sole = q]
                                 ELSE Free]
       /\ pc = [q \in Puts |-> IF q \in old THEN "done" ELSE "idle"]
  /\ file = [q \in Puts |-> NoPut] /\ written = [q \in Puts |-> 0]
  /\ gpc = [g \in Gets |-> "idle"] /\ gfile = [g \in Gets |-> NoPut]
  /\ quiet = [g \in Gets |-> FALSE] /\ broken = quiet
  /\ size = 0 /\ failures = 0
  /\ cpc = "start" /\ listed = [k \in Keys |-> NoFile] /\ todo = {}
  /\ total = 0 /\ p = 0 /\ loopsCount = 0 /\ renewed = {}

\* An inode is freed with its last name and the last open file.
freed(f) == inode' = IF \/ f = NoPut \/ dir'[key[f]] = f
                        \/ \E q \in Puts : file'[q] = f
                        \/ \E g \in Gets : gfile'[g] = f
                     THEN inode ELSE [inode EXCEPT ![f] = Free]

fails == failures < MaxFailures /\ failures' = failures + 1

-----------------------------------------------------------------------------
(* Put.                                                                    *)

renew(k) == renewed' = IF cpc = "walk" THEN renewed \union {k} ELSE renewed

\* Puts that still write to an inode.
writers(f) == {q \in Puts : file[q] = f}

\* os.Create: a new file, or the old one truncated.
Create(q) ==
  LET f == IF dir[key[q]] = NoPut THEN q ELSE dir[key[q]]
  IN  /\ pc[q] = "idle" /\ pc' = [pc EXCEPT ![q] = "header"]
      /\ file' = [file EXCEPT ![q] = f]
      /\ dir' = [dir EXCEPT ![key[q]] = f]
      /\ inode' = [inode EXCEPT ![f] = [Free EXCEPT !.sole = IF writers(f) = {} THEN q ELSE NoPut]]
      /\ quiet' = [g \in Gets |-> quiet[g] /\ gfile[g] # f]
      /\ renew(key[q])
      /\ UNCHANGED <<written, gpc, gfile, broken, size, cleanVars, failures>>

\* The next cell goes to the Put's own offset, whatever the file holds now.
write(q) ==
  LET s == inode[file[q]].data
      n == written[q] + 1
      m == IF Len(s) > n THEN Len(s) ELSE n
      cells == [i \in 1..m |-> IF i = n THEN response(q)[n]
                               ELSE IF i <= Len(s) THEN s[i] ELSE Hole]
  IN  /\ inode' = [inode EXCEPT ![file[q]].data = cells, ![file[q]].age = "fresh"]
      /\ written' = [written EXCEPT ![q] = n]
      /\ renew(key[q])
      /\ UNCHANGED <<dir, file, getVars, size, cleanVars, failures>>

\* writeHeader of the three metadata fields.
WriteHeader(q) ==
  /\ pc[q] = "header" /\ pc' = [pc EXCEPT ![q] = "body"]
  /\ write(q)

copied(q) == written[q] = length[q] + 1

\* io.Copy of the payload.
Copy(q) ==
  /\ pc[q] = "body" /\ ~copied(q)
  /\ write(q) /\ UNCHANGED pc

\* Put returns; it will not write to its file any more.  The code never closes
\* the file; the descriptor stays until the garbage collector finalizes it, which
\* no other step can tell from closing it here.
return(q, l) ==
  /\ pc' = [pc EXCEPT ![q] = l]
  /\ file' = [file EXCEPT ![q] = NoPut] /\ written' = [written EXCEPT ![q] = 0]
  /\ UNCHANGED <<dir, getVars>> /\ freed(file[q])

\* atomic.AddUint64(&f.stats.Size, uint64(cnt)): the payload only.
AddSize(q) ==
  /\ pc[q] = "body" /\ copied(q)
  /\ return(q, "done")
  /\ size' = (size + length[q]) % Wrap
  /\ UNCHANGED <<cleanVars, failures, renewed>>

\* An error return leaves the file as it is.
PutFails(q) ==
  /\ pc[q] \in {"idle", "header", "body"} /\ fails
  /\ return(q, "failed")
  /\ UNCHANGED <<size, cleanVars, renewed>>

Put(q) == Create(q) \/ WriteHeader(q) \/ Copy(q) \/ AddSize(q)

-----------------------------------------------------------------------------
(* Get, and the reading of the CachedData it returns.                      *)

getStep(g, from, to) ==
  /\ gpc[g] = from /\ gpc' = [gpc EXCEPT ![g] = to]
  /\ UNCHANGED <<dir, putVars, size, cleanVars, failures, renewed>>

\* Get's file is closed.
close(g) ==
  /\ gfile' = [gfile EXCEPT ![g] = NoPut]
  /\ quiet' = [quiet EXCEPT ![g] = FALSE]
  /\ freed(gfile[g])

\* os.Open and file.Stat; without a file, or with one older than expire +
\* grace, Get returns ErrMissing.
Open(g, k) ==
  /\ getStep(g, "idle", "header")
  /\ dir[k] # NoPut /\ inode[dir[k]].age # "outdated"
  /\ gfile' = [gfile EXCEPT ![g] = dir[k]]
  /\ quiet' = [quiet EXCEPT ![g] = inode[dir[k]].sole # NoPut /\ pc[inode[dir[k]].sole] = "done"]
  /\ UNCHANGED <<inode, broken>>

payload(cells) == SubSeq(cells, 2, Len(cells))

\* The Put that had completed Get's file wrote other cells than those of file f.
differs(g, f, cells(_)) ==
  quiet[g] /\ (f = NoPut \/ cells(inode[f].data) # cells(response(inode[gfile[g]].sole)))

note(g, b) == broken' = [broken EXCEPT ![g] = @ \/ b]

\* decodeHeader: it fails when the file is too short.
decodeHeader(g) ==
  \/ /\ getStep(g, "header", "idle") /\ inode[gfile[g]].data = <<>>
     /\ note(g, quiet[g]) /\ close(g)
  \/ /\ getStep(g, "header", "read") /\ inode[gfile[g]].data # <<>>
     /\ note(g, differs(g, gfile[g], Head)) /\ UNCHANGED <<inode, gfile, quiet>>

\* Fault: the payload is read from the file that has the name by then.
readByName(g) ==
  /\ getStep(g, "read", "idle")
  /\ note(g, differs(g, dir[key[gfile[g]]], payload)) /\ close(g)

\* CachedData.Data is read to its end and closed.
Read(g) ==
  /\ getStep(g, "read", "idle")
  /\ note(g, differs(g, gfile[g], payload)) /\ close(g)

Get(g) == decodeHeader(g) \/ Read(g)

-----------------------------------------------------------------------------
(* The cleaner.                                                            *)

\* Fault: files are removed as soon as they have expired.
oldExpired(k) == inode[dir[k]].age # "fresh"

\* Fault: files that are too old are removed only when the cache is full.
oldWhenFull(k) == inode[dir[k]].age = "outdated" /\ size > maxSize

\* Older than expire + grace.
old(k) == inode[dir[k]].age = "outdated"

\* walkDir: Readdir reads the names with their sizes and times.
list ==
  /\ listed' = [k \in Keys |-> IF k \in present THEN [size |-> Len(inode[dir[k]].data), old |-> old(k)]
                              ELSE NoFile]
  /\ todo' = present /\ renewed' = {}

\* clean starts: at once, every second when the size is over the limit, or
\* when forceCleanCh fires.
StartClean ==
  /\ cpc \in {"start", "idle"} /\ cpc' = "walk"
  /\ list /\ total' = 0 /\ p' = 0 /\ loopsCount' = 0
  /\ UNCHANGED <<dir, inode, putVars, getVars, size, failures>>

visited(k) ==
  /\ k \in todo /\ todo' = todo \ {k}
  /\ listed' = [listed EXCEPT ![k] = NoFile]
  /\ UNCHANGED <<putVars, getVars, size, cpc, p, loopsCount, renewed>>

\* os.Remove by name.
remove(k) == dir' = [dir EXCEPT ![k] = NoPut] /\ freed(dir[k])
keep == UNCHANGED <<dir, inode>>

count(k) == total' = (total + listed[k].size) % Wrap

\* The first walk: a file that cannot be removed is counted like one that stays.
Walk(k) ==
  /\ cpc = "walk" /\ visited(k)
  /\ \/ listed[k].old /\ remove(k) /\ UNCHANGED <<total, failures>>
     \/ listed[k].old /\ fails /\ count(k) /\ keep
     \/ ~listed[k].old /\ count(k) /\ keep /\ UNCHANGED failures

\* uint64 arithmetic: a file that grew since the first walk makes it wrap.
shrunk(k) == (total - listed[k].size) % Wrap

\* Another walk, to make room: each file goes with a probability of p percent.
Shrink(k) ==
  /\ cpc = "shrink" /\ visited(k)
  /\ \/ remove(k) /\ total' = shrunk(k) /\ UNCHANGED failures
     \/ p < 99 /\ keep /\ UNCHANGED <<total, failures>>
     \/ fails /\ keep /\ UNCHANGED total

\* Fault: one walk too many.
againOnceMore == total > maxSize /\ loopsCount <= 3

again == total > maxSize /\ loopsCount < 3

\* Walk again while the total is over the limit, at most three times.
ShrinkAgain ==
  /\ cpc \in {"walk", "shrink"} /\ todo = {}
  /\ again
  /\ cpc' = "shrink" /\ loopsCount' = loopsCount + 1
  /\ p' = ((total - maxSize) * 100) \div total + 10
  /\ list
  /\ UNCHANGED <<dir, inode, putVars, getVars, size, total, failures>>

\* Fault: the total is not stored.
storeSizeForgotten ==
  /\ cpc \in {"walk", "shrink"} /\ todo = {}
  /\ ~again
  /\ cpc' = "idle" /\ total' = 0 /\ p' = 0 /\ loopsCount' = 0 /\ renewed' = {}
  /\ UNCHANGED <<dir, inode, putVars, getVars, size, listed, todo, failures>>

\* atomic.StoreUint64(&f.stats.Size, totalSize)
StoreSize ==
  /\ cpc \in {"walk", "shrink"} /\ todo = {}
  /\ ~again
  /\ size' = total
  /\ cpc' = "idle" /\ total' = 0 /\ p' = 0 /\ loopsCount' = 0 /\ renewed' = {}
  /\ UNCHANGED <<dir, inode, putVars, getVars, listed, todo, failures>>

\* The directory cannot be read: clean returns.
WalkFails ==
  /\ cpc \in {"walk", "shrink"} /\ fails
  /\ cpc' = "idle" /\ total' = 0 /\ p' = 0 /\ loopsCount' = 0 /\ renewed' = {}
  /\ listed' = [k \in Keys |-> NoFile] /\ todo' = {}
  /\ UNCHANGED <<dir, inode, putVars, getVars, size>>

clean == StartClean \/ ShrinkAgain \/ StoreSize \/ \E k \in Keys : Walk(k) \/ Shrink(k)

\* fileSystemCache.Close: the cleaner leaves its loop.
CloseCache ==
  /\ cpc = "idle" /\ cpc' = "stopped"
  /\ UNCHANGED <<dir, inode, putVars, getVars, size, listed, todo, total, p, loopsCount,
                 failures, renewed>>

-----------------------------------------------------------------------------
\* Time passes: a file reaches expire, then expire + grace.
Age(f) ==
  /\ dir[key[f]] = f
  /\ \E a \in {<<"fresh", "expired">>, <<"expired", "outdated">>} :
       inode[f].age = a[1] /\ inode' = [inode EXCEPT ![f].age = a[2]]
  /\ UNCHANGED <<dir, putVars, getVars, size, cleanVars, failures, renewed>>

Next ==
  \/ \E q \in Puts : Put(q) \/ PutFails(q) \/ Age(q)
  \/ \E g \in Gets : Get(g) \/ \E k \in Keys : Open(g, k)
  \/ clean \/ WalkFails \/ CloseCache

Spec == Init /\ [][Next]_vars

\* The goroutine of the cleaner runs: the timer of forceCleanCh fires at least
\* once an hour.
FairSpec == Spec /\ WF_vars(clean)

-----------------------------------------------------------------------------
(* Properties.                                                             *)

Ages == {"fresh", "expired", "outdated"}
Cells == (Puts \cup {NoPut}) \X Nat

\* The sizes stay within uint64, and the cleaner counts at most three extra
\* walks (filesystem_cache.go:279).
FsTypeOK ==
  /\ dir \in [Keys -> Puts \cup {NoPut}]
  /\ \A k \in present : key[dir[k]] = k
  /\ inode \in [Puts -> [data : Seq(Cells), age : Ages, sole : Puts \cup {NoPut}]]
  /\ pc \in [Puts -> {"idle", "header", "body", "done", "failed"}]
  /\ file \in [Puts -> Puts \cup {NoPut}]
  /\ \A q \in Puts : written[q] \in 0..(length[q] + 1)
  /\ gpc \in [Gets -> {"idle", "header", "read"}]
  /\ gfile \in [Gets -> Puts \cup {NoPut}]
  /\ size \in 0..(Wrap - 1) /\ total \in 0..(Wrap - 1)
  /\ cpc \in {"start", "idle", "walk", "shrink", "stopped"}
  /\ listed \in [Keys -> [size : Nat, old : BOOLEAN]] /\ todo \subseteq Keys
  /\ p \in Nat /\ loopsCount \in 0..3 /\ failures \in 0..MaxFailures
  /\ quiet \in [Gets -> BOOLEAN]
  /\ broken \in [Gets -> BOOLEAN] /\ renewed \subseteq Keys

\* A Get that opens a file which one Put, undisturbed by others, has written to
\* its end, and which no Put opens again before it is read, gives the client
\* exactly the response of that Put, or finds it outdated.  Neither the cleaner
\* nor Puts to the same name after a removal disturb it (Get returns the open
\* file, filesystem_cache.go:127-131; os.Remove keeps it readable).
WholeAnswer == \A g \in Gets : ~broken[g]

\* "Remove cached files after a deadline from their expiration, so they may be
\* served until they are substituted with fresh files" (filesystem_cache.go:
\* 238-240): the cleaner removes a file that Get would still serve only to make
\* room, or when a Put has written it after the walk had looked at it.
ServableKept ==
  [][\A k \in Keys : dir[k] # NoPut /\ dir'[k] = NoPut /\ inode[dir[k]].age # "outdated"
                       => cpc = "shrink" \/ k \in renewed]_vars

\* What the files of the directory take.
diskSize == MapThenSumSet(LAMBDA k : Len(inode[dir[k]].data), present)

\* A Put is between os.Create and its return.
putting == \E q \in Puts : pc[q] \in {"header", "body"}

\* Stats.Size misses headers, counts overwritten files twice, loses additions
\* that clean overwrites and may wrap below zero; but when it is wrong and no
\* Put is under way, it is right again after a later clean, unless a Put comes
\* before that clean has ended or the cache is closed (filesystem_cache.go:195,
\* 298,310).  Puts that never pause can keep it wrong for ever; so can walks
\* that never stop failing, of which MaxFailures allows a finite number.
SizeHeals == size # diskSize /\ ~putting
               ~> (size = diskSize \/ putting \/ cpc = "stopped")

\* A file older than expire + grace is removed or written anew, unless the
\* cache is closed, even when a walk or a removal fails (filesystem_cache.go:
\* 219-222,247-263).
OutdatedGoes ==
  \A k \in Keys : (dir[k] # NoPut /\ inode[dir[k]].age = "outdated")
                     ~> (dir[k] = NoPut \/ inode[dir[k]].age # "outdated" \/ cpc = "stopped")
=============================================================================
