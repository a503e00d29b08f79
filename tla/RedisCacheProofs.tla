-------------------------- MODULE RedisCacheProofs -------------------------
(***************************************************************************)
(* What RedisCache shows on an instance holds for every set of Puts and    *)
(* Gets and for all lengths.  The invariant says, of a Put that is not     *)
(* spoiled, what its temporary key holds at each of its commands (PutOK),  *)
(* and of a Get what it knows of the value that it reads (GetOK).          *)
(***************************************************************************)
EXTENDS RedisCache, TLAPS

\* Lengths and positions make sense.
LengthOK(v) == v # NoValue /\ v.clean => Meta <= v.len

Lengths ==
  /\ \A p \in Puts : /\ Meta <= written[p] /\ written[p] <= total(p)
                     /\ \A c \in late[p] : c[1] = "APPEND" => c[2] <= total(p)
                     /\ LengthOK(tmp[p])
  /\ LengthOK(key)
  /\ \A g \in Gets : LengthOK(first[g])

\* The temporary key of p has expired, or holds the first n units.
good(p, n) == tmp[p] = NoValue \/ (tmp[p].clean /\ tmp[p].len = n /\ tmp[p].ttl # "none")

isRename(c) == c[1] = "RENAME"

\* A Put that nothing has spoiled.
Sound(p) ==
  /\ pcP[p] = "set" => written[p] = Meta
  /\ pcP[p] \in {"set", "append", "rename"} => late[p] = {}
  /\ pcP[p] \in {"append", "rename"} => good(p, written[p])
  /\ pcP[p] = "rename" => written[p] = total(p)
  /\ \A c \in late[p] : isRename(c) => /\ pcP[p] = "done" /\ good(p, total(p))
                                       /\ \A d \in late[p] : isRename(d)
  /\ p \in published => /\ pcP[p] = "done" /\ tmp[p] = NoValue
                        /\ \A c \in late[p] : isRename(c)

PutOK(p) == /\ tmp[p] # NoValue => tmp[p].by = p
            /\ p \in spoiled \/ Sound(p)

\* The value that g reads is still there, unless g was told otherwise.
GetOK(g) ==
  /\ pcG[g] \in {"ttl", "range", "done"} => first[g] # NoValue
  /\ first[g] # NoValue =>
       first[g].by \in spoiled \/ (first[g].clean /\ first[g].len = total(first[g].by))
  /\ pcG[g] \in {"ttl", "range"} /\ g \notin replaced =>
       key = NoValue \/ key.by = first[g].by
  /\ pcG[g] \in {"get", "ttl"} => from[g] = {}
  /\ pcG[g] = "range" =>
       /\ first[g].by \in spoiled \/ expected[g] = size[first[g].by]
       /\ from[g] \subseteq {first[g].by} \/ g \in replaced

IInv == /\ RedisTypeOK /\ Lengths
        /\ \A p \in Puts : PutOK(p)
        /\ Published
        /\ \A g \in Gets : GetOK(g)
        /\ HonestRead

----------------------------------------------------------------------------
(* Lengths.                                                                *)

\* The total length, and that of a chunk at a position inside it.
LEMMA ChunkRange ==
  ASSUME RedisTypeOK, NEW p \in Puts, NEW w \in Nat, w <= total(p)
  PROVE  /\ total(p) \in Nat
         /\ chunk(p, w) \in Nat
         /\ w + chunk(p, w) <= total(p)
         /\ w < total(p) => chunk(p, w) > 0
<1>1. size[p] \in Nat
  BY LengthsAssumption, ZenonT(30) DEF RedisTypeOK
<1>2. total(p) \in Nat
  BY <1>1, LengthsAssumption DEF total
<1> QED  BY <1>2, LengthsAssumption DEF chunk, min

\* What APPEND makes of a value.
LEMMA AppendedValue ==
  ASSUME RedisTypeOK, NEW p \in Puts, NEW w \in Nat, w <= total(p),
         NEW v \in Values \cup {NoValue}
  PROVE  /\ appended(v, p, w) \in Values
         /\ appended(v, p, w) # NoValue
         /\ LengthOK(v) => LengthOK(appended(v, p, w))
         /\ v = NoValue => /\ appended(v, p, w).by = p
                           /\ appended(v, p, w).len = chunk(p, w)
         /\ v # NoValue => /\ appended(v, p, w).by = v.by
                           /\ appended(v, p, w).len = v.len + chunk(p, w)
                           /\ appended(v, p, w).ttl = v.ttl
                           /\ v.clean /\ v.len = w => appended(v, p, w).clean
<1>1. chunk(p, w) \in Nat
  BY ChunkRange, Zenon
<1>2. CASE v = NoValue
  <2>1. appended(v, p, w) = [by |-> p, len |-> chunk(p, w), clean |-> FALSE, ttl |-> "none"]
    BY <1>2, Zenon DEF appended
  <2>2. appended(v, p, w) \in Values
    BY <1>1, <2>1 DEF Values
  <2>3. appended(v, p, w).by = p /\ appended(v, p, w).len = chunk(p, w)
    BY <2>1
  <2>4. ~appended(v, p, w).clean
    BY <2>1, SMT
  <2>5. appended(v, p, w) # NoValue
    BY <2>2, NoValueAssumption, Zenon
  <2> QED  BY <1>2, <2>2, <2>3, <2>4, <2>5, Zenon DEF LengthOK
<1>3. CASE v # NoValue
  <2>1. v \in Values
    BY <1>3, Zenon
  <2>2. v.len \in Nat /\ v.len + chunk(p, w) \in Nat /\ v.by \in Puts
    BY <1>1, <2>1 DEF Values
  <2>3. appended(v, p, w) \in Values
    BY <1>1, <1>3, <2>1, <2>2, ZenonT(30) DEF appended, Values
  <2>4. LengthOK(v) => LengthOK(appended(v, p, w))
    BY <1>1, <1>3, <2>1, <2>2, <2>3, LengthsAssumption DEF appended, Values, LengthOK
  <2> QED
    BY <1>3, <2>1, <2>3, <2>4, NoValueAssumption, ZenonT(30) DEF appended, Values
<1> QED  BY <1>2, <1>3, Zenon

LEMMA AppendedMore ==
  ASSUME RedisTypeOK, NEW p \in Puts, NEW w \in Nat, w <= total(p), NEW v \in Values
  PROVE  /\ appended(v, p, w) \in Values /\ appended(v, p, w) # NoValue
         /\ appended(v, p, w).by = v.by
         /\ appended(v, p, w).len = v.len + chunk(p, w)
<1>1. v \in Values \cup {NoValue} /\ v # NoValue
  BY NoValueAssumption, Zenon
<1> QED  BY <1>1, AppendedValue

\* A chunk that is there twice is noticed.
LEMMA TwiceIsMore ==
  ASSUME NEW w \in Nat, NEW c \in Nat, c > 0
  PROVE  w + c + c # w + c
OBVIOUS

\* What the first GETRANGE shows.
LEMMA ContentsOfValue ==
  ASSUME NEW v \in Values, NEW f, f = [by |-> v.by, len |-> v.len, clean |-> v.clean]
  PROVE  /\ f \in Contents /\ f # NoValue
         /\ f.by = v.by /\ f.len = v.len /\ f.clean = v.clean
         /\ v.by \in Puts
<1>1. v.by \in Puts /\ v.len \in Nat /\ v.clean \in BOOLEAN
  BY Zenon DEF Values
<1>2. f \in Contents
  BY <1>1, Zenon DEF Contents
<1> QED  BY <1>1, <1>2, NoValueAssumption, Zenon

\* A value after a while.
LEMMA OlderValue ==
  ASSUME NEW v \in Values
  PROVE  /\ older(v) \in Values \cup {NoValue}
         /\ LengthOK(v) => LengthOK(older(v))
         /\ older(v) # NoValue => /\ older(v).by = v.by /\ older(v).len = v.len
                                  /\ older(v).clean = v.clean /\ older(v).ttl = "short"
BY NoValueAssumption, Zenon DEF older, Values, LengthOK

\* The metadata as SET stores it.
LEMMA MetadataValue ==
  ASSUME NEW p \in Puts
  PROVE  /\ metadata(p) \in Values /\ metadata(p) # NoValue /\ LengthOK(metadata(p))
         /\ metadata(p).by = p /\ metadata(p).len = Meta
         /\ metadata(p).clean /\ metadata(p).ttl = "long"
<1>1. metadata(p) \in Values
  BY LengthsAssumption, Zenon DEF metadata, Values
<1>2. metadata(p) # NoValue
  BY <1>1, NoValueAssumption, Zenon
<1> QED  BY <1>1, <1>2, LengthsAssumption DEF metadata, LengthOK

----------------------------------------------------------------------------
(* Types.                                                                  *)

\* Each variable that the steps of a Put change.
LEMMA PutTypes ==
  ASSUME RedisTypeOK, Lengths, NEW p \in Puts, Put(p) \/ Late(p) \/ AgeTmp(p)
  PROVE  /\ RedisTypeOK'
         /\ Lengths'
<1>t. /\ size \in [Puts -> Sizes] /\ key \in Values \cup {NoValue}
      /\ tmp \in [Puts -> Values \cup {NoValue}]
      /\ pcP \in [Puts -> {"set", "append", "clean", "rename", "done"}]
      /\ written \in [Puts -> Nat] /\ late \in [Puts -> SUBSET Commands]
      /\ published \in SUBSET Puts /\ spoiled \in SUBSET Puts /\ replaced \in SUBSET Gets
  BY Zenon DEF RedisTypeOK
<1>l. /\ \A q \in Puts : /\ Meta <= written[q] /\ written[q] <= total(q)
                         /\ \A c \in late[q] : c[1] = "APPEND" => c[2] <= total(q)
                         /\ LengthOK(tmp[q])
      /\ LengthOK(key) /\ \A g \in Gets : LengthOK(first[g])
  BY Zenon DEF Lengths
<1>w. written[p] \in Nat /\ written[p] <= total(p)
  BY <1>t, <1>l, Zenon
<1>n. LengthOK(NoValue)
  BY Zenon DEF LengthOK
<1>c. ASSUME NEW n \in {"SET", "APPEND", "RENAME"}, NEW w \in Nat, w <= total(p),
             UNCHANGED late \/ late' = [late EXCEPT ![p] = @ \cup {<<n, w>>}]
      PROVE  /\ late' \in [Puts -> SUBSET Commands]
             /\ \A q \in Puts : \A c \in late'[q] : c[1] = "APPEND" => c[2] <= total(q)
  <2>1. <<n, w>> \in Commands
    BY Zenon DEF Commands
  <2> QED  BY <1>t, <1>l, <1>c, <2>1
<1>z. 0 \in Nat /\ 0 <= total(p)
  BY <1>w, ChunkRange
<1> DEFINE Ok == /\ key' \in Values \cup {NoValue} /\ tmp' \in [Puts -> Values \cup {NoValue}]
                 /\ pcP' \in [Puts -> {"set", "append", "clean", "rename", "done"}]
                 /\ written' \in [Puts -> Nat] /\ late' \in [Puts -> SUBSET Commands]
                 /\ published' \in SUBSET Puts /\ spoiled' \in SUBSET Puts
                 /\ replaced' \in SUBSET Gets
           Len == /\ \A q \in Puts : Meta <= written'[q] /\ written'[q] <= total(q)
                  /\ \A q \in Puts : \A c \in late'[q] : c[1] = "APPEND" => c[2] <= total(q)
                  /\ \A q \in Puts : LengthOK(tmp'[q])
                  /\ LengthOK(key')
<1>u. UNCHANGED <<size, pcG, first, expected, mode, off, buf, from>>
  BY Zenon DEF Put, Set, Append, EndOfBody, ReadError, Clean, Rename, Crash, Late, AgeTmp, gets
<1>s. /\ \A q \in Puts : total(q)' = total(q)
      /\ LengthOK(key)' <=> LengthOK(key')
      /\ \A q \in Puts : LengthOK(tmp[q])' <=> LengthOK(tmp'[q])
      /\ \A g \in Gets : LengthOK(first[g])' <=> LengthOK(first[g])
  BY <1>u, Zenon DEF total, LengthOK
<1> SUFFICES Ok /\ Len
  BY <1>u, <1>s, <1>l, Zenon DEF RedisTypeOK, Lengths
<1>r. ASSUME rename(p)
      PROVE  /\ key' \in Values \cup {NoValue} /\ tmp' \in [Puts -> Values \cup {NoValue}]
             /\ published' \in SUBSET Puts /\ replaced' \in SUBSET Gets
             /\ LengthOK(key') /\ \A q \in Puts : LengthOK(tmp'[q])
  <2>1. CASE tmp[p] = NoValue
    BY <1>t, <1>l, <1>r, <2>1, Zenon DEF rename
  <2>2. CASE tmp[p] # NoValue
    BY <1>t, <1>l, <1>n, <1>r, <2>2, Zenon DEF rename
  <2> QED  BY <2>1, <2>2, Zenon
<1>1. CASE Set(p)
  <2>1. metadata(p) \in Values /\ LengthOK(metadata(p))
    BY MetadataValue, Zenon
  <2>2. UNCHANGED late \/ late' = [late EXCEPT ![p] = @ \cup {<<"SET", 0>>}]
    BY <1>1, Zenon DEF Set, overtaken, giveUp, delay
  <2>3. /\ late' \in [Puts -> SUBSET Commands]
        /\ \A q \in Puts : \A c \in late'[q] : c[1] = "APPEND" => c[2] <= total(q)
    BY <1>c, <1>z, <2>2, Zenon
  <2>4. Ok
    BY <1>1, <1>t, <2>1, <2>3 DEF Set, overtaken
  <2>5. Len
    BY <1>1, <1>t, <1>l, <2>1, <2>3, Zenon DEF Set, overtaken
  <2> QED  BY <1>1, <2>4, <2>5, Zenon
<1>2. CASE Append(p)
  <2> DEFINE w == written[p]
             once  == appended(tmp[p], p, w)
             twice == appended(once, p, w)
  <2>1. once \in Values /\ LengthOK(once)
    BY <1>t, <1>l, <1>w, AppendedValue, Zenon
  <2>2. twice \in Values /\ LengthOK(twice)
    BY <1>w, <2>1, AppendedValue, Zenon
  <2>3. UNCHANGED late \/ late' = [late EXCEPT ![p] = @ \cup {<<"APPEND", w>>}]
    BY <1>2, Zenon DEF Append, overtaken, giveUp, delay
  <2>4. /\ late' \in [Puts -> SUBSET Commands]
        /\ \A q \in Puts : \A c \in late'[q] : c[1] = "APPEND" => c[2] <= total(q)
    BY <1>c, <1>w, <2>3, Zenon
  <2>5. w + chunk(p, w) \in Nat /\ w + chunk(p, w) <= total(p) /\ Meta <= w + chunk(p, w)
    BY <1>w, <1>l, ChunkRange, LengthsAssumption
  <2>6. tmp' \in {tmp, [tmp EXCEPT ![p] = once], [tmp EXCEPT ![p] = twice]}
    BY <1>2, Zenon DEF Append
  <2>7. pcP' \in [Puts -> {"set", "append", "clean", "rename", "done"}]
    BY <1>2, <1>t, Zenon DEF Append, checked
  <2>8. spoiled' \in SUBSET Puts
    BY <1>2, <1>t, Zenon DEF Append, overtaken
  <2>9. UNCHANGED <<key, published, replaced>> /\ written' = [written EXCEPT ![p] = w + chunk(p, w)]
    BY <1>2, Zenon DEF Append
  <2>10. Ok
    BY <1>t, <2>1, <2>2, <2>4, <2>5, <2>6, <2>7, <2>8, <2>9, Zenon
  <2>11. Len
    BY <1>t, <1>l, <2>1, <2>2, <2>4, <2>5, <2>6, <2>9, Zenon
  <2> QED  BY <1>2, <2>10, <2>11, Zenon
<1>3. CASE EndOfBody(p) \/ ReadError(p) \/ Crash(p)
  BY <1>3, <1>t, <1>l, Zenon DEF EndOfBody, ReadError, Crash
<1>4. CASE Clean(p)
  BY <1>4, <1>t, <1>l, <1>n, Zenon DEF Clean
<1>5. CASE Rename(p)
  <2>1. UNCHANGED late \/ late' = [late EXCEPT ![p] = @ \cup {<<"RENAME", 0>>}]
    BY <1>5, Zenon DEF Rename, giveUp, delay
  <2>2. /\ late' \in [Puts -> SUBSET Commands]
        /\ \A q \in Puts : \A c \in late'[q] : c[1] = "APPEND" => c[2] <= total(q)
    BY <1>c, <1>z, <2>1, Zenon
  <2>3. rename(p) \/ UNCHANGED <<key, tmp, published, replaced>>
    BY <1>5, Zenon DEF Rename
  <2>4. UNCHANGED <<written, spoiled>> /\ pcP' = [pcP EXCEPT ![p] = "done"]
    BY <1>5, Zenon DEF Rename
  <2> QED  BY <1>t, <1>l, <1>r, <2>2, <2>3, <2>4, Zenon
<1>6. CASE Late(p)
  <2>1. PICK c \in late[p] :
          /\ late' = [late EXCEPT ![p] = @ \ {c}]
          /\ \/ /\ c[1] = "SET"
                /\ tmp' = [tmp EXCEPT ![p] = metadata(p)]
                /\ UNCHANGED <<key, published, replaced>>
             \/ /\ c[1] = "APPEND"
                /\ tmp' = [tmp EXCEPT ![p] = appended(@, p, c[2])]
                /\ UNCHANGED <<key, published, replaced>>
             \/ c[1] = "RENAME" /\ rename(p)
    BY <1>6, ZenonT(30) DEF Late
  <2>2. UNCHANGED <<pcP, written, spoiled>>
    BY <1>6, Zenon DEF Late
  <2>3. /\ late' \in [Puts -> SUBSET Commands]
        /\ \A q \in Puts : \A d \in late'[q] : d[1] = "APPEND" => d[2] <= total(q)
    BY <1>t, <1>l, <2>1, Zenon
  <2>4. CASE c[1] = "SET"
    BY <1>t, <1>l, <2>1, <2>2, <2>3, <2>4, MetadataValue
  <2>5. CASE c[1] = "APPEND"
    <3>1. c[2] \in Nat /\ c[2] <= total(p)
      BY <1>t, <1>l, <2>5 DEF Commands
    <3>2. appended(tmp[p], p, c[2]) \in Values /\ LengthOK(appended(tmp[p], p, c[2]))
      BY <1>t, <1>l, <3>1, AppendedValue, Zenon
    <3> QED  BY <1>t, <1>l, <2>1, <2>2, <2>3, <2>5, <3>2
  <2>6. CASE c[1] = "RENAME"
    BY <1>t, <1>l, <1>r, <2>1, <2>2, <2>3, <2>6, Zenon
  <2> QED  BY <2>1, <2>4, <2>5, <2>6, Zenon
<1>7. CASE AgeTmp(p)
  <2>1. older(tmp[p]) \in Values \cup {NoValue} /\ LengthOK(older(tmp[p]))
    BY <1>7, <1>t, <1>l, OlderValue, Zenon DEF AgeTmp
  <2> QED  BY <1>7, <1>t, <1>l, <2>1, Zenon DEF AgeTmp
<1> HIDE DEF Ok, Len
<1> QED
  BY <1>1, <1>2, <1>3, <1>4, <1>5, <1>6, <1>7, Zenon DEF Put

\* Each variable that the steps of a Get, or time, change.
LEMMA GetTypes ==
  ASSUME RedisTypeOK, Lengths, \A g \in Gets : GetOK(g),
         AgeKey \/ \E g \in Gets : Get(g) \/ Ttl(g) \/ Read(g) \/ ReadFails(g)
  PROVE  RedisTypeOK' /\ Lengths'
<1>t. /\ key \in Values \cup {NoValue}
      /\ pcG \in [Gets -> {"get", "ttl", "range", "done", "miss", "broken"}]
      /\ first \in [Gets -> Contents \cup {NoValue}]
      /\ expected \in [Gets -> Nat] /\ mode \in [Gets -> {"stream", "file"}]
      /\ off \in [Gets -> Nat] /\ buf \in [Gets -> Nat] /\ from \in [Gets -> SUBSET Puts]
  BY Zenon DEF RedisTypeOK
<1>l. LengthOK(key) /\ \A g \in Gets : LengthOK(first[g])
  BY Zenon DEF Lengths
<1>1. CASE AgeKey
  <2>1. older(key) \in Values \cup {NoValue} /\ LengthOK(older(key))
    BY <1>1, <1>t, <1>l, OlderValue, Zenon DEF AgeKey
  <2> QED
    BY <1>1, <2>1, Zenon DEF AgeKey, RedisTypeOK, Lengths, LengthOK, total, puts, gets
<1>2. ASSUME NEW g \in Gets, Get(g) \/ Ttl(g) \/ Read(g) \/ ReadFails(g)
      PROVE  RedisTypeOK' /\ Lengths'
  <2> DEFINE Ok == /\ pcG' \in [Gets -> {"get", "ttl", "range", "done", "miss", "broken"}]
                   /\ first' \in [Gets -> Contents \cup {NoValue}]
                   /\ expected' \in [Gets -> Nat] /\ mode' \in [Gets -> {"stream", "file"}]
                   /\ off' \in [Gets -> Nat] /\ buf' \in [Gets -> Nat]
                   /\ from' \in [Gets -> SUBSET Puts]
                   /\ \A h \in Gets : LengthOK(first'[h])
  <2>u. UNCHANGED <<key, puts, replaced>>
    BY <1>2, Zenon DEF Get, Ttl, Read, ReadFails
  <2> SUFFICES Ok
    BY <2>u, Zenon DEF RedisTypeOK, Lengths, LengthOK, total, puts
  <2>1. CASE Get(g)
    <3>1. CASE UNCHANGED first
      BY <1>t, <1>l, <2>1, <3>1, Zenon DEF Get, endG
    <3>2. CASE key # NoValue /\ first' = [first EXCEPT ![g] = [by |-> key.by, len |-> key.len, clean |-> key.clean]]
      <4>1. key \in Values /\ [by |-> key.by, len |-> key.len, clean |-> key.clean] \in Contents
        BY <1>t, <3>2, Zenon DEF Values, Contents
      <4>2. LengthOK([by |-> key.by, len |-> key.len, clean |-> key.clean])
        BY <1>l, <3>2, Zenon DEF LengthOK
      <4> QED  BY <1>t, <1>l, <2>1, <3>2, <4>1, <4>2, Zenon DEF Get, endG
    <3> QED  BY <2>1, <3>1, <3>2, Zenon DEF Get
  <2>2. CASE Ttl(g)
    <3>0. first[g] \in Contents
      BY <1>t, <2>2 DEF Ttl, GetOK
    <3>1. CASE pcG' = [pcG EXCEPT ![g] = "miss"] /\ UNCHANGED <<expected, off, from, mode>>
      BY <1>t, <1>l, <2>2, <3>1, Zenon DEF Ttl
    <3>2. ASSUME NEW n \in decodeMetadata(first[g]),
                 expected' = [expected EXCEPT ![g] = n],
                 \/ /\ off' = [off EXCEPT ![g] = first[g].len - Meta]
                    /\ from' = [from EXCEPT ![g] = {first[g].by}]
                    /\ pcG' = [pcG EXCEPT ![g] = "done"]
                    /\ UNCHANGED mode
                 \/ /\ mode' = [mode EXCEPT ![g] = IF ttlShort THEN "file" ELSE "stream"]
                    /\ pcG' = [pcG EXCEPT ![g] = "range"]
                    /\ UNCHANGED <<off, from>>
          PROVE  Ok
      <4>1. n \in Nat /\ first[g].by \in Puts /\ first[g].len \in Nat /\ Meta <= first[g].len
        <5>1. first[g].by \in Puts /\ first[g].len \in Nat /\ first[g] # NoValue
          BY <3>0, NoValueAssumption, Zenon DEF Contents
        <5>2. size[first[g].by] \in Nat
          BY <5>1, LengthsAssumption, ZenonT(30) DEF RedisTypeOK
        <5>3. CASE first[g].clean
          BY <1>l, <3>2, <5>1, <5>2, <5>3, Zenon DEF decodeMetadata, LengthOK
        <5>4. CASE ~first[g].clean
          BY <3>2, <5>1, <5>4, LengthsAssumption, ZenonT(30) DEF decodeMetadata
        <5> QED  BY <5>3, <5>4, Zenon
      <4>2. first[g].len - Meta \in Nat
        BY <4>1, LengthsAssumption
      <4> QED  BY <1>t, <1>l, <2>2, <3>2, <4>1, <4>2 DEF Ttl
    <3> QED  BY <2>2, <3>1, <3>2, ZenonT(30) DEF Ttl, endG
  <2>3. CASE Read(g)
    <3>1. fetched(g) \in Nat /\ (fetched(g) # 0 => key \in Values)
      BY <1>t, LengthsAssumption DEF fetched, min, Values
    <3>2. fetched(g) # 0 => key.by \in Puts
      BY <3>1, Zenon DEF Values
    <3>3. pcG' \in [Gets -> {"get", "ttl", "range", "done", "miss", "broken"}]
      BY <1>t, <2>3, Zenon DEF Read, endOfValue, failed, endG
    <3>4. off' \in [Gets -> Nat] /\ buf' \in [Gets -> Nat]
      BY <1>t, <2>3, <3>1 DEF Read
    <3>5. from' \in [Gets -> SUBSET Puts]
      BY <1>t, <2>3, <3>2, Zenon DEF Read
    <3>6. UNCHANGED <<first, expected, mode>>
      BY <2>3, Zenon DEF Read
    <3> QED  BY <1>t, <1>l, <3>3, <3>4, <3>5, <3>6, Zenon
  <2>4. CASE ReadFails(g)
    BY <1>t, <1>l, <2>4, Zenon DEF ReadFails, failed, endG
  <2> QED  BY <1>2, <2>1, <2>2, <2>3, <2>4, Zenon
<1> QED  BY <1>1, <1>2, Zenon

----------------------------------------------------------------------------
(* The Puts and the key.                                                   *)

\* A step that leaves the state of a Put alone keeps what is known of it.
LEMMA SamePut ==
  ASSUME NEW q \in Puts, PutOK(q), size' = size,
         tmp'[q] = tmp[q], pcP'[q] = pcP[q], written'[q] = written[q], late'[q] = late[q],
         q \in spoiled' <=> q \in spoiled, q \in published' <=> q \in published
  PROVE  PutOK(q)'
BY ZenonT(30) DEF PutOK, Sound, good, total, isRename

\* The steps of p change nothing of the other Puts, and spoil nothing but p.
LEMMA OtherPuts ==
  ASSUME RedisTypeOK, NEW p \in Puts, Put(p) \/ Late(p) \/ AgeTmp(p)
  PROVE  /\ size' = size /\ spoiled' \in {spoiled, spoiled \cup {p}}
         /\ \A q \in Puts \ {p} :
              /\ tmp'[q] = tmp[q] /\ pcP'[q] = pcP[q]
              /\ written'[q] = written[q] /\ late'[q] = late[q]
              /\ q \in spoiled' <=> q \in spoiled
              /\ q \in published' <=> q \in published
<1>t. /\ tmp \in [Puts -> Values \cup {NoValue}]
      /\ pcP \in [Puts -> {"set", "append", "clean", "rename", "done"}]
      /\ written \in [Puts -> Nat] /\ late \in [Puts -> SUBSET Commands]
  BY Zenon DEF RedisTypeOK
<1> USE <1>t
<1>1. CASE Set(p)
  BY <1>1, Zenon DEF Set, overtaken, giveUp, delay
<1>2. CASE Append(p)
  BY <1>2, Zenon DEF Append, overtaken, giveUp, delay
<1>3. CASE EndOfBody(p) \/ ReadError(p) \/ Crash(p) \/ Clean(p)
  BY <1>3, Zenon DEF EndOfBody, ReadError, Crash, Clean
<1>4. CASE Rename(p)
  BY <1>4, Zenon DEF Rename, rename, giveUp, delay
<1>5. CASE Late(p)
  BY <1>5 DEF Late, rename
<1>6. CASE AgeTmp(p)
  BY <1>6, Zenon DEF AgeTmp
<1> QED  BY <1>1, <1>2, <1>3, <1>4, <1>5, <1>6, ZenonT(30) DEF Put

\* RENAME publishes what the temporary key holds.
LEMMA RenamePublishes ==
  ASSUME RedisTypeOK, Published, NEW p \in Puts, PutOK(p), rename(p), size' = size,
         spoiled' = spoiled, p \in spoiled \/ good(p, total(p))
  PROVE  Published'
<1>1. CASE tmp[p] = NoValue
  BY <1>1, Zenon DEF rename, Published, whole, total
<1>2. CASE tmp[p] # NoValue
  <2>1. key' = tmp[p] /\ tmp[p].by = p
    BY <1>2, Zenon DEF rename, PutOK
  <2>2. p \in spoiled \/ (tmp[p].clean /\ tmp[p].len = total(p) /\ tmp[p].ttl # "none")
    BY <1>2, Zenon DEF good
  <2> QED  BY <2>1, <2>2, Zenon DEF Published, whole, total
<1> QED  BY <1>1, <1>2, Zenon

\* A step that leaves the key alone keeps Published: nothing is unspoiled.
LEMMA SameKey ==
  ASSUME Published, size' = size, key' = key, spoiled \subseteq spoiled'
  PROVE  Published'
BY Zenon DEF Published, whole, total

\* A Put that ends without a RENAME under way needs nothing more.
LEMMA Aborted ==
  ASSUME NEW p \in Puts, pcP'[p] \in {"clean", "done"}, tmp'[p] # NoValue => tmp'[p].by = p,
         p \notin published', \A c \in late'[p] : ~isRename(c)
  PROVE  PutOK(p)'
BY Zenon DEF PutOK, Sound, isRename

\* A command that p gives up is all that is new on its way.
LEMMA GivenUp ==
  ASSUME RedisTypeOK, NEW p \in Puts, NEW c, giveUp(p, c)
  PROVE  late'[p] \subseteq late[p] \cup {c}
<1>1. late \in [Puts -> SUBSET Commands]
  BY Zenon DEF RedisTypeOK
<1>2. CASE late' = late
  BY <1>2, Zenon
<1>3. CASE late' = [late EXCEPT ![p] = @ \cup {c}]
  BY <1>1, <1>3, Zenon
<1> QED  BY <1>2, <1>3, Zenon DEF giveUp, delay

\* What the steps of p do to p itself and to the key.
LEMMA PutStep ==
  ASSUME RedisTypeOK, Lengths, Published, NEW p \in Puts, PutOK(p),
         Put(p) \/ Late(p) \/ AgeTmp(p)
  PROVE  PutOK(p)' /\ Published'
<1>t. /\ tmp \in [Puts -> Values \cup {NoValue}]
      /\ pcP \in [Puts -> {"set", "append", "clean", "rename", "done"}]
      /\ written \in [Puts -> Nat] /\ late \in [Puts -> SUBSET Commands]
      /\ published \in SUBSET Puts /\ spoiled \in SUBSET Puts
  BY Zenon DEF RedisTypeOK
<1>o. size' = size /\ spoiled \subseteq spoiled' /\ total(p)' = total(p)
  BY OtherPuts, Zenon DEF total
<1>w. written[p] \in Nat /\ Meta <= written[p] /\ written[p] <= total(p)
  BY <1>t, Zenon DEF Lengths
<1>1. CASE Set(p)
  <2>1. Published'
    BY <1>1, <1>o, SameKey, Zenon DEF Set
  <2> SUFFICES PutOK(p)'
    BY <2>1, Zenon
  <2>2. CASE p \in spoiled'
    BY <1>1, <1>t, <2>2, MetadataValue, Zenon DEF Set, PutOK
  <2>3. CASE p \notin spoiled' /\ pcP' = [pcP EXCEPT ![p] = "append"]
    <3>1. /\ Sound(p) /\ pcP[p] = "set" /\ late' = late /\ tmp' = [tmp EXCEPT ![p] = metadata(p)]
          /\ UNCHANGED <<written, published>>
      BY <1>1, <1>t, <2>3, Zenon DEF Set, PutOK, overtaken, delay
    <3>2. written[p] = Meta /\ late[p] = {} /\ p \notin published
      BY <3>1, Zenon DEF Sound
    <3> QED  BY <1>t, <3>1, <3>2, <2>3, MetadataValue, Zenon DEF PutOK, Sound, good
  <2>4. CASE p \notin spoiled' /\ pcP' = [pcP EXCEPT ![p] = "done"]
    <3>1. late[p] = {} /\ p \notin published' /\ (tmp'[p] # NoValue => tmp'[p].by = p)
      BY <1>1, <1>t, <1>o, <2>4, Zenon DEF Set, PutOK, Sound
    <3>2. \A c \in late'[p] : ~isRename(c)
      <4>1. giveUp(p, <<"SET", 0>>)
        <5>1. pcP'[p] = "done"
          BY <1>t, <2>4, Zenon
        <5>2. pcP' # [pcP EXCEPT ![p] = "append"]
          BY <1>t, <5>1, Zenon
        <5> QED  BY <1>1, <5>2, Zenon DEF Set
      <4>2. late'[p] \subseteq {<<"SET", 0>>}
        BY <3>1, <4>1, GivenUp, Zenon
      <4> QED  BY <4>2 DEF isRename
    <3> QED  BY <1>t, <2>4, <3>1, <3>2, Aborted, Zenon
  <2> QED  BY <1>1, <2>1, <2>2, <2>3, <2>4, Zenon DEF Set
<1>2. CASE Append(p)
  <2> DEFINE w == written[p]
             once  == appended(tmp[p], p, w)
             twice == appended(once, p, w)
  <2>1. Published'
    BY <1>2, <1>o, SameKey, ZenonT(30) DEF Append
  <2> SUFFICES PutOK(p)'
    BY <2>1, Zenon
  <2>2. /\ pcP[p] = "append" /\ w < total(p) /\ UNCHANGED published
        /\ written' = [written EXCEPT ![p] = w + chunk(p, w)]
    BY <1>2, ZenonT(30) DEF Append
  <2>3. chunk(p, w) \in Nat /\ chunk(p, w) > 0
    BY <1>w, <2>2, ChunkRange, Zenon
  <2>4. /\ once \in Values /\ once # NoValue
        /\ tmp[p] = NoValue => once.by = p /\ once.len = chunk(p, w)
        /\ tmp[p] # NoValue => /\ once.by = tmp[p].by /\ once.len = tmp[p].len + chunk(p, w)
                               /\ once.ttl = tmp[p].ttl
                               /\ tmp[p].clean /\ tmp[p].len = w => once.clean
    BY <1>t, <1>w, AppendedValue
  <2>5. /\ twice \in Values /\ twice # NoValue
        /\ twice.by = once.by /\ twice.len = once.len + chunk(p, w)
    BY <1>w, <2>4, AppendedMore, ZenonT(30)
  <2> HIDE DEF once, twice
  <2>6. tmp'[p] # NoValue => tmp'[p].by = p
    <3>1. once.by = p /\ twice.by = p
      BY <2>4, <2>5, ZenonT(30) DEF PutOK
    <3>2. tmp' \in {tmp, [tmp EXCEPT ![p] = once], [tmp EXCEPT ![p] = twice]}
      BY <1>2, Zenon DEF Append, once, twice
    <3> QED  BY <1>t, <3>1, <3>2, Zenon DEF PutOK
  <2>7. CASE p \in spoiled'
    BY <2>6, <2>7, Zenon DEF PutOK
  <2>8. CASE p \notin spoiled'
    <3>1. p \notin spoiled /\ Sound(p) /\ late[p] = {} /\ good(p, w) /\ p \notin published
      BY <1>o, <2>2, <2>8, ZenonT(30) DEF PutOK, Sound
    <3>2. CASE late' = late /\ tmp' = [tmp EXCEPT ![p] = once]
               /\ pcP' = [pcP EXCEPT ![p] = checked(p, once.len)]
      <4>1. CASE tmp[p] = NoValue
        <5>1. checked(p, once.len) = "clean"
          BY <1>w, <2>3, <2>4, <4>1, LengthsAssumption DEF checked
        <5> QED  BY <1>t, <2>2, <2>6, <3>1, <3>2, <5>1, Aborted, Zenon
      <4>2. CASE tmp[p] # NoValue
        <5>1. /\ once.len = w + chunk(p, w) /\ once.clean /\ once.ttl # "none"
          BY <2>4, <3>1, <4>2, ZenonT(30) DEF good
        <5>2. checked(p, once.len) = "append"
          BY <5>1, Zenon DEF checked
        <5>3. pcP'[p] = "append" /\ tmp'[p] = once /\ late'[p] = {} /\ written'[p] = w + chunk(p, w)
          BY <1>t, <2>2, <3>1, <3>2, <5>2, Zenon
        <5> QED  BY <2>2, <2>6, <3>1, <5>1, <5>3, ZenonT(30) DEF PutOK, Sound, good
      <4> QED  BY <4>1, <4>2, Zenon
    <3>3. CASE late' = late /\ tmp[p] # NoValue /\ pcP' = [pcP EXCEPT ![p] = checked(p, twice.len)]
      <4>1. tmp[p].len = w
        BY <3>1, <3>3, Zenon DEF good
      <4>2. checked(p, twice.len) = "clean"
        <5>1. twice.len = w + chunk(p, w) + chunk(p, w)
          BY <2>4, <2>5, <3>3, <4>1, ZenonT(30)
        <5>2. w + chunk(p, w) + chunk(p, w) # w + chunk(p, w)
          BY <1>w, <2>3, TwiceIsMore, Zenon
        <5> QED  BY <5>1, <5>2, Zenon DEF checked
      <4> QED  BY <1>t, <2>2, <2>6, <3>1, <3>3, <4>2, Aborted, ZenonT(30)
    <3>4. CASE giveUp(p, <<"APPEND", w>>) /\ pcP' = [pcP EXCEPT ![p] = "clean"]
      <4>1. \A c \in late'[p] : ~isRename(c)
        BY <1>t, <3>1, <3>4 DEF giveUp, delay, isRename
      <4> QED  BY <1>t, <2>2, <2>6, <3>1, <3>4, <4>1, Aborted, ZenonT(30)
    <3> QED  BY <1>2, <2>8, <3>2, <3>3, <3>4, ZenonT(30) DEF Append, overtaken, once, twice
  <2> QED  BY <2>1, <2>7, <2>8, Zenon
<1>3. CASE EndOfBody(p)
  <2>1. Published'
    BY <1>3, <1>o, SameKey, Zenon DEF EndOfBody
  <2> SUFFICES PutOK(p)'
    BY <2>1, Zenon
  <2>2. CASE p \in spoiled'
    BY <1>3, <2>2, Zenon DEF EndOfBody, PutOK
  <2>3. CASE p \notin spoiled'
    BY <1>3, <1>t, <1>o, <2>3, ZenonT(30) DEF EndOfBody, PutOK, Sound, good, total
  <2> QED  BY <2>1, <2>2, <2>3, Zenon
<1>4. CASE ReadError(p) \/ Crash(p)
  <2>1. Published'
    BY <1>4, <1>o, SameKey, Zenon DEF ReadError, Crash
  <2> SUFFICES PutOK(p)'
    BY <2>1, Zenon
  <2>2. UNCHANGED <<tmp, late, published, spoiled>> /\ pcP[p] # "done" /\ pcP'[p] = "done"
    BY <1>4, <1>t, Zenon DEF ReadError, Crash
  <2>3. CASE p \in spoiled
    BY <2>2, <2>3, Zenon DEF PutOK
  <2>4. CASE p \notin spoiled
    BY <2>2, <2>4, Aborted, ZenonT(30) DEF PutOK, Sound
  <2> QED  BY <2>1, <2>3, <2>4, Zenon
<1>5. CASE Clean(p)
  <2>1. Published'
    BY <1>5, <1>o, SameKey, Zenon DEF Clean
  <2> SUFFICES PutOK(p)'
    BY <2>1, Zenon
  <2>2. /\ UNCHANGED <<late, published, spoiled>> /\ pcP[p] = "clean" /\ pcP'[p] = "done"
        /\ tmp'[p] # NoValue => tmp'[p].by = p
    BY <1>5, <1>t, Zenon DEF Clean, PutOK
  <2>3. CASE p \in spoiled
    BY <2>2, <2>3, ZenonT(30) DEF PutOK
  <2>4. CASE p \notin spoiled
    BY <2>2, <2>4, Aborted, ZenonT(30) DEF PutOK, Sound
  <2> QED  BY <2>1, <2>3, <2>4, Zenon
<1>6. CASE Rename(p)
  <2>1. /\ pcP[p] = "rename" /\ pcP'[p] = "done" /\ UNCHANGED <<written, spoiled>>
        /\ giveUp(p, <<"RENAME", 0>>)
    BY <1>6, <1>t, Zenon DEF Rename
  <2>2. p \in spoiled \/ (Sound(p) /\ good(p, total(p)) /\ late[p] = {} /\ p \notin published)
    BY <2>1, ZenonT(30) DEF PutOK, Sound
  <2>3. late[p] = {} => \A c \in late'[p] : isRename(c)
    BY <1>t, <2>1 DEF giveUp, delay, isRename
  <2>4. CASE rename(p)
    <3>1. Published'
      BY <1>o, <2>1, <2>2, <2>4, RenamePublishes, Zenon
    <3>2. tmp'[p] = NoValue
      BY <1>t, <2>4, Zenon DEF rename
    <3>3. PutOK(p)'
      BY <2>1, <2>2, <2>3, <3>2, ZenonT(30) DEF PutOK, Sound, good, isRename
    <3> QED  BY <3>1, <3>3, Zenon
  <2>5. CASE UNCHANGED <<key, tmp, published, replaced>>
    <3>1. Published'
      BY <1>o, <2>5, SameKey, Zenon
    <3>2. PutOK(p)'
      BY <1>o, <2>1, <2>2, <2>3, <2>5, ZenonT(30) DEF PutOK, Sound, good, isRename
    <3> QED  BY <3>1, <3>2, Zenon
  <2> QED  BY <1>6, <2>4, <2>5, Zenon DEF Rename
<1>7. CASE Late(p)
  <2>1. PICK c \in late[p] :
          /\ late' = [late EXCEPT ![p] = @ \ {c}]
          /\ \/ /\ c[1] = "SET"
                /\ tmp' = [tmp EXCEPT ![p] = metadata(p)]
                /\ UNCHANGED <<key, published, replaced>>
             \/ /\ c[1] = "APPEND"
                /\ tmp' = [tmp EXCEPT ![p] = appended(@, p, c[2])]
                /\ UNCHANGED <<key, published, replaced>>
             \/ c[1] = "RENAME" /\ rename(p)
    BY <1>7, ZenonT(30) DEF Late
  <2>2. UNCHANGED <<pcP, written, spoiled>> /\ late'[p] \subseteq late[p] /\ late[p] # {}
    BY <1>7, <1>t, <2>1, Zenon DEF Late
  <2>3. CASE c[1] = "RENAME"
    <3>1. rename(p)
      BY <2>1, <2>3, Zenon
    <3>2. p \in spoiled \/ (/\ pcP[p] = "done" /\ good(p, total(p))
                            /\ \A d \in late[p] : isRename(d))
      BY <2>3, ZenonT(30) DEF PutOK, Sound, isRename
    <3>3. Published'
      BY <1>o, <2>2, <3>1, <3>2, RenamePublishes, Zenon
    <3>4. tmp'[p] = NoValue
      BY <1>t, <3>1, Zenon DEF rename
    <3> QED  BY <2>2, <3>2, <3>3, <3>4, ZenonT(30) DEF PutOK, Sound, good, isRename
  <2>4. CASE c[1] # "RENAME"
    <3>1. Published'
      BY <1>o, <2>1, <2>4, SameKey, Zenon
    <3>2. tmp'[p].by = p
      <4>1. CASE c[1] = "SET"
        BY <1>t, <2>1, <4>1, MetadataValue, Zenon
      <4>2. CASE c[1] = "APPEND"
        <5>1. c[2] \in Nat /\ c[2] <= total(p)
          <6>1. c \in Commands
            BY <1>t, Zenon
          <6>2. c[2] \in Nat
            BY <6>1, Zenon DEF Commands
          <6>3. c[2] <= total(p)
            BY <4>2, Zenon DEF Lengths
          <6> QED  BY <6>2, <6>3, Zenon
        <5>2. appended(tmp[p], p, c[2]).by = p
          BY <1>t, <5>1, AppendedValue DEF PutOK
        <5> QED  BY <1>t, <2>1, <4>2, <5>2, Zenon
      <4> QED  BY <2>1, <2>4, <4>1, <4>2, Zenon
    <3>3. CASE p \in spoiled
      BY <2>2, <3>1, <3>2, <3>3, ZenonT(30) DEF PutOK
    <3>4. CASE p \notin spoiled
      <4>1. /\ pcP[p] \in {"clean", "done"} /\ p \notin published
            /\ \A d \in late[p] : ~isRename(d)
        BY <1>t, <2>2, <2>4, <3>4, ZenonT(30) DEF PutOK, Sound, isRename
      <4> QED  BY <2>1, <2>2, <2>4, <3>1, <3>2, <4>1, Aborted, ZenonT(30)
    <3> QED  BY <3>3, <3>4, Zenon
  <2> QED  BY <2>3, <2>4, ZenonT(30)
<1>8. CASE AgeTmp(p)
  <2>1. Published'
    BY <1>8, <1>o, SameKey, Zenon DEF AgeTmp
  <2>2. /\ tmp[p] \in Values /\ tmp[p] # NoValue /\ tmp'[p] = older(tmp[p])
        /\ UNCHANGED <<pcP, written, late, published, spoiled>>
    BY <1>8, <1>t, Zenon DEF AgeTmp
  <2>3. tmp'[p] # NoValue => /\ tmp'[p].by = tmp[p].by /\ tmp'[p].len = tmp[p].len
                             /\ tmp'[p].clean = tmp[p].clean /\ tmp'[p].ttl = "short"
    BY <2>2, OlderValue, Zenon
  <2>4. \A n : good(p, n) => good(p, n)'
    BY <2>2, <2>3, Zenon DEF good
  <2> QED  BY <1>o, <2>1, <2>2, <2>3, <2>4, ZenonT(30) DEF PutOK, Sound
<1> QED
  BY <1>1, <1>2, <1>3, <1>4, <1>5, <1>6, <1>7, <1>8, Zenon DEF Put

----------------------------------------------------------------------------
(* The Gets.                                                               *)

\* The steps of the Puts leave the Gets alone; a Get notices them by the key,
\* which changes only by a RENAME that it is told of.
LEMMA GetDuringPut ==
  ASSUME RedisTypeOK, NEW g \in Gets, GetOK(g), HonestRead,
         NEW p \in Puts, Put(p) \/ Late(p) \/ AgeTmp(p)
  PROVE  GetOK(g)' /\ HonestRead'
<1>1. /\ UNCHANGED <<pcG, first, expected, off, from>>
      /\ UNCHANGED <<key, replaced>> \/ rename(p)
  BY ZenonT(30) DEF Put, Set, Append, EndOfBody, ReadError, Clean, Rename, Crash, Late, AgeTmp, gets
<1>2. size' = size /\ spoiled \subseteq spoiled'
  BY OtherPuts, ZenonT(30)
<1>3. \/ UNCHANGED <<key, replaced>>
      \/ replaced' = replaced \cup {h \in Gets : pcG[h] \in {"ttl", "range"}}
  BY <1>1, Zenon DEF rename
<1>4. \A q \in Puts : total(q)' = total(q)
  BY <1>2, Zenon DEF total
<1>5. HonestRead'
  BY <1>1, <1>2, <1>3, Zenon DEF HonestRead
<1>6. first[g] # NoValue => first[g].by \in Puts
  BY Zenon DEF RedisTypeOK, Contents
<1>7. GetOK(g)'
  BY <1>1, <1>2, <1>3, <1>4, <1>6, Zenon DEF GetOK
<1> QED  BY <1>5, <1>7, Zenon

\* The steps of g itself.
LEMMA GetStep ==
  ASSUME IInv, NEW g \in Gets, Get(g) \/ Ttl(g) \/ Read(g) \/ ReadFails(g)
  PROVE  (\A h \in Gets : GetOK(h)') /\ HonestRead'
<1>t. /\ key \in Values \cup {NoValue}
      /\ pcG \in [Gets -> {"get", "ttl", "range", "done", "miss", "broken"}]
      /\ first \in [Gets -> Contents \cup {NoValue}]
      /\ expected \in [Gets -> Nat] /\ off \in [Gets -> Nat] /\ from \in [Gets -> SUBSET Puts]
  BY Zenon DEF IInv, RedisTypeOK
<1>i. (\A h \in Gets : GetOK(h)) /\ HonestRead /\ Published
  BY Zenon DEF IInv
<1>u. UNCHANGED <<key, size, spoiled, replaced>>
  BY Zenon DEF Get, Ttl, Read, ReadFails, puts
<1>s. \A q \in Puts : total(q)' = total(q)
  BY <1>u, Zenon DEF total
<1>h. \A h \in Gets \ {g} : /\ pcG'[h] = pcG[h] /\ first'[h] = first[h] /\ expected'[h] = expected[h]
                            /\ off'[h] = off[h] /\ from'[h] = from[h]
  BY <1>t DEF Get, Ttl, Read, ReadFails, endOfValue, failed, endG
<1>b. \A h \in Gets : first[h] # NoValue => first[h].by \in Puts
  BY <1>t, Zenon DEF Contents
\* Where the ending of g itself is honest, and g stays known, all is well.
<1> DEFINE Honest(h) == pcG[h] = "done" =>
             \/ first[h].by \in spoiled
             \/ off[h] = size[first[h].by] /\ (from[h] \subseteq {first[h].by} \/ h \in replaced)
<1>o. \A h \in Gets \ {g} : GetOK(h)' /\ Honest(h)'
  <2> SUFFICES ASSUME NEW h \in Gets \ {g}  PROVE GetOK(h)' /\ Honest(h)'
    OBVIOUS
  <2>1. GetOK(h) /\ Honest(h)
    BY <1>i, Zenon DEF HonestRead
  <2>2. /\ pcG'[h] = pcG[h] /\ first'[h] = first[h] /\ expected'[h] = expected[h]
        /\ off'[h] = off[h] /\ from'[h] = from[h]
    BY <1>h, Zenon
  <2>3. GetOK(h)'
    BY <1>u, <1>s, <1>b, <2>1, <2>2, ZenonT(30) DEF GetOK
  <2>4. Honest(h)'
    BY <1>u, <2>1, <2>2, Zenon
  <2> QED  BY <2>3, <2>4, Zenon
<1> SUFFICES GetOK(g)' /\ Honest(g)'
  BY <1>o, ZenonT(30) DEF HonestRead
\* A Get that ends without a response owes nothing.
<1>m. ASSUME pcG'[g] \in {"miss", "broken"}, first'[g] = first[g]
      PROVE  GetOK(g)' /\ Honest(g)'
  <2>1. first[g] # NoValue =>
          first[g].by \in spoiled \/ (first[g].clean /\ first[g].len = total(first[g].by))
    BY <1>i, ZenonT(30) DEF GetOK
  <2>2. (first[g] # NoValue =>
           first[g].by \in spoiled \/ (first[g].clean /\ first[g].len = total(first[g].by)))'
    <3>1. first[g] # NoValue => total(first[g].by)' = total(first[g].by)
      BY <1>s, <1>b, <1>m, Zenon
    <3> QED  BY <1>u, <1>m, <2>1, <3>1, Zenon
  <2>3. pcG'[g] \notin {"get", "ttl", "range", "done"}
    BY <1>m
  <2>4. GetOK(g)'
    BY <2>2, <2>3 DEF GetOK
  <2>5. Honest(g)'
    BY <2>3
  <2> QED  BY <2>4, <2>5, Zenon
<1>1. CASE Get(g)
  <2>1. CASE pcG'[g] = "miss" /\ UNCHANGED <<first, from>>
    BY <1>m, <2>1, Zenon
  <2>2. CASE /\ key # NoValue /\ pcG'[g] = "ttl" /\ UNCHANGED from /\ pcG[g] = "get"
             /\ first'[g] = [by |-> key.by, len |-> key.len, clean |-> key.clean]
    <3>0. key \in Values
      BY <1>t, <2>2, Zenon
    <3>1. /\ first'[g].by = key.by /\ first'[g].len = key.len /\ first'[g].clean = key.clean
          /\ first'[g] # NoValue /\ key.by \in Puts
      BY <2>2, <3>0, ContentsOfValue, Zenon
    <3>3. key.by \in spoiled \/ (key.clean /\ key.len = total(key.by))
      BY <1>i, <2>2, ZenonT(30) DEF Published, whole
    <3> QED  BY <1>i, <1>u, <1>s, <2>2, <3>1, <3>3, ZenonT(30) DEF GetOK
  <2> QED  BY <1>1, <1>t, <2>1, <2>2, Zenon DEF Get, endG
<1>2. CASE Ttl(g)
  <2>0. first[g] # NoValue /\ first[g] \in Contents /\ first'[g] = first[g] /\ pcG[g] = "ttl"
    BY <1>2, <1>i, <1>t, ZenonT(30) DEF Ttl, GetOK
  <2>1. CASE pcG'[g] = "miss" /\ UNCHANGED <<from>>
    BY <1>m, <2>0, <2>1, Zenon
  <2>2. ASSUME NEW n \in decodeMetadata(first[g]), expected'[g] = n,
               \/ /\ off'[g] = first[g].len - Meta /\ from'[g] = {first[g].by}
                  /\ pcG'[g] = "done"
               \/ pcG'[g] = "range" /\ UNCHANGED <<off, from>>
        PROVE  GetOK(g)' /\ Honest(g)'
    <3>1. first[g].by \in Puts /\ size[first[g].by] \in Nat
      BY <2>0, LengthsAssumption, ZenonT(30) DEF Contents, IInv, RedisTypeOK
    <3>2. CASE first[g].by \in spoiled
      BY <1>i, <1>u, <1>s, <2>0, <2>2, <3>2, ZenonT(30) DEF GetOK
    <3>3. CASE first[g].by \notin spoiled
      <4>1. first[g].clean /\ first[g].len = total(first[g].by) /\ n = size[first[g].by]
        BY <1>i, <2>0, <2>2, <3>3, Zenon DEF GetOK, decodeMetadata
      <4>2. first[g].len - Meta = size[first[g].by]
        BY <3>1, <4>1, LengthsAssumption DEF total
      <4> QED  BY <1>i, <1>u, <1>s, <2>0, <2>2, <3>1, <3>3, <4>1, <4>2, ZenonT(30) DEF GetOK
    <3> QED  BY <3>2, <3>3, ZenonT(30)
  <2>3. CASE endG(g, "miss") /\ UNCHANGED <<expected, off, from, mode>>
    BY <1>t, <2>1, <2>3, Zenon DEF endG
  <2>4. ASSUME NEW n \in decodeMetadata(first[g]),
               expected' = [expected EXCEPT ![g] = n],
               \/ /\ off' = [off EXCEPT ![g] = first[g].len - Meta]
                  /\ from' = [from EXCEPT ![g] = {first[g].by}]
                  /\ endG(g, "done")
               \/ endG(g, "range") /\ UNCHANGED <<off, from>>
        PROVE  GetOK(g)' /\ Honest(g)'
    <3>1. expected'[g] = n
      BY <1>t, <2>4, Zenon
    <3>2. CASE /\ off' = [off EXCEPT ![g] = first[g].len - Meta]
               /\ from' = [from EXCEPT ![g] = {first[g].by}]
               /\ endG(g, "done")
      <4>1. off'[g] = first[g].len - Meta /\ from'[g] = {first[g].by} /\ pcG'[g] = "done"
        BY <1>t, <3>2, Zenon DEF endG
      <4> QED  BY <2>2, <3>1, <4>1, Zenon
    <3>3. CASE endG(g, "range") /\ UNCHANGED <<off, from>>
      <4>1. pcG'[g] = "range"
        BY <1>t, <3>3, Zenon DEF endG
      <4> QED  BY <2>2, <3>1, <3>3, <4>1, Zenon
    <3> QED  BY <2>4, <3>2, <3>3, Zenon
  <2> QED  BY <1>2, <2>3, <2>4, Zenon DEF Ttl
<1>3. CASE Read(g)
  <2>0. /\ first[g] # NoValue /\ first' = first /\ expected' = expected /\ pcG[g] = "range"
        /\ off'[g] = off[g] + fetched(g)
        /\ from'[g] = IF fetched(g) = 0 THEN from[g] ELSE from[g] \cup {key.by}
    BY <1>3, <1>i, <1>t, ZenonT(30) DEF Read, GetOK
  <2>1. from'[g] \subseteq {first[g].by} \/ g \in replaced
    <3>1. fetched(g) # 0 => key # NoValue
      BY ZenonT(30) DEF fetched
    <3> QED  BY <1>i, <2>0, <3>1, ZenonT(30) DEF GetOK
  <2>2. pcG'[g] = "done" => off'[g] = expected[g]
    BY <1>3, <1>t, <2>0, Zenon DEF Read, endOfValue, failed, endG
  <2>3. pcG'[g] \in {"range", "done", "miss", "broken"}
    BY <1>3, <1>t, <2>0, Zenon DEF Read, endOfValue, failed, endG
  <2> QED  BY <1>i, <1>u, <1>s, <1>b, <2>0, <2>1, <2>2, <2>3, ZenonT(30) DEF GetOK
<1>4. CASE ReadFails(g)
  <2>1. pcG'[g] \in {"miss", "broken"} /\ UNCHANGED <<first, from>>
    BY <1>4, <1>t, Zenon DEF ReadFails, failed, endG
  <2> QED  BY <1>m, <2>1, Zenon
<1> QED  BY <1>1, <1>2, <1>3, <1>4, Zenon

\* Time takes nothing from the Gets and the key but the value.
LEMMA KeyAges ==
  ASSUME IInv, AgeKey
  PROVE  Published' /\ HonestRead' /\ (\A g \in Gets : GetOK(g)')
<1>1. /\ UNCHANGED <<size, spoiled, replaced, pcG, first, expected, off, from>>
      /\ key \in Values /\ key' = older(key)
  BY Zenon DEF AgeKey, puts, gets, IInv, RedisTypeOK
<1>2. key' # NoValue => /\ key'.by = key.by /\ key'.len = key.len
                        /\ key'.clean = key.clean /\ key'.ttl = "short"
  BY <1>1, OlderValue, Zenon
<1>3. key # NoValue /\ Published /\ HonestRead /\ \A g \in Gets : GetOK(g)
  BY Zenon DEF AgeKey, IInv
<1>4. \A q \in Puts : total(q)' = total(q)
  BY <1>1, Zenon DEF total
<1>5. key.by \in Puts
  BY <1>1, Zenon DEF Values
<1>6. Published'
  BY <1>1, <1>2, <1>3, <1>4, <1>5, Zenon DEF Published, whole
<1>7. HonestRead'
  BY <1>1, <1>3, Zenon DEF HonestRead
<1>8. ASSUME NEW g \in Gets  PROVE GetOK(g)'
  <2>1. first[g] # NoValue => first[g].by \in Puts
    BY ZenonT(30) DEF IInv, RedisTypeOK, Contents
  <2> QED  BY <1>1, <1>2, <1>3, <1>4, <2>1, Zenon DEF GetOK
<1> QED  BY <1>6, <1>7, <1>8, Zenon

----------------------------------------------------------------------------
(* The invariant.                                                          *)

\* It holds at the start.
LEMMA InvInit == Init => IInv
<1> SUFFICES ASSUME Init  PROVE IInv
  OBVIOUS
<1>1. RedisTypeOK
  BY LengthsAssumption, Zenon DEF Init, RedisTypeOK
<1>2. Lengths
  <2>1. \A p \in Puts : size[p] \in Nat
    BY <1>1, LengthsAssumption, ZenonT(30) DEF RedisTypeOK
  <2>2. \A p \in Puts : written[p] = Meta /\ late[p] = {} /\ tmp[p] = NoValue
    BY Zenon DEF Init
  <2>3. \A p \in Puts : Meta <= written[p] /\ written[p] <= total(p)
    BY <2>1, <2>2, LengthsAssumption DEF total
  <2>4. key = NoValue /\ \A g \in Gets : first[g] = NoValue
    BY Zenon DEF Init
  <2> QED  BY <2>2, <2>3, <2>4, Zenon DEF Lengths, LengthOK
<1>3. \A p \in Puts : PutOK(p)
  BY Zenon DEF Init, PutOK, Sound
<1>4. Published /\ HonestRead
  BY Zenon DEF Init, Published, HonestRead
<1>5. \A g \in Gets : GetOK(g)
  BY Zenon DEF Init, GetOK
<1> QED  BY <1>1, <1>2, <1>3, <1>4, <1>5, Zenon DEF IInv

\* Every step keeps it.
LEMMA InvStep == IInv /\ [Next]_vars => IInv'
<1> SUFFICES ASSUME IInv, [Next]_vars  PROVE IInv'
  OBVIOUS
<1>i. /\ RedisTypeOK /\ Lengths /\ Published /\ HonestRead
      /\ \A p \in Puts : PutOK(p)
      /\ \A g \in Gets : GetOK(g)
  BY Zenon DEF IInv
<1>1. ASSUME NEW p \in Puts, Put(p) \/ Late(p) \/ AgeTmp(p)  PROVE IInv'
  <2>1. RedisTypeOK' /\ Lengths'
    BY <1>1, <1>i, PutTypes, Zenon
  <2>2. PutOK(p)' /\ Published'
    BY <1>1, <1>i, PutStep, Zenon
  <2>3. ASSUME NEW q \in Puts \ {p}  PROVE PutOK(q)'
    BY <1>1, <1>i, OtherPuts, SamePut, Zenon
  <2>4. (\A g \in Gets : GetOK(g)') /\ HonestRead'
    <3>1. CASE Gets = {}
      BY <3>1, Zenon DEF HonestRead
    <3>2. CASE Gets # {}
      BY <1>1, <1>i, <3>2, GetDuringPut, Zenon
    <3> QED  BY <3>1, <3>2, Zenon
  <2> QED  BY <2>1, <2>2, <2>3, <2>4, Zenon DEF IInv
<1>2. ASSUME AgeKey \/ \E g \in Gets : Get(g) \/ Ttl(g) \/ Read(g) \/ ReadFails(g)
      PROVE  IInv'
  <2>1. RedisTypeOK' /\ Lengths'
    BY <1>2, <1>i, GetTypes, Zenon
  <2>2. UNCHANGED puts
    BY <1>2, Zenon DEF AgeKey, Get, Ttl, Read, ReadFails
  <2>3. ASSUME NEW q \in Puts  PROVE PutOK(q)'
    BY <1>i, <2>2, SamePut, Zenon DEF puts
  <2>4. CASE AgeKey
    BY <2>1, <2>3, <2>4, KeyAges, Zenon DEF IInv
  <2>5. ASSUME NEW g \in Gets, Get(g) \/ Ttl(g) \/ Read(g) \/ ReadFails(g)
        PROVE  IInv'
    <3>1. key' = key
      BY <2>5, Zenon DEF Get, Ttl, Read, ReadFails
    <3>2. Published'
      BY <1>i, <2>2, <3>1, SameKey, Zenon DEF puts
    <3>3. (\A h \in Gets : GetOK(h)') /\ HonestRead'
      BY <2>5, GetStep, Zenon
    <3> QED  BY <2>1, <2>3, <3>2, <3>3, Zenon DEF IInv
  <2> QED  BY <1>2, <2>4, <2>5, Zenon
<1>3. CASE UNCHANGED vars
  BY <1>3, ZenonT(30) DEF vars, IInv, RedisTypeOK, Lengths, LengthOK, PutOK, Sound, good, isRename, total,
              Published, whole, GetOK, HonestRead
<1> QED  BY <1>1, <1>2, <1>3, Zenon DEF Next

\* The invariant holds of every state.
LEMMA Invariant == Spec => []IInv
BY InvInit, InvStep, PTL DEF Spec

\* Every variable keeps its type; in particular the reader never gets a negative
\* offset or length, whatever happens to the value under it.
THEOREM RedisTypeCorrect == Spec => []RedisTypeOK
<1>1. IInv => RedisTypeOK
  BY Zenon DEF IInv
<1> QED  BY <1>1, Invariant, PTL

\* What Put makes visible at the key is a whole response that will expire, unless
\* the Put was spoiled: for all sizes of payload and buffer, with any number of
\* Puts on the same key and any number of commands on their way.
THEOREM PublishedHolds == Spec => []Published
<1>1. IInv => Published
  BY Zenon DEF IInv
<1> QED  BY <1>1, Invariant, PTL

\* A Get that ends without an error has read the length of its response, from
\* that response alone unless the key was renamed over.
THEOREM HonestReadHolds == Spec => []HonestRead
<1>1. IInv => HonestRead
  BY Zenon DEF IInv
<1> QED  BY <1>1, Invariant, PTL

----------------------------------------------------------------------------
(* The refinement.                                                         *)

\* A RENAME with a value is the abstract publication.
LEMMA RenameIsPublish ==
  ASSUME RedisTypeOK, NEW p \in Puts, PutOK(p), rename(p), tmp[p] # NoValue,
         size' = size, spoiled' = spoiled, p \in spoiled \/ good(p, total(p))
  PROVE  Store!Publish(p)
<1>1. p \in published => p \in spoiled
  BY Zenon DEF PutOK, Sound
<1>2. key' = tmp[p] /\ tmp[p].by = p /\ published' = published \cup {p}
  BY Zenon DEF rename, PutOK
<1>3. whole(key)' <=> (tmp[p].clean /\ tmp[p].len = total(p) /\ tmp[p].ttl # "none")
  BY <1>2, Zenon DEF whole, total
<1>4. p \notin spoiled => whole(key)'
  BY <1>3, Zenon DEF good
<1>5. val' = IF whole(key)' THEN p ELSE Torn
  BY <1>2, Zenon DEF val
<1> QED  BY <1>1, <1>2, <1>4, <1>5, Zenon DEF Store!Publish

\* A step that leaves the key alone is a stutter, or spoils a Put.
LEMMA KeyKept ==
  ASSUME NEW p \in Puts, key' = key, size' = size, published' = published,
         spoiled' \in {spoiled, spoiled \cup {p}}
  PROVE  Store!Spoil(p) \/ UNCHANGED <<val, published, spoiled>>
BY Zenon DEF Store!Spoil, val, whole, total

\* Put implements the atomic store.
THEOREM AtomicRefined == Spec => Atomic
<1>1. Init => Store!Init
  BY Zenon DEF Init, Store!Init, val
<1>2. ASSUME IInv, [Next]_vars  PROVE [Store!Next]_<<val, published, spoiled>>
  <2>1. ASSUME NEW p \in Puts, Put(p) \/ Late(p) \/ AgeTmp(p)
        PROVE  [Store!Next]_<<val, published, spoiled>>
    <3>1. RedisTypeOK /\ PutOK(p)
      BY <1>2, Zenon DEF IInv
    <3>2. size' = size /\ spoiled' \in {spoiled, spoiled \cup {p}}
      BY <2>1, <3>1, OtherPuts, Zenon
    <3>3. CASE UNCHANGED <<key, published>>
      BY <3>2, <3>3, KeyKept, Zenon DEF Store!Next
    <3>4. CASE ~UNCHANGED <<key, published>>
      <4>1. Rename(p) \/ Late(p)
        BY <2>1, <3>4, Zenon DEF Put, Set, Append, EndOfBody, ReadError, Clean, Crash, AgeTmp
      <4>2. rename(p) /\ spoiled' = spoiled
        BY <3>4, <4>1, Zenon DEF Rename, Late
      <4>3. tmp[p] # NoValue
        BY <3>4, <4>2, Zenon DEF rename
      <4>4. p \in spoiled \/ good(p, total(p))
        <5>1. CASE Rename(p)
          BY <3>1, <5>1, Zenon DEF Rename, PutOK, Sound
        <5>2. CASE Late(p)
          BY <3>1, <3>4, <5>2, ZenonT(30) DEF Late, PutOK, Sound, isRename
        <5> QED  BY <4>1, <5>1, <5>2, Zenon
      <4> QED  BY <3>1, <3>2, <4>2, <4>3, <4>4, RenameIsPublish, Zenon DEF Store!Next
    <3> QED  BY <3>3, <3>4, Zenon
  <2>2. CASE AgeKey
    <3>1. /\ UNCHANGED <<size, published, spoiled>> /\ key \in Values
          /\ key.ttl # "none" /\ key' = older(key) /\ key # NoValue
      BY <1>2, <2>2, Zenon DEF AgeKey, puts, IInv, RedisTypeOK
    <3>2. CASE key' = NoValue
      BY <3>1, <3>2, Zenon DEF val, Store!Next, Store!Expire
    <3>3. CASE key' # NoValue
      <4>1. /\ key'.by = key.by /\ key'.len = key.len
            /\ key'.clean = key.clean /\ key'.ttl = "short"
        BY <3>1, <3>3, OlderValue, Zenon
      <4>2. whole(key)' <=> whole(key)
        BY <3>1, <4>1, Zenon DEF whole, total
      <4> QED  BY <3>1, <3>3, <4>1, <4>2, Zenon DEF val
    <3> QED  BY <3>2, <3>3, Zenon
  <2>3. CASE \E g \in Gets : Get(g) \/ Ttl(g) \/ Read(g) \/ ReadFails(g)
    <3>1. UNCHANGED <<key, puts>>
      BY <2>3, Zenon DEF Get, Ttl, Read, ReadFails
    <3> QED  BY <3>1, Zenon DEF puts, val, whole, total
  <2>4. CASE UNCHANGED vars
    BY <2>4, Zenon DEF vars, val, whole, total
  <2> QED  BY <1>2, <2>1, <2>2, <2>3, <2>4, Zenon DEF Next
<1> QED  BY <1>1, <1>2, Invariant, PTL DEF Spec, Atomic, Store!Spec
=============================================================================
