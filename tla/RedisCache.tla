----------------------------- MODULE RedisCache ----------------------------
(***************************************************************************)
(* Redis as the store of responses (cache/redis_cache.go), for one key.    *)
(* Put streams a response into a temporary key of its own and renames it;  *)
(* Get fetches a short response at once and streams a long one range by    *)
(* range.  Every command is one action; the Puts and Gets may be those of  *)
(* several chproxy processes.                                              *)
(*                                                                         *)
(* A stored value is abstracted to the Put that wrote it, its length, its  *)
(* time to live and whether its bytes are the beginning of that Put's      *)
(* encoded response.  The client retries a command whose answer is late    *)
(* (MaxRetries, clients/redis.go): a command may be executed twice, and    *)
(* redis may execute one long after the client has given it up.            *)
(*                                                                         *)
(*   Puts, Gets   the calls of Put and of Get                              *)
(*   Sizes        possible lengths of a payload                            *)
(*   Meta         length of the encoded metadata                           *)
(*   Chunk        length of the buffer of Put (2 MB)                       *)
(*   Bulk         initial length of the buffer of the reader (2 MB)        *)
(*   Inline       nbBytesToFetch (100 KB)                                  *)
(*   MaxLate      bound on the commands on their way at a time             *)
(*   NoValue      the key does not exist                                   *)
(*   Torn         the value of a spoiled Put, in the abstract store        *)
(* Operators whose comment starts with "Fault:" are faulty variants of the *)
(* operator below them.                                                    *)
(***************************************************************************)
EXTENDS Integers, FiniteSets

CONSTANTS Puts, Gets, Sizes, Meta, Chunk, Bulk, Inline, MaxLate, NoValue, Torn

ASSUME LengthsAssumption == /\ Sizes \subseteq Nat
                            /\ Meta \in Nat \ {0} /\ Chunk \in Nat \ {0}
                            /\ Bulk \in Nat \ {0} /\ Inline \in Nat

Values == [by : Puts, len : Nat, clean : BOOLEAN, ttl : {"long", "short", "none"}]
\* What a GETRANGE shows of a value.
Contents == [by : Puts, len : Nat, clean : BOOLEAN]
Commands == {"SET", "APPEND", "RENAME"} \X Nat

ASSUME NoValueAssumption == NoValue \notin Values \cup Contents

VARIABLES
  size,       \* put -> length of its payload, contentMetadata.Length
  key,        \* the value at the key
  tmp,        \* put -> the value at its temporary key
  pcP,        \* put -> next command
  written,    \* put -> totalByteWrittenExpected
  late,       \* put -> commands given up or repeated, still on their way
  pcG,        \* get -> next command, or how it ended
  first,      \* get -> the value that the first GETRANGE found
  expected,   \* get -> expectedPayloadSize
  mode,       \* get -> the payload is streamed, or copied to a file first
  off, buf,   \* get -> redisOffset without the metadata, and len(buffer)
  published,  \* history: Puts whose response has been at the key
  spoiled,    \* history: Puts with a fault that Put does not notice
  from,       \* history: get -> Puts whose bytes it has
  replaced    \* history: get -> the key was renamed over since its first step

puts == <<size, tmp, pcP, written, late, published, spoiled>>
gets == <<pcG, first, expected, mode, off, buf, from>>
vars == <<size, key, tmp, pcP, written, late, pcG, first, expected, mode, off, buf,
          published, spoiled, from, replaced>>

RedisTypeOK ==
  /\ size \in [Puts -> Sizes]
  /\ key \in Values \cup {NoValue}
  /\ tmp \in [Puts -> Values \cup {NoValue}]
  /\ pcP \in [Puts -> {"set", "append", "clean", "rename", "done"}]
  /\ written \in [Puts -> Nat]
  /\ late \in [Puts -> SUBSET Commands]
  /\ pcG \in [Gets -> {"get", "ttl", "range", "done", "miss", "broken"}]
  /\ first \in [Gets -> Contents \cup {NoValue}]
  /\ expected \in [Gets -> Nat]
  /\ mode \in [Gets -> {"stream", "file"}]
  /\ off \in [Gets -> Nat] /\ buf \in [Gets -> Nat]
  /\ published \in SUBSET Puts /\ spoiled \in SUBSET Puts
  /\ from \in [Gets -> SUBSET Puts] /\ replaced \in SUBSET Gets

Init ==
  /\ size \in [Puts -> Sizes]
  /\ key = NoValue /\ tmp = [p \in Puts |-> NoValue]
  /\ pcP = [p \in Puts |-> "set"]
  /\ written = [p \in Puts |-> Meta]
  /\ late = [p \in Puts |-> {}]
  /\ pcG = [g \in Gets |-> "get"]
  /\ first = [g \in Gets |-> NoValue]
  /\ expected = [g \in Gets |-> 0]
  /\ mode = [g \in Gets |-> "stream"]
  /\ off = [g \in Gets |-> 0] /\ buf = [g \in Gets |-> Bulk]
  /\ published = {} /\ spoiled = {}
  /\ from = [g \in Gets |-> {}] /\ replaced = {}

----------------------------------------------------------------------------
(* The commands, as redis executes them.                                   *)

min(m, n) == IF m <= n THEN m ELSE n

total(p)    == Meta + size[p]
chunk(p, w) == min(Chunk, total(p) - w)

metadata(p) == [by |-> p, len |-> Meta, clean |-> TRUE, ttl |-> "long"]

\* APPEND of the chunk at position w; to a missing key it creates one without
\* a time to live.
appended(v, p, w) ==
  IF v = NoValue THEN [by |-> p, len |-> chunk(p, w), clean |-> FALSE, ttl |-> "none"]
  ELSE [v EXCEPT !.len = @ + chunk(p, w), !.clean = @ /\ v.len = w]

\* Fault: the value is copied, and its temporary key stays.
renameCopies(p) ==
  IF tmp[p] = NoValue THEN UNCHANGED <<key, tmp, published, replaced>>
  ELSE /\ key' = tmp[p]
       /\ UNCHANGED tmp
       /\ published' = published \cup {p}
       /\ replaced' = replaced \cup {g \in Gets : pcG[g] \in {"ttl", "range"}}

\* RENAME moves the value with its time to live, and fails without one.
rename(p) ==
  IF tmp[p] = NoValue THEN UNCHANGED <<key, tmp, published, replaced>>
  ELSE /\ key' = tmp[p]
       /\ tmp' = [tmp EXCEPT ![p] = NoValue]
       /\ published' = published \cup {p}
       /\ replaced' = replaced \cup {g \in Gets : pcG[g] \in {"ttl", "range"}}

\* Command c is still on its way when the client has stopped waiting for it.
delay(p, c) ==
  /\ Cardinality(UNION {{q} \X late[q] : q \in Puts}) < MaxLate
  /\ late' = [late EXCEPT ![p] = @ \cup {c}]

\* The client gives command c up, and redis may execute it later.
giveUp(p, c) == UNCHANGED late \/ delay(p, c)
\* It was repeated, and the first one is still on its way.
overtaken(p, c) == delay(p, c) /\ spoiled' = spoiled \cup {p}

----------------------------------------------------------------------------
(* Put.                                                                    *)

Set(p) ==
  /\ pcP[p] = "set"
  /\ \/ /\ tmp' = [tmp EXCEPT ![p] = metadata(p)]
        /\ pcP' = [pcP EXCEPT ![p] = "append"]
        /\ UNCHANGED <<late, spoiled>> \/ overtaken(p, <<"SET", 0>>)
     \/ /\ giveUp(p, <<"SET", 0>>)
        /\ pcP' = [pcP EXCEPT ![p] = "done"]
        /\ UNCHANGED <<tmp, spoiled>>
  /\ UNCHANGED <<size, key, written, published, replaced, gets>>

\* Fault: the length is not compared.
checkedNot(p, len) == "append"

\* The length that APPEND returned against totalByteWrittenExpected.
checked(p, len) == IF len = written[p] + chunk(p, written[p]) THEN "append" ELSE "clean"

\* The next chunk.  When the key has expired and the repeated chunk happens to
\* be as long as what is missing, Put cannot notice.
Append(p) ==
  LET w == written[p]
      once  == appended(tmp[p], p, w)
      twice == appended(once, p, w)
  IN
  /\ pcP[p] = "append" /\ w < total(p)
  /\ \/ /\ tmp' = [tmp EXCEPT ![p] = once]
        /\ pcP' = [pcP EXCEPT ![p] = checked(p, once.len)]
        /\ UNCHANGED <<late, spoiled>> \/ overtaken(p, <<"APPEND", w>>)
     \/ /\ tmp' = [tmp EXCEPT ![p] = twice]
        /\ pcP' = [pcP EXCEPT ![p] = checked(p, twice.len)]
        /\ spoiled' = IF tmp[p] = NoValue THEN spoiled \cup {p} ELSE spoiled
        /\ UNCHANGED late
     \/ /\ giveUp(p, <<"APPEND", w>>)
        /\ pcP' = [pcP EXCEPT ![p] = "clean"]
        /\ UNCHANGED <<tmp, spoiled>>
  /\ written' = [written EXCEPT ![p] = w + chunk(p, w)]
  /\ UNCHANGED <<size, key, published, replaced, gets>>

\* The reader has nothing more.  A read error without bytes ends the loop in the
\* same way: n == 0 is asked first, and the err at hand is ignored.
EndOfBody(p) ==
  /\ pcP[p] = "append"
  /\ \/ written[p] = total(p) /\ UNCHANGED spoiled
     \/ written[p] < total(p) /\ spoiled' = spoiled \cup {p}
  /\ pcP' = [pcP EXCEPT ![p] = "rename"]
  /\ UNCHANGED <<size, key, tmp, written, late, published, replaced, gets>>

\* An error with bytes ends Put, without a DEL.
ReadError(p) ==
  /\ pcP[p] = "append" /\ written[p] < total(p)
  /\ pcP' = [pcP EXCEPT ![p] = "done"]
  /\ UNCHANGED <<size, key, tmp, written, late, published, spoiled, replaced, gets>>

\* DEL of the temporary key, which may fail and is then only logged.
Clean(p) ==
  /\ pcP[p] = "clean"
  /\ tmp' \in {tmp, [tmp EXCEPT ![p] = NoValue]}
  /\ pcP' = [pcP EXCEPT ![p] = "done"]
  /\ UNCHANGED <<size, key, written, late, published, spoiled, replaced, gets>>

\* RENAME, whose result nobody looks at.
Rename(p) ==
  /\ pcP[p] = "rename"
  /\ \/ rename(p) /\ giveUp(p, <<"RENAME", 0>>)
     \/ giveUp(p, <<"RENAME", 0>>) /\ UNCHANGED <<key, tmp, published, replaced>>
  /\ pcP' = [pcP EXCEPT ![p] = "done"]
  /\ UNCHANGED <<size, written, spoiled, gets>>

\* The process dies between two commands.
Crash(p) ==
  /\ pcP[p] # "done"
  /\ pcP' = [pcP EXCEPT ![p] = "done"]
  /\ UNCHANGED <<size, key, tmp, written, late, published, spoiled, replaced, gets>>

\* Redis executes a command that was on its way.
Late(p) ==
  \E c \in late[p] :
    /\ late' = [late EXCEPT ![p] = @ \ {c}]
    /\ \/ /\ c[1] = "SET"
          /\ tmp' = [tmp EXCEPT ![p] = metadata(p)]
          /\ UNCHANGED <<key, published, replaced>>
       \/ /\ c[1] = "APPEND"
          /\ tmp' = [tmp EXCEPT ![p] = appended(@, p, c[2])]
          /\ UNCHANGED <<key, published, replaced>>
       \/ c[1] = "RENAME" /\ rename(p)
    /\ UNCHANGED <<size, pcP, written, spoiled, gets>>

----------------------------------------------------------------------------
(* Get and the streaming reader.                                           *)

endG(g, how) == pcG' = [pcG EXCEPT ![g] = how]

\* GETRANGE of the beginning; an error is a miss.
Get(g) ==
  /\ pcG[g] = "get"
  /\ \/ /\ key # NoValue
        /\ first' = [first EXCEPT ![g] = [by |-> key.by, len |-> key.len, clean |-> key.clean]]
        /\ endG(g, "ttl")
     \/ endG(g, "miss") /\ UNCHANGED first
  /\ UNCHANGED <<key, puts, expected, mode, off, buf, from, replaced>>

\* What decodeMetadata may find: in a torn value anything that fits.
decodeMetadata(v) == IF v.clean THEN {size[v.by]} ELSE {n \in Sizes : Meta <= v.len}

\* TTL is "short" up to minTTLForRedisStreamingReader, and negative for a missing
\* key or one that never expires.
ttlShort == key = NoValue \/ key.ttl # "long"

\* A response that the first range holds is served from memory; a longer one is
\* streamed, through a temporary file when it may expire soon.
Ttl(g) ==
  /\ pcG[g] = "ttl"
  /\ \/ \E n \in decodeMetadata(first[g]) :
          /\ expected' = [expected EXCEPT ![g] = n]
          /\ IF Meta + n < Inline
             THEN /\ off' = [off EXCEPT ![g] = first[g].len - Meta]
                  /\ from' = [from EXCEPT ![g] = {first[g].by}]
                  /\ endG(g, "done")
                  /\ UNCHANGED mode
             ELSE /\ mode' = [mode EXCEPT ![g] = IF ttlShort THEN "file" ELSE "stream"]
                  /\ endG(g, "range")
                  /\ UNCHANGED <<off, from>>
     \/ endG(g, "miss") /\ UNCHANGED <<expected, off, from, mode>>
  /\ UNCHANGED <<key, puts, first, buf, replaced>>

\* An error of the reader: Get fails while it copies to the file, a response
\* under way breaks off.
failed(g) == endG(g, IF mode[g] = "file" THEN "miss" ELSE "broken")

\* Fault: the end is taken for the end of the response.
endOfValueUnchecked(g, n) == endG(g, "done")

\* Case 3 of Read: the end of the value, or an expiry.
endOfValue(g, n) == IF n = expected[g] THEN endG(g, "done") ELSE failed(g)

\* The bytes that GETRANGE returns when one more than the buffer is asked for.
fetched(g) ==
  IF key = NoValue \/ key.len <= Meta + off[g] THEN 0
  ELSE min(buf[g] + 1, key.len - Meta - off[g])

\* Fault: the end is recognised by a full length only.
isRedisEOFAtExpected(g, n) == off[g] + n = expected[g]

\* Less than the buffer was returned.
isRedisEOF(g, n) == n < buf[g]

\* Read until the buffer is empty: the next range, its bytes to the client, and
\* the check at the end.
Read(g) ==
  /\ pcG[g] = "range"
  /\ off' = [off EXCEPT ![g] = @ + fetched(g)]
  /\ buf' = [buf EXCEPT ![g] = fetched(g)]
  /\ from' = [from EXCEPT ![g] = IF fetched(g) = 0 THEN @ ELSE @ \cup {key.by}]
  /\ IF isRedisEOF(g, fetched(g)) THEN endOfValue(g, off[g] + fetched(g)) ELSE UNCHANGED pcG
  /\ UNCHANGED <<key, puts, first, expected, mode, replaced>>

\* GETRANGE fails, or the temporary file does.
ReadFails(g) ==
  /\ pcG[g] = "range"
  /\ failed(g)
  /\ UNCHANGED <<key, puts, first, expected, mode, off, buf, from, replaced>>

----------------------------------------------------------------------------
(* Time.                                                                   *)

older(v) == IF v.ttl = "long" THEN [v EXCEPT !.ttl = "short"] ELSE NoValue

AgeKey ==
  /\ key # NoValue /\ key.ttl # "none"
  /\ key' = older(key)
  /\ UNCHANGED <<puts, gets, replaced>>

AgeTmp(p) ==
  /\ tmp[p] # NoValue /\ tmp[p].ttl # "none"
  /\ tmp' = [tmp EXCEPT ![p] = older(@)]
  /\ UNCHANGED <<size, key, pcP, written, late, published, spoiled, gets, replaced>>

Put(p)  == \/ Set(p) \/ Append(p) \/ EndOfBody(p) \/ ReadError(p) \/ Clean(p)
           \/ Rename(p) \/ Crash(p)

Next == \/ \E p \in Puts : Put(p) \/ Late(p) \/ AgeTmp(p)
        \/ \E g \in Gets : Get(g) \/ Ttl(g) \/ Read(g) \/ ReadFails(g)
        \/ AgeKey

Spec == Init /\ [][Next]_vars

\* A Get goes on: its goroutine runs and the client reads.  Nothing makes a
\* command fail.
FairSpec == Spec /\ \A g \in Gets : WF_vars(Get(g)) /\ WF_vars(Ttl(g)) /\ WF_vars(Read(g))

----------------------------------------------------------------------------
(* Properties.                                                             *)

\* The whole response of the Put, which will expire.
whole(v) == v.clean /\ v.len = total(v.by) /\ v.ttl # "none"

\* "in order to make the streaming operation atomic" (redis_cache.go:255): what
\* stands at the key is a whole response with a time to live, although the
\* temporary key may expire, commands be lost, repeated or executed late and
\* processes die; unless a Put was spoiled in a way it does not notice.
Published == key # NoValue => key.by \in spoiled \/ whole(key)

\* A Get that ends without an error has read as many bytes as its response is
\* long, all of them of that response unless another one was renamed over it
\* meanwhile (redis_cache.go:360-369): an expiry never looks like the end.
HonestRead ==
  \A g \in Gets : pcG[g] = "done" =>
    \/ first[g].by \in spoiled
    \/ off[g] = size[first[g].by] /\ (from[g] \subseteq {first[g].by} \/ g \in replaced)

\* The streaming reader comes to an end whatever happens to the value under it
\* (redis_cache.go:393-399).
ReadEnds == \A g \in Gets : pcG[g] = "get" ~> pcG[g] \in {"done", "miss", "broken"}

\* The value at the key as ResponseStore sees it.
val == IF key = NoValue THEN NoValue ELSE IF whole(key) THEN key.by ELSE Torn

Store == INSTANCE ResponseStore WITH None <- NoValue

\* Put with its temporary key, and expiry, implement the atomic store: a response
\* appears at once and at most once (redis_cache.go:251-313).
Atomic == Store!Spec
=============================================================================
