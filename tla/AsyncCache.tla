----------------------------- MODULE AsyncCache ----------------------------
(***************************************************************************)
(* serveFromCache (proxy.go) with the cache and the transaction registry   *)
(* (cache/async_cache.go, cache/transaction_registry*.go): requests with   *)
(* the same cache key share one answer; the registry tells a request that  *)
(* another one is already asking ClickHouse.                               *)
(*                                                                         *)
(* One key is modelled, keys do not influence each other.  Every call of   *)
(* the cache or of the registry is one action.  A response is abstracted   *)
(* to what becomes of it, its bytes are left out:                          *)
(*   "ok"           200, at most max_payload_size.  The body need not be   *)
(*                  the one ClickHouse meant: the node may have broken it  *)
(*                  off, and the body of a 502 that was retried comes      *)
(*                  first in the same temporary file                       *)
(*   "big"          200, larger than max_payload_size                      *)
(*   "left"         200, but the client left before its end (s.canceled)   *)
(*   "recoverable"  503 or 408                                             *)
(*   "error"        any other code: the 502 of a client that left, and the *)
(*                  504 of a request whose time is over, included          *)
(* Operators whose comment starts with "Fault:" are faulty variants of the *)
(* operator below them.                                                    *)
(***************************************************************************)
EXTENDS Integers, FiniteSets

CONSTANTS Requests

States   == {"absent", "created", "completed", "failed"}
Outcomes == {"ok", "big", "left", "recoverable", "error"}
Puts     == {"none", "stored", "failed", "unnoticed"}

VARIABLES
  kind,    \* the configured mode: "memory" (file_system) or "redis" registry
  entry,   \* the transaction of the key
  cached,  \* whether the cache holds a response for the key
  pc,      \* request -> next call
  grace,   \* request -> whether graceTime has elapsed since it began to wait
  out,     \* request -> the response it got from ClickHouse
  put,     \* history: request -> what became of its Put; "unnoticed" stored nothing
           \* and returned no error
  by,      \* history: response and Put of the request that completed the transaction
  gone     \* history: what was stored last has expired or was destroyed

vars == <<kind, entry, cached, pc, grace, out, put, by, gone>>
history == <<put, by, gone>>

AsyncTypeOK ==
  /\ kind \in {"memory", "redis"}
  /\ entry \in States
  /\ cached \in BOOLEAN /\ gone \in BOOLEAN
  /\ pc \in [Requests -> {"idle", "get", "await", "again", "create", "run", "capture", "put", "end"}]
  /\ grace \in [Requests -> {"ahead", "over"}]
  /\ out \in [Requests -> {"none"} \cup Outcomes]
  /\ put \in [Requests -> Puts]
  /\ by \in [out : {"none"} \cup Outcomes, put : Puts]

Init ==
  /\ kind \in {"memory", "redis"}
  /\ entry = "absent" /\ cached = FALSE /\ gone = FALSE
  /\ pc = [r \in Requests |-> "idle"]
  /\ grace = [r \in Requests |-> "ahead"]
  /\ out = [r \in Requests |-> "none"]
  /\ put = [r \in Requests |-> "none"]
  /\ by = [out |-> "none", put |-> "none"]

goto(r, l) == pc' = [pc EXCEPT ![r] = l]

----------------------------------------------------------------------------
(* The lookups.                                                            *)

\* shouldRespondFromCache let the request in.
Arrive(r) ==
  /\ pc[r] = "idle"
  /\ goto(r, "get")
  /\ grace' = [grace EXCEPT ![r] = "ahead"]
  /\ UNCHANGED <<kind, entry, cached, out, history>>

\* userCache.Get: a hit is sent to the client; a miss, or an error, is not.
Get(r) ==
  /\ pc[r] = "get"
  /\ \/ cached /\ goto(r, "idle")
     \/ goto(r, "await")
  /\ UNCHANGED <<kind, entry, cached, grace, out, history>>

\* What Status may return.
statusInMemory == {entry}
statusRedis    == {entry, "error"}
status == IF kind = "memory" THEN statusInMemory ELSE statusRedis

\* Where a status leads: only a pending transaction keeps the request waiting,
\* and an error is like no transaction.  A failed one is answered with 500.
follow(r, s) ==
  \/ s \in {"absent", "error"} /\ goto(r, "create")
  \/ s = "completed" /\ goto(r, "again")
  \/ s = "failed" /\ goto(r, "idle")

\* Fault: the loop has no deadline.
awaitNoDeadline(r) ==
  /\ pc[r] = "await"
  /\ \E s \in status : follow(r, s)
  /\ UNCHANGED <<kind, entry, cached, grace, out, history>>

\* One pass of the loop of AwaitForConcurrentTransaction: the deadline first,
\* then the state of the transaction.
Await(r) ==
  /\ pc[r] = "await"
  /\ \/ grace[r] = "over" /\ goto(r, "create")
     \/ grace[r] = "ahead" /\ \E s \in status : follow(r, s)
  /\ UNCHANGED <<kind, entry, cached, grace, out, history>>

\* The second Get, after a completed transaction.
GetAgain(r) ==
  /\ pc[r] = "again"
  /\ \/ cached /\ goto(r, "idle")
     \/ goto(r, "create")
  /\ UNCHANGED <<kind, entry, cached, grace, out, history>>

----------------------------------------------------------------------------
(* The request to ClickHouse.                                              *)

\* NewTmpFileResponseWriter fails: 500.
TmpFileFails(r) ==
  /\ pc[r] = "create" /\ goto(r, "idle")
  /\ UNCHANGED <<kind, entry, cached, grace, out, history>>

\* The memory registry keeps an entry that exists, redis overwrites it or fails.
createInMemory == {IF entry = "absent" THEN "created" ELSE entry}
createRedis    == {"created", entry}

\* userCache.Create, whose failure is only logged.
Create(r) ==
  /\ pc[r] = "create" /\ goto(r, "run")
  /\ entry' \in IF kind = "memory" THEN createInMemory ELSE createRedis
  /\ UNCHANGED <<kind, cached, grace, out, history>>

\* rp.proxyRequest into the temporary file.
Proxy(r) ==
  /\ pc[r] = "run"
  /\ \E o \in Outcomes : out' = [out EXCEPT ![r] = o]
  /\ goto(r, "capture")
  /\ UNCHANGED <<kind, entry, cached, grace, history>>

\* Do not cache non-200, cancelled or too large responses.
cacheable(o) == o = "ok"

\* Fault: the transaction is completed before the response is put.
captureEndsFirst(r) ==
  /\ pc[r] = "capture"
  /\ \/ cacheable(out[r]) /\ goto(r, "put") /\ entry' = "completed"
        /\ by' = [out |-> out[r], put |-> put[r]]
     \/ ~cacheable(out[r]) /\ goto(r, "end") /\ UNCHANGED <<entry, by>>
  /\ UNCHANGED <<kind, cached, grace, out, put, gone>>

\* The status, the headers and the size of the captured response decide.
Capture(r) ==
  /\ pc[r] = "capture" /\ goto(r, IF cacheable(out[r]) THEN "put" ELSE "end")
  /\ UNCHANGED <<kind, entry, cached, grace, out, history>>

\* The temporary file cannot be read back: the client gets 500 and the
\* transaction stays as it is.
ReadBackFails(r) ==
  /\ pc[r] = "capture" /\ goto(r, "idle") /\ out' = [out EXCEPT ![r] = "none"]
  /\ UNCHANGED <<kind, entry, cached, grace, history>>

\* userCache.Put.  A failed one leaves what was there before, or has destroyed
\* it; redis ignores the result of its RENAME.
Put(r) ==
  /\ pc[r] = "put" /\ goto(r, "end")
  /\ \/ cached' = TRUE /\ gone' = FALSE /\ put' = [put EXCEPT ![r] = "stored"]
     \/ UNCHANGED <<cached, gone>> /\ put' = [put EXCEPT ![r] = "failed"]
     \/ cached' = FALSE /\ gone' = TRUE /\ put' = [put EXCEPT ![r] = "failed"]
     \/ kind = "redis" /\ UNCHANGED <<cached, gone>> /\ put' = [put EXCEPT ![r] = "unnoticed"]
  /\ UNCHANGED <<kind, entry, grace, out, by>>

\* completeTransaction: which state the transaction ends in.
ended(o) == IF o = "error" THEN "failed" ELSE "completed"

\* updateTransactionState: redis may fail.
updateInMemory(r) == entry' = ended(out[r]) /\ by' = [out |-> out[r], put |-> put[r]]
updateRedis(r)    == updateInMemory(r) \/ UNCHANGED <<entry, by>>

\* completeTransaction, and the response to the client.
Complete(r) ==
  /\ pc[r] = "end" /\ goto(r, "idle")
  /\ IF kind = "memory" THEN updateInMemory(r) ELSE updateRedis(r)
  /\ out' = [out EXCEPT ![r] = "none"]
  /\ put' = [put EXCEPT ![r] = "none"]
  /\ UNCHANGED <<kind, cached, grace, gone>>

----------------------------------------------------------------------------
(* Time.                                                                   *)

\* graceTime has elapsed since the request began to wait.
GraceOver(r) ==
  /\ pc[r] = "await" /\ grace[r] = "ahead"
  /\ grace' = [grace EXCEPT ![r] = "over"]
  /\ UNCHANGED <<kind, entry, cached, pc, out, history>>

\* pendingEntriesCleaner deletes an outdated entry, or its redis TTL is over.
EntryExpires ==
  /\ entry # "absent"
  /\ entry' = "absent"
  /\ UNCHANGED <<kind, cached, pc, grace, out, history>>

\* The cached response expires, or is removed to make room.
CacheExpires ==
  /\ cached
  /\ cached' = FALSE /\ gone' = TRUE
  /\ UNCHANGED <<kind, entry, pc, grace, out, put, by>>

serveFromCache(r) == \/ Get(r) \/ Await(r) \/ GetAgain(r) \/ TmpFileFails(r) \/ Create(r)
                     \/ Proxy(r) \/ Capture(r) \/ ReadBackFails(r) \/ Put(r) \/ Complete(r)

Next == \/ \E r \in Requests : Arrive(r) \/ serveFromCache(r) \/ GraceOver(r)
        \/ EntryExpires \/ CacheExpires

Spec == Init /\ [][Next]_vars

\* Goroutines run, proxied requests end (Dispatch, BoundedWork) and graceTime
\* elapses.  Nothing is assumed of the registry: each redis Create renews the TTL
\* of the transaction, so it may stay pending for as long as requests come.
FairSpec == /\ Spec
            /\ \A r \in Requests : WF_vars(serveFromCache(r)) /\ WF_vars(GraceOver(r))

----------------------------------------------------------------------------
(* Properties.                                                             *)

\* Put comes before Complete (proxy.go:504,509), so a request that waited for the
\* transaction and sees it completed finds the response: a transaction completed
\* by a request with a cacheable response has it in the cache, or it was there and
\* has expired or been destroyed by a later Put.  The exceptions are a Put that
\* failed and the redis RENAME whose result nobody looks at (redis_cache.go:311).
CompletedIsCached ==
  entry = "completed" /\ cacheable(by.out) /\ by.put \notin {"failed", "unnoticed"} => cached \/ gone

\* Every request is answered, with a hit, a failure or a response of its own:
\* nobody waits for a transaction longer than graceTime (async_cache.go:37-69),
\* even when the request that created it never completes it.
Answered == \A r \in Requests : pc[r] = "get" ~> pc[r] = "idle"

\* Requests that are at ClickHouse without having used up their graceTime.
proxied == {r \in Requests : pc[r] = "run" /\ grace[r] = "ahead"}

\* "only a single request will be proxied to clickhouse. Other requests will
\* wait for the cached response during this grace duration": of the requests
\* that are still within their grace time, at most one is at ClickHouse.
SingleFlight == Cardinality(proxied) <= 1
=============================================================================
