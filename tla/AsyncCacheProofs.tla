-------------------------- MODULE AsyncCacheProofs --------------------------
(***************************************************************************)
(* A completed transaction has its response in the cache, for every number *)
(* of requests of a key.  The inductive invariant follows a response from  *)
(* its Put to the end of its transaction: who completes a transaction with *)
(* a cacheable response has called Put, and what a Put stored is in the    *)
(* cache until it expires or another Put destroys it.                      *)
(***************************************************************************)
EXTENDS AsyncCache, TLAPS

\* completeTransaction comes after Put, if the response may be cached.
PutCalled == /\ \A r \in Requests : pc[r] = "end" /\ cacheable(out[r]) => put[r] # "none"
             /\ cacheable(by.out) => by.put # "none"

\* What a Put stored is in the cache or has gone since.
PutStays == /\ \A r \in Requests : put[r] = "stored" => cached = TRUE \/ gone = TRUE
            /\ by.put = "stored" => cached = TRUE \/ gone = TRUE

AInv == PutCalled /\ PutStays

ATypes == /\ pc \in [Requests -> {"idle", "get", "await", "again", "create", "run",
                                  "capture", "put", "end"}]
          /\ out \in [Requests -> {"none"} \cup Outcomes]
          /\ put \in [Requests -> Puts]
          /\ by \in [out : {"none"} \cup Outcomes, put : Puts]

\* The functions keep their domains and their values.
LEMMA ATypesStep == ATypes /\ [Next]_vars => ATypes'
<1> SUFFICES ASSUME ATypes, [Next]_vars PROVE ATypes'
  OBVIOUS
<1> USE DEF ATypes, history
<1>1. CASE UNCHANGED vars
  BY <1>1 DEF vars
<1>2. ASSUME NEW r \in Requests, Arrive(r) \/ GraceOver(r) PROVE ATypes'
  BY <1>2 DEF Arrive, GraceOver, goto
<1>3. ASSUME NEW r \in Requests, Get(r) \/ Await(r) \/ GetAgain(r) PROVE ATypes'
  BY <1>3 DEF Get, Await, GetAgain, follow, goto
<1>4. ASSUME NEW r \in Requests, TmpFileFails(r) \/ Create(r) PROVE ATypes'
  BY <1>4 DEF TmpFileFails, Create, goto
<1>5. ASSUME NEW r \in Requests, Proxy(r) \/ Capture(r) \/ ReadBackFails(r) PROVE ATypes'
  BY <1>5 DEF Proxy, Capture, ReadBackFails, goto
<1>6. ASSUME NEW r \in Requests, Put(r) PROVE ATypes'
  BY <1>6 DEF Put, Puts, goto
<1>7. ASSUME NEW r \in Requests, Complete(r) PROVE ATypes'
  BY <1>7 DEF Complete, updateInMemory, updateRedis, Puts, goto
<1>8. CASE EntryExpires \/ CacheExpires
  BY <1>8 DEF EntryExpires, CacheExpires
<1> QED
  BY <1>1, <1>2, <1>3, <1>4, <1>5, <1>6, <1>7, <1>8 DEF Next, serveFromCache

\* The other variables, likewise.
AMore == /\ kind \in {"memory", "redis"} /\ entry \in States
         /\ grace \in [Requests -> {"ahead", "over"}]

LEMMA AMoreStep == ATypes /\ AMore /\ [Next]_vars => AMore'
<1> SUFFICES ASSUME ATypes, AMore, [Next]_vars PROVE AMore'
  OBVIOUS
<1> USE DEF AMore
<1>1. CASE UNCHANGED vars
  BY <1>1 DEF vars
<1>2. ASSUME NEW r \in Requests, Arrive(r) \/ GraceOver(r) PROVE AMore'
  BY <1>2 DEF Arrive, GraceOver
<1>3. ASSUME NEW r \in Requests, Get(r) \/ Await(r) \/ GetAgain(r) \/ TmpFileFails(r) PROVE AMore'
  BY <1>3 DEF Get, Await, GetAgain, TmpFileFails
<1>4. ASSUME NEW r \in Requests, Create(r) PROVE AMore'
  BY <1>4 DEF Create, createInMemory, createRedis, States
<1>5. ASSUME NEW r \in Requests, Proxy(r) \/ Capture(r) \/ ReadBackFails(r) PROVE AMore'
  BY <1>5 DEF Proxy, Capture, ReadBackFails
<1>6. ASSUME NEW r \in Requests, Put(r) PROVE AMore'
  BY <1>6 DEF Put, ATypes
<1>7. ASSUME NEW r \in Requests, Complete(r) PROVE AMore'
  BY <1>7 DEF Complete, updateInMemory, updateRedis, ended, States
<1>8. CASE EntryExpires \/ CacheExpires
  BY <1>8 DEF EntryExpires, CacheExpires, States
<1> QED
  BY <1>1, <1>2, <1>3, <1>4, <1>5, <1>6, <1>7, <1>8 DEF Next, serveFromCache

AFlags == cached \in BOOLEAN /\ gone \in BOOLEAN

\* A flag stays a truth value.
LEMMA FlagsStep == AFlags /\ [Next]_vars => AFlags'
<1> SUFFICES ASSUME AFlags, [Next]_vars PROVE AFlags'
  OBVIOUS
<1>1. CASE UNCHANGED <<cached, gone>>
  BY <1>1, Zenon DEF AFlags
<1>2. CASE cached' = TRUE /\ gone' = FALSE
  BY <1>2, Zenon DEF AFlags
<1>3. CASE cached' = FALSE /\ gone' = TRUE
  BY <1>3, Zenon DEF AFlags
<1>4. UNCHANGED <<cached, gone>> \/ (cached' = TRUE /\ gone' = FALSE) \/ (cached' = FALSE /\ gone' = TRUE)
  BY Zenon DEF Next, serveFromCache, vars, history, Arrive, GraceOver, Get, Await, GetAgain, TmpFileFails,
               Create, Proxy, Capture, ReadBackFails, Put, Complete, EntryExpires, CacheExpires
<1> QED  BY <1>1, <1>2, <1>3, <1>4, Zenon

\* At the start nothing has been put.
LEMMA AInit == Init => ATypes /\ AInv
BY DEF Init, ATypes, AInv, PutCalled, PutStays, cacheable, Puts

\* Each step keeps the invariant: Capture sends a cacheable response to Put, which
\* notes what it did, and Complete passes the note on.
LEMMA AStep == ATypes /\ AInv /\ [Next]_vars => AInv'
<1> SUFFICES ASSUME ATypes, AInv, [Next]_vars PROVE AInv'
  OBVIOUS
<1> USE DEF ATypes, AInv, PutCalled, PutStays, cacheable, history
<1>1. CASE UNCHANGED vars
  BY <1>1 DEF vars
<1>2. ASSUME NEW r \in Requests, Arrive(r) \/ GraceOver(r) PROVE AInv'
  BY <1>2 DEF Arrive, GraceOver, goto
<1>3. ASSUME NEW r \in Requests, Get(r) \/ Await(r) \/ GetAgain(r) PROVE AInv'
  BY <1>3 DEF Get, Await, GetAgain, follow, goto
<1>4. ASSUME NEW r \in Requests, TmpFileFails(r) \/ Create(r) PROVE AInv'
  BY <1>4 DEF TmpFileFails, Create, goto
<1>5. ASSUME NEW r \in Requests, Proxy(r) \/ Capture(r) \/ ReadBackFails(r) PROVE AInv'
  BY <1>5 DEF Proxy, Capture, ReadBackFails, goto
<1>6. ASSUME NEW r \in Requests, Put(r) PROVE AInv'
  BY <1>6 DEF Put, goto
<1>7. ASSUME NEW r \in Requests, Complete(r) PROVE AInv'
  BY <1>7 DEF Complete, updateInMemory, updateRedis, goto
<1>8. CASE EntryExpires \/ CacheExpires
  BY <1>8 DEF EntryExpires, CacheExpires
<1> QED
  BY <1>1, <1>2, <1>3, <1>4, <1>5, <1>6, <1>7, <1>8 DEF Next, serveFromCache

\* The inductive invariant holds of every execution.
THEOREM CacheInvariant == Spec => [](ATypes /\ AInv)
BY AInit, ATypesStep, AStep, PTL DEF Spec

\* Every variable keeps its type: a transaction is in one of its four states,
\* whichever registry keeps it and however its calls fail.
THEOREM AsyncTypeCorrect == Spec => []AsyncTypeOK
<1>1. Init => AMore
  BY DEF Init, AMore, States
<1>2. Init => AFlags
  BY Zenon DEF Init, AFlags
<1>3. ATypes /\ AMore /\ AFlags => AsyncTypeOK
  BY Zenon DEF ATypes, AMore, AFlags, AsyncTypeOK
<1> QED  BY <1>1, <1>2, <1>3, AMoreStep, FlagsStep, CacheInvariant, PTL DEF Spec

\* A request that waited for a transaction finds the response it was completed
\* with (Put comes before Complete, proxy.go:504-509), unless the response has
\* expired or been destroyed meanwhile, its Put failed, or redis did not rename it.
THEOREM WaitersFindIt == Spec => []CompletedIsCached
<1>1. ATypes /\ AInv => CompletedIsCached
  BY DEF ATypes, AInv, PutCalled, PutStays, CompletedIsCached, Puts
<1> QED  BY <1>1, CacheInvariant, PTL
=============================================================================
