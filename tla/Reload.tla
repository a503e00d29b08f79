------------------------------- MODULE Reload -------------------------------
(***************************************************************************)
(* Configuration reload (main.go, proxy.go): the goroutine that handles    *)
(* SIGHUP loads the file, replaces the global reverseProxy when the        *)
(* connection pool looks changed, and has the reverseProxy stop its        *)
(* service goroutines (heartbeats, rate limiters), start new ones and      *)
(* publish the new users, clusters and caches.  Meanwhile requests pass    *)
(* the allow-lists, enter the reverseProxy and look their user up.         *)
(*                                                                         *)
(* Each file that parses is a version, numbered in order; version 1 is the *)
(* configuration chproxy started with.  A reverseProxy, a reloadSignal     *)
(* channel and the caches of a configuration are named after the version   *)
(* they were made for; 0 is the channel newReverseProxy makes, and stands  *)
(* for the empty maps of a reverseProxy that has no configuration yet.     *)
(* Operators whose comment starts with "Fault:" are faulty variants of the *)
(* operator below them.                                                    *)
(***************************************************************************)
EXTENDS Naturals, Sequences

CONSTANTS
  Requests,     \* requests in flight
  Services,     \* service goroutines of one configuration
  Pools,        \* values of connection_pool: <<MaxIdleConns, MaxIdleConnsPerHost>>
  MaxVersion    \* bound: number of files loaded

ASSUME ReloadAssumption ==
  /\ MaxVersion \in Nat \ {0}
  /\ Pools \subseteq Nat \X Nat

Versions == 1..MaxVersion

\* A file as the reload sees it: the call that refuses it, if any, its
\* connection_pool and whether it has a wildcarded user.
\* "newUsers" stands for every call after initTempCaches has opened a cache.
Config == [fails: {"newClusters", "newUsers", "none"}, pool: Pools, wild: BOOLEAN]

VARIABLES
  config,       \* the files loaded so far
  signalled,    \* a SIGHUP waits in the channel of capacity 1
  step,         \* where the reload goroutine is
  front,        \* version of each value main.applyConfig stores
  proxy,        \* the global reverseProxy
  users,        \* version of rp.users, rp.clusters and rp.caches
  hasWildcarded,
  maxErrorReasonSize,  \* version it was taken from
  reloadSignal, \* the channel of each reverseProxy
  closed,       \* reverseProxies whose reloadSignal is closed
  service,      \* the service goroutines of each version
  heard,        \* the channel each service goroutine listens to
  owner,        \* the reverseProxy that started a version's goroutines
  caches,       \* versions whose caches are open
  closing,      \* versions whose caches are being closed in the background
  pc, ping, handler, nets, rp, scope     \* the requests

reloadVars == <<config, signalled, step, front, proxy>>
proxyVars == <<users, hasWildcarded, maxErrorReasonSize, reloadSignal, closed>>
serviceVars == <<service, heard, owner>>
cacheVars == <<caches, closing>>
requestVars == <<pc, ping, handler, nets, rp, scope>>
vars == <<reloadVars, proxyVars, serviceVars, cacheVars, requestVars>>

version == Len(config)

\* What main.applyConfig stores once proxy.applyConfig has returned, in order.
Stores == <<"http", "https", "metrics", "handler", "ping">>

-----------------------------------------------------------------------------
\* main: requests are served once the first configuration has been applied.
Init ==
  /\ config \in {<<c>> : c \in {d \in Config : d.fails = "none"}}
  /\ signalled = FALSE /\ step = "idle" /\ proxy = 1
  /\ front = [k \in 1..Len(Stores) |-> 1]
  /\ users = [p \in Versions |-> IF p = 1 THEN 1 ELSE 0]
  /\ hasWildcarded = [p \in Versions |-> p = 1 /\ config[1].wild]
  /\ maxErrorReasonSize = users /\ reloadSignal = users /\ owner = users
  /\ closed = {} /\ caches = {1} /\ closing = {}
  /\ service = [v \in Versions |-> [k \in Services |-> IF v = 1 THEN "new" ELSE "none"]]
  /\ heard = [v \in Versions |-> [k \in Services |-> 0]]
  /\ pc = [r \in Requests |-> "idle"]
  /\ ping = [r \in Requests |-> 0] /\ handler = ping /\ nets = ping
  /\ rp = ping /\ scope = ping

-----------------------------------------------------------------------------
\* SIGHUP; one that finds the channel full is dropped.
Signal ==
  /\ ~signalled /\ signalled' = TRUE
  /\ UNCHANGED <<config, step, front, proxy, proxyVars, serviceVars, cacheVars, requestVars>>

\* reloadConfig: load the file as it is now; one that does not parse is left.
loadConfig ==
  /\ step = "idle" /\ signalled /\ signalled' = FALSE
  /\ \/ UNCHANGED <<config, step>>
     \/ /\ version < MaxVersion
        /\ \E c \in Config : config' = Append(config, c)
        /\ step' = "replace"
  /\ UNCHANGED <<front, proxy, proxyVars, serviceVars, cacheVars, requestVars>>

\* newReverseProxy: what a reverseProxy remembers of the connection pool it
\* was made with.  maxIdleConns is set from MaxIdleConnsPerHost.
rememberedPool(p) == <<config[p].pool[2], config[p].pool[2]>>

proxyConfigChanged == config[version].pool # rememberedPool(proxy)

\* main.applyConfig: the new reverseProxy is the global one from now on.
newReverseProxy ==
  /\ step = "replace" /\ step' = "prepare"
  /\ proxy' = IF proxyConfigChanged THEN version ELSE proxy
  /\ UNCHANGED <<config, signalled, front, proxyVars, serviceVars, cacheVars, requestVars>>

\* Fault: the flag follows the configuration being prepared, published or not.
setsWildcardedAlways(p) == config[version].wild

\* rp.hasWildcarded is set by any configuration and never reset.
setsWildcarded(p) == hasWildcarded[p] \/ config[version].wild

\* newClusters, and the caches and users that applyConfig makes after it.
clustersBuilt(c) == c.fails # "newClusters"
usersBuilt(c)    == c.fails = "none"

\* proxy.applyConfig up to "New configs have been successfully prepared".
\* Caches opened before an error are closed in the background; the one whose
\* NewAsyncCache failed is not among them, and the cleaning goroutine of its
\* in-memory transaction registry, which runs on, is left out here.
prepare ==
  /\ step = "prepare"
  /\ LET c == config[version] IN
     /\ IF clustersBuilt(c)
        THEN /\ maxErrorReasonSize' = [maxErrorReasonSize EXCEPT ![proxy] = version]
             /\ hasWildcarded' = [hasWildcarded EXCEPT ![proxy] = setsWildcarded(proxy)]
             /\ caches' = caches \union {version}
             /\ closing' = IF usersBuilt(c) THEN closing ELSE closing \union {version}
        ELSE UNCHANGED <<maxErrorReasonSize, hasWildcarded, caches, closing>>
     /\ step' = IF clustersBuilt(c) /\ usersBuilt(c) THEN "signal" ELSE "idle"
  /\ UNCHANGED <<config, signalled, front, proxy, users, reloadSignal, closed,
                 serviceVars, requestVars>>

\* close(rp.reloadSignal)
closeSignal ==
  /\ step = "signal" /\ step' = "wait"
  /\ closed' = closed \union {proxy}
  /\ UNCHANGED <<config, signalled, front, proxy, users, hasWildcarded, maxErrorReasonSize,
                 reloadSignal, serviceVars, cacheVars, requestVars>>

\* Fault: reloadWG is not waited for.
waitNot == TRUE

\* rp.reloadWG is down to zero.
waited ==
  \A v \in Versions, k \in Services : owner[v] = proxy => service[v][k] \in {"none", "done"}

\* rp.reloadWG.Wait(), a new channel, and restartWithNewConfig.
restartWithNewConfig ==
  /\ step = "wait" /\ waited /\ step' = "publish"
  /\ closed' = closed \ {proxy}
  /\ reloadSignal' = [reloadSignal EXCEPT ![proxy] = version]
  /\ owner' = [owner EXCEPT ![version] = proxy]
  /\ service' = [service EXCEPT ![version] = [k \in Services |-> "new"]]
  /\ UNCHANGED <<config, signalled, front, proxy, users, hasWildcarded, maxErrorReasonSize,
                 heard, cacheVars, requestVars>>

\* Fault: the caches just made are closed, not those they replace.
publishNoSwap ==
  /\ step = "publish" /\ step' = "store"
  /\ users' = [users EXCEPT ![proxy] = version]
  /\ closing' = closing \union {version}
  /\ UNCHANGED <<config, signalled, front, proxy, hasWildcarded, maxErrorReasonSize,
                 reloadSignal, closed, serviceVars, caches, requestVars>>

\* The new maps are substituted under rp.lock; on return the old caches are
\* closed in the background.
publish ==
  /\ step = "publish" /\ step' = "store"
  /\ users' = [users EXCEPT ![proxy] = version]
  /\ closing' = closing \union ({users[proxy]} \ {0})
  /\ UNCHANGED <<config, signalled, front, proxy, hasWildcarded, maxErrorReasonSize,
                 reloadSignal, closed, serviceVars, caches, requestVars>>

\* Fault: proxyHandler and allowPing are stored before the allow-lists.
toStoreBackwards(k) == front[k] # version /\ \A j \in k+1..Len(Stores) : front[j] = version

\* The value that main.applyConfig stores next.
toStore(k) == front[k] # version /\ \A j \in 1..k-1 : front[j] = version

\* One of the atomic stores at the end of main.applyConfig.
store ==
  /\ step = "store"
  /\ \E k \in 1..Len(Stores) :
       /\ toStore(k)
       /\ front' = [front EXCEPT ![k] = version]
  /\ step' = IF \A k \in 1..Len(Stores) : front'[k] = version THEN "idle" ELSE "store"
  /\ UNCHANGED <<config, signalled, proxy, proxyVars, serviceVars, cacheVars, requestVars>>

\* The goroutine that setupReloadConfigWatch starts.
reloadConfig ==
  loadConfig \/ newReverseProxy \/ prepare \/ closeSignal \/ restartWithNewConfig \/ publish \/ store

-----------------------------------------------------------------------------
\* A service goroutine evaluates rp.reloadSignal when it is first scheduled.
StartService(v, k) ==
  /\ service[v][k] = "new"
  /\ service' = [service EXCEPT ![v][k] = "run"]
  /\ heard' = [heard EXCEPT ![v][k] = reloadSignal[owner[v]]]
  /\ UNCHANGED <<reloadVars, proxyVars, owner, cacheVars, requestVars>>

\* Fault: the goroutine notices a replaced channel, not a closed one.
doneReplaced(v, k) == heard[v][k] # reloadSignal[owner[v]]

\* The channel the goroutine listens to has been closed.
done(v, k) == heard[v][k] # reloadSignal[owner[v]] \/ owner[v] \in closed

\* StartHeartbeat and rateLimiter.run return; rp.reloadWG.Done().
StopService(v, k) ==
  /\ service[v][k] = "run" /\ done(v, k)
  /\ service' = [service EXCEPT ![v][k] = "done"]
  /\ heard' = [heard EXCEPT ![v][k] = 0]
  /\ UNCHANGED <<reloadVars, proxyVars, owner, cacheVars, requestVars>>

\* Fault: a cache is closed and stays on the list of those to close.
closeCacheAgain(v) ==
  /\ v \in closing
  /\ caches' = caches \ {v}
  /\ UNCHANGED <<reloadVars, proxyVars, serviceVars, closing, requestVars>>

\* go tmpCache.Close()
CloseCache(v) ==
  /\ v \in closing
  /\ closing' = closing \ {v} /\ caches' = caches \ {v}
  /\ UNCHANGED <<reloadVars, proxyVars, serviceVars, requestVars>>

-----------------------------------------------------------------------------
\* The request is over; what it read is forgotten.
return(r) ==
  /\ pc' = [pc EXCEPT ![r] = "idle"]
  /\ ping' = [ping EXCEPT ![r] = 0] /\ handler' = [handler EXCEPT ![r] = 0]
  /\ nets' = [nets EXCEPT ![r] = 0] /\ rp' = [rp EXCEPT ![r] = 0]
  /\ scope' = [scope EXCEPT ![r] = 0]

\* serveHTTP: only a /ping request looks at allowPing.
Arrive(r) ==
  /\ pc[r] = "idle" /\ pc' = [pc EXCEPT ![r] = "handler"]
  /\ \E v \in {0, front[5]} : ping' = [ping EXCEPT ![r] = v]
  /\ UNCHANGED <<reloadVars, proxyVars, serviceVars, cacheVars, handler, nets, rp, scope>>

\* proxyHandler.Load()
LoadHandler(r) ==
  /\ pc[r] = "handler" /\ pc' = [pc EXCEPT ![r] = "nets"]
  /\ handler' = [handler EXCEPT ![r] = front[4]]
  /\ UNCHANGED <<reloadVars, proxyVars, serviceVars, cacheVars, ping, nets, rp, scope>>

\* allowedNetworksHTTP or allowedNetworksHTTPS, when the address is in it.
LoadNetworks(r) ==
  /\ pc[r] = "nets" /\ pc' = [pc EXCEPT ![r] = "enter"]
  /\ \E k \in {1, 2} : nets' = [nets EXCEPT ![r] = front[k]]
  /\ UNCHANGED <<reloadVars, proxyVars, serviceVars, cacheVars, ping, handler, rp, scope>>

\* proxy.ServeHTTP: the global is read once.
ServeHTTP(r) ==
  /\ pc[r] = "enter" /\ pc' = [pc EXCEPT ![r] = "scope"]
  /\ rp' = [rp EXCEPT ![r] = proxy]
  /\ UNCHANGED <<reloadVars, proxyVars, serviceVars, cacheVars, ping, handler, nets, scope>>

\* A user matched by name needs users; one matched by a pattern needs the flag
\* and a wildcarded user.
getUser(p, byPattern) ==
  /\ users[p] # 0
  /\ byPattern => hasWildcarded[p] /\ config[users[p]].wild

\* getScope of a known user: the scope points into the maps found under rp.lock.
getScope(r) ==
  /\ pc[r] = "scope" /\ pc' = [pc EXCEPT ![r] = "run"]
  /\ \E byPattern \in BOOLEAN : getUser(rp[r], byPattern)
  /\ scope' = [scope EXCEPT ![r] = users[rp[r]]]
  /\ UNCHANGED <<reloadVars, proxyVars, serviceVars, cacheVars, ping, handler, nets, rp>>

\* Refused: /ping not allowed, the address in no allow-list, no such user, a
\* wrong password.
Refuse(r) ==
  /\ pc[r] \in {"nets", "scope"} \/ (pc[r] = "handler" /\ ping[r] # 0)
  /\ return(r)
  /\ UNCHANGED <<reloadVars, proxyVars, serviceVars, cacheVars>>

Finish(r) ==
  /\ pc[r] = "run" /\ return(r)
  /\ UNCHANGED <<reloadVars, proxyVars, serviceVars, cacheVars>>

serveHTTP(r) ==
  Arrive(r) \/ LoadHandler(r) \/ LoadNetworks(r) \/ ServeHTTP(r) \/ getScope(r) \/ Refuse(r) \/ Finish(r)

Next ==
  \/ Signal
  \/ reloadConfig
  \/ \E v \in Versions, k \in Services : StartService(v, k) \/ StopService(v, k)
  \/ \E v \in Versions : CloseCache(v)
  \/ \E r \in Requests : serveHTTP(r)

Spec == Init /\ [][Next]_vars

\* Goroutines are scheduled; a heartbeat in progress is bounded by its timeout.
FairSpec ==
  /\ Spec /\ WF_vars(reloadConfig)
  /\ \A v \in Versions, k \in Services : WF_vars(StartService(v, k) \/ StopService(v, k))

-----------------------------------------------------------------------------
ReloadTypeOK ==
  /\ config \in Seq(Config) /\ version \in Versions
  /\ signalled \in BOOLEAN
  /\ step \in {"idle", "replace", "prepare", "signal", "wait", "publish", "store"}
  /\ front \in [1..Len(Stores) -> Versions]
  /\ proxy \in Versions /\ closed \subseteq Versions
  /\ users \in [Versions -> 0..MaxVersion]
  /\ hasWildcarded \in [Versions -> BOOLEAN]
  /\ maxErrorReasonSize \in [Versions -> 0..MaxVersion]
  /\ reloadSignal \in [Versions -> 0..MaxVersion]
  /\ owner \in [Versions -> 0..MaxVersion]
  /\ service \in [Versions -> [Services -> {"none", "new", "run", "done"}]]
  /\ heard \in [Versions -> [Services -> 0..MaxVersion]]
  /\ caches \subseteq Versions /\ closing \subseteq caches
  /\ pc \in [Requests -> {"idle", "handler", "nets", "enter", "scope", "run"}]
  /\ \A f \in {ping, handler, nets, rp, scope} : f \in [Requests -> 0..MaxVersion]

\* The last configurations of the reverseProxies that were replaced because the
\* connection pool looked changed (main.go:300).  Nothing in the code stops their
\* goroutines or closes their caches any more, whatever the comments at
\* proxy.go:640-645 and 687-690 say of the previous ones.
abandoned == {users[p] : p \in Versions \ {proxy}} \ {0}

alive(v, k) == service[v][k] \in {"new", "run"}

\* The heartbeats and rate limiters of the global reverseProxy belong to one
\* configuration at a time: between two reloads they are exactly those of the
\* published one, and a reload starts the new ones only when all the old ones
\* have returned (proxy.go, applyConfig and restartWithNewConfig).  Besides them
\* exactly those of the replaced reverseProxies are alive, for ever: they listen
\* to a channel that nobody closes.  None of these goroutines stops by itself.
ServicesMatch ==
  LET current == Versions \ abandoned IN
  /\ \A v \in current, w \in current, j \in Services, k \in Services :
       alive(v, j) /\ alive(w, k) => v = w
  /\ step \notin {"wait", "publish"} =>
       \A v \in current, k \in Services :
         /\ alive(v, k) <=> v = users[proxy]
         /\ service[v][k] = "run" => ~done(v, k)
  /\ \A v \in abandoned, k \in Services :
       /\ alive(v, k)
       /\ service[v][k] = "run" => ~done(v, k)

\* The caches that are open are those of the configuration the global
\* reverseProxy has published, those of the configuration being applied, those
\* being closed, and those that the replaced reverseProxies left behind, which
\* nobody closes.  The caches of a published configuration are never closed
\* under the requests that use it (the swap in applyConfig and its deferred
\* closing).
CachesExact ==
  LET published == {users[proxy]} \ {0}
      preparing == IF step \in {"signal", "wait", "publish"} THEN {version} ELSE {}
      kept      == published \union preparing \union abandoned
  IN  /\ caches = kept \union closing
      /\ kept \intersect closing = {}

\* A published configuration with a wildcarded user has hasWildcarded set, so
\* getUser finds that user: a configuration refused after it never takes the
\* flag away (proxy.go, applyConfig before its error returns).
WildcardKept ==
  \A p \in Versions : users[p] # 0 /\ config[users[p]].wild => hasWildcarded[p]

\* Nothing a request is judged by is newer than what it is judged by next:
\* allowPing, proxyHandler, the allow-list, the users.  An allow-list never
\* lets a request in on behalf of users of an older configuration
\* (main.applyConfig stores in the reverse of the order serveHTTP reads).
FrontOrder ==
  \A r \in Requests :
    /\ pc[r] \in {"nets", "enter", "scope", "run"} => ping[r] <= handler[r]
    /\ pc[r] \in {"enter", "scope", "run"} => handler[r] <= nets[r]
    /\ pc[r] = "run" => nets[r] <= scope[r]

\* A reload ends: waiting for the service goroutines never blocks for ever
\* (proxy.go, reloadWG.Wait).
ReloadEnds == step # "idle" ~> step = "idle"

\* The configuration of the last reload that succeeded.
applied == CHOOSE v \in 1..version :
             /\ config[v].fails = "none"
             /\ \A w \in v+1..version : config[w].fails # "none"

\* When no reload is in progress, requests are served by the last configuration
\* that was applied without an error (proxy.go, applyConfig: "Otherwise old
\* config version is kept.").
OldKept == step = "idle" => users[proxy] = applied
=============================================================================
