---------------------------- MODULE ReloadProofs ---------------------------
(***************************************************************************)
(* The safety properties of Reload hold for every number of files,         *)
(* services and requests.  The invariant adds to them what the version     *)
(* being applied has touched at each step (Progress), who owns the         *)
(* goroutines (Owned, Listening) and what a request has read so far        *)
(* (Reads).                                                                *)
(***************************************************************************)
EXTENDS Reload, SequenceTheorems, TLAPS

\* Version v is neither in use as a configuration nor as a reverseProxy.
New(v) ==
  /\ users[v] = 0 /\ owner[v] = 0 /\ v \notin caches
  /\ \A p \in Versions : users[p] # v

\* How far the version being applied has come.
Progress ==
  /\ proxy <= version
  /\ \A v \in Versions : v > version => New(v)
  /\ step \in {"replace", "prepare"} => New(version)
  /\ step \in {"signal", "wait", "publish"} => \A p \in Versions : users[p] # version
  /\ step \in {"signal", "wait"} => owner[version] = 0
  /\ step = "publish" => owner[version] = proxy
  /\ step = "store" => users[proxy] = version
  /\ closed = IF step = "wait" THEN {proxy} ELSE {}

\* A reverseProxy owns the goroutines of the configuration it has published.
Owned ==
  \A p \in Versions : users[p] # 0 => users[p] <= version /\ owner[users[p]] = p

\* A goroutine listens to the channel that its reverseProxy will close.
Listening ==
  \A v \in Versions, k \in Services :
    /\ owner[v] = 0 <=> service[v][k] = "none"
    /\ service[v][k] = "run" => heard[v][k] = reloadSignal[owner[v]]
    /\ step = "publish" /\ owner[v] = proxy => (service[v][k] = "done" <=> v # version)
    /\ step = "wait" /\ owner[v] = proxy => (service[v][k] # "done" => users[proxy] = v)

\* A reverseProxy, global or replaced, keeps alive the goroutines of the
\* configuration it has published and no others, except while a reload is
\* between stopping and publishing.
OwnedMatch ==
  \A v \in Versions, k \in Services :
    LET p == owner[v] IN
    (p # 0 /\ ~(p = proxy /\ step \in {"wait", "publish"})) =>
      /\ service[v][k] # "done" <=> users[p] = v
      /\ service[v][k] = "run" /\ users[p] = v => ~done(v, k)

\* The caches of every reverseProxy's configuration are open, with those being
\* prepared or closed.
CachesOpen ==
  LET published == {users[p] : p \in Versions} \ {0}
      preparing == IF step \in {"signal", "wait", "publish"} THEN {version} ELSE {}
  IN  /\ caches = published \union preparing \union closing
      /\ (published \union preparing) \intersect closing = {}

\* The wildcarded users of the configuration being applied are known already.
WildcardAhead ==
  step \in {"signal", "wait", "publish"} /\ config[version].wild => hasWildcarded[proxy]

\* The values of main.applyConfig are stored from the first to the last, and
\* after the users.
Stored ==
  /\ \A i \in 1..5, j \in 1..5 : i <= j => front[j] <= front[i]
  /\ front[1] <= version
  /\ users[proxy] = 0 \/ front[1] <= users[proxy]

\* What request r has read is not newer than what it reads next.
Reads(r) ==
  /\ pc[r] = "handler" => ping[r] <= front[4]
  /\ pc[r] = "nets" => handler[r] <= front[2]
  /\ pc[r] = "enter" => nets[r] <= front[1]
  /\ pc[r] = "scope" => /\ rp[r] # 0 /\ nets[r] <= version
                        /\ users[rp[r]] = 0 \/ nets[r] <= users[rp[r]]

RInv ==
  /\ ReloadTypeOK /\ Progress /\ Owned
  /\ Listening /\ OwnedMatch /\ CachesOpen
  /\ WildcardKept /\ WildcardAhead
  /\ Stored /\ FrontOrder /\ \A r \in Requests : Reads(r)

----------------------------------------------------------------------------
(* The types, one group of variables at a time.                            *)

ReloadTypes ==
  /\ config \in Seq(Config) /\ version \in Versions
  /\ signalled \in BOOLEAN
  /\ step \in {"idle", "replace", "prepare", "signal", "wait", "publish", "store"}
  /\ front \in [1..5 -> Versions] /\ proxy \in Versions

ProxyTypes ==
  /\ closed \subseteq Versions
  /\ users \in [Versions -> 0..MaxVersion]
  /\ hasWildcarded \in [Versions -> BOOLEAN]
  /\ maxErrorReasonSize \in [Versions -> 0..MaxVersion]
  /\ reloadSignal \in [Versions -> 0..MaxVersion]

ServiceTypes ==
  /\ service \in [Versions -> [Services -> {"none", "new", "run", "done"}]]
  /\ heard \in [Versions -> [Services -> 0..MaxVersion]]
  /\ owner \in [Versions -> 0..MaxVersion]

CacheTypes == caches \subseteq Versions /\ closing \subseteq caches

RequestTypes ==
  /\ pc \in [Requests -> {"idle", "handler", "nets", "enter", "scope", "run"}]
  /\ ping \in [Requests -> 0..MaxVersion] /\ handler \in [Requests -> 0..MaxVersion]
  /\ nets \in [Requests -> 0..MaxVersion] /\ rp \in [Requests -> 0..MaxVersion]
  /\ scope \in [Requests -> 0..MaxVersion]

LEMMA StoresLength == Len(Stores) = 5
BY Zenon DEF Stores

LEMMA TypeGroups ==
  ReloadTypeOK <=> ReloadTypes /\ ProxyTypes /\ ServiceTypes /\ CacheTypes /\ RequestTypes
BY StoresLength, Zenon
   DEF ReloadTypeOK, ReloadTypes, ProxyTypes, ServiceTypes, CacheTypes, RequestTypes

LEMMA TypeGroupsNext ==
  ReloadTypes' /\ ProxyTypes' /\ ServiceTypes' /\ CacheTypes' /\ RequestTypes' => ReloadTypeOK'
BY StoresLength, Zenon
   DEF ReloadTypeOK, ReloadTypes, ProxyTypes, ServiceTypes, CacheTypes, RequestTypes, Stores

\* Versions are numbers, and 0 is none of them.
LEMMA VersionRange ==
  /\ MaxVersion \in Nat /\ 1 \in Versions
  /\ \A v \in Versions : v \in Nat /\ v # 0 /\ v \in 0..MaxVersion
  /\ \A v \in 0..MaxVersion : v # 0 => v \in Versions
BY ReloadAssumption DEF Versions

\* A file that is loaded is the newest version and changes none before it.
LEMMA Loaded ==
  ASSUME config \in Seq(Config), NEW c \in Config, config' = Append(config, c)
  PROVE  /\ config' \in Seq(Config)
         /\ version' = version + 1
         /\ \A i \in 1..version : config'[i] = config[i]
BY AppendProperties DEF version

\* What each step leaves alone.
LEMMA TypeSame ==
  /\ ReloadTypes /\ UNCHANGED reloadVars => ReloadTypes'
  /\ ProxyTypes /\ UNCHANGED proxyVars => ProxyTypes'
  /\ ServiceTypes /\ UNCHANGED serviceVars => ServiceTypes'
  /\ CacheTypes /\ UNCHANGED cacheVars => CacheTypes'
  /\ RequestTypes /\ UNCHANGED requestVars => RequestTypes'
<1>1. ReloadTypes /\ UNCHANGED reloadVars => ReloadTypes'
  BY Zenon DEF ReloadTypes, reloadVars, version
<1>2. ProxyTypes /\ UNCHANGED proxyVars => ProxyTypes'
  BY Zenon DEF ProxyTypes, proxyVars
<1>3. ServiceTypes /\ UNCHANGED serviceVars => ServiceTypes'
  BY Zenon DEF ServiceTypes, serviceVars
<1>4. CacheTypes /\ UNCHANGED cacheVars => CacheTypes'
  BY Zenon DEF CacheTypes, cacheVars
<1>5. RequestTypes /\ UNCHANGED requestVars => RequestTypes'
  BY Zenon DEF RequestTypes, requestVars
<1> QED  BY <1>1, <1>2, <1>3, <1>4, <1>5, Zenon

\* The types are kept by the reload goroutine.
LEMMA ReloadTypeStep ==
  ASSUME RInv, reloadConfig
  PROVE  ReloadTypeOK'
<1>t. ReloadTypes /\ ProxyTypes /\ ServiceTypes /\ CacheTypes /\ RequestTypes
  BY TypeGroups, Zenon DEF RInv
<1>v. version \in Versions /\ proxy \in Versions /\ version \in 0..MaxVersion
  BY <1>t, VersionRange, Zenon DEF ReloadTypes
<1>r. RequestTypes'
  BY <1>t, TypeSame, Zenon
     DEF reloadConfig, loadConfig, newReverseProxy, prepare, closeSignal, restartWithNewConfig,
         publish, store
<1>1. CASE loadConfig
  <2>1. ProxyTypes' /\ ServiceTypes' /\ CacheTypes'
    BY <1>1, <1>t, TypeSame, Zenon DEF loadConfig
  <2>2. ReloadTypes'
    <3>1. UNCHANGED <<front, proxy>> /\ signalled' = FALSE /\ step' \in {step, "replace"}
      BY <1>1, Zenon DEF loadConfig
    <3>2. CASE UNCHANGED config
      BY <1>t, <3>1, <3>2, Zenon DEF ReloadTypes, version
    <3>3. ASSUME NEW c \in Config, config' = Append(config, c), version < MaxVersion
          PROVE  ReloadTypes'
      <4>1. config' \in Seq(Config) /\ version' = version + 1
        BY <1>t, <3>3, Loaded, Zenon DEF ReloadTypes
      <4>2. version' \in Versions
        BY <1>v, <3>3, <4>1, ReloadAssumption DEF Versions
      <4> QED  BY <1>t, <3>1, <4>1, <4>2, Zenon DEF ReloadTypes
    <3> QED  BY <1>1, <3>2, <3>3, Zenon DEF loadConfig
  <2> QED  BY <1>r, <2>1, <2>2, TypeGroupsNext, Zenon
<1>2. CASE newReverseProxy
  <2>1. ProxyTypes' /\ ServiceTypes' /\ CacheTypes'
    BY <1>2, <1>t, TypeSame, Zenon DEF newReverseProxy
  <2>2. ReloadTypes'
    BY <1>2, <1>t, <1>v, Zenon DEF newReverseProxy, ReloadTypes, version
  <2> QED  BY <1>r, <2>1, <2>2, TypeGroupsNext, Zenon
<1>3. CASE prepare
  <2>1. ReloadTypes' /\ ServiceTypes'
    BY <1>3, <1>t, TypeSame, Zenon DEF prepare, ReloadTypes, version
  <2>2. CacheTypes'
    BY <1>3, <1>t, <1>v, Zenon DEF prepare, CacheTypes
  <2>3. ProxyTypes'
    <3>1. config[version].wild \in BOOLEAN
      <4>1. config[version] \in Config
        BY <1>t, <1>v, ElementOfSeq DEF ReloadTypes, version, Versions
      <4> QED  BY <4>1, Zenon DEF Config
    <3>2. hasWildcarded[proxy] \in BOOLEAN
      BY <1>t, <1>v, Zenon DEF ProxyTypes
    <3>3. setsWildcarded(proxy) \in BOOLEAN
      BY <3>1, <3>2, Zenon DEF setsWildcarded
    <3> QED  BY <1>3, <1>t, <1>v, <3>3, Zenon DEF prepare, ProxyTypes
  <2> QED  BY <1>r, <2>1, <2>2, <2>3, TypeGroupsNext, Zenon
<1>4. CASE closeSignal
  <2>1. ReloadTypes' /\ ServiceTypes' /\ CacheTypes'
    BY <1>4, <1>t, TypeSame, Zenon DEF closeSignal, ReloadTypes, version
  <2>2. ProxyTypes'
    BY <1>4, <1>t, <1>v, Zenon DEF closeSignal, ProxyTypes
  <2> QED  BY <1>r, <2>1, <2>2, TypeGroupsNext, Zenon
<1>5. CASE restartWithNewConfig
  <2>1. ReloadTypes' /\ CacheTypes'
    BY <1>5, <1>t, TypeSame, Zenon DEF restartWithNewConfig, ReloadTypes, version
  <2>2. ProxyTypes'
    BY <1>5, <1>t, <1>v, Zenon DEF restartWithNewConfig, ProxyTypes
  <2>3. ServiceTypes'
    <3>1. [k \in Services |-> "new"] \in [Services -> {"none", "new", "run", "done"}]
      BY Zenon
    <3>2. proxy \in 0..MaxVersion
      BY <1>v, VersionRange, Zenon
    <3> QED  BY <1>5, <1>t, <1>v, <3>1, <3>2, Zenon DEF restartWithNewConfig, ServiceTypes
  <2> QED  BY <1>r, <2>1, <2>2, <2>3, TypeGroupsNext, Zenon
<1>6. CASE publish
  <2>1. ReloadTypes' /\ ServiceTypes'
    BY <1>6, <1>t, TypeSame, Zenon DEF publish, ReloadTypes, version
  <2>2. ProxyTypes'
    BY <1>6, <1>t, <1>v, Zenon DEF publish, ProxyTypes
  <2>3. CacheTypes'
    <3>1. users[proxy] # 0 => users[proxy] \in caches
      <4>1. users[proxy] # 0 => users[proxy] \in {users[p] : p \in Versions} \ {0}
        BY <1>v, Zenon
      <4> QED  BY <4>1, Zenon DEF RInv, CachesOpen
    <3> QED  BY <1>6, <1>t, <3>1, Zenon DEF publish, CacheTypes
  <2> QED  BY <1>r, <2>1, <2>2, <2>3, TypeGroupsNext, Zenon
<1>7. CASE store
  <2>1. ProxyTypes' /\ ServiceTypes' /\ CacheTypes'
    BY <1>7, <1>t, TypeSame, Zenon DEF store
  <2>2. PICK k \in 1..5 : front' = [front EXCEPT ![k] = version]
    BY <1>7, StoresLength, Zenon DEF store
  <2>3. ReloadTypes'
    BY <1>7, <1>t, <1>v, <2>2, Zenon DEF store, ReloadTypes, version
  <2> QED  BY <1>r, <2>1, <2>3, TypeGroupsNext, Zenon
<1> QED
  BY <1>1, <1>2, <1>3, <1>4, <1>5, <1>6, <1>7, Zenon DEF reloadConfig

\* What the other goroutines do.
otherStep ==
  \/ Signal
  \/ \E v \in Versions, k \in Services : StartService(v, k) \/ StopService(v, k)
  \/ \E v \in Versions : CloseCache(v)
  \/ \E r \in Requests : serveHTTP(r)

\* The types are kept by them as well.
LEMMA OtherTypeStep ==
  ASSUME RInv, otherStep
  PROVE  ReloadTypeOK'
<1>t. ReloadTypes /\ ProxyTypes /\ ServiceTypes /\ CacheTypes /\ RequestTypes
  BY TypeGroups, Zenon DEF RInv
<1>1. CASE Signal
  BY <1>1, <1>t, TypeSame, TypeGroupsNext, Zenon DEF Signal, ReloadTypes, version
<1>2. ASSUME NEW v \in Versions, NEW k \in Services, StartService(v, k) \/ StopService(v, k)
      PROVE  ReloadTypeOK'
  <2>1. ReloadTypes' /\ ProxyTypes' /\ CacheTypes' /\ RequestTypes'
    BY <1>2, <1>t, TypeSame, Zenon DEF StartService, StopService
  <2>2. ServiceTypes'
    <3>1. 0 \in 0..MaxVersion
      BY VersionRange
    <3>2. CASE StartService(v, k)
      <4>1. owner[v] \in Versions
        <5>1. owner[v] # 0
          BY <3>2, Zenon DEF StartService, RInv, Listening
        <5> QED  BY <1>t, <5>1, VersionRange, Zenon DEF ServiceTypes
      <4>2. reloadSignal[owner[v]] \in 0..MaxVersion
        BY <1>t, <4>1, Zenon DEF ProxyTypes
      <4> QED  BY <1>t, <3>2, <4>2, Zenon DEF StartService, ServiceTypes
    <3>3. CASE StopService(v, k)
      BY <1>t, <3>1, <3>3, Zenon DEF StopService, ServiceTypes
    <3> QED  BY <1>2, <3>2, <3>3, Zenon
  <2> QED  BY <2>1, <2>2, TypeGroupsNext, Zenon
<1>3. ASSUME NEW v \in Versions, CloseCache(v)
      PROVE  ReloadTypeOK'
  <2>1. ReloadTypes' /\ ProxyTypes' /\ ServiceTypes' /\ RequestTypes'
    BY <1>3, <1>t, TypeSame, Zenon DEF CloseCache
  <2>2. CacheTypes'
    BY <1>3, <1>t, Zenon DEF CloseCache, CacheTypes
  <2> QED  BY <2>1, <2>2, TypeGroupsNext, Zenon
<1>4. ASSUME NEW r \in Requests, serveHTTP(r)
      PROVE  ReloadTypeOK'
  <2>1. ReloadTypes' /\ ProxyTypes' /\ ServiceTypes' /\ CacheTypes'
    BY <1>4, <1>t, TypeSame, Zenon
       DEF serveHTTP, Arrive, LoadHandler, LoadNetworks, ServeHTTP, getScope, Refuse, Finish
  <2>2. /\ 0 \in 0..MaxVersion /\ proxy \in 0..MaxVersion
        /\ \A k \in 1..5 : front[k] \in 0..MaxVersion
    BY <1>t, VersionRange DEF ReloadTypes
  <2>3. ASSUME Arrive(r) \/ LoadHandler(r) \/ LoadNetworks(r) \/ ServeHTTP(r)
        PROVE  RequestTypes'
    <3>1. front[1] \in 0..MaxVersion /\ front[2] \in 0..MaxVersion /\ front[4] \in 0..MaxVersion
          /\ front[5] \in 0..MaxVersion
      BY <2>2
    <3>2. pc' \in [Requests -> {"idle", "handler", "nets", "enter", "scope", "run"}]
      BY <1>t, <2>3, Zenon DEF Arrive, LoadHandler, LoadNetworks, ServeHTTP, RequestTypes
    <3>3. CASE Arrive(r)
      <4>1. PICK v \in {0, front[5]} : ping' = [ping EXCEPT ![r] = v]
        BY <3>3, Zenon DEF Arrive
      <4>2. v \in 0..MaxVersion
        BY <2>2, <3>1, Zenon
      <4>3. ping' \in [Requests -> 0..MaxVersion]
        BY <1>t, <4>1, <4>2, Zenon DEF RequestTypes
      <4> QED  BY <1>t, <3>2, <3>3, <4>3, Zenon DEF Arrive, RequestTypes
    <3>4. CASE LoadHandler(r)
      BY <1>t, <3>1, <3>2, <3>4, Zenon DEF LoadHandler, RequestTypes
    <3>5. CASE LoadNetworks(r)
      <4>1. PICK k \in {1, 2} : nets' = [nets EXCEPT ![r] = front[k]]
        BY <3>5, Zenon DEF LoadNetworks
      <4>2. front[k] \in 0..MaxVersion
        BY <3>1, Zenon
      <4>3. nets' \in [Requests -> 0..MaxVersion]
        BY <1>t, <4>1, <4>2, Zenon DEF RequestTypes
      <4> QED  BY <1>t, <3>2, <3>5, <4>3, Zenon DEF LoadNetworks, RequestTypes
    <3>6. CASE ServeHTTP(r)
      BY <1>t, <2>2, <3>2, <3>6, Zenon DEF ServeHTTP, RequestTypes
    <3> QED  BY <2>3, <3>3, <3>4, <3>5, <3>6, Zenon
  <2>4. ASSUME getScope(r)
        PROVE  RequestTypes'
    <3>1. rp[r] \in Versions
      <4>1. rp[r] # 0
        BY <2>4, Zenon DEF getScope, RInv, Reads
      <4> QED  BY <1>t, <4>1, VersionRange, Zenon DEF RequestTypes
    <3>2. users[rp[r]] \in 0..MaxVersion
      BY <1>t, <3>1, Zenon DEF ProxyTypes
    <3> QED  BY <1>t, <2>4, <3>2, Zenon DEF getScope, RequestTypes
  <2>5. ASSUME Refuse(r) \/ Finish(r)
        PROVE  RequestTypes'
    <3>1. return(r)
      BY <2>5, Zenon DEF Refuse, Finish
    <3>2. pc' \in [Requests -> {"idle", "handler", "nets", "enter", "scope", "run"}]
      BY <1>t, <3>1, Zenon DEF return, RequestTypes
    <3>3. ping' \in [Requests -> 0..MaxVersion] /\ handler' \in [Requests -> 0..MaxVersion]
      BY <1>t, <2>2, <3>1, Zenon DEF return, RequestTypes
    <3>4. nets' \in [Requests -> 0..MaxVersion] /\ rp' \in [Requests -> 0..MaxVersion]
      BY <1>t, <2>2, <3>1, Zenon DEF return, RequestTypes
    <3>5. scope' \in [Requests -> 0..MaxVersion]
      BY <1>t, <2>2, <3>1, Zenon DEF return, RequestTypes
    <3> QED  BY <3>2, <3>3, <3>4, <3>5, Zenon DEF RequestTypes
  <2>6. RequestTypes'
    BY <1>4, <2>3, <2>4, <2>5, Zenon DEF serveHTTP
  <2> QED  BY <2>1, <2>6, TypeGroupsNext, Zenon
<1> QED  BY <1>1, <1>2, <1>3, <1>4, Zenon DEF otherStep

\* What the reload goroutine works on is left alone by them; they start and stop
\* service goroutines and close caches.
LEMMA OthersLeave ==
  ASSUME otherStep
  PROVE  /\ UNCHANGED <<config, step, front, proxy, users, hasWildcarded, reloadSignal, closed, owner>>
         /\ version' = version
         /\ caches' \subseteq caches
<1>1. /\ UNCHANGED <<config, step, front, proxy, users, hasWildcarded, reloadSignal, closed, owner>>
      /\ caches' \subseteq caches
  BY Zenon DEF otherStep, Signal, StartService, StopService, CloseCache, serveHTTP, Arrive, LoadHandler,
     LoadNetworks, ServeHTTP, getScope, Refuse, Finish, reloadVars, proxyVars, serviceVars, cacheVars
<1> QED  BY <1>1, Zenon DEF version

----------------------------------------------------------------------------
(* How far a reload has come.                                              *)

LEMMA ProgressStep ==
  ASSUME RInv, ReloadTypeOK', Next
  PROVE  Progress' /\ Owned'
<1>p. Progress /\ Owned
  BY Zenon DEF RInv
<1>t. /\ version \in Versions /\ proxy \in Versions /\ version' \in Versions
      /\ users \in [Versions -> 0..MaxVersion] /\ owner \in [Versions -> 0..MaxVersion]
  BY Zenon DEF RInv, ReloadTypeOK
<1>n. version \in Nat /\ proxy \in Nat /\ version' \in Nat /\ proxy # 0 /\ version # 0
  BY <1>t, VersionRange, Zenon
<1>1. CASE otherStep
  <2>1. UNCHANGED <<step, proxy, users, closed, owner>> /\ version' = version /\ caches' \subseteq caches
    BY <1>1, OthersLeave, Zenon
  <2>2. \A v \in Versions : New(v) => New(v)'
    BY <2>1, Zenon DEF New
  <2> QED  BY <1>p, <1>t, <2>1, <2>2, Zenon DEF Progress, Owned
<1>2. CASE loadConfig
  <2>1. UNCHANGED <<proxy, users, closed, owner, caches>> /\ step = "idle"
    BY <1>2, Zenon DEF loadConfig, proxyVars, serviceVars, cacheVars
  <2>2. \A v \in Versions : New(v) => New(v)'
    BY <2>1, Zenon DEF New
  <2>3. CASE UNCHANGED <<config, step>>
    BY <1>p, <1>t, <2>1, <2>2, <2>3, Zenon DEF Progress, Owned, version
  <2>4. ASSUME NEW c \in Config, config' = Append(config, c), step' = "replace"
        PROVE  Progress' /\ Owned'
    <3>1. version' = version + 1
      BY <2>4, Loaded, Zenon DEF RInv, ReloadTypeOK
    <3>2. version' > version /\ proxy <= version'
      BY <1>n, <1>p, <3>1 DEF Progress
    <3>3. \A v \in Versions : v > version' => v > version
      BY <1>n, <3>1, VersionRange
    <3>4. \A p \in Versions : users[p] # 0 => users[p] <= version'
      BY <1>n, <1>t, <1>p, <3>1 DEF Owned
    <3>6. New(version')
      BY <1>t, <1>p, <3>2, Zenon DEF Progress
    <3>7. (New(version))'
      BY <1>t, <2>1, <3>6, Zenon DEF New
    <3>8. Progress'
      BY <1>p, <2>1, <2>2, <2>4, <3>2, <3>3, <3>7, Zenon DEF Progress
    <3> QED  BY <1>p, <2>1, <3>4, <3>8, Zenon DEF Owned
  <2> QED  BY <1>2, <2>3, <2>4, Zenon DEF loadConfig
<1>3. CASE newReverseProxy
  <2>1. /\ UNCHANGED <<config, users, closed, owner, caches>> /\ step = "replace" /\ step' = "prepare"
        /\ proxy' \in {proxy, version} /\ version' = version
    BY <1>3, Zenon DEF newReverseProxy, proxyVars, serviceVars, cacheVars, version
  <2>2. \A v \in Versions : New(v) => New(v)'
    BY <2>1, Zenon DEF New
  <2>3. proxy' <= version
    BY <1>n, <1>p, <2>1 DEF Progress
  <2>4. New(version)'
    BY <1>p, <1>t, <2>1, <2>2, Zenon DEF Progress
  <2>5. Progress'
    BY <1>p, <2>1, <2>2, <2>3, <2>4, Zenon DEF Progress
  <2> QED  BY <1>p, <2>1, <2>5, Zenon DEF Owned
<1>4. CASE prepare
  <2>1. /\ UNCHANGED <<proxy, users, closed, owner>> /\ version' = version
        /\ step = "prepare" /\ step' \in {"signal", "idle"} /\ caches' \subseteq caches \union {version}
    BY <1>4, Zenon DEF prepare, serviceVars, version
  <2>2. \A v \in Versions : v > version => v # version
    BY <1>n, VersionRange
  <2>3. \A v \in Versions : v > version => New(v)'
    BY <1>p, <2>1, <2>2, Zenon DEF New, Progress
  <2>4. New(version)
    BY <1>p, <2>1, Zenon DEF Progress
  <2>5. Progress'
    BY <1>p, <2>1, <2>3, <2>4, Zenon DEF Progress, New
  <2> QED  BY <1>p, <2>1, <2>5, Zenon DEF Owned
<1>5. CASE closeSignal
  <2>1. /\ UNCHANGED <<proxy, users, owner, caches>> /\ version' = version
        /\ step = "signal" /\ step' = "wait" /\ closed' = closed \union {proxy}
    BY <1>5, Zenon DEF closeSignal, serviceVars, cacheVars, version
  <2>2. \A v \in Versions : New(v) => New(v)'
    BY <2>1, Zenon DEF New
  <2>3. closed' = {proxy}
    BY <1>p, <2>1, Zenon DEF Progress
  <2>4. Progress'
    BY <1>p, <2>1, <2>2, <2>3, Zenon DEF Progress
  <2> QED  BY <1>p, <2>1, <2>4, Zenon DEF Owned
<1>6. CASE restartWithNewConfig
  <2>1. /\ UNCHANGED <<proxy, users, caches>> /\ version' = version
        /\ step = "wait" /\ step' = "publish" /\ closed' = closed \ {proxy}
        /\ owner' = [owner EXCEPT ![version] = proxy]
    BY <1>6, Zenon DEF restartWithNewConfig, cacheVars, version
  <2>2. \A v \in Versions : v > version => v # version
    BY <1>n, VersionRange
  <2>3. /\ owner'[version] = proxy
        /\ \A v \in Versions : v # version => owner'[v] = owner[v]
    BY <1>t, <2>1, Zenon
  <2>4. \A v \in Versions : v > version => New(v)'
    BY <1>p, <2>1, <2>2, <2>3, Zenon DEF New, Progress
  <2>5. closed' = {}
    BY <1>p, <2>1, Zenon DEF Progress
  <2>6. \A p \in Versions : users[p] # version
    BY <1>p, <2>1, Zenon DEF Progress
  <2>7. Progress'
    BY <1>p, <2>1, <2>3, <2>4, <2>5, <2>6, Zenon DEF Progress
  <2>8. \A p \in Versions : users[p] # 0 => users[p] \in Versions
    BY <1>t, VersionRange, Zenon
  <2> QED  BY <1>p, <2>1, <2>3, <2>6, <2>7, <2>8, Zenon DEF Owned
<1>7. CASE publish
  <2>1. /\ UNCHANGED <<proxy, owner, closed, caches>> /\ version' = version
        /\ step = "publish" /\ step' = "store" /\ users' = [users EXCEPT ![proxy] = version]
    BY <1>7, Zenon DEF publish, serviceVars, version
  <2>2. \A v \in Versions : v > version => v # version /\ v # proxy
    BY <1>n, <1>p, VersionRange DEF Progress
  <2>3. /\ users'[proxy] = version
        /\ \A v \in Versions : v # proxy => users'[v] = users[v]
    BY <1>t, <2>1, Zenon
  <2>4. \A v \in Versions : v > version => New(v)'
    BY <1>p, <2>1, <2>2, <2>3, Zenon DEF New, Progress
  <2>5. Progress'
    BY <1>p, <2>1, <2>3, <2>4, Zenon DEF Progress
  <2>6. owner[version] = proxy /\ version <= version
    BY <1>p, <1>n, <2>1 DEF Progress
  <2> QED  BY <1>p, <2>1, <2>3, <2>5, <2>6, Zenon DEF Owned
<1>8. CASE store
  <2>1. /\ UNCHANGED <<proxy, users, owner, closed, caches>> /\ version' = version
        /\ step = "store" /\ step' \in {"idle", "store"}
    BY <1>8, Zenon DEF store, proxyVars, serviceVars, cacheVars, version
  <2>2. \A v \in Versions : New(v) => New(v)'
    BY <2>1, Zenon DEF New
  <2>3. Progress'
    BY <1>p, <2>1, <2>2, Zenon DEF Progress
  <2> QED  BY <1>p, <2>1, <2>3, Zenon DEF Owned
<1> QED
  BY <1>1, <1>2, <1>3, <1>4, <1>5, <1>6, <1>7, <1>8, Zenon DEF Next, otherStep, reloadConfig

----------------------------------------------------------------------------
(* The service goroutines.                                                 *)

\* A step that changes neither them nor what they look at, and that is not
\* within the time a reload stops and starts them.
LEMMA ServicesSame ==
  ASSUME Listening, OwnedMatch,
         UNCHANGED <<serviceVars, users, reloadSignal, closed>>,
         \/ UNCHANGED <<step, proxy>> /\ version' = version
         \/ step \notin {"wait", "publish"} /\ step' \notin {"wait", "publish"}
  PROVE  Listening' /\ OwnedMatch'
<1>1. Listening'
  BY Zenon DEF Listening, serviceVars
<1>2. OwnedMatch'
  BY Zenon DEF OwnedMatch, done, serviceVars
<1> QED  BY <1>1, <1>2, Zenon

\* restartWithNewConfig starts them after the old ones are gone.
LEMMA ServicesRestart ==
  ASSUME RInv, restartWithNewConfig
  PROVE  Listening' /\ OwnedMatch'
<1>p. Progress /\ Listening /\ OwnedMatch
  BY Zenon DEF RInv
<1>t. /\ version \in Versions /\ proxy \in Versions /\ proxy # 0
      /\ owner \in [Versions -> 0..MaxVersion] /\ reloadSignal \in [Versions -> 0..MaxVersion]
      /\ service \in [Versions -> [Services -> {"none", "new", "run", "done"}]]
  BY VersionRange, Zenon DEF RInv, ReloadTypeOK
<1>1. /\ UNCHANGED <<proxy, users, heard>> /\ version' = version
      /\ step = "wait" /\ step' = "publish"
      /\ owner' = [owner EXCEPT ![version] = proxy]
      /\ service' = [service EXCEPT ![version] = [k \in Services |-> "new"]]
      /\ reloadSignal' = [reloadSignal EXCEPT ![proxy] = version]
  BY Zenon DEF restartWithNewConfig, version
<1>2. /\ owner'[version] = proxy
      /\ \A v \in Versions : v # version => owner'[v] = owner[v]
  BY <1>t, <1>1, Zenon
<1>3. /\ \A k \in Services : service'[version][k] = "new"
      /\ \A v \in Versions : v # version => service'[v] = service[v]
  BY <1>t, <1>1, Zenon
<1>4. \A p \in 0..MaxVersion : p # proxy => reloadSignal'[p] = reloadSignal[p]
  BY <1>t, <1>1
<1>5. closed = {proxy} /\ closed' = {}
  BY <1>p, <1>1, Zenon DEF Progress, restartWithNewConfig
<1>6. \A v \in Versions, k \in Services : owner[v] = proxy => service[v][k] = "done"
  BY <1>p, <1>t, Zenon DEF restartWithNewConfig, waited, Listening
<1>7. Listening'
  <2> SUFFICES ASSUME NEW v \in Versions, NEW k \in Services
               PROVE  /\ owner'[v] = 0 <=> service'[v][k] = "none"
                      /\ service'[v][k] = "run" => heard'[v][k] = reloadSignal'[owner'[v]]
                      /\ step' = "publish" /\ owner'[v] = proxy' =>
                           (service'[v][k] = "done" <=> v # version')
                      /\ step' # "wait"
    BY Zenon DEF Listening
  <2>1. CASE v = version
    BY <1>t, <1>1, <1>2, <1>3, <2>1, Zenon
  <2>2. CASE v # version
    <3>1. owner'[v] = owner[v] /\ service'[v][k] = service[v][k] /\ heard'[v][k] = heard[v][k]
      BY <1>1, <1>2, <1>3, <2>2, Zenon
    <3>2. /\ owner[v] = 0 <=> service[v][k] = "none"
          /\ service[v][k] = "run" => heard[v][k] = reloadSignal[owner[v]]
      BY <1>p, Zenon DEF Listening
    <3>3. owner[v] \in 0..MaxVersion
      BY <1>t, Zenon
    <3>4. service[v][k] = "run" => reloadSignal'[owner[v]] = reloadSignal[owner[v]]
      BY <1>4, <1>6, <3>3, Zenon
    <3> QED  BY <1>1, <1>6, <2>2, <3>1, <3>2, <3>4, Zenon
  <2> QED  BY <2>1, <2>2, Zenon
<1>8. OwnedMatch'
  <2> SUFFICES ASSUME NEW v \in Versions, NEW k \in Services,
                      owner'[v] # 0, ~(owner'[v] = proxy' /\ step' \in {"wait", "publish"})
               PROVE  /\ service'[v][k] # "done" <=> users'[owner'[v]] = v
                      /\ service'[v][k] = "run" /\ users'[owner'[v]] = v => ~done(v, k)'
    BY Zenon DEF OwnedMatch
  <2>1. owner'[v] # proxy /\ v # version
    BY <1>1, <1>2, Zenon
  <2>2. owner'[v] = owner[v] /\ service'[v][k] = service[v][k] /\ heard'[v][k] = heard[v][k]
    BY <1>1, <1>2, <1>3, <2>1, Zenon
  <2>3. reloadSignal'[owner[v]] = reloadSignal[owner[v]]
    BY <1>4, <1>t, <2>1, <2>2, Zenon
  <2>4. /\ service[v][k] # "done" <=> users[owner[v]] = v
        /\ service[v][k] = "run" /\ users[owner[v]] = v => ~done(v, k)
    BY <1>p, <2>1, <2>2, Zenon DEF OwnedMatch
  <2>5. done(v, k)' => done(v, k)
    BY <1>5, <2>2, <2>3, Zenon DEF done
  <2> QED  BY <1>1, <2>2, <2>4, <2>5, Zenon
<1> QED  BY <1>7, <1>8, Zenon

\* A goroutine that starts, and one that stops.
LEMMA ServicesRun ==
  ASSUME RInv, NEW w \in Versions, NEW l \in Services, StartService(w, l) \/ StopService(w, l)
  PROVE  Listening' /\ OwnedMatch'
<1>p. Progress /\ Listening /\ OwnedMatch
  BY Zenon DEF RInv
<1>t. /\ heard \in [Versions -> [Services -> 0..MaxVersion]]
      /\ service \in [Versions -> [Services -> {"none", "new", "run", "done"}]]
  BY Zenon DEF RInv, ReloadTypeOK
<1>1. UNCHANGED <<step, proxy, users, reloadSignal, closed, owner>> /\ version' = version
  BY Zenon DEF StartService, StopService, reloadVars, proxyVars, version
<1>2. \A v \in Versions, k \in Services : ~(v = w /\ k = l) =>
        service'[v][k] = service[v][k] /\ heard'[v][k] = heard[v][k]
  BY <1>t DEF StartService, StopService
<1>3. /\ owner[w] = 0 <=> service[w][l] = "none"
      /\ service[w][l] = "run" => heard[w][l] = reloadSignal[owner[w]]
      /\ step = "publish" /\ owner[w] = proxy => (service[w][l] = "done" <=> w # version)
      /\ step = "wait" /\ owner[w] = proxy => (service[w][l] # "done" => users[proxy] = w)
  BY <1>p, Zenon DEF Listening
<1>4. owner[w] # 0 /\ ~(owner[w] = proxy /\ step \in {"wait", "publish"}) =>
        /\ service[w][l] # "done" <=> users[owner[w]] = w
        /\ service[w][l] = "run" /\ users[owner[w]] = w => ~done(w, l)
  BY <1>p, Zenon DEF OwnedMatch
<1>5. owner[w] \in closed <=> step = "wait" /\ owner[w] = proxy
  BY <1>p, Zenon DEF Progress
<1>6. CASE StartService(w, l)
  <2>1. /\ service[w][l] = "new" /\ service'[w][l] = "run"
        /\ heard'[w][l] = reloadSignal[owner[w]]
    BY <1>6, <1>t, Zenon DEF StartService
  <2>2. Listening'
    BY <1>p, <1>1, <1>2, <1>3, <2>1 DEF Listening
  <2>3. OwnedMatch'
    BY <1>p, <1>1, <1>2, <1>4, <1>5, <2>1 DEF OwnedMatch, done
  <2> QED  BY <2>2, <2>3, Zenon
<1>7. CASE StopService(w, l)
  <2>1. service[w][l] = "run" /\ service'[w][l] = "done" /\ done(w, l)
    BY <1>7, <1>t, Zenon DEF StopService
  <2>2. step = "wait" /\ owner[w] = proxy
    BY <1>3, <1>5, <2>1, Zenon DEF done
  <2>3. Listening'
    BY <1>p, <1>1, <1>2, <1>3, <2>1, <2>2 DEF Listening
  <2>4. OwnedMatch'
    BY <1>p, <1>1, <1>2, <2>2 DEF OwnedMatch, done
  <2> QED  BY <2>3, <2>4, Zenon
<1> QED  BY <1>6, <1>7, Zenon

LEMMA ServicesStep ==
  ASSUME RInv, Next
  PROVE  Listening' /\ OwnedMatch'
<1>p. Progress /\ Listening /\ OwnedMatch
  BY Zenon DEF RInv
<1>1. CASE Signal \/ (\E v \in Versions : CloseCache(v)) \/ \E r \in Requests : serveHTTP(r)
  <2>1. UNCHANGED <<serviceVars, users, reloadSignal, closed, step, proxy>> /\ version' = version
    BY <1>1, Zenon DEF Signal, CloseCache, serveHTTP, Arrive, LoadHandler, LoadNetworks, ServeHTTP,
       getScope, Refuse, Finish, reloadVars, proxyVars, version
  <2> QED  BY <1>p, <2>1, ServicesSame, Zenon
<1>2. CASE loadConfig \/ newReverseProxy \/ prepare \/ store
  <2>1. /\ UNCHANGED <<serviceVars, users, reloadSignal, closed>>
        /\ step \notin {"wait", "publish"} /\ step' \notin {"wait", "publish"}
    BY <1>2, Zenon DEF loadConfig, newReverseProxy, prepare, store, proxyVars
  <2> QED  BY <1>p, <2>1, ServicesSame, Zenon
<1>3. CASE closeSignal
  <2>1. /\ UNCHANGED <<service, heard, owner, users, reloadSignal, proxy>> /\ version' = version
        /\ step = "signal" /\ step' = "wait" /\ closed' = closed \union {proxy}
    BY <1>3, Zenon DEF closeSignal, serviceVars, version
  <2>2. Listening'
    <3>1. proxy # 0
      BY VersionRange, Zenon DEF RInv, ReloadTypeOK
    <3> QED  BY <1>p, <2>1, <3>1, Zenon DEF Listening, OwnedMatch
  <2>3. OwnedMatch'
    BY <1>p, <2>1, Zenon DEF OwnedMatch, done
  <2> QED  BY <2>2, <2>3, Zenon
<1>4. CASE restartWithNewConfig
  BY <1>4, ServicesRestart, Zenon
<1>5. CASE publish
  <2>1. /\ UNCHANGED <<service, heard, owner, reloadSignal, proxy, closed>> /\ version' = version
        /\ step = "publish" /\ step' = "store" /\ users' = [users EXCEPT ![proxy] = version]
    BY <1>5, Zenon DEF publish, serviceVars, version
  <2>2. Listening'
    BY <1>p, <2>1, Zenon DEF Listening
  <2>3. closed = {}
    BY <1>p, <2>1, Zenon DEF Progress
  <2>4. \A p \in 0..MaxVersion : p # 0 => users'[p] = IF p = proxy THEN version ELSE users[p]
    <3>1. users \in [Versions -> 0..MaxVersion]
      BY Zenon DEF RInv, ReloadTypeOK
    <3> QED  BY <2>1, <3>1, VersionRange, Zenon
  <2>5. owner \in [Versions -> 0..MaxVersion]
    BY Zenon DEF RInv, ReloadTypeOK
  <2>6. OwnedMatch'
    <3> SUFFICES ASSUME NEW v \in Versions, NEW k \in Services, owner'[v] # 0
                 PROVE  /\ service'[v][k] # "done" <=> users'[owner'[v]] = v
                        /\ service'[v][k] = "run" /\ users'[owner'[v]] = v => ~done(v, k)'
      BY Zenon DEF OwnedMatch
    <3>1. owner[v] \in 0..MaxVersion /\ owner[v] # 0
      BY <2>1, <2>5, Zenon
    <3>2. CASE owner[v] = proxy
      <4>1. users'[owner[v]] = version
        BY <2>4, <3>1, <3>2, Zenon
      <4>2. /\ service[v][k] = "run" => heard[v][k] = reloadSignal[owner[v]]
            /\ service[v][k] = "done" <=> v # version
        BY <1>p, <2>1, <3>2, Zenon DEF Listening
      <4> QED  BY <2>1, <2>3, <4>1, <4>2, Zenon DEF done
    <3>3. CASE owner[v] # proxy
      <4>1. users'[owner[v]] = users[owner[v]]
        BY <2>4, <3>1, <3>3, Zenon
      <4>2. /\ service[v][k] # "done" <=> users[owner[v]] = v
            /\ service[v][k] = "run" /\ users[owner[v]] = v => ~done(v, k)
        BY <1>p, <3>1, <3>3, Zenon DEF OwnedMatch
      <4> QED  BY <2>1, <4>1, <4>2, Zenon DEF done
    <3> QED  BY <3>2, <3>3, Zenon
  <2> QED  BY <2>2, <2>6, Zenon
<1>6. CASE \E v \in Versions, k \in Services : StartService(v, k) \/ StopService(v, k)
  BY <1>6, ServicesRun, Zenon
<1> QED
  BY <1>1, <1>2, <1>3, <1>4, <1>5, <1>6, Zenon DEF Next, reloadConfig

----------------------------------------------------------------------------
(* The caches.                                                             *)

Published == {users[p] : p \in Versions} \ {0}
Preparing == IF step \in {"signal", "wait", "publish"} THEN {version} ELSE {}

LEMMA CachesMean ==
  CachesOpen <=> /\ caches = Published \union Preparing \union closing
                  /\ (Published \union Preparing) \intersect closing = {}
BY Zenon DEF CachesOpen, Published, Preparing

LEMMA CachesStep ==
  ASSUME RInv, Next
  PROVE  CachesOpen'
<1>p. Progress /\ Owned /\ closing \subseteq caches
  BY Zenon DEF RInv, ReloadTypeOK
<1>c. /\ caches = Published \union Preparing \union closing
      /\ (Published \union Preparing) \intersect closing = {}
  BY CachesMean, Zenon DEF RInv
<1>t. /\ version \in Versions /\ proxy \in Versions /\ version # 0
      /\ users \in [Versions -> 0..MaxVersion]
  BY VersionRange, Zenon DEF RInv, ReloadTypeOK
<1>m. ASSUME /\ caches' = Published' \union Preparing' \union closing'
             /\ (Published' \union Preparing') \intersect closing' = {}
      PROVE  CachesOpen'
  BY <1>m, Zenon DEF CachesOpen, Published, Preparing
<1>1. ASSUME UNCHANGED <<users, caches, closing>>, Preparing' = Preparing
      PROVE  CachesOpen'
  <2>1. Published' = Published
    BY <1>1, Zenon DEF Published
  <2> QED  BY <1>c, <1>m, <1>1, <2>1, Zenon
<1>2. CASE Signal \/ (\E v \in Versions, k \in Services : StartService(v, k) \/ StopService(v, k))
           \/ (\E r \in Requests : serveHTTP(r))
  <2>1. UNCHANGED <<users, caches, closing, step>> /\ version' = version
    BY <1>2, Zenon DEF Signal, StartService, StopService, serveHTTP, Arrive, LoadHandler, LoadNetworks,
       ServeHTTP, getScope, Refuse, Finish, reloadVars, proxyVars, cacheVars, version
  <2>2. Preparing' = Preparing
    BY <2>1, Zenon DEF Preparing
  <2> QED  BY <1>1, <2>1, <2>2, Zenon
<1>3. CASE loadConfig \/ newReverseProxy \/ store
  <2>1. /\ UNCHANGED <<users, caches, closing>>
        /\ step \in {"idle", "replace", "store"} /\ step' \in {"idle", "replace", "prepare", "store"}
    BY <1>3, Zenon DEF loadConfig, newReverseProxy, store, proxyVars, cacheVars
  <2>2. Preparing' = Preparing
    BY <2>1, Zenon DEF Preparing
  <2> QED  BY <1>1, <2>1, <2>2, Zenon
<1>4. CASE closeSignal \/ restartWithNewConfig
  <2>1. /\ UNCHANGED <<users, caches, closing>> /\ version' = version
        /\ step \in {"signal", "wait"} /\ step' \in {"wait", "publish"}
    BY <1>4, Zenon DEF closeSignal, restartWithNewConfig, cacheVars, version
  <2>2. Preparing' = Preparing
    BY <2>1, Zenon DEF Preparing
  <2> QED  BY <1>1, <2>1, <2>2, Zenon
<1>5. CASE prepare
  <2>1. step = "prepare" /\ UNCHANGED users /\ version' = version
    BY <1>5, Zenon DEF prepare, version
  <2>2. Preparing = {} /\ Published' = Published
    BY <2>1, Zenon DEF Preparing, Published
  <2>3. version \notin caches /\ version \notin Published /\ version \notin closing
    BY <1>p, <2>1, Zenon DEF Progress, New, Published
  <2>4. CASE clustersBuilt(config[version]) /\ usersBuilt(config[version])
    <3>1. caches' = caches \union {version} /\ closing' = closing /\ step' = "signal"
      BY <1>5, <2>4, Zenon DEF prepare
    <3>2. Preparing' = {version}
      BY <2>1, <3>1, Zenon DEF Preparing
    <3> QED  BY <1>c, <1>m, <2>2, <2>3, <3>1, <3>2, Zenon
  <2>5. CASE clustersBuilt(config[version]) /\ ~usersBuilt(config[version])
    <3>1. /\ caches' = caches \union {version} /\ closing' = closing \union {version}
          /\ step' = "idle"
      BY <1>5, <2>5, Zenon DEF prepare
    <3>2. Preparing' = {}
      BY <3>1, Zenon DEF Preparing
    <3> QED  BY <1>c, <1>m, <2>2, <2>3, <3>1, <3>2, Zenon
  <2>6. CASE ~clustersBuilt(config[version])
    <3>1. UNCHANGED <<caches, closing>> /\ step' = "idle"
      BY <1>5, <2>6, Zenon DEF prepare
    <3>2. Preparing' = {}
      BY <3>1, Zenon DEF Preparing
    <3> QED  BY <1>1, <2>1, <2>2, <3>1, <3>2, Zenon
  <2> QED  BY <2>4, <2>5, <2>6, Zenon
<1>6. CASE publish
  <2>1. /\ step = "publish" /\ step' = "store" /\ UNCHANGED caches
        /\ users' = [users EXCEPT ![proxy] = version]
        /\ closing' = closing \union ({users[proxy]} \ {0})
    BY <1>6, Zenon DEF publish
  <2>2. Preparing = {version} /\ Preparing' = {}
    BY <2>1, Zenon DEF Preparing
  <2>3. users'[proxy] = version /\ \A p \in Versions : p # proxy => users'[p] = users[p]
    BY <1>t, <2>1, Zenon
  <2>4. \A p \in Versions : users[p] # version
    BY <1>p, <2>1, Zenon DEF Progress
  <2>5. \A p \in Versions : p # proxy /\ users[p] # 0 => users[p] # users[proxy]
    BY <1>p, <1>t, Zenon DEF Owned
  <2>6. ASSUME NEW w \in Published'
        PROVE  w = version \/ (w \in Published /\ w # users[proxy])
    <3>1. PICK p \in Versions : w = users'[p] /\ w # 0
      BY <2>6, Zenon DEF Published
    <3> QED  BY <2>3, <2>5, <3>1, Zenon DEF Published
  <2>7. version \in Published'
    BY <1>t, <2>3, Zenon DEF Published
  <2>8. ASSUME NEW w \in Published
        PROVE  w = users[proxy] \/ w \in Published'
    <3>1. PICK p \in Versions : w = users[p] /\ w # 0
      BY <2>8, Zenon DEF Published
    <3> QED  BY <2>3, <3>1, Zenon DEF Published
  <2>9. \A w \in Published : w # 0
    BY Zenon DEF Published
  <2>10. users[proxy] # 0 => users[proxy] \in Published
    BY <1>t, Zenon DEF Published
  <2>11. caches' = Published' \union Preparing' \union closing'
    BY <1>c, <2>1, <2>2, <2>6, <2>7, <2>8, <2>9, <2>10, Zenon
  <2>12. (Published' \union Preparing') \intersect closing' = {}
    BY <1>c, <1>t, <2>1, <2>2, <2>4, <2>6, Zenon
  <2> QED  BY <1>m, <2>11, <2>12, Zenon
<1>7. ASSUME NEW v \in Versions, CloseCache(v)
      PROVE  CachesOpen'
  <2>1. /\ v \in closing /\ closing' = closing \ {v} /\ caches' = caches \ {v}
        /\ UNCHANGED <<users, step>> /\ version' = version
    BY <1>7, Zenon DEF CloseCache, reloadVars, proxyVars, version
  <2>2. Published' = Published /\ Preparing' = Preparing
    BY <2>1, Zenon DEF Published, Preparing
  <2> QED  BY <1>c, <1>m, <2>1, <2>2, Zenon
<1> QED
  BY <1>2, <1>3, <1>4, <1>5, <1>6, <1>7, Zenon DEF Next, reloadConfig

----------------------------------------------------------------------------
(* The wildcarded users.                                                   *)

LEMMA WildStep ==
  ASSUME RInv, Next
  PROVE  WildcardKept' /\ WildcardAhead'
<1>p. WildcardKept /\ WildcardAhead /\ Owned
  BY Zenon DEF RInv
<1>t. /\ config \in Seq(Config) /\ version \in Versions /\ proxy \in Versions
      /\ users \in [Versions -> 0..MaxVersion] /\ hasWildcarded \in [Versions -> BOOLEAN]
  BY Zenon DEF RInv, ReloadTypeOK
<1>1. CASE otherStep
  <2>1. UNCHANGED <<config, step, proxy, users, hasWildcarded>> /\ version' = version
    BY <1>1, OthersLeave, Zenon
  <2> QED  BY <1>p, <2>1, Zenon DEF WildcardKept, WildcardAhead
<1>2. CASE loadConfig
  <2>1. UNCHANGED <<users, hasWildcarded>> /\ step' \in {"idle", "replace"}
    BY <1>2, Zenon DEF loadConfig, proxyVars
  <2>2. \A p \in Versions : users[p] # 0 => users[p] \in 1..version
    BY <1>p, <1>t, VersionRange DEF Owned, Versions
  <2>3. \A p \in Versions : users[p] # 0 => config'[users[p]] = config[users[p]]
    BY <1>2, <1>t, <2>2, Loaded, Zenon DEF loadConfig
  <2>4. WildcardKept'
    BY <1>p, <2>1, <2>3, Zenon DEF WildcardKept
  <2>5. WildcardAhead'
    BY <2>1, Zenon DEF WildcardAhead
  <2> QED  BY <2>4, <2>5, Zenon
<1>3. CASE newReverseProxy \/ closeSignal \/ restartWithNewConfig \/ store
  <2>1. UNCHANGED <<config, users, hasWildcarded>> /\ version' = version
    BY <1>3, Zenon DEF newReverseProxy, closeSignal, restartWithNewConfig, store, proxyVars, version
  <2>2. WildcardKept'
    BY <1>p, <2>1, Zenon DEF WildcardKept
  <2>3. \/ step' \in {"prepare", "idle", "store"}
        \/ UNCHANGED proxy /\ step \in {"signal", "wait", "publish"}
    BY <1>3, Zenon DEF newReverseProxy, closeSignal, restartWithNewConfig, store
  <2>4. WildcardAhead'
    BY <1>p, <2>1, <2>3, Zenon DEF WildcardAhead
  <2> QED  BY <2>2, <2>4, Zenon
<1>4. CASE prepare
  <2>1. UNCHANGED <<config, users, proxy>> /\ version' = version
    BY <1>4, Zenon DEF prepare, version
  <2>2. CASE clustersBuilt(config[version])
    <3>1. hasWildcarded' = [hasWildcarded EXCEPT ![proxy] = setsWildcarded(proxy)]
      BY <1>4, <2>2, Zenon DEF prepare
    <3>2. /\ hasWildcarded'[proxy] = (hasWildcarded[proxy] \/ config[version].wild)
          /\ \A p \in Versions : p # proxy => hasWildcarded'[p] = hasWildcarded[p]
      BY <1>t, <3>1, Zenon DEF setsWildcarded
    <3> QED  BY <1>p, <2>1, <3>2, Zenon DEF WildcardKept, WildcardAhead
  <2>3. CASE ~clustersBuilt(config[version])
    <3>1. UNCHANGED hasWildcarded /\ step' = "idle"
      BY <1>4, <2>3, Zenon DEF prepare
    <3> QED  BY <1>p, <2>1, <3>1, Zenon DEF WildcardKept, WildcardAhead
  <2> QED  BY <2>2, <2>3, Zenon
<1>5. CASE publish
  <2>1. /\ UNCHANGED <<config, proxy, hasWildcarded>> /\ version' = version /\ step = "publish"
        /\ step' = "store" /\ users' = [users EXCEPT ![proxy] = version]
    BY <1>5, Zenon DEF publish, version
  <2>2. users'[proxy] = version /\ \A p \in Versions : p # proxy => users'[p] = users[p]
    BY <1>t, <2>1, Zenon
  <2>3. config[version].wild => hasWildcarded[proxy]
    BY <1>p, <2>1, Zenon DEF WildcardAhead
  <2> QED  BY <1>p, <2>1, <2>2, <2>3, Zenon DEF WildcardKept, WildcardAhead
<1> QED
  BY <1>1, <1>2, <1>3, <1>4, <1>5, Zenon DEF Next, otherStep, reloadConfig

----------------------------------------------------------------------------
(* The order in which values are stored and read.                          *)

\* A stored value is only replaced by a newer one.
Grows ==
  /\ \A k \in 1..5 : front[k] <= front'[k]
  /\ version <= version'
  /\ \A p \in Versions : users'[p] = users[p] \/ users'[p] = version'

LEMMA StoredStep ==
  ASSUME RInv, Next
  PROVE  Stored' /\ Grows
<1>p. Progress /\ Stored
  BY Zenon DEF RInv
<1>t. /\ version \in Versions /\ proxy \in Versions
      /\ users \in [Versions -> 0..MaxVersion]
      /\ front \in [1..5 -> Versions]
  BY StoresLength, Zenon DEF RInv, ReloadTypeOK
<1>n. version \in Nat /\ \A k \in 1..5 : front[k] \in Nat
  BY <1>t, VersionRange, Zenon
<1>1. ASSUME UNCHANGED <<front, users>>, version' = version,
             users[proxy'] = users[proxy] \/ users[proxy'] = 0
      PROVE  Stored' /\ Grows
  BY <1>p, <1>n, <1>1 DEF Stored, Grows
<1>2. CASE otherStep
  BY <1>1, <1>2, OthersLeave, Zenon
<1>3. CASE prepare \/ closeSignal \/ restartWithNewConfig
  <2>1. UNCHANGED <<front, users, proxy>> /\ version' = version
    BY <1>3, Zenon DEF prepare, closeSignal, restartWithNewConfig, version
  <2> QED  BY <1>1, <2>1, Zenon
<1>4. CASE loadConfig
  <2>1. UNCHANGED <<front, users, proxy>>
    BY <1>4, Zenon DEF loadConfig, proxyVars
  <2>2. version' = version \/ version' = version + 1
    BY <1>4, Loaded, Zenon DEF loadConfig, version, RInv, ReloadTypeOK
  <2> QED  BY <1>p, <1>n, <2>1, <2>2, 1 \in 1..5 DEF Stored, Grows
<1>5. CASE newReverseProxy
  <2>1. /\ UNCHANGED <<front, users>> /\ version' = version /\ step = "replace"
        /\ proxy' \in {proxy, version}
    BY <1>5, Zenon DEF newReverseProxy, proxyVars, version
  <2>2. users[version] = 0
    BY <1>p, <2>1, Zenon DEF Progress, New
  <2> QED  BY <1>1, <2>1, <2>2, Zenon
<1>6. CASE publish
  <2>1. /\ UNCHANGED <<front, proxy>> /\ version' = version
        /\ users' = [users EXCEPT ![proxy] = version]
    BY <1>6, Zenon DEF publish, version
  <2>2. users'[proxy] = version /\ \A p \in Versions : p # proxy => users'[p] = users[p]
    BY <1>t, <2>1, Zenon
  <2>3. Grows
    BY <1>n, <2>1, <2>2 DEF Grows
  <2> QED  BY <1>p, <2>1, <2>2, <2>3, Zenon DEF Stored
<1>7. CASE store
  <2>1. UNCHANGED <<users, proxy>> /\ version' = version /\ step = "store"
    BY <1>7, Zenon DEF store, proxyVars, version
  <2>2. PICK k \in 1..5 : toStore(k) /\ front' = [front EXCEPT ![k] = version]
    BY <1>7, StoresLength, Zenon DEF store
  <2>3. \A j \in 1..5 : front[j] <= version
    BY <1>p, <1>n DEF Stored
  <2>4. \A j \in 1..5 : front'[j] = IF j = k THEN version ELSE front[j]
    BY <1>t, <2>2, Zenon
  <2>5. \A j \in 1..5 : j < k => front[j] = version
    BY <2>2 DEF toStore
  <2>6. \A i \in 1..5, j \in 1..5 : i <= j => front'[j] <= front'[i]
    BY <1>p, <1>n, <2>3, <2>4, <2>5 DEF Stored
  <2>7. users[proxy] = version
    BY <1>p, <2>1, Zenon DEF Progress
  <2>8. front'[1] <= version
    BY <1>n, <2>3, <2>4
  <2>9. Grows
    BY <1>n, <2>1, <2>3, <2>4 DEF Grows
  <2> QED  BY <2>1, <2>6, <2>7, <2>8, <2>9, Zenon DEF Stored
<1> QED
  BY <1>2, <1>3, <1>4, <1>5, <1>6, <1>7, Zenon DEF Next, otherStep, reloadConfig

\* FrontOrder of one request.
Ordered(r) ==
  /\ pc[r] \in {"nets", "enter", "scope", "run"} => ping[r] <= handler[r]
  /\ pc[r] \in {"enter", "scope", "run"} => handler[r] <= nets[r]
  /\ pc[r] = "run" => nets[r] <= scope[r]

\* A request that does not move.
LEMMA ReadsSame ==
  ASSUME RInv, Grows, NEW r \in Requests,
         pc'[r] = pc[r], ping'[r] = ping[r], handler'[r] = handler[r], nets'[r] = nets[r],
         rp'[r] = rp[r], scope'[r] = scope[r],
         front' \in [1..5 -> Versions], version' \in Versions
  PROVE  Ordered(r)' /\ Reads(r)'
<1>p. Ordered(r) /\ Reads(r)
  BY Zenon DEF RInv, FrontOrder, Ordered
<1>1. Ordered(r)'
  BY <1>p, Zenon DEF Ordered
<1>t. /\ \A k \in 1..5 : front[k] \in Nat /\ front'[k] \in Nat
      /\ version \in Nat /\ version' \in Nat
  BY StoresLength, VersionRange, Zenon DEF RInv, ReloadTypeOK
<1>q. /\ ping[r] \in Nat /\ handler[r] \in Nat /\ nets[r] \in Nat
      /\ rp[r] # 0 => rp[r] \in Versions
  <2>1. /\ ping \in [Requests -> 0..MaxVersion] /\ handler \in [Requests -> 0..MaxVersion]
        /\ nets \in [Requests -> 0..MaxVersion] /\ rp \in [Requests -> 0..MaxVersion]
    BY TypeGroups, Zenon DEF RInv, RequestTypes
  <2> QED  BY <2>1, VersionRange
<1>2. pc[r] = "handler" => ping[r] <= front'[4]
  BY <1>p, <1>t, <1>q DEF Reads, Grows
<1>3. pc[r] = "nets" => handler[r] <= front'[2]
  BY <1>p, <1>t, <1>q DEF Reads, Grows
<1>4. pc[r] = "enter" => nets[r] <= front'[1]
  BY <1>p, <1>t, <1>q DEF Reads, Grows
<1>5. pc[r] = "scope" => /\ rp[r] # 0 /\ nets[r] <= version'
                         /\ users'[rp[r]] = 0 \/ nets[r] <= users'[rp[r]]
  <2> SUFFICES ASSUME pc[r] = "scope"
               PROVE  /\ rp[r] # 0 /\ nets[r] <= version'
                      /\ users'[rp[r]] = 0 \/ nets[r] <= users'[rp[r]]
    BY Zenon
  <2>1. rp[r] # 0 /\ nets[r] <= version /\ (users[rp[r]] = 0 \/ nets[r] <= users[rp[r]])
    BY <1>p, Zenon DEF Reads
  <2>2. nets[r] <= version'
    BY <1>t, <1>q, <2>1 DEF Grows
  <2>3. users'[rp[r]] = users[rp[r]] \/ users'[rp[r]] = version'
    BY <1>q, <2>1, Zenon DEF Grows
  <2> QED  BY <2>1, <2>2, <2>3, Zenon
<1>6. Reads(r)'
  BY <1>2, <1>3, <1>4, <1>5, Zenon DEF Reads
<1> QED  BY <1>1, <1>6, Zenon

\* A request that reads its next value.
LEMMA ReadsNext ==
  ASSUME RInv, NEW r \in Requests, serveHTTP(r)
  PROVE  Ordered(r)' /\ Reads(r)'
<1>p. Ordered(r) /\ Reads(r) /\ Stored
  BY Zenon DEF RInv, FrontOrder, Ordered
<1>u. /\ UNCHANGED <<front, users, proxy>> /\ version' = version
  BY Zenon DEF serveHTTP, Arrive, LoadHandler, LoadNetworks, ServeHTTP, getScope, Refuse, Finish,
     reloadVars, proxyVars, version
<1>t. /\ pc \in [Requests -> {"idle", "handler", "nets", "enter", "scope", "run"}]
      /\ ping \in [Requests -> 0..MaxVersion] /\ handler \in [Requests -> 0..MaxVersion]
      /\ nets \in [Requests -> 0..MaxVersion] /\ rp \in [Requests -> 0..MaxVersion]
      /\ scope \in [Requests -> 0..MaxVersion]
  BY TypeGroups, Zenon DEF RInv, RequestTypes
<1>f. \A k \in 1..5 : front[k] \in Nat
  BY StoresLength, VersionRange, Zenon DEF RInv, ReloadTypeOK
<1>o. front[5] <= front[4] /\ front[4] <= front[2] /\ front[2] <= front[1]
      /\ front[1] <= version /\ (users[proxy] = 0 \/ front[1] <= users[proxy])
  BY <1>p DEF Stored
<1>n. version \in Nat /\ proxy # 0 /\ ping[r] \in Nat /\ handler[r] \in Nat /\ nets[r] \in Nat
  BY <1>t, VersionRange DEF RInv, ReloadTypeOK
<1>1. CASE Arrive(r)
  <2>1. pc'[r] = "handler" /\ (ping'[r] = 0 \/ ping'[r] = front[5])
    BY <1>1, <1>t, Zenon DEF Arrive
  <2>2. ping'[r] <= front[4]
    BY <1>f, <1>o, <2>1
  <2> QED  BY <1>u, <2>1, <2>2, Zenon DEF Ordered, Reads
<1>2. CASE LoadHandler(r)
  <2>1. /\ pc[r] = "handler" /\ pc'[r] = "nets" /\ handler'[r] = front[4] /\ ping'[r] = ping[r]
    BY <1>2, <1>t, Zenon DEF LoadHandler
  <2> QED  BY <1>p, <1>u, <1>o, <2>1, Zenon DEF Ordered, Reads
<1>3. CASE LoadNetworks(r)
  <2>1. /\ pc[r] = "nets" /\ pc'[r] = "enter" /\ (nets'[r] = front[1] \/ nets'[r] = front[2])
        /\ ping'[r] = ping[r] /\ handler'[r] = handler[r]
    BY <1>3, <1>t, Zenon DEF LoadNetworks
  <2>2. nets'[r] <= front[1] /\ handler[r] <= nets'[r]
    BY <1>p, <1>f, <1>n, <1>o, <2>1 DEF Reads
  <2> QED  BY <1>p, <1>u, <2>1, <2>2, Zenon DEF Ordered, Reads
<1>4. CASE ServeHTTP(r)
  <2>1. /\ pc[r] = "enter" /\ pc'[r] = "scope" /\ rp'[r] = proxy
        /\ ping'[r] = ping[r] /\ handler'[r] = handler[r] /\ nets'[r] = nets[r]
    BY <1>4, <1>t, Zenon DEF ServeHTTP
  <2>2. nets[r] <= front[1]
    BY <1>p, <2>1, Zenon DEF Reads
  <2>3. users[proxy] = 0 \/ users[proxy] \in Nat
    BY VersionRange, Zenon DEF RInv, ReloadTypeOK
  <2>4. nets[r] <= version /\ (users[proxy] = 0 \/ nets[r] <= users[proxy])
    BY <1>f, <1>n, <1>o, <2>2, <2>3
  <2> QED  BY <1>p, <1>u, <1>n, <2>1, <2>4, Zenon DEF Ordered, Reads
<1>5. CASE getScope(r)
  <2>1. /\ pc[r] = "scope" /\ pc'[r] = "run" /\ scope'[r] = users[rp[r]] /\ users[rp[r]] # 0
        /\ ping'[r] = ping[r] /\ handler'[r] = handler[r] /\ nets'[r] = nets[r]
    BY <1>5, <1>t, Zenon DEF getScope, getUser
  <2> QED  BY <1>p, <2>1, Zenon DEF Ordered, Reads
<1>6. CASE Refuse(r) \/ Finish(r)
  <2>1. pc'[r] = "idle"
    BY <1>6, <1>t, Zenon DEF Refuse, Finish, return
  <2> QED  BY <2>1, Zenon DEF Ordered, Reads
<1> QED  BY <1>1, <1>2, <1>3, <1>4, <1>5, <1>6, Zenon DEF serveHTTP

LEMMA OrderStep ==
  ASSUME RInv, ReloadTypeOK', Next
  PROVE  FrontOrder' /\ \A r \in Requests : Reads(r)'
<1> SUFFICES ASSUME NEW r \in Requests
             PROVE  Ordered(r)' /\ Reads(r)'
  BY Zenon DEF FrontOrder, Ordered
<1>g. Grows /\ front' \in [1..5 -> Versions] /\ version' \in Versions
  <2>1. Len(Stores)' = 5
    BY Zenon DEF Stores
  <2> QED  BY <2>1, StoredStep, Zenon DEF ReloadTypeOK
<1>t. /\ pc \in [Requests -> {"idle", "handler", "nets", "enter", "scope", "run"}]
      /\ ping \in [Requests -> 0..MaxVersion] /\ handler \in [Requests -> 0..MaxVersion]
      /\ nets \in [Requests -> 0..MaxVersion] /\ rp \in [Requests -> 0..MaxVersion]
      /\ scope \in [Requests -> 0..MaxVersion]
  BY TypeGroups, Zenon DEF RInv, RequestTypes
<1>1. CASE UNCHANGED requestVars
  BY <1>1, <1>g, ReadsSame, Zenon DEF requestVars
<1>2. ASSUME NEW q \in Requests, q # r, serveHTTP(q)
      PROVE  Ordered(r)' /\ Reads(r)'
  <2>1. /\ pc'[r] = pc[r] /\ ping'[r] = ping[r] /\ handler'[r] = handler[r]
        /\ nets'[r] = nets[r] /\ rp'[r] = rp[r] /\ scope'[r] = scope[r]
    BY <1>2, <1>t, Zenon DEF serveHTTP, Arrive, LoadHandler, LoadNetworks, ServeHTTP, getScope, Refuse,
       Finish, return
  <2> QED  BY <1>g, <2>1, ReadsSame, Zenon
<1>3. UNCHANGED requestVars \/ \E q \in Requests : serveHTTP(q)
  BY Zenon DEF Next, reloadConfig, Signal, loadConfig, newReverseProxy, prepare, closeSignal,
     restartWithNewConfig, publish, store, StartService, StopService, CloseCache
<1> QED  BY <1>1, <1>2, <1>3, ReadsNext, Zenon

----------------------------------------------------------------------------
(* The theorems.                                                           *)

LEMMA InvInit == Init => RInv
<1> SUFFICES ASSUME Init PROVE RInv
  OBVIOUS
<1>0. PICK c \in Config : config = <<c>> /\ c.fails = "none"
  BY Zenon DEF Init
<1>1. config \in Seq(Config) /\ version = 1 /\ config[1] = c
  BY <1>0 DEF version
<1>v. 1 \in Versions /\ 0 \in 0..MaxVersion /\ 1 \in 0..MaxVersion
      /\ (\A v \in Versions : v \in Nat /\ v # 0)
  BY VersionRange
<1>w. config[1].wild \in BOOLEAN
  BY <1>1, Zenon DEF Config
<1>2. \A p \in Versions : users[p] = IF p = 1 THEN 1 ELSE 0
  BY Zenon DEF Init
<1>3. \A p \in Versions : owner[p] = IF p = 1 THEN 1 ELSE 0
  BY Zenon DEF Init
<1>4. \A k \in 1..5 : front[k] = 1
  BY StoresLength, Zenon DEF Init
<1>5. ReloadTypeOK
  <2>1. ReloadTypes
    BY <1>1, <1>v, StoresLength, Zenon DEF Init, ReloadTypes
  <2>2. users \in [Versions -> 0..MaxVersion]
    BY <1>v, Zenon DEF Init
  <2>3. ProxyTypes
    BY <1>w, <2>2, Zenon DEF Init, ProxyTypes
  <2>4. ServiceTypes
    BY <1>v, <2>2, Zenon DEF Init, ServiceTypes
  <2>5. CacheTypes
    BY <1>v, Zenon DEF Init, CacheTypes
  <2>6. RequestTypes
    BY <1>v, Zenon DEF Init, RequestTypes
  <2> QED  BY <2>1, <2>3, <2>4, <2>5, <2>6, TypeGroups, Zenon
<1>6. Progress
  <2>1. \A v \in Versions : v > version => New(v)
    BY <1>1, <1>2, <1>3, <1>v DEF Init, New
  <2> QED  BY <1>1, <2>1 DEF Init, Progress
<1>7. Owned
  BY <1>1, <1>2, <1>3 DEF Owned
<1>8. Listening
  <2>1. \A v \in Versions, k \in Services : service[v][k] = IF v = 1 THEN "new" ELSE "none"
    BY Zenon DEF Init
  <2> QED  BY <1>3, <2>1 DEF Init, Listening
<1>9. OwnedMatch
  <2>1. \A v \in Versions, k \in Services : service[v][k] = IF v = 1 THEN "new" ELSE "none"
    BY Zenon DEF Init
  <2> QED  BY <1>2, <1>3, <1>v, <2>1, Zenon DEF OwnedMatch
<1>10. CachesOpen
  <2>1. Published = {1}
    BY <1>2, <1>v, Zenon DEF Published
  <2>2. Preparing = {}
    BY Zenon DEF Init, Preparing
  <2> QED  BY <2>1, <2>2, CachesMean, Zenon DEF Init
<1>11. WildcardKept
  BY <1>2, <1>v, Zenon DEF Init, WildcardKept
<1>12. WildcardAhead
  BY Zenon DEF Init, WildcardAhead
<1>13. Stored
  BY <1>1, <1>2, <1>4, <1>v DEF Init, Stored
<1>14. FrontOrder /\ \A r \in Requests : Reads(r)
  BY Zenon DEF Init, FrontOrder, Reads
<1> QED
  BY <1>5, <1>6, <1>7, <1>8, <1>9, <1>10, <1>11, <1>12, <1>13, <1>14, Zenon DEF RInv

LEMMA InvSame == RInv /\ UNCHANGED vars => RInv'
<1> SUFFICES ASSUME RInv, UNCHANGED vars PROVE RInv'
  OBVIOUS
<1>u. /\ UNCHANGED <<config, signalled, step, front, proxy, users, hasWildcarded, maxErrorReasonSize,
                     reloadSignal, closed, service, heard, owner, caches, closing>>
      /\ UNCHANGED <<pc, ping, handler, nets, rp, scope>> /\ version' = version
  BY Zenon DEF vars, reloadVars, proxyVars, serviceVars, cacheVars, requestVars, version
<1>1. ReloadTypeOK'
  BY TypeGroups, TypeGroupsNext, TypeSame, Zenon DEF RInv, vars
<1>2. Progress' /\ Owned'
  BY <1>u, Zenon DEF RInv, Progress, Owned, New
<1>3. Listening' /\ OwnedMatch'
  BY <1>u, ServicesSame, Zenon DEF RInv, serviceVars
<1>4. CachesOpen' /\ WildcardKept' /\ WildcardAhead'
  BY <1>u, Zenon DEF RInv, CachesOpen, WildcardKept, WildcardAhead
<1>5. Stored' /\ FrontOrder' /\ \A r \in Requests : Reads(r)'
  BY <1>u, Zenon DEF RInv, Stored, FrontOrder, Reads
<1> QED  BY <1>1, <1>2, <1>3, <1>4, <1>5, Zenon DEF RInv

LEMMA InvStep == RInv /\ [Next]_vars => RInv'
<1> SUFFICES ASSUME RInv, Next PROVE RInv'
  BY InvSame, Zenon
<1>1. ReloadTypeOK'
  BY ReloadTypeStep, OtherTypeStep, Zenon DEF Next, otherStep
<1> QED
  BY <1>1, ProgressStep, ServicesStep, CachesStep, WildStep, StoredStep, OrderStep, Zenon DEF RInv

LEMMA Invariance == Spec => []RInv
<1> QED  BY InvInit, InvStep, PTL DEF Spec

\* The versions, channels and labels of a reload keep their types, whatever files
\* are loaded and however many requests pass (main.go, proxy.go).
THEOREM ReloadTypeCorrect == Spec => []ReloadTypeOK
<1>1. RInv => ReloadTypeOK
  BY Zenon DEF RInv
<1> QED  BY <1>1, Invariance, PTL

\* What is alive is alive on behalf of the global reverseProxy or of a replaced
\* one that has published it.
LEMMA ServicesFromInv == RInv => ServicesMatch
<1> SUFFICES ASSUME RInv PROVE ServicesMatch
  OBVIOUS
<1>p. Progress /\ Owned /\ Listening /\ OwnedMatch
  BY Zenon DEF RInv
<1>t. /\ proxy \in Versions /\ proxy # 0
      /\ owner \in [Versions -> 0..MaxVersion] /\ users \in [Versions -> 0..MaxVersion]
      /\ service \in [Versions -> [Services -> {"none", "new", "run", "done"}]]
  BY VersionRange, Zenon DEF RInv, ReloadTypeOK
<1>1. ASSUME NEW v \in abandoned, NEW k \in Services
      PROVE  alive(v, k) /\ (service[v][k] = "run" => ~done(v, k))
  <2>1. PICK p \in Versions : p # proxy /\ users[p] = v /\ v # 0
    BY <1>1, Zenon DEF abandoned
  <2>2. v \in Versions /\ owner[v] = p /\ p # 0
    BY <1>p, <1>t, <2>1, VersionRange, Zenon DEF Owned
  <2>3. service[v][k] # "done" /\ (service[v][k] = "run" => ~done(v, k))
    BY <1>p, <2>1, <2>2, Zenon DEF OwnedMatch
  <2>4. service[v][k] # "none"
    BY <1>p, <2>2, Zenon DEF Listening
  <2>5. service[v][k] \in {"none", "new", "run", "done"}
    BY <1>t, <2>2, Zenon
  <2> QED  BY <2>3, <2>4, <2>5, Zenon DEF alive
<1>2. ASSUME NEW v \in Versions \ abandoned, NEW k \in Services, alive(v, k)
      PROVE  owner[v] = proxy
  <2>1. service[v][k] # "none" /\ service[v][k] # "done"
    BY <1>2, Zenon DEF alive
  <2>2. owner[v] # 0 /\ owner[v] \in Versions
    BY <1>p, <1>t, <2>1, VersionRange, Zenon DEF Listening
  <2>3. owner[v] # proxy => users[owner[v]] = v
    BY <1>p, <2>1, <2>2, Zenon DEF OwnedMatch
  <2>4. owner[v] # proxy => v \in abandoned
    BY <2>2, <2>3, VersionRange, Zenon DEF abandoned
  <2> QED  BY <2>4, Zenon
<1>3. ASSUME NEW v \in Versions \ abandoned, NEW k \in Services, alive(v, k)
      PROVE  v = IF step = "publish" THEN version ELSE users[proxy]
  <2>1. owner[v] = proxy /\ service[v][k] # "done"
    BY <1>2, <1>3, Zenon DEF alive
  <2>2. CASE step = "publish"
    BY <1>p, <2>1, <2>2, Zenon DEF Listening
  <2>3. CASE step = "wait"
    BY <1>p, <2>1, <2>3, Zenon DEF Listening
  <2>4. CASE step \notin {"wait", "publish"}
    BY <1>p, <1>t, <2>1, <2>4, Zenon DEF OwnedMatch
  <2> QED  BY <2>2, <2>3, <2>4, Zenon
<1>4. ASSUME step \notin {"wait", "publish"},
             NEW v \in Versions \ abandoned, NEW k \in Services
      PROVE  /\ alive(v, k) <=> v = users[proxy]
             /\ service[v][k] = "run" => ~done(v, k)
  <2>1. ASSUME v = users[proxy] PROVE alive(v, k)
    <3>1. owner[v] = proxy
      BY <1>p, <1>t, <2>1, VersionRange, Zenon DEF Owned
    <3>2. service[v][k] # "done" /\ service[v][k] # "none"
      BY <1>p, <1>t, <1>4, <2>1, <3>1, Zenon DEF OwnedMatch, Listening
    <3>3. service[v][k] \in {"none", "new", "run", "done"}
      BY <1>t, Zenon
    <3> QED  BY <3>2, <3>3, Zenon DEF alive
  <2>2. ASSUME service[v][k] = "run" PROVE ~done(v, k)
    <3>1. alive(v, k)
      BY <2>2, Zenon DEF alive
    <3>2. owner[v] = proxy /\ v = users[proxy]
      BY <1>2, <1>3, <1>4, <3>1, Zenon
    <3> QED  BY <1>p, <1>t, <1>4, <2>2, <3>2, Zenon DEF OwnedMatch
  <2>3. alive(v, k) => v = users[proxy]
    BY <1>3, <1>4, Zenon
  <2> QED  BY <2>1, <2>2, <2>3, Zenon
<1>5. ASSUME NEW v \in Versions \ abandoned, NEW w \in Versions \ abandoned,
             NEW j \in Services, NEW k \in Services, alive(v, j), alive(w, k)
      PROVE  v = w
  BY <1>3, <1>5, Zenon
<1> QED  BY <1>1, <1>4, <1>5, Zenon DEF ServicesMatch

\* The heartbeats and rate limiters of two configurations of the global
\* reverseProxy are never alive together, those of the published one never stop
\* by themselves, and those of a replaced reverseProxy (main.go:300) run for
\* ever, for any number of reloads, good or refused (proxy.go, applyConfig).
THEOREM ServicesStayMatched == Spec => []ServicesMatch
BY ServicesFromInv, Invariance, PTL

\* No cache of a published configuration is closed; of the others a cache is
\* open only while it is prepared or being closed, or when the reverseProxy it
\* belongs to was replaced (main.go:300): such a cache is never closed
\* (proxy.go, applyConfig and its deferred closing).
THEOREM CachesStayExact == Spec => []CachesExact
<1>1. RInv => CachesExact
  <2> SUFFICES ASSUME RInv PROVE CachesExact
    OBVIOUS
  <2>1. proxy \in Versions
    BY Zenon DEF RInv, ReloadTypeOK
  <2>2. Published = ({users[proxy]} \ {0}) \union abandoned
    BY <2>1, Zenon DEF Published, abandoned
  <2>3. /\ caches = Published \union Preparing \union closing
        /\ (Published \union Preparing) \intersect closing = {}
    BY CachesMean, Zenon DEF RInv
  <2> QED  BY <2>2, <2>3, Zenon DEF CachesExact, Preparing
<1> QED  BY <1>1, Invariance, PTL

\* A reload that is refused half-way never takes hasWildcarded from a published
\* configuration that needs it (proxy.go, applyConfig and getUser).
THEOREM WildcardStays == Spec => []WildcardKept
<1>1. RInv => WildcardKept
  BY Zenon DEF RInv
<1> QED  BY <1>1, Invariance, PTL

\* However reloads and requests interleave, a request is never let in by an
\* allow-list for users of an older configuration (main.go, applyConfig and
\* serveHTTP).
THEOREM FrontStaysOrdered == Spec => []FrontOrder
<1>1. RInv => FrontOrder
  BY Zenon DEF RInv
<1> QED  BY <1>1, Invariance, PTL
=============================================================================
