SPECIFICATION FairSpec
CONSTANTS
  Requests = {r1}
  Services = {heartbeat}
  Pools <- MCPools
  MaxVersion = 3
INVARIANTS ReloadTypeOK ServicesMatch CachesExact WildcardKept FrontOrder
PROPERTY ReloadEnds
CONSTRAINT MCFirstConfig
