\* A restart in the middle of GetStreamingEndpoint.
SPECIFICATION CacheSpec
CONSTANTS
  CacheTypes = {"ALL"}
  cacheUpdatePeriod = 2
  BodyPieces = 2
INVARIANTS
  EndpointFromBackend
