\* Chains from no place to three, which leaves the application one in the
\* stream chain when there is continuous retry, and two in the others; every
\* caching mode, with a period that an answer may take up entirely.
SPECIFICATION PartSpec
CONSTANTS
  MAX_CALLBACK_CHAIN_COUNT = 20
  DEFAULT_CALLBACK_CHAIN_COUNT = 3
  ChainCounts = {0, 1, 2, 3}
  AppCallbacks <- MCAppCallbacks
  AppPlatforms <- MCAppPlatforms
  CurlFns <- MCCurlFns
  AuthFns <- MCAuthFns
  RetryFns <- MCRetryFns
  CacheTypes = {"NONE", "ENDPOINT_ONLY", "ALL"}
  cacheUpdatePeriod = 3
  BodyPieces = 2
INVARIANTS
  ChainsFit
  OwnedAreFreed
  ChainInOrder
  AggregatesWereImplemented
  ActiveStreamExists
PROPERTIES
  ServedWithinPeriod
\* the provider is freed in the end
CHECK_DEADLOCK FALSE
