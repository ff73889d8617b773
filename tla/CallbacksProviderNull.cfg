\* A file logger is added behind mutex functions of the application.
SPECIFICATION PartSpec
CONSTANTS
  CacheTypes = {"NONE"}
  cacheUpdatePeriod = 1
  BodyPieces = 1
  MAX_CALLBACK_CHAIN_COUNT = 20
  DEFAULT_CALLBACK_CHAIN_COUNT = 3
  ChainCounts = {0, 1, 2, 3}
  AppCallbacks <- MCAppCallbacks
  AppPlatforms <- MCAppPlatforms
  CurlFns <- MCCurlFns
  AuthFns <- MCAuthFns
  RetryFns <- MCRetryFns
INVARIANT
  AggregatesFindFunctions
CHECK_DEADLOCK FALSE
