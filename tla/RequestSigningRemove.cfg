SPECIFICATION Spec
CONSTANTS
  MAX_REQUEST_HEADER_COUNT = 7
  MAX_URI_CHAR_LEN = 72
  MaxAllocations <- MCAllocations
  CallerHeaders = {"connection", "user-agent", "x-amzn-stream-name", tooLong}
  Values = {v1, v2, tooLong}
  Hosts = {host, tooLong}
  Tokens = {token, tooLong}
  UnfitNames = {tooLong}
  UnfitValues = {tooLong}
  Queries <- MCQueries
  UrlStart <- MCUrlStart
  SignatureLen = 2
CHECK_DEADLOCK FALSE
INVARIANT
  ListedAreAllocated
