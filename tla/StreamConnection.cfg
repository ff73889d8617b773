\* Two frames and two attempts per read callback; two streams that share the
\* lock, two records and two calling threads; a grace period of two clock
\* readings and a verification period of three.
SPECIFICATION PartSpec
CONSTANTS
  MaxFrames = 2
  MAX_GET_DATA_ITER = 2
  Streams = {s1, s2}
  Mappings = {m1, m2}
  Callers = {c1, c2}
  NoMapping = NoMapping
  NoCaller = NoCaller
  Grace = 2
  Verification = 3
INVARIANTS
  SleepersKeepSession
  ResetTracked
  NoLeakedMapping
  HealthInv
PROPERTIES
  RestingSessionIsWoken
  ShutdownEndsSession
  ResetKeepsRecord
  CloseReturns
  SpacedResets
  PersistentLatencyResets
\* the session ends, and the callbacks object is freed in the end
CHECK_DEADLOCK FALSE
