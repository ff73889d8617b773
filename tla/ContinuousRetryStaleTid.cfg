\* The id of a finished reset thread is stored over its invalidation.
SPECIFICATION Spec
CONSTANTS
  Streams = {s1}
  Mappings = {m1, m2}
  Callers = {c1, c2}
  NoMapping = NoMapping
  NoCaller = NoCaller
PROPERTY
  EarlyExitWhileResetting
\* the callbacks object is freed in the end
CHECK_DEADLOCK FALSE
