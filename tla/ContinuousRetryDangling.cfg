\* A close frees the record another callback has looked up.
SPECIFICATION Spec
CONSTANTS
  Streams = {s1}
  Mappings = {m1, m2}
  Callers = {c1, c2}
  NoMapping = NoMapping
  NoCaller = NoCaller
INVARIANT
  NoDanglingMapping
\* the callbacks object is freed in the end
CHECK_DEADLOCK FALSE
