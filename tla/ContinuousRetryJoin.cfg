\* The reset thread invalidates its id between the test and the join.
SPECIFICATION Spec
CONSTANTS
  Streams = {s1}
  Mappings = {m1, m2}
  Callers = {c1, c2}
  NoMapping = NoMapping
  NoCaller = NoCaller
INVARIANT
  JoinedIdIsValid
\* the callbacks object is freed in the end
CHECK_DEADLOCK FALSE
