SPECIFICATION Spec
CONSTANTS
  Callers = {c1, c2}
  Owner = owner
  Objects = {o1, o2}
  NULL = NULL
  FETCH_GRACE_PERIOD = 2
  MAX_ENFORCED_TOKEN_EXPIRATION_DURATION = 3
  MaxLifetime = 4
CHECK_DEADLOCK FALSE
INVARIANT GivenIsAllocated
