SPECIFICATION Spec
CONSTANTS
  t1 = t1
  t2 = t2
  t3 = t3
  Callers <- MCCallers
  Nobody = Nobody
INVARIANT IdleIsRetryable
