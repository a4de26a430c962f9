CONSTANTS
  NULL = NULL
  Keys = {k1, k2}
  ErrorSeconds = 1
  RateLimitSeconds = 2
  AuthSeconds = 3
  MaxConsecutiveErrors = 2
  Failures <- MCFailures
  Reports <- MCReports
  MaxTime = 3
  MaxErrors = 3
SPECIFICATION Spec
INVARIANTS DisabledStaysOff
