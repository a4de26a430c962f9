CONSTANTS
  NULL = NULL
  Keys = {k1}
  ErrorSeconds = 1
  RateLimitSeconds = 2
  AuthSeconds = 3
  MaxConsecutiveErrors = 2
  Failures <- MCFailures
  Reports <- MCReports
  MaxTime = 3
  MaxErrors = 3
SPECIFICATION FairSpec
INVARIANTS TypeOK ErrorsHaveCooldown ThresholdEnforced BlockedHasErrors
PROPERTIES BlockedIsReprobed
