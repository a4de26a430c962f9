CONSTANTS
  NULL = NULL
  m1 = m1
  m2 = m2
  Models = {m1, m2}
  Requests = {r1, r2}
  Plans <- MCPlans
  Failures = {"unsupported_model", "network_timeout", "rate_limit", "auth_invalid"}
  FailureThreshold = 2
  QuarantineSeconds <- MCQuarantineSeconds
  MaxTime = 3
  MaxFails = 3
SPECIFICATION Spec
INVARIANTS TypeOK QuarantineEarned
PROPERTIES QuarantineUndisturbed
