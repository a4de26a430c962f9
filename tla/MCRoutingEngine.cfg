CONSTANTS
  NULL = NULL
  k1 = k1 k2 = k2 k3 = k3
  a1 = a1 a2 = a2 b1 = b1
  Keys = {k1, k2, k3}
  Models = {a1, a2, b1}
  ErrorSeconds = 1
  RateLimitSeconds = 2
  AuthSeconds = 3
  MaxConsecutiveErrors = 2
  FailureThreshold = 2
  QuarantineSeconds <- MCQuarantineSeconds
  KeysOf <- MCKeysOf
  Sources <- MCSources
  Rank <- MCRank
  Policy <- MCPolicy
  MaxAttemptsPerCandidate = 2
  MaxFreeCandidates = 2
  StopOnFreeTier = TRUE
  MaxRetries <- MCMaxRetries
  Strategy = "least_errors"
  Requests = {r1}
  Plans <- MCPlans
  Routes = {"direct", "alias", "free"}
  Answers = {"success", "auth_invalid", "rate_limit", "free_tier", "provider_unavailable", "malformed_response"}
  StartRows <- MCStartRows
  MaxTime = 2
SPECIFICATION Spec
INVARIANTS TypeOK FailsOnlyExhausted OutcomeTold
PROPERTIES ImplementsFailover
