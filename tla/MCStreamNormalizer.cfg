CONSTANTS
  MaxLength = 4
  Streams <- MCStreams
  Batches = {0, 1, 2}
  MaxFragments = 2
SPECIFICATION Spec
INVARIANTS TypeOK CommitsOnContent ContentDelivered RoleMadeIfMissing
CHECK_DEADLOCK FALSE
