CONSTANTS
  MaxLength = 3
  Streams <- MCStreams
  Batches = {1}
  MaxFragments = 0
SPECIFICATION Spec
INVARIANTS RoleBeforeContent
CHECK_DEADLOCK FALSE
