SPECIFICATION Spec
CONSTANTS
  NULL = NULL
  MaxLines = 5
INVARIANTS
  AnswersDelivered
  EndsAfterText
