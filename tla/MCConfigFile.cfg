SPECIFICATION Spec
CONSTANTS
  s1 = s1
  s2 = s2
  x1 = x1
  bad = bad
  good = good
  worse = worse
  NULL = NULL
  Operators = {s1, s2}
  Providers <- MCProviders
  Ids = {"k1", "k2", "k3", "k4"}
  Items = {x1}
  Settings <- MCSettings
  Values = {good, worse}
  Refused <- MCRefused
  Example <- MCExample
  BadItem = bad
  DefaultPatterns <- MCPatterns
  First <- MCFirst
  MaxSaves = 2
  MaxLen = 3
SYMMETRY Sessions
INVARIANTS
  TypeOK
  DuplicatesOnlyByRace
PROPERTIES
  EditsAreLocal
  KeysSurvive
CHECK_DEADLOCK FALSE
