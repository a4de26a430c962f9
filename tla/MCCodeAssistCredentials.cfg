SPECIFICATION Spec
CONSTANTS
  gateway = gateway
  command = command
  NULL = NULL
  Missing = Missing
  Torn = Torn
  Procs = {gateway, command}
  MaxLogins = 3
  MaxEvents = 4
INVARIANTS
  TypeOK
  SignInKept
  TornOnlyByWriters
  OneLogin
