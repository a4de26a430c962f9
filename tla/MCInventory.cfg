SPECIFICATION FairSpec
CONSTANTS
  full = full
  small = small
  p1 = p1
  p2 = p2
  Configs <- const_Configs
  Order <- const_Order
  Enabled <- const_Enabled
  Fingerprint <- const_Fingerprint
  Requests = {"request"}
  Commands = {"command"}
  Day = 4
  Interval = 2
  RefreshHour = 1
  MaxJobs = 1
  NULL = NULL
  Torn = Torn
INVARIANTS
  TypeOK
  MemoryFollowsReload
  AccountsForAll
  WakesAtAnchor
PROPERTY
  SchedulerLives
