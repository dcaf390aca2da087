\* Two processes, every kind of cron, three instants, one edit, two faults.
CONSTANTS
  Processes = {p1, p2}
  Nobody = Nobody
  Kinds <- AllKinds
  First = 2
  MaxTime = 3
  MaxEdits = 1
  MaxFaults = 2
SPECIFICATION FairSpec
INVARIANTS
  TypeOK
  NoSilentLoss
PROPERTIES
  SecondClaimHasCause
  DueIsFired
CHECK_DEADLOCK FALSE
