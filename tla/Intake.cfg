\* One process: two passes that may overlap, a replay, two numbers, one fault or crash.
CONSTANTS
  p1 = p1
  t1 = t1
  t2 = t2
  z1 = z1
  m1 = m1
  m2 = m2
  c1 = c1
  k1 = k1
  Events = {m1, c1, k1}
  KindOf <- KindOfEach
  NoEvent = NoEvent
  Processes = {p1}
  Ticks = {t1, t2}
  NoTick = NoTick
  Admins = {z1}
  Home <- OneHome
  MaxAttempts = 2
  MaxSeq = 2
  MaxFaults = 1
SPECIFICATION FairSpec
INVARIANTS
  TypeOK
  NothingSkipped
  SecondTurnHasCause
PROPERTIES
  EveryRecordPassed
CHECK_DEADLOCK FALSE
