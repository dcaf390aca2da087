\* Both logs, two turns in one process or two, two events besides the last one, one client.
CONSTANTS
  t1 = t1
  t2 = t2
  p1 = p1
  p2 = p2
  Turns = {t1, t2}
  Homes <- OneOrTwo
  Logs <- Both
  Processes = {p1, p2}
  MaxEvents = 2
  Streams = {s1}
  MaxOpens = 2
  MaxFaults = 1
SPECIFICATION FairSpec
INVARIANTS
  TypeOK
  NoGap
  RepeatHasCause
  MemoryEndsWithFinish
PROPERTIES
  StreamEnds
CHECK_DEADLOCK FALSE
