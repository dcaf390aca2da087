\* The memory deployment: two runs of a session, two approvals, racing clicks, TTLs.
CONSTANTS
  MaxRuns = 2
  Sessions = {s1}
  Keys = {}
  NoKey = NoKey
  Tokens = {t1, t2}
  Requests = {q1, q2}
  Commands = {c1, c2}
  NoCommand = NoCommand
  NoRow = NoRow
  NoLease = NoLease
  NoApproval = NoApproval
  LeaseTTL = 1
  MaxSweep = 0
  MaxAttempts = 2
  MaxClaims = 0
  OneRunningIndex = FALSE
  Workers = {p1}
  NoHandle = NoHandle
  Reapers = {z1}
  NewerSessions = {}
  Deciders = {d1, d2}
  NoRequest = NoRequest
  NoRun = NoRun
  MaxLapses = 0
  MaxCrashes = 0
  MayExpire = TRUE
  LogRefusesClosed = TRUE
SPECIFICATION Spec
SYMMETRY Symmetry
INVARIANTS
  TypeOK
  OnlyApprovedCommandsRun
  SessionQueuesBehindReservation
  AnnouncedIsDurable
PROPERTIES
  ReleasedAfterFinish
CHECK_DEADLOCK FALSE
