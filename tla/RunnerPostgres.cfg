\* The Postgres deployment: two processes, a lease that lapses, a process that dies.
CONSTANTS
  MaxRuns = 2
  Sessions = {s1, s2}
  Keys = {}
  NoKey = NoKey
  Tokens = {t1, t2, t3}
  Requests = {q1}
  Commands = {c1}
  NoCommand = NoCommand
  NoRow = NoRow
  NoLease = NoLease
  NoApproval = NoApproval
  LeaseTTL = 1
  MaxSweep = 0
  MaxAttempts = 1
  MaxClaims = 0
  OneRunningIndex = TRUE
  Workers = {p1, p2}
  NoHandle = NoHandle
  Reapers = {z1}
  NewerSessions = {}
  Deciders = {d1, d2}
  NoRequest = NoRequest
  NoRun = NoRun
  MaxLapses = 1
  MaxCrashes = 1
  MayExpire = FALSE
  LogRefusesClosed = FALSE
SPECIFICATION Spec
SYMMETRY Symmetry
INVARIANTS
  OneExecutor
  AwaitingCanBeDecided
  AnnouncedSuccessIsDurable
CHECK_DEADLOCK FALSE
