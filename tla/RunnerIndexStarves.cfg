\* The unique index and a finished run whose status is still running.
CONSTANTS
  MaxRuns = 2
  Sessions = {s1}
  Keys = {}
  NoKey = NoKey
  Tokens = {t1, t2, t3}
  Requests = {}
  Commands = {}
  NoCommand = NoCommand
  NoRow = NoRow
  NoLease = NoLease
  NoApproval = NoApproval
  LeaseTTL = 1
  MaxSweep = 0
  MaxAttempts = 1
  MaxClaims = 0
  OneRunningIndex = TRUE
  Workers = {p1}
  NoHandle = NoHandle
  Reapers = {z1}
  NewerSessions = {}
  Deciders = {}
  NoRequest = NoRequest
  NoRun = NoRun
  MaxLapses = 0
  MaxCrashes = 0
  MayExpire = FALSE
  LogRefusesClosed = FALSE
SPECIFICATION FairSpec
PROPERTIES
  QueuedIsServed
CHECK_DEADLOCK FALSE
