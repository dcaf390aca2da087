\* Fair polling in the memory deployment: three runs of two sessions, one approval.
CONSTANTS
  MaxRuns = 3
  Sessions = {s1, s2}
  Keys = {}
  NoKey = NoKey
  Tokens = {t1, t2}
  Requests = {q1}
  Commands = {c1}
  NoCommand = NoCommand
  NoRow = NoRow
  NoLease = NoLease
  NoApproval = NoApproval
  LeaseTTL = 1
  MaxSweep = 0
  MaxAttempts = 2
  MaxClaims = 0
  OneRunningIndex = FALSE
  Workers = {p1}
  NoHandle = NoHandle
  Reapers = {z1}
  NewerSessions = {}
  Deciders = {d1}
  NoRequest = NoRequest
  NoRun = NoRun
  MaxLapses = 0
  MaxCrashes = 0
  MayExpire = FALSE
  LogRefusesClosed = TRUE
SPECIFICATION FairSpec
PROPERTIES
  QueuedIsServed
  OverIsAnnounced
  ApprovedIsResumed
CHECK_DEADLOCK FALSE
