\* A limit on claims, a session the reaper skips, a worker that may die, a dedup key.
CONSTANTS
  MaxRuns = 2
  Sessions = {s1, s2}
  Keys = {k1}
  NoKey = NoKey
  Tokens = {t1, t2, t3}
  Requests = {q1}
  Commands = {c1}
  NoCommand = NoCommand
  NoRow = NoRow
  NoLease = NoLease
  NoApproval = NoApproval
  LeaseTTL = 1
  MaxSweep = 1
  MaxAttempts = 1
  MaxClaims = 2
  OneRunningIndex = TRUE
  Workers = {w1}
  NoHandle = NoHandle
  Reapers = {z1}
  NewerSessions = {s2}
SPECIFICATION FairSpec
PROPERTIES
  OrphanIsReaped
CHECK_DEADLOCK FALSE
