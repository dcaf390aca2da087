\* Two runs of one session, two workers, two reapers: overlap, requeue, suspension, reaping.
CONSTANTS
  MaxRuns = 2
  Sessions = {s1}
  Keys = {}
  NoKey = NoKey
  Tokens = {t1, t2, t3}
  Requests = {q1}
  Commands = {c1}
  NoCommand = NoCommand
  NoRow = NoRow
  NoLease = NoLease
  NoApproval = NoApproval
  LeaseTTL = 1
  MaxSweep = 1
  MaxAttempts = 2
  MaxClaims = 0
  OneRunningIndex = FALSE
  Workers = {w1, w2}
  NoHandle = NoHandle
  Reapers = {z1, z2}
  NewerSessions = {}
SPECIFICATION Spec
SYMMETRY Symmetry
INVARIANTS
  TypeOK
  OneOwner
  TerminalOutOfReach
  OverlapOnlyByResumption
  BudgetSpentIsFailed
PROPERTIES
  LiveLeaseIsRespected
  ImplementsLifecycle
CHECK_DEADLOCK FALSE
