\* One run, two processes: is the run of a process that died executed again?
CONSTANTS
  MaxRuns = 1
  s1 = s1
  th1 = th1
  Sessions = {s1}
  ThreadOf <- OneThread
  Keys = {}
  NoKey = NoKey
  Tokens = {k1, k2, k3}
  Requests = {}
  Commands = {}
  NoCommand = NoCommand
  NoRow = NoRow
  NoLease = NoLease
  NoApproval = NoApproval
  LeaseTTL = 1
  MaxSweep = 0
  MaxAttempts = 2
  MaxClaims = 0
  OneRunningIndex = TRUE
  Workers = {w1, w2}
  NoHandle = NoHandle
  Reapers = {z1}
  NewerSessions = {}
  Clients = {}
  NoRun = NoRun
  MaxEmits = 1
  MaxLapses = 2
  MaxFaults = 1
SPECIFICATION Spec
SYMMETRY Symmetry
INVARIANTS
  RetryIsExecuted
CHECK_DEADLOCK FALSE
