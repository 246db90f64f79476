\* Two jobs in one reusable workspace, one crash.
CONSTANTS
  j1 = j1
  j2 = j2
  w1 = w1
  w2 = w2
  e1 = e1
  u1 = u1
  NoJob = NoJob
  NoWorker = NoWorker
  Jobs = {j1, j2}
  Workers = {w1, w2}
  Envs = {e1}
  Users = {u1}
  EnvOf <- SharedEnvOf
  UserOf <- OneOwner
  Ephemeral = {}
  Granted = {j1}
  MaxAttempts <- OneEach
  UserCapacity = 2
  MaxFaults = 1
SPECIFICATION Spec
INVARIANT NoRuntimeBesideOrphan
CHECK_DEADLOCK FALSE
