\* One ephemeral job claimed up to twice, two workers, one crash.
CONSTANTS
  j1 = j1
  j2 = j2
  w1 = w1
  w2 = w2
  e1 = e1
  u1 = u1
  NoJob = NoJob
  NoWorker = NoWorker
  Jobs = {j1}
  Workers = {w1, w2}
  Envs = {e1}
  Users = {u1}
  EnvOf <- SharedEnvOf
  UserOf <- OneOwner
  Ephemeral = {e1}
  Granted = {j1}
  MaxAttempts <- TwoEach
  UserCapacity = 2
  MaxFaults = 1
SPECIFICATION FairSpec
INVARIANT AtMostOnceExecution
PROPERTY ImplementsLifecycle
PROPERTY StartedFinishes
PROPERTY ClaimResolves
CHECK_DEADLOCK FALSE
