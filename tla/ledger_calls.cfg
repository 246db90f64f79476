\* Two runs, two charges, one release, two deliveries, one sweeper.
CONSTANTS
  h1 = h1
  h2 = h2
  c1 = c1
  c2 = c2
  c3 = c3
  r1 = r1
  g1 = g1
  g2 = g2
  g3 = g3
  s1 = s1
  None = None
  Charges = {c1, c2}
  Holds = {h1, h2}
  Releases = {r1}
  Grants = {g2, g3}
  Sweepers = {s1}
  Amount <- Amounts
  HoldOf <- HoldsOf
  Opening = 4
  MaxFaults = 1
SPECIFICATION FairSpec
INVARIANT TypeOK
INVARIANT BalanceDerivable
INVARIANT ReservedBacked
INVARIANT TargetGrantedOnce
PROPERTY AdmissionCovered
PROPERTY ImplementsAtomicLedger
PROPERTY HoldsReclaimed
CHECK_DEADLOCK FALSE
