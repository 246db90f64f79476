\* A charge beside the release of its run.
CONSTANTS
  h1 = h1
  h2 = h2
  c1 = c1
  c2 = c2
  c3 = c3
  r1 = r1
  g1 = g1
  g2 = g2
  g3 = g3
  s1 = s1
  None = None
  Charges = {c1}
  Holds = {h1}
  Releases = {r1}
  Grants = {g1}
  Sweepers = {s1}
  Amount <- Amounts
  HoldOf <- HoldsOf
  Opening = 4
  MaxFaults = 0
SPECIFICATION Spec
INVARIANT SpendRecorded
CHECK_DEADLOCK FALSE
