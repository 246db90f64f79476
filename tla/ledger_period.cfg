\* Two events of one period with different seat counts.
CONSTANTS
  h1 = h1
  h2 = h2
  c1 = c1
  c2 = c2
  c3 = c3
  r1 = r1
  g1 = g1
  g2 = g2
  g3 = g3
  s1 = s1
  None = None
  Charges = {c3}
  Holds = {h1}
  Releases = {r1}
  Grants = {g1, g2}
  Sweepers = {s1}
  Amount <- Amounts
  HoldOf <- HoldsOf
  Opening = 4
  MaxFaults = 0
SPECIFICATION Spec
INVARIANT PeriodBounded
CHECK_DEADLOCK FALSE
