\* As runs.cfg, for the one claim that a late reviewer breaks.
SPECIFICATION Spec
CONSTANTS
  n1 = n1
  n2 = n2
  n3 = n3
  n4 = n4
  n5 = n5
  NoNode = NoNode
  Graphs <- AllGraphs
  MaxItems = 2
  MaxApprovalRetries = 1
  MaxRunEvents = 18
  Viewers = {v1}
  Reviewers = {r1, r2}
  HubCapacity = 2
  MaxRetries = 1
INVARIANT WaitingIsResolvable
CHECK_DEADLOCK FALSE
