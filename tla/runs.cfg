\* The engine over every three-node graph and the named larger ones; one viewer
\* and two reviewers around a gate that may be retried once.
SPECIFICATION Spec
CONSTANTS
  n1 = n1
  n2 = n2
  n3 = n3
  n4 = n4
  n5 = n5
  NoNode = NoNode
  Graphs <- AllGraphs
  MaxItems = 2
  MaxApprovalRetries = 1
  MaxRunEvents = 18
  Viewers = {v1}
  Reviewers = {r1, r2}
  HubCapacity = 2
  MaxRetries = 1
INVARIANTS
  RunsTypeOK
  OneGraphRuns
  PathTaken
  ParentsFirst
  EveryNodeAccounted
  OneEnding
  ApprovedIsRead
  ClosedViewIsComplete
  ActsOnWhatWasShown
PROPERTIES
  RunIsRecorded
  StreamsEnd
CHECK_DEADLOCK FALSE
