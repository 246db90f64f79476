\* Two of everything that races: requests and tool calls, sign-in attempts,
\* invitations with one acceptance, mentions and presses, saves and deliveries,
\* operations on a data store.
\* A behaviour may stop when its requests are used up.
SPECIFICATION Spec
CONSTANTS
  Requests = {r1, r2}
  Calls = {c1, c2}
  Tools = {rd, wr}
  ReadTools = {rd}
  Keys = {1, 2}
  NoCall = NoCall
  Attempts = {a1, a2}
  NoAttempt = NoAttempt
  People = {o1, p1, p2}
  Owners = {o1}
  Invites = {i1, i2}
  Accepts = {q1}
  Quantities = {1, 2, 3}
  FirstSeats = 2
  NoOne = NoOne
  Threads = {"th1", "th2"}
  WorkerCount = 2
  Deliveries = {1, 2, 3, 4}
  Mentions = {1, 2}
  ThreadOf <- TheThread
  MaxAttempts = 2
  MaxFaults = 1
  Saves = {s1, s2}
  Retires = {x1}
  Posts = {d1, d2}
  Events = {e1, e2}
  MaxRuns = 1
  MaxLapses = 1
  NoSave = NoSave
  DataOps = {w1, w2}
  NoOp = NoOp
INVARIANTS
  PlatformTypeOK
  WritesRunOnce
  BegunIsNotDenied
  CredentialIsEarned
  SeatsNotOversold
  ActsOnceAndAlone
  AuthorityCoversAction
  HookMatchesRow
  DispatchIsBounded
PROPERTIES
  KnownOutcomeKept
  WorkEnds
  ImplementsAtomicStore
CHECK_DEADLOCK FALSE
