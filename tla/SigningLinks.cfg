SPECIFICATION Spec
CONSTANTS
  pay = pay
  wire = wire
  ann = ann
  bob = bob
  kAnn = kAnn
  kBob = kBob
  kAuth = kAuth
  kAgent = kAgent
  timeout = timeout
  Intents = {pay, wire}
  Actors = {ann, bob, timeout}
  Spellings = {ann, bob, timeout}
  Keys = {kAnn, kBob, kAuth, kAgent}
  TimeoutActor = timeout
  Authority = kAuth
  Norm <- MCNorm
  Vouched <- MCVouched
  Keyed <- MCKeyed
  KeyOf <- MCKeyOf
  AgentKey <- MCAgentKey
  Quorum <- MCQuorum
  Default <- MCDefault
  Deadline <- MCDeadline
  Callers = {c1, c2}
  NoResolution = NoResolution
  MaxTimer = 10
  MaxTime = 2
INVARIANTS
  TypeOK
  LinkSingleUse
  OneOutcome
  DecisionReturnable
  FailsClosed
  ClosedReleasesWaiters
  DeadlineReclaims
SYMMETRY CallerSymmetry
CHECK_DEADLOCK FALSE
