SPECIFICATION Spec
CONSTANTS
  pay = pay
  wire = wire
  ann = ann
  bob = bob
  kAnn = kAnn
  kBob = kBob
  kAuth = kAuth
  kAgent = kAgent
  timeout = timeout
  Intents = {wire}
  Actors = {ann, bob, timeout}
  Spellings = {ann, bob, timeout}
  Keys = {kAnn, kBob, kAuth, kAgent}
  TimeoutActor = timeout
  Authority = kAuth
  Norm <- MCNorm
  Vouched <- MCVouched
  Keyed <- MCKeyed
  KeyOf <- MCKeyOf
  AgentKey <- MCAgentKey
  Quorum <- MCQuorum
  Default <- MCDefault
  Deadline <- MCDeadline
  Callers = {c1, c2, c3}
  NoResolution = NoResolution
  MaxTimer = 10
  MaxTime = 2
INVARIANT
  RetryCanDecide
CHECK_DEADLOCK FALSE
