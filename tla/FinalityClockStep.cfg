SPECIFICATION Spec
CONSTANTS
  solo = solo
  duo = duo
  ann = ann
  bob = bob
  BOB = BOB
  sam = sam
  timeout = timeout
  kAnn = kAnn
  kBob = kBob
  kAuth = kAuth
  kAgent = kAgent
  Intents = {solo}
  Actors = {ann, sam, timeout}
  Spellings = {ann, sam, timeout}
  Keys = {kAnn, kAuth, kAgent}
  TimeoutActor = timeout
  Authority = kAuth
  Norm <- MCNorm
  Vouched <- MCVouched
  Keyed <- MCKeyed
  KeyOf <- MCKeyOf
  AgentKey <- MCAgentKey
  Quorum <- MCQuorum
  Default <- MCDefault
  Deadline <- MCDeadline
  Calls = {w1, w2}
  NoResolution = NoResolution
  MaxTimer = 10
  ClockSteps = {"forward", "back"}
  MaxTime = 2
  MaxStep = 2
  MaxAborts = 0
INVARIANT
  Finality
CHECK_DEADLOCK FALSE
