SPECIFICATION FairSpec
CONSTANTS
  solo = solo
  duo = duo
  ann = ann
  bob = bob
  BOB = BOB
  sam = sam
  timeout = timeout
  kAnn = kAnn
  kBob = kBob
  kAuth = kAuth
  kAgent = kAgent
  Intents = {solo, duo}
  Actors = {ann, bob, sam, timeout}
  Spellings = {ann, bob, BOB, sam, timeout}
  Keys = {kAnn, kBob, kAuth, kAgent}
  TimeoutActor = timeout
  Authority = kAuth
  Norm <- MCNorm
  Vouched <- MCVouched
  Keyed <- MCKeyed
  KeyOf <- MCKeyOf
  AgentKey <- MCAgentKey
  Quorum <- MCQuorum
  Default <- MCDefault
  Deadline <- MCDeadline
  Calls = {w1, w2, w3}
  NoResolution = NoResolution
  MaxTimer = 1
  ClockSteps = {"forward"}
  MaxTime = 2
  MaxStep = 1
  MaxAborts = 1
INVARIANTS
  TypeOK
  ResolutionsVerify
  DecidedInWindow
  Finality
  NoStrandedWaiter
PROPERTIES
  TombstonesSwept
  EntriesEvicted
  GateSpec
CHECK_DEADLOCK FALSE
