SPECIFICATION Spec
CONSTANTS
  one = one
  both = both
  ann = ann
  ANN = ANN
  bob = bob
  timeout = timeout
  kAnn = kAnn
  kBob = kBob
  kAuth = kAuth
  kAgent = kAgent
  kOrg = kOrg
  kOther = kOther
  Intents = {one, both}
  Actors = {ann, bob, timeout}
  Spellings = {ann, ANN, bob, timeout}
  Keys = {kAnn, kBob, kAuth, kAgent, kOrg, kOther}
  TimeoutActor = timeout
  Authority = kAuth
  Norm <- MCNorm
  Vouched <- MCVouched
  Keyed <- MCKeyed
  KeyOf <- MCKeyOf
  AgentKey <- MCAgentKey
  Quorum <- MCQuorum
  Default <- MCDefault
  Deadline <- MCDeadline
  NoRecord = NoRecord
  NoRequest = NoRequest
  Runs = {p1, p2, p3, p4}
  Requests <- MCRequests
  Org = kOrg
  MaxDeaths = 1
  MaxLosses = 1
SYMMETRY Symmetry
INVARIANTS
  TypeOK
  ReportedChangesStand
  AnchoredRevocationHolds
PROPERTY
  SoloRunSucceeds
CHECK_DEADLOCK FALSE
