SPECIFICATION FairSpec
CONSTANTS
  auto = auto
  safe = safe
  duo = duo
  held = held
  self = self
  sam = sam
  ann = ann
  ANN = ANN
  bob = bob
  eve = eve
  timeout = timeout
  kAnn = kAnn
  kBob = kBob
  kEve = kEve
  kAuth = kAuth
  kAgent = kAgent
  Intents = {auto, safe, duo, held, self}
  Actors = {sam, ann, bob, eve, timeout}
  Spellings = {sam, ann, ANN, bob, eve, timeout}
  Keys = {kAnn, kBob, kEve, kAuth, kAgent}
  TimeoutActor = timeout
  Authority = kAuth
  Norm <- MCNorm
  Vouched <- MCVouched
  Keyed <- MCKeyed
  KeyOf <- MCKeyOf
  AgentKey <- MCAgentKey
  Quorum <- MCQuorum
  Default <- MCDefault
  Deadline <- MCDeadline
  Candidates <- MCCandidates
  NoResolution = NoResolution
  MaxTimer = 2
  ClockSteps = TRUE
  MaxTime = 4
INVARIANTS
  TypeOK
  RunOnlyIfAuthorised
  RecordedBeforeActing
  VetoHonoured
  DefaultNotEarly
  ErrorIsNotSilence
PROPERTY
  EveryCallEnds
CHECK_DEADLOCK FALSE
