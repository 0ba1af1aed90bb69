SPECIFICATION FairSpec
CONSTANTS
  quorum = quorum
  veto = veto
  silence = silence
  nothing = nothing
  sam = sam
  ann = ann
  ANN = ANN
  bob = bob
  timeout = timeout
  kAnn = kAnn
  kBob = kBob
  kAuth = kAuth
  kAgent = kAgent
  Intents = {quorum, veto, silence}
  Actors = {sam, ann, bob, timeout}
  Spellings = {sam, ann, ANN, bob, timeout}
  Keys = {kAnn, kBob, kAuth, kAgent}
  Passkeys = {kBob}
  TimeoutActor = timeout
  Authority = kAuth
  Norm <- MCNorm
  Vouched <- MCVouched
  Keyed <- MCKeyed
  KeyOf <- MCKeyOf
  AgentKey <- MCAgentKey
  Quorum <- MCQuorum
  Default <- MCDefault
  Deadline <- MCDeadline
  Genesis = Genesis
  NoCall = NoCall
  NoHash = NoHash
  Calls = {quorum, veto, silence, nothing}
  ReceiptsOf <- MCReceiptsOf
  MaxFaults = 2
  MaxEdits = 1
INVARIANTS
  TypeOK
  HonestLogVerifies
  LossIsLoud
  WriteOrder
  EditsAreCaught
PROPERTY
  EveryRecordEnds
CHECK_DEADLOCK FALSE
