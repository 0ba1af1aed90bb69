SPECIFICATION FairSpec
CONSTANTS
  pay = pay
  wire = wire
  ann = ann
  mail = mail
  kAuth = kAuth
  kAgent = kAgent
  timeout = timeout
  Intents = {pay, wire}
  Actors = {ann, mail, timeout}
  Spellings = {ann, mail, timeout}
  Keys = {kAuth, kAgent}
  TimeoutActor = timeout
  Authority = kAuth
  Users = {ann, mail}
  Mailbox = mail
  Norm <- MCNorm
  Vouched <- MCVouched
  Keyed <- MCKeyed
  KeyOf <- MCKeyOf
  AgentKey <- MCAgentKey
  Quorum <- MCQuorum
  Default <- MCDefault
  Deadline <- MCDeadline
  Callers = {c1, c2}
  NoResolution = NoResolution
  MaxTimer = 10
  MaxTime = 1
  MaxAborts = 1
  MaxPresses <- MCMaxPresses
INVARIANTS
  TypeOK
  DecidedOnce
  DecidableWhileOpen
PROPERTY
  VotesAreCounted
CHECK_DEADLOCK FALSE
