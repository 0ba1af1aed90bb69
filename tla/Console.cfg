SPECIFICATION Spec
CONSTANTS
  acme = acme
  objectOrg = objectOrg
  root = root
  deputy = deputy
  alias = alias
  finance = finance
  refund = refund
  payout = payout
  ann = ann
  ANN = ANN
  bob = bob
  timeout = timeout
  kAnn = kAnn
  kBob = kBob
  kAgent = kAgent
  kAuth = kAuth
  Actors = {ann, bob, timeout}
  Spellings = {ann, ANN, bob, timeout}
  TimeoutActor = timeout
  Norm <- MCNorm
  Keys = {kAnn, kBob, kAgent, kAuth}
  Agent = kAgent
  Authority = kAuth
  Enrolled <- MCEnrolled
  Canonical = {root, deputy}
  Strings = {acme}
  NoEntry = NoEntry
  Unset = Unset
  Requests <- MCRequests
  Servers = {s1, s2}
  Submissions <- MCSubmissions
  Signers = {root, deputy}
  Seeds <- MCSeeds
  MaxLog = 4
  MaxRestores = 1
SYMMETRY Symmetry
INVARIANTS
  TypeOK
  ConsoleKeepsPolicyUsable
  UsableRulesMakeIntents
PROPERTY
  CheckedChangesKept
CHECK_DEADLOCK FALSE
