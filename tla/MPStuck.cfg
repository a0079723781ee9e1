SPECIFICATION MPFairSpec
CONSTANTS
  mn = mn
  any = any
  bcast = bcast
  haPub = haPub
  haPriv = haPriv
  faPub = faPub
  faPriv = faPriv
  Addr <- MCAddr
  AnyAddr = any
  BroadcastAddr = bcast
  Id = {1, 2, 3, 4}
  Infinity = 9
  SequenceMax = 2
  UIntMod = 18
  TTLMod = 6
  HAPublic = haPub
  HAPrivate = haPriv
  HADefaultLifetime = 8
  HALifetimes = {8}
  HARequests = {}
  FAPublic = faPub
  FAPrivate = faPriv
  FADefaultLifetime = 8
  FADefaultTimeout = 0
  FADefaultPending = 2
  FALifetimes = {8}
  FATimeouts = {0}
  FAPendings = {2}
  FARequests = {}
  FAReplies = {}
  MNHome = mn
  MNHAPrivate = haPriv
  MNHAPublic = haPub
  MNDefaultTimeout = 1
  MNTimeouts = {1}
  MNGarbage = {10}
  SolReset = 1
  SolIntervals = {}
  MNMaxAsks = 1
  MNAdverts = {}
  MNReplies = {}
  MRegistration = 8
  MCarries = 1
  MLosses = 1
  MStarts = 0
PROPERTY
  TimeoutsRetried
