SPECIFICATION MPFairSpec
CONSTANTS
  mn = mn
  any = any
  bcast = bcast
  haPub = haPub
  haPriv = haPriv
  faPub = faPub
  faPriv = faPriv
  Addr <- MCAddr
  AnyAddr = any
  BroadcastAddr = bcast
  Id = {1, 2, 3, 4}
  Infinity = 9
  SequenceMax = 2
  UIntMod = 18
  TTLMod = 5
  HAPublic = haPub
  HAPrivate = haPriv
  HADefaultLifetime = 5
  HALifetimes = {5}
  HARequests = {}
  FAPublic = faPub
  FAPrivate = faPriv
  FADefaultLifetime = 7
  FADefaultTimeout = 0
  FADefaultPending = 2
  FALifetimes = {7}
  FATimeouts = {0}
  FAPendings = {2}
  FARequests = {}
  FAReplies = {}
  MNHome = mn
  MNHAPrivate = haPriv
  MNHAPublic = haPub
  MNDefaultTimeout = 1
  MNTimeouts = {1}
  MNGarbage = {10}
  SolReset = 1
  SolIntervals = {}
  MNMaxAsks = 1
  MNAdverts = {}
  MNReplies = {}
  MRegistration = 7
  MCarries = 2
  MLosses = 1
  MStarts = 1
INVARIANTS
  RegistrationHolds
  CountIsBacked
PROPERTIES
  SettlesAbroad
  SettlesAtHome
