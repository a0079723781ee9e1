SPECIFICATION FAFairSpec
CONSTANTS
  h1 = h1
  h2 = h2
  any = any
  bcast = bcast
  faPub = faPub
  faPriv = faPriv
  ha = ha
  Addr <- MCAddr
  AnyAddr = any
  BroadcastAddr = bcast
  Id = {0, 1}
  Infinity = 3
  SequenceMax = 3
  UIntMod = 8
  FAPublic = faPub
  FAPrivate = faPriv
  FADefaultLifetime = 3
  FADefaultTimeout = 1
  FADefaultPending = 2
  FALifetimes = {1, 3}
  FATimeouts = {1}
  FAPendings = {1, 2}
  FARequests <- MCRequests
  FAReplies <- MCReplies
INVARIANTS
  FATypeOK
  UniqueVisitors
  PendingClocksAgree
  PendingBounded
  VisitorsAlive
PROPERTIES
  LongRequestsAnswered
  RepliesAnswerRequests
  FAQuiesces
