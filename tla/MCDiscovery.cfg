SPECIFICATION DSpec
CONSTANTS
  mn = mn
  other = other
  any = any
  bcast = bcast
  haPub = haPub
  haPriv = haPriv
  fa = fa
  fa2 = fa2
  coa = coa
  Addr <- MCAddr
  AnyAddr = any
  BroadcastAddr = bcast
  Id = {1}
  Infinity = 12
  SequenceMax = 3
  UIntMod = 14
  MNHome = mn
  MNHAPrivate = haPriv
  MNHAPublic = haPub
  MNDefaultTimeout = 1
  MNTimeouts = {1}
  MNGarbage = {0}
  SolReset = 2
  SolIntervals = {1}
  MNMaxAsks = 1
  MNAdverts <- MCOtherAdverts
  MNReplies = {}
  Advertisers = {fa}
  AdvLinkOf <- MCLinkOf
  AdvCareOf <- MCCareOf
  AdvReset = 2
  AdvDefaultLifetime = 12
  AdvDefaultRegistration = 12
  AdvLifetimes = {3, 12}
  AdvRegistrations = {12}
  AdvSecond = 1
  AdvJitter = 1
  DOthers = {other}
INVARIANTS
  DTypeOK
PROPERTIES
  ResetNoticed
  NoFalseReset
  SilenceIsReal
