SPECIFICATION MNSpec
CONSTANTS
  mn = mn
  any = any
  bcast = bcast
  haPub = haPub
  haPriv = haPriv
  fa1 = fa1
  fa2 = fa2
  coa = coa
  Addr <- MCAddr
  AnyAddr = any
  BroadcastAddr = bcast
  Id = {1}
  Infinity = 3
  SequenceMax = 3
  UIntMod = 7
  MNHome = mn
  MNHAPrivate = haPriv
  MNHAPublic = haPub
  MNDefaultTimeout = 1
  MNTimeouts = {0, 1}
  MNGarbage = {0, 2}
  SolReset = 2
  SolIntervals = {0, 1}
  MNMaxAsks = 1
  MNAdverts <- FewAdverts
  MNReplies <- FewReplies
INVARIANTS
  HomeEndsForeign
