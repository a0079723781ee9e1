SPECIFICATION HAFairSpec
CONSTANTS
  h1 = h1
  h2 = h2
  c1 = c1
  c2 = c2
  other = other
  any = any
  bcast = bcast
  haPub = haPub
  haPriv = haPriv
  Addr <- MCAddr
  AnyAddr = any
  BroadcastAddr = bcast
  Id = {1}
  Infinity = 3
  SequenceMax = 3
  UIntMod = 8
  HAPublic = haPub
  HAPrivate = haPriv
  HADefaultLifetime = 3
  HALifetimes = {1, 3, 5}
  HARequests <- MCRequests
INVARIANTS
  HATypeOK
  UniqueBindings
  BindingsAlive
PROPERTIES
  TunnelStable
  GrantIsRecorded
  FiniteBindingsExpire
  ImplementsLeases
