SPECIFICATION Spec
CONSTANTS
  leaf = leaf
  ca = ca
  b = b
  m = m
  rw = rw
  Id <- MCId
  Byte <- MCByte
  Message <- MCMessage
  Flags <- MCFlags
  Mechanism <- MCMechanism
  Listings <- MCListings
  Template <- MCTemplate
  MaxTotal = 1
  SearchInterval = 1
  SessionInterval = 2
  MaxSession = 2
  MaxBatch = 2
  MaxLoad = 2
INVARIANTS
  TypeOK
  OneHandlePerObject
  OperationsResolve
  SearchesResolve
  BuffersBounded
PROPERTIES
  HandlesStable
  SessionHandlesFresh
  PendingStable
  CloseEndsPending
