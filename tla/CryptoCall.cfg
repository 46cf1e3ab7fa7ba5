SPECIFICATION CryptoSpec
CONSTANTS
  short = short
  long = long
  b1 = b1
  b2 = b2
  m = m
  rw = rw
  c1 = c1
  c2 = c2
  Id <- MCId
  Byte <- MCByte
  Message <- MCMessage
  Flags <- MCFlags
  Mechanism <- MCMechanism
  Listings <- MCListings
  Template <- MCNone
  Client <- MCClient
  Uses <- OwnSessions
  Modulus <- MCModulus
  Room = {1, 2}
  MaxTotal = 2
  SearchInterval = 0
  SessionInterval = 0
  MaxSession = 2
  MaxBatch = 0
  MaxLoad = 2
INVARIANTS
  OutputFits
PROPERTIES
  FinalCoversParts
  RetrySucceeds
SYMMETRY
  Bytes
