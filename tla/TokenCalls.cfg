SPECIFICATION TokenSpec
CONSTANTS
  leaf = leaf
  ca = ca
  m = m
  serialL = serialL
  serialC = serialC
  hash = hash
  Id <- MCId
  Byte <- MCNone
  Message <- MCNone
  Flags <- MCFlags
  Mechanism <- MCMechanism
  Listings <- MCListings
  Template <- MCTemplate
  Contents <- MCContents
  Length <- MCLength
  Supported <- MCSupported
  Requests <- MCRequests
  Reads <- MCReads
  Room = {2}
  MaxTotal = 0
  SearchInterval = 2
  SessionInterval = 3
  MaxSession = 2
  MaxBatch = 2
  MaxLoad = 2
  Poller = 1
  Polled <- CATrustOnly
INVARIANTS
  SearchEnumerates
PROPERTIES
  AttributesStay
  ListedIsFound
  MissIsFresh
