SPECIFICATION BackendSpec
CONSTANTS
  l1 = l1
  l2 = l2
  ca = ca
  mid = mid
  top = top
  root = root
  bridge = bridge
  odd = odd
  NoCert = NoCert
  Cert <- MCCert
  Candidates <- MCCandidates
  SelfSigned <- MCSelfSigned
  Named <- MCNamed
  Usable <- MCUsable
  Purposes <- MCPurposes
  Unqueried <- MCUnqueried
  Systems <- MCSystems
  MaxDepth = 3
  rsa = rsa
  ec = ec
  sha256 = sha256
  sha512 = sha512
  sha224 = sha224
  Key <- MCKey
  KeyType <- MCKeyType
  Size <- MCSize
  Request <- MCRequest
  Supported <- MCSupported
  MaxLabel = 2
  Handed <- MCHanded
INVARIANTS
  LeavesPaired
  EachOnce
  OnlyFromChains
  ListsAll
  HandlesReturned
  CngDoesAsAsked
  AcceptedIsUsable
  LengthKept
PROPERTIES
  ScanReturns
