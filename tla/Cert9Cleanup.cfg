SPECIFICATION CleanupSpec
CONSTANTS
  own = own
  issuer = issuer
  other = other
  p1 = p1
  p2 = p2
  NoPath = NoPath
  Cert <- MCCert
  Stores <- MCStores
  Profile <- MCProfile
  Inis <- MCInis
  Thread = {1, 2}
  MaxFaults = 1
  MaxChanges = 2
INVARIANTS
  OneLoop
PROPERTIES
  OthersStay
  StaleRowsGo
