SPECIFICATION Spec
CONSTANTS
  w1 = w1
  w2 = w2
  old = old
  renewed = renewed
  mine = mine
  NoAddress = NoAddress
  Window <- MCWindow
  Sendable <- MCSendable
  Cert <- MCCert
  Address <- MCAddress
  AddressOf <- MCAddressOf
  Live <- MCCert
  MaxImports = 2
INVARIANTS
  PrefRestored
  CleanedForSend
  ShutdownCleansOthers
PROPERTIES
  ClicksSend
