SPECIFICATION Spec
CONSTANTS
  next = next
  read = read
  NoClient = NoClient
  Client = {c1, c2}
  Request <- MCRequest
  State <- MCState
  Value <- MCValue
  Effect <- MCEffect
  Start = 0
  MaxIncarnation = 3
INVARIANTS
  NoStrayMessages
  FinalizedMeansGone
PROPERTIES
  CallsReturn
  LooksSerial
