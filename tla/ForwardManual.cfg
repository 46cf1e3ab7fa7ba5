SPECIFICATION ForwardSpec
CONSTANTS
  embedded = embedded
  nested = nested
  None = None
  MaxTab = 2
  Message <- MCMessage
  Raw <- JustEmbedded
  Container <- JustEmbedded
  Encrypted <- MCMessage
  Decryptable <- MCMessage
  MaxTrouble = 1
INVARIANT ManualUntouched
CHECK_DEADLOCK FALSE
