SPECIFICATION Spec
CONSTANTS
  Initiator = initiator
  Responder = responder
  Party = {initiator, responder}
  None = none
  MaxSkipped = 1
  MaxSent = 2
  MaxKeys = 4
  MaxInitiations = 2
  MaxResponses = 2
  MaxCrashes = 1
CHECK_DEADLOCK FALSE
INVARIANTS TypeOK MessageKeyNeverReused ReturnedOncePerBootstrap CurrentChainOpens ReturnedKeysAreOffTheDisk
