SPECIFICATION Spec
CONSTANTS
  Initiator = initiator
  Responder = responder
  Party = {initiator, responder}
  None = none
  MaxSent = 3
  MaxSkipped = 1
  MaxLost = 1
  MaxDuplicated = 1
CHECK_DEADLOCK FALSE
INVARIANTS TypeOK MessageKeyNeverReused OpenedKeysAreGone AlwaysRestorable RootsInLockstep
PROPERTIES ImplementsDelivery RejectsOnlyForAReason
