SPECIFICATION Spec
CONSTANTS
  Initiator = initiator
  Responder = responder
  Party = {initiator, responder}
  None = none
  MaxSent = 3
  MaxSkipped = 3
  MaxLost = 0
  MaxDuplicated = 0
CHECK_DEADLOCK FALSE
INVARIANTS OutOfOrderOpens
