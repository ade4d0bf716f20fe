SPECIFICATION Spec
CONSTANTS
  None = none
  Mailbox = {m1, m2, m3}
  Post = {p1}
  Reply = {r1}
  Upload = {u1}
  Grant = {g1}
  Payload = {g1, none}
  Ttl = 2
  IntentTtl = 1
  MaxTime = 3
  MaxChanges = 2
SYMMETRY Symmetry
CHECK_DEADLOCK FALSE
INVARIANTS TypeOK RepliesAreListed OfferedIsAccepted ListedImageIsFetchable
