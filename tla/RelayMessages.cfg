SPECIFICATION LiveSpec
CONSTANTS
  None = none
  Mailbox = {mb1}
  Handler = {h1, h2}
  Token = {t1}
  MessageId = {m1, m2}
  Ttl = {1, 2}
  Margin = 1
  MaxDelay = 1
  ListLimit = 1
  MaxTime = 4
  MaxStored = 2
CHECK_DEADLOCK FALSE
INVARIANTS TypeOK OneLiveMessagePerToken AcceptedIsKept
PROPERTIES EveryMessageIsFetched EveryDeadRowIsPurged
