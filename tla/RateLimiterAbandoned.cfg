SPECIFICATION LimiterSpecAbandoning
CONSTANTS
  Caller = {h1, h2}
  Limit = 2
  Window = 2
  MaxGap = 1
  MaxClock = 5
  MaxHits = 3
  Never = never
CHECK_DEADLOCK FALSE
INVARIANTS RefusedOnlyOverTheLimit
