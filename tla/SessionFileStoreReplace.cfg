SPECIFICATION Spec
CONSTANTS
  Client = {c1, c2}
  Value = {v1, v2}
  None = none
  Done = done
  Error = error
  Torn = torn
  Platforms = {"rust", "kotlin"}
INVARIANTS SavedRecordSurvives
