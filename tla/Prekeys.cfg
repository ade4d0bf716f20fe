SPECIFICATION Spec
CONSTANTS
  None = none
  Identity = {i1, i2}
  Signed = {k1, k2}
  OneTime = {o1, o2}
  Stranger = {s1, s2}
  Device = {d1}
  Handler = {h1}
  Ttl = 1
  MaxTime = 2
  MaxForgotten = 1
SYMMETRY Symmetry
CHECK_DEADLOCK FALSE
INVARIANTS TypeOK OneTimeServedOnce UnusedBelongToTheBundle PublishedPrekeysAreKept
PROPERTIES RefusedOnlyForAReason
