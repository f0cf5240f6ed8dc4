SPECIFICATION Spec
CONSTANTS
  b1 = b1
  b2 = b2
  c1 = c1
  c2 = c2
  c3 = c3
  malformed = malformed
  last = last
  Build = {b1, b2}
  Call = {c1, c2, c3, malformed, last}
  WellFormed = {c1, c2, c3, last}
  Probe = last
  MaxRequests = 2
  BaseReports <- AllButOne
  None = None
  Parts = 2
  w1 = w1
  w2 = w2
  Isolate = {w1, w2}
  MaxMishaps = 2
SYMMETRY Symmetry
INVARIANTS
  TypeOK
  BrokerHoldsItsLimits
  OnlyProvenIsServed
PROPERTIES
  PublishedIsBacked
CHECK_DEADLOCK FALSE
