SPECIFICATION Spec

CONSTANTS
  d1 = d1
  d2 = d2
  d3 = d3
  s1 = s1
  s2 = s2
  NoDriver = NoDriver
  NoSearch = NoSearch
  Drivers = {d1}
  Approved = {d1}
  Searches = {s1}
  Rings = 2
  MaxBatch = 1
  OfferWait = 2
  RetryWait = 1
  MaxStarts = 1
  MaxFailures = 0

INVARIANTS FailedIsFinal

