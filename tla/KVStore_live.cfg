\* Two keys, so that the collector's range can stop halfway.
CONSTANTS
  Keys = {k1, k2}
  Values = {v1}
  TTLs = {0, 1}
  Second = 2
  Half = 8
  Callers = {c1}
  Missing = Missing
  MaxClock = 4
  MaxWrites = 2
SPECIFICATION FairSpec
PROPERTIES
  ExpiredIsReclaimed
  GetKVReturns
