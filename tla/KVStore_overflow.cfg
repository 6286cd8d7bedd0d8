\* Half stands for 2^63: a Duration is in -8 .. 7 here, and a TTL of four
\* seconds of two ticks does not fit.
CONSTANTS
  Keys = {k1}
  Values = {v1}
  TTLs = {1, 4}
  Second = 2
  Half = 8
  Callers = {c1}
  Missing = Missing
  MaxClock = 4
  MaxWrites = 2
SPECIFICATION Spec
INVARIANTS
  ReadableForItsTTL
