\* Two reads race with writes of two values, the collector and the clock.
\* A TTL of one second is two ticks, so time can pass within a second, and a
\* TTL of 0 expires at the next tick; both are far from overflow.
CONSTANTS
  Keys = {k1}
  Values = {v1, v2}
  TTLs = {0, 1}
  Second = 2
  Half = 8
  Callers = {c1, c2}
  Missing = Missing
  MaxClock = 4
  MaxWrites = 3
SPECIFICATION Spec
INVARIANTS
  TypeOK
  GetIsLinearizable
PROPERTIES
  NoWriteDuringRange
  ImplementsTTLMap
SYMMETRY Symmetry
