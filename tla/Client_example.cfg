\* The program of README.md:142-184, connections that hold.
CONSTANTS
  main = main
  a = a
  b = b
  p1 = p1
  p2 = p2
  c1 = c1
  v1 = v1
  v2 = v2
  k1 = k1
  k2 = k2
  Goroutines <- Gs
  Main = main
  Sessions = {p1, p2, c1}
  Values = {v1, v2}
  Ids = {k1, k2}
  Earlier = {k1}
  Programs <- ExampleOnly
  NoOne = NoOne
  Window = 1
  MaxBreaks = 0
SPECIFICATION FairSpec
PROPERTIES
  ExampleFinishes
\* A program comes to its end, or hangs.
CHECK_DEADLOCK FALSE
