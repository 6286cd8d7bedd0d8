\* The smallest instance in which one consumer can hold up another.
CONSTANTS
  Topics = {t1}
  SubIds = {s1}
  Handlers = {h1, h2}
  NoOne = NoOne
  Window = 1
  MaxPublishes = 1
SPECIFICATION FairSpec
PROPERTIES
  ConsumeCloses
\* The counterexample ends in a state in which nobody can move.
CHECK_DEADLOCK FALSE
