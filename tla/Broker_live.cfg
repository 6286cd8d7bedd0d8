\* Two topics, so that requests may pair a subscriber id with the wrong one.
CONSTANTS
  Topics = {t1, t2}
  SubIds = {s1}
  Handlers = {h1, h2}
  NoOne = NoOne
  Window = 1
  MaxPublishes = 2
SPECIFICATION FairSpec
PROPERTIES
  RequestsAnswered
\* The process may die, or every call may wait for a lock that is never
\* released.
CHECK_DEADLOCK FALSE
