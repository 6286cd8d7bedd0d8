\* One client that consumes after it unsubscribed is enough.
CONSTANTS
  Topics = {t1}
  SubIds = {s1}
  Handlers = {h1, h2}
  NoOne = NoOne
  Window = 1
  MaxPublishes = 1
SPECIFICATION Spec
INVARIANTS
  ServerSurvives
\* A process that died takes no step.
CHECK_DEADLOCK FALSE
