\* One topic with up to two subscribers, a call, two values so that a
\* drain meets a full window, a gauge.
CONSTANTS
  Topics = {t1}
  SubIds = {s1, s2}
  Handlers = {h1}
  NoOne = NoOne
  Window = 1
  MaxPublishes = 2
  Dashboard = Dashboard
  Gauges = {cpu}
  Levels = {0, 1}
SPECIFICATION TelemetryFairSpec
INVARIANTS
  TelemetryTypeOK
  CountsAreOfOneInstant
PROPERTIES
  NoBrokerWriteDuringRange
  BrokerUndisturbed
  ReadingsKeepComing
  EveryGaugeIsDrawn
  AnsweredWhileWatched
\* The process may die.
CHECK_DEADLOCK FALSE
