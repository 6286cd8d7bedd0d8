\* Two calls in any mixture, and a signal that comes twice more.
CONSTANTS
  Calls = {c1, c2}
  MaxSignals = 3
SPECIFICATION FairSpec
INVARIANTS
  TypeOK
  CleanExitDropsNothing
  StopNeverPanicsWhileServing
PROPERTIES
  OneSignalIsEnough
\* The process ends.
CHECK_DEADLOCK FALSE
