\* Four nodes: a walk of up to two steps, and room to reuse popped nodes.
CONSTANTS
  Nodes = {n1, n2, n3, n4}
  Values = {v1, v2}
  Nil = Nil
SPECIFICATION FairSpec
INVARIANTS
  TypeOK
  ListIsChain
  CountIsLength
PROPERTIES
  PushReturns
  ImplementsFIFO
