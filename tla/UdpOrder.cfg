\* Three answers to one ray through a cache of two.  The flow ends, so the
\* model may stop.
CONSTANTS
  Ray = {r1}
  Writer = {w1}
  Packet = {p1, p2, p3}
  Cache = 2
  MaxWrites = 1
  nil = nil
SPECIFICATION Spec
INVARIANTS TypeOK InRayOrder
PROPERTIES RaysEnd
CHECK_DEADLOCK FALSE
