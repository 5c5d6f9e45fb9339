\* Two writers, two writes over two rays.  The flow ends, so the model may stop.
CONSTANTS
  Ray = {r1, r2}
  Writer = {w1, w2}
  Packet = {}
  Cache = 1
  MaxWrites = 2
  nil = nil
SPECIFICATION Spec
INVARIANTS OpenIsCurrent
PROPERTIES ForeignCutOnlyAtEnd WritesReturn
CHECK_DEADLOCK FALSE
