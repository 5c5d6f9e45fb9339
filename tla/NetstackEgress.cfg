\* Two readers, four packets of two sizes, a queue of two.  The runtime ends
\* with close, so the model may stop.
SPECIFICATION Spec
CONSTANTS
  a = a
  b = b
  c = c
  d = d
  Reader = {h1, h2}
  Packet = {a, b, c, d}
  Size <- MCSize
  Depth = 2
  nil = nil
INVARIANTS TypeOK ExactlyOnceInOrder EachReleasedOnce
CHECK_DEADLOCK FALSE
