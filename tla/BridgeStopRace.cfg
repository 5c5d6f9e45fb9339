\* Two Stops of the same generation.
SPECIFICATION Spec
CONSTANTS
  Client = {c1, c2}
  Fd = {f1}
  nil = nil
  MaxFrames = 0
PROPERTIES StopReturns
