\* Two host threads that take turns, three descriptors, two frames a generation.
SPECIFICATION SerialSpec
CONSTANTS
  Client = {c1, c2}
  Fd = {f1, f2, f3}
  nil = nil
  MaxFrames = 2
INVARIANTS TypeOK NoOrphanPump StatsCoherent
PROPERTIES StopReturns
