\* Two host threads whose calls overlap freely.
SPECIFICATION Spec
CONSTANTS
  Client = {c1, c2}
  Fd = {f1, f2}
  nil = nil
  MaxFrames = 1
INVARIANTS ErrorOnlyUnasked OpenHasOwner
PROPERTIES StalePumpHarmless LostOnlyToStaleStop CancelledPumpEnds
