\* All three routes, two chunks each way through windows of one chunk.  A relay
\* ends, so the model may stop.
SPECIFICATION Spec
CONSTANTS
  Routes = {"block", "direct", "proxy"}
  MaxChunks = 2
  Window = 1
INVARIANTS TypeOK InOrder Complete
PROPERTIES DirectGrace RelayEnds StopEndsRelay
CHECK_DEADLOCK FALSE
