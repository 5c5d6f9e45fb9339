\* Two writers, three chunks.  The reader stops when the pipe has ended, so the
\* model may stop.
SPECIFICATION Spec
CONSTANTS
  Writer = {w1, w2}
  Chunk = {c1, c2, c3}
  Options <- MCOptions
  nil = nil
INVARIANTS TypeOK AcceptedInOrder ReleasedUnreachable ReaderAwake WriterAwake
PROPERTIES WritesReturn ImplementsFifo
CHECK_DEADLOCK FALSE
