\* A client that half-closes a proxied connection.
SPECIFICATION Spec
CONSTANTS
  Routes = {"proxy"}
  MaxChunks = 1
  Window = 1
PROPERTIES GraceGiven
CHECK_DEADLOCK FALSE
