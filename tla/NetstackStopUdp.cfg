\* A stop that meets the opening of a UDP flow.
SPECIFICATION Spec
CONSTANTS
  Control = {c1}
  Pump = {p1}
  Instance = {i1}
  Runtime = {r1}
  TcpFlow = {}
  UdpFlow = {u1}
  MaxTCP = 1
  MaxUDP = 1
  nil = nil
PROPERTIES StopReturns
CHECK_DEADLOCK FALSE
