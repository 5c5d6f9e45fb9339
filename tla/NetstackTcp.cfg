\* One control thread, TCP only: every stop returns and every token comes back.
SPECIFICATION Spec
CONSTANTS
  Control = {c1}
  Pump = {p1}
  Instance = {i1, i2}
  Runtime = {r1, r2}
  TcpFlow = {t1, t2}
  UdpFlow = {}
  MaxTCP = 1
  MaxUDP = 1
  nil = nil
INVARIANTS OneInstance
PROPERTIES StopReturns TokensComeBack
