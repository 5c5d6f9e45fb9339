\* Two control threads, two instances, two runtimes, a TCP and two UDP flows for
\* one UDP token.  Deadlock is not checked: the lifeMu deadlock of
\* NetstackStopUdp.cfg is reachable here.
SPECIFICATION Spec
CONSTANTS
  Control = {c1, c2}
  Pump = {p1}
  Instance = {i1, i2}
  Runtime = {r1, r2}
  TcpFlow = {t1}
  UdpFlow = {u1, u2}
  MaxTCP = 1
  MaxUDP = 1
  nil = nil
INVARIANTS TypeOK NoInjectAfterClose WorkersJoined TokensExact RuntimeHasInstance RelayHasInstance
CHECK_DEADLOCK FALSE
