--------------------------- MODULE NetstackPackets --------------------------
(***************************************************************************)
(* The steps of the packet threads, injectPacket and handleUDP, keep the   *)
(* invariant of NetstackInvariant.                                         *)
(***************************************************************************)
EXTENDS NetstackInvariant, TLAPS

\* A packet thread touches neither the engine nor a runtime's life.
LEMMA PumpStepKeeps ==
  ASSUME IInv, NEW t \in Pump, UNCHANGED <<engineVars, runtimeVars>>,
         \A u \in Thread : u # t => (pc'[u] = pc[u] /\ on'[u] = on[u]),
         pc'[t] \notin {"stop_swap", "stop_instance"}
  PROVE  EngineInv'
BY NetstackConstants DEF IInv, TypeOK, EngineInv, RuntimeHasInstance, OneInstance, Thread, engineVars, runtimeVars

\* handleUDP keeps to the flow and the runtime it was given.
LEMMA UdpStepKeeps ==
  ASSUME IInv, NEW t \in Pump, UNCHANGED <<engineVars, runtimeVars, home, on>>, Injecting(t),
         \A u \in Thread : u # t => pc'[u] = pc[u],
         pc'[t] \in {"idle"} \cup InUdp
  PROVE  CloseInv' /\ EngineInv'
<1>1. EngineInv'
  BY PumpStepKeeps DEF InUdp
<1>2. CloseInv'
  BY NetstackConstants DEF IInv, TypeOK, CloseInv, Closing, Injecting, InUdp, Thread, engineVars, runtimeVars
<1>3. QED
  BY <1>1, <1>2

\* A step of a packet thread preserves the invariant.
LEMMA PumpStep ==
  ASSUME IInv, NEW t \in Pump, WritePacket(t) \/ PumpContinues(t)
  PROVE  IInv'
<1> USE NetstackConstants DEF IInv, Thread, Flow, Relaying, Counted, OnRuntime, Closing, InUdp, InUdpChecks, Injecting,
        Goto, FlowGoto, InjectReturns, TakeToken, ReturnToken, engineVars, runtimeVars, flowVars, threadVars
<1>0. pc[t] \in InUdp => req[t] \in UdpFlow /\ home[req[t]] \in Runtime
  BY DEF TypeOK, FlowInv
<1>1. CASE WritePacket(t)
  <2>1. TypeOK'
    BY <1>1 DEF TypeOK, ThreadPC, FlowPC, InstanceState, StackState, WritePacket
  <2>2. CloseInv'
    BY <1>1 DEF TypeOK, CloseInv, WritePacket
  <2>3. EngineInv'
    BY <1>1, PumpStepKeeps DEF TypeOK, WritePacket
  <2>4. FlowInv'
    BY <1>1 DEF TypeOK, FlowInv, WritePacket
  <2>5. QED
    BY <2>1, <2>2, <2>3, <2>4
<1>2. CASE InjectRefused(t)
  <2>1. TypeOK'
    BY <1>2 DEF TypeOK, ThreadPC, FlowPC, InstanceState, StackState, InjectRefused
  <2>2. CloseInv'
    BY <1>2 DEF TypeOK, CloseInv, InjectRefused
  <2>3. EngineInv'
    BY <1>2, PumpStepKeeps DEF TypeOK, InjectRefused
  <2>4. FlowInv'
    BY <1>2 DEF TypeOK, FlowInv, InjectRefused
  <2>5. QED
    BY <2>1, <2>2, <2>3, <2>4
<1>3. CASE InjectLock(t)
  <2>1. TypeOK'
    BY <1>3 DEF TypeOK, ThreadPC, FlowPC, InstanceState, StackState, InjectLock
  <2>2. CloseInv'
    BY <1>3 DEF TypeOK, CloseInv, InjectLock
  <2>3. EngineInv'
    BY <1>3, PumpStepKeeps DEF TypeOK, InjectLock
  <2>4. FlowInv'
    BY <1>3 DEF TypeOK, FlowInv, InjectLock
  <2>5. QED
    BY <2>1, <2>2, <2>3, <2>4
<1>4. CASE InjectData(t)
  <2>1. TypeOK'
    BY <1>4 DEF TypeOK, ThreadPC, FlowPC, InstanceState, StackState, InjectData
  <2>2. CloseInv'
    BY <1>4 DEF TypeOK, CloseInv, InjectData
  <2>3. EngineInv'
    BY <1>4, PumpStepKeeps DEF TypeOK, InjectData
  <2>4. FlowInv'
    BY <1>4 DEF TypeOK, FlowInv, InjectData
  <2>5. QED
    BY <2>1, <2>2, <2>3, <2>4
<1>5. ASSUME NEW f \in TcpFlow, InjectTCP(t, f) PROVE IInv'
  <2>1. TypeOK'
    BY <1>5 DEF TypeOK, ThreadPC, FlowPC, InstanceState, StackState, InjectTCP
  <2>2. CloseInv'
    BY <1>5 DEF TypeOK, CloseInv, InjectTCP
  <2>3. EngineInv'
    BY <1>5, PumpStepKeeps DEF TypeOK, InjectTCP
  <2>4. FlowInv'
    BY <1>5 DEF TypeOK, FlowInv, InjectTCP
  <2>5. QED
    BY <2>1, <2>2, <2>3, <2>4
<1>6. ASSUME NEW f \in UdpFlow, InjectUDP(t, f) PROVE IInv'
  <2>1. TypeOK'
    BY <1>6 DEF TypeOK, ThreadPC, FlowPC, InstanceState, StackState, InjectUDP
  <2>2. CloseInv'
    BY <1>6 DEF TypeOK, CloseInv, InjectUDP
  <2>3. EngineInv'
    BY <1>6, PumpStepKeeps DEF TypeOK, InjectUDP
  <2>4. FlowInv'
    BY <1>6 DEF TypeOK, FlowInv, InjectUDP
  <2>5. QED
    BY <2>1, <2>2, <2>3, <2>4
<1>7. CASE UdpToken(t)
  <2>1. TypeOK'
    BY <1>0, <1>7 DEF TypeOK, ThreadPC, FlowPC, InstanceState, StackState, UdpToken
  <2>2. CloseInv' /\ EngineInv'
    BY <1>7, UdpStepKeeps DEF TypeOK, UdpToken
  <2>3. FlowInv'
    BY <1>7 DEF TypeOK, FlowInv, UdpToken
  <2>4. QED
    BY <2>1, <2>2, <2>3
<1>8. CASE UdpNoToken(t)
  <2>1. TypeOK'
    BY <1>0, <1>8 DEF TypeOK, ThreadPC, FlowPC, InstanceState, StackState, UdpNoToken
  <2>2. CloseInv' /\ EngineInv'
    BY <1>8, UdpStepKeeps DEF TypeOK, UdpNoToken
  <2>3. FlowInv'
    BY <1>8 DEF TypeOK, FlowInv, UdpNoToken
  <2>4. QED
    BY <2>1, <2>2, <2>3
<1>9. ASSUME NEW at \in InUdpChecks, UdpFails(t, at) PROVE IInv'
  <2>1. TypeOK'
    BY <1>0, <1>9 DEF TypeOK, ThreadPC, FlowPC, InstanceState, StackState, UdpFails
  <2>2. CloseInv' /\ EngineInv'
    BY <1>9, UdpStepKeeps DEF TypeOK, UdpFails
  <2>3. FlowInv'
    BY <1>9 DEF TypeOK, FlowInv, UdpFails
  <2>4. QED
    BY <2>1, <2>2, <2>3
<1>10. ASSUME NEW at \in InUdpChecks, NEW next \in InUdpChecks, UdpPasses(t, at, next) PROVE IInv'
  <2>1. TypeOK'
    BY <1>10 DEF TypeOK, ThreadPC, FlowPC, InstanceState, StackState, UdpPasses
  <2>2. CloseInv' /\ EngineInv'
    BY <1>10, UdpStepKeeps DEF TypeOK, UdpPasses
  <2>3. FlowInv'
    BY <1>10 DEF TypeOK, FlowInv, UdpPasses
  <2>4. QED
    BY <2>1, <2>2, <2>3
<1>11. CASE UdpDialed(t)
  <2>1. TypeOK'
    BY <1>0, <1>11 DEF TypeOK, ThreadPC, FlowPC, InstanceState, StackState, UdpDialed
  <2>2. CloseInv' /\ EngineInv'
    BY <1>11, UdpStepKeeps DEF TypeOK, UdpDialed
  <2>3. FlowInv'
    BY <1>11 DEF TypeOK, FlowInv, UdpDialed
  <2>4. QED
    BY <2>1, <2>2, <2>3
<1>12. CASE UdpStart(t)
  <2>1. TypeOK'
    BY <1>0, <1>12 DEF TypeOK, ThreadPC, FlowPC, InstanceState, StackState, UdpStart, StartWork
  <2>2. CloseInv' /\ EngineInv'
    BY <1>12, UdpStepKeeps DEF TypeOK, UdpStart
  <2>3. FlowInv'
    BY <1>12 DEF TypeOK, CloseInv, FlowInv, UdpStart, StartWork
  <2>4. QED
    BY <2>1, <2>2, <2>3
<1> HIDE DEF IInv
<1>13. CASE UdpAddress(t) \/ UdpRoute(t) \/ UdpEndpoint(t) \/ UdpDialFails(t)
  BY <1>9, <1>10, <1>13 DEF UdpAddress, UdpRoute, UdpEndpoint, UdpDialFails
<1>14. QED
  BY <1>1, <1>2, <1>3, <1>4, <1>5, <1>6, <1>7, <1>8, <1>11, <1>12, <1>13 DEF PumpContinues
=============================================================================
