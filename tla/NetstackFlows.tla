---------------------------- MODULE NetstackFlows ---------------------------
(***************************************************************************)
(* The steps of the flows' goroutines, handleTCP and the relays, keep the  *)
(* invariant of NetstackInvariant.                                         *)
(***************************************************************************)
EXTENDS NetstackInvariant, TLAPS

\* A flow's goroutine touches neither the engine nor a runtime's life.
LEMMA FlowStepKeeps ==
  ASSUME IInv, UNCHANGED <<engineVars, runtimeVars, threadVars, home>>
  PROVE  CloseInv' /\ EngineInv'
BY DEF IInv, CloseInv, EngineInv, RuntimeHasInstance, OneInstance, Injecting, engineVars, runtimeVars, threadVars

\* A step of handleTCP preserves the invariant.
LEMMA HandlerStep ==
  ASSUME IInv, NEW f \in TcpFlow, TcpHandler(f)
  PROVE  IInv'
<1> USE NetstackConstants DEF IInv, Thread, Flow, Relaying, Counted, OnRuntime, Closing, InUdp, InUdpChecks, Injecting,
        FlowGoto, TakeToken, ReturnToken, engineVars, runtimeVars, threadVars
<1>1. CloseInv' /\ EngineInv'
  <2>1. UNCHANGED <<engineVars, runtimeVars, threadVars, home>>
    BY DEF TcpHandler,
       TcpToken, TcpNoToken, TcpNoEndpoint, TcpEndpoint, TcpBadAddress, TcpReady, TcpStart, StartWork
  <2>2. QED
    BY <2>1, FlowStepKeeps
<1>2. CASE TcpToken(f)
  <2>1. TypeOK'
    BY <1>2 DEF TypeOK, ThreadPC, FlowPC, InstanceState, StackState, TcpToken
  <2>2. FlowInv'
    BY <1>2 DEF TypeOK, FlowInv, TcpToken
  <2>3. QED
    BY <1>1, <2>1, <2>2
<1>3. CASE TcpNoToken(f)
  <2>1. TypeOK'
    BY <1>3 DEF TypeOK, ThreadPC, FlowPC, InstanceState, StackState, TcpNoToken
  <2>2. FlowInv'
    BY <1>3 DEF TypeOK, FlowInv, TcpNoToken
  <2>3. QED
    BY <1>1, <2>1, <2>2
<1>4. CASE TcpNoEndpoint(f)
  <2>1. TypeOK'
    BY <1>4 DEF TypeOK, ThreadPC, FlowPC, InstanceState, StackState, TcpNoEndpoint
  <2>2. FlowInv'
    BY <1>4 DEF TypeOK, FlowInv, TcpNoEndpoint
  <2>3. QED
    BY <1>1, <2>1, <2>2
<1>5. CASE TcpEndpoint(f)
  <2>1. TypeOK'
    BY <1>5 DEF TypeOK, ThreadPC, FlowPC, InstanceState, StackState, TcpEndpoint
  <2>2. FlowInv'
    BY <1>5 DEF TypeOK, FlowInv, TcpEndpoint
  <2>3. QED
    BY <1>1, <2>1, <2>2
<1>6. CASE TcpBadAddress(f)
  <2>1. TypeOK'
    BY <1>6 DEF TypeOK, ThreadPC, FlowPC, InstanceState, StackState, TcpBadAddress
  <2>2. FlowInv'
    BY <1>6 DEF TypeOK, FlowInv, TcpBadAddress
  <2>3. QED
    BY <1>1, <2>1, <2>2
<1>7. CASE TcpReady(f)
  <2>1. TypeOK'
    BY <1>7 DEF TypeOK, ThreadPC, FlowPC, InstanceState, StackState, TcpReady
  <2>2. FlowInv'
    BY <1>7 DEF TypeOK, FlowInv, TcpReady
  <2>3. QED
    BY <1>1, <2>1, <2>2
<1>8. CASE TcpStart(f)
  <2>1. TypeOK'
    BY <1>8 DEF TypeOK, ThreadPC, FlowPC, InstanceState, StackState, TcpStart, StartWork
  <2>2. FlowInv'
    BY <1>8 DEF TypeOK, CloseInv, FlowInv, TcpStart, StartWork
  <2>3. QED
    BY <1>1, <2>1, <2>2
<1> HIDE DEF IInv
<1>9. QED
  BY <1>2, <1>3, <1>4, <1>5, <1>6, <1>7, <1>8 DEF TcpHandler

\* A step of a relay's goroutine preserves the invariant.
LEMMA WorkerStep ==
  ASSUME IInv, NEW f \in Flow, Worker(f) \/ WorkEnds(f) \/ WorkBlocks(f) \/ WorkUnblocks(f)
  PROVE  IInv'
<1> USE NetstackConstants DEF IInv, Thread, Flow, Relaying, Counted, OnRuntime, Closing, InUdp, InUdpChecks, Injecting,
        FlowGoto, TakeToken, ReturnToken, engineVars, runtimeVars, threadVars
<1>1. CloseInv' /\ EngineInv'
  <2>1. UNCHANGED <<engineVars, runtimeVars, threadVars, home>>
    BY DEF Worker,
       WorkAborted, WorkEnds, WorkRelease, WorkDone, WorkBlocks, WorkUnblocks
  <2>2. QED
    BY <2>1, FlowStepKeeps
<1>2. CASE WorkAborted(f)
  <2>1. TypeOK'
    BY <1>2 DEF TypeOK, ThreadPC, FlowPC, InstanceState, StackState, WorkAborted
  <2>2. FlowInv'
    BY <1>2 DEF TypeOK, FlowInv, WorkAborted
  <2>3. QED
    BY <1>1, <2>1, <2>2
<1>3. CASE WorkEnds(f)
  <2>1. TypeOK'
    BY <1>3 DEF TypeOK, ThreadPC, FlowPC, InstanceState, StackState, WorkEnds
  <2>2. FlowInv'
    BY <1>3 DEF TypeOK, FlowInv, WorkEnds
  <2>3. QED
    BY <1>1, <2>1, <2>2
<1>4. CASE WorkRelease(f)
  <2>1. TypeOK'
    BY <1>4 DEF TypeOK, ThreadPC, FlowPC, InstanceState, StackState, WorkRelease
  <2>2. FlowInv'
    BY <1>4 DEF TypeOK, FlowInv, WorkRelease
  <2>3. QED
    BY <1>1, <2>1, <2>2
<1>5. CASE WorkDone(f)
  <2>1. TypeOK'
    BY <1>5 DEF TypeOK, ThreadPC, FlowPC, InstanceState, StackState, WorkDone
  <2>2. FlowInv'
    BY <1>5 DEF TypeOK, FlowInv, WorkDone
  <2>3. QED
    BY <1>1, <2>1, <2>2
<1>6. CASE WorkBlocks(f)
  <2>1. TypeOK'
    BY <1>6 DEF TypeOK, ThreadPC, FlowPC, InstanceState, StackState, WorkBlocks
  <2>2. FlowInv'
    BY <1>6 DEF TypeOK, FlowInv, WorkBlocks
  <2>3. QED
    BY <1>1, <2>1, <2>2
<1>7. CASE WorkUnblocks(f)
  <2>1. TypeOK'
    BY <1>7 DEF TypeOK, ThreadPC, FlowPC, InstanceState, StackState, WorkUnblocks
  <2>2. FlowInv'
    BY <1>7 DEF TypeOK, FlowInv, WorkUnblocks
  <2>3. QED
    BY <1>1, <2>1, <2>2
<1> HIDE DEF IInv
<1>8. QED
  BY <1>2, <1>3, <1>4, <1>5, <1>6, <1>7 DEF Worker
=============================================================================
