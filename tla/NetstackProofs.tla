--------------------------- MODULE NetstackProofs ---------------------------
(***************************************************************************)
(* The steps of FoloXrayStop and close keep the invariant of               *)
(* NetstackInvariant, so it holds in every reachable state, and what       *)
(* follows from it.                                                        *)
(***************************************************************************)
EXTENDS NetstackPackets, NetstackFlows, TLAPS

\* What follows a call, close included, preserves the invariant.
LEMMA ContinueStep ==
  ASSUME IInv, NEW t \in Control, ControlContinues(t) \/ NetstackStopClear(t)
  PROVE  IInv'
<1> USE NetstackConstants DEF IInv, Thread, Flow, Relaying, Counted, OnRuntime, Closing, InUdp, InUdpChecks, Injecting,
        Goto, engineVars, runtimeVars, flowVars, threadVars
<1>1. CASE StopSwap(t)
  <2>1. TypeOK'
    BY <1>1 DEF TypeOK, ThreadPC, FlowPC, InstanceState, StackState, StopSwap, SwapRuntime
  <2>2. CloseInv'
    BY <1>1 DEF TypeOK, CloseInv, StopSwap, SwapRuntime
  <2>3. EngineInv'
    BY <1>1 DEF TypeOK, EngineInv, RuntimeHasInstance, OneInstance, StopSwap, SwapRuntime
  <2>4. FlowInv'
    BY <1>1 DEF TypeOK, FlowInv, StopSwap, SwapRuntime
  <2>5. QED
    BY <2>1, <2>2, <2>3, <2>4
<1>2. CASE StopInstance(t)
  <2>0. instance \in Instance
    BY <1>2 DEF TypeOK, EngineInv, StopInstance
  <2>1. TypeOK'
    BY <1>2, <2>0 DEF TypeOK, ThreadPC, FlowPC, InstanceState, StackState, StopInstance
  <2>2. CloseInv'
    BY <1>2 DEF TypeOK, CloseInv, StopInstance
  <2>3. EngineInv'
    BY <1>2 DEF TypeOK, EngineInv, RuntimeHasInstance, OneInstance, StopInstance
  <2>4. FlowInv'
    BY <1>2 DEF TypeOK, FlowInv, StopInstance
  <2>5. QED
    BY <2>1, <2>2, <2>3, <2>4
<1>3. CASE CloseAnnounce(t)
  <2>1. TypeOK'
    BY <1>3 DEF TypeOK, ThreadPC, FlowPC, InstanceState, StackState, CloseAnnounce
  <2>2. CloseInv'
    BY <1>3 DEF TypeOK, CloseInv, CloseAnnounce
  <2>3. EngineInv'
    BY <1>3 DEF TypeOK, EngineInv, RuntimeHasInstance, OneInstance, CloseAnnounce
  <2>4. FlowInv'
    BY <1>3 DEF TypeOK, FlowInv, CloseAnnounce
  <2>5. QED
    BY <2>1, <2>2, <2>3, <2>4
<1>4. CASE CloseMark(t)
  <2>1. TypeOK'
    BY <1>4 DEF TypeOK, ThreadPC, FlowPC, InstanceState, StackState, CloseMark
  <2>2. CloseInv'
    BY <1>4 DEF TypeOK, CloseInv, CloseMark
  <2>3. EngineInv'
    BY <1>4 DEF TypeOK, CloseInv, EngineInv, RuntimeHasInstance, OneInstance, CloseMark
  <2>4. FlowInv'
    BY <1>4 DEF TypeOK, FlowInv, CloseMark
  <2>5. QED
    BY <2>1, <2>2, <2>3, <2>4
<1>5. CASE CloseStack(t)
  <2>1. TypeOK'
    BY <1>5 DEF TypeOK, ThreadPC, FlowPC, InstanceState, StackState, CloseStack
  <2>2. CloseInv'
    BY <1>5 DEF TypeOK, CloseInv, CloseStack
  <2>3. EngineInv'
    BY <1>5 DEF TypeOK, EngineInv, RuntimeHasInstance, OneInstance, CloseStack
  <2>4. FlowInv'
    BY <1>5 DEF TypeOK, FlowInv, CloseStack
  <2>5. QED
    BY <2>1, <2>2, <2>3, <2>4
<1>6. CASE CloseWait(t)
  <2>1. TypeOK'
    BY <1>6 DEF TypeOK, ThreadPC, FlowPC, InstanceState, StackState, CloseWait
  <2>2. CloseInv'
    BY <1>6 DEF TypeOK, CloseInv, CloseWait
  <2>3. EngineInv'
    BY <1>6 DEF TypeOK, EngineInv, RuntimeHasInstance, OneInstance, CloseWait
  <2>4. FlowInv'
    BY <1>6 DEF TypeOK, FlowInv, CloseWait
  <2>5. QED
    BY <2>1, <2>2, <2>3, <2>4
<1>7. CASE NetstackStopClear(t)
  <2>1. TypeOK'
    BY <1>7 DEF TypeOK, ThreadPC, FlowPC, InstanceState, StackState, NetstackStopClear
  <2>2. CloseInv'
    BY <1>7 DEF TypeOK, CloseInv, NetstackStopClear
  <2>3. EngineInv'
    BY <1>7 DEF TypeOK, EngineInv, RuntimeHasInstance, OneInstance, NetstackStopClear
  <2>4. FlowInv'
    BY <1>7 DEF TypeOK, FlowInv, NetstackStopClear
  <2>5. QED
    BY <2>1, <2>2, <2>3, <2>4
<1> HIDE DEF IInv
<1>8. QED
  BY <1>1, <1>2, <1>3, <1>4, <1>5, <1>6, <1>7 DEF ControlContinues

\* Init establishes the invariant and every step preserves it.
LEMMA Invariant == Spec => []IInv
<1>1. Init => IInv
  BY NetstackConstants DEF Init, IInv, TypeOK, CloseInv, EngineInv, FlowInv, RuntimeHasInstance, OneInstance,
     Thread, Flow, ThreadPC, FlowPC, InstanceState, StackState, Relaying, Counted, OnRuntime, Closing, InUdp, InUdpChecks, Injecting
<1>2. IInv /\ [Next]_vars => IInv'
  <2>1. CASE UNCHANGED vars
    BY <2>1 DEF vars, IInv, TypeOK, CloseInv, EngineInv, FlowInv, RuntimeHasInstance, OneInstance,
       Injecting, engineVars, runtimeVars, flowVars, threadVars
  <2>2. QED
    BY <2>1, CallStep, ContinueStep, PumpStep, HandlerStep, WorkerStep DEF Next, Flow
<1>3. QED
  BY <1>1, <1>2, PTL DEF Spec

-----------------------------------------------------------------------------
(* The theorems *)

\* Type correctness of engine, runtimes, threads and flows.
THEOREM TypeCorrect == Spec => []TypeOK
<1>1. IInv => TypeOK
  BY DEF IInv
<1>2. QED
  BY <1>1, Invariant, PTL

\* No packet is injected into a stack that is being torn down.
THEOREM InjectionIsSafe == Spec => []NoInjectAfterClose
<1>1. IInv => NoInjectAfterClose
  BY NetstackConstants DEF IInv, TypeOK, CloseInv, NoInjectAfterClose, Injecting
<1>2. QED
  BY <1>1, Invariant, PTL

\* When close has returned, no relay of that runtime runs or will ever start.
THEOREM CloseJoinsWorkers == Spec => []WorkersJoined
<1>1. IInv => WorkersJoined
  BY DEF IInv, TypeOK, FlowInv, WorkersJoined
<1>2. QED
  BY <1>1, Invariant, PTL

\* The runtime packets go to belongs to the one running instance.
THEOREM RuntimeOnRunningInstance == Spec => [](RuntimeHasInstance /\ OneInstance)
<1>1. IInv => RuntimeHasInstance /\ OneInstance
  BY DEF IInv, EngineInv
<1>2. QED
  BY <1>1, Invariant, PTL

\* A relay runs on a closed instance only while a FoloXrayNetstackStop that does
\* not hold the engine mutex is closing its runtime, whatever calls overlap.
THEOREM RelayOnRunningInstance == Spec => []RelayHasInstance
<1>1. ASSUME IInv, NEW f \in Flow, fpc[f] \in Relaying, inst[of[home[f]]] # "running"
      PROVE  \E t \in Control : pc[t] \in Closing /\ on[t] = home[f] /\ lock # t
  <2>1. home[f] \in Runtime /\ of[home[f]] # nil
    BY <1>1, NetstackConstants DEF IInv, TypeOK, CloseInv, Relaying
  <2>2. stack[home[f]] # "gone"
    BY <1>1, <2>1 DEF IInv, FlowInv, Counted
  <2>3. runtime # home[f]
    BY <1>1, <2>1, NetstackConstants DEF IInv, EngineInv, RuntimeHasInstance
  <2>4. PICK t \in Control : pc[t] \in Closing /\ on[t] = home[f]
    BY <1>1, <2>1, <2>2, <2>3 DEF IInv, CloseInv
  <2>5. lock # t
    BY <1>1, <2>4, NetstackConstants DEF IInv, EngineInv, Thread
  <2>6. QED
    BY <2>4, <2>5
<1>2. IInv => RelayHasInstance
  BY <1>1 DEF RelayHasInstance
<1>3. QED
  BY <1>2, Invariant, PTL
=============================================================================
