-------------------------- MODULE NetstackInvariant -------------------------
(***************************************************************************)
(* The inductive invariant of Netstack, for any number of host threads,    *)
(* flows, instances and runtimes and any token limits, and the calls of the *)
(* control threads.  What follows a call is in NetstackProofs, with the     *)
(* theorems; the packet threads are in NetstackPackets, the flows'          *)
(* goroutines in NetstackFlows, the tokens in NetstackTokens.              *)
(***************************************************************************)
EXTENDS Netstack, TLAPS

\* The points of handleUDP between taking the token and dialling.
InUdpChecks == {"udp_address", "udp_route", "udp_endpoint", "udp_dial"}

\* A runtime goes through close once, in the hands of one thread: closed is set
\* before the stack is closed, and the stack is closed before it is gone.  Until
\* then the runtime is the current one or in the hands of a control thread.
CloseInv ==
  /\ \A t, u \in Thread : (pc[t] \in Closing /\ pc[u] \in Closing /\ on[t] = on[u]) => t = u
  /\ \A t \in Thread : on[t] # nil => of[on[t]] # nil
  /\ \A t \in Thread : pc[t] \in Closing => runtime # on[t]
  /\ \A t \in Thread : pc[t] \in {"close", "close_lock"} => ~closed[on[t]]
  /\ \A t \in Thread : pc[t] = "close_stack" => closed[on[t]] /\ stack[on[t]] = "open"
  /\ \A t \in Thread : pc[t] = "close_wait" => closed[on[t]] /\ stack[on[t]] = "closed"
  /\ \A t \in Thread : Injecting(t) => ~closed[on[t]]
  /\ runtime # nil => of[runtime] # nil /\ ~closed[runtime]
  /\ \A r \in Runtime : of[r] # nil => stack[r] # "unused"
  /\ \A r \in Runtime : stack[r] = "unused" => ~closed[r]
  /\ \A r \in Runtime : (of[r] # nil /\ ~closed[r]) => stack[r] = "open"
  /\ \A f \in Flow : home[f] # nil => of[home[f]] # nil
  /\ \A r \in Runtime : (of[r] # nil /\ stack[r] # "gone") =>
       runtime = r \/ \E t \in Control : pc[t] \in Closing /\ on[t] = r

\* The engine mutex and what its holder knows.
EngineInv ==
  /\ lock # nil => pc[lock] \in Closing \cup {"stop_swap", "stop_instance"}
  /\ \A t \in Thread : pc[t] \in {"stop_swap", "stop_instance"} => lock = t
  /\ lock # nil => instance # nil
  /\ (lock # nil /\ pc[lock] # "stop_swap") => runtime = nil
  /\ (lock # nil /\ pc[lock] \in Closing) => of[on[lock]] = instance
  /\ instance # nil => inst[instance] = "running"
  /\ OneInstance
  /\ RuntimeHasInstance

\* UDP flows in the hands of an injecting thread, and the WaitGroup.
FlowInv ==
  /\ \A t \in Thread : pc[t] \in InUdp => req[t] \in UdpFlow /\ home[req[t]] = on[t]
  /\ \A t, u \in Thread : (pc[t] \in InUdp /\ pc[u] \in InUdp /\ req[t] = req[u]) => t = u
  /\ \A t \in Thread : pc[t] = "udp" => fpc[req[t]] = "handler"
  /\ \A t \in Thread : pc[t] \in InUdpChecks => fpc[req[t]] = "accepted"
  /\ \A t \in Thread : pc[t] = "udp_start" => fpc[req[t]] = "ready"
  /\ \A r \in Runtime, f \in Flow : f \in work[r] <=> (home[f] = r /\ fpc[f] \in Counted)
  /\ \A r \in Runtime : stack[r] = "gone" => work[r] = {}

IInv == TypeOK /\ CloseInv /\ EngineInv /\ FlowInv

\* A call of a control thread preserves the invariant.
LEMMA CallStep ==
  ASSUME IInv, NEW t \in Control, ControlCall(t)
  PROVE  IInv'
<1> USE NetstackConstants DEF IInv, Thread, Flow, Relaying, Counted, OnRuntime, Closing, InUdp, InUdpChecks, Injecting,
        Goto, engineVars, runtimeVars, flowVars, threadVars
<1>1. ASSUME NEW i \in Instance, StartJSON(t, i) PROVE IInv'
  <2>1. TypeOK'
    BY <1>1 DEF TypeOK, ThreadPC, FlowPC, InstanceState, StackState, StartJSON
  <2>2. CloseInv'
    BY <1>1 DEF TypeOK, CloseInv, StartJSON
  <2>3. EngineInv'
    BY <1>1 DEF TypeOK, EngineInv, RuntimeHasInstance, OneInstance, StartJSON
  <2>4. FlowInv'
    BY <1>1 DEF TypeOK, FlowInv, StartJSON
  <2>5. QED
    BY <2>1, <2>2, <2>3, <2>4
<1>2. ASSUME NEW i \in Instance, StartJSONFails(t, i) PROVE IInv'
  <2>1. TypeOK'
    BY <1>2 DEF TypeOK, ThreadPC, FlowPC, InstanceState, StackState, StartJSONFails
  <2>2. CloseInv'
    BY <1>2 DEF TypeOK, CloseInv, StartJSONFails
  <2>3. EngineInv'
    BY <1>2 DEF TypeOK, EngineInv, RuntimeHasInstance, OneInstance, StartJSONFails
  <2>4. FlowInv'
    BY <1>2 DEF TypeOK, FlowInv, StartJSONFails
  <2>5. QED
    BY <2>1, <2>2, <2>3, <2>4
<1>3. ASSUME NEW r \in Runtime, NetstackStart(t, r) PROVE IInv'
  <2>1. TypeOK'
    BY <1>3 DEF TypeOK, ThreadPC, FlowPC, InstanceState, StackState, NetstackStart
  <2>2. CloseInv'
    BY <1>3 DEF TypeOK, CloseInv, NetstackStart
  <2>3. EngineInv'
    BY <1>3 DEF TypeOK, CloseInv, EngineInv, RuntimeHasInstance, OneInstance, NetstackStart
  <2>4. FlowInv'
    BY <1>3 DEF TypeOK, FlowInv, NetstackStart
  <2>5. QED
    BY <2>1, <2>2, <2>3, <2>4
<1>4. ASSUME NEW r \in Runtime, NetstackStartFails(t, r) PROVE IInv'
  <2>1. TypeOK'
    BY <1>4 DEF TypeOK, ThreadPC, FlowPC, InstanceState, StackState, NetstackStartFails
  <2>2. CloseInv'
    BY <1>4 DEF TypeOK, CloseInv, NetstackStartFails
  <2>3. EngineInv'
    BY <1>4 DEF TypeOK, EngineInv, RuntimeHasInstance, OneInstance, NetstackStartFails
  <2>4. FlowInv'
    BY <1>4 DEF TypeOK, CloseInv, FlowInv, NetstackStartFails
  <2>5. QED
    BY <2>1, <2>2, <2>3, <2>4
<1>5. CASE StopIdle(t)
  <2>1. TypeOK'
    BY <1>5 DEF TypeOK, ThreadPC, FlowPC, InstanceState, StackState, StopIdle, vars
  <2>2. CloseInv'
    BY <1>5 DEF TypeOK, CloseInv, StopIdle, vars
  <2>3. EngineInv'
    BY <1>5 DEF TypeOK, EngineInv, RuntimeHasInstance, OneInstance, StopIdle, vars
  <2>4. FlowInv'
    BY <1>5 DEF TypeOK, FlowInv, StopIdle, vars
  <2>5. QED
    BY <2>1, <2>2, <2>3, <2>4
<1>6. CASE StopLock(t)
  <2>1. TypeOK'
    BY <1>6 DEF TypeOK, ThreadPC, FlowPC, InstanceState, StackState, StopLock
  <2>2. CloseInv'
    BY <1>6 DEF TypeOK, CloseInv, StopLock
  <2>3. EngineInv'
    BY <1>6 DEF TypeOK, EngineInv, RuntimeHasInstance, OneInstance, StopLock
  <2>4. FlowInv'
    BY <1>6 DEF TypeOK, FlowInv, StopLock
  <2>5. QED
    BY <2>1, <2>2, <2>3, <2>4
<1>7. CASE NetstackStop(t)
  <2>1. TypeOK'
    BY <1>7 DEF TypeOK, ThreadPC, FlowPC, InstanceState, StackState, NetstackStop, SwapRuntime
  <2>2. CloseInv'
    BY <1>7 DEF TypeOK, CloseInv, NetstackStop, SwapRuntime
  <2>3. EngineInv'
    BY <1>7 DEF TypeOK, EngineInv, RuntimeHasInstance, OneInstance, NetstackStop, SwapRuntime
  <2>4. FlowInv'
    BY <1>7 DEF TypeOK, FlowInv, NetstackStop, SwapRuntime
  <2>5. QED
    BY <2>1, <2>2, <2>3, <2>4
<1> HIDE DEF IInv
<1>8. QED
  BY <1>1, <1>2, <1>3, <1>4, <1>5, <1>6, <1>7 DEF ControlCall
=============================================================================
