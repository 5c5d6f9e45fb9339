------------------------------ MODULE Netstack ------------------------------
(***************************************************************************)
(* The life cycle of the managed engine and of the user-space network      *)
(* stack it feeds (apple-wrapper/folo_apple.go and netstack.go): the C     *)
(* entry points that host threads call, the runtime's lifeMu, closed flag, *)
(* WaitGroup and flow tokens, and the goroutines that handle and relay     *)
(* flows.                                                                  *)
(*                                                                         *)
(* engine.instance and engine.state are always assigned together, so one   *)
(* variable stands for both.  A WaitGroup counter and a token channel are  *)
(* modelled by the set of flows counted in them.  lifeMu is a Go RWMutex:  *)
(* once a writer has called Lock, new RLock calls wait, those of threads   *)
(* that already hold it for reading included.  The last-error code is left *)
(* out, so calls that only record it are stuttering steps.                 *)
(***************************************************************************)
EXTENDS FiniteSets, Naturals

CONSTANTS Control,    \* host threads that start and stop engine and netstack
          Pump,       \* host threads that write packets
          Instance,   \* bound: core instances ever created
          Runtime,    \* bound: netstack runtimes ever created
          TcpFlow,    \* bound: TCP connections the host's packets open
          UdpFlow,    \* bound: UDP flows the host's packets open
          MaxTCP,     \* netstackMaxConcurrentTCP
          MaxUDP,     \* netstackMaxConcurrentUDP
          nil

Thread == Control \cup Pump
Flow == TcpFlow \cup UdpFlow

ASSUME NetstackConstants ==
  /\ nil \notin Thread /\ nil \notin Instance /\ nil \notin Runtime /\ nil \notin Flow
  /\ Control \cap Pump = {} /\ TcpFlow \cap UdpFlow = {}
  /\ IsFiniteSet(TcpFlow) /\ IsFiniteSet(UdpFlow)
  /\ MaxTCP \in Nat /\ MaxUDP \in Nat

ThreadPC == {"idle", "stop_swap", "stop_instance", "nstop_clear",
             "close", "close_lock", "close_stack", "close_wait",
             "inject_lock", "inject", "udp", "udp_address", "udp_route",
             "udp_endpoint", "udp_dial", "udp_start"}
FlowPC == {"none", "handler", "accepted", "created", "ready", "working", "blocked",
           "release", "done", "ended"}
InstanceState == {"unused", "running", "closed"}
StackState == {"unused", "open", "closed", "gone"}

VARIABLES
  lock,      \* holder of the engine mutex
  instance,  \* engine.instance (engine.state is running iff it is not nil)
  inst,      \* state of every core.Instance
  runtime,   \* netstack.runtime
  of,        \* the instance each runtime was created for
  closed,    \* closed flag of each runtime, guarded by its lifeMu
  stack,     \* state of each runtime's stack and link
  work,      \* flows counted in each runtime's WaitGroup
  tokens,    \* flows that hold a token of each runtime (tcpTokens and udpTokens)
  pc,        \* program counter of each host thread
  on,        \* runtime the thread's call works on
  req,       \* UDP flow the thread handles inside InjectInbound
  fpc,       \* program counter of each flow's goroutine
  home       \* runtime of each flow

engineVars == <<lock, instance, inst>>
runtimeVars == <<runtime, of, closed, stack>>
flowVars == <<work, tokens, fpc, home>>
threadVars == <<pc, on, req>>
vars == <<engineVars, runtimeVars, flowVars, threadVars>>

Init ==
  /\ lock = nil /\ instance = nil /\ runtime = nil
  /\ inst = [i \in Instance |-> "unused"]
  /\ of = [r \in Runtime |-> nil]
  /\ closed = [r \in Runtime |-> FALSE]
  /\ stack = [r \in Runtime |-> "unused"]
  /\ work = [r \in Runtime |-> {}]
  /\ tokens = [r \in Runtime |-> {}]
  /\ pc = [t \in Thread |-> "idle"]
  /\ on = [t \in Thread |-> nil]
  /\ req = [t \in Thread |-> nil]
  /\ fpc = [f \in Flow |-> "none"]
  /\ home = [f \in Flow |-> nil]

Goto(t, label) == pc' = [pc EXCEPT ![t] = label]
FlowGoto(f, label) == fpc' = [fpc EXCEPT ![f] = label]

\* lifeMu.Lock has been called: no RLock succeeds until Unlock.
WriterWaits(r) == \E t \in Thread : pc[t] = "close_lock" /\ on[t] = r

\* The points of handleUDP, and the threads inside injectPacket: they hold
\* lifeMu for reading.
InUdp == {"udp", "udp_address", "udp_route", "udp_endpoint", "udp_dial", "udp_start"}
Injecting(t) == pc[t] \in {"inject"} \cup InUdp

\* Instances, runtimes and the flows of a kind are interchangeable: they are used
\* in a fixed order.
InstanceTurn(i) == i = CHOOSE j \in Instance : inst[j] = "unused"
RuntimeTurn(r) == r = CHOOSE q \in Runtime : stack[q] = "unused"
FlowTurn(f, kind) == f = CHOOSE g \in kind : fpc[g] = "none"

-----------------------------------------------------------------------------
(* FoloXrayStartJSON, FoloXrayStop *)

\* Fault: Start does not test for a running instance.
StartJSONTwice(t, i) ==
  /\ pc[t] = "idle" /\ lock = nil
  /\ inst[i] = "unused" /\ InstanceTurn(i)
  /\ inst' = [inst EXCEPT ![i] = "running"]
  /\ instance' = i
  /\ UNCHANGED <<lock, runtimeVars, flowVars, threadVars>>

StartJSON(t, i) ==
  /\ pc[t] = "idle" /\ lock = nil
  /\ instance = nil
  /\ inst[i] = "unused" /\ InstanceTurn(i)
  /\ inst' = [inst EXCEPT ![i] = "running"]
  /\ instance' = i
  /\ UNCHANGED <<lock, runtimeVars, flowVars, threadVars>>

\* instance.Start failed: the instance is closed and forgotten.
StartJSONFails(t, i) ==
  /\ pc[t] = "idle" /\ lock = nil
  /\ instance = nil
  /\ inst[i] = "unused" /\ InstanceTurn(i)
  /\ inst' = [inst EXCEPT ![i] = "closed"]
  /\ UNCHANGED <<lock, instance, runtimeVars, flowVars, threadVars>>

StopIdle(t) ==
  /\ pc[t] = "idle" /\ lock = nil
  /\ instance = nil
  /\ UNCHANGED vars

\* Fault: FoloXrayStop forgets stopNetstack.
StopWithoutNetstack(t) ==
  /\ pc[t] = "idle" /\ lock = nil
  /\ instance # nil
  /\ lock' = t
  /\ Goto(t, "stop_instance")
  /\ UNCHANGED <<instance, inst, runtimeVars, flowVars, on, req>>

StopLock(t) ==
  /\ pc[t] = "idle" /\ lock = nil
  /\ instance # nil
  /\ lock' = t
  /\ Goto(t, "stop_swap")
  /\ UNCHANGED <<instance, inst, runtimeVars, flowVars, on, req>>

\* Fault: stopNetstack closes the runtime without a nil test.
SwapRuntimeBlindly(t, after) ==
  /\ on' = [on EXCEPT ![t] = runtime]
  /\ runtime' = nil
  /\ Goto(t, "close")
  /\ UNCHANGED <<engineVars, of, closed, stack, flowVars, req>>

\* Fault: stopNetstack detaches the runtime and does not close it.
SwapRuntimeForgets(t, after) ==
  /\ on' = [on EXCEPT ![t] = runtime]
  /\ runtime' = nil
  /\ Goto(t, after)
  /\ UNCHANGED <<engineVars, of, closed, stack, flowVars, req>>

\* stopNetstack: detach the runtime, then close it outside netstack.Mutex.
SwapRuntime(t, after) ==
  /\ on' = [on EXCEPT ![t] = runtime]
  /\ runtime' = nil
  /\ Goto(t, IF runtime = nil THEN after ELSE "close")
  /\ UNCHANGED <<engineVars, of, closed, stack, flowVars, req>>

StopSwap(t) == pc[t] = "stop_swap" /\ SwapRuntime(t, "stop_instance")

\* instance.Close may fail; instance and state are reset either way.
StopInstance(t) ==
  /\ pc[t] = "stop_instance"
  /\ inst' = [inst EXCEPT ![instance] = "closed"]
  /\ instance' = nil
  /\ lock' = nil
  /\ Goto(t, "idle")
  /\ UNCHANGED <<runtimeVars, flowVars, on, req>>

-----------------------------------------------------------------------------
(* FoloXrayNetstackStart, FoloXrayNetstackStop *)

NetstackStart(t, r) ==
  /\ pc[t] = "idle" /\ lock = nil
  /\ instance # nil
  /\ runtime = nil
  /\ stack[r] = "unused" /\ RuntimeTurn(r)
  /\ of' = [of EXCEPT ![r] = instance]
  /\ stack' = [stack EXCEPT ![r] = "open"]
  /\ runtime' = r
  /\ UNCHANGED <<engineVars, closed, flowVars, threadVars>>

\* An error path of newNetstackRuntime closes the half-built stack.
NetstackStartFails(t, r) ==
  /\ pc[t] = "idle" /\ lock = nil
  /\ instance # nil
  /\ runtime = nil
  /\ stack[r] = "unused" /\ RuntimeTurn(r)
  /\ stack' = [stack EXCEPT ![r] = "gone"]
  /\ UNCHANGED <<engineVars, runtime, of, closed, flowVars, threadVars>>

NetstackStop(t) == pc[t] = "idle" /\ SwapRuntime(t, "nstop_clear")

\* clearErrorLocked under the engine mutex
NetstackStopClear(t) ==
  /\ pc[t] = "nstop_clear" /\ lock = nil
  /\ Goto(t, "idle")
  /\ UNCHANGED <<engineVars, runtimeVars, flowVars, on, req>>

-----------------------------------------------------------------------------
(* netstackRuntime.close *)

CloseAnnounce(t) ==
  /\ pc[t] = "close"
  /\ Goto(t, "close_lock")
  /\ UNCHANGED <<engineVars, runtimeVars, flowVars, on, req>>

\* Fault: closed is set without lifeMu.
CloseMarkUnlocked(t) ==
  /\ pc[t] = "close_lock"
  /\ closed' = [closed EXCEPT ![on[t]] = TRUE]
  /\ Goto(t, "close_stack")
  /\ UNCHANGED <<engineVars, runtime, of, stack, flowVars, on, req>>

CloseMark(t) ==
  /\ pc[t] = "close_lock"
  /\ \A u \in Thread : Injecting(u) => on[u] # on[t]
  /\ closed' = [closed EXCEPT ![on[t]] = TRUE]
  /\ Goto(t, "close_stack")
  /\ UNCHANGED <<engineVars, runtime, of, stack, flowVars, on, req>>

\* cancel, RemoveNotify, drop the pending packet, stack.Close, link.Close
CloseStack(t) ==
  /\ pc[t] = "close_stack"
  /\ stack' = [stack EXCEPT ![on[t]] = "closed"]
  /\ Goto(t, "close_wait")
  /\ UNCHANGED <<engineVars, runtime, of, closed, flowVars, on, req>>

\* work.Wait and stack.Wait; the caller of close continues
CloseWait(t) ==
  /\ pc[t] = "close_wait"
  /\ work[on[t]] = {}
  /\ stack' = [stack EXCEPT ![on[t]] = "gone"]
  /\ Goto(t, IF lock = t THEN "stop_instance" ELSE "nstop_clear")
  /\ UNCHANGED <<engineVars, runtime, of, closed, flowVars, on, req>>

-----------------------------------------------------------------------------
(* FoloXrayNetstackWritePacket: writeNetstackPacket and injectPacket *)

WritePacket(t) ==
  /\ pc[t] = "idle"
  /\ runtime # nil
  /\ on' = [on EXCEPT ![t] = runtime]
  /\ Goto(t, "inject_lock")
  /\ UNCHANGED <<engineVars, runtimeVars, flowVars, req>>

\* A stopped runtime and a malformed packet are refused.
InjectRefused(t) ==
  /\ pc[t] = "inject_lock"
  /\ ~WriterWaits(on[t])
  /\ Goto(t, "idle")
  /\ UNCHANGED <<engineVars, runtimeVars, flowVars, on, req>>

InjectLock(t) ==
  /\ pc[t] = "inject_lock"
  /\ ~WriterWaits(on[t])
  /\ ~closed[on[t]]
  /\ Goto(t, "inject")
  /\ UNCHANGED <<engineVars, runtimeVars, flowVars, on, req>>

\* InjectInbound of the stack: a packet that opens no flow
InjectData(t) ==
  /\ pc[t] = "inject"
  /\ Goto(t, "idle")
  /\ UNCHANGED <<engineVars, runtimeVars, flowVars, on, req>>

\* ... one that opens a connection: the TCP forwarder runs handleTCP in a
\* goroutine of its own
InjectTCP(t, f) ==
  /\ pc[t] = "inject"
  /\ fpc[f] = "none" /\ FlowTurn(f, TcpFlow)
  /\ FlowGoto(f, "handler")
  /\ home' = [home EXCEPT ![f] = on[t]]
  /\ Goto(t, "idle")
  /\ UNCHANGED <<engineVars, runtimeVars, work, tokens, on, req>>

\* ... one that opens a UDP flow: the UDP forwarder returns what handleUDP
\* returns, so it runs on the injecting thread
InjectUDP(t, f) ==
  /\ pc[t] = "inject"
  /\ fpc[f] = "none" /\ FlowTurn(f, UdpFlow)
  /\ FlowGoto(f, "handler")
  /\ home' = [home EXCEPT ![f] = on[t]]
  /\ req' = [req EXCEPT ![t] = f]
  /\ Goto(t, "udp")
  /\ UNCHANGED <<engineVars, runtimeVars, work, tokens, on>>

-----------------------------------------------------------------------------
(* handleUDP, handleTCP and startWork *)

TakeToken(f) == tokens' = [tokens EXCEPT ![home[f]] = @ \cup {f}]
ReturnToken(f) == tokens' = [tokens EXCEPT ![home[f]] = @ \ {f}]
TcpTokenFree(r) == Cardinality(tokens[r] \cap TcpFlow) < MaxTCP
UdpTokenFree(r) == Cardinality(tokens[r] \cap UdpFlow) < MaxUDP

\* handleUDP and injectPacket return
InjectReturns(t) ==
  /\ req' = [req EXCEPT ![t] = nil]
  /\ Goto(t, "idle")

UdpToken(t) ==
  /\ pc[t] = "udp"
  /\ UdpTokenFree(home[req[t]])
  /\ TakeToken(req[t])
  /\ FlowGoto(req[t], "accepted")
  /\ Goto(t, "udp_address")
  /\ UNCHANGED <<engineVars, runtimeVars, work, home, on, req>>

UdpNoToken(t) ==
  /\ pc[t] = "udp"
  /\ ~UdpTokenFree(home[req[t]])
  /\ FlowGoto(req[t], "ended")
  /\ InjectReturns(t)
  /\ UNCHANGED <<engineVars, runtimeVars, work, tokens, home, on>>

\* Fault: one of the error returns of handleUDP keeps the token.
UdpFailsLeaks(t, at) ==
  /\ pc[t] = at
  /\ IF at = "udp_endpoint" THEN UNCHANGED tokens ELSE ReturnToken(req[t])
  /\ FlowGoto(req[t], "ended")
  /\ InjectReturns(t)
  /\ UNCHANGED <<engineVars, runtimeVars, work, home, on>>

\* An error return of handleUDP after the token was taken.
UdpFails(t, at) ==
  /\ pc[t] = at
  /\ ReturnToken(req[t])
  /\ FlowGoto(req[t], "ended")
  /\ InjectReturns(t)
  /\ UNCHANGED <<engineVars, runtimeVars, work, home, on>>

UdpPasses(t, at, next) ==
  /\ pc[t] = at
  /\ Goto(t, next)
  /\ UNCHANGED <<engineVars, runtimeVars, flowVars, on, req>>

\* The address may be unusable, the rule may block it, CreateEndpoint may fail.
UdpAddress(t) == UdpFails(t, "udp_address") \/ UdpPasses(t, "udp_address", "udp_route")
UdpRoute(t) == UdpFails(t, "udp_route") \/ UdpPasses(t, "udp_route", "udp_endpoint")
UdpEndpoint(t) == UdpFails(t, "udp_endpoint") \/ UdpPasses(t, "udp_endpoint", "udp_dial")

UdpDialFails(t) == UdpFails(t, "udp_dial")

\* The endpoint and the outbound connection exist.
UdpDialed(t) ==
  /\ pc[t] = "udp_dial"
  /\ FlowGoto(req[t], "ready")
  /\ Goto(t, "udp_start")
  /\ UNCHANGED <<engineVars, runtimeVars, work, tokens, home, on, req>>

\* Fault: startWork does not test closed.
StartWorkAlways(f) ==
  /\ ~WriterWaits(home[f])
  /\ work' = [work EXCEPT ![home[f]] = @ \cup {f}]
  /\ FlowGoto(f, "working")
  /\ UNCHANGED tokens

\* startWork: closed is tested and the WaitGroup counted under one RLock.
StartWork(f) ==
  /\ ~WriterWaits(home[f])
  /\ IF closed[home[f]]
     THEN ReturnToken(f) /\ FlowGoto(f, "ended") /\ UNCHANGED work
     ELSE /\ work' = [work EXCEPT ![home[f]] = @ \cup {f}]
          /\ FlowGoto(f, "working")
          /\ UNCHANGED tokens

UdpStart(t) ==
  /\ pc[t] = "udp_start"
  /\ StartWork(req[t])
  /\ InjectReturns(t)
  /\ UNCHANGED <<engineVars, runtimeVars, home, on>>

TcpToken(f) ==
  /\ fpc[f] = "handler"
  /\ TcpTokenFree(home[f])
  /\ TakeToken(f)
  /\ FlowGoto(f, "accepted")
  /\ UNCHANGED <<engineVars, runtimeVars, work, home, threadVars>>

TcpNoToken(f) ==
  /\ fpc[f] = "handler"
  /\ ~TcpTokenFree(home[f])
  /\ FlowGoto(f, "ended")
  /\ UNCHANGED <<engineVars, runtimeVars, work, tokens, home, threadVars>>

\* CreateEndpoint fails, or completes the handshake.
TcpNoEndpoint(f) ==
  /\ fpc[f] = "accepted"
  /\ ReturnToken(f)
  /\ FlowGoto(f, "ended")
  /\ UNCHANGED <<engineVars, runtimeVars, work, home, threadVars>>

TcpEndpoint(f) ==
  /\ fpc[f] = "accepted"
  /\ FlowGoto(f, "created")
  /\ UNCHANGED <<engineVars, runtimeVars, work, tokens, home, threadVars>>

\* The destination is unusable, or not.
TcpBadAddress(f) ==
  /\ fpc[f] = "created"
  /\ ReturnToken(f)
  /\ FlowGoto(f, "ended")
  /\ UNCHANGED <<engineVars, runtimeVars, work, home, threadVars>>

TcpReady(f) ==
  /\ fpc[f] = "created"
  /\ FlowGoto(f, "ready")
  /\ UNCHANGED <<engineVars, runtimeVars, work, tokens, home, threadVars>>

TcpStart(f) ==
  /\ fpc[f] = "ready"
  /\ StartWork(f)
  /\ UNCHANGED <<engineVars, runtimeVars, home, threadVars>>

-----------------------------------------------------------------------------
(* The worker: proxyTCP or proxyUDP, the deferred token release, work.Done *)

\* The relay ends because its peers do, or because it was refused.
WorkEnds(f) ==
  /\ fpc[f] = "working"
  /\ FlowGoto(f, "release")
  /\ UNCHANGED <<engineVars, runtimeVars, work, tokens, home, threadVars>>

\* A direct TCP relay waits in outbound.Write for a server that takes nothing.
\* Neither the aborted endpoint nor the cancelled context reaches that write,
\* and it has no deadline before a direction is over.
WorkBlocks(f) ==
  /\ fpc[f] = "working"
  /\ FlowGoto(f, "blocked")
  /\ UNCHANGED <<engineVars, runtimeVars, work, tokens, home, threadVars>>

\* The server takes something, answers or hangs up.
WorkUnblocks(f) ==
  /\ fpc[f] = "blocked"
  /\ FlowGoto(f, "working")
  /\ UNCHANGED <<engineVars, runtimeVars, work, tokens, home, threadVars>>

\* Fault: the endpoints are aborted only after the relays were waited for.
WorkAbortedLate(f) ==
  /\ fpc[f] = "working"
  /\ stack[home[f]] = "gone"
  /\ FlowGoto(f, "release")
  /\ UNCHANGED <<engineVars, runtimeVars, work, tokens, home, threadVars>>

\* The relay ends because the stack aborted its endpoint.
WorkAborted(f) ==
  /\ fpc[f] = "working"
  /\ stack[home[f]] = "closed"
  /\ FlowGoto(f, "release")
  /\ UNCHANGED <<engineVars, runtimeVars, work, tokens, home, threadVars>>

\* Fault: the worker has no deferred token release.
WorkKeepsToken(f) ==
  /\ fpc[f] = "release"
  /\ FlowGoto(f, "done")
  /\ UNCHANGED <<engineVars, runtimeVars, work, tokens, home, threadVars>>

WorkRelease(f) ==
  /\ fpc[f] = "release"
  /\ ReturnToken(f)
  /\ FlowGoto(f, "done")
  /\ UNCHANGED <<engineVars, runtimeVars, work, home, threadVars>>

WorkDone(f) ==
  /\ fpc[f] = "done"
  /\ work' = [work EXCEPT ![home[f]] = @ \ {f}]
  /\ FlowGoto(f, "ended")
  /\ UNCHANGED <<engineVars, runtimeVars, tokens, home, threadVars>>

-----------------------------------------------------------------------------
ControlCall(t) ==
  \/ \E i \in Instance : StartJSON(t, i) \/ StartJSONFails(t, i)
  \/ \E r \in Runtime : NetstackStart(t, r) \/ NetstackStartFails(t, r)
  \/ StopIdle(t) \/ StopLock(t) \/ NetstackStop(t)

ControlContinues(t) ==
  \/ StopSwap(t) \/ StopInstance(t)
  \/ CloseAnnounce(t) \/ CloseMark(t) \/ CloseStack(t) \/ CloseWait(t)

PumpContinues(t) ==
  \/ InjectRefused(t) \/ InjectLock(t) \/ InjectData(t)
  \/ (\E f \in TcpFlow : InjectTCP(t, f)) \/ (\E f \in UdpFlow : InjectUDP(t, f))
  \/ UdpToken(t) \/ UdpNoToken(t) \/ UdpAddress(t) \/ UdpRoute(t) \/ UdpEndpoint(t)
  \/ UdpDialFails(t) \/ UdpDialed(t) \/ UdpStart(t)

TcpHandler(f) ==
  \/ TcpToken(f) \/ TcpNoToken(f) \/ TcpNoEndpoint(f) \/ TcpEndpoint(f)
  \/ TcpBadAddress(f) \/ TcpReady(f) \/ TcpStart(f)

Worker(f) == WorkAborted(f) \/ WorkRelease(f) \/ WorkDone(f)

Next ==
  \/ \E t \in Control : ControlCall(t) \/ ControlContinues(t) \/ NetstackStopClear(t)
  \/ \E t \in Pump : WritePacket(t) \/ PumpContinues(t)
  \/ \E f \in TcpFlow : TcpHandler(f) \/ WorkBlocks(f) \/ WorkUnblocks(f)
  \/ \E f \in Flow : Worker(f) \/ WorkEnds(f)

\* Goroutines and calls in progress run; a waiter for the engine mutex gets it
\* in the end (Go's starvation mode).  A relay that is not blocked in a write
\* finds its endpoint aborted and ends; it may come out of such a write more than
\* once before it does, but the aborted endpoint gives it only what it had
\* already received (strong fairness).  No server is obliged to take anything, a
\* relay may otherwise last for ever, and nothing obliges the host to call.
Fairness ==
  /\ \A t \in Control : WF_vars(ControlContinues(t)) /\ SF_vars(NetstackStopClear(t))
  /\ \A t \in Pump : WF_vars(PumpContinues(t))
  /\ \A f \in TcpFlow : WF_vars(TcpHandler(f))
  /\ \A f \in Flow : SF_vars(Worker(f))

Spec == Init /\ [][Next]_vars /\ Fairness

-----------------------------------------------------------------------------
(* Properties *)

Relaying == {"working", "blocked"}
Counted == Relaying \cup {"release", "done"}
OnRuntime == {"inject_lock", "close", "close_lock", "close_stack", "close_wait"}
HoldsToken == {"accepted", "created", "ready", "release"} \cup Relaying
Closing == {"close", "close_lock", "close_stack", "close_wait"}

\* Every variable has its type; a call on a runtime and a flow know theirs.
TypeOK ==
  /\ lock \in Control \cup {nil} /\ instance \in Instance \cup {nil}
  /\ inst \in [Instance -> InstanceState]
  /\ runtime \in Runtime \cup {nil} /\ of \in [Runtime -> Instance \cup {nil}]
  /\ closed \in [Runtime -> BOOLEAN] /\ stack \in [Runtime -> StackState]
  /\ work \in [Runtime -> SUBSET Flow] /\ tokens \in [Runtime -> SUBSET Flow]
  /\ pc \in [Thread -> ThreadPC]
  /\ on \in [Thread -> Runtime \cup {nil}] /\ req \in [Thread -> UdpFlow \cup {nil}]
  /\ fpc \in [Flow -> FlowPC] /\ home \in [Flow -> Runtime \cup {nil}]
  /\ \A f \in Flow : fpc[f] # "none" => home[f] \in Runtime
  /\ \A t \in Thread : (Injecting(t) \/ pc[t] \in OnRuntime) => on[t] \in Runtime

\* A packet is never injected into a stack that close has begun to tear down:
\* close waits on lifeMu for the injecting threads, and injectPacket tests closed.
NoInjectAfterClose == \A t \in Thread : Injecting(t) => stack[on[t]] = "open"

\* When close returns no relay of that runtime is left, and none starts later:
\* startWork never calls work.Add after work.Wait could have returned.
WorkersJoined ==
  \A r \in Runtime : stack[r] = "gone" => \A f \in Flow : home[f] = r => fpc[f] \notin Counted

\* A token is held exactly by the flows between taking and returning it, on
\* every error path of handleTCP and handleUDP, and never more than the limit.
TokensExact ==
  \A r \in Runtime :
    /\ \A f \in Flow : f \in tokens[r] <=> (home[f] = r /\ fpc[f] \in HoldsToken)
    /\ Cardinality(tokens[r] \cap TcpFlow) <= MaxTCP
    /\ Cardinality(tokens[r] \cap UdpFlow) <= MaxUDP

\* The runtime that packets are written to belongs to the engine's running
\* instance ("Start requires a running managed Xray instance", folo_apple.h):
\* FoloXrayStop detaches it before it closes the instance, under one mutex.
RuntimeHasInstance ==
  runtime # nil => /\ instance # nil /\ of[runtime] = instance
                   /\ inst[instance] = "running" /\ ~closed[runtime]

\* At most one instance runs, and it is the engine's (core/xray.go, Instance).
OneInstance == \A i \in Instance : inst[i] = "running" => instance = i

\* A relay works "through the already-running managed profile" (README.md of the
\* wrapper): it outlives the instance it dials through only if a
\* FoloXrayNetstackStop had detached its runtime and was still closing it when an
\* overlapping FoloXrayStop, finding no runtime, closed the instance.
RelayHasInstance ==
  \A f \in Flow : fpc[f] \in Relaying =>
    \/ inst[of[home[f]]] = "running"
    \/ \E t \in Control : pc[t] \in Closing /\ on[t] = home[f] /\ lock # t

\* A relay of r waits in a write to a direct server that takes nothing.
StuckWrite(r) == \E f \in TcpFlow : home[f] = r /\ fpc[f] = "blocked"

\* FoloXrayStop and FoloXrayNetstackStop return, unless from some moment on a
\* close waits in work.Wait for relays that stay blocked in such a write.  With
\* UDP flows this does not hold: a Stop that meets one being opened in handleUDP
\* waits for ever on lifeMu.
StopReturns ==
  \A t \in Control : pc[t] # "idle" ~>
    \/ pc[t] = "idle"
    \/ [](\E u \in Control : pc[u] = "close_wait" /\ StuckWrite(on[u]))

\* After close every flow gives its token back, also one that takes it late,
\* except a relay that stays blocked for ever in a write to a direct server that
\* takes nothing.
TokensComeBack ==
  \A f \in Flow :
    (\E r \in Runtime : stack[r] \in {"closed", "gone"} /\ f \in tokens[r]) ~>
      ((\A r \in Runtime : f \notin tokens[r]) \/ [](fpc[f] = "blocked"))
=============================================================================
