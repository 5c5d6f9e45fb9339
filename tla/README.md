# Verification of folo-xray-apple

TLA+ models of the Apple wrapper around Xray (`apple-wrapper/`) and of the parts
of Xray core that carry its traffic, TLC configurations that check them on small
instances, and TLAPS proofs of their main safety properties for every instance.
Paths below are relative to `src/`; `xray-core/` stands for
`upstream/xray-core/`.

Contents: the system, the modules, the properties and runs, the proofs, what was
found, what is not modelled, the plan.

## 1. The system

The wrapper is a C library that a Packet Tunnel extension links. Host threads
call its entry points in any order.

    host threads
      | FoloXrayPacketBridgeStart/Stop      FoloXrayStartJSON/Stop, NetstackStart/Stop
      v                                       v
    packet bridge (echo goroutine)          engine mutex -- core.Instance
                                              |
      WritePacket -> injectPacket -> gVisor stack -> handleTCP / handleUDP
      ReadPacket  <- readPacket   <- link queue        |
                                                   proxyTCP / proxyUDP
                                                block | direct socket | core
                                                                         |
                                   cnc.connection / udp.DialDispatcher over two pipes
                                                                         |
                                               outbound handler (VLESS, Trojan, VMess)

| Part | Shared state | Operations | What makes it hard |
|---|---|---|---|
| Packet bridge, `folo_apple.go` | socket, cancel, done, generation, counters, last error under one mutex | Start, Stop, the pump goroutine of each generation | Stop drops the mutex between capturing a generation, closing its socket, waiting for it and resetting; old pumps finish late |
| Engine, `folo_apple.go` | instance and state under the engine mutex | StartJSON, Stop, NetstackStart, NetstackStop | Stop keeps the mutex while it waits for every relay |
| Netstack runtime, `netstack.go` | `lifeMu`, `closed`, WaitGroup, TCP and UDP tokens | injectPacket, handleTCP, handleUDP, startWork, close | Go read locks are not reentrant; `Add` races `Wait`; tokens on many error paths |
| Packet egress, `netstack.go` | link queue, `pending` | readPacket, close | a packet that does not fit must wait; reference counts across close |
| TCP relay, `netstack.go` | two connections, two goroutines | sniffing read, dial, copy both ways, grace deadlines | half-close, resets, stalls, stop; a proxied connection has neither CloseWrite nor deadlines |
| Pipe, `xray-core/transport/pipe` | data, state, two one-slot signals, done | blocking, timed and discarding I/O, Close, Interrupt | signals are sent after unlocking |
| UDP dispatcher, `xray-core/transport/internet/udp` | current ray, its timer, the packet cache | WriteTo, handleInput, timer, RemoveRay, Close | RemoveRay removes whatever ray is current; a write may block on a full uplink |
| Router, sniffer, framing, loader | none after start | pure functions | boundaries of searches and lengths |
| Core instance, dispatcher, outbound handler, proxy clients | features, handlers, sessions | start, dispatch, end of a session | partial start, two tasks joined under an inactivity timer |

`PROJECT.json` lists every component with its status, and every hazard at the
line where it bites with the property that covers it or the reason none does.

## 2. The modules

| Module | Models | State and actions |
|---|---|---|
| `PacketBridge` | the packet bridge of `folo_apple.go`, `folotun/socket.go` | one action per critical section and per step outside the lock; a descriptor names the generation that adopted it |
| `Netstack` | `folo_apple.go` and `netstack.go`: engine and runtime life cycle | control threads start and stop, packet threads inject, a goroutine per flow; `lifeMu` with writer preference; the WaitGroup and the token channels are sets of flows |
| `NetstackEgress` | `readPacket`, `readNetstackPacket`, what `close` releases | readers with buffers of any size, the link queue, `pending`, a reference count per packet |
| `PipeFifo` | what a pipe promises | an abstract FIFO: put, take all, close, interrupt |
| `Pipe` | `transport/pipe`, `common/signal` notifier and done | writers, one reader, the two signals, `limit` and `discardOverflow` as a record fixed in `Init` |
| `UdpDispatcher` | `udp/dispatcher.go`, `signal/timer.go`, `task/periodic.go` | rays with link, handler goroutine and timer; writers; the client's cache |
| `TcpRelay` | `proxyTCP`, `cnc/connection.go`, `core.Dial`, the end of `Handler.Dispatch` | the main goroutine, two copies, two connections with buffers, deadlines and half-closes; both peers as environment |

The modules meet at interfaces rather than in one product:

- `Netstack` treats a relay as a phase that may end at any time and must end
  once its endpoint is aborted, unless it is blocked in a write to a direct server
  (`WorkBlocks`). `TcpRelay` opens that phase; its `StopEndsRelay` shows that
  such a write is the only thing that can keep an aborted relay.
- `TcpRelay` and `UdpDispatcher` use pipes the way `Pipe` and `PipeFifo`
  describe: Close keeps content, Interrupt drops it, and Interrupt after Close
  does nothing. The handler behind a ray (`OutReads`, `OutAnswers`, `OutEnds`) is
  the pair of tasks of a client and the end of `Handler.Dispatch`.
- `NetstackEgress` is the outbound half of a runtime of `Netstack`, with `close`
  split into the same steps.

Definitions that begin with a comment "Fault:" are single plausible mistakes in
the code. They are not part of any specification; each one, put in the place of
the action it follows, makes TLC find the property it is meant for violated.

Abstractions common to all modules: bytes, addresses and log messages are left
out; a code section under one mutex is one action; a blocking receive is an
action with a guard; the last-error record is kept in `PacketBridge`, where a
property needs it, and left out of `Netstack`. gVisor, the kernel, Go's runtime
and the remote peers are environment.

## 3. Properties and runs

Run a configuration with `tlc -config X.cfg M` in this directory.

| Run | Config, module | Instance | Shows |
|---|---|---|---|
| `bridge_serial` | `BridgeSerial`, `PacketBridge` | 2 threads in turn, 3 descriptors, 2 frames each | no orphaned pump, counters of one generation, Stop returns |
| `bridge_concurrent` | `BridgeConcurrent`, `PacketBridge` | 2 threads overlapping, 2 descriptors | errors are reported only for pumps nobody stopped, a late pump leaves a newer generation alone, a working pump is lost only to an older Stop, every open endpoint has an owner, cancelled pumps end |
| `bridge_stop_race` | `BridgeStopRace`, `PacketBridge` | 2 threads, 1 descriptor | violated: the second of two Stops never returns |
| `netstack_safety` | `NetstackSafety`, `Netstack` | 2 control threads, 1 packet thread, 2 instances, 2 runtimes, 1 TCP and 2 UDP flows, 1 token each | no injection into a closing stack, close joins the relays, tokens are exact, the current runtime and, but for one overlap, every relay are on a running instance |
| `netstack_tcp` | `NetstackTcp`, `Netstack` | 1 control thread, 2 instances, 2 runtimes, 2 TCP flows, 1 token | at most one instance; stops return and tokens come back, unless a relay stays blocked in a write for ever |
| `netstack_stop_udp` | `NetstackStopUdp`, `Netstack` | 1 control and 1 packet thread, 1 UDP flow | violated: a stop that meets the opening of a UDP flow never returns |
| `netstack_egress` | `NetstackEgress`, `MCNetstackEgress` | 2 readers, 4 packets of 2 sizes, queue of 2 | delivery once and in order, every packet released once, nothing kept after close |
| `pipe` | `Pipe`, `MCPipe` | 2 writers, 3 chunks; blocking at limit 0 and discarding at limit 1 | order, no use after release, no lost wake-up, writes return, refinement of `PipeFifo` with its liveness |
| `udp_flow` | `UdpFlow`, `UdpDispatcher` | 2 writers, 2 rays, 2 writes, no answers, failing dispatch | one open link, a ray cut on another's behalf only when the connection is ending or by a failed dispatch's timer, WriteTo returns |
| `udp_order` | `UdpOrder`, `UdpDispatcher` | 1 ray, 3 answers, cache of 2, failing dispatch | order, no duplicates, every ray ends |
| `tcp_relay` | `TcpRelay`, `TcpRelay` | all routes, 2 chunks each way, windows of 1 | order, completeness, the grace period on the direct route; the relay ends, unless it stays in a write for ever |
| `tcp_grace` | `TcpGrace`, `TcpRelay` | proxied route, 1 chunk | violated: a half-close ends the answer at once |

**Bounds.** Constants marked "bound:" in the modules cap what is ever created.
Two threads, two generations and two runtimes suffice for one actor to meet
another actor's stale state; the third descriptor lets a generation start after
two others. In `netstack_safety` two UDP flows and in `netstack_tcp` two TCP
flows compete for one token; queue, cache and
window are smaller than the number of packets, and buffers are smaller than some
packets, so every limit is hit. A pipe of limit 0 is the tightest that still
admits a write. `UdpDispatcher` admits a WriteTo only while a ray is left
(`RayLeft`), so no write is stuck for lack of a model value. Rays, instances,
runtimes and flows of a kind are interchangeable and are used in a fixed order
(`Fresh`, `InstanceTurn`, `RuntimeTurn`, `FlowTurn`). A limit of chunks
stands for a limit of bytes: the code tests it before a merge, so only the number
of writes past it matters.

**Deadlock** is checked in the bridge runs and `netstack_tcp`. A pipe, a flow, a relay and a closed runtime are meant to stop, so their
configurations switch it off; `netstack_safety` reaches the deadlock that
`netstack_stop_udp` reports.

**Fairness.** Weak fairness of goroutines and of calls in progress is Go's
scheduler. Beyond it:

- `Netstack`: strong fairness for a thread waiting for the engine mutex (Go
  mutexes hand over to a starving waiter), and for a relay whose endpoint was
  aborted: it may block in a write and come out again a few times, since it still
  holds data received before, but not without end. No fairness takes it out of
  such a write;
- `Pipe`: the consumer reads until the pipe fails, as `buf.Copy` does;
- `UdpDispatcher` and `TcpRelay`: timers and deadlines expire;
- `TcpRelay`: the outbound handler ends once its context is cancelled, or once a
  direction is over and it takes nothing from the uplink. The inactivity timers
  of the three clients do that (`vless/outbound/outbound.go`,
  `trojan/client.go`, `vmess/outbound/outbound.go`).

No fairness is assumed of host threads, clients, servers or of data arriving.

## 4. Proofs

Check with `tlapm M.tla`. Each theorem holds for any sets of threads, flows,
descriptors, packets and chunks and any limits, under the module's named
assumption on constants (`nil` is no member of the sets, limits are naturals,
the sets of flows are finite).

| Module | Theorem | Argument |
|---|---|---|
| `PacketBridgeProofs` | `TypeCorrect`, `ErrorReportSound`, `StalePumpIsHarmless` for overlapping calls | `TypeInv`: calls in progress own their descriptor; `ErrorInv`: an error is on record only while no pump is installed |
| | `OpenEndpointIsOwned`, `WorkingPumpIsKept` for overlapping calls | `OverlapInv`: the installed pump has the current generation; a pump whose done was sent or received has left its loop; every open endpoint has an owner |
| | `NoPumpIsOrphaned`, `NothingLeftOpen`, `CountersAreCoherent` for serialized calls | `SerialInv` adds: one caller; the generation a Stop captured is current; the counters at each point of the loop |
| `NetstackInvariant`, `NetstackProofs` | `TypeCorrect`, `InjectionIsSafe`, `CloseJoinsWorkers`, `RuntimeOnRunningInstance`, `RelayOnRunningInstance` | `IInv`: a runtime is closed once, by one thread, and `closed` precedes the stack's end (`CloseInv`); what the holder of the engine mutex knows, and that every open runtime is current or being closed by some thread (`EngineInv`); the WaitGroup counts exactly the flows at work (`FlowInv`) |
| `NetstackTokens` | `TokenAccounting` | `IInv`, with lemmas for a step that takes, returns or keeps a token |
| `NetstackEgressProofs` | `TypeCorrect`, `ReadsAreInOrder`, `ReleasedOnce` | `EInv`: no packet is in two places, and close has dropped what it has passed |
| `PipeProofs` | `TypeCorrect`, `NoLostWakeup`, `ReleasedIsGone`, `InOrder` | `PInv`: a chunk is with a writer, in the pipe, with the reader or released, and in one place only; a writer waits only on a pipe with a limit |
| | `RefinesFifo` | every step of `Pipe` is a step of `PipeFifo` or a stutter; the mapping is the identity on `state`, `data`, `taken` |

The invariants as checked are not inductive. `NoOrphanPump`, for example,
survives the reset at the end of Stop only because the pump has sent done, which
is a fact about an earlier step that `OverlapInv` remembers. `NoInjectAfterClose`
needs that `closed` is set before the stack is touched and that no injecting
thread holds `lifeMu` at that moment.

Only model-checked: every liveness property (`StopReturns`, `CancelledPumpEnds`,
`TokensComeBack`, `WritesReturn`, `RaysEnd`, `RelayEnds`, `StopEndsRelay`, and the
fairness half of `ImplementsFifo`), because the prover has no rule for fairness
and ENABLED; and all of `UdpDispatcher` and `TcpRelay`.

## 5. Results

Three statements of the repository do not hold of the code:

1. `bridge_stop_race`. `folo_apple.h` calls Stop idempotent. Two overlapping
   Stops receive from one channel that carries one value (`folo_apple.go:222`).
2. `netstack_stop_udp`. The first datagram of a flow is handled on the injecting
   thread, which holds `lifeMu` for reading and takes it again in `startWork`
   (`netstack.go:296`). If close announces its write lock in between, the three
   wait for each other and FoloXrayStop keeps the engine mutex.
   `compliance/mobile-tuning-v1.yml` sets 2 seconds for a shutdown.
3. `tcp_grace`. When a client half-closes a proxied connection the copy calls
   Close, because `cnc.connection` has no CloseWrite; that interrupts the
   downlink, so the five seconds announced at `netstack.go:383` are not given.

A fourth is seen in the model without a run: `folo_apple.h:37` transfers the
descriptor "after a successful start", but a Start that fails has closed it
(`folo_apple.go:151`, `folotun/socket.go:32`; `StartBusyClose`, `Attach`), so a
caller that then closes it closes it twice. `OpenHasOwner` states what the code
does guarantee: a refused Start leaves nothing open.

Properties whose limits are known:

- `NoOrphanPump` and `NothingToStopIsClosed`, which follows from it and
  `OpenHasOwner`, need host threads that take turns.
  Under overlapping calls the reset at the end of Stop can erase a newer Start;
  `LostOnlyToStaleStop` says that nothing else can.
- `RelayHasInstance` excepts one overlap: FoloXrayStop closes the instance while
  the relays of a runtime that FoloXrayNetstackStop has detached still run.
- `ForeignCutOnlyAtEnd` excepts the timer of a failed dispatch, which keeps
  running. The dispatcher of this build does not fail
  (`app/dispatcher/default.go:231`).
- `StopReturns`, `TokensComeBack` (`Netstack`) and `StopEndsRelay` (`TcpRelay`)
  except a relay that stays for ever in a write to a direct server that takes
  nothing: no deadline covers that write before a direction is over, so the close
  of the runtime waits for it. A write that ends late is no exception.
- `Complete` excepts the downlink of a proxied connection, for the reason in 3.

## 6. Scope

The repository vendors all of Xray core, some 900 Go files, most of which this
product does not link. The models cover the concurrent part of the wrapper and
the core components every proxied flow passes through. They are a small share of
the vendored lines and most of the wrapper's state-changing ones.

Not modelled, with the reason in `PROJECT.json`: the router, the sniffer, the
configuration loader and the frame codec (pure functions, planned); the copying
loops of `proxyUDP` (planned); feature resolution and partial start of the core
instance, the outbound manager, the control of the proxy clients (planned);
cryptography, TLS, REALITY and sockets (out of reach of a model checker); the
generated address table; protocols and services this build does not register.

## 7. Plan

1. `proxyUDP`, both loops, on the direct and the proxied route, beside
   `UdpDispatcher`; what Go's connected UDP socket does as an external operator.
2. Router: precedence of rules and the binary search of the address table
   against a linear reference; the route as input of `TcpRelay`.
3. Frame codec over a stream with partial reads and writes, refined by the
   atomic frames of `PacketBridge`.
4. Control of a proxy client: `task.Run`, the activity timer with SetTimeout and
   a restarted Periodic, in place of `HandlerMustEnd`.
5. Core instance: features, partial start, close order; outbound manager.
6. Proofs: `OpenIsCurrent` of `UdpDispatcher`, `InOrder` and `Complete` of
   `TcpRelay`.
