---------------------------- MODULE PacketBridge ----------------------------
(***************************************************************************)
(* The PacketBridge of apple-wrapper/folo_apple.go: one adopted stream     *)
(* socket, a pump goroutine that echoes frames over it, and the two C      *)
(* entry points that start and stop it from any host thread.               *)
(*                                                                         *)
(* packetBridge.socket, .cancel and .done are always assigned together, so *)
(* one variable, socket, stands for the three.  The host hands over each   *)
(* descriptor once, so a descriptor names the Start that adopted it: it    *)
(* identifies the socket, the goroutine, its context and done channel, and *)
(* the value packetBridge.generation took (only ever compared for          *)
(* equality).  A section of code under packetBridge.Lock is one action;    *)
(* everything outside the lock is an action of its own.  Frames are        *)
(* counted, their bytes are not.                                           *)
(***************************************************************************)
EXTENDS Naturals

CONSTANTS Client,     \* host threads that call the C entry points
          Fd,         \* bound: descriptors the host ever hands over
          nil,        \* no socket
          MaxFrames   \* bound: frames the peer sends to one generation

ASSUME BridgeConstants == nil \notin Fd /\ MaxFrames \in Nat

(***************************************************************************)
(* A descriptor is the host's until a Start call adopts it; "open" and     *)
(* "closed" are the states of the Go connection that then owns it.         *)
(***************************************************************************)
FdState == {"host", "open", "closed"}
PumpPC == {"none", "loop", "read", "count_in", "write", "count_out",
           "close", "send_done", "finish", "ended"}
ClientPC == {"idle", "start", "start_reject", "start_busy",
             "stop_close", "stop_wait", "stop_reset"}
Code == {"OK", "InvalidArgument", "InternalError"}

VARIABLES
  socket,      \* socket, cancel and done of the current pump, or nil
  generation,  \* packetBridge.generation
  state,       \* packetBridge.state
  lastCode,    \* packetBridge.lastCode
  framesIn,    \* packetBridge.framesIn
  framesOut,   \* packetBridge.framesOut
  pump,        \* program counter of each generation's goroutine
  cancelled,   \* ctx.Err() != nil for each generation
  done,        \* a value is buffered in that generation's done channel
  fd,          \* state of each descriptor
  pc,          \* program counter of each host thread
  arg          \* descriptor given to its Start, generation captured by its Stop

bridge == <<socket, generation, state, lastCode, framesIn, framesOut>>
pumps == <<pump, cancelled, done>>
vars == <<bridge, pumps, fd, pc, arg>>

Init ==
  /\ socket = nil /\ generation = nil /\ state = "idle" /\ lastCode = "OK"
  /\ framesIn = 0 /\ framesOut = 0
  /\ pump = [g \in Fd |-> "none"]
  /\ cancelled = [g \in Fd |-> FALSE]
  /\ done = [g \in Fd |-> FALSE]
  /\ fd = [f \in Fd |-> "host"]
  /\ pc = [c \in Client |-> "idle"]
  /\ arg = [c \in Client |-> nil]

-----------------------------------------------------------------------------
(* FoloXrayPacketBridgeStart *)

Return(c) ==
  /\ pc' = [pc EXCEPT ![c] = "idle"]
  /\ arg' = [arg EXCEPT ![c] = nil]

\* Fault: the passed descriptor is not taken over.
AttachCopies(c, f) ==
  /\ pc[c] = "idle"
  /\ fd[f] = "host"
  /\ arg' = [arg EXCEPT ![c] = f]
  /\ pc' = [pc EXCEPT ![c] = "start"]
  /\ UNCHANGED <<bridge, pumps, fd>>

\* NewPacketSocketFromFD: net.FileConn duplicates the descriptor and
\* file.Close closes the one that was passed, whether or not it is a socket.
\* The duplicate and the original are one descriptor here.
Attach(c, f) ==
  /\ pc[c] = "idle"
  /\ fd[f] = "host"
  /\ arg' = [arg EXCEPT ![c] = f]
  /\ \/ /\ fd' = [fd EXCEPT ![f] = "open"]
        /\ pc' = [pc EXCEPT ![c] = "start"]
     \/ /\ fd' = [fd EXCEPT ![f] = "closed"]
        /\ pc' = [pc EXCEPT ![c] = "start_reject"]
  /\ UNCHANGED <<bridge, pumps>>

\* A negative descriptor is rejected before anything is opened.
AttachNegative(c) ==
  /\ pc[c] = "idle"
  /\ arg' = [arg EXCEPT ![c] = nil]
  /\ pc' = [pc EXCEPT ![c] = "start_reject"]
  /\ UNCHANGED <<bridge, pumps, fd>>

StartReject(c) ==
  /\ pc[c] = "start_reject"
  /\ lastCode' = "InvalidArgument"
  /\ Return(c)
  /\ UNCHANGED <<socket, generation, state, framesIn, framesOut, pumps, fd>>

StartBusy(c) ==
  /\ pc[c] = "start"
  /\ socket # nil \/ state = "running"
  /\ pc' = [pc EXCEPT ![c] = "start_busy"]
  /\ UNCHANGED <<bridge, pumps, fd, arg>>

\* Fault: the socket of a refused Start is not closed.
StartBusyLeaks(c) ==
  /\ pc[c] = "start_busy"
  /\ Return(c)
  /\ UNCHANGED <<bridge, pumps, fd>>

StartBusyClose(c) ==
  /\ pc[c] = "start_busy"
  /\ fd' = [fd EXCEPT ![arg[c]] = "closed"]
  /\ Return(c)
  /\ UNCHANGED <<bridge, pumps>>

\* Fault: Start resets one of the two frame counters.
StartKeepsFramesOut(c) ==
  /\ pc[c] = "start"
  /\ socket = nil /\ state # "running"
  /\ generation' = arg[c]
  /\ socket' = arg[c]
  /\ state' = "running"
  /\ framesIn' = 0
  /\ lastCode' = "OK"
  /\ pump' = [pump EXCEPT ![arg[c]] = "loop"]
  /\ Return(c)
  /\ UNCHANGED <<framesOut, cancelled, done, fd>>

StartInstall(c) ==
  /\ pc[c] = "start"
  /\ socket = nil /\ state # "running"
  /\ generation' = arg[c]
  /\ socket' = arg[c]
  /\ state' = "running"
  /\ framesIn' = 0 /\ framesOut' = 0
  /\ lastCode' = "OK"
  /\ pump' = [pump EXCEPT ![arg[c]] = "loop"]
  /\ Return(c)
  /\ UNCHANGED <<cancelled, done, fd>>

-----------------------------------------------------------------------------
(* FoloXrayPacketBridgeStop *)

StopIdle(c) ==
  /\ pc[c] = "idle"
  /\ socket = nil
  /\ state' = "idle"
  /\ lastCode' = "OK"
  /\ UNCHANGED <<socket, generation, framesIn, framesOut, pumps, fd, pc, arg>>

StopCapture(c) ==
  /\ pc[c] = "idle"
  /\ socket # nil
  /\ arg' = [arg EXCEPT ![c] = socket]
  /\ cancelled' = [cancelled EXCEPT ![socket] = TRUE]
  /\ pc' = [pc EXCEPT ![c] = "stop_close"]
  /\ UNCHANGED <<bridge, pump, done, fd>>

\* Fault: Stop cancels the context and leaves the socket open.
StopKeepsOpen(c) ==
  /\ pc[c] = "stop_close"
  /\ pc' = [pc EXCEPT ![c] = "stop_wait"]
  /\ UNCHANGED <<bridge, pumps, fd, arg>>

StopClose(c) ==
  /\ pc[c] = "stop_close"
  /\ fd' = [fd EXCEPT ![arg[c]] = "closed"]
  /\ pc' = [pc EXCEPT ![c] = "stop_wait"]
  /\ UNCHANGED <<bridge, pumps, arg>>

\* Fault: Stop does not wait for the pump.
StopDoesNotWait(c) ==
  /\ pc[c] = "stop_wait"
  /\ pc' = [pc EXCEPT ![c] = "stop_reset"]
  /\ UNCHANGED <<bridge, pumps, fd, arg>>

\* <-done: the pump sends one value, so one receive consumes it for good.
StopWait(c) ==
  /\ pc[c] = "stop_wait"
  /\ done[arg[c]]
  /\ done' = [done EXCEPT ![arg[c]] = FALSE]
  /\ pc' = [pc EXCEPT ![c] = "stop_reset"]
  /\ UNCHANGED <<bridge, pump, cancelled, fd, arg>>

StopReset(c) ==
  /\ pc[c] = "stop_reset"
  /\ socket' = nil
  /\ state' = "idle"
  /\ lastCode' = "OK"
  /\ Return(c)
  /\ UNCHANGED <<generation, framesIn, framesOut, pumps, fd>>

-----------------------------------------------------------------------------
(* The pump goroutine: PacketSocket.Echo, its callback and what follows it. *)

PumpTo(g, from, to) ==
  /\ pump[g] = from
  /\ pump' = [pump EXCEPT ![g] = to]

\* select { case <-ctx.Done(): return ctx.Err(); default: }
EchoLoop(g) ==
  /\ PumpTo(g, "loop", IF cancelled[g] THEN "close" ELSE "read")
  /\ UNCHANGED <<bridge, cancelled, done, fd, pc, arg>>

\* A frame arrives on the open socket.
EchoRead(g) ==
  /\ PumpTo(g, "read", "count_in")
  /\ fd[g] = "open"
  /\ framesIn < MaxFrames
  /\ UNCHANGED <<bridge, cancelled, done, fd, pc, arg>>

\* callback, first critical section
CountIn(g) ==
  /\ PumpTo(g, "count_in", "write")
  /\ framesIn' = framesIn + 1
  /\ UNCHANGED <<socket, generation, state, lastCode, framesOut,
                 cancelled, done, fd, pc, arg>>

EchoWrite(g) ==
  /\ PumpTo(g, "write", "count_out")
  /\ fd[g] = "open"
  /\ UNCHANGED <<bridge, cancelled, done, fd, pc, arg>>

\* callback, second critical section
CountOut(g) ==
  /\ PumpTo(g, "count_out", "loop")
  /\ framesOut' = framesOut + 1
  /\ UNCHANGED <<socket, generation, state, lastCode, framesIn,
                 cancelled, done, fd, pc, arg>>

\* The peer hangs up or sends a malformed frame.
PeerFails(g) ==
  /\ pump[g] \in {"read", "write"}
  /\ fd[g] = "open"
  /\ pump' = [pump EXCEPT ![g] = "close"]
  /\ UNCHANGED <<bridge, cancelled, done, fd, pc, arg>>

\* Reading and writing a closed connection return an error at once.
ClosedFails(g) ==
  /\ pump[g] \in {"read", "write"}
  /\ fd[g] = "closed"
  /\ pump' = [pump EXCEPT ![g] = "close"]
  /\ UNCHANGED <<bridge, cancelled, done, fd, pc, arg>>

PumpClose(g) ==
  /\ PumpTo(g, "close", "send_done")
  /\ fd' = [fd EXCEPT ![g] = "closed"]
  /\ UNCHANGED <<bridge, cancelled, done, pc, arg>>

\* Fault: the pump ends without reporting its result.
PumpSendsNothing(g) ==
  /\ PumpTo(g, "send_done", "finish")
  /\ UNCHANGED <<bridge, cancelled, done, fd, pc, arg>>

PumpSendDone(g) ==
  /\ PumpTo(g, "send_done", "finish")
  /\ done' = [done EXCEPT ![g] = TRUE]
  /\ UNCHANGED <<bridge, cancelled, fd, pc, arg>>

\* Fault: a pump resets the bridge whatever the generation.
PumpFinishStale(g) ==
  /\ PumpTo(g, "finish", "ended")
  /\ socket' = nil
  /\ state' = "idle"
  /\ lastCode' = IF cancelled[g] THEN lastCode ELSE "InternalError"
  /\ UNCHANGED <<generation, framesIn, framesOut, cancelled, done, fd, pc, arg>>

\* Fault: a cancelled pump reports an internal error too.
PumpFinishLoud(g) ==
  /\ PumpTo(g, "finish", "ended")
  /\ IF generation # g
     THEN UNCHANGED <<socket, state, lastCode>>
     ELSE socket' = nil /\ state' = "idle" /\ lastCode' = "InternalError"
  /\ UNCHANGED <<generation, framesIn, framesOut, cancelled, done, fd, pc, arg>>

\* Echo returns a non-nil error on every path.
PumpFinish(g) ==
  /\ PumpTo(g, "finish", "ended")
  /\ IF generation # g
     THEN UNCHANGED <<socket, state, lastCode>>
     ELSE /\ socket' = nil
          /\ state' = "idle"
          /\ lastCode' = IF cancelled[g] THEN lastCode ELSE "InternalError"
  /\ UNCHANGED <<generation, framesIn, framesOut, cancelled, done, fd, pc, arg>>

-----------------------------------------------------------------------------
Call(c) ==
  \/ \E f \in Fd : Attach(c, f)
  \/ AttachNegative(c)
  \/ StopIdle(c)
  \/ StopCapture(c)

Continue(c) ==
  \/ StartReject(c) \/ StartBusy(c) \/ StartBusyClose(c) \/ StartInstall(c)
  \/ StopClose(c) \/ StopWait(c) \/ StopReset(c)

\* Steps of a pump that wait for nobody.
PumpRuns(g) ==
  \/ EchoLoop(g) \/ CountIn(g) \/ CountOut(g) \/ ClosedFails(g)
  \/ PumpClose(g) \/ PumpSendDone(g) \/ PumpFinish(g)

\* Steps of a pump that wait for the peer.
PumpMeetsPeer(g) == EchoRead(g) \/ EchoWrite(g) \/ PeerFails(g)

Step == (\E c \in Client : Continue(c)) \/ (\E g \in Fd : PumpRuns(g) \/ PumpMeetsPeer(g))

\* Host threads call in any order and at any time.
Next == (\E c \in Client : Call(c)) \/ Step

\* Host threads take turns: a call begins when no other is in progress.
NobodyCalling == \A d \in Client : pc[d] = "idle"
SerialCall(c) == NobodyCalling /\ Call(c)
SerialNext == (\E c \in Client : SerialCall(c)) \/ Step

\* The Go scheduler runs every goroutine that can run; a call in progress
\* continues.  Nothing obliges the host to call or the peer to send.
Fairness ==
  /\ \A c \in Client : WF_vars(Continue(c))
  /\ \A g \in Fd : WF_vars(PumpRuns(g))

Spec == Init /\ [][Next]_vars /\ Fairness
SerialSpec == Init /\ [][SerialNext]_vars /\ Fairness

-----------------------------------------------------------------------------
(* Properties *)

Working == {"loop", "read", "count_in", "write", "count_out", "close", "send_done"}

\* Every variable has its type, and a pump works on an adopted descriptor.
TypeOK ==
  /\ socket \in Fd \cup {nil} /\ generation \in Fd \cup {nil}
  /\ state \in {"idle", "running"} /\ lastCode \in Code
  /\ framesIn \in Nat /\ framesOut \in Nat
  /\ pump \in [Fd -> PumpPC]
  /\ cancelled \in [Fd -> BOOLEAN] /\ done \in [Fd -> BOOLEAN]
  /\ fd \in [Fd -> FdState]
  /\ pc \in [Client -> ClientPC] /\ arg \in [Client -> Fd \cup {nil}]
  /\ \A g \in Fd : pump[g] # "none" => fd[g] # "host"

\* A pump that is still working is the one the bridge knows, so a later Stop
\* can reach it and there is never a second one: Stop waits for done before
\* it forgets the pump, and a pump forgets only itself.
NoOrphanPump == \A g \in Fd : pump[g] \in Working => socket = g

\* The statistics belong to one generation: Start zeroes both counters while
\* no older pump can still be between its two critical sections.
StatsCoherent == framesOut <= framesIn /\ framesIn <= framesOut + 1

\* "Stop ... closes the adopted endpoint" (folo_apple.h): whenever a Stop would
\* find nothing to do and return at once, and no call is in progress, no adopted
\* endpoint is open.  Holds when the host takes turns; with overlapping calls
\* the reset at the end of a Stop can erase a newer Start.
NothingToStopIsClosed == (socket = nil /\ NobodyCalling) => \A f \in Fd : fd[f] # "open"

\* statusInternalError reports only a pump that ended unasked: if the current
\* generation was cancelled by Stop, its end is not an error.
ErrorOnlyUnasked == lastCode = "InternalError" => ~cancelled[generation]

\* A pump that outlived its generation leaves the bridge alone: the last
\* critical section of an older goroutine never resets a newer Start.
StalePumpHarmless ==
  [][\A g \in Fd : (pump[g] = "finish" /\ pump'[g] = "ended" /\ generation # g)
                       => UNCHANGED bridge]_vars

\* Every adopted endpoint that is open has an owner that will close it: a pump
\* that has not closed it yet, or the Start that adopted it and is still in
\* progress.  A Start that was refused has closed it, whatever calls overlap
\* (although folo_apple.h transfers it only "after a successful start").
OpenHasOwner ==
  \A f \in Fd : fd[f] = "open" =>
    \/ pump[f] \in Working \ {"send_done"}
    \/ \E c \in Client : pc[c] \in {"start", "start_busy"} /\ arg[c] = f

\* The bridge loses a working pump in one way only: the reset at the end of a
\* Stop that had captured an older generation.  No pump, no Start and no Stop of
\* the same generation takes it out of the bridge, whatever calls overlap.
LostOnlyToStaleStop ==
  [][\A g \in Fd : (socket = g /\ socket' # g /\ pump[g] \in Working)
                       => \E c \in Client : pc[c] = "stop_reset" /\ arg[c] # g]_vars

\* A cancelled pump ends: closing the socket unblocks ReadFrame and WriteFrame
\* (folotun/socket.go, Close), also when several Stops race.
CancelledPumpEnds == \A g \in Fd : cancelled[g] ~> pump[g] = "ended"

\* Every Stop call returns ("Stop is idempotent", folo_apple.h).  It holds when
\* the host takes turns and fails when two Stops capture the same done channel.
StopReturns ==
  \A c \in Client : pc[c] \in {"stop_close", "stop_wait", "stop_reset"} ~> pc[c] = "idle"
=============================================================================
