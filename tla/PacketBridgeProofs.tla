------------------------- MODULE PacketBridgeProofs -------------------------
(***************************************************************************)
(* Theorems about the PacketBridge for any set of host threads and any     *)
(* number of descriptors.  Type correctness and the error report hold for  *)
(* overlapping calls; that no pump is orphaned holds when the host takes   *)
(* turns, and rests on the inductive invariant SerialInv.                  *)
(***************************************************************************)
EXTENDS PacketBridge, TLAPS

\* The arguments of calls in progress: a Start holds a descriptor it adopted
\* and no pump uses yet, a Stop holds the generation it captured.
CallArguments ==
  \A c \in Client :
    /\ pc[c] \in {"start", "start_busy"} =>
         arg[c] \in Fd /\ fd[arg[c]] # "host" /\ pump[arg[c]] = "none"
    /\ pc[c] \in {"stop_close", "stop_wait", "stop_reset"} =>
         arg[c] \in Fd /\ pump[arg[c]] # "none"

TypeInv ==
  /\ TypeOK
  /\ CallArguments
  /\ \A c, d \in Client : (pc[c] \in {"start", "start_busy"} /\ pc[d] \in {"start", "start_busy"}
                           /\ arg[c] = arg[d]) => c = d
  /\ socket # nil => pump[socket] # "none"

\* An internal error is on record only while no pump is installed.
ErrorInv == lastCode = "InternalError" => (socket = nil /\ generation \in Fd /\ ~cancelled[generation])

\* Every call leaves the types, the call arguments and the error record right.
LEMMA ClientStep ==
  ASSUME TypeInv, ErrorInv, NEW c \in Client, Call(c) \/ Continue(c)
  PROVE  TypeInv' /\ ErrorInv'
<1> USE BridgeConstants DEF TypeInv, TypeOK, CallArguments, ErrorInv, Return, bridge, pumps,
        FdState, PumpPC, ClientPC, Code
<1>1. ASSUME NEW f \in Fd, Attach(c, f) PROVE TypeInv' /\ ErrorInv'
  BY <1>1 DEF Attach
<1>2. CASE AttachNegative(c)
  BY <1>2 DEF AttachNegative
<1>3. CASE StartReject(c)
  BY <1>3 DEF StartReject
<1>4. CASE StartBusy(c)
  BY <1>4 DEF StartBusy
<1>5. CASE StartBusyClose(c)
  BY <1>5 DEF StartBusyClose
<1>6. CASE StartInstall(c)
  BY <1>6 DEF StartInstall
<1>7. CASE StopIdle(c)
  BY <1>7 DEF StopIdle
<1>8. CASE StopCapture(c)
  BY <1>8 DEF StopCapture
<1>9. CASE StopClose(c)
  BY <1>9 DEF StopClose
<1>10. CASE StopWait(c)
  BY <1>10 DEF StopWait
<1>11. CASE StopReset(c)
  BY SMTT(60), <1>11 DEF StopReset
<1>12. QED
  BY <1>1, <1>2, <1>3, <1>4, <1>5, <1>6, <1>7, <1>8, <1>9, <1>10, <1>11 DEF Call, Continue

\* So does every step of a pump.
LEMMA PumpStep ==
  ASSUME TypeInv, ErrorInv, NEW g \in Fd, PumpRuns(g) \/ PumpMeetsPeer(g)
  PROVE  TypeInv' /\ ErrorInv'
<1> USE BridgeConstants DEF TypeInv, TypeOK, CallArguments, ErrorInv, PumpTo, bridge, pumps,
        FdState, PumpPC, ClientPC, Code
<1>1. CASE EchoLoop(g)
  BY <1>1 DEF EchoLoop
<1>2. CASE EchoRead(g)
  BY <1>2 DEF EchoRead
<1>3. CASE CountIn(g)
  BY <1>3 DEF CountIn
<1>4. CASE EchoWrite(g)
  BY <1>4 DEF EchoWrite
<1>5. CASE CountOut(g)
  BY <1>5 DEF CountOut
<1>6. CASE PeerFails(g)
  BY <1>6 DEF PeerFails
<1>7. CASE ClosedFails(g)
  BY <1>7 DEF ClosedFails
<1>8. CASE PumpClose(g)
  BY <1>8 DEF PumpClose
<1>9. CASE PumpSendDone(g)
  BY <1>9 DEF PumpSendDone
<1>10. CASE PumpFinish(g)
  BY <1>10 DEF PumpFinish
<1>11. QED
  BY <1>1, <1>2, <1>3, <1>4, <1>5, <1>6, <1>7, <1>8, <1>9, <1>10 DEF PumpRuns, PumpMeetsPeer

\* The inductive invariant behind the theorems on overlapping calls.
LEMMA ConcurrentInvariant == Spec => [](TypeInv /\ ErrorInv)
<1>1. Init => TypeInv /\ ErrorInv
  BY BridgeConstants DEF Init, TypeInv, TypeOK, CallArguments, ErrorInv, FdState, PumpPC, ClientPC, Code
<1>2. (TypeInv /\ ErrorInv) /\ [Next]_vars => (TypeInv /\ ErrorInv)'
  <2>1. CASE UNCHANGED vars
    BY <2>1 DEF TypeInv, TypeOK, CallArguments, ErrorInv, vars, bridge, pumps
  <2>2. QED
    BY <2>1, ClientStep, PumpStep DEF Next, Step
<1>3. QED
  BY <1>1, <1>2, PTL DEF Spec

\* Type correctness of the bridge under any overlap of calls.
THEOREM TypeCorrect == Spec => []TypeOK
<1>1. TypeInv => TypeOK
  BY DEF TypeInv
<1>2. QED
  BY <1>1, ConcurrentInvariant, PTL

\* statusInternalError is only ever reported for a pump that no Stop had
\* cancelled, whatever calls overlap.
THEOREM ErrorReportSound == Spec => []ErrorOnlyUnasked
<1>1. ErrorInv => ErrorOnlyUnasked
  BY DEF ErrorInv, ErrorOnlyUnasked
<1>2. QED
  BY <1>1, ConcurrentInvariant, PTL

\* The last critical section of a pump leaves a newer generation alone,
\* whatever calls overlap.
THEOREM StalePumpIsHarmless == Spec => StalePumpHarmless
<1>1. TypeInv /\ [Next]_vars =>
        [\A g \in Fd : (pump[g] = "finish" /\ pump'[g] = "ended" /\ generation # g)
                          => UNCHANGED bridge]_vars
  <2> SUFFICES ASSUME TypeInv, [Next]_vars, NEW g \in Fd,
                      pump[g] = "finish", pump'[g] = "ended", generation # g
               PROVE  UNCHANGED bridge
    OBVIOUS
  <2>1. ASSUME NEW c \in Client, Call(c) \/ Continue(c) PROVE FALSE
    BY <2>1 DEF Call, Continue, Attach, AttachNegative, StartReject, StartBusy, StartBusyClose,
       StartInstall, StopIdle, StopCapture, StopClose, StopWait, StopReset, Return, pumps,
       TypeInv, TypeOK, CallArguments
  <2>2. ASSUME NEW h \in Fd, PumpRuns(h) \/ PumpMeetsPeer(h) PROVE PumpFinish(g)
    BY <2>2 DEF PumpRuns, PumpMeetsPeer, EchoLoop, EchoRead, CountIn, EchoWrite, CountOut,
       PeerFails, ClosedFails, PumpClose, PumpSendDone, PumpFinish, PumpTo, TypeInv, TypeOK
  <2>3. CASE UNCHANGED vars
    BY SMTT(60), <2>3 DEF vars
  <2>4. QED
    BY <2>1, <2>2, <2>3 DEF Next, Step, PumpFinish, bridge
<1>2. QED
  BY <1>1, ConcurrentInvariant, PTL DEF Spec, StalePumpHarmless

-----------------------------------------------------------------------------
(* Overlapping calls: owners of endpoints and of the bridge *)

\* A pump has left its loop once its done channel was written, so also once a
\* Stop has received from it; the generation is that of the installed pump.
OverlapInv ==
  /\ socket # nil => generation = socket
  /\ \A g \in Fd : done[g] => pump[g] \in {"finish", "ended"}
  /\ \A c \in Client : pc[c] = "stop_reset" => pump[arg[c]] \in {"finish", "ended"}
  /\ OpenHasOwner

\* A call of any thread, at any time, keeps the owners.
LEMMA OverlapClientStep ==
  ASSUME TypeInv, OverlapInv, NEW c \in Client, Call(c) \/ Continue(c)
  PROVE  OverlapInv'
<1> USE BridgeConstants DEF TypeInv, TypeOK, CallArguments, OverlapInv, OpenHasOwner, Working,
        Return, bridge, pumps
<1>1. ASSUME NEW f \in Fd, Attach(c, f) PROVE OverlapInv'
  BY <1>1 DEF Attach
<1>2. CASE AttachNegative(c)
  BY <1>2 DEF AttachNegative
<1>3. CASE StartReject(c)
  BY <1>3 DEF StartReject
<1>4. CASE StartBusy(c)
  BY <1>4 DEF StartBusy
<1>5. CASE StartBusyClose(c)
  BY <1>5 DEF StartBusyClose
<1>6. CASE StartInstall(c)
  BY <1>6 DEF StartInstall
<1>7. CASE StopIdle(c)
  BY <1>7 DEF StopIdle
<1>8. CASE StopCapture(c)
  BY <1>8 DEF StopCapture
<1>9. CASE StopClose(c)
  BY <1>9 DEF StopClose
<1>10. CASE StopWait(c)
  BY <1>10 DEF StopWait
<1>11. CASE StopReset(c)
  BY <1>11 DEF StopReset
<1>12. QED
  BY <1>1, <1>2, <1>3, <1>4, <1>5, <1>6, <1>7, <1>8, <1>9, <1>10, <1>11 DEF Call, Continue

\* So does a step of any pump.
LEMMA OverlapPumpStep ==
  ASSUME TypeInv, OverlapInv, NEW g \in Fd, PumpRuns(g) \/ PumpMeetsPeer(g)
  PROVE  OverlapInv'
<1> USE BridgeConstants DEF TypeInv, TypeOK, CallArguments, OverlapInv, OpenHasOwner, Working,
        PumpTo, bridge, pumps
<1>1. CASE EchoLoop(g)
  BY <1>1 DEF EchoLoop
<1>2. CASE EchoRead(g)
  BY <1>2 DEF EchoRead
<1>3. CASE CountIn(g)
  BY <1>3 DEF CountIn
<1>4. CASE EchoWrite(g)
  BY <1>4 DEF EchoWrite
<1>5. CASE CountOut(g)
  BY <1>5 DEF CountOut
<1>6. CASE PeerFails(g)
  BY <1>6 DEF PeerFails
<1>7. CASE ClosedFails(g)
  BY <1>7 DEF ClosedFails
<1>8. CASE PumpClose(g)
  BY <1>8 DEF PumpClose
<1>9. CASE PumpSendDone(g)
  BY <1>9 DEF PumpSendDone
<1>10. CASE PumpFinish(g)
  BY <1>10 DEF PumpFinish
<1>11. QED
  BY <1>1, <1>2, <1>3, <1>4, <1>5, <1>6, <1>7, <1>8, <1>9, <1>10 DEF PumpRuns, PumpMeetsPeer

\* The owners are right in every state, whatever calls overlap.
LEMMA OverlapInvariant == Spec => []OverlapInv
<1>1. Init => OverlapInv
  BY BridgeConstants DEF Init, OverlapInv, OpenHasOwner
<1>2. TypeInv /\ OverlapInv /\ [Next]_vars => OverlapInv'
  <2>1. CASE UNCHANGED vars
    BY <2>1 DEF OverlapInv, OpenHasOwner, vars, bridge, pumps
  <2>2. QED
    BY <2>1, OverlapClientStep, OverlapPumpStep DEF Next, Step
<1>3. QED
  BY <1>1, <1>2, ConcurrentInvariant, PTL DEF Spec

\* No endpoint that a Start adopted is left open without an owner, also when the
\* Start is refused, for any number of threads whose calls overlap.
THEOREM OpenEndpointIsOwned == Spec => []OpenHasOwner
<1>1. OverlapInv => OpenHasOwner
  BY DEF OverlapInv
<1>2. QED
  BY <1>1, OverlapInvariant, PTL

\* Only a Stop of an older generation can take a working pump out of the bridge,
\* for any number of threads whose calls overlap.
THEOREM WorkingPumpIsKept == Spec => LostOnlyToStaleStop
<1>1. TypeInv /\ OverlapInv /\ [Next]_vars =>
        [\A g \in Fd : (socket = g /\ socket' # g /\ pump[g] \in Working)
                          => \E c \in Client : pc[c] = "stop_reset" /\ arg[c] # g]_vars
  <2> SUFFICES ASSUME TypeInv, OverlapInv, [Next]_vars, NEW g \in Fd,
                      socket = g, socket' # g, pump[g] \in Working
               PROVE  \E c \in Client : pc[c] = "stop_reset" /\ arg[c] # g
    OBVIOUS
  <2>1. ASSUME NEW c \in Client, Call(c) \/ Continue(c) PROVE pc[c] = "stop_reset"
    BY <2>1, BridgeConstants DEF Call, Continue, Attach, AttachNegative, StartReject, StartBusy,
       StartBusyClose, StartInstall, StopIdle, StopCapture, StopClose, StopWait, StopReset, bridge
  <2>2. ASSUME NEW c \in Client, Call(c) \/ Continue(c)
        PROVE  pc[c] = "stop_reset" /\ arg[c] # g
    BY <2>1, <2>2 DEF OverlapInv, Working
  <2>3. ASSUME NEW h \in Fd, PumpRuns(h) \/ PumpMeetsPeer(h) PROVE FALSE
    BY <2>3, BridgeConstants DEF PumpRuns, PumpMeetsPeer, EchoLoop, EchoRead, CountIn, EchoWrite,
       CountOut, PeerFails, ClosedFails, PumpClose, PumpSendDone, PumpFinish, PumpTo, bridge,
       OverlapInv, Working
  <2>4. CASE UNCHANGED vars
    BY <2>4 DEF vars, bridge
  <2>5. QED
    BY <2>2, <2>3, <2>4 DEF Next, Step
<1>2. QED
  BY <1>1, ConcurrentInvariant, OverlapInvariant, PTL DEF Spec, LostOnlyToStaleStop

-----------------------------------------------------------------------------
(* Serialized calls *)

OneCaller == \A c, d \in Client : (pc[c] # "idle" /\ pc[d] # "idle") => c = d

\* What a Stop in progress knows: the generation it captured is the current one.
StopKnows ==
  \A c \in Client :
    pc[c] \in {"stop_close", "stop_wait", "stop_reset"} => generation = arg[c]

\* The bridge's state says whether a pump is installed.
FieldsAgree == state = "running" <=> socket # nil

\* The counters at each point of the current pump's loop.
CountersInLoop ==
  /\ StatsCoherent
  /\ \A g \in Fd : pump[g] \in {"loop", "read", "count_in"} => framesIn = framesOut
  /\ \A g \in Fd : pump[g] \in {"write", "count_out"} => framesIn = framesOut + 1

Ownership == OneCaller /\ StopKnows /\ FieldsAgree /\ NoOrphanPump /\ CountersInLoop
SerialInv == TypeInv /\ ErrorInv /\ OverlapInv /\ Ownership

\* A call made in turn keeps every open endpoint and every working pump owned.
LEMMA SerialClientStep ==
  ASSUME SerialInv, NEW c \in Client, SerialCall(c) \/ Continue(c)
  PROVE  Ownership'
<1> USE BridgeConstants DEF SerialInv, TypeInv, TypeOK, CallArguments, Ownership, OneCaller, StopKnows,
        FieldsAgree, NoOrphanPump, OverlapInv, CountersInLoop, StatsCoherent, Working, Return,
        bridge, pumps
<1>1. ASSUME NEW f \in Fd, NobodyCalling, Attach(c, f) PROVE Ownership'
  BY <1>1 DEF Attach, NobodyCalling
<1>2. ASSUME NobodyCalling, AttachNegative(c) PROVE Ownership'
  BY <1>2 DEF AttachNegative, NobodyCalling
<1>3. CASE StartReject(c)
  BY <1>3 DEF StartReject
<1>4. CASE StartBusy(c)
  BY <1>4 DEF StartBusy
<1>5. CASE StartBusyClose(c)
  BY <1>5 DEF StartBusyClose
<1>6. CASE StartInstall(c)
  BY <1>6 DEF StartInstall
<1>7. ASSUME NobodyCalling, StopIdle(c) PROVE Ownership'
  BY <1>7 DEF StopIdle, NobodyCalling
<1>8. ASSUME NobodyCalling, StopCapture(c) PROVE Ownership'
  BY <1>8 DEF StopCapture, NobodyCalling
<1>9. CASE StopClose(c)
  BY <1>9 DEF StopClose
<1>10. CASE StopWait(c)
  BY <1>10 DEF StopWait
<1>11. CASE StopReset(c)
  BY SMTT(60), <1>11 DEF StopReset
<1>12. QED
  BY ZenonT(60), <1>1, <1>2, <1>3, <1>4, <1>5, <1>6, <1>7, <1>8, <1>9, <1>10, <1>11 DEF SerialCall, Call, Continue

\* So does every step of a pump.
LEMMA SerialPumpStep ==
  ASSUME SerialInv, NEW g \in Fd, PumpRuns(g) \/ PumpMeetsPeer(g)
  PROVE  Ownership'
<1> USE BridgeConstants DEF SerialInv, TypeInv, TypeOK, CallArguments, Ownership, OneCaller, StopKnows,
        FieldsAgree, NoOrphanPump, OverlapInv, CountersInLoop, StatsCoherent, Working, PumpTo,
        bridge, pumps
<1>1. CASE EchoLoop(g)
  BY <1>1 DEF EchoLoop
<1>2. CASE EchoRead(g)
  BY <1>2 DEF EchoRead
<1>3. CASE CountIn(g)
  BY <1>3 DEF CountIn
<1>4. CASE EchoWrite(g)
  BY <1>4 DEF EchoWrite
<1>5. CASE CountOut(g)
  BY <1>5 DEF CountOut
<1>6. CASE PeerFails(g)
  BY <1>6 DEF PeerFails
<1>7. CASE ClosedFails(g)
  BY <1>7 DEF ClosedFails
<1>8. CASE PumpClose(g)
  BY <1>8 DEF PumpClose
<1>9. CASE PumpSendDone(g)
  BY <1>9 DEF PumpSendDone
<1>10. CASE PumpFinish(g)
  BY <1>10 DEF PumpFinish
<1>11. QED
  BY ZenonT(60), <1>1, <1>2, <1>3, <1>4, <1>5, <1>6, <1>7, <1>8, <1>9, <1>10 DEF PumpRuns, PumpMeetsPeer

\* The inductive invariant behind the theorems on serialized calls.
LEMMA SerialInvariant == SerialSpec => []SerialInv
<1>1. Init => SerialInv
  BY BridgeConstants DEF Init, SerialInv, TypeInv, TypeOK, CallArguments, ErrorInv, Ownership, OneCaller,
     StopKnows, FieldsAgree, NoOrphanPump, OverlapInv, OpenHasOwner, CountersInLoop, StatsCoherent, Working,
     FdState, PumpPC, ClientPC, Code
<1>2. SerialInv /\ [SerialNext]_vars => SerialInv'
  <2>1. CASE UNCHANGED vars
    BY <2>1 DEF SerialInv, TypeInv, TypeOK, CallArguments, ErrorInv, Ownership, OneCaller,
       StopKnows, FieldsAgree, NoOrphanPump, OverlapInv, OpenHasOwner, CountersInLoop,
       StatsCoherent, vars, bridge, pumps
  <2>2. ASSUME SerialInv, NEW c \in Client, SerialCall(c) \/ Continue(c) PROVE SerialInv'
    BY <2>2, SerialClientStep, ClientStep, OverlapClientStep DEF SerialInv, SerialCall
  <2>3. ASSUME SerialInv, NEW g \in Fd, PumpRuns(g) \/ PumpMeetsPeer(g) PROVE SerialInv'
    BY <2>3, SerialPumpStep, PumpStep, OverlapPumpStep DEF SerialInv
  <2>4. QED
    BY <2>1, <2>2, <2>3 DEF SerialNext, Step
<1>3. QED
  BY <1>1, <1>2, PTL DEF SerialSpec

\* With serialized calls a working pump is always the one the bridge holds, so
\* there is never a second one and a Stop can always reach it.
THEOREM NoPumpIsOrphaned == SerialSpec => []NoOrphanPump
<1>1. SerialInv => NoOrphanPump
  BY DEF SerialInv, Ownership
<1>2. QED
  BY <1>1, SerialInvariant, PTL

\* With serialized calls, when Stop would find nothing to do, nothing is open.
THEOREM NothingLeftOpen == SerialSpec => []NothingToStopIsClosed
<1>1. SerialInv => NothingToStopIsClosed
  BY BridgeConstants DEF SerialInv, Ownership, NothingToStopIsClosed, OverlapInv, OpenHasOwner, NoOrphanPump, NobodyCalling
<1>2. QED
  BY <1>1, SerialInvariant, PTL

\* With serialized calls the frame counters are those of one pump.
THEOREM CountersAreCoherent == SerialSpec => []StatsCoherent
<1>1. SerialInv => StatsCoherent
  BY DEF SerialInv, Ownership, CountersInLoop
<1>2. QED
  BY <1>1, SerialInvariant, PTL
=============================================================================
