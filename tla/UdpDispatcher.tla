---------------------------- MODULE UdpDispatcher ----------------------------
(***************************************************************************)
(* A proxied UDP flow: the PacketConn of DialDispatcher, the Dispatcher    *)
(* behind it (transport/internet/udp/dispatcher.go) and the inactivity     *)
(* timer of each ray (common/signal/timer.go over common/task/periodic.go).*)
(*                                                                         *)
(* A ray is one link into the core.  Its two pipes are used as module Pipe *)
(* describes: RemoveRay interrupts the downlink and closes the uplink, the *)
(* outbound handler closes the downlink and interrupts the uplink.  The    *)
(* handler itself is outside this module: it may read, answer or end at    *)
(* any time, or do nothing.                                                *)
(***************************************************************************)
EXTENDS Naturals, Sequences, FiniteSets, Functions

CONSTANTS Ray,              \* bound: rays ever requested
          Writer,           \* goroutines that call WriteTo
          Packet,           \* bound: packets that ever come back
          Cache,            \* capacity of dispatcherConn.cache
          MaxWrites,        \* bound: calls of WriteTo
          nil

ASSUME UdpConstants ==
  /\ nil \notin Ray
  /\ Cache \in Nat \ {0} /\ MaxWrites \in Nat

VARIABLES
  conn,       \* Dispatcher.conn
  link,       \* each ray's link: "unused", "open", "shut" by RemoveRay, "failed"
  outbound,   \* the handler behind the link has ended
  uplink,     \* a write waits in the uplink: the pipe is full
  downlink,   \* packets on their way back
  cancelled,  \* the ray's context was cancelled
  timer,      \* "off", "armed", "firing"
  updated,    \* the timer's updated channel holds a value
  hpc, mb,    \* handleInput of each ray, and the packets it has read
  wpc, wray,  \* writers, and the entry each one got
  writes,     \* calls of WriteTo so far
  cache, done,     \* dispatcherConn
  parentDone,      \* the context given to DialDispatcher is cancelled
  sent, received,  \* history: packets per ray, and packets ReadFrom returned
  cutBy            \* history: whose cancel shut the ray

flow == <<link, outbound, uplink, downlink>>
timers == <<timer, updated>>
handlers == <<hpc, mb>>
writers == <<wpc, wray, writes>>
client == <<cache, done, received>>
vars == <<conn, flow, cancelled, timers, handlers, writers, client, parentDone, sent, cutBy>>

Init ==
  /\ conn = nil
  /\ link = [r \in Ray |-> "unused"] /\ outbound = [r \in Ray |-> FALSE]
  /\ uplink = [r \in Ray |-> FALSE] /\ downlink = [r \in Ray |-> <<>>]
  /\ cancelled = [r \in Ray |-> FALSE]
  /\ timer = [r \in Ray |-> "off"] /\ updated = [r \in Ray |-> FALSE]
  /\ hpc = [r \in Ray |-> "none"] /\ mb = [r \in Ray |-> <<>>]
  /\ wpc = [w \in Writer |-> "idle"] /\ wray = [w \in Writer |-> nil] /\ writes = 0
  /\ cache = <<>> /\ done = FALSE /\ parentDone = FALSE
  /\ sent = [r \in Ray |-> <<>>] /\ received = <<>>
  /\ cutBy = [r \in Ray |-> nil]

ctxDone(r) == cancelled[r] \/ parentDone

\* Fault: the entry is forgotten, its link stays open.
RemoveRayKeepsLink(r) ==
  /\ conn' = nil
  /\ UNCHANGED <<link, downlink, cutBy>>

\* RemoveRay on behalf of ray r: it removes whatever entry is current.
RemoveRay(r) ==
  /\ conn' = nil
  /\ link' = IF conn = nil THEN link ELSE [link EXCEPT ![conn] = "shut"]
  /\ downlink' = IF conn = nil \/ outbound[conn] THEN downlink ELSE [downlink EXCEPT ![conn] = <<>>]
  /\ cutBy' = IF conn = nil THEN cutBy ELSE [cutBy EXCEPT ![conn] = r]

-----------------------------------------------------------------------------
(* WriteTo and Dispatch *)

\* Bound: a call is made only if a ray is left for it.
RayLeft ==
  Cardinality({r \in Ray : link[r] = "unused"}) > Cardinality({w \in Writer : wpc[w] = "ray"})

WriteTo(w) ==
  /\ wpc[w] = "idle" /\ writes < MaxWrites /\ RayLeft
  /\ wpc' = [wpc EXCEPT ![w] = "ray"]
  /\ writes' = writes + 1
  /\ UNCHANGED <<conn, flow, cancelled, timers, handlers, wray, client, parentDone, sent, cutBy>>

\* getInboundRay finds an entry.
ReuseRay(w) ==
  /\ wpc[w] = "ray" /\ conn # nil
  /\ wray' = [wray EXCEPT ![w] = conn]
  /\ wpc' = [wpc EXCEPT ![w] = "write"]
  /\ UNCHANGED <<conn, flow, cancelled, timers, handlers, writes, client, parentDone, sent, cutBy>>

\* Rays are used in a fixed order.
Fresh(r) == link[r] = "unused" /\ r = CHOOSE q \in Ray : link[q] = "unused"

\* Fault: the entry is not looked up under the lock.
NewRayAlways(w, r) ==
  /\ wpc[w] = "ray" /\ Fresh(r)
  /\ conn' = r
  /\ link' = [link EXCEPT ![r] = "open"]
  /\ timer' = [timer EXCEPT ![r] = "armed"]
  /\ hpc' = [hpc EXCEPT ![r] = "loop"]
  /\ wray' = [wray EXCEPT ![w] = r]
  /\ wpc' = [wpc EXCEPT ![w] = "write"]
  /\ UNCHANGED <<outbound, uplink, downlink, cancelled, updated, mb, writes, client, parentDone, sent, cutBy>>

\* SetTimeout's own Update is consumed by the check that Start runs at once.
NewRay(w, r) ==
  /\ wpc[w] = "ray" /\ conn = nil /\ Fresh(r)
  /\ conn' = r
  /\ link' = [link EXCEPT ![r] = "open"]
  /\ timer' = [timer EXCEPT ![r] = "armed"]
  /\ hpc' = [hpc EXCEPT ![r] = "loop"]
  /\ wray' = [wray EXCEPT ![w] = r]
  /\ wpc' = [wpc EXCEPT ![w] = "write"]
  /\ UNCHANGED <<outbound, uplink, downlink, cancelled, updated, mb, writes, client, parentDone, sent, cutBy>>

\* The error path leaves the timer running.
NewRayFails(w, r) ==
  /\ wpc[w] = "ray" /\ conn = nil /\ Fresh(r)
  /\ link' = [link EXCEPT ![r] = "failed"]
  /\ timer' = [timer EXCEPT ![r] = "armed"]
  /\ wpc' = [wpc EXCEPT ![w] = "idle"]
  /\ UNCHANGED <<conn, outbound, uplink, downlink, cancelled, updated, handlers, wray, writes, client, parentDone, sent, cutBy>>

WriteEnds(r) == link[r] = "shut" \/ outbound[r]

Write(w) ==
  /\ wpc[w] = "write"
  /\ ~WriteEnds(wray[w]) /\ ~uplink[wray[w]]
  /\ uplink' = [uplink EXCEPT ![wray[w]] = TRUE]
  /\ wpc' = [wpc EXCEPT ![w] = "idle"]
  /\ UNCHANGED <<conn, link, outbound, downlink, cancelled, timers, handlers, wray, writes, client, parentDone, sent, cutBy>>

\* The write fails: conn.cancel begins.
WriteFails(w) ==
  /\ wpc[w] = "write" /\ WriteEnds(wray[w])
  /\ cancelled' = [cancelled EXCEPT ![wray[w]] = TRUE]
  /\ wpc' = [wpc EXCEPT ![w] = "remove"]
  /\ UNCHANGED <<conn, flow, timers, handlers, wray, writes, client, parentDone, sent, cutBy>>

WriteRemoves(w) ==
  /\ wpc[w] = "remove"
  /\ RemoveRay(wray[w])
  /\ wpc' = [wpc EXCEPT ![w] = "idle"]
  /\ UNCHANGED <<outbound, uplink, cancelled, timers, handlers, wray, writes, client, parentDone, sent>>

-----------------------------------------------------------------------------
(* handleInput, one goroutine per ray *)

HandlerContinues(r) ==
  /\ hpc[r] = "loop" /\ ~ctxDone(r)
  /\ hpc' = [hpc EXCEPT ![r] = "read"]
  /\ UNCHANGED <<conn, flow, cancelled, timers, mb, writers, client, parentDone, sent, cutBy>>

HandlerReads(r) ==
  /\ hpc[r] = "read" /\ downlink[r] # <<>>
  /\ mb' = [mb EXCEPT ![r] = downlink[r]]
  /\ downlink' = [downlink EXCEPT ![r] = <<>>]
  /\ hpc' = [hpc EXCEPT ![r] = "update"]
  /\ UNCHANGED <<conn, link, outbound, uplink, cancelled, timers, writers, client, parentDone, sent, cutBy>>

HandlerUpdates(r) ==
  /\ hpc[r] = "update"
  /\ updated' = [updated EXCEPT ![r] = TRUE]
  /\ hpc' = [hpc EXCEPT ![r] = "callback"]
  /\ UNCHANGED <<conn, flow, cancelled, timer, mb, writers, client, parentDone, sent, cutBy>>

\* The packets that are left after a callback.
Called(r) ==
  /\ mb' = [mb EXCEPT ![r] = Tail(@)]
  /\ hpc' = [hpc EXCEPT ![r] = IF Len(mb[r]) = 1 THEN "loop" ELSE "callback"]

\* Fault: the callback waits for no room.
CallbackCachesAlways(r) ==
  /\ hpc[r] = "callback"
  /\ cache' = Append(cache, Head(mb[r]))
  /\ Called(r)
  /\ UNCHANGED <<conn, flow, cancelled, timers, writers, done, received, parentDone, sent, cutBy>>

\* Fault: the newest packet goes first.
CallbackReorders(r) ==
  /\ hpc[r] = "callback" /\ Len(cache) < Cache
  /\ cache' = <<Head(mb[r])>> \o cache
  /\ Called(r)
  /\ UNCHANGED <<conn, flow, cancelled, timers, writers, done, received, parentDone, sent, cutBy>>

\* callback: with room, select may still choose done
CallbackCaches(r) ==
  /\ hpc[r] = "callback" /\ Len(cache) < Cache
  /\ cache' = Append(cache, Head(mb[r]))
  /\ Called(r)
  /\ UNCHANGED <<conn, flow, cancelled, timers, writers, done, received, parentDone, sent, cutBy>>

CallbackDrops(r) ==
  /\ hpc[r] = "callback" /\ (done \/ Len(cache) = Cache)
  /\ Called(r)
  /\ UNCHANGED <<conn, flow, cancelled, timers, writers, client, parentDone, sent, cutBy>>

\* The loop ends on a cancelled context or a failed read; conn.cancel begins.
HandlerLeaves(r) ==
  /\ \/ hpc[r] = "loop" /\ ctxDone(r)
     \/ hpc[r] = "read" /\ downlink[r] = <<>> /\ (link[r] = "shut" \/ outbound[r])
  /\ cancelled' = [cancelled EXCEPT ![r] = TRUE]
  /\ hpc' = [hpc EXCEPT ![r] = "remove"]
  /\ UNCHANGED <<conn, flow, timers, mb, writers, client, parentDone, sent, cutBy>>

HandlerRemoves(r) ==
  /\ hpc[r] = "remove"
  /\ RemoveRay(r)
  /\ hpc' = [hpc EXCEPT ![r] = "close"]
  /\ UNCHANGED <<outbound, uplink, cancelled, timers, mb, writers, client, parentDone, sent>>

\* Fault: the connection is not closed with its ray.
HandlerForgetsClose(r) ==
  /\ hpc[r] = "close"
  /\ hpc' = [hpc EXCEPT ![r] = "end"]
  /\ UNCHANGED <<conn, flow, cancelled, timers, mb, writers, client, parentDone, sent, cutBy>>

\* callClose
HandlerCloses(r) ==
  /\ hpc[r] = "close"
  /\ done' = TRUE
  /\ hpc' = [hpc EXCEPT ![r] = "end"]
  /\ UNCHANGED <<conn, flow, cancelled, timers, mb, writers, cache, received, parentDone, sent, cutBy>>

-----------------------------------------------------------------------------
(* ActivityTimer.check, once per interval *)

TimerActive(r) ==
  /\ timer[r] = "armed" /\ updated[r]
  /\ updated' = [updated EXCEPT ![r] = FALSE]
  /\ UNCHANGED <<conn, flow, cancelled, timer, handlers, writers, client, parentDone, sent, cutBy>>

\* Fault: only a ray that was never used times out.
TimerIdleOnce(r) ==
  /\ timer[r] = "armed" /\ ~updated[r] /\ sent[r] = <<>>
  /\ timer' = [timer EXCEPT ![r] = "firing"]
  /\ cancelled' = [cancelled EXCEPT ![r] = TRUE]
  /\ UNCHANGED <<conn, flow, updated, handlers, writers, client, parentDone, sent, cutBy>>

\* No answer for an interval: finish, and onTimeout begins with cancel.
TimerIdle(r) ==
  /\ timer[r] = "armed" /\ ~updated[r]
  /\ timer' = [timer EXCEPT ![r] = "firing"]
  /\ cancelled' = [cancelled EXCEPT ![r] = TRUE]
  /\ UNCHANGED <<conn, flow, updated, handlers, writers, client, parentDone, sent, cutBy>>

TimerRemoves(r) ==
  /\ timer[r] = "firing"
  /\ RemoveRay(r)
  /\ timer' = [timer EXCEPT ![r] = "off"]
  /\ UNCHANGED <<outbound, uplink, cancelled, updated, handlers, writers, client, parentDone, sent>>

-----------------------------------------------------------------------------
(* The client's ReadFrom and Close *)

ReadFrom ==
  /\ cache # <<>>
  /\ received' = Append(received, Head(cache))
  /\ cache' = Tail(cache)
  /\ UNCHANGED <<conn, flow, cancelled, timers, handlers, writers, done, parentDone, sent, cutBy>>

Close ==
  /\ ~done
  /\ done' = TRUE
  /\ UNCHANGED <<conn, flow, cancelled, timers, handlers, writers, cache, received, parentDone, sent, cutBy>>

-----------------------------------------------------------------------------
(* The runtime's context and the outbound handler *)

ParentCancel ==
  /\ ~parentDone
  /\ parentDone' = TRUE
  /\ UNCHANGED <<conn, flow, cancelled, timers, handlers, writers, client, sent, cutBy>>

OutReads(r) ==
  /\ uplink[r] /\ ~outbound[r]
  /\ uplink' = [uplink EXCEPT ![r] = FALSE]
  /\ UNCHANGED <<conn, link, outbound, downlink, cancelled, timers, handlers, writers, client, parentDone, sent, cutBy>>

OutAnswers(r, p) ==
  /\ link[r] = "open" /\ ~outbound[r]
  /\ \A q \in Ray : p \notin Range(sent[q])
  /\ downlink' = [downlink EXCEPT ![r] = Append(@, p)]
  /\ sent' = [sent EXCEPT ![r] = Append(@, p)]
  /\ UNCHANGED <<conn, link, outbound, uplink, cancelled, timers, handlers, writers, client, parentDone, cutBy>>

\* The handler closes the downlink, or interrupts it after an error.
OutEnds(r) ==
  /\ link[r] \in {"open", "shut"} /\ ~outbound[r]
  /\ outbound' = [outbound EXCEPT ![r] = TRUE]
  /\ downlink' \in {downlink, [downlink EXCEPT ![r] = <<>>]}
  /\ UNCHANGED <<conn, link, uplink, cancelled, timers, handlers, writers, client, parentDone, sent, cutBy>>

-----------------------------------------------------------------------------
WriterStep(w) ==
  \/ ReuseRay(w) \/ Write(w) \/ WriteFails(w) \/ WriteRemoves(w)
  \/ \E r \in Ray : NewRay(w, r) \/ NewRayFails(w, r)

HandlerStep(r) ==
  \/ HandlerContinues(r) \/ HandlerReads(r) \/ HandlerUpdates(r) \/ CallbackCaches(r)
  \/ CallbackDrops(r) \/ HandlerLeaves(r) \/ HandlerRemoves(r) \/ HandlerCloses(r)

TimerStep(r) == TimerActive(r) \/ TimerIdle(r) \/ TimerRemoves(r)

Next ==
  \/ \E w \in Writer : WriteTo(w) \/ WriterStep(w)
  \/ \E r \in Ray : HandlerStep(r) \/ TimerStep(r)
  \/ ReadFrom \/ Close \/ ParentCancel
  \/ \E r \in Ray : OutReads(r) \/ OutEnds(r) \/ \E p \in Packet : OutAnswers(r, p)

\* Goroutines run and timers expire.  Nothing is assumed of the client, the
\* runtime or the outbound handler.
Spec == /\ Init /\ [][Next]_vars
        /\ \A w \in Writer : WF_vars(WriterStep(w))
        /\ \A r \in Ray : WF_vars(HandlerStep(r)) /\ WF_vars(TimerStep(r))

-----------------------------------------------------------------------------
(* Properties *)

\* Type correctness; the cache of dispatcherConn never overflows.
TypeOK ==
  /\ conn \in Ray \cup {nil}
  /\ link \in [Ray -> {"unused", "open", "shut", "failed"}]
  /\ outbound \in [Ray -> BOOLEAN] /\ uplink \in [Ray -> BOOLEAN]
  /\ downlink \in [Ray -> Seq(Packet)] /\ mb \in [Ray -> Seq(Packet)]
  /\ cancelled \in [Ray -> BOOLEAN]
  /\ timer \in [Ray -> {"off", "armed", "firing"}] /\ updated \in [Ray -> BOOLEAN]
  /\ hpc \in [Ray -> {"none", "loop", "read", "update", "callback", "remove", "close", "end"}]
  /\ wpc \in [Writer -> {"idle", "ray", "write", "remove"}] /\ wray \in [Writer -> Ray \cup {nil}]
  /\ writes \in 0..MaxWrites
  /\ cache \in Seq(Packet) /\ Len(cache) <= Cache
  /\ done \in BOOLEAN /\ parentDone \in BOOLEAN
  /\ sent \in [Ray -> Seq(Packet)] /\ received \in Seq(Packet)
  /\ cutBy \in [Ray -> Ray \cup {nil}]

\* The only open link is the one of the current entry: no link is lost from
\* sight while open, so a flow holds at most one connection into the core.
OpenIsCurrent == \A r \in Ray : link[r] = "open" <=> conn = r

\* Packets reach ReadFrom in the order their ray sent them, none twice.
InRayOrder ==
  LET got == received \o cache IN
  /\ \A i, j \in DOMAIN got : got[i] = got[j] => i = j
  /\ \A r \in Ray : \A a, b \in DOMAIN sent[r] : \A i, j \in DOMAIN got :
       a < b /\ got[i] = sent[r][a] /\ got[j] = sent[r][b] => i < j

\* The connection is closed, or the handler of a ray that is over will close it.
Ending ==
  done \/ \E r \in Ray : hpc[r] \notin {"none", "end"} /\ (link[r] = "shut" \/ outbound[r] \/ ctxDone(r))

\* RemoveRay takes no argument: the late timer, failed write or handler of one
\* ray may remove another.  The connection was closed or closing already before
\* such a removal, unless it is the timer of a dispatch that had failed, which
\* getInboundRay leaves running.
ForeignCutOnlyAtEnd ==
  [][\A r \in Ray : cutBy'[r] # cutBy[r] /\ cutBy'[r] # r =>
       Ending \/ link[cutBy'[r]] = "failed"]_vars

\* Every WriteTo returns, even if the handler behind the ray never reads: the
\* timer of the silent ray closes the full uplink.
WritesReturn == \A w \in Writer : (wpc[w] # "idle") ~> (wpc[w] = "idle")

\* Every ray comes to an end and takes the connection with it: its handler
\* terminates, its link is shut and done is closed, once answers stop coming.
RaysEnd == \A r \in Ray : (link[r] = "open") ~> (link[r] = "shut" /\ hpc[r] = "end" /\ done)
=============================================================================
