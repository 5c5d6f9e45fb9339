--------------------------- MODULE NetstackEgress ---------------------------
(***************************************************************************)
(* The outbound half of a netstack runtime (apple-wrapper/netstack.go): the *)
(* stack queues IP packets on the link, host threads take them with        *)
(* FoloXrayNetstackReadPacket, and close drops what is left.               *)
(*                                                                         *)
(* readPacket runs under lifeMu (shared) and readMu (exclusive), and close *)
(* sets closed under lifeMu, so a read is one step.  Between the read of   *)
(* netstack.runtime and readPacket the runtime may be detached and closed. *)
(* The stack and the link are gVisor's; their steps come from how the code *)
(* uses them.                                                              *)
(***************************************************************************)
EXTENDS Naturals, Sequences

CONSTANTS Reader,   \* host threads that read
          Packet,   \* bound: packets the stack ever emits
          Size,     \* length of every packet
          Depth,    \* netstackPacketQueueDepth
          nil

ASSUME EgressConstants ==
  /\ nil \notin Packet
  /\ Size \in [Packet -> Nat \ {0}]
  /\ Depth \in Nat \ {0}

ReaderPC == {"idle", "read"}
CloserPC == {"open", "marked", "dropped", "stopped", "closed"}

VARIABLES
  queue,      \* packets on the link
  pending,    \* n.pending: a packet a read had no room for
  cpc,        \* progress of close
  rpc,        \* program counter of each reader
  refs,       \* references to each packet held by the runtime or the link
  accepted,   \* history: packets the link accepted, in order
  delivered   \* history: packets copied to the host, in order

vars == <<queue, pending, cpc, rpc, refs, accepted, delivered>>

Init ==
  /\ queue = <<>> /\ pending = nil
  /\ cpc = "open"
  /\ rpc = [t \in Reader |-> "idle"]
  /\ refs = [p \in Packet |-> 0]
  /\ accepted = <<>> /\ delivered = <<>>

Pending == IF pending = nil THEN <<>> ELSE <<pending>>

-----------------------------------------------------------------------------
(* The stack's side of the link *)

Fresh(p) == \A i \in 1..Len(accepted) : accepted[i] # p

\* Fault: the link takes one packet more than its depth.
StackWritesOverDepth(p) ==
  /\ Fresh(p)
  /\ cpc # "closed"
  /\ Len(queue) <= Depth
  /\ queue' = Append(queue, p)
  /\ accepted' = Append(accepted, p)
  /\ refs' = [refs EXCEPT ![p] = 1]
  /\ UNCHANGED <<pending, cpc, rpc, delivered>>

\* channel.Endpoint.WritePackets: a full or closed queue drops the packet; the
\* notification that follows a write wakes nobody.
StackWrites(p) ==
  /\ Fresh(p)
  /\ cpc # "closed"
  /\ Len(queue) < Depth
  /\ queue' = Append(queue, p)
  /\ accepted' = Append(accepted, p)
  /\ refs' = [refs EXCEPT ![p] = 1]
  /\ UNCHANGED <<pending, cpc, rpc, delivered>>

-----------------------------------------------------------------------------
(* readNetstackPacket and readPacket *)

ReadCall(t) ==
  /\ rpc[t] = "idle"
  /\ cpc = "open"
  /\ rpc' = [rpc EXCEPT ![t] = "read"]
  /\ UNCHANGED <<queue, pending, cpc, refs, accepted, delivered>>

ReadReturns(t) == rpc' = [rpc EXCEPT ![t] = "idle"]

\* errNetstackStopped, or errNetstackWouldBlock
ReadNothing(t) ==
  /\ rpc[t] = "read"
  /\ cpc # "open" \/ (pending = nil /\ queue = <<>>)
  /\ ReadReturns(t)
  /\ UNCHANGED <<queue, pending, cpc, refs, accepted, delivered>>

\* The packet a read works on, and the queue without it.
Current == IF pending # nil THEN pending ELSE Head(queue)
QueueAfter == IF pending # nil THEN queue ELSE Tail(queue)

Readable(t) == rpc[t] = "read" /\ cpc = "open" /\ (pending # nil \/ queue # <<>>)

\* Fault: a packet that does not fit is dropped.
ReadTooLargeDrops(t, capacity) ==
  /\ Readable(t)
  /\ Size[Current] > capacity
  /\ pending' = nil
  /\ queue' = QueueAfter
  /\ refs' = [refs EXCEPT ![Current] = @ - 1]
  /\ ReadReturns(t)
  /\ UNCHANGED <<cpc, accepted, delivered>>

\* errNetstackPacketTooLarge: the packet is kept for the next read.
ReadTooLarge(t, capacity) ==
  /\ Readable(t)
  /\ Size[Current] > capacity
  /\ pending' = Current
  /\ queue' = QueueAfter
  /\ ReadReturns(t)
  /\ UNCHANGED <<cpc, refs, accepted, delivered>>

ReadFits(t, capacity) ==
  /\ Readable(t)
  /\ Size[Current] <= capacity
  /\ delivered' = Append(delivered, Current)
  /\ pending' = nil
  /\ queue' = QueueAfter
  /\ refs' = [refs EXCEPT ![Current] = @ - 1]
  /\ ReadReturns(t)
  /\ UNCHANGED <<cpc, accepted>>

-----------------------------------------------------------------------------
(* close *)

CloseMark ==
  /\ cpc = "open"
  /\ cpc' = "marked"
  /\ UNCHANGED <<queue, pending, rpc, refs, accepted, delivered>>

\* Fault: close forgets the pending packet.
CloseKeepsPending ==
  /\ cpc = "marked"
  /\ cpc' = "dropped"
  /\ UNCHANGED <<queue, pending, rpc, refs, accepted, delivered>>

\* DecRef of the pending packet under readMu
CloseDropsPending ==
  /\ cpc = "marked"
  /\ cpc' = "dropped"
  /\ pending' = nil
  /\ refs' = IF pending = nil THEN refs ELSE [refs EXCEPT ![pending] = @ - 1]
  /\ UNCHANGED <<queue, rpc, accepted, delivered>>

\* stack.Close: endpoints that abort may still emit packets
CloseStack ==
  /\ cpc = "dropped"
  /\ cpc' = "stopped"
  /\ UNCHANGED <<queue, pending, rpc, refs, accepted, delivered>>

\* link.Close closes the queue and drains it
CloseLink ==
  /\ cpc = "stopped"
  /\ cpc' = "closed"
  /\ queue' = <<>>
  /\ refs' = [p \in Packet |-> IF \E i \in 1..Len(queue) : queue[i] = p THEN refs[p] - 1 ELSE refs[p]]
  /\ UNCHANGED <<pending, rpc, accepted, delivered>>

-----------------------------------------------------------------------------
\* Buffers the host may pass: FoloXrayNetstackReadPacket rejects an empty one.
Capacity == {Size[p] : p \in Packet}

Next ==
  \/ \E p \in Packet : StackWrites(p)
  \/ \E t \in Reader : ReadCall(t) \/ ReadNothing(t)
  \/ \E t \in Reader, c \in Capacity : ReadTooLarge(t, c) \/ ReadFits(t, c)
  \/ CloseMark \/ CloseDropsPending \/ CloseStack \/ CloseLink

Spec == Init /\ [][Next]_vars

-----------------------------------------------------------------------------
(* Properties *)

\* Type correctness; the link's queue never holds more than
\* netstackPacketQueueDepth packets, and no packet is released twice.
TypeOK ==
  /\ queue \in Seq(Packet) /\ Len(queue) <= Depth
  /\ pending \in Packet \cup {nil}
  /\ cpc \in CloserPC /\ rpc \in [Reader -> ReaderPC]
  /\ refs \in [Packet -> {0, 1}]
  /\ accepted \in Seq(Packet) /\ delivered \in Seq(Packet)

\* Until close, what the link accepted is what the host got, then the packet a
\* read had no room for, then the queue: readPacket loses, repeats and reorders
\* nothing, whatever the sizes of the buffers and the number of reading threads.
ExactlyOnceInOrder == cpc \in {"open", "marked"} => accepted = delivered \o Pending \o queue

\* The runtime holds exactly one reference to the packets it still has and none
\* to the others: each packet is released once, by a read or by close.
RefsExact ==
  \A p \in Packet :
    refs[p] = 1 <=> (pending = p \/ \E i \in 1..Len(queue) : queue[i] = p)

\* close leaves no packet behind.
ClosedIsEmpty == cpc = "closed" => /\ queue = <<>> /\ pending = nil
                                   /\ \A p \in Packet : refs[p] = 0

\* Every packet the link accepted is released exactly once, by the read that
\* delivers it or by close, whatever readers and close do at the same time.
EachReleasedOnce == RefsExact /\ ClosedIsEmpty
=============================================================================
