------------------------------ MODULE TcpRelay ------------------------------
(***************************************************************************)
(* proxyTCP: one TCP connection accepted by the netstack, relayed to a     *)
(* server either directly or through the core.                             *)
(*                                                                         *)
(* A side is "in" (the client, a gonet.TCPConn) or "out" (the server).     *)
(* The outbound connection is a net.TCPConn on the direct route.  On the   *)
(* proxied route it is a cnc.connection over two pipes: it has no          *)
(* CloseWrite, its deadlines do nothing, and Close interrupts the downlink *)
(* and closes the uplink.  A chunk is what one Read returns, numbered in   *)
(* the order its sender wrote it.                                          *)
(***************************************************************************)
EXTENDS Naturals, Sequences

CONSTANTS Routes,    \* what Router.Route may answer here
          MaxChunks, \* bound: chunks a peer sends
          Window     \* chunks a connection buffers in each direction

ASSUME RelayConstants ==
  /\ Routes \subseteq {"block", "direct", "proxy"}
  /\ MaxChunks \in Nat /\ Window \in Nat \ {0}

VARIABLES
  main,      \* proxyTCP
  route,     \* the action Route chose
  peeked,    \* what the first read got
  conn,      \* both connections
  cpc, held, \* the two copying goroutines and the chunk each one holds
  stopped,   \* the runtime is closing: its context is cancelled
  sent, got  \* history: chunks each peer sent and received

vars == <<main, route, peeked, conn, cpc, held, stopped, sent, got>>
copies == <<cpc, held>>
history == <<sent, got>>

Side == {"in", "out"}
Dir == {"up", "down"}
Src(d) == IF d = "up" THEN "in" ELSE "out"
Dst(d) == IF d = "up" THEN "out" ELSE "in"

\* rq: arrived, unread.  wq: written, not yet with the peer.  refuse: only
\* writes fail.  shut: what was closed here.  dl: the deadline.
NewConn ==
  [rq |-> <<>>, wq |-> <<>>, fin |-> FALSE, dead |-> FALSE, refuse |-> FALSE,
   shut |-> "no", dl |-> "off"]

Init ==
  /\ main = "peek" /\ route = "none" /\ peeked = <<>>
  /\ conn = [s \in Side |-> NewConn]
  /\ cpc = [d \in Dir |-> "off"] /\ held = [d \in Dir |-> <<>>]
  /\ stopped = FALSE
  /\ sent = [s \in Side |-> 0] /\ got = [s \in Side |-> <<>>]

Dead(c) == [c EXCEPT !.dead = TRUE, !.rq = <<>>, !.wq = <<>>]
HalfClosed(c) == [c EXCEPT !.shut = "write"]

\* The downlink pipe of a proxied connection that the handler has closed: an
\* Interrupt no longer drops what it holds.
KeepsContent(s) == s = "out" /\ route = "proxy" /\ conn[s].fin

Closed(s) == [conn[s] EXCEPT !.shut = "full", !.rq = IF KeepsContent(s) THEN @ ELSE <<>>]

CanRead(c) == c.rq # <<>> /\ ~c.dead /\ c.dl # "expired"
ReadEnds(c) == c.dead \/ c.dl = "expired" \/ (c.rq = <<>> /\ (c.fin \/ c.shut = "full"))
WriteEnds(c) == c.shut # "no" \/ c.dead \/ c.refuse \/ c.dl = "expired"

\* Fault: a write does not wait for room.
CanWriteAlways(c) == ~WriteEnds(c)

CanWrite(c) == ~WriteEnds(c) /\ Len(c.wq) < Window

-----------------------------------------------------------------------------
(* proxyTCP *)

\* The read of at most two seconds: a chunk, or nothing.
Peek ==
  /\ main = "peek"
  /\ \/ /\ CanRead(conn["in"])
        /\ peeked' = <<Head(conn["in"].rq)>>
        /\ conn' = [conn EXCEPT !["in"].rq = Tail(@)]
     \/ UNCHANGED <<peeked, conn>>
  /\ main' = "route"
  /\ UNCHANGED <<route, copies, stopped, history>>

\* The deferred closes.
Finish ==
  /\ main' = "done"
  /\ conn' = [s \in Side |-> Closed(s)]

Route(a) ==
  /\ main = "route"
  /\ route' = a
  /\ IF a = "block" THEN Finish ELSE main' = "dial" /\ UNCHANGED conn
  /\ UNCHANGED <<peeked, copies, stopped, history>>

\* A direct dial fails once the context is cancelled; core.Dial does not ask.
Dial ==
  /\ main = "dial"
  /\ route = "direct" => ~stopped
  /\ main' = "first"
  /\ UNCHANGED <<route, peeked, conn, copies, stopped, history>>

DialFails ==
  /\ main = "dial"
  /\ Finish
  /\ UNCHANGED <<route, peeked, copies, stopped, history>>

StartCopies ==
  /\ main' = "copy"
  /\ cpc' = [d \in Dir |-> "read"]
  /\ UNCHANGED held

\* Fault: what was read for sniffing is not sent on.
WriteNoFirst ==
  /\ main = "first"
  /\ StartCopies
  /\ UNCHANGED <<route, peeked, conn, stopped, history>>

WriteFirst ==
  /\ main = "first"
  /\ peeked # <<>> => CanWrite(conn["out"])
  /\ conn' = [conn EXCEPT !["out"].wq = @ \o peeked]
  /\ StartCopies
  /\ UNCHANGED <<route, peeked, stopped, history>>

WriteFirstFails ==
  /\ main = "first" /\ peeked # <<>> /\ WriteEnds(conn["out"])
  /\ Finish
  /\ UNCHANGED <<route, peeked, copies, stopped, history>>

\* Fault: only the client's side gets the deadline.
GraceInboundOnly ==
  /\ main = "copy" /\ \E d \in Dir : cpc[d] = "end"
  /\ conn' = [conn EXCEPT !["in"].dl = "armed"]
  /\ main' = "grace"
  /\ UNCHANGED <<route, peeked, copies, stopped, history>>

\* The first direction is over: five seconds for the other one.
Grace ==
  /\ main = "copy" /\ \E d \in Dir : cpc[d] = "end"
  /\ conn' = [s \in Side |->
                IF s = "out" /\ route = "proxy" THEN conn[s] ELSE [conn[s] EXCEPT !.dl = "armed"]]
  /\ main' = "grace"
  /\ UNCHANGED <<route, peeked, copies, stopped, history>>

End ==
  /\ main = "grace" /\ \A d \in Dir : cpc[d] = "end"
  /\ Finish
  /\ UNCHANGED <<route, peeked, copies, stopped, history>>

-----------------------------------------------------------------------------
(* io.CopyBuffer in each direction, and the close that follows it *)

CopyRead(d) ==
  /\ cpc[d] = "read" /\ CanRead(conn[Src(d)])
  /\ held' = [held EXCEPT ![d] = <<Head(conn[Src(d)].rq)>>]
  /\ conn' = [conn EXCEPT ![Src(d)].rq = Tail(@)]
  /\ cpc' = [cpc EXCEPT ![d] = "write"]
  /\ UNCHANGED <<main, route, peeked, stopped, history>>

CopyWrite(d) ==
  /\ cpc[d] = "write" /\ CanWrite(conn[Dst(d)])
  /\ conn' = [conn EXCEPT ![Dst(d)].wq = @ \o held[d]]
  /\ held' = [held EXCEPT ![d] = <<>>]
  /\ cpc' = [cpc EXCEPT ![d] = "read"]
  /\ UNCHANGED <<main, route, peeked, stopped, history>>

\* Fault: the copy ends when the source has nothing to read.
CopyEndsEarly(d) ==
  /\ \/ cpc[d] = "read" /\ (ReadEnds(conn[Src(d)]) \/ conn[Src(d)].fin)
     \/ cpc[d] = "write" /\ WriteEnds(conn[Dst(d)])
  /\ cpc' = [cpc EXCEPT ![d] = "close"]
  /\ UNCHANGED <<main, route, peeked, conn, held, stopped, history>>

CopyEnds(d) ==
  /\ \/ cpc[d] = "read" /\ ReadEnds(conn[Src(d)])
     \/ cpc[d] = "write" /\ WriteEnds(conn[Dst(d)])
  /\ cpc' = [cpc EXCEPT ![d] = "close"]
  /\ UNCHANGED <<main, route, peeked, conn, held, stopped, history>>

\* Fault: both directions are closed at once.
CopyClosesAll(d) ==
  /\ cpc[d] = "close"
  /\ conn' = [conn EXCEPT ![Dst(d)] = Closed(Dst(d))]
  /\ cpc' = [cpc EXCEPT ![d] = "end"]
  /\ UNCHANGED <<main, route, peeked, held, stopped, history>>

\* CloseWrite where there is one, Close otherwise.
CopyCloses(d) ==
  /\ cpc[d] = "close"
  /\ conn' = [conn EXCEPT ![Dst(d)] =
                IF d = "up" /\ route = "proxy" THEN Closed(Dst(d)) ELSE HalfClosed(@)]
  /\ cpc' = [cpc EXCEPT ![d] = "end"]
  /\ UNCHANGED <<main, route, peeked, held, stopped, history>>

Expire(s) ==
  /\ conn[s].dl = "armed"
  /\ conn' = [conn EXCEPT ![s].dl = "expired"]
  /\ UNCHANGED <<main, route, peeked, copies, stopped, history>>

-----------------------------------------------------------------------------
(* The peers, the core's outbound handler and the runtime *)

Connected(s) == s = "in" \/ main \in {"first", "copy", "grace"}
Alive(s) == Connected(s) /\ ~conn[s].dead /\ ~conn[s].fin /\ conn[s].shut # "full"

PeerSends(s) ==
  /\ Alive(s)
  /\ sent[s] < MaxChunks /\ Len(conn[s].rq) < Window
  /\ sent' = [sent EXCEPT ![s] = @ + 1]
  /\ conn' = [conn EXCEPT ![s].rq = Append(@, sent[s] + 1)]
  /\ UNCHANGED <<main, route, peeked, copies, stopped, got>>

PeerFin(s) ==
  /\ Alive(s)
  /\ conn' = [conn EXCEPT ![s].fin = TRUE]
  /\ UNCHANGED <<main, route, peeked, copies, stopped, history>>

PeerTakes(s) ==
  /\ conn[s].wq # <<>>
  /\ got' = [got EXCEPT ![s] = Append(@, Head(conn[s].wq))]
  /\ conn' = [conn EXCEPT ![s].wq = Tail(@)]
  /\ UNCHANGED <<main, route, peeked, copies, stopped, sent>>

\* (A proxied server that resets makes the handler fail: HandlerEnds.)
PeerResets(s) ==
  /\ Connected(s) /\ ~conn[s].dead
  /\ s = "out" => route = "direct"
  /\ conn' = [conn EXCEPT ![s] = Dead(@)]
  /\ UNCHANGED <<main, route, peeked, copies, stopped, history>>

\* Handler.Dispatch is over: after an error the downlink is interrupted, else
\* closed; the uplink is interrupted.  A downlink that the client's response task
\* closed before (PeerFin) keeps its content either way.
HandlerEnds ==
  /\ route = "proxy" /\ Connected("out") /\ ~conn["out"].refuse
  /\ \/ ~conn["out"].fin /\ conn' = [conn EXCEPT !["out"] = [Dead(@) EXCEPT !.refuse = TRUE]]
     \/ conn' = [conn EXCEPT !["out"].fin = TRUE, !["out"].refuse = TRUE, !["out"].wq = <<>>]
  /\ UNCHANGED <<main, route, peeked, copies, stopped, history>>

\* close: the context is cancelled and the stack aborts the client's connection.
Stop ==
  /\ ~stopped
  /\ stopped' = TRUE
  /\ conn' = [conn EXCEPT !["in"] = Dead(@)]
  /\ UNCHANGED <<main, route, peeked, copies, history>>

-----------------------------------------------------------------------------
MainStep ==
  \/ Peek \/ Dial \/ DialFails \/ WriteFirst \/ WriteFirstFails \/ Grace \/ End
  \/ \E a \in Routes : Route(a)

CopyStep(d) == CopyRead(d) \/ CopyWrite(d) \/ CopyEnds(d) \/ CopyCloses(d)

Next ==
  \/ MainStep
  \/ \E d \in Dir : CopyStep(d)
  \/ \E s \in Side : Expire(s) \/ PeerSends(s) \/ PeerFin(s) \/ PeerTakes(s) \/ PeerResets(s)
  \/ HandlerEnds \/ Stop

\* The handler ends when its context is cancelled, and its inactivity timer
\* ends it if one direction is over and it takes nothing from the other.
HandlerMustEnd ==
  HandlerEnds /\ (stopped \/ (Len(conn["out"].wq) = Window /\ \E d \in Dir : cpc[d] = "end"))

\* Goroutines run, deadlines expire.  Nothing is assumed of either peer.
Spec == /\ Init /\ [][Next]_vars
        /\ WF_vars(MainStep) /\ WF_vars(HandlerMustEnd)
        /\ \A d \in Dir : WF_vars(CopyStep(d))
        /\ \A s \in Side : WF_vars(Expire(s))

-----------------------------------------------------------------------------
(* Properties *)

\* Type correctness; neither connection buffers more than its window.
TypeOK ==
  /\ main \in {"peek", "route", "dial", "first", "copy", "grace", "done"}
  /\ route \in Routes \cup {"none"}
  /\ Len(peeked) <= 1 /\ \A d \in Dir : Len(held[d]) <= 1
  /\ conn \in [Side -> [rq : Seq(1..MaxChunks), wq : Seq(1..MaxChunks), fin : BOOLEAN,
                        dead : BOOLEAN, refuse : BOOLEAN, shut : {"no", "write", "full"},
                        dl : {"off", "armed", "expired"}]]
  /\ \A s \in Side : Len(conn[s].rq) <= Window /\ Len(conn[s].wq) <= Window
  /\ cpc \in [Dir -> {"off", "read", "write", "close", "end"}]
  /\ stopped \in BOOLEAN
  /\ sent \in [Side -> 0..MaxChunks] /\ got \in [Side -> Seq(1..MaxChunks)]

\* What d has handed to its destination.
Delivered(d) == got[Dst(d)] \o conn[Dst(d)].wq

\* Each peer receives the other's chunks in order, without a gap or a repeat,
\* beginning with the one that was read for sniffing.
InOrder == \A d \in Dir : \A i \in 1..Len(Delivered(d)) : Delivered(d)[i] = i

\* Neither connection failed and no deadline expired.
Clean == \A s \in Side : ~conn[s].dead /\ ~conn[s].refuse /\ conn[s].dl # "expired"

\* A direction that ends by itself has delivered all that its source sent.
\* (The downlink of a proxied connection is excepted: see GraceGiven.)
Complete ==
  \A d \in Dir : cpc[d] \in {"close", "end"} /\ Clean /\ (d = "up" \/ route = "direct") =>
    Len(Delivered(d)) = sent[Src(d)]

\* Some peer, or the deadline, is the reason for a copy to end.
Ended(d) ==
  LET s == conn[Src(d)]  t == conn[Dst(d)] IN
  s.dead \/ t.dead \/ t.refuse \/ (s.fin /\ s.rq = <<>>) \/ s.dl = "expired" \/ t.dl = "expired"

\* One direction's end does not end the other before the grace period does.
GraceGiven == [][\A d \in Dir : cpc[d] # "close" /\ cpc'[d] = "close" => Ended(d)]_vars

\* On the direct route, which has CloseWrite, the grace period is given.
DirectGrace ==
  [][\A d \in Dir : route = "direct" /\ cpc[d] # "close" /\ cpc'[d] = "close" => Ended(d)]_vars

\* Once a direction is over the relay ends and gives back its token, whatever
\* the peers do: no half-dead connection keeps a token.
RelayEnds == (\E d \in Dir : cpc[d] = "end") ~> (main = "done")

\* The upload waits in outbound.Write and the download in outbound.Read for a
\* direct server that takes nothing and sends nothing: no deadline is set yet.
WriteStuck ==
  /\ route = "direct" /\ cpc["up"] = "write" /\ cpc["down"] = "read"
  /\ ~WriteEnds(conn["out"]) /\ Len(conn["out"].wq) = Window

\* The relay of a closing runtime ends, unless from some moment on it stays in
\* such a write for ever: only that can delay the runtime's close without bound.
StopEndsRelay == stopped ~> (main = "done" \/ []WriteStuck)
=============================================================================
