------------------------ MODULE NetstackEgressProofs ------------------------
(***************************************************************************)
(* Proofs for NetstackEgress, for any number of readers and packets, any   *)
(* packet sizes and any queue depth.                                       *)
(***************************************************************************)
EXTENDS NetstackEgress, SequenceTheorems, TLAPS

InQueue(p) == \E i \in 1..Len(queue) : queue[i] = p

\* No packet is in two places, and every packet of the runtime was accepted.
Distinct ==
  /\ \A i, j \in 1..Len(queue) : queue[i] = queue[j] => i = j
  /\ \A i \in 1..Len(queue) : queue[i] # pending /\ ~Fresh(queue[i])
  /\ pending # nil => ~Fresh(pending)

CloseDone ==
  /\ cpc \in {"dropped", "stopped", "closed"} => pending = nil
  /\ cpc = "closed" => queue = <<>>

EInv == TypeOK /\ Distinct /\ RefsExact /\ CloseDone

-----------------------------------------------------------------------------
(* Sequences *)

\* Appending to the second of two sequences.
LEMMA ConcatAppend ==
  ASSUME NEW s \in Seq(Packet), NEW q \in Seq(Packet), NEW e \in Packet
  PROVE  Append(s \o q, e) = s \o Append(q, e)
<1>1. <<e>> \in Seq(Packet) /\ s \o q \in Seq(Packet)
  BY ConcatProperties
<1>2. Append(s \o q, e) = (s \o q) \o <<e>>
  BY <1>1, AppendIsConcat
<1>3. Append(q, e) = q \o <<e>>
  BY AppendIsConcat
<1>4. (s \o q) \o <<e>> = s \o (q \o <<e>>)
  BY <1>1, ConcatAssociative
<1>5. QED
  BY <1>2, <1>3, <1>4

\* A queue is its head followed by its tail.
LEMMA HeadThenTail ==
  ASSUME NEW S, NEW d \in Seq(S), NEW q \in Seq(S), q # <<>>
  PROVE  d \o q = Append(d, Head(q)) \o Tail(q)
<1>1. Head(q) \in S /\ Tail(q) \in Seq(S) /\ q = <<Head(q)>> \o Tail(q) /\ <<Head(q)>> \in Seq(S)
  BY HeadTailProperties, SubSeqFull, SubSeqRecursiveFirst, TailIsSubSeq
<1>2. QED
  BY <1>1, AppendIsConcat, ConcatAssociative

-----------------------------------------------------------------------------
(* The invariant *)

\* The packet a read works on belongs to the runtime.
LEMMA CurrentPacket ==
  ASSUME EInv, pending # nil \/ queue # <<>>
  PROVE  /\ Current \in Packet /\ refs[Current] = 1
         /\ QueueAfter \in Seq(Packet) /\ Len(QueueAfter) <= Len(queue)
         /\ \A i \in 1..Len(QueueAfter) : InQueue(QueueAfter[i]) /\ QueueAfter[i] # Current
         /\ \A i, j \in 1..Len(QueueAfter) : QueueAfter[i] = QueueAfter[j] => i = j
         /\ \A p \in Packet : (pending = p \/ InQueue(p)) =>
              (p = Current \/ \E i \in 1..Len(QueueAfter) : QueueAfter[i] = p)
         /\ ~Fresh(Current)
<1> USE DEF EInv, TypeOK, Distinct, RefsExact, InQueue, Current, QueueAfter
<1>1. CASE pending # nil
  BY <1>1
<1>2. CASE pending = nil
  <2>1. queue # <<>>
    BY <1>2
  <2>2. /\ Head(queue) = queue[1] /\ Tail(queue) \in Seq(Packet) /\ Len(Tail(queue)) = Len(queue) - 1
        /\ \A i \in 1..Len(Tail(queue)) : Tail(queue)[i] = queue[i + 1]
        /\ Len(queue) \in Nat \ {0}
    BY <2>1, HeadTailProperties, EmptySeq
  <2>3. Current = queue[1] /\ QueueAfter = Tail(queue)
    BY <1>2, <2>2
  <2>4. \A p \in Packet : InQueue(p) => (p = queue[1] \/ \E i \in 1..Len(Tail(queue)) : Tail(queue)[i] = p)
    <3> SUFFICES ASSUME NEW p \in Packet, NEW k \in 1..Len(queue), queue[k] = p, k # 1
                 PROVE  \E i \in 1..Len(Tail(queue)) : Tail(queue)[i] = p
      BY <2>2
    <3>1. k - 1 \in 1..Len(Tail(queue)) /\ Tail(queue)[k - 1] = p
      BY <2>2
    <3>2. QED
      BY <3>1
  <2>5. queue[1] \in Packet /\ refs[queue[1]] = 1 /\ ~Fresh(queue[1])
    BY <2>2
  <2>6. \A i \in 1..Len(Tail(queue)) : InQueue(Tail(queue)[i]) /\ Tail(queue)[i] # queue[1]
    BY <2>2
  <2>7. \A i, j \in 1..Len(Tail(queue)) : Tail(queue)[i] = Tail(queue)[j] => i = j
    BY <2>2
  <2> HIDE DEF EInv, TypeOK, Distinct, RefsExact, InQueue, Current, QueueAfter
  <2>8. \A p \in Packet : pending # p
    BY <1>2, EgressConstants
  <2>9. QED
    BY <2>2, <2>3, <2>4, <2>5, <2>6, <2>7, <2>8
<1>3. QED
  BY <1>1, <1>2

\* Steps that leave packets alone.
LEMMA PacketsKept ==
  ASSUME EInv, UNCHANGED <<queue, pending, refs, accepted>>
  PROVE  Distinct' /\ RefsExact'
BY DEF EInv, Distinct, RefsExact, Fresh

\* Every step preserves the invariant.
LEMMA EgressStep ==
  ASSUME EInv, [Next]_vars
  PROVE  EInv'
<1>1. ASSUME NEW p \in Packet, StackWrites(p) PROVE EInv'
  <2>1. /\ queue' \in Seq(Packet) /\ Len(queue') = Len(queue) + 1 /\ queue'[Len(queue) + 1] = p
        /\ \A i \in 1..Len(queue) : queue'[i] = queue[i]
        /\ accepted' \in Seq(Packet) /\ Len(accepted') = Len(accepted) + 1 /\ accepted'[Len(accepted) + 1] = p
        /\ \A i \in 1..Len(accepted) : accepted'[i] = accepted[i]
        /\ Len(queue) \in Nat /\ Len(accepted) \in Nat
    BY <1>1, AppendProperties, LenProperties DEF EInv, TypeOK, StackWrites
  <2>2. TypeOK'
    BY <1>1, <2>1, EgressConstants DEF EInv, TypeOK, StackWrites
  <2>3. \A q : Fresh(q)' <=> (Fresh(q) /\ q # p)
    BY <2>1 DEF Fresh
  <2>4. \A q : InQueue(q)' <=> (InQueue(q) \/ q = p)
    BY <2>1 DEF InQueue
  <2>5. ~InQueue(p) /\ pending # p
    BY <1>1, EgressConstants DEF EInv, Distinct, StackWrites, InQueue
  <2>6. Distinct'
    BY <1>1, <2>1, <2>3, <2>5 DEF EInv, Distinct, StackWrites, InQueue
  <2>7. RefsExact'
    BY <1>1, <2>4, <2>5 DEF EInv, TypeOK, RefsExact, StackWrites, InQueue
  <2>8. CloseDone'
    BY <1>1 DEF EInv, CloseDone, StackWrites
  <2>9. QED
    BY <2>2, <2>6, <2>7, <2>8 DEF EInv
<1>2. ASSUME NEW t \in Reader, ReadCall(t) \/ ReadNothing(t) PROVE EInv'
  BY <1>2, PacketsKept DEF EInv, TypeOK, CloseDone, ReaderPC, ReadCall, ReadNothing, ReadReturns
<1>3. ASSUME NEW t \in Reader, NEW c, ReadTooLarge(t, c) \/ ReadFits(t, c) PROVE EInv'
  <2>1. /\ queue' = QueueAfter /\ cpc = "open" /\ UNCHANGED <<cpc, accepted>>
        /\ pending # nil \/ queue # <<>>
    BY <1>3 DEF ReadTooLarge, ReadFits, Readable
  <2>2. rpc' \in [Reader -> ReaderPC]
    BY <1>3 DEF ReadTooLarge, ReadFits, ReadReturns, ReaderPC, EInv, TypeOK
  <2>3. \/ pending' = Current /\ refs' = refs /\ delivered' = delivered
        \/ pending' = nil /\ refs' = [refs EXCEPT ![Current] = @ - 1] /\ delivered' = Append(delivered, Current)
    BY <1>3 DEF ReadTooLarge, ReadFits
  <2>4. /\ Current \in Packet /\ refs[Current] = 1
        /\ queue' \in Seq(Packet) /\ Len(queue') <= Len(queue)
        /\ \A i \in 1..Len(queue') : InQueue(queue'[i]) /\ queue'[i] # Current
        /\ \A i, j \in 1..Len(queue') : queue'[i] = queue'[j] => i = j
        /\ \A p \in Packet : (pending = p \/ InQueue(p)) => (p = Current \/ InQueue(p)')
        /\ ~Fresh(Current)
    BY <2>1, CurrentPacket DEF InQueue
  <2>5. TypeOK'
    <3>1. delivered' \in Seq(Packet)
      <4>1. delivered \in Seq(Packet) /\ Append(delivered, Current) \in Seq(Packet)
        BY <2>4, AppendProperties DEF EInv, TypeOK
      <4>2. QED
        BY <2>3, <4>1
    <3>2. refs' \in [Packet -> {0, 1}] /\ pending' \in Packet \cup {nil}
      BY <2>3, <2>4 DEF EInv, TypeOK
    <3>3. Len(queue') <= Depth
      BY <2>4, LenProperties, EgressConstants DEF EInv, TypeOK
    <3>4. QED
      BY <2>1, <2>2, <2>4, <3>1, <3>2, <3>3 DEF EInv, TypeOK
  <2>6. Distinct'
    BY <2>1, <2>3, <2>4, EgressConstants, ElementOfSeq DEF EInv, Distinct, Fresh, InQueue
  <2>7. \A p \in Packet : InQueue(p)' => InQueue(p) /\ p # Current
    BY <2>4 DEF InQueue
  <2>8. RefsExact'
    <3>1. \A p \in Packet : refs[p] = 1 <=> (pending = p \/ InQueue(p))
      BY DEF EInv, RefsExact, InQueue
    <3>2. \A p \in Packet : refs'[p] = 1 <=> (pending' = p \/ InQueue(p)')
      <4>1. CASE pending' = Current /\ refs' = refs
        BY <2>4, <2>7, <3>1, <4>1
      <4>2. CASE pending' = nil /\ refs' = [refs EXCEPT ![Current] = @ - 1]
        BY <2>4, <2>7, <3>1, <4>2, EgressConstants DEF EInv, TypeOK
      <4>3. QED
        BY <2>3, <4>1, <4>2
    <3>3. QED
      BY <3>2 DEF RefsExact, InQueue
  <2>9. CloseDone'
    BY <2>1 DEF EInv, CloseDone
  <2>10. QED
    BY <2>5, <2>6, <2>8, <2>9 DEF EInv
<1>4. CASE CloseMark \/ CloseStack
  BY <1>4, PacketsKept DEF EInv, TypeOK, CloseDone, CloserPC, CloseMark, CloseStack
<1>5. CASE CloseDropsPending
  <2>1. TypeOK' /\ CloseDone'
    BY <1>5, EgressConstants DEF EInv, TypeOK, RefsExact, CloseDone, CloserPC, CloseDropsPending
  <2>2. \A i \in 1..Len(queue) : queue[i] \in Packet
    BY ElementOfSeq DEF EInv, TypeOK
  <2>3. Distinct'
    BY <1>5, <2>2, EgressConstants DEF EInv, Distinct, Fresh, CloseDropsPending
  <2>4. RefsExact'
    BY <1>5, <2>2, EgressConstants DEF EInv, TypeOK, Distinct, RefsExact, CloseDropsPending
  <2>5. QED
    BY <2>1, <2>3, <2>4 DEF EInv
<1>6. CASE CloseLink
  <2>1. ASSUME NEW p \in Packet PROVE refs'[p] = 0
    <3>1. refs[p] \in {0, 1} /\ pending # p /\ (refs[p] = 1 <=> InQueue(p))
      BY <1>6, EgressConstants DEF EInv, TypeOK, RefsExact, CloseDone, CloseLink, InQueue
    <3>2. refs'[p] = IF InQueue(p) THEN refs[p] - 1 ELSE refs[p]
      BY <1>6 DEF CloseLink, InQueue
    <3>3. QED
      BY <3>1, <3>2
  <2>2. queue' = <<>> /\ Len(queue') = 0 /\ queue' \in Seq(Packet) /\ pending' = nil
    BY <1>6, EmptySeq DEF EInv, CloseDone, CloseLink
  <2>3. QED
    BY <1>6, <2>1, <2>2, EgressConstants DEF EInv, TypeOK, Distinct, RefsExact, CloseDone, Fresh, CloserPC, CloseLink
<1>7. CASE UNCHANGED vars
  BY <1>7, PacketsKept DEF vars, EInv, TypeOK, CloseDone
<1>8. QED
  BY <1>1, <1>2, <1>3, <1>4, <1>5, <1>6, <1>7 DEF Next

\* The order of packets: what was accepted is what the host got, then the
\* pending packet, then the queue.
LEMMA OrderStep ==
  ASSUME EInv, ExactlyOnceInOrder, [Next]_vars
  PROVE  ExactlyOnceInOrder'
<1> SUFFICES ASSUME cpc' \in {"open", "marked"}
             PROVE  accepted' = delivered' \o Pending' \o queue'
  BY DEF ExactlyOnceInOrder
<1> DEFINE d == delivered \o Pending
<1>1. /\ queue \in Seq(Packet) /\ delivered \in Seq(Packet) /\ Pending \in Seq(Packet)
      /\ d \in Seq(Packet)
  BY ConcatProperties DEF EInv, TypeOK, Pending
<1>2. cpc \in {"open", "marked"} /\ accepted = d \o queue
  BY DEF ExactlyOnceInOrder, EInv, TypeOK, CloserPC, Next, vars, StackWrites, ReadCall, ReadNothing,
         ReadTooLarge, ReadFits, CloseMark, CloseDropsPending, CloseStack, CloseLink
<1> HIDE DEF d
<1>3. ASSUME NEW p \in Packet, StackWrites(p) PROVE accepted' = delivered' \o Pending' \o queue'
  <2>1. Append(d \o queue, p) = d \o Append(queue, p)
    BY <1>1, ConcatAppend
  <2>2. accepted' = Append(accepted, p) /\ queue' = Append(queue, p)
    BY <1>3 DEF StackWrites
  <2>3. delivered' \o Pending' = d
    BY <1>3 DEF StackWrites, Pending, d
  <2>4. QED
    BY <1>2, <2>1, <2>2, <2>3
<1>4. ASSUME NEW t \in Reader, NEW c, ReadTooLarge(t, c) \/ ReadFits(t, c)
      PROVE  accepted' = delivered' \o Pending' \o queue'
  <2>1. CASE pending # nil
    <3>1. QueueAfter = queue /\ Current = pending /\ Pending = <<pending>> /\ pending \in Packet
      BY <2>1 DEF QueueAfter, Current, Pending, EInv, TypeOK
    <3>2. Append(delivered, pending) = delivered \o <<pending>>
      BY <1>1, <3>1, AppendIsConcat
    <3>3. Append(delivered, pending) \o <<>> = Append(delivered, pending)
      BY <1>1, <3>1, AppendProperties, ConcatEmptySeq
    <3>4. QED
      BY <1>2, <1>4, <2>1, <3>1, <3>2, <3>3 DEF ReadTooLarge, ReadFits, Pending, d
  <2>2. CASE pending = nil
    <3>1. QueueAfter = Tail(queue) /\ Current = Head(queue) /\ Pending = <<>> /\ queue # <<>>
      BY <1>4, <2>2 DEF QueueAfter, Current, Pending, ReadTooLarge, ReadFits, Readable
    <3>2. d = delivered /\ Head(queue) \in Packet
      BY <1>1, <3>1, ConcatEmptySeq, HeadTailProperties DEF d
    <3>3. delivered \o queue = Append(delivered, Head(queue)) \o Tail(queue)
      BY <1>1, <3>1, HeadThenTail
    <3>4. /\ Append(delivered, Head(queue)) = delivered \o <<Head(queue)>>
          /\ Append(delivered, Head(queue)) \o <<>> = Append(delivered, Head(queue))
      <4>1. Append(delivered, Head(queue)) = delivered \o <<Head(queue)>>
        BY <1>1, <3>2, AppendIsConcat
      <4>2. Append(delivered, Head(queue)) \in Seq(Packet)
        BY <1>1, <3>2, AppendProperties
      <4>3. QED
        BY <4>1, <4>2, ConcatEmptySeq
    <3>5. Head(queue) # nil
      BY <3>2, EgressConstants
    <3>6. QED
      BY <1>2, <1>4, <3>1, <3>2, <3>3, <3>4, <3>5 DEF ReadTooLarge, ReadFits, Pending
  <2>3. QED
    BY <2>1, <2>2
<1>5. ASSUME UNCHANGED <<accepted, delivered, pending, queue>> 
      PROVE  accepted' = delivered' \o Pending' \o queue'
  BY <1>2, <1>5 DEF Pending, d
<1>6. QED
  BY <1>3, <1>4, <1>5 DEF Next, vars, ReadCall, ReadNothing, CloseMark, CloseDropsPending, CloseStack, CloseLink

-----------------------------------------------------------------------------
(* The theorems *)

\* Init establishes the invariant and every step preserves it.
LEMMA Invariant == Spec => [](EInv /\ ExactlyOnceInOrder)
<1>1. Init => EInv /\ ExactlyOnceInOrder
  <2> SUFFICES ASSUME Init PROVE EInv /\ ExactlyOnceInOrder
    OBVIOUS
  <2>1. <<>> \in Seq(Packet) /\ Len(<<>>) = 0 /\ <<>> \o <<>> = <<>>
    BY EmptySeq, ConcatEmptySeq
  <2>2. QED
    BY <2>1, EgressConstants DEF Init, EInv, TypeOK, Distinct, RefsExact, CloseDone, ExactlyOnceInOrder, Pending,
       CloserPC, ReaderPC
<1>2. EInv /\ ExactlyOnceInOrder /\ [Next]_vars => (EInv /\ ExactlyOnceInOrder)'
  BY EgressStep, OrderStep
<1>3. QED
  BY <1>1, <1>2, PTL DEF Spec

\* Type correctness; the queue never exceeds netstackPacketQueueDepth.
THEOREM TypeCorrect == Spec => []TypeOK
BY Invariant, PTL DEF EInv

\* Until close, reads lose, repeat and reorder nothing.
THEOREM ReadsAreInOrder == Spec => []ExactlyOnceInOrder
BY Invariant, PTL

\* Every packet is released exactly once, and close leaves none behind.
THEOREM ReleasedOnce == Spec => []EachReleasedOnce
<1>1. EInv => EachReleasedOnce
  <2> SUFFICES ASSUME EInv PROVE ClosedIsEmpty
    BY DEF EInv, EachReleasedOnce
  <2>1. QED
    BY EmptySeq, EgressConstants DEF EInv, TypeOK, RefsExact, CloseDone, ClosedIsEmpty
<1>2. QED
  BY <1>1, Invariant, PTL
=============================================================================
