----------------------------- MODULE PipeProofs -----------------------------
(***************************************************************************)
(* Proofs for Pipe, for any number of writers and chunks, any limit, with  *)
(* and without discarding.                                                 *)
(***************************************************************************)
EXTENDS Pipe, SequenceTheorems, TLAPS

\* A writer between the call and the moment the pipe takes or refuses its chunk.
Holds(w) == wpc[w] \in {"write", "wait"}

\* Every chunk is in one place: with a writer, in the pipe or with the reader,
\* or released.
OnePlace ==
  /\ \A w \in Writer : Holds(w) =>
       /\ mb[w] \in used
       /\ mb[w] \notin Range(taken) \cup Range(data) \cup released
       /\ \A v \in Writer : Holds(v) /\ mb[v] = mb[w] => v = w
  /\ Range(taken) \cup Range(data) \cup released \subseteq used
  /\ Range(taken) \cap Range(data) = {}

\* A writer waits only on a pipe that blocks.
Blocking == (\E w \in Writer : wpc[w] = "wait") => option.limit >= 0

PInv ==
  /\ TypeOK /\ AcceptedInOrder /\ OnePlace /\ ReleasedUnreachable
  /\ ReaderAwake /\ WriterAwake /\ Blocking
  /\ state = "errord" => data = <<>>

-----------------------------------------------------------------------------
(* Sequences *)

\* The chunks of an extended sequence.
LEMMA RangeAppend ==
  ASSUME NEW s \in Seq(Chunk), NEW c \in Chunk
  PROVE  /\ Append(s, c) \in Seq(Chunk) /\ Append(s, c) # <<>>
         /\ Len(Append(s, c)) = Len(s) + 1
         /\ Range(Append(s, c)) = Range(s) \cup {c}
<1>1. <<c>> \in Seq(Chunk) /\ Append(s, c) = s \o <<c>>
  BY AppendIsConcat
<1>2. Range(<<c>>) = {c}
  BY DEF Range
<1>3. Range(s \o <<c>>) = Range(s) \cup Range(<<c>>)
  BY <1>1, RangeConcatenation
<1>4. QED
  BY <1>1, <1>2, <1>3, AppendProperties

\* Appending to the second of two sequences.
LEMMA ConcatAppend ==
  ASSUME NEW s \in Seq(Chunk), NEW q \in Seq(Chunk), NEW e \in Chunk
  PROVE  Append(s \o q, e) = s \o Append(q, e)
<1>1. <<e>> \in Seq(Chunk) /\ s \o q \in Seq(Chunk)
  BY ConcatProperties
<1>2. Append(s \o q, e) = (s \o q) \o <<e>>
  BY <1>1, AppendIsConcat
<1>3. Append(q, e) = q \o <<e>>
  BY AppendIsConcat
<1>4. (s \o q) \o <<e>> = s \o (q \o <<e>>)
  BY <1>1, ConcatAssociative
<1>5. QED
  BY <1>2, <1>3, <1>4

\* What a read does to the two sequences.
LEMMA ReadConcat ==
  ASSUME NEW s \in Seq(Chunk), NEW q \in Seq(Chunk)
  PROVE  /\ s \o q \in Seq(Chunk)
         /\ Range(s \o q) = Range(s) \cup Range(q)
         /\ (s \o q) \o <<>> = s \o q
BY ConcatProperties, RangeConcatenation, ConcatEmptySeq

\* The empty sequence.
LEMMA EmptyFacts == <<>> \in Seq(Chunk) /\ Len(<<>>) = 0 /\ Range(<<>>) = {}
BY DEF Range

\* A limit is an integer.
LEMMA LimitIsInt == ASSUME option \in Options PROVE option.limit \in Int
BY PipeConstants

-----------------------------------------------------------------------------
(* The invariant *)

\* The initial state satisfies the invariant.
LEMMA PInit == ASSUME Init PROVE PInv
<1>1. <<>> \o <<>> = <<>>
  BY EmptyFacts, ConcatEmptySeq
<1>2. TypeOK
  <2>1. option.limit >= 0 => Len(data) <= option.limit + 1
    BY LimitIsInt, EmptyFacts DEF Init
  <2>2. accepted \in Seq(Chunk) /\ taken \in Seq(Chunk) /\ data \in Seq(Chunk)
    BY EmptyFacts DEF Init
  <2>3. QED
    BY <2>1, <2>2 DEF Init, TypeOK, ReaderPC, WriterPC
<1>3. OnePlace /\ ReleasedUnreachable
  BY EmptyFacts DEF Init, OnePlace, Holds, ReleasedUnreachable
<1>4. AcceptedInOrder
  BY <1>1 DEF Init, AcceptedInOrder
<1>5. ReaderAwake /\ WriterAwake /\ Blocking /\ (state = "errord" => data = <<>>)
  BY DEF Init, ReaderAwake, WriterAwake, Blocking
<1>6. QED
  BY <1>2, <1>3, <1>4, <1>5 DEF PInv

\* Steps of the reader and of errChan that move no chunk.
LEMMA QuietStep ==
  ASSUME PInv,
         \/ \E t \in BOOLEAN : ReadCall(t)
         \/ ReadFails \/ ReadEmpty \/ ReadReturns \/ ReadWoken \/ ReadErr \/ ReadTimeout
         \/ ReturnAnError \/ Recover
  PROVE  PInv'
<1> USE DEF PInv
<1>1. UNCHANGED <<option, state, data, wpc, mb, used, accepted, taken, released>>
  BY DEF ReadCall, ReadFails, ReadEmpty, ReadReturns, ReadWoken, ReadErr, ReadTimeout, ReturnAnError, Recover, history
<1>2. /\ rpc' \in ReaderPC /\ timed' \in BOOLEAN
      /\ readSignal' \in BOOLEAN /\ writeSignal' \in BOOLEAN /\ errChan' \in BOOLEAN
  BY DEF ReadCall, ReadFails, ReadEmpty, ReadReturns, ReadWoken, ReadErr, ReadTimeout, ReturnAnError, Recover, TypeOK, ReaderPC
<1>3. TypeOK'
  BY <1>1, <1>2 DEF TypeOK
<1>4. AcceptedInOrder' /\ OnePlace' /\ ReleasedUnreachable' /\ Blocking' /\ (state = "errord" => data = <<>>)'
  BY <1>1 DEF AcceptedInOrder, OnePlace, Holds, ReleasedUnreachable, Blocking
<1>5. ReaderAwake'
  BY <1>1 DEF ReaderAwake, done, ReadCall, ReadFails, ReadEmpty, ReadReturns, ReadWoken, ReadErr, ReadTimeout, ReturnAnError, Recover
<1>6. WriterAwake'
  BY <1>1 DEF WriterAwake, done, ReadCall, ReadFails, ReadEmpty, ReadReturns, ReadWoken, ReadErr, ReadTimeout, ReturnAnError, Recover
<1>7. QED
  BY <1>3, <1>4, <1>5, <1>6

\* The reader takes the content.
LEMMA ReadDataStep == ASSUME PInv, ReadData PROVE PInv'
<1> USE DEF PInv
<1>1. taken \in Seq(Chunk) /\ data \in Seq(Chunk)
  BY DEF TypeOK
<1>2. /\ taken \o data \in Seq(Chunk) /\ Range(taken \o data) = Range(taken) \cup Range(data)
      /\ (taken \o data) \o <<>> = taken \o data
  BY <1>1, ReadConcat
<1>3. TypeOK'
  BY <1>2, EmptyFacts, LimitIsInt DEF TypeOK, ReadData, ReaderPC
<1>4. AcceptedInOrder' /\ (state = "errord" => data = <<>>)'
  BY <1>2 DEF AcceptedInOrder, ReadData
<1>5. /\ Range(taken') \cup Range(data') = Range(taken) \cup Range(data)
      /\ Range(taken') \cap Range(data') = {}
  BY <1>2, EmptyFacts DEF ReadData
<1>6. UNCHANGED <<wpc, mb, used, released>>
  BY DEF ReadData
<1>7. OnePlace' /\ ReleasedUnreachable'
  BY <1>5, <1>6 DEF OnePlace, Holds, ReleasedUnreachable
<1>8. ReaderAwake' /\ WriterAwake' /\ Blocking'
  BY DEF ReaderAwake, WriterAwake, Blocking, ReadData
<1>9. QED
  BY <1>3, <1>4, <1>7, <1>8

\* A write begins with a chunk nobody else has.
LEMMA WriteCallStep == ASSUME PInv, NEW w \in Writer, NEW c \in Chunk, WriteCall(w, c) PROVE PInv'
<1> USE DEF PInv
<1>1. TypeOK'
  BY DEF TypeOK, WriteCall, WriterPC, history
<1>2. AcceptedInOrder' /\ ReleasedUnreachable' /\ (state = "errord" => data = <<>>)'
  BY DEF WriteCall, AcceptedInOrder, ReleasedUnreachable, history
<1>3. OnePlace'
  BY DEF TypeOK, OnePlace, Holds, WriteCall, history
<1>4. ReaderAwake' /\ WriterAwake' /\ Blocking'
  BY DEF TypeOK, ReaderAwake, WriterAwake, Blocking, done, WriteCall
<1>5. QED
  BY <1>1, <1>2, <1>3, <1>4

\* The pipe takes the chunk of a writer.
LEMMA WriteAcceptsStep == ASSUME PInv, NEW w \in Writer, WriteAccepts(w) PROVE PInv'
<1> USE DEF PInv
<1>1. /\ taken \in Seq(Chunk) /\ data \in Seq(Chunk) /\ accepted \in Seq(Chunk)
      /\ used \subseteq Chunk /\ mb[w] \in used /\ Holds(w)
  BY DEF TypeOK, OnePlace, Holds, WriteAccepts
<1>2. /\ Append(data, mb[w]) \in Seq(Chunk) /\ Append(data, mb[w]) # <<>>
      /\ Len(Append(data, mb[w])) = Len(data) + 1
      /\ Range(Append(data, mb[w])) = Range(data) \cup {mb[w]}
      /\ Append(accepted, mb[w]) \in Seq(Chunk)
  BY <1>1, RangeAppend
<1>3. Append(taken \o data, mb[w]) = taken \o Append(data, mb[w])
  BY <1>1, ConcatAppend
<1>4. Len(data) \in Nat /\ (option.limit >= 0 => Len(data) <= option.limit)
  BY <1>1, LenProperties, LimitIsInt DEF TypeOK, WriteAccepts, isFull
<1>5. TypeOK'
  BY <1>2, <1>4, LimitIsInt DEF TypeOK, WriteAccepts, WriterPC
<1>6. AcceptedInOrder' /\ (state = "errord" => data = <<>>)'
  BY <1>3 DEF AcceptedInOrder, WriteAccepts
<1>7. /\ Range(data') = Range(data) \cup {mb[w]} /\ UNCHANGED <<taken, released, used, mb>>
      /\ \A v \in Writer : Holds(v)' => Holds(v) /\ v # w
  BY <1>2 DEF WriteAccepts, Holds, TypeOK
<1>8. OnePlace' /\ ReleasedUnreachable'
  <2> HIDE DEF PInv
  <2>1. OnePlace /\ ReleasedUnreachable
    BY DEF PInv
  <2>2. ASSUME NEW v \in Writer, Holds(v)'
        PROVE  /\ mb'[v] \in used'
               /\ mb'[v] \notin Range(taken') \cup Range(data') \cup released'
               /\ \A u \in Writer : Holds(u)' /\ mb'[u] = mb'[v] => u = v
    BY <1>1, <1>7, <2>1, <2>2 DEF OnePlace
  <2>3. /\ Range(taken') \cup Range(data') \cup released' \subseteq used'
        /\ Range(taken') \cap Range(data') = {}
    BY <1>1, <1>7, <2>1 DEF OnePlace
  <2>4. OnePlace'
    BY <2>2, <2>3 DEF OnePlace
  <2>5. ReleasedUnreachable'
    BY <1>1, <1>7, <2>1 DEF OnePlace, ReleasedUnreachable
  <2>6. QED
    BY <2>4, <2>5
<1>9. ReaderAwake' /\ WriterAwake' /\ Blocking'
  BY <1>2 DEF TypeOK, ReaderAwake, WriterAwake, Blocking, done, WriteAccepts
<1>10. QED
  BY <1>5, <1>6, <1>8, <1>9

\* A write is refused, or its chunk discarded: the pipe releases the chunk.
LEMMA WriteReleasesStep == ASSUME PInv, NEW w \in Writer, WriteRefused(w) \/ WriteDiscards(w) PROVE PInv'
<1> USE DEF PInv
<1>1. /\ used \subseteq Chunk /\ mb[w] \in used /\ Holds(w)
      /\ mb[w] \notin Range(taken) \cup Range(data)
  BY DEF TypeOK, OnePlace, Holds, WriteRefused, WriteDiscards
<1>2. /\ released' = released \cup {mb[w]}
      /\ UNCHANGED <<option, state, data, readSignal, writeSignal, errChan, rpc, timed, used, accepted, taken>>
  BY DEF WriteRefused, WriteDiscards, WriteReturns
<1>3. /\ wpc' \in [Writer -> WriterPC] /\ mb' \in [Writer -> Chunk \cup {nil}]
      /\ \A v \in Writer : v # w => wpc'[v] = wpc[v] /\ mb'[v] = mb[v]
      /\ wpc'[w] \in {"signal", "idle"}
  BY DEF TypeOK, WriteRefused, WriteDiscards, WriteReturns, WriterPC
<1>4. TypeOK'
  BY <1>1, <1>2, <1>3 DEF TypeOK
<1>5. AcceptedInOrder' /\ (state = "errord" => data = <<>>)'
  BY <1>2 DEF AcceptedInOrder
<1>6. \A v \in Writer : Holds(v)' => Holds(v) /\ v # w /\ mb'[v] = mb[v]
  BY <1>3 DEF Holds
<1>7. OnePlace' /\ ReleasedUnreachable'
  <2> HIDE DEF PInv
  <2>1. OnePlace /\ ReleasedUnreachable
    BY DEF PInv
  <2>2. ASSUME NEW v \in Writer, Holds(v)'
        PROVE  /\ mb'[v] \in used'
               /\ mb'[v] \notin Range(taken') \cup Range(data') \cup released'
               /\ \A u \in Writer : Holds(u)' /\ mb'[u] = mb'[v] => u = v
    BY <1>1, <1>2, <1>6, <2>1, <2>2 DEF OnePlace
  <2>3. /\ Range(taken') \cup Range(data') \cup released' \subseteq used'
        /\ Range(taken') \cap Range(data') = {}
    BY <1>1, <1>2, <2>1 DEF OnePlace
  <2>4. OnePlace'
    BY <2>2, <2>3 DEF OnePlace
  <2>5. ReleasedUnreachable'
    BY <1>1, <1>2, <2>1 DEF ReleasedUnreachable
  <2>6. QED
    BY <2>4, <2>5
<1>8. \A v \in Writer : wpc'[v] = "wait" => wpc[v] = "wait"
  BY <1>3
<1>9. Blocking'
  BY <1>2, <1>8 DEF Blocking
<1>10. ReaderAwake'
  BY <1>2, <1>3 DEF ReaderAwake, done, WriteRefused, WriteDiscards
<1>11. done \/ data # <<>>
  BY EmptyFacts, LimitIsInt DEF TypeOK, WriteRefused, WriteDiscards, isFull
<1>12. WriterAwake'
  BY <1>2, <1>11 DEF WriterAwake, done
<1>13. QED
  BY <1>4, <1>5, <1>7, <1>9, <1>10, <1>12

\* The other steps of a writer move no chunk out of its hands.
LEMMA WriteQuietStep ==
  ASSUME PInv, NEW w \in Writer,
         WriteSignals(w) \/ WriteFull(w) \/ WriteClosed(w) \/ WriteWoken(w)
  PROVE  PInv'
<1> USE DEF PInv
<1>1. UNCHANGED <<option, state, data, errChan, rpc, timed, used, accepted, taken, released>>
  BY DEF WriteSignals, WriteFull, WriteClosed, WriteWoken, WriteReturns, history
<1>2. /\ wpc' \in [Writer -> WriterPC] /\ mb' \in [Writer -> Chunk \cup {nil}]
      /\ readSignal' \in BOOLEAN /\ writeSignal' \in BOOLEAN
      /\ \A v \in Writer : v # w => wpc'[v] = wpc[v] /\ mb'[v] = mb[v]
  BY DEF TypeOK, WriteSignals, WriteFull, WriteClosed, WriteWoken, WriteReturns, WriterPC
<1>3. TypeOK' /\ AcceptedInOrder' /\ ReleasedUnreachable' /\ (state = "errord" => data = <<>>)'
  BY <1>1, <1>2 DEF TypeOK, AcceptedInOrder, ReleasedUnreachable
<1>4. \A v \in Writer : Holds(v)' => Holds(v) /\ mb'[v] = mb[v]
  BY <1>2 DEF Holds, TypeOK, WriteSignals, WriteFull, WriteClosed, WriteWoken, WriteReturns
<1>5. OnePlace'
  BY <1>1, <1>4, Zenon DEF OnePlace
<1>6. Blocking'
  BY <1>2 DEF TypeOK, Blocking, isFull, WriteSignals, WriteFull, WriteClosed, WriteWoken, WriteReturns
<1>7. ReaderAwake'
  BY <1>1, <1>2 DEF TypeOK, ReaderAwake, done, WriteSignals, WriteFull, WriteClosed, WriteWoken, WriteReturns
<1>8. CASE WriteFull(w)
  <2>1. data # <<>>
    BY <1>8, EmptyFacts, LimitIsInt DEF TypeOK, WriteFull, isFull
  <2>2. WriterAwake'
    BY <1>1, <2>1 DEF WriterAwake
  <2>3. QED
    BY <1>3, <1>5, <1>6, <1>7, <2>2
<1>9. CASE WriteSignals(w) \/ WriteClosed(w) \/ WriteWoken(w)
  <2>1. WriterAwake'
    BY <1>1, <1>2, <1>9 DEF TypeOK, WriterAwake, done, WriteSignals, WriteClosed, WriteWoken, WriteReturns
  <2>2. QED
    BY <1>3, <1>5, <1>6, <1>7, <2>1
<1>10. QED
  BY <1>8, <1>9

\* Close and Interrupt.
LEMMA EndStep == ASSUME PInv, Close \/ Interrupt PROVE PInv'
<1> USE DEF PInv
<1>1. UNCHANGED <<option, rpc, timed, wpc, mb, used, readSignal, writeSignal, errChan, accepted, taken>> /\ done'
  BY DEF Close, Interrupt, history, done
<1>2. CASE Close
  <2>1. UNCHANGED <<data, released>> /\ state = "open" /\ state' = "closed"
    BY <1>2 DEF Close, history, done, TypeOK
  <2>2. TypeOK' /\ AcceptedInOrder' /\ (state = "errord" => data = <<>>)'
    BY <1>1, <2>1 DEF TypeOK, AcceptedInOrder
  <2>3. OnePlace' /\ ReleasedUnreachable' /\ Blocking'
    BY <1>1, <2>1 DEF OnePlace, Holds, ReleasedUnreachable, Blocking
  <2>4. QED
    BY <1>1, <2>2, <2>3 DEF ReaderAwake, WriterAwake
<1>3. CASE Interrupt
  <2>1. data' = <<>> /\ released' = released \cup Range(data) /\ state' = "errord"
    BY <1>3 DEF Interrupt
  <2>2. Range(data) \subseteq Chunk
    BY RangeOfSeq DEF TypeOK
  <2>3. option.limit >= 0 => Len(data') <= option.limit + 1
    BY <1>1, <2>1, EmptyFacts, LimitIsInt DEF TypeOK
  <2>4. data' \in Seq(Chunk) /\ released' \subseteq Chunk
    BY <2>1, <2>2, EmptyFacts DEF TypeOK
  <2>5. TypeOK'
    BY <1>1, <2>1, <2>3, <2>4 DEF TypeOK
  <2>6. AcceptedInOrder' /\ (state = "errord" => data = <<>>)'
    BY <2>1 DEF AcceptedInOrder
  <2>7. Range(data') = {}
    BY <2>1, EmptyFacts
  <2>8. OnePlace' /\ ReleasedUnreachable'
    BY <1>1, <2>1, <2>7 DEF OnePlace, Holds, ReleasedUnreachable
  <2>9. QED
    BY <1>1, <2>5, <2>6, <2>8 DEF ReaderAwake, WriterAwake, Blocking
<1>4. QED
  BY <1>2, <1>3

\* Every step preserves the invariant.
LEMMA PStep == ASSUME PInv, [Next]_vars PROVE PInv'
<1>1. CASE UNCHANGED vars
  BY <1>1 DEF vars, PInv, TypeOK, AcceptedInOrder, OnePlace, Holds, ReleasedUnreachable, ReaderAwake, WriterAwake, Blocking, done
<1>2. CASE Next
  <2>1. CASE Reading \/ ReadErr \/ ReadTimeout \/ ReturnAnError \/ Recover
    BY <2>1, QuietStep, ReadDataStep DEF Reading, ReaderStep
  <2>2. ASSUME NEW w \in Writer, WriterStep(w) PROVE PInv'
    BY <2>2, WriteAcceptsStep, WriteReleasesStep, WriteQuietStep DEF WriterStep
  <2>3. QED
    BY <1>2, <2>1, <2>2, WriteCallStep, EndStep DEF Next
<1>3. QED
  BY <1>1, <1>2

-----------------------------------------------------------------------------
(* The theorems *)

\* The invariant holds in every state of every behaviour of the pipe.
LEMMA PAlways == SafeSpec => []PInv
<1> HIDE DEF PInv
<1>1. Init => PInv
  BY PInit
<1>2. PInv /\ [Next]_vars => PInv'
  BY PStep
<1>3. QED
  BY <1>1, <1>2, PTL DEF SafeSpec

\* transport/pipe is type-correct, and a limit is exceeded by one write at most.
THEOREM TypeCorrect == SafeSpec => []TypeOK
<1>1. PInv => TypeOK
  BY DEF PInv
<1>2. QED
  BY <1>1, PAlways, PTL

\* No wake-up is lost: a reader asleep on content and a writer asleep on an
\* empty pipe always have a signal coming, for any number of writers although
\* each Notifier remembers a single signal.
THEOREM NoLostWakeup == SafeSpec => [](ReaderAwake /\ WriterAwake)
<1>1. PInv => ReaderAwake /\ WriterAwake
  BY DEF PInv
<1>2. QED
  BY <1>1, PAlways, PTL

\* A buffer that went back to the pool is neither in the pipe nor with the
\* reader.
THEOREM ReleasedIsGone == SafeSpec => []ReleasedUnreachable
<1>1. PInv => ReleasedUnreachable
  BY DEF PInv
<1>2. QED
  BY <1>1, PAlways, PTL

\* What WriteMultiBuffer accepted is read once and in order unless the pipe is
\* interrupted.
THEOREM InOrder == SafeSpec => []AcceptedInOrder
<1>1. PInv => AcceptedInOrder
  BY DEF PInv
<1>2. QED
  BY <1>1, PAlways, PTL

\* Every step of the pipe is a step of the FIFO or invisible to it; that the
\* content is taken in the end is left to the model checker.
THEOREM RefinesFifo == SafeSpec => Fifo!SafeSpec
<1>1. Init => Fifo!Init
  BY DEF Init, Fifo!Init
<1>2. PInv /\ [Next]_vars => [Fifo!Next]_(Fifo!vars)
  <2> SUFFICES ASSUME PInv, Next PROVE [Fifo!Next]_(Fifo!vars)
    BY DEF vars, Fifo!vars
  <2> USE DEF Fifo!Next, Fifo!vars
  <2>1. CASE Reading \/ ReadErr \/ ReadTimeout \/ ReturnAnError \/ Recover
    <3>1. CASE ReadData
      BY <3>1 DEF ReadData, Fifo!Take
    <3>2. CASE UNCHANGED <<option, state, data, taken>>
      BY <3>2
    <3>3. QED
      BY <2>1, <3>1, <3>2 DEF Reading, ReaderStep, ReadCall, ReadFails, ReadEmpty, ReadReturns, ReadWoken, ReadErr, ReadTimeout, ReturnAnError, Recover, history
  <2>2. ASSUME NEW w \in Writer, WriterStep(w) \/ \E c \in Chunk : WriteCall(w, c)
        PROVE  [Fifo!Next]_(Fifo!vars)
    <3>1. CASE WriteAccepts(w)
      <4>1. mb[w] \in Chunk
        BY <3>1 DEF PInv, TypeOK, OnePlace, Holds, WriteAccepts
      <4>2. Fifo!Put(mb[w])
        BY <3>1 DEF WriteAccepts, Fifo!Put
      <4>3. QED
        BY <4>1, <4>2
    <3>2. CASE UNCHANGED <<option, state, data, taken>>
      BY <3>2
    <3>3. QED
      BY <2>2, <3>1, <3>2 DEF WriterStep, WriteCall, WriteRefused, WriteSignals, WriteDiscards, WriteFull, WriteClosed, WriteWoken, WriteReturns, history
  <2>3. CASE Close \/ Interrupt
    BY <2>3 DEF PInv, TypeOK, Close, Interrupt, done, history, Fifo!Close, Fifo!Interrupt
  <2>4. QED
    BY <2>1, <2>2, <2>3 DEF Next
<1>3. QED
  BY <1>1, <1>2, PAlways, PTL DEF SafeSpec, Fifo!SafeSpec
=============================================================================
