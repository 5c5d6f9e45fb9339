-------------------------------- MODULE Pipe --------------------------------
(***************************************************************************)
(* transport/pipe: the in-memory pipe between the two halves of a proxied  *)
(* connection, with several writers, one reader, and Close and Interrupt   *)
(* from anywhere.                                                          *)
(*                                                                         *)
(* readMultiBufferInternal, writeMultiBufferInternal, Close and Interrupt  *)
(* hold the pipe's mutex, so each is one step.  The signals are sent after *)
(* the mutex is released: a step of its own.  signal.Notifier is a channel *)
(* of capacity one, here a Boolean.  done is closed exactly when state     *)
(* leaves "open", under the same mutex.                                    *)
(***************************************************************************)
EXTENDS Integers, Sequences, Functions

CONSTANTS Writer,   \* goroutines that write
          Chunk,    \* bound: what is ever written, one per WriteMultiBuffer
          Options,  \* pipeOption: limit (in chunks; negative: none), discardOverflow
          nil

ASSUME PipeConstants ==
  /\ nil \notin Chunk
  /\ Options \subseteq [limit : Int, discardOverflow : BOOLEAN]

VARIABLES
  option,       \* fixed when the pipe is made
  state,        \* "open", "closed" or "errord"
  data,         \* p.data
  readSignal,   \* a value waits in readSignal
  writeSignal,  \* a value waits in writeSignal
  errChan,      \* a value waits in errChan
  rpc,          \* the reader
  timed,        \* the reader is in ReadMultiBufferTimeout
  wpc,          \* the writers
  mb,           \* argument of each writer's call
  used,         \* chunks handed to some call
  accepted,     \* history: chunks merged into data, in order
  taken,        \* history: chunks returned to the reader, in order
  released      \* history: chunks the pipe gave back to the pool

vars == <<option, state, data, readSignal, writeSignal, errChan, rpc, timed, wpc,
          mb, used, accepted, taken, released>>

history == <<accepted, taken, released>>

ReaderPC == {"idle", "read", "wait", "signal", "failed", "ended"}
WriterPC == {"idle", "write", "wait", "signal"}

Init ==
  /\ option \in Options
  /\ state = "open" /\ data = <<>>
  /\ readSignal = FALSE /\ writeSignal = FALSE /\ errChan = FALSE
  /\ rpc = "idle" /\ timed = FALSE
  /\ wpc = [w \in Writer |-> "idle"]
  /\ mb = [w \in Writer |-> nil]
  /\ used = {}
  /\ accepted = <<>> /\ taken = <<>> /\ released = {}

done == state # "open"

\* Fault: the limit is read as the first size that is full.
isFullEarly(size) == option.limit >= 0 /\ size >= option.limit

\* Fault: the limit may be exceeded once more.
isFullLate(size) == option.limit >= 0 /\ size > option.limit + 1

isFull(size) == option.limit >= 0 /\ size > option.limit

-----------------------------------------------------------------------------
(* ReadMultiBuffer and ReadMultiBufferTimeout *)

ReadCall(t) ==
  /\ rpc = "idle"
  /\ rpc' = "read" /\ timed' = t
  /\ UNCHANGED <<option, state, data, readSignal, writeSignal, errChan, wpc, mb, used, history>>

\* The content of an open or closed pipe goes to the reader, all of it.
ReadData ==
  /\ rpc = "read"
  /\ state \in {"open", "closed"} /\ data # <<>>
  /\ taken' = taken \o data
  /\ data' = <<>>
  /\ rpc' = "signal"
  /\ UNCHANGED <<option, state, readSignal, writeSignal, errChan, timed, wpc, mb, used, accepted, released>>

\* io.EOF or io.ErrClosedPipe: the consumer stops reading.
ReadFails ==
  /\ rpc = "read"
  /\ \/ state = "closed" /\ data = <<>>
     \/ state = "errord"
  /\ rpc' = "failed"
  /\ UNCHANGED <<option, state, data, readSignal, writeSignal, errChan, timed, wpc, mb, used, history>>

ReadEmpty ==
  /\ rpc = "read"
  /\ state = "open" /\ data = <<>>
  /\ rpc' = "wait"
  /\ UNCHANGED <<option, state, data, readSignal, writeSignal, errChan, timed, wpc, mb, used, history>>

\* Fault: a successful read wakes no writer.
ReadReturnsSilently ==
  /\ rpc \in {"signal", "failed"}
  /\ rpc' = IF rpc = "signal" THEN "idle" ELSE "ended"
  /\ UNCHANGED <<option, state, data, readSignal, writeSignal, errChan, timed, wpc, mb, used, history>>

ReadReturns ==
  /\ rpc \in {"signal", "failed"}
  /\ rpc' = IF rpc = "signal" THEN "idle" ELSE "ended"
  /\ writeSignal' = TRUE
  /\ UNCHANGED <<option, state, data, readSignal, errChan, timed, wpc, mb, used, history>>

ReadWoken ==
  /\ rpc = "wait"
  /\ readSignal \/ done
  /\ readSignal' \in (IF done THEN {readSignal, FALSE} ELSE {FALSE})
  /\ rpc' = "read"
  /\ UNCHANGED <<option, state, data, writeSignal, errChan, timed, wpc, mb, used, history>>

\* errChan is selected by ReadMultiBuffer only, the timer by the other.
ReadErr ==
  /\ rpc = "wait" /\ ~timed
  /\ errChan
  /\ errChan' = FALSE
  /\ rpc' = "idle"
  /\ UNCHANGED <<option, state, data, readSignal, writeSignal, timed, wpc, mb, used, history>>

ReadTimeout ==
  /\ rpc = "wait" /\ timed
  /\ rpc' = "idle"
  /\ UNCHANGED <<option, state, data, readSignal, writeSignal, errChan, timed, wpc, mb, used, history>>

-----------------------------------------------------------------------------
(* WriteMultiBuffer *)

WriteCall(w, c) ==
  /\ wpc[w] = "idle" /\ c \notin used
  /\ wpc' = [wpc EXCEPT ![w] = "write"]
  /\ mb' = [mb EXCEPT ![w] = c]
  /\ used' = used \cup {c}
  /\ UNCHANGED <<option, state, data, readSignal, writeSignal, errChan, rpc, timed, history>>

\* The pipe keeps the chunk, with or without errSlowDown.
WriteAccepts(w) ==
  /\ wpc[w] = "write"
  /\ state = "open" /\ ~isFull(Len(data))
  /\ data' = Append(data, mb[w])
  /\ accepted' = Append(accepted, mb[w])
  /\ wpc' = [wpc EXCEPT ![w] = "signal"]
  /\ UNCHANGED <<option, state, readSignal, writeSignal, errChan, rpc, timed, mb, used, taken, released>>

\* io.ErrClosedPipe from getState: the chunk is released.
WriteRefused(w) ==
  /\ wpc[w] = "write" /\ done
  /\ released' = released \cup {mb[w]}
  /\ wpc' = [wpc EXCEPT ![w] = "signal"]
  /\ UNCHANGED <<option, state, data, readSignal, writeSignal, errChan, rpc, timed, mb, used, accepted, taken>>

WriteReturns(w) ==
  /\ wpc' = [wpc EXCEPT ![w] = "idle"]
  /\ mb' = [mb EXCEPT ![w] = nil]
  /\ UNCHANGED <<option, state, data, writeSignal, errChan, rpc, timed, used, accepted, taken>>

\* Fault: only the write that finds the pipe empty wakes the reader.
WriteSignalsFirst(w) ==
  /\ wpc[w] = "signal"
  /\ readSignal' = (readSignal \/ Len(data) = 1)
  /\ WriteReturns(w)
  /\ UNCHANGED released

WriteSignals(w) ==
  /\ wpc[w] = "signal"
  /\ readSignal' = TRUE
  /\ WriteReturns(w)
  /\ UNCHANGED released

WriteDiscards(w) ==
  /\ wpc[w] = "write"
  /\ state = "open" /\ isFull(Len(data)) /\ option.discardOverflow
  /\ released' = released \cup {mb[w]}
  /\ WriteReturns(w)
  /\ UNCHANGED readSignal

WriteFull(w) ==
  /\ wpc[w] = "write"
  /\ state = "open" /\ isFull(Len(data)) /\ ~option.discardOverflow
  /\ wpc' = [wpc EXCEPT ![w] = "wait"]
  /\ UNCHANGED <<option, state, data, readSignal, writeSignal, errChan, rpc, timed, mb, used, history>>

\* The writer returns io.ErrClosedPipe and keeps its chunk.
WriteClosed(w) ==
  /\ wpc[w] = "wait" /\ done
  /\ WriteReturns(w)
  /\ UNCHANGED <<readSignal, released>>

WriteWoken(w) ==
  /\ wpc[w] = "wait" /\ writeSignal
  /\ writeSignal' = FALSE
  /\ wpc' = [wpc EXCEPT ![w] = "write"]
  /\ UNCHANGED <<option, state, data, readSignal, errChan, rpc, timed, mb, used, history>>

-----------------------------------------------------------------------------
(* Close, Interrupt, ReturnAnError and Recover *)

\* Fault: Close drops the content.
CloseDrops ==
  /\ ~done
  /\ state' = "closed"
  /\ data' = <<>>
  /\ UNCHANGED <<option, readSignal, writeSignal, errChan, rpc, timed, wpc, mb, used, history>>

Close ==
  /\ ~done
  /\ state' = "closed"
  /\ UNCHANGED <<option, data, readSignal, writeSignal, errChan, rpc, timed, wpc, mb, used, history>>

\* Fault: an interrupt also empties a pipe that was closed.
InterruptClosed ==
  /\ state # "errord"
  /\ state' = "errord"
  /\ released' = released \cup Range(data)
  /\ data' = <<>>
  /\ UNCHANGED <<option, readSignal, writeSignal, errChan, rpc, timed, wpc, mb, used, accepted, taken>>

\* Fault: the content is released and stays in the pipe.
InterruptKeeps ==
  /\ ~done
  /\ state' = "errord"
  /\ released' = released \cup Range(data)
  /\ UNCHANGED <<option, data, readSignal, writeSignal, errChan, rpc, timed, wpc, mb, used, accepted, taken>>

Interrupt ==
  /\ ~done
  /\ state' = "errord"
  /\ released' = released \cup Range(data)
  /\ data' = <<>>
  /\ UNCHANGED <<option, readSignal, writeSignal, errChan, rpc, timed, wpc, mb, used, accepted, taken>>

ReturnAnError ==
  /\ ~errChan
  /\ errChan' = TRUE
  /\ UNCHANGED <<option, state, data, readSignal, writeSignal, rpc, timed, wpc, mb, used, history>>

Recover ==
  /\ errChan
  /\ errChan' = FALSE
  /\ UNCHANGED <<option, state, data, readSignal, writeSignal, rpc, timed, wpc, mb, used, history>>

-----------------------------------------------------------------------------
ReaderStep == ReadData \/ ReadFails \/ ReadEmpty \/ ReadReturns \/ ReadWoken

WriterStep(w) ==
  \/ WriteAccepts(w) \/ WriteRefused(w) \/ WriteSignals(w) \/ WriteDiscards(w)
  \/ WriteFull(w) \/ WriteClosed(w) \/ WriteWoken(w)

Reading == ReaderStep \/ \E t \in BOOLEAN : ReadCall(t)

Next ==
  \/ Reading \/ ReadErr \/ ReadTimeout
  \/ \E w \in Writer : WriterStep(w) \/ \E c \in Chunk : WriteCall(w, c)
  \/ Close \/ Interrupt \/ ReturnAnError \/ Recover

SafeSpec == Init /\ [][Next]_vars

\* Goroutines run, and the consumer reads until the pipe fails (buf.Copy).
\* Nothing obliges anyone to write, close, interrupt, fail or time out.
Spec == SafeSpec /\ WF_vars(Reading) /\ \A w \in Writer : WF_vars(WriterStep(w))

-----------------------------------------------------------------------------
(* Properties *)

\* Type correctness; with a limit, the pipe holds at most one write more than
\* the limit (isFull is tested before, not after, the merge).
TypeOK ==
  /\ option \in Options
  /\ state \in {"open", "closed", "errord"}
  /\ data \in Seq(Chunk)
  /\ option.limit >= 0 => Len(data) <= option.limit + 1
  /\ readSignal \in BOOLEAN /\ writeSignal \in BOOLEAN /\ errChan \in BOOLEAN
  /\ rpc \in ReaderPC /\ timed \in BOOLEAN
  /\ wpc \in [Writer -> WriterPC]
  /\ mb \in [Writer -> Chunk \cup {nil}]
  /\ used \subseteq Chunk /\ released \subseteq Chunk
  /\ accepted \in Seq(Chunk) /\ taken \in Seq(Chunk)

\* The chunks WriteMultiBuffer accepted are those the reader got followed by
\* those in the pipe, in order, unless Interrupt threw the rest away: Close
\* loses nothing, even if Interrupt follows it.
AcceptedInOrder == state # "errord" => accepted = taken \o data

\* A chunk given back to the buffer pool by a refused or discarded write or by
\* Interrupt is in nobody's hands: not in the pipe, not with the reader.
ReleasedUnreachable == (Range(taken) \cup Range(data)) \cap released = {}

\* No lost wake-up of the reader: if ReadMultiBuffer sleeps while there is
\* content, a signal is there or a writer is about to send it, or done is closed.
ReaderAwake ==
  rpc = "wait" /\ data # <<>> => readSignal \/ done \/ \E w \in Writer : wpc[w] = "signal"

\* No lost wake-up of the writers: if some WriteMultiBuffer sleeps while the
\* pipe is empty, a signal is there, or the reader is about to send it, or
\* another writer is about to fill the pipe, or done is closed.
WriterAwake ==
  (\E w \in Writer : wpc[w] = "wait") /\ data = <<>> =>
    writeSignal \/ rpc = "signal" \/ done \/ \E w \in Writer : wpc[w] = "write"

\* Every WriteMultiBuffer returns, whoever else writes, closes or interrupts.
WritesReturn == \A w \in Writer : (wpc[w] # "idle") ~> (wpc[w] = "idle")

Fifo == INSTANCE PipeFifo

\* The pipe is a FIFO whose content is always taken in the end.
ImplementsFifo == Fifo!Spec
=============================================================================
