------------------------------ MODULE PipeFifo ------------------------------
(***************************************************************************)
(* What a pipe (transport/pipe) promises its two ends: a FIFO that hands   *)
(* over everything it holds at once, keeps its content when it is closed   *)
(* and loses it when it is interrupted.  Signals and waiting are absent:   *)
(* content that stays available is taken.                                  *)
(***************************************************************************)
EXTENDS Sequences

CONSTANT Chunk   \* what one call of WriteMultiBuffer carries

VARIABLES state,  \* "open", "closed" or "errord"
          data,   \* content, oldest first
          taken   \* history: what the reader got

vars == <<state, data, taken>>

Init == state = "open" /\ data = <<>> /\ taken = <<>>

Put(c) == /\ state = "open"
          /\ data' = Append(data, c)
          /\ UNCHANGED <<state, taken>>

Take == /\ data # <<>>
        /\ taken' = taken \o data
        /\ data' = <<>>
        /\ UNCHANGED state

Close == state = "open" /\ state' = "closed" /\ UNCHANGED <<data, taken>>

Interrupt == /\ state = "open"
             /\ state' = "errord"
             /\ data' = <<>>
             /\ UNCHANGED taken

Next == (\E c \in Chunk : Put(c)) \/ Take \/ Close \/ Interrupt

SafeSpec == Init /\ [][Next]_vars
Spec == SafeSpec /\ WF_vars(Take)
=============================================================================
