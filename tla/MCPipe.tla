------------------------------- MODULE MCPipe -------------------------------
(* Pipe with two options: blocking at limit zero, discarding at limit one. *)
EXTENDS Pipe

MCOptions ==
  {[limit |-> 0, discardOverflow |-> FALSE], [limit |-> 1, discardOverflow |-> TRUE]}
=============================================================================
