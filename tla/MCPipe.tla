------------------------------- MODULE MCPipe -------------------------------
(* A buffer of two bytes, and calls of up to three: a call may need to     *)
(* fill or drain the buffer twice and to wrap around inside a burst.       *)
EXTENDS Pipe
=============================================================================
