--------------------------- MODULE MCCommandRuntime ---------------------------
(* A small instance of CommandRuntime: a compilation and two echoes compete  *)
(* for one slot and one place in the queue.                                  *)
EXTENDS CommandRuntime

CONSTANTS k1, e1, e2

MCEcho == {e1, e2}
MCCommand == MCEcho \cup {k1}
=============================================================================
