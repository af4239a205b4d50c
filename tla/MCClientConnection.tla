------------------------- MODULE MCClientConnection -------------------------
(* A small instance of ClientConnection: two sockets, so that one that was *)
(* closed may linger beside a new one.                                     *)
EXTENDS ClientConnection

CONSTANTS w1, w2

MCSocket == {w1, w2}
=============================================================================
