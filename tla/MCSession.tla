------------------------------ MODULE MCSession ------------------------------
(* A small instance of Session: two sockets, so that one that was closed   *)
(* may linger beside a new one.                                            *)
EXTENDS Session

CONSTANTS w1, w2

MCSocket == {w1, w2}
=============================================================================
