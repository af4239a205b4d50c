---------------------------- MODULE MCSpecStream ----------------------------
(* A small instance of SpecStream: the fields of the first pass and two    *)
(* lists of the second; texts and items without braces and with one, and   *)
(* blank items.                                                            *)
EXTENDS SpecStream

CONSTANTS a, b, blank, lbrace, rbrace

MCGround == <<"directive", "task", "context", "known_requirements">>
MCExpand == <<"inferred_requirements", "implementation_strategy">>
MCScalars == {"directive", "task", "context"}
MCItemLists == {<<>>, <<a, b>>, <<rbrace, a>>, <<blank, lbrace>>}
=============================================================================
