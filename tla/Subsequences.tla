---------------------------- MODULE Subsequences ----------------------------
(* The elements of a sequence that belong to a set, in their order: what    *)
(* SelectSeq selects by a test, as a recursive function, so that the proofs *)
(* can expand it.                                                           *)
EXTENDS Integers, Sequences

Only(s, S) ==
    LET upTo[n \in 0..Len(s)] ==
            IF n = 0 THEN <<>>
            ELSE IF s[n] \in S THEN Append(upTo[n - 1], s[n]) ELSE upTo[n - 1]
    IN  upTo[Len(s)]
=============================================================================
