-------------------------------- MODULE Loops --------------------------------
(***************************************************************************)
(* The loops of the lexer and of the parser.  A step takes a record and    *)
(* returns one; its field "more" says whether the loop goes on.            *)
(***************************************************************************)
EXTENDS Integers

\* The record with which a loop ends.  A step which does not end the loop
\* reads at least one of the n characters or tokens which are left.
Loop(step(_), start, n) ==
    LET after[k \in 0..n] ==
            IF k = 0 THEN start
            ELSE LET last == after[k - 1] IN IF last.more THEN step(last) ELSE last
    IN  after[n]
=============================================================================
