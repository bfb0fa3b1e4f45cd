------------------------------ MODULE Selecting ------------------------------
(***************************************************************************)
(* The filter of lists, which several of the models need: Array.filter of   *)
(* the relayers that were found, and the query of an indexer.               *)
(***************************************************************************)
EXTENDS Naturals, Sequences

\* The elements of s that are wanted, in their order.  It is SelectSeq, with a set for the
\* test and as a function, so that it can be proved about.
Selected(s, wanted) ==
    LET upto[i \in 0 .. Len(s)] ==
            IF i = 0 THEN <<>>
            ELSE IF s[i] \in wanted THEN Append(upto[i - 1], s[i]) ELSE upto[i - 1]
    IN  upto[Len(s)]
=============================================================================
