------------------------------- MODULE Lists -------------------------------
(* Sequences whose elements are of no particular set, as the lists of the   *)
(* program are, and the part of a list that Array.filter keeps.             *)
EXTENDS Integers, Sequences, SequencesExt

IsList(s) == s \in Seq(ToSet(s))

\* The elements of a list that are in T, in their order.
Kept(s, T) ==
    LET kept[n \in 0..Len(s)] ==
            IF n = 0 THEN <<>>
            ELSE IF s[n] \in T THEN Append(kept[n - 1], s[n]) ELSE kept[n - 1]
    IN  kept[Len(s)]
=============================================================================
