------------------------------- MODULE Orders -------------------------------
(* Lists in an order: what the reading commands show is sorted by keys, and *)
(* cut, and without repetitions.                                            *)
EXTENDS Lists, FiniteSets

\* The elements of a list, each where it first occurs.
Distinct(s) ==
    LET firsts[n \in 0..Len(s)] ==
            IF n = 0 THEN <<>>
            ELSE LET before == firsts[n - 1]
                 IN  IF s[n] \in ToSet(before) THEN before ELSE Append(before, s[n])
    IN  firsts[Len(s)]

\* Keys are sequences of numbers, compared place by place.
KeyBefore(k, l) == \E i \in DOMAIN k : k[i] < l[i] /\ \A j \in 1..(i - 1) : k[j] = l[j]

\* The members of a set in the order of their keys.
InOrder(S, key) ==
    LET places == {<<Cardinality({y \in S : KeyBefore(key[y], key[x])}) + 1, x>> : x \in S}
    IN  [i \in 1..Cardinality(S) |-> (CHOOSE p \in places : p[1] = i)[2]]

\* A list in the order of the keys of its places; what has the same key stays as it was.
Sorted(s, key) ==
    LET order == InOrder(DOMAIN s, [i \in DOMAIN s |-> Append(key[i], i)])
    IN  [i \in DOMAIN order |-> s[order[i]]]
=============================================================================
