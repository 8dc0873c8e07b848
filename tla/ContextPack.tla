---------------------------- MODULE ContextPack ----------------------------
(***************************************************************************)
(* context pack: which of the hits of a query, best first, fit into a      *)
(* budget of tokens (src/core/context.ts, context-selection.ts).  A hit is *)
(* its citation, which tells the source family it belongs to and the       *)
(* length of its text; hits with the same citation may come twice.         *)
(***************************************************************************)
EXTENDS Integers, SequencesExt, Orders

CONSTANTS PackHits, \* the hits a query may return
          MaxHits,  \* bound: how many it returns, 30 in the code
          Budgets   \* --budget

ASSUME PackAssumption == Budgets \subseteq Nat \ {0} /\ \A h \in PackHits : h.tokens \in Nat

Rankings == UNION {[1..n -> PackHits] : n \in 0..MaxHits}

\* usedTokens.
Used(hits) ==
    LET used[n \in 0..Len(hits)] == IF n = 0 THEN 0 ELSE used[n - 1] + hits[n].tokens
    IN  used[Len(hits)]
Fits(hit, hits, budget) == Used(hits) + hit.tokens <= budget
Families(hits) == {h.family : h \in ToSet(hits)}

\* The candidates, in their order, are added to a pack as long as they fit, but none
\* whose label, its citation or its family, is that of a hit in the pack.
Filled(candidates, pack, label, budget) ==
    LET filled[n \in 0..Len(candidates)] ==
            IF n = 0 THEN pack
            ELSE LET h == candidates[n]
                     taken == filled[n - 1]
                 IN  IF label[h] \notin {label[x] : x \in ToSet(taken)} /\ Fits(h, taken, budget)
                     THEN Append(taken, h) ELSE taken
    IN  filled[Len(candidates)]
Citation == [h \in PackHits |-> h]
Family == [h \in PackHits |-> h.family]

AnyThatFits(candidates, budget) == \* mutant: the first pass takes whatever fits
    Filled(candidates, <<>>, Citation, budget)

\* The best hit that fits of each source family, ...
OnePerFamily(candidates, budget) == Filled(candidates, <<>>, Family, budget)

\* ... then whatever else fits.
FillUp(candidates, taken, budget) == Filled(candidates, taken, Citation, budget)

\* selectContextHits.
Pack(hits, budget) ==
    LET candidates == Distinct(hits)
    IN  FillUp(candidates, OnePerFamily(candidates, budget), budget)

\* What a pack of these hits must be: it keeps the budget, cites nothing twice and
\* leaves nothing out that would still fit; a family is only left out if none of its
\* hits fits beside one hit of each family that is in.
IsDiverse(pack, hits, budget) ==
    LET firsts == SubSeq(pack, 1, Cardinality(Families(pack)))
        leftOut == ToSet(hits) \ ToSet(pack)
    IN  /\ Used(pack) <= budget
        /\ IsInjective(pack) /\ ToSet(pack) \subseteq ToSet(hits)
        /\ \A h \in leftOut : ~Fits(h, pack, budget)
        /\ \A h \in leftOut : h.family \notin Families(pack) => ~Fits(h, firsts, budget)
        /\ Cardinality(Families(firsts)) = Len(firsts)

\* The sets of hits that are not packed well in some order.
IllPacked == {ToSet(hits) : hits \in {ranking \in Rankings : \E budget \in Budgets :
                                        ~IsDiverse(Pack(ranking, budget), ranking, budget)}}
=============================================================================
