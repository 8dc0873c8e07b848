------------------------------ MODULE MCReaders ------------------------------
(***************************************************************************)
(* Three paths: a plan that is edited or moved, an ADR that is deleted or  *)
(* becomes a glossary, and a file no document type fits. One session with  *)
(* two artifacts, a harness suite that relies on one of them, and a        *)
(* failure of the suite.                                                   *)
(***************************************************************************)
EXTENDS Explorer

Doc(type, title, rev) == [type |-> type, title |-> title, rev |-> rev]
MCFirstTree == (1 :> Doc("plan", 1, 1)) @@ (2 :> Doc("adr", 2, 1))
MCTrees == {MCFirstTree,
            (1 :> Doc("plan", 1, 2)) @@ (2 :> Doc("adr", 2, 1)),
            (3 :> Doc("plan", 1, 1)),
            (1 :> Doc("unknown", 1, 1)) @@ (2 :> Doc("glossary", 2, 1))}

Record(scope, kind, session, paths, refs, suite, title) ==
    [scope |-> scope, kind |-> kind, goal |-> "g", session |-> session, paths |-> paths,
     refs |-> refs, suite |-> suite, title |-> title]
MCBatches ==
    << [event |-> "session.materialize", session |-> 1, goal |-> "g", paths |-> {1},
        records |-> (1 :> Record("session", "feedback", 1, {1}, {}, Null, 3))
                    @@ (2 :> Record("session", "insight", 1, {}, {}, Null, 4))],
       [event |-> "harness.capture", session |-> Null, goal |-> "g", paths |-> {2},
        records |-> (3 :> Record("harness", "suite", Null, {2}, {1}, Null, 5))],
       [event |-> "harness.run", session |-> Null, goal |-> "g", paths |-> {},
        records |-> (4 :> Record("harness", "failure", Null, {}, {}, 3, 6))] >>

MCSessions ==
    {[id |-> 1, goal |-> "g", constraints |-> <<"c">>, nextActions |-> <<"n">>,
      decisions |-> <<"d">>,
      openLoops |-> <<[id |-> 1, status |-> "open"], [id |-> 2, status |-> "closed"]>>],
     [id |-> 2, goal |-> "h", constraints |-> <<>>, nextActions |-> <<"n">>,
      decisions |-> <<>>, openLoops |-> <<>>]}

MCIngestPaths == {{1}}
MCPathsRef == [paths \in SUBSET (1..3) |-> FoldSet(LAMBDA p, n : n + 2 ^ p, 0, paths)]
MCShaRank == <<3, 1, 2>>
MCRepairOptions == {NoOptions, [NoOptions EXCEPT !.scope = "durable", !.path = {1}, !.maxCount = 1],
                    [NoOptions EXCEPT !.scope = "harness"]}
Hit(origin, id, citation, tokens) ==
    [family |-> <<origin, id>>, citation |-> citation, tokens |-> tokens]
MCPackHits == {Hit("document", 1, 1, 1), Hit("document", 1, 2, 3), Hit("document", 2, 1, 2),
               Hit("document", 2, 2, 4), Hit("artifact", 1, 1, 3)}
MCBudgets == {2, 5, 6}
MCTopKs == {1, 3}
MCMaxima == [now |-> 3, hits |-> 2, decisions |-> 2, profileNow |-> 4, trust |-> 3,
             profileTrust |-> 4, steps |-> 3, profileSteps |-> 4]
MCQueries == {"thread", "stale"}
MCScopes == {"all", "recover", "trust", "formation"}
=============================================================================
