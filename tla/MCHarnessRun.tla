---------------------------- MODULE MCHarnessRun ----------------------------
(* Instances of HarnessRun: a suite of two cases that share an oracle, and   *)
(* suites that cannot be run.                                                *)
EXTENDS HarnessRun, TLC

Record(kind, oracles, others, evidence, rules) ==
    [kind |-> kind, oracleRefs |-> oracles, resourceRefs |-> others,
     evidence |-> evidence, rules |-> rules]
Oracle(rules) == Record("oracle", <<>>, <<>>, FALSE, rules)
Wanted == [NoRules EXCEPT !.needs = {"done"}, !.bans = {"oops"}, !.json = {"ok"}]
Strict == [NoRules EXCEPT !.exit = 1, !.errNeeds = {"done"}, !.errBans = {"oops"}]

Store(resources, first, oracle) ==
    ("s" :> Record("suite", <<>>, resources, FALSE, NoRules)) @@ ("o" :> oracle)
    @@ ("f" :> Record("fixture", <<>>, <<>>, FALSE, NoRules))
    @@ ("c1" :> first) @@ ("c2" :> Record("case", <<"o">>, <<"f">>, TRUE, Strict))
Case1 == Record("case", <<"o">>, <<>>, TRUE, NoRules)
MCInitial == {Store(<<"c1", "c2", "f">>, Case1, Oracle(Wanted)),
              Store(<<"c1", "c1">>, Case1, Oracle(Wanted)),
              Store(<<"f">>, Case1, Oracle(Wanted)),
              Store(<<"c1", "gone">>, Case1, Oracle(Wanted)),
              Store(<<"c1">>, Record("case", <<"o">>, <<"gone">>, TRUE, NoRules), Oracle(Wanted))}
MCRecaptures == {[id |-> "o", record |-> Oracle(NoRules)], [id |-> "o", record |-> Oracle(Strict)],
                 [id |-> "c1", record |-> Record("case", <<>>, <<>>, TRUE, NoRules)]}

Input(cases, dryRun) ==
    [suite |-> "s", kind |-> "command", argv |-> <<"node">>, cwd |-> "inside",
     timeoutMs |-> NoValue, concurrency |-> NoValue, cases |-> cases, dryRun |-> dryRun]
MCInputs == {Input({}, FALSE), Input({"c2"}, FALSE), Input({"c2", "o"}, FALSE), Input({}, TRUE),
             [Input({}, FALSE) EXCEPT !.concurrency = 2]}
MCOutputs == {[out |-> {"done"}, err |-> {"done"}, json |-> {"ok"}, risk |-> "allow"],
              [out |-> {"done"}, err |-> {"oops"}, json |-> NoValue, risk |-> "block"]}
=============================================================================
