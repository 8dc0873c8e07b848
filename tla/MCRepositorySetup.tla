-------------------------- MODULE MCRepositorySetup --------------------------
(***************************************************************************)
(* The five drafts of init, AGENTS.md, a README, contribution rules and    *)
(* two paths of plans, under which a pbd or a spec may lie; an empty       *)
(* repository, one with code and documents, one that lacks only its        *)
(* architecture, and a workspace.                                          *)
(***************************************************************************)
EXTENDS RepositorySetup

MCPaths == {Priorities[i] : i \in 1..5}
               \cup {"AGENTS.md", "README.md", "CONTRIBUTING.md",
                     "docs/plan/a.md", "docs/plan/a-2.md"}
MCPathType == [p \in MCPaths |-> IF p = "docs/adr/README.md" THEN "adr"
                                 ELSE IF p \in {"docs/plan/a.md", "docs/plan/a-2.md"} THEN "plan"
                                 ELSE Unknown]
MCPathRoles == [p \in MCPaths |-> CASE p = "README.md" -> {"project", "product"}
                                    [] p = "docs/workspace-map.md" -> {"workspace"}
                                    [] p = "docs/ragit/ingestion-policy.md" -> {"ingestion-policy"}
                                    [] p = "CONTRIBUTING.md" -> {"rules"}
                                    [] OTHER -> {}]
MCSlugs == [plan |-> <<"docs/plan/a.md", "docs/plan/a-2.md">>]

Text(type, heading, h1, sections) ==
    [type |-> type, heading |-> heading, h1 |-> h1, sections |-> sections,
     topology |-> FALSE, list |-> FALSE, quotes |-> 0, by |-> "user"]
Plain == Text(Unknown, Unknown, TRUE, {})
HalfPlan == [Text(Unknown, Unknown, FALSE, {"Milestones"}) EXCEPT !.list = TRUE]
Pbd == [Text("pbd", "pbd", TRUE, {"Binding Map"}) EXCEPT !.quotes = 1]
BareSpec == Text("spec", Unknown, FALSE, {})
MCDrafts == [p \in MCPaths |-> CASE p = "docs/plan/a.md" -> {HalfPlan, Pbd, BareSpec}
                                 [] p \in {"README.md", "RAGIT.md"} -> {Plain}
                                 [] OTHER -> {}]
MCCreateInputs == {[type |-> "plan", base |-> Text("plan", "plan", TRUE, Contracts.plan), path |-> ""],
                   [type |-> "pbd", base |-> Pbd, path |-> "docs/plan/a.md"]}
MCRefreshInputs ==
    {[types |-> KnownTypes,
      files |-> <<"RAGIT.md", "docs/adr/README.md", "docs/plan/a.md", "docs/plan/a-2.md">>],
     [types |-> {"pbd"}, files |-> <<"docs/plan/a.md">>]}

MCRepositories ==
    {[git |-> FALSE, code |-> 0, builds |-> {}, packages |-> FALSE, docs |-> <<>>],
     [git |-> TRUE, code |-> 3, builds |-> {"package.json"}, packages |-> FALSE,
      docs |-> ("README.md" :> Plain) @@ ("RAGIT.md" :> Plain) @@ ("docs/plan/a.md" :> HalfPlan)],
     [git |-> TRUE, code |-> 3, builds |-> {"package.json"}, packages |-> FALSE,
      docs |-> [p \in MCPaths \ {"AGENTS.md", "docs/known-gaps.md", "docs/plan/a-2.md"} |->
                   IF p = "docs/plan/a.md" THEN HalfPlan ELSE Plain]],
     [git |-> TRUE, code |-> 3, builds |-> {"turbo.json"}, packages |-> TRUE,
      docs |-> ("README.md" :> Plain)]}
Options(mode, strategy, merge, interactive, gitInit) ==
    [mode |-> mode, strategy |-> strategy, mergeExisting |-> merge,
     interactive |-> interactive, gitInit |-> gitInit]
MCInitOptions == {Options("auto", "balanced", TRUE, TRUE, FALSE),
                  Options("auto", "minimal", FALSE, FALSE, TRUE)}
MCSettings == {<<"provider", "openai">>, <<"model", "other">>, <<"dims", 0>>,
               <<"admission", "report-only">>}
MCHandSettings == {[provider |-> "elsewhere", model |-> "", dims |-> NoLine, admission |-> ""],
                   [provider |-> "ollama", model |-> "", dims |-> NoLine, admission |-> ""]}
=============================================================================
