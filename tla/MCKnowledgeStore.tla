------------------------- MODULE MCKnowledgeStore --------------------------
(* An instance of KnowledgeStore: two harness artifacts of one title in the *)
(* same folder, a session with a blocked turn, and a wrap that closes a loop.    *)
EXTENDS KnowledgeStore, TLC

MCRisk == [t \in {"g", "tidy", "leak", "keep", "suite of g", "[BLOCKED]"} |->
             IF t = "leak" THEN "block" ELSE IF t = "keep" THEN "quarantine" ELSE "allow"]
MCSuiteTitle == [g \in {"g"} |-> "suite of g"]

CaseA == HarnessId("case", "g", "tidy")
CheckerA == HarnessId("checker", "g", "tidy")
MCReviewed == {CaseA, CheckerA}
Note == SessionId("constraint", "g", "tidy")

Turn(text, marks) == [role |-> "user", text |-> text, marks |-> marks]
Materialize(s) ==
    [kind |-> "materialize", session |-> s, goal |-> "g", at |-> s,
     turns |-> <<Turn("tidy", {"constraint"}), Turn("leak", {"failure"})>>]
Wrap(s) ==
    [kind |-> "wrap", session |-> s, goal |-> "keep", at |-> s,
     loops |-> {[id |-> "l1", status |-> "closed"], [id |-> "l2", status |-> "open"]}]
Update(id, next) == [id |-> id, next |-> next, supersedes |-> {}]

Symmetry == Permutations(Procs)

MCCommands ==
    {Materialize(1), Wrap(1),
     [kind |-> "review", updates |-> <<Update(Note, "reviewed")>>],
     [kind |-> "review", updates |-> <<Update(CheckerA, "retracted")>>],
     [kind |-> "memory.promote", refs |-> <<Note>>, candidates |-> <<[folder |-> "adr", title |-> "keep"]>>],
     [kind |-> "capture", goal |-> "g", resources |-> {[kind |-> "checker", title |-> "tidy"]}],
     [kind |-> "harness.promote", refs |-> <<CheckerA, CaseA>>],
     [kind |-> "refresh"]}
=============================================================================
