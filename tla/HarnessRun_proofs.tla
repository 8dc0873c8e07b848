------------------------- MODULE HarnessRun_proofs -------------------------
(***************************************************************************)
(* For any artifacts, recaptures, inputs, commands and crashes: a verdict  *)
(* is earned by the case's own child, and the evidence of a run is         *)
(* complete wherever it stopped.                                           *)
(*                                                                         *)
(* Neither is inductive.  A verdict is right because a timer that is still *)
(* set belongs to an earlier case or to a child whose deadline has passed, *)
(* so that a child which was not late has ended by itself, and because the *)
(* artifacts a run has read do not change under it.  The evidence is       *)
(* complete because the results stand in the order of the cases and each   *)
(* file is written when what it speaks of is there.                        *)
(***************************************************************************)
EXTENDS HarnessRun, Lists_proofs

-----------------------------------------------------------------------------
(* The inductive invariant *)

\* What VerdictsAreEarned says of one result, given the artifacts of its run.
Judging(id, loaded) ==
    {id} \cup {s \in ToSet(References(loaded[id])) : loaded[s].kind \in Judges}
Met(id, loaded, exit, output) ==
    /\ \A s \in Judging(id, loaded) : Satisfies(loaded[s].rules, exit, output)
    /\ (\A s \in Judging(id, loaded) : loaded[s].rules.exit = NoValue) => exit = 0
Earned(r, loaded) ==
    /\ r.status = "passed" => r.own /\ Met(r.case, loaded, r.exit, r.output)
    /\ r.status = "failed" => r.own /\ ~ Met(r.case, loaded, r.exit, r.output)

RunFields == {"pc", "input", "suite", "left", "cache", "cases", "results", "id"}
Complete == {"persist", "admission", "admissionEvent", "event"}
Recorded == {"admission", "admissionEvent", "event"}

\* What is a list.
ListType ==
    /\ \A id \in DOMAIN store : IsList(store[id].resourceRefs)
    /\ IsList(records) /\ IsList(ledger)
    /\ ~ At("idle") =>
         /\ DOMAIN run = RunFields
         /\ IsList(run.suite.resourceRefs) /\ IsList(run.cases) /\ IsList(run.results)

\* A child exists only while its case is executed; one that was not late and could
\* be started has ended by itself, for the timers that are set belong to earlier
\* cases or to a child that is late.
ChildIsOwn ==
    /\ child \in [state : {"none", "running", "ended"}, own : BOOLEAN, read : BOOLEAN,
                  held : BOOLEAN, late : BOOLEAN, error : BOOLEAN,
                  exit : {child.exit}, output : {child.output}]
    /\ child.state = "none" => child = NoChild
    /\ child.state # "none" => At("execute") /\ Place <= Len(run.cases)
    /\ child.state = "ended" /\ ~ child.error /\ ~ child.late => child.own
    /\ ~ At("idle") => \A p \in killers : p \in Nat /\ p <= Place /\ (p = Place => child.late)

\* The results so far: one for each case, in their order, each earned.
ResultsInOrder ==
    ~ At("idle") =>
        /\ run.pc \in {"verify", "load"} => run.results = <<>>
        /\ run.pc \in Complete => Len(run.results) = Len(run.cases)
        /\ Len(run.results) <= Len(run.cases)
        /\ \A i \in 1..Len(run.results) :
              run.results[i].case = run.cases[i] /\ Earned(run.results[i], run.cache)

\* A record has its results and its failures, and an event its record.
RecordStands(r, saved) ==
    /\ IsList(r.cases) /\ IsList(r.results) /\ Len(r.results) = Len(r.cases)
    /\ \A i \in 1..Len(r.results) :
          /\ r.results[i].case = r.cases[i] /\ Earned(r.results[i], r.loaded)
          /\ Bad(r.results[i]) => <<r.id, r.results[i].case>> \in saved
RecordsStand ==
    /\ \A j \in 1..Len(records) : RecordStands(records[j], DOMAIN failures)
    /\ run.pc \in Recorded =>
         \E j \in 1..Len(records) :
            records[j].id = run.id /\ records[j].summary = Summary(run.results)
    /\ \A i \in 1..Len(ledger) : \E j \in 1..Len(records) :
          /\ records[j].id = ledger[i].id
          /\ ledger[i].type = "harness.run" => ledger[i].counts = records[j].summary

HarnessInv == ListType /\ ChildIsOwn /\ ResultsInOrder /\ RecordsStand

-----------------------------------------------------------------------------
(* A verdict *)

\* The checks of one source that fail are those its rules ask for.
LEMMA Checks ==
  ASSUME NEW rules, NEW exit, NEW output
  PROVE  Broken(rules, exit, output) = {} <=> Satisfies(rules, exit, output)
<1> DEFINE B == Broken(rules, exit, output)
<1>1. /\ "exitCode" \in B <=> rules.exit \notin {NoValue, exit}
      /\ "mustInclude" \in B <=> ~ (rules.needs \subseteq output.out)
      /\ "mustNotInclude" \in B <=> rules.bans \cap output.out # {}
      /\ "stderrMustInclude" \in B <=> ~ (rules.errNeeds \subseteq output.err)
      /\ "stderrMustNotInclude" \in B <=> rules.errBans \cap output.err # {}
      /\ "jsonSubset" \in B <=> rules.json # {} /\ ~ JsonSubset(output.json, rules.json)
  BY DEF Broken
<1>2. B \subseteq {"exitCode", "mustInclude", "mustNotInclude", "stderrMustInclude",
                   "stderrMustNotInclude", "jsonSubset"}
  BY DEF Broken
<1> HIDE DEF B
<1>3. B = {} <=> Satisfies(rules, exit, output)
  BY <1>1, <1>2 DEF Satisfies, JsonSubset
<1>4. QED
  BY <1>3 DEF B

\* An artifact without rules asks for nothing.
LEMMA NothingAsked ==
  ASSUME NEW exit, NEW output
  PROVE  Satisfies(NoRules, exit, output) /\ NoRules.exit = NoValue
BY DEF Satisfies, NoRules

\* No check of a case fails exactly when what its judges ask for is met.
LEMMA Judgement ==
  ASSUME NEW id, NEW loaded, NEW exit, NEW output
  PROVE  FailedChecks(id, loaded, exit, output) = {} <=> Met(id, loaded, exit, output)
<1> DEFINE sources == RuleSources(id, loaded)
           judges == Judging(id, loaded)
<1>1. sources \subseteq judges /\ \A s \in judges \ sources : loaded[s].rules = NoRules
  BY DEF RuleSources, Support, Judging
<1>2. FailedChecks(id, loaded, exit, output) = {} <=>
         /\ \A s \in sources : Broken(loaded[s].rules, exit, output) = {}
         /\ ~ BreaksDefault(sources, loaded, exit)
  <2> DEFINE failed == FailedChecks(id, loaded, exit, output)
  <2>1. ASSUME NEW s \in RuleSources(id, loaded), Broken(loaded[s].rules, exit, output) # {}
        PROVE  failed # {}
    <3>1. PICK check \in Broken(loaded[s].rules, exit, output) : TRUE
      BY <2>1
    <3>2. <<s, check>> \in failed
      BY <3>1 DEF FailedChecks
    <3>3. QED
      BY <3>2
  <2>2. ASSUME BreaksDefault(RuleSources(id, loaded), loaded, exit) PROVE failed # {}
    <3>1. <<id, "defaultExitCode">> \in failed
      BY <2>2 DEF FailedChecks
    <3>2. QED
      BY <3>1
  <2>3. ASSUME NEW x \in failed
        PROVE  \/ BreaksDefault(RuleSources(id, loaded), loaded, exit)
               \/ \E s \in RuleSources(id, loaded) : Broken(loaded[s].rules, exit, output) # {}
    BY <2>3 DEF FailedChecks
  <2>4. QED
    BY <2>1, <2>2, <2>3
<1> HIDE DEF sources, judges
<1>3. (\A s \in sources : Broken(loaded[s].rules, exit, output) = {}) <=>
      (\A s \in judges : Satisfies(loaded[s].rules, exit, output))
  BY <1>1, Checks, NothingAsked
<1>4. (\A s \in sources : loaded[s].rules.exit = NoValue) <=>
      (\A s \in judges : loaded[s].rules.exit = NoValue)
  BY <1>1, NothingAsked
<1>5. QED
  BY <1>2, <1>3, <1>4 DEF Met, BreaksDefault, judges

\* The verdict on a child that has ended is earned.
LEMMA VerdictStep ==
  ASSUME HarnessInv, child.state = "ended"
  PROVE  Earned(Result, run.cache) /\ Result.case = run.cases[Place]
<1> DEFINE id == run.cases[Place]
           failed == FailedChecks(id, run.cache, child.exit, child.output)
<1>1. /\ Result.case = id /\ Result.status = Verdict(failed) /\ Result.own = child.own
      /\ Result.exit = child.exit /\ Result.output = child.output
  BY DEF Result, Place
<1>2. Verdict(failed) \in {"passed", "failed"} => ~ child.error /\ ~ child.late
  BY DEF Verdict
<1>3. Verdict(failed) \in {"passed", "failed"} => child.own
  BY <1>2 DEF HarnessInv, ChildIsOwn
<1>4. /\ Verdict(failed) = "passed" => failed = {}
      /\ Verdict(failed) = "failed" => failed # {}
  BY DEF Verdict
<1>5. failed = {} <=> Met(id, run.cache, child.exit, child.output)
  BY Judgement
<1> HIDE DEF failed, id
<1>6. Earned(Result, run.cache)
  BY <1>1, <1>3, <1>4, <1>5 DEF Earned
<1>7. QED
  BY <1>1, <1>6 DEF id

-----------------------------------------------------------------------------
(* The steps *)

LEMMA HarnessInit == Init => HarnessInv
<1> SUFFICES ASSUME Init PROVE HarnessInv
  OBVIOUS
<1> USE DEF Init, At, NoRun
<1>1. ListType
  BY ListEmpty, ArtifactAssumption DEF ListType
<1>2. ChildIsOwn
  BY DEF ChildIsOwn, NoChild
<1>3. ResultsInOrder
  BY DEF ResultsInOrder
<1>4. RecordsStand
  BY ListEmpty DEF RecordsStand, Recorded
<1>5. QED
  BY <1>1, <1>2, <1>3, <1>4 DEF HarnessInv

\* What a step does to the run: it starts one, ends it, or moves it on.
Unchanged == run' = run
Ends == run' = NoRun
Moves(pc) ==
    /\ ~ At("idle") /\ DOMAIN run' = RunFields /\ run'.pc = pc
    /\ run'.suite = run.suite /\ run'.cases = run.cases /\ run'.results = run.results
    /\ run'.cache = run.cache /\ run'.id = run.id

LEMMA MoveStep ==
  ASSUME HarnessInv, NEW pc, ~ At("idle"), Goto(pc)
  PROVE  Moves(pc)
BY DEF HarnessInv, ListType, Goto, Moves, RunFields, At

\* The lists stay lists.
LEMMA ListStep ==
  ASSUME HarnessInv, [Next]_vars
  PROVE  ListType'
<1> USE DEF HarnessInv, files, bounds
<1>0. ListType
  OBVIOUS
<1>1. ASSUME NEW input \in Inputs, Start(input) PROVE ListType'
  <2>1. run' = [pc |-> "verify", input |-> input, suite |-> store[input.suite],
               left |-> store[input.suite].resourceRefs, cache |-> <<>>,
               cases |-> <<>>, results |-> <<>>, id |-> started]
        /\ input.suite \in DOMAIN store /\ UNCHANGED <<store, records, ledger>>
    BY <1>1 DEF Start
  <2>2. DOMAIN run' = RunFields /\ run'.suite = store[input.suite] /\ run'.cases = <<>>
        /\ run'.results = <<>>
    BY <2>1 DEF RunFields
  <2>3. QED
    BY <1>0, <2>1, <2>2, ListEmpty DEF ListType
<1>2. CASE Verify
  BY <1>2, <1>0, MoveStep DEF Verify, ListType, Moves, At, NoRun
<1>3. CASE Load
  <2>1. run' = NoRun \/ \E left, cache : run' = [run EXCEPT !.left = left, !.cache = cache]
    BY <1>3 DEF Load
  <2>2. CASE run' = NoRun
    BY <1>3, <1>0, <2>2 DEF Load, ListType, At, NoRun
  <2>3. ASSUME NEW left, NEW cache, run' = [run EXCEPT !.left = left, !.cache = cache]
        PROVE  ListType'
    BY <1>3, <1>0, <2>3 DEF Load, ListType, RunFields, At
  <2>4. QED
    BY <2>1, <2>2, <2>3
<1>4. CASE SelectCases
  <2>1. ASSUME run' # NoRun PROVE IsList(run'.cases) /\ DOMAIN run' = RunFields
               /\ run'.results = run.results /\ run'.suite = run.suite
    <3> DEFINE ids == run.suite.resourceRefs
               cases == Selected(run.input, Cases(ids, run.cache))
               left == FlattenSeq([i \in DOMAIN cases |-> References(run.cache[cases[i]])])
    <3>1. run' = [run EXCEPT !.cases = cases, !.left = left]
      BY <1>4, <2>1 DEF SelectCases
    <3>2. IsList(cases)
      <4> DEFINE T == {id \in ToSet(ids) : run.cache[id].kind = "case"}
      <4>1. ids \in Seq(ToSet(ids))
        BY <1>0, <1>4 DEF SelectCases, ListType, At, IsList
      <4>2. Kept(ids, T) \in Seq(ToSet(ids) \cap T)
        BY <4>1, KeptList, Zenon
      <4>3. Kept(Kept(ids, T), run.input.cases) \in Seq(ToSet(ids) \cap T \cap run.input.cases)
        BY <4>2, KeptList, Zenon
      <4>4. QED
        BY <4>2, <4>3, ListOf DEF Selected, Cases
    <3> HIDE DEF cases, left
    <3>3. QED
      BY <1>0, <1>4, <3>1, <3>2 DEF SelectCases, ListType, RunFields, At
  <2>2. QED
    BY <1>0, <1>4, <2>1 DEF SelectCases, ListType, At, NoRun
<1>5. CASE Resolve
  BY <1>5, <1>0, MoveStep DEF Resolve, ListType, Moves, At, NoRun
<1>6. CASE Close
  <2>1. IsList(Append(run.results, Result))
    BY <1>0, <1>6, ListAppend DEF ChildIsOwn, ListType, At, Close
  <2>2. QED
    BY <1>6, <1>0, <2>1 DEF Close, ListType, RunFields, At, ChildIsOwn
<1>7. CASE Executed
  BY <1>7, <1>0, MoveStep DEF Executed, ListType, Moves, At
<1>8. CASE WriteRecord
  BY <1>8, <1>0, MoveStep, ListAppend DEF WriteRecord, ListType, Moves, At
<1>9. CASE AppendAdmission
  BY <1>9, <1>0, MoveStep DEF AppendAdmission, ListType, Moves, At
<1>10. CASE AppendAdmissionEvent
  BY <1>10, <1>0, MoveStep, ListAppend DEF AppendAdmissionEvent, ListType, Moves, At
<1>11. CASE AppendRunEvent
  BY <1>11, <1>0, ListAppend DEF AppendRunEvent, ListType, Stop, NoRun, At
<1>12. CASE Recapture
  <2>1. PICK c \in Recaptures : store' = [store EXCEPT ![c.id] = c.record]
    BY <1>12 DEF Recapture
  <2>2. \A id \in DOMAIN store' : IsList(store'[id].resourceRefs)
    BY <1>0, <2>1, ArtifactAssumption DEF ListType
  <2>3. QED
    BY <1>12, <1>0, <2>2 DEF Recapture, ListType, At
<1>13. CASE Crash \/ InputBreaks
  BY <1>13, <1>0 DEF Crash, InputBreaks, Stop, NoRun, ListType, At
<1>14. CASE Spawn \/ PersistFailure \/ ChildEnds \/ DescendantEnds \/ Deadline \/ Kill
            \/ UNCHANGED vars
  BY <1>14, <1>0 DEF Spawn, PersistFailure, ChildEnds, DescendantEnds, Deadline, Kill, vars,
                     ListType, At
<1>15. QED
  BY <1>1, <1>2, <1>3, <1>4, <1>5, <1>6, <1>7, <1>8, <1>9, <1>10, <1>11, <1>12, <1>13, <1>14
     DEF Next, Work

\* The child and the timers.
LEMMA ChildStep ==
  ASSUME HarnessInv, [Next]_vars
  PROVE  ChildIsOwn'
<1> USE DEF HarnessInv, files, bounds
<1>0. ListType /\ ChildIsOwn
  OBVIOUS
<1>1. ASSUME NEW input \in Inputs, Start(input) PROVE ChildIsOwn'
  BY <1>0, <1>1 DEF Start, ChildIsOwn, At
<1>2. CASE Ends /\ child' = NoChild
  BY <1>0, <1>2 DEF Ends, NoRun, NoChild, ChildIsOwn, At
<1>3. ASSUME NEW pc, Moves(pc), UNCHANGED <<child, killers>>, child.state = "none"
      PROVE  ChildIsOwn'
  BY <1>0, <1>3 DEF Moves, ChildIsOwn, Place, At
<1>4. \A pc : ~ At("execute") /\ ~ At("idle") /\ Goto(pc) /\ UNCHANGED <<child, killers>> => ChildIsOwn'
  BY <1>0, <1>3, MoveStep DEF ChildIsOwn, At
<1>5. CASE Verify \/ Resolve
  BY <1>0, <1>2, <1>4, <1>5 DEF Verify, Resolve, ChildIsOwn, Ends, At
<1>6. CASE Load \/ SelectCases
  <2>1. /\ At("load") /\ child.state = "none" /\ child = NoChild
        /\ UNCHANGED <<child, killers>>
    BY <1>0, <1>6 DEF Load, SelectCases, ChildIsOwn, At
  <2>2. CASE run' = NoRun
    BY <1>2, <2>1, <2>2 DEF Ends
  <2>3. CASE run' # NoRun
    <3>1. run'.pc = "load" /\ run'.results = run.results
      BY <1>0, <1>6, <2>1, <2>3 DEF Load, SelectCases, ListType, RunFields, At
    <3>2. QED
      BY <1>0, <2>1, <3>1 DEF ChildIsOwn, Place, At, NoChild
  <2>4. QED
    BY <2>2, <2>3
<1>7. CASE Spawn
  <2>1. At("execute") /\ Place <= Len(run.cases) /\ UNCHANGED <<run, killers>>
    BY <1>7 DEF Spawn
  <2>2. \/ child' = [NoChild EXCEPT !.state = "running"]
        \/ child' = [NoChild EXCEPT !.state = "ended", !.error = TRUE, !.exit = ENOENT,
                                    !.output = Silent]
    BY <1>7 DEF Spawn
  <2>3. /\ child'.state \in {"running", "ended"} /\ ~ child'.late
        /\ child'.state = "ended" => child'.error
        /\ child' \in [state : {"none", "running", "ended"}, own : BOOLEAN, read : BOOLEAN,
                       held : BOOLEAN, late : BOOLEAN, error : BOOLEAN,
                       exit : {child'.exit}, output : {child'.output}]
    BY <2>2 DEF NoChild
  <2>4. ~ At("idle") /\ \A p \in killers : p \in Nat /\ p <= Place /\ (p = Place => child.late)
    BY <1>0, <2>1 DEF ChildIsOwn, At
  <2>5. \A p \in killers : p \in Nat /\ p <= Place /\ p # Place
    BY <1>7, <1>0, <2>4 DEF Spawn, ChildIsOwn, NoChild
  <2>6. QED
    BY <2>1, <2>3, <2>5 DEF ChildIsOwn, Place, At
<1>8. CASE Executed \/ WriteRecord \/ AppendAdmission \/ AppendAdmissionEvent
  BY <1>0, <1>3, <1>4, <1>8, MoveStep
     DEF Executed, WriteRecord, AppendAdmission, AppendAdmissionEvent, At
<1>9. CASE AppendRunEvent \/ Crash \/ InputBreaks
  BY <1>2, <1>9 DEF AppendRunEvent, Crash, InputBreaks, Stop, Ends
<1>10. CASE PersistFailure \/ Recapture \/ UNCHANGED vars
  BY <1>0, <1>10 DEF PersistFailure, Recapture, vars, ChildIsOwn, Place, At
<1>11. CASE ChildEnds
  <2>1. PICK code \in Codes, output \in Outputs, read \in BOOLEAN, held \in BOOLEAN :
           child' = [child EXCEPT !.state = "ended", !.own = TRUE, !.read = read, !.held = held,
                                  !.exit = code, !.output = output]
    BY <1>11 DEF ChildEnds
  <2>2. QED
    BY <1>0, <1>11, <2>1 DEF ChildEnds, ChildIsOwn, Place, At
<1>12. CASE DescendantEnds
  <2>1. child.state # "none"
    BY <1>0, <1>12 DEF DescendantEnds, ChildIsOwn, NoChild
  <2>2. QED
    BY <1>0, <1>12, <2>1 DEF DescendantEnds, ChildIsOwn, Place, At
<1>16. CASE Deadline
  <2>1. child.state # "none" /\ ~ child.late /\ UNCHANGED run /\ killers' = killers \cup {Place}
        /\ Place \in Nat /\ At("execute")
    BY <1>0, <1>16, ListFacts DEF Deadline, ListType, ChildIsOwn, Place, At
  <2> DEFINE Child(c) == c \in [state : {"none", "running", "ended"}, own : BOOLEAN,
                                read : BOOLEAN, held : BOOLEAN, late : BOOLEAN,
                                error : BOOLEAN, exit : {c.exit}, output : {c.output}]
             late == [child EXCEPT !.late = TRUE]
  <2>2. Child(late) /\ late.late = TRUE /\ late.state = child.state /\ Place' = Place
    BY <1>0, <2>1 DEF ChildIsOwn, Place
  <2>3. Child(child') /\ child'.late = TRUE /\ child'.state # "none"
    <3>1. CASE child' = late
      BY <2>1, <2>2, <3>1
    <3>2. ASSUME NEW held \in BOOLEAN, child' = Killed(late, held)
          PROVE  Child(child') /\ child'.late = TRUE /\ child'.state # "none"
      <4> HIDE DEF late
      <4>1. QED
        BY <2>2, <3>2 DEF Killed
    <3>3. QED
      BY <1>16, <3>1, <3>2 DEF Deadline
  <2> HIDE DEF late
  <2>4. \A p \in killers' : p \in Nat /\ p <= Place
    BY <1>0, <2>1 DEF ChildIsOwn, At
  <2>5. QED
    BY <1>0, <2>1, <2>2, <2>3, <2>4 DEF ChildIsOwn, At
<1>13. CASE Kill
  BY <1>0, <1>13 DEF Kill, Killed, ChildIsOwn, NoChild, Place, At
<1>14. CASE Close
  <2>1. /\ run'.pc = run.pc /\ run'.cases = run.cases /\ At("execute")
        /\ Len(run'.results) = Len(run.results) + 1 /\ Len(run.results) \in Nat
    BY <1>0, <1>14, ListAppend, ListFacts DEF Close, ListType, RunFields, ChildIsOwn, At
  <2>2. QED
    BY <1>0, <1>14, <2>1 DEF Close, ChildIsOwn, NoChild, Place, At
<1>15. QED
  BY <1>1, <1>5, <1>6, <1>7, <1>8, <1>9, <1>10, <1>11, <1>12, <1>13, <1>14, <1>16
     DEF Next, Work

\* The results.
LEMMA ResultStep ==
  ASSUME HarnessInv, [Next]_vars
  PROVE  ResultsInOrder'
<1> USE DEF HarnessInv, files, bounds
<1>0. ListType /\ ChildIsOwn /\ ResultsInOrder
  OBVIOUS
<1>1. ASSUME NEW input \in Inputs, Start(input) PROVE ResultsInOrder'
  <2>1. run'.pc = "verify" /\ run'.results = <<>> /\ run'.cases = <<>>
    BY <1>1 DEF Start
  <2>2. QED
    BY <2>1, ListEmpty DEF ResultsInOrder, Complete
<1>2. CASE Ends
  BY <1>2 DEF Ends, NoRun, ResultsInOrder, At
<1>3. CASE UNCHANGED run
  BY <1>0, <1>3 DEF ResultsInOrder, At
<1>4. ASSUME NEW pc, ~ At("idle"), Goto(pc),
             pc \in {"verify", "load"} => run.pc \in {"verify", "load"},
             pc \in Complete => run.pc \in Complete \/ Len(run.results) = Len(run.cases)
      PROVE  ResultsInOrder'
  BY <1>0, <1>4, MoveStep DEF Moves, ResultsInOrder, At
<1>5. CASE Verify
  BY <1>2, <1>4, <1>5 DEF Verify, Ends, Complete, At
<1>6. CASE Load \/ SelectCases
  <2>1. At("load") /\ run.results = <<>>
    BY <1>0, <1>6 DEF Load, SelectCases, ResultsInOrder, At
  <2>2. CASE run' # NoRun
    <3>1. run'.pc = "load" /\ run'.results = <<>> /\ IsList(run'.cases)
      <4>1. run'.pc = "load" /\ run'.results = <<>>
        BY <1>0, <1>6, <2>1, <2>2 DEF Load, SelectCases, ListType, RunFields, At
      <4>2. QED
        BY <4>1, ListStep DEF ListType, At
    <3>2. QED
      BY <3>1, ListEmpty, ListFacts DEF ResultsInOrder, Complete
  <2>3. QED
    BY <1>2, <2>2 DEF Ends
<1>7. CASE Resolve
  BY <1>2, <1>4, <1>7 DEF Resolve, Ends, Complete, At
<1>8. CASE Executed
  <2>1. Len(run.results) = Len(run.cases)
    BY <1>0, <1>8, ListFacts DEF Executed, ListType, ResultsInOrder, Place, At
  <2>2. QED
    BY <1>4, <1>8, <2>1 DEF Executed, At
<1>9. CASE WriteRecord \/ AppendAdmission \/ AppendAdmissionEvent
  BY <1>4, <1>9 DEF WriteRecord, AppendAdmission, AppendAdmissionEvent, Complete, At
<1>10. CASE Close
  <2> DEFINE n == Len(run.results)
  <2>1. At("execute") /\ n \in Nat /\ n + 1 <= Len(run.cases) /\ Len(run.cases) \in Nat
    BY <1>0, <1>10, ListFacts DEF Close, ListType, ChildIsOwn, Place, At
  <2>2. /\ run'.pc = "execute" /\ run'.cases = run.cases /\ run'.cache = run.cache
        /\ run'.results = Append(run.results, Result)
    BY <1>0, <1>10, <2>1 DEF Close, ListType, RunFields, At
  <2>3. /\ Len(run'.results) = n + 1 /\ run'.results[n + 1] = Result
        /\ \A i \in 1..n : run'.results[i] = run.results[i]
    BY <1>0, <2>1, <2>2, ListAppend DEF ListType, At
  <2>4. Earned(Result, run.cache) /\ Result.case = run.cases[n + 1]
    BY <1>10, VerdictStep DEF Close, Place
  <2>5. \A i \in 1..n : run.results[i].case = run.cases[i] /\ Earned(run.results[i], run.cache)
    BY <1>0, <2>1 DEF ResultsInOrder, At
  <2> HIDE DEF n
  <2>6. ASSUME NEW i \in 1..(n + 1)
        PROVE  run'.results[i].case = run'.cases[i] /\ Earned(run'.results[i], run'.cache)
    <3>1. CASE i = n + 1
      BY <2>2, <2>3, <2>4, <3>1
    <3>2. CASE i # n + 1
      <4>1. i \in 1..n
        BY <2>1, <3>2
      <4>2. QED
        BY <2>2, <2>3, <2>5, <4>1
    <3>3. QED
      BY <3>1, <3>2
  <2>7. QED
    BY <2>1, <2>2, <2>3, <2>6 DEF ResultsInOrder, Complete
<1>11. CASE AppendRunEvent \/ Crash \/ InputBreaks
  BY <1>2, <1>11 DEF AppendRunEvent, Crash, InputBreaks, Stop, Ends
<1>12. CASE Spawn \/ PersistFailure \/ Recapture \/ ChildEnds \/ DescendantEnds \/ Deadline \/ Kill
            \/ UNCHANGED vars
  BY <1>3, <1>12 DEF Spawn, PersistFailure, Recapture, ChildEnds, DescendantEnds, Deadline, Kill,
                     vars
<1>13. QED
  BY <1>1, <1>5, <1>6, <1>7, <1>8, <1>9, <1>10, <1>11, <1>12 DEF Next, Work

\* The files: what is written stays, and a record or an event comes after what it
\* speaks of.
LEMMA RecordStep ==
  ASSUME HarnessInv, [Next]_vars
  PROVE  RecordsStand'
<1> USE DEF HarnessInv, files, bounds
<1>0. ListType /\ ChildIsOwn /\ ResultsInOrder /\ RecordsStand
  OBVIOUS
<1>1. ASSUME UNCHANGED <<failures, records, ledger>>,
             run'.pc \in Recorded => run.pc \in Recorded /\ run'.id = run.id
                                     /\ run'.results = run.results
      PROVE  RecordsStand'
  BY <1>0, <1>1 DEF RecordsStand, RecordStands
<1>2. ASSUME NEW input \in Inputs, Start(input) PROVE RecordsStand'
  BY <1>1, <1>2 DEF Start, Recorded
<1>3. CASE Ends /\ UNCHANGED <<failures, records, ledger>>
  BY <1>1, <1>3 DEF Ends, NoRun, Recorded
<1>4. CASE UNCHANGED <<run, failures, records, ledger>>
  BY <1>1, <1>4
<1>5. ASSUME NEW pc, ~ At("idle"), Goto(pc), UNCHANGED <<failures, records, ledger>>,
             pc \in Recorded => run.pc \in Recorded
      PROVE  RecordsStand'
  BY <1>1, <1>5, MoveStep DEF Moves
<1>6. CASE Verify \/ Resolve \/ Executed \/ AppendAdmission
  BY <1>3, <1>5, <1>6 DEF Verify, Resolve, Executed, AppendAdmission, Ends, Recorded, At
<1>7. CASE Load \/ SelectCases
  <2>1. run' # NoRun => run'.pc = "load"
    BY <1>0, <1>7 DEF Load, SelectCases, ListType, RunFields, At
  <2>2. QED
    BY <1>1, <1>3, <1>7, <2>1 DEF Load, SelectCases, Ends, Recorded
<1>8. CASE Close
  <2>1. run'.pc = "execute"
    BY <1>0, <1>8 DEF Close, ListType, ChildIsOwn, RunFields, At
  <2>2. QED
    BY <1>1, <1>8, <2>1 DEF Close, Recorded
<1>9. CASE PersistFailure
  <2>1. DOMAIN failures \subseteq DOMAIN failures' /\ UNCHANGED <<run, records, ledger>>
    BY <1>9 DEF PersistFailure
  <2>2. QED
    BY <1>0, <2>1 DEF RecordsStand, RecordStands
<1>10. CASE WriteRecord
  <2> DEFINE n == Len(records)
             record == [id |-> run.id, cases |-> run.cases, results |-> run.results,
                        loaded |-> run.cache, summary |-> Summary(run.results)]
  <2>1. /\ At("persist") /\ Unsaved = {} /\ UNCHANGED <<failures, ledger>>
        /\ records' = Append(records, record)
        /\ run'.id = run.id /\ run'.results = run.results
    BY <1>10, MoveStep DEF WriteRecord, Moves, At
  <2>2. /\ n \in Nat /\ Len(records') = n + 1 /\ records'[n + 1] = record
        /\ \A j \in 1..n : records'[j] = records[j]
    BY <1>0, <2>1, ListAppend, ListFacts DEF ListType
  <2>3. \A i \in 1..Len(run.results) :
           Bad(run.results[i]) => <<run.id, run.results[i].case>> \in DOMAIN failures
    BY <1>0, <2>1, ListFacts DEF Unsaved, ListType, At
  <2>4. RecordStands(record, DOMAIN failures)
    BY <1>0, <2>1, <2>3 DEF RecordStands, ResultsInOrder, ListType, Complete, At
  <2> HIDE DEF n, record
  <2>5. \A j \in 1..(n + 1) : RecordStands(records'[j], DOMAIN failures)
    <3>1. \A j \in 1..n : RecordStands(records[j], DOMAIN failures)
      BY <1>0 DEF RecordsStand, n
    <3>2. QED
      BY <2>2, <2>4, <3>1
  <2>6. \A j \in 1..Len(records') : RecordStands(records'[j], DOMAIN failures')
    BY <2>1, <2>2, <2>5 DEF RecordStands
  <2>7. record.id = run.id /\ record.summary = Summary(run.results)
    BY DEF record
  <2>8. run'.pc \in Recorded => \E j \in 1..Len(records') :
          records'[j].id = run'.id /\ records'[j].summary = Summary(run'.results)
    <3>1. n + 1 \in 1..Len(records')
      BY <2>2
    <3>2. QED
      BY <2>1, <2>2, <2>7, <3>1
  <2>9. ASSUME NEW i \in 1..Len(ledger)
        PROVE  \E j \in 1..Len(records') : /\ records'[j].id = ledger[i].id
                 /\ ledger[i].type = "harness.run" => ledger[i].counts = records'[j].summary
    <3>1. PICK j \in 1..n : /\ records[j].id = ledger[i].id
             /\ ledger[i].type = "harness.run" => ledger[i].counts = records[j].summary
      BY <1>0 DEF RecordsStand, n
    <3>2. j \in 1..Len(records') /\ records'[j] = records[j]
      BY <2>2
    <3>3. QED
      BY <3>1, <3>2
  <2>10. QED
    BY <2>1, <2>6, <2>8, <2>9 DEF RecordsStand
<1>11. CASE AppendAdmissionEvent \/ AppendRunEvent
  <2>1. /\ run.pc \in Recorded /\ UNCHANGED <<failures, records>>
        /\ run'.pc \in Recorded => run'.id = run.id /\ run'.results = run.results
    BY <1>11, MoveStep
       DEF AppendAdmissionEvent, AppendRunEvent, Stop, NoRun, Moves, Recorded, At
  <2>2. PICK j \in 1..Len(records) : records[j].id = run.id /\ records[j].summary = Summary(run.results)
    BY <1>0, <2>1 DEF RecordsStand
  <2>3. CASE ledger' = ledger
    BY <1>0, <2>1, <2>3 DEF RecordsStand, RecordStands
  <2>4. ASSUME NEW e, ledger' = Append(ledger, e), e.id = run.id,
               e.type = "harness.run" => e.counts = Summary(run.results)
        PROVE  RecordsStand'
    <3> DEFINE m == Len(ledger)
               Backs(event) == \E k \in 1..Len(records) :
                  /\ records[k].id = event.id
                  /\ event.type = "harness.run" => event.counts = records[k].summary
    <3>1. /\ m \in Nat /\ Len(ledger') = m + 1 /\ ledger'[m + 1] = e
          /\ \A i \in 1..m : ledger'[i] = ledger[i]
      BY <1>0, <2>4, ListAppend, ListFacts DEF ListType
    <3>2. \A i \in 1..m : Backs(ledger[i])
      BY <1>0 DEF RecordsStand
    <3>3. Backs(e)
      BY <2>2, <2>4
    <3> HIDE DEF Backs, m
    <3>4. \A i \in 1..(m + 1) : Backs(ledger'[i])
      BY <3>1, <3>2, <3>3
    <3>5. QED
      BY <1>0, <2>1, <2>2, <3>1, <3>4 DEF RecordsStand, RecordStands, Backs
  <2>5. CASE AppendAdmissionEvent
    <3> DEFINE e == [type |-> "security.admission", id |-> run.id]
    <3>1. ledger' = ledger \/ ledger' = Append(ledger, e)
      BY <2>5 DEF AppendAdmissionEvent
    <3>2. e.id = run.id /\ e.type # "harness.run"
      OBVIOUS
    <3> HIDE DEF e
    <3>3. QED
      BY <2>3, <2>4, <3>1, <3>2
  <2>6. CASE AppendRunEvent
    <3> DEFINE e == [type |-> "harness.run", id |-> run.id, counts |-> Summary(run.results)]
    <3>1. ledger' = Append(ledger, e)
      BY <2>6 DEF AppendRunEvent
    <3>2. e.id = run.id /\ e.counts = Summary(run.results)
      OBVIOUS
    <3> HIDE DEF e
    <3>3. QED
      BY <2>4, <3>1, <3>2
  <2>7. QED
    BY <1>11, <2>5, <2>6
<1>12. CASE Crash \/ InputBreaks
  BY <1>3, <1>12 DEF Crash, InputBreaks, Stop, Ends
<1>13. CASE Spawn \/ Recapture \/ ChildEnds \/ DescendantEnds \/ Deadline \/ Kill \/ UNCHANGED vars
  BY <1>4, <1>13 DEF Spawn, Recapture, ChildEnds, DescendantEnds, Deadline, Kill, vars
<1>14. QED
  BY <1>2, <1>6, <1>7, <1>8, <1>9, <1>10, <1>11, <1>12, <1>13 DEF Next, Work

-----------------------------------------------------------------------------
(* The theorems *)

\* What holds of a run at every step.
THEOREM HarnessInvariance == Spec => []HarnessInv
<1>1. HarnessInv /\ [Next]_vars => HarnessInv'
  BY ListStep, ChildStep, ResultStep, RecordStep DEF HarnessInv
<1>2. QED
  BY <1>1, HarnessInit, PTL DEF Spec

\* A case is recorded as passed, or as failed, only if its own child ended by
\* itself and did, or did not, do what every judge of the case asks for.
THEOREM EarnedVerdicts == Spec => []VerdictsAreEarned
<1>1. HarnessInv => VerdictsAreEarned
  <2> SUFFICES ASSUME HarnessInv PROVE VerdictsAreEarned
    OBVIOUS
  <2>1. ASSUME NEW i \in DOMAIN records, NEW j \in DOMAIN records[i].results
        PROVE  Earned(records[i].results[j], records[i].loaded)
    <3>1. i \in 1..Len(records)
      BY ListFacts DEF HarnessInv, ListType
    <3>2. RecordStands(records[i], DOMAIN failures)
      BY <3>1 DEF HarnessInv, RecordsStand
    <3>3. j \in 1..Len(records[i].results)
      BY <3>2, ListFacts DEF RecordStands
    <3>4. QED
      BY <3>2, <3>3 DEF RecordStands
  <2>2. QED
    BY <2>1 DEF VerdictsAreEarned, Earned, Met, Judging
<1>2. QED
  BY <1>1, HarnessInvariance, PTL

\* Wherever the runner stopped: an event has its record and counts what it shows,
\* a record has a result for every case in their order, and a bad result has its
\* failure artifact.
THEOREM CompleteEvidence == Spec => []EvidenceIsComplete
<1>1. HarnessInv => EvidenceIsComplete
  <2> SUFFICES ASSUME HarnessInv PROVE EvidenceIsComplete
    OBVIOUS
  <2>1. DOMAIN records = 1..Len(records) /\ DOMAIN ledger = 1..Len(ledger)
    BY ListFacts DEF HarnessInv, ListType
  <2>2. \A i \in DOMAIN ledger : \E j \in DOMAIN records :
           /\ records[j].id = ledger[i].id
           /\ ledger[i].type = "harness.run" => ledger[i].counts = records[j].summary
    BY <2>1 DEF HarnessInv, RecordsStand
  <2>3. ASSUME NEW j \in DOMAIN records
        PROVE  LET r == records[j].results
               IN  /\ [i \in DOMAIN r |-> r[i].case] = records[j].cases
                   /\ \A i \in DOMAIN r :
                         Bad(r[i]) => <<records[j].id, r[i].case>> \in DOMAIN failures
    <3> DEFINE r == records[j].results
               c == records[j].cases
    <3>1. RecordStands(records[j], DOMAIN failures)
      BY <2>1 DEF HarnessInv, RecordsStand
    <3>2. DOMAIN r = 1..Len(r) /\ DOMAIN c = 1..Len(c) /\ Len(r) = Len(c)
      BY <3>1, ListFacts DEF RecordStands
    <3>3. c = [i \in 1..Len(c) |-> c[i]]
      BY <3>1, <3>2 DEF RecordStands, IsList
    <3>4. \A i \in 1..Len(r) : r[i].case = c[i]
      BY <3>1 DEF RecordStands
    <3>5. \A i \in 1..Len(r) : Bad(r[i]) => <<records[j].id, r[i].case>> \in DOMAIN failures
      BY <3>1 DEF RecordStands
    <3> HIDE DEF r, c
    <3>6. [i \in DOMAIN r |-> r[i].case] = c
      BY <3>2, <3>3, <3>4
    <3>7. QED
      BY <3>2, <3>5, <3>6 DEF r, c
  <2>4. QED
    BY <2>2, <2>3 DEF EvidenceIsComplete
<1>2. QED
  BY <1>1, HarnessInvariance, PTL

=============================================================================
