----------------------------- MODULE HarnessRun -----------------------------
(***************************************************************************)
(* harness run (harness.ts): a suite is verified and its cases resolved    *)
(* before the first one is executed; the cases are executed one after the  *)
(* other as a child process with a deadline, judged by the rules of their  *)
(* artifacts, and at the end the failures, the run record and the ledger   *)
(* event are written in this order.                                        *)
(*                                                                         *)
(* Another command may capture a new version of an artifact at any time.   *)
(* The child may ignore SIGTERM, may end without reading its input, and    *)
(* may leave a descendant that holds its output open.                      *)
(*                                                                         *)
(* A text is the set of the rules' words it contains, a JSON value the set *)
(* of its members.                                                         *)
(***************************************************************************)
EXTENDS FiniteSets, Lists

CONSTANTS
    Initial,       \* the artifact stores a run may find: functions from ids to records
    Recaptures,    \* what another harness capture may write: [id, record]
    Inputs,        \* the inputs of harness run
    Outputs,       \* what the command may print: [out, err, json, risk]
    Codes,         \* exit codes of the command
    NoValue,       \* null: no exit code, no output, no rule
    Enforce,       \* security.admission_mode = "enforce"
    MaxRuns,       \* bound: runs started
    MaxRecaptures, \* bound: recaptures
    MaxCrashes     \* bound: crashes of the runner

ASSUME BoundAssumption == MaxRuns \in Nat /\ MaxRecaptures \in Nat /\ MaxCrashes \in Nat

\* The references of an artifact are a list.
ASSUME ArtifactAssumption ==
    /\ \A s \in Initial : \A id \in DOMAIN s : IsList(s[id].resourceRefs)
    /\ \A c \in Recaptures : IsList(c.record.resourceRefs)

VARIABLES
    store,     \* .ragit/artifacts/harness/**, by id
    failures,  \* the failure artifacts among them, by run and case
    records,   \* .ragit/log/harness-runs/<run>.json
    admitted,  \* runs with a line in the admission log
    ledger,    \* .ragit/log/events
    run,       \* the run in progress
    child,     \* its child process and the deadline set for it
    killers,   \* places of the cases whose SIGKILL timer is set
    started, recaptures, crashes

files == <<failures, records, admitted, ledger>>
bounds == <<started, recaptures, crashes>>
vars == <<store, files, run, child, killers, bounds>>

NoChild == [state |-> "none", own |-> FALSE, read |-> TRUE, held |-> FALSE, late |-> FALSE,
            error |-> FALSE, exit |-> NoValue, output |-> NoValue]
NoRun == [pc |-> "idle"]

-----------------------------------------------------------------------------
\* What the input must say: normalizeHarnessRunInput and resolveExecutorCwd.
Accepts(input) ==
    /\ input.kind = "command" /\ input.argv # <<>>
    /\ input.concurrency \in {NoValue, 1}
    /\ input.timeoutMs \in {NoValue} \cup (Nat \ {0})
    /\ input.cwd = "inside"

NoRules == [exit |-> NoValue, needs |-> {}, bans |-> {}, errNeeds |-> {}, errBans |-> {}, json |-> {}]
Judges == {"oracle", "checker", "rubric", "golden"}
References(record) == record.oracleRefs \o record.resourceRefs

\* verifyHarness: the suite has resources, all are there, and each of its cases
\* names oracles and evidence.
Preflight(suite) ==
    /\ suite.resourceRefs # <<>>
    /\ \A id \in ToSet(suite.resourceRefs) :
         /\ id \in DOMAIN store
         /\ store[id].kind = "case" => store[id].oracleRefs # <<>> /\ store[id].evidence

\* resolveHarnessCase: the case's own rules and those of the judges it refers
\* to; a judge without rules, and a case without any, cannot be run.
Cases(ids, cache) == Kept(ids, {id \in ToSet(ids) : cache[id].kind = "case"})
Selected(input, ids) == IF input.cases = {} THEN ids ELSE Kept(ids, input.cases)
Support(id, cache) == {ref \in ToSet(References(cache[id])) : cache[ref].kind \in Judges}
RuleSources(id, cache) ==
    {s \in {id} : cache[s].rules # NoRules} \cup Support(id, cache)
Runnable(input, selected, cache) ==
    /\ selected # <<>> /\ input.cases \subseteq ToSet(selected)
    /\ \A id \in ToSet(selected) :
         /\ RuleSources(id, cache) # {}
         /\ \A s \in Support(id, cache) : cache[s].rules # NoRules

\* evaluateRuleSource: the checks of one source that fail.
JsonSubset(actual, expected) == actual # NoValue /\ expected \subseteq actual
Broken(rules, exit, output) ==
    {check \in {"exitCode", "mustInclude", "mustNotInclude", "stderrMustInclude",
                "stderrMustNotInclude", "jsonSubset"} :
        CASE check = "exitCode"             -> rules.exit \notin {NoValue, exit}
          [] check = "mustInclude"          -> ~(rules.needs \subseteq output.out)
          [] check = "mustNotInclude"       -> rules.bans \cap output.out # {}
          [] check = "stderrMustInclude"    -> ~(rules.errNeeds \subseteq output.err)
          [] check = "stderrMustNotInclude" -> rules.errBans \cap output.err # {}
          [] check = "jsonSubset"           -> /\ rules.json # {}
                                               /\ ~JsonSubset(output.json, rules.json)}
BreaksDefault(sources, cache, exit) ==
    (\A s \in sources : cache[s].rules.exit = NoValue) /\ exit # 0
FailedChecks(id, cache, exit, output) ==
    LET sources == RuleSources(id, cache)
    IN  (UNION {{s} \X Broken(cache[s].rules, exit, output) : s \in sources})
        \cup (IF BreaksDefault(sources, cache, exit) THEN {<<id, "defaultExitCode">>} ELSE {})

\* Under enforcement no excerpt of a blocked text is kept. A result remembers,
\* for the properties, what its child printed and whether it ended by itself.
Excerpt(output) == IF Enforce /\ output.risk = "block" THEN NoValue ELSE output
Verdict(failed) ==
    IF child.error \/ child.late THEN "errored"
    ELSE IF failed = {} THEN "passed" ELSE "failed"
Result ==
    LET id == run.cases[Len(run.results) + 1]
        failed == FailedChecks(id, run.cache, child.exit, child.output)
    IN  [case |-> id, status |-> Verdict(failed), failed |-> failed,
         exit |-> child.exit, excerpt |-> Excerpt(child.output),
         own |-> child.own, output |-> child.output]
Bad(result) == result.status \in {"failed", "errored"}
Count(results, status) == Cardinality({i \in DOMAIN results : results[i].status = status})
Summary(results) == [s \in {"passed", "failed", "errored"} |-> Count(results, s)]

-----------------------------------------------------------------------------
Init ==
    /\ store \in Initial
    /\ failures = <<>> /\ records = <<>> /\ admitted = {} /\ ledger = <<>>
    /\ run = NoRun /\ child = NoChild /\ killers = {}
    /\ started = 0 /\ recaptures = 0 /\ crashes = 0

Stop == run' = NoRun /\ child' = NoChild
At(pc) == run.pc = pc
Goto(pc) == run' = [run EXCEPT !.pc = pc]

Start(input) ==
    /\ At("idle") /\ started < MaxRuns
    /\ Accepts(input)
    /\ input.suite \in DOMAIN store /\ store[input.suite].kind = "suite"
    /\ run' = [pc |-> "verify", input |-> input, suite |-> store[input.suite],
               left |-> store[input.suite].resourceRefs, cache |-> <<>>,
               cases |-> <<>>, results |-> <<>>, id |-> started]
    /\ killers' = {}
    /\ started' = started + 1
    /\ UNCHANGED <<store, files, child, recaptures, crashes>>

\* verifyHarness loads the suite again.
Verify ==
    /\ At("verify")
    /\ IF Preflight(store[run.input.suite]) \/ run.input.dryRun THEN Goto("load") ELSE run' = NoRun
    /\ UNCHANGED <<store, files, child, killers, bounds>>

\* An artifact is read once: resolveReferencedArtifact keeps what it has read.
Load ==
    /\ At("load") /\ run.left # <<>>
    /\ LET id == Head(run.left)
       IN  IF id \in DOMAIN run.cache \cup DOMAIN store
           THEN run' = [run EXCEPT !.left = Tail(@), !.cache =
                            [i \in DOMAIN @ \cup {id} |-> IF i \in DOMAIN @ THEN @[i] ELSE store[i]]]
           ELSE run' = NoRun
    /\ UNCHANGED <<store, files, child, killers, bounds>>

\* The suite's resources are loaded first; then what the selected cases refer to.
SelectCases ==
    /\ At("load") /\ run.left = <<>> /\ run.cases = <<>>
    /\ LET cases == Selected(run.input, Cases(run.suite.resourceRefs, run.cache))
       IN  IF cases = <<>> THEN run' = NoRun
           ELSE run' = [run EXCEPT !.cases = cases, !.left =
                            FlattenSeq([i \in DOMAIN cases |-> References(run.cache[cases[i]])])]
    /\ UNCHANGED <<store, files, child, killers, bounds>>
Resolve ==
    /\ At("load") /\ run.left = <<>> /\ run.cases # <<>>
    /\ IF Runnable(run.input, run.cases, run.cache) /\ ~run.input.dryRun
       THEN Goto("execute") ELSE run' = NoRun
    /\ UNCHANGED <<store, files, child, killers, bounds>>

\* executeHarnessCommand: spawn, the deadline, and SIGKILL 250 ms after SIGTERM.
\* The promise is settled when the child has ended and its output is closed.
Place == Len(run.results) + 1
Silent == [out |-> {}, err |-> {}, json |-> NoValue, risk |-> "allow"]
ENOENT == -2
Spawn ==
    /\ At("execute") /\ child.state = "none" /\ Place <= Len(run.cases)
    /\ \/ child' = [NoChild EXCEPT !.state = "running"]
       \/ child' = [NoChild EXCEPT !.state = "ended", !.error = TRUE, !.exit = ENOENT,
                                   !.output = Silent]
    /\ UNCHANGED <<store, files, run, killers, bounds>>
ChildEnds ==
    /\ child.state = "running"
    /\ \E code \in Codes, output \in Outputs, read, held \in BOOLEAN :
          child' = [child EXCEPT !.state = "ended", !.own = TRUE, !.read = read, !.held = held,
                                 !.exit = code, !.output = output]
    /\ UNCHANGED <<store, files, run, killers, bounds>>
DescendantEnds ==
    /\ child.held
    /\ child' = [child EXCEPT !.held = FALSE]
    /\ UNCHANGED <<store, files, run, killers, bounds>>

Killed(c, held) == [c EXCEPT !.state = "ended", !.exit = NoValue, !.held = held, !.output = Silent]
TermOnly == \* mutant: no SIGKILL follows SIGTERM
    /\ child.state # "none" /\ ~child.late
    /\ LET c == [child EXCEPT !.late = TRUE]
       IN  \/ child' = c
           \/ c.state = "running" /\ \E held \in BOOLEAN : child' = Killed(c, held)
    /\ UNCHANGED <<store, files, run, killers, bounds>>
Deadline ==
    /\ child.state # "none" /\ ~child.late
    /\ LET c == [child EXCEPT !.late = TRUE]
       IN  \/ child' = c
           \/ c.state = "running" /\ \E held \in BOOLEAN : child' = Killed(c, held)
    /\ killers' = killers \cup {Place}
    /\ UNCHANGED <<store, files, run, bounds>>
KillWhoeverRuns == \* mutant: the timer kills the child of the case in progress
    \E place \in killers :
        /\ IF ~At("idle") /\ child.state = "running"
           THEN \E held \in BOOLEAN : child' = Killed(child, held)
           ELSE UNCHANGED child
        /\ killers' = killers \ {place}
        /\ UNCHANGED <<store, files, run, bounds>>
Kill ==
    \E place \in killers :
        /\ IF ~At("idle") /\ place = Place /\ child.state = "running"
           THEN \E held \in BOOLEAN : child' = Killed(child, held)
           ELSE UNCHANGED child
        /\ killers' = killers \ {place}
        /\ UNCHANGED <<store, files, run, bounds>>

Close ==
    /\ child.state = "ended" /\ ~child.held
    /\ run' = [run EXCEPT !.results = Append(@, Result)]
    /\ child' = NoChild
    /\ UNCHANGED <<store, files, killers, bounds>>

\* Nothing listens to errors of the child's stdin: a child that ends before it
\* has read its input may take the runner with it.
InputBreaks ==
    /\ child.state = "ended" /\ ~child.read
    /\ Stop
    /\ UNCHANGED <<store, files, killers, bounds>>

\* After the last case: failures, the record, what admission said, the event.
Executed ==
    /\ At("execute") /\ child.state = "none" /\ Place > Len(run.cases)
    /\ Goto("persist")
    /\ UNCHANGED <<store, files, child, killers, bounds>>
Unsaved == {i \in DOMAIN run.results :
              Bad(run.results[i]) /\ <<run.id, run.results[i].case>> \notin DOMAIN failures}
PersistFailure ==
    /\ At("persist") /\ Unsaved # {}
    /\ LET i == CHOOSE i \in Unsaved : \A j \in Unsaved : i <= j
           key == <<run.id, run.results[i].case>>
       IN  failures' = [k \in DOMAIN failures \cup {key} |->
                          IF k = key THEN run.results[i].status ELSE failures[k]]
    /\ UNCHANGED <<store, records, admitted, ledger, run, child, killers, bounds>>
RecordBeforeFailures == \* mutant: the record does not wait for the failure artifacts
    /\ At("persist")
    /\ records' = Append(records, [id |-> run.id, cases |-> run.cases, results |-> run.results,
                                   loaded |-> run.cache, summary |-> Summary(run.results)])
    /\ Goto("admission")
    /\ UNCHANGED <<store, failures, admitted, ledger, child, killers, bounds>>
WriteRecord ==
    /\ At("persist") /\ Unsaved = {}
    /\ records' = Append(records, [id |-> run.id, cases |-> run.cases, results |-> run.results,
                                   loaded |-> run.cache, summary |-> Summary(run.results)])
    /\ Goto("admission")
    /\ UNCHANGED <<store, failures, admitted, ledger, child, killers, bounds>>
AppendAdmission ==
    /\ At("admission")
    /\ admitted' = IF \E i \in DOMAIN run.results : run.results[i].output.risk # "allow"
                   THEN admitted \cup {run.id} ELSE admitted
    /\ Goto("admissionEvent")
    /\ UNCHANGED <<store, failures, records, ledger, child, killers, bounds>>
AppendAdmissionEvent ==
    /\ At("admissionEvent")
    /\ ledger' = IF run.id \in admitted
                 THEN Append(ledger, [type |-> "security.admission", id |-> run.id]) ELSE ledger
    /\ Goto("event")
    /\ UNCHANGED <<store, failures, records, admitted, child, killers, bounds>>
AppendRunEvent ==
    /\ At("event")
    /\ ledger' = Append(ledger, [type |-> "harness.run", id |-> run.id,
                                 counts |-> Summary(run.results)])
    /\ Stop
    /\ UNCHANGED <<store, failures, records, admitted, killers, bounds>>

Recapture ==
    /\ recaptures < MaxRecaptures
    /\ \E c \in Recaptures : store' = [store EXCEPT ![c.id] = c.record]
    /\ recaptures' = recaptures + 1
    /\ UNCHANGED <<files, run, child, killers, started, crashes>>
Crash ==
    /\ ~At("idle") /\ crashes < MaxCrashes
    /\ Stop /\ killers' = {}
    /\ crashes' = crashes + 1
    /\ UNCHANGED <<store, files, started, recaptures>>

Work == \/ Verify \/ Load \/ SelectCases \/ Resolve \/ Spawn \/ Executed
        \/ PersistFailure \/ WriteRecord
        \/ AppendAdmission \/ AppendAdmissionEvent \/ AppendRunEvent
Next ==
    \/ \E input \in Inputs : Start(input)
    \/ Work \/ ChildEnds \/ DescendantEnds \/ Deadline \/ Kill \/ Close \/ InputBreaks
    \/ Recapture \/ Crash

\* The runner goes on, its timers fire and a closed child is noticed; nothing is
\* assumed of the child or of its descendants.
Fairness == WF_vars(Work) /\ WF_vars(Deadline) /\ WF_vars(Kill) /\ WF_vars(Close)
Spec == Init /\ [][Next]_vars /\ Fairness

-----------------------------------------------------------------------------
Satisfies(rules, exit, output) ==
    /\ rules.exit # NoValue => exit = rules.exit
    /\ rules.needs \subseteq output.out /\ rules.bans \cap output.out = {}
    /\ rules.errNeeds \subseteq output.err /\ rules.errBans \cap output.err = {}
    /\ rules.json # {} => output.json # NoValue /\ rules.json \subseteq output.json

\* A case has passed only if its own child ended by itself, printed what every
\* judge it refers to asks for and ended with the code they ask for, or 0; it has
\* failed only if its own child ended by itself and did not. The timers of one
\* case never decide about another.
VerdictsAreEarned ==
    \A i \in DOMAIN records : \A j \in DOMAIN records[i].results :
        LET r == records[i].results[j]
            loaded == records[i].loaded
            judges == {r.case} \cup {s \in ToSet(References(loaded[r.case])) :
                                      loaded[s].kind \in Judges}
            met == /\ \A s \in judges : Satisfies(loaded[s].rules, r.exit, r.output)
                   /\ (\A s \in judges : loaded[s].rules.exit = NoValue) => r.exit = 0
        IN  /\ r.status = "passed" => r.own /\ met
            /\ r.status = "failed" => r.own /\ ~met

\* Wherever the runner stopped: an event of a run has its record and counts what
\* the record shows, a record has one result per selected case in the order of
\* the suite, and each bad result has its failure artifact.
EvidenceIsComplete ==
    /\ \A i \in DOMAIN ledger :
         \E j \in DOMAIN records :
            /\ records[j].id = ledger[i].id
            /\ ledger[i].type = "harness.run" => ledger[i].counts = records[j].summary
    /\ \A j \in DOMAIN records :
         LET r == records[j].results
         IN  /\ [i \in DOMAIN r |-> r[i].case] = records[j].cases
             /\ \A i \in DOMAIN r : Bad(r[i]) => <<records[j].id, r[i].case>> \in DOMAIN failures

\* A run ends, even when its command ignores SIGTERM or never ends by itself,
\* unless a descendant of the command holds the output open.
EveryRunEnds == ~At("idle") ~> (At("idle") \/ child.held)
=============================================================================
