------------------------------- MODULE Drift -------------------------------
(***************************************************************************)
(* drift, repair and log: how far the snapshots and the artifacts have     *)
(* fallen behind HEAD (drift.ts), which commands would bring them up to    *)
(* date and what applying them does (repair.ts), and what each snapshot    *)
(* changed (log.ts, logSemantic.ts).                                       *)
(*                                                                         *)
(* A glob is the set of the paths it matches.                              *)
(***************************************************************************)
EXTENDS Repository

CONSTANT RepairOptions  \* options of drift and repair:
                        \* [scope, path, goal, session, maxCount, actions]

NoOptions == [scope |-> "all", path |-> Null, goal |-> Null, session |-> Null,
              maxCount |-> Null, actions |-> {}]

Matches(glob, path) == glob = Null \/ path \in glob
Limited(seq, maxCount) ==
    IF maxCount = Null \/ maxCount >= Len(seq) THEN seq ELSE SubSeq(seq, 1, maxCount)

-----------------------------------------------------------------------------
\* The snapshot the documents are compared with: HEAD's, or any.
Baseline ==
    CASE HEAD \in Indexed -> [snapshot |-> HEAD, reasons |-> {}]
      [] HEAD \notin Indexed /\ Indexed # {} ->
           [snapshot |-> LatestByName, reasons |-> {"missing_manifest_anchor"}]
      [] OTHER -> [snapshot |-> Null, reasons |-> {"no_baseline"}]

StaleReasons == {"tracked_path_changed", "related_path_changed", "related_path_missing",
                 "source_head_behind", "bound_head_behind", "failure_evidence_present",
                 "dependency_stale"}
SuspectReasons == {"no_baseline", "missing_manifest_anchor", "missing_binding"}
Status(reasons) ==
    CASE reasons \cap StaleReasons # {} -> "stale"
      [] reasons \cap StaleReasons = {} /\ reasons \cap SuspectReasons # {} -> "suspect"
      [] OTHER -> "fresh"

\* An item names the commits it rests on (sourceRefs): for a document those of the
\* baseline, for an artifact those of the artifact.
Item(scope, type, id, title, reasons, affected, refs) ==
    [scope |-> scope, type |-> type, id |-> id, title |-> title, status |-> Status(reasons),
     reasons |-> reasons, affected |-> affected, refs |-> refs]
BaselineRefs == [head |-> HeadSha, snapshot |-> Baseline.snapshot, anchor |-> Baseline.snapshot,
                 bound |-> Null, artifact |-> Null, goal |-> Null]

BaselineItems ==
    IF Baseline.reasons = {} THEN {}
    ELSE {Item("durable", "baseline", 0, 0, Baseline.reasons, {}, BaselineRefs)}

DocumentItem(p, changed) ==
    Item("durable", "document", p, p,
         IF p \in changed THEN {"tracked_path_changed"} ELSE {}, changed \cap {p}, BaselineRefs)
DocumentItems(options) ==
    IF Baseline.snapshot = Null THEN {}
    ELSE LET changed == IF Baseline.snapshot = HEAD THEN {} ELSE ChangedSince(Baseline.snapshot)
         IN  {DocumentItem(p, changed) :
                p \in {q \in DOMAIN manifests[Baseline.snapshot].docs : Matches(options.path, q)}}

\* evaluateArtifact: its files may be gone or changed since its anchor; without
\* files, any change makes it late.
Anchor(a) == IF a.bound # Null THEN a.bound ELSE a.source
ChangedSinceAnchor(a) == IF Anchor(a) = Null THEN {} ELSE ChangedSince(Anchor(a))
MissingFiles(a) == a.paths \ DOMAIN Tree(HEAD)
ChangedFiles(a) == (a.paths \ MissingFiles(a)) \cap ChangedSinceAnchor(a)
IsBehind(a) == Anchor(a) \notin {Null, HEAD} /\ a.paths = {} /\ ChangedSinceAnchor(a) # {}
ArtifactReasons(a) ==
    {r \in {"missing_binding", "related_path_missing", "related_path_changed",
            "bound_head_behind", "source_head_behind"} :
        CASE r = "missing_binding"      -> a.bound = Null
          [] r = "related_path_missing" -> MissingFiles(a) # {}
          [] r = "related_path_changed" -> ChangedFiles(a) # {}
          [] r = "bound_head_behind"    -> IsBehind(a) /\ a.bound # Null
          [] r = "source_head_behind"   -> IsBehind(a) /\ a.bound = Null}
Affected(a) == MissingFiles(a) \cup ChangedFiles(a)
ArtifactItem(scope, type, id, reasons, affected) ==
    LET a == artifacts[id]
    IN  Item(scope, type, id, a.title, reasons, affected,
             [head |-> HeadSha, snapshot |-> Null, anchor |-> Anchor(a), bound |-> a.bound,
              artifact |-> id, goal |-> a.goal])

Shown(id, options) ==
    LET a == artifacts[id]
    IN  /\ options.goal \in {Null, a.goal}
        /\ options.session \in {Null, a.session}
        /\ a.paths = {} \/ \E p \in a.paths : Matches(options.path, p)
Trusted(id) == artifacts[id].status \in {"reviewed", "promoted"}

MemoryItems(options) ==
    {ArtifactItem("memory", "memoryArtifact", id, ArtifactReasons(artifacts[id]),
                  Affected(artifacts[id])) :
        id \in {i \in DOMAIN artifacts :
                  artifacts[i].scope = "session" /\ Trusted(i) /\ Shown(i, options)}}

\* A suite also depends on its resources and on the failures of its runs.
StaleDependencies(suite) ==
    {ref \in suite.refs : \/ ref \notin DOMAIN artifacts \/ ~Trusted(ref)
                          \/ Status(ArtifactReasons(artifacts[ref])) # "fresh"}
Failures(id) ==
    {f \in DOMAIN artifacts :
        /\ artifacts[f].scope = "harness" /\ artifacts[f].kind = "failure"
        /\ artifacts[f].suite = id
        /\ artifacts[f].status \in {"captured", "reviewed", "promoted"}}
SuiteItem(id) ==
    LET suite == artifacts[id]
        stale == StaleDependencies(suite)
        reasons == ArtifactReasons(suite)
                   \cup {r \in {"dependency_stale"} : stale # {}}
                   \cup {r \in {"failure_evidence_present"} : Failures(id) # {}}
    IN  ArtifactItem("harness", "harnessSuite", id, reasons,
                     Affected(suite) \cup UNION {artifacts[x].paths :
                         x \in (stale \cap DOMAIN artifacts) \cup Failures(id)})
SuiteItems(options) ==
    {SuiteItem(id) : id \in {i \in DOMAIN artifacts :
        /\ artifacts[i].scope = "harness" /\ artifacts[i].kind = "suite"
        /\ Trusted(i) /\ Shown(i, options)}}

-----------------------------------------------------------------------------
\* runDrift: the worst first, then by scope, type and title, and cut.
StatusPriority(status) == CHOOSE i \in 1..3 : <<"stale", "suspect", "fresh">>[i] = status
TypePriority(type) ==
    CHOOSE i \in 1..4 : <<"baseline", "document", "harnessSuite", "memoryArtifact">>[i] = type
ItemKey(item) == <<StatusPriority(item.status), TypePriority(item.type), item.title, item.id>>
WorstFirst(items) == InOrder(items, [item \in items |-> ItemKey(item)])
DriftItems(options) ==
    LET in(scope) == options.scope \in {"all", scope}
        items == (IF in("durable") THEN BaselineItems \cup DocumentItems(options) ELSE {})
                 \cup (IF in("memory") THEN MemoryItems(options) ELSE {})
                 \cup (IF in("harness") THEN SuiteItems(options) ELSE {})
    IN  Limited(WorstFirst(items), options.maxCount)

-----------------------------------------------------------------------------
\* buildRepairPlan. What is safe is planned, what needs a decision is blocked.
Action(kind, item, status, request) ==
    [action |-> kind, item |-> item, status |-> status, request |-> request]
FullIngest == [all |-> TRUE, paths |-> {}, scope |-> "durable"]
Targeted(paths) == [all |-> FALSE, paths |-> paths, scope |-> "durable"]

\* mutant: only a repository without any snapshot is read in full.
NeedsFullIngestWithoutAnchor(items) ==
    \E i \in DOMAIN items : items[i].type = "baseline" /\ "no_baseline" \in items[i].reasons
NeedsFullIngest(items) ==
    \E i \in DOMAIN items :
        /\ items[i].type = "baseline"
        /\ items[i].reasons \cap {"no_baseline", "missing_manifest_anchor"} # {}
TargetedPaths(items) ==
    UNION {items[i].affected : i \in {j \in DOMAIN items :
        items[j].type = "document" /\ "tracked_path_changed" \in items[j].reasons}}
IngestActions(items) ==
    IF NeedsFullIngest(items) THEN {Action("ingest", 0, "planned", FullIngest)}
    ELSE IF TargetedPaths(items) = {} THEN {}
         ELSE {Action("ingest", 0, "planned", Targeted(TargetedPaths(items)))}

RefreshReasons == {"related_path_changed", "related_path_missing", "source_head_behind",
                   "bound_head_behind"}
ManualActions(item) ==
    CASE item.scope = "memory" ->
           {a \in {"doc-refresh", "artifact-review", "memory-promote"} :
               CASE a = "doc-refresh"     -> item.reasons \cap RefreshReasons # {}
                 [] a = "artifact-review" -> "missing_binding" \in item.reasons
                 [] a = "memory-promote"  -> /\ item.reasons # {}
                                             /\ artifacts[item.id].status = "reviewed"}
      [] item.scope = "harness" -> {a \in {"harness-run"} :
                                      "failure_evidence_present" \in item.reasons}
      [] OTHER -> {}
VerifyActions(item) ==
    IF item.scope = "harness" /\ item.reasons \cap {"dependency_stale", "failure_evidence_present"} # {}
    THEN {Action("harness-verify", item.id, "planned", Null)} ELSE {}

RepairPlan(options) ==
    LET items == DriftItems(options)
        all == IngestActions(items)
               \cup UNION {VerifyActions(items[i])
                           \cup {Action(a, items[i].id, "blocked", Null) :
                                   a \in ManualActions(items[i])} : i \in DOMAIN items}
    IN  {a \in all : options.actions = {} \/ a.action \in options.actions}

\* runRepair --apply: a verification changes nothing, and an ingest that cannot be
\* run is reported as failed.
PlannedIngests(options) == {a \in RepairPlan(options) : a.action = "ingest"}
Repair(options) ==
    \E a \in PlannedIngests(options) : CanIngest(a.request) /\ RunIngest(a.request)

-----------------------------------------------------------------------------
\* log.ts: what a snapshot changed since the one before it.
PreviousIndexed(c) ==
    LET older == {d \in Indexed : d < c} IN IF older = {} THEN Null ELSE Max(older)
OfType(docs, type) ==
    Restricted(docs, {p \in DOMAIN docs : type \in {Null, docs[p].type}})
Filtered(docs, options) ==
    LET typed == OfType(docs, options.docType)
    IN  Restricted(typed, {p \in DOMAIN typed : Matches(options.path, p)})
\* mutant: documents that are gone are left out.
ChangedDocsWithoutDeleted(current, previous) ==
    {[path |-> p, status |-> IF p \in DOMAIN previous THEN "M" ELSE "A", type |-> current[p].type] :
        p \in {q \in DOMAIN current : q \notin DOMAIN previous \/ previous[q] # current[q]}}
ChangedDocs(current, previous) ==
    {[path |-> p, status |-> "A", type |-> current[p].type] :
        p \in DOMAIN current \ DOMAIN previous}
    \cup {[path |-> p, status |-> "M", type |-> current[p].type] :
        p \in {q \in DOMAIN current \cap DOMAIN previous : current[q] # previous[q]}}
    \cup {[path |-> p, status |-> "D", type |-> previous[p].type] :
        p \in DOMAIN previous \ DOMAIN current}

\* logSemantic.ts: the artifacts the manifest lists, as they are now.
BeliefKinds == {"feedback", "constraint", "insight", "oracle", "checker", "rubric", "envAssumption"}
LoopKinds == {"openLoop", "failure"}
InOverlay(id, c, options) ==
    /\ \/ options.path = Null /\ options.docType = Null
       \/ \E p \in artifacts[id].paths : Matches(options.path, p)
    /\ \/ options.docType = Null
       \/ \E p \in artifacts[id].paths \cap DOMAIN manifests[c].docs :
            manifests[c].docs[p].type = options.docType
Overlay(c, options) ==
    LET listed == {id \in manifests[c].entries : InOverlay(id, c, options)}
    IN  [listed |-> listed,
         beliefs |-> {id \in listed : /\ artifacts[id].status = "reviewed"
                                      /\ artifacts[id].kind \in BeliefKinds},
         openLoops |-> {id \in listed : Live(id) /\ artifacts[id].kind \in LoopKinds}]

LogEntry(c, options) ==
    LET previous == PreviousIndexed(c)
        current == Filtered(manifests[c].docs, options)
        before == IF previous = Null THEN <<>> ELSE Filtered(manifests[previous].docs, options)
    IN  [commit |-> c, previous |-> previous, docs |-> Cardinality(DOMAIN current),
         types |-> {current[p].type : p \in DOMAIN current},
         changed |-> ChangedDocs(current, before), overlay |-> Overlay(c, options)]
HasContent(entry) ==
    entry.docs > 0 \/ entry.changed # {} \/ entry.types # {} \/ entry.overlay.listed # {}
Missing(c) == [commit |-> c, previous |-> Null, docs |-> 0, types |-> {}, changed |-> {},
               overlay |-> [listed |-> {}, beliefs |-> {}, openLoops |-> {}]]
Log(options) ==
    LET filtered == options.docType # Null \/ options.path # Null
        entry(c) == IF c \in Indexed THEN LogEntry(c, options) ELSE Missing(c)
        shown(c) == IF c \in Indexed THEN ~filtered \/ HasContent(entry(c))
                    ELSE options.showMissing
        order == Kept([i \in 1..HEAD |-> HEAD + 1 - i], {c \in 1..HEAD : shown(c)})
    IN  Limited([i \in DOMAIN order |-> entry(order[i])], options.maxCount)
LogOptions == [path |-> Null, docType |-> Null, showMissing |-> FALSE, maxCount |-> Null]

-----------------------------------------------------------------------------
\* repair plans an ingest exactly when HEAD has no snapshot; that ingest can be run,
\* and leaves a snapshot of all that is documented at HEAD (repair.ts:104: the plan
\* is made from drift items, and the ingest has its own conditions).
RepairIndexesHead ==
    LET planned == PlannedIngests(NoOptions)
    IN  HEAD > 0 =>
          /\ planned = {} <=> HEAD \in Indexed
          /\ \A a \in planned :
               CanIngest(a.request) /\ IngestDocs(a.request) = Read(DOMAIN Tree(HEAD))
=============================================================================
