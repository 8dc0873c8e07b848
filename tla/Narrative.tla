----------------------------- MODULE Narrative -----------------------------
(***************************************************************************)
(* The narrative report: the decisions the snapshots record, linked into   *)
(* threads, with the intents and events around them (narrative-model.ts),  *)
(* and what drift says of each (narrative.ts).                             *)
(*                                                                         *)
(* A document has no artifact id, so a node has no goal, session or path   *)
(* of its own but its document's, and the "explicit" predecessor and the   *)
(* narrowing of the heuristic by goal never happen.                        *)
(***************************************************************************)
EXTENDS Drift

CONSTANT Window   \* --max-commits: how many snapshots are read

ASSUME WindowAssumption == Window \in Nat

DecisionTypes == {"adr", "plan", "spec", "pbd"}
IntentKinds == {"feedback", "constraint", "insight", "openLoop", "failure"}
EventOrder == <<"artifact.review", "harness.capture", "harness.run", "ingest.completed",
                "memory.wrap", "session.materialize">>

\* collectSelectedSnapshots, newest first.
Selected == Limited(IndexedNewestFirst, Window)
Oldest == Selected[Len(Selected)]
Newest == Selected[1]

-----------------------------------------------------------------------------
\* The decisions each snapshot adds, modifies or deletes, oldest first; for the
\* oldest snapshot all of them are added.
Decisions(docs) == Restricted(docs, {p \in DOMAIN docs : docs[p].type \in DecisionTypes})
DecisionChanges(current, previous) ==
    {[path |-> p, change |-> "added", doc |-> current[p]] :
        p \in DOMAIN current \ DOMAIN previous}
    \cup {[path |-> p, change |-> "modified", doc |-> current[p]] :
        p \in {q \in DOMAIN current \cap DOMAIN previous : current[q] # previous[q]}}
    \cup {[path |-> p, change |-> "deleted", doc |-> previous[p]] :
        p \in DOMAIN previous \ DOMAIN current}
RawNode(index, change) ==
    LET c == Selected[Len(Selected) + 1 - index]
    IN  [index |-> index, commit |-> c, authoredAt |-> AuthoredAt(c), path |-> change.path,
         change |-> change.change, type |-> change.doc.type, title |-> change.doc.title]
DocsAt(index) == manifests[Selected[Len(Selected) + 1 - index]].docs
\* mutant: the oldest snapshot only serves as the base of the next one.
ChangesFromSecond(index) ==
    IF index = 1 THEN {} ELSE DecisionChanges(Decisions(DocsAt(index)), Decisions(DocsAt(index - 1)))
ChangesAt(index) ==
    DecisionChanges(Decisions(DocsAt(index)),
                    IF index = 1 THEN <<>> ELSE Decisions(DocsAt(index - 1)))
ChangedNodes ==
    UNION {{RawNode(i, change) : change \in ChangesAt(i)} : i \in 1..Len(Selected)}

-----------------------------------------------------------------------------
\* The intents of the window: trusted artifacts anchored at one of its snapshots.
\* Without an anchor an artifact would need a node of its goal.
Intents ==
    LET ids == {id \in DOMAIN artifacts : /\ artifacts[id].kind \in IntentKinds /\ Trusted(id)
                                          /\ Anchor(artifacts[id]) \in ToSet(Selected)}
    IN  InOrder(ids, [id \in ids |-> <<artifacts[id].createdAt, id>>])

\* Documents an intent names that did not change in the window, where they are newest.
SupportNodes(changed) ==
    LET named == UNION {artifacts[id].paths : id \in ToSet(Intents)}
        holds(p, i) == p \in DOMAIN DocsAt(i) /\ DocsAt(i)[p].type \in DecisionTypes
        paths == {p \in named \ {n.path : n \in changed} :
                    \E i \in 1..Len(Selected) : holds(p, i)}
        place(p) == Max({i \in 1..Len(Selected) : holds(p, i)})
    IN  {RawNode(place(p), [path |-> p, change |-> "related", doc |-> DocsAt(place(p))[p]]) :
            p \in paths}
\* addSupportNodes takes the place of the snapshot from the list that is newest first.
SupportIndex(node) == [node EXCEPT !.index = Len(Selected) + 1 - node.index]
RawNodes == ChangedNodes \cup {SupportIndex(n) : n \in SupportNodes(ChangedNodes)}

-----------------------------------------------------------------------------
\* assignNarrativeThreads: a node follows the latest older node of its path, or
\* else the only node of the snapshot before it with its type and title.
OlderOfPath(nodes, raw) == {i \in DOMAIN nodes : nodes[i].path = raw.path}
SameTitleBefore(nodes, raw) ==
    {i \in DOMAIN nodes : /\ nodes[i].index = raw.index - 1
                          /\ nodes[i].type = raw.type /\ nodes[i].title = raw.title}
Predecessor(nodes, raw) ==
    LET older == OlderOfPath(nodes, raw)
        titled == SameTitleBefore(nodes, raw)
    IN  CASE older # {} -> [node |-> Max(older), relation |-> "path-continuity"]
          [] older = {} /\ Cardinality(titled) = 1 ->
               [node |-> Max(titled), relation |-> "heuristic-high"]
          [] OTHER -> [node |-> Null, relation |-> "root"]
AppendNode(nodes, raw) ==
    LET previous == Predecessor(nodes, raw)
        id == Len(nodes) + 1
    IN  Append(nodes, With(raw, [id |-> id, predecessor |-> previous.node,
                                 relation |-> previous.relation,
                                 thread |-> IF previous.node = Null THEN id
                                            ELSE nodes[previous.node].thread]))
NodeOrder(raw) == InOrder(raw, [n \in raw |-> <<n.index, n.path>>])
Linked(raw) ==
    LET nodes[i \in 0..Len(raw)] ==
            IF i = 0 THEN <<>> ELSE AppendNode(nodes[i - 1], raw[i])
    IN  nodes[Len(raw)]
Nodes == Linked(NodeOrder(RawNodes))

\* buildThreads, by the title of the latest node.
NodesOf(nodes, thread) == Kept(nodes, {n \in ToSet(nodes) : n.thread = thread})
Thread(nodes, id) ==
    LET own == NodesOf(nodes, id)
    IN  [id |-> id, title |-> Last(own).title, type |-> Last(own).type,
         paths |-> {own[i].path : i \in DOMAIN own}, firstPath |-> own[1].path,
         commits |-> {own[i].commit : i \in DOMAIN own}, lastCommit |-> Last(own).commit,
         relation |-> own[1].relation]
Threads(nodes) ==
    LET threads == {Thread(nodes, nodes[i].thread) : i \in DOMAIN nodes}
    IN  InOrder(threads, [t \in threads |-> <<t.title, t.id>>])

\* attachIntentItems: to the threads of its files, or else of its anchor.
ThreadsWhere(threads, Test(_)) == LET found == Kept(threads, {t \in ToSet(threads) : Test(t)})
                                  IN  [i \in DOMAIN found |-> found[i].id]
IntentItem(threads, id) ==
    LET a == artifacts[id]
        byPath == ThreadsWhere(threads, LAMBDA t : t.paths \cap a.paths # {})
        byAnchor == ThreadsWhere(threads, LAMBDA t : Anchor(a) \in t.commits)
    IN  [id |-> id, title |-> a.title, status |-> a.status, paths |-> a.paths, goal |-> a.goal,
         anchor |-> Anchor(a), createdAt |-> a.createdAt, session |-> a.session,
         threads |-> IF byPath # <<>> THEN byPath ELSE byAnchor]

\* selectNarrativeEvents and attachTimelineEvents.
Events ==
    IF Selected = <<>> THEN <<>>
    ELSE LET place(e) == CHOOSE i \in DOMAIN EventOrder : EventOrder[i] = e.type
             events == {e \in ledger : \/ e.head \in ToSet(Selected)
                                       \/ AuthoredAt(Oldest) <= e.at /\ e.at <= AuthoredAt(Newest)}
         IN  InOrder(events, [e \in events |-> <<e.at, place(e), e.ref>>])
EventItem(threads, event) ==
    With(event, [threads |-> ThreadsWhere(threads, LAMBDA t : \/ event.head \in t.commits
                                                              \/ t.paths \cap event.paths # {})])

\* A report keeps goals and sessions to itself: what belongs to one is marked instead.
Sensitivity(item) ==
    IF item.goal = Null /\ item.session = Null THEN "standard" ELSE "restricted"
Projected(item) == With(Restricted(item, DOMAIN item \ {"goal", "session"}),
                        [sensitivity |-> Sensitivity(item)])
Unbound == [goal |-> Null, session |-> Null]

\* A model before drift is applied has no freshness and no validation.
NoOverlay == [freshness |-> Null, validation |-> Null]
Synthesis ==
    LET nodes == Nodes
        threads == Threads(nodes)
        intents == Intents
        events == Events
    IN  [snapshots |-> Selected,
         nodes |-> [i \in DOMAIN nodes |-> With(Projected(With(nodes[i], Unbound)), NoOverlay)],
         threads |-> [i \in DOMAIN threads |->
                        With(Projected(With(threads[i], Unbound)), NoOverlay)],
         intents |-> [i \in DOMAIN intents |->
                        With(Projected(IntentItem(threads, intents[i])), NoOverlay)],
         events |-> [i \in DOMAIN events |-> Projected(EventItem(threads, events[i]))]]

-----------------------------------------------------------------------------
\* narrative.ts, applyDriftOverlay: what drift found of the same commit or files.
NoCommit == {Null}
HitsNode(item, node) ==
    /\ item.type = "document"
    /\ \/ node.path \in item.affected
       \/ node.commit \in {item.refs.snapshot, item.refs.anchor, item.refs.bound, item.refs.head}
HitsIntent(item, intent) ==
    /\ item.type = "memoryArtifact"
    /\ \/ item.refs.artifact = intent.id
       \/ item.affected \cap intent.paths # {}
       \/ intent.anchor \in {item.refs.snapshot, item.refs.anchor} \ NoCommit

Worst(statuses) ==
    CASE "stale" \in statuses -> "stale"
      [] "stale" \notin statuses /\ "suspect" \in statuses -> "suspect"
      [] OTHER -> "fresh"
Freshness(items, hits) ==
    Worst({items[i].status : i \in hits}
          \cup (IF Baseline.reasons # {} THEN {"suspect"} ELSE {}))
NodeHits(items, node) == {i \in DOMAIN items : HitsNode(items[i], node)}
IntentHits(items, intent) == {i \in DOMAIN items : HitsIntent(items[i], intent)}

PartsOf(model, thread) ==
    [nodes |-> {model.nodes[i] : i \in {j \in DOMAIN model.nodes :
                                           model.nodes[j].thread = thread.id}},
     intents |-> {model.intents[i] : i \in {j \in DOMAIN model.intents :
                                               thread.id \in ToSet(model.intents[j].threads)}}]
\* mutant: a thread only looks at its nodes.
ThreadHitByNodes(model, thread, item) ==
    \E n \in PartsOf(model, thread).nodes : HitsNode(item, n)
HitsThread(model, thread, item) ==
    \/ \E n \in PartsOf(model, thread).nodes : HitsNode(item, n)
    \/ \E x \in PartsOf(model, thread).intents : HitsIntent(item, x)

ThreadHits(model, items, thread) == {i \in DOMAIN items : HitsThread(model, thread, items[i])}

WithFreshness(model, items) ==
    [model EXCEPT
       !.nodes = [i \in DOMAIN @ |->
         [@[i] EXCEPT !.freshness = Freshness(items, NodeHits(items, model.nodes[i]))]],
       !.intents = [i \in DOMAIN @ |->
         [@[i] EXCEPT !.freshness = Freshness(items, IntentHits(items, model.intents[i]))]],
       !.threads = [i \in DOMAIN @ |->
         [@[i] EXCEPT !.freshness = Freshness(items, ThreadHits(model, items, model.threads[i]))]]]

-----------------------------------------------------------------------------
\* applyValidationOverlay: each entity is matched with at most one harness suite.
ArtifactAnchors(a) == {a.bound, a.source} \ NoCommit
ThreadContext(model, thread) ==
    LET intents == PartsOf(model, thread).intents
    IN  [paths |-> UNION {artifacts[x.id].paths : x \in intents}, goals |-> {},
         anchors |-> UNION {ArtifactAnchors(artifacts[x.id]) : x \in intents}]
FullThreadContext(model, thread) ==
    LET context == ThreadContext(model, thread)
    IN  [context EXCEPT !.paths = @ \cup thread.paths, !.anchors = @ \cup thread.commits]
ThreadOf(model, id) == LET i == CHOOSE j \in DOMAIN model.threads : model.threads[j].id = id
                       IN  model.threads[i]
NodeContext(model, node) ==
    LET context == FullThreadContext(model, ThreadOf(model, node.thread))
    IN  [context EXCEPT !.paths = @ \cup {node.path}, !.anchors = @ \cup {node.commit}]
IntentContext(model, intent) ==
    LET contexts == {ThreadContext(model, ThreadOf(model, t)) : t \in ToSet(intent.threads)}
    IN  [paths |-> intent.paths \cup UNION {c.paths : c \in contexts},
         goals |-> {artifacts[intent.id].goal} \ {Null},
         anchors |-> ArtifactAnchors(artifacts[intent.id])
                     \cup UNION {c.anchors : c \in contexts}]

\* findValidationCandidate: the first rule that matches any suite must match one.
CandidateAnchors(item) ==
    {item.refs.anchor, item.refs.snapshot, item.refs.head, item.refs.bound} \ NoCommit
Candidates(context, suites) ==
    << {s \in suites : s.affected \cap context.paths # {}},
       {s \in suites : s.refs.goal \in context.goals},
       {s \in suites : CandidateAnchors(s) \cap context.anchors # {}} >>
Candidate(context, suites) ==
    LET matching == SelectSeq(Candidates(context, suites), LAMBDA found : found # {})
    IN  IF matching = <<>> \/ Cardinality(matching[1]) > 1 THEN {} ELSE matching[1]
Validation(context, suites) ==
    LET found == Candidate(context, suites)
    IN  IF found = {} THEN "unverified"
        ELSE IF \E s \in found : s.status = "fresh" THEN "verified" ELSE "attention"
Combined(statuses) ==
    CASE "attention" \in statuses -> "attention"
      [] "attention" \notin statuses /\ "verified" \in statuses -> "verified"
      [] OTHER -> "unverified"

WithValidation(model, items) ==
    LET suites == {items[i] : i \in {j \in DOMAIN items : items[j].type = "harnessSuite"}}
        ofNode(n) == Validation(NodeContext(model, n), suites)
        ofIntent(x) == Validation(IntentContext(model, x), suites)
        ofThread(t) ==
          Combined({Validation(FullThreadContext(model, t), suites)}
                   \cup {ofNode(n) : n \in PartsOf(model, t).nodes}
                   \cup {ofIntent(x) : x \in PartsOf(model, t).intents})
    IN  [model EXCEPT
           !.nodes = [i \in DOMAIN @ |-> [@[i] EXCEPT !.validation = ofNode(model.nodes[i])]],
           !.intents = [i \in DOMAIN @ |-> [@[i] EXCEPT !.validation = ofIntent(model.intents[i])]],
           !.threads = [i \in DOMAIN @ |-> [@[i] EXCEPT !.validation = ofThread(model.threads[i])]]]

-----------------------------------------------------------------------------
\* Replaying the nodes of the window, path by path, gives the decisions of its newest
\* snapshot; a path stays in one thread, a node follows an older one of its thread,
\* and no document has to be added as merely related (narrative-model.ts:1096-1291).
Replays(nodes, newest) ==
    LET ofPath(p) == {i \in DOMAIN nodes : nodes[i].path = p}
        paths == {nodes[i].path : i \in DOMAIN nodes}
        final(p) == nodes[Max(ofPath(p))]
    IN  /\ {p \in paths : final(p).change # "deleted"} = DOMAIN newest
        /\ \A p \in DOMAIN newest : final(p).title = newest[p].title
        /\ \A p \in paths : \A i, j \in ofPath(p) : nodes[i].thread = nodes[j].thread
        /\ \A i \in DOMAIN nodes :
             LET n == nodes[i]
             IN  /\ n.change # "related"
                 /\ IF n.predecessor = Null THEN n.thread = i
                    ELSE /\ nodes[n.predecessor].index < n.index
                         /\ nodes[n.predecessor].thread = n.thread
LineageReplays ==
    Selected # <<>> => Replays(Nodes, Decisions(DocsAt(Len(Selected))))

\* log and the narrative compare two snapshots on their own, and agree on which
\* decisions changed between them (log.ts:256, narrative-model.ts:1030), also when
\* log is asked for the path or the type of such a decision only.
LogAgreesWithNarrative ==
    LET changes == {n \in ChangedNodes : n.index > 1}
        changedIn(entry) == {x.path : x \in entry.changed}
        listed(n, options) == \E entry \in ToSet(Log(options)) :
                                entry.commit = n.commit /\ n.path \in changedIn(entry)
    IN  /\ \A i \in 2..Len(Selected) :
             LET c == Selected[Len(Selected) + 1 - i]
                 decided == DOMAIN Decisions(DocsAt(i - 1)) \cup DOMAIN Decisions(DocsAt(i))
             IN  changedIn(LogEntry(c, LogOptions)) \cap decided
                   = {n.path : n \in {m \in changes : m.index = i}}
        /\ \A n \in changes : /\ listed(n, [LogOptions EXCEPT !.path = {n.path}])
                              /\ listed(n, [LogOptions EXCEPT !.docType = n.type])
=============================================================================
