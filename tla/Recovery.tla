------------------------------ MODULE Recovery ------------------------------
(***************************************************************************)
(* What a narrative report says to the one who takes over: what to do now, *)
(* what to trust, and how the project got here (recovery-view.ts,          *)
(* recovery-profile.ts), and the report as a whole (runNarrativeReport).   *)
(*                                                                         *)
(* A report is a file that ragit does not read again; the explorer does.   *)
(***************************************************************************)
EXTENDS Narrative, Retrieval

CONSTANTS
    Maxima,      \* how long each list may be: [now, hits, decisions, profileNow,
                 \* trust, profileTrust, steps, profileSteps]
    RecallTopK   \* memory.recall_top_k

ASSUME MaximaAssumption ==
    \A list \in {"now", "hits", "decisions", "profileNow", "trust", "profileTrust", "steps",
                 "profileSteps"} : Maxima[list] \in Nat

VARIABLE report  \* the model written by --emit-model

Mapped(seq, Op(_)) == [i \in DOMAIN seq |-> Op(seq[i])]
FirstOf(seq) == IF seq = <<>> THEN Null ELSE seq[1]
\* The least path stands for the first one.
LeastOf(paths) == IF paths = {} THEN Null ELSE Min(paths)

-----------------------------------------------------------------------------
\* Threads, nodes, intents and events as items to trust or not.
TrustItem(kind, id, title, thread, path, snapshot, part, trust, lineage) ==
    [kind |-> kind, id |-> id, title |-> title, thread |-> thread, path |-> path,
     snapshot |-> snapshot, freshness |-> part.freshness, validation |-> part.validation,
     trust |-> trust, sensitivity |-> part.sensitivity, lineage |-> lineage]
ThreadItem(t) == TrustItem("thread", t.id, t.title, t.id, t.firstPath, t.lastCommit, t,
                           "durable-doc", t.relation)
NodeItem(n) == TrustItem("node", n.id, n.title, n.thread, n.path, n.commit, n,
                         "durable-doc", n.relation)
IntentTrustItem(x) ==
    TrustItem("intent", x.id, x.title, FirstOf(x.threads), LeastOf(x.paths), x.anchor, x,
              IF x.status = "promoted" THEN "promoted-artifact" ELSE "reviewed-artifact", Null)
\* The title of an event is its type.
EventPlace(e) == CHOOSE i \in DOMAIN EventOrder : EventOrder[i] = e.type
EventId(e) == 10000 * e.at + 1000 * EventPlace(e) + e.ref
EventTrustItem(e) ==
    TrustItem("event", EventId(e), EventPlace(e), FirstOf(e.threads),
              LeastOf(e.paths), e.head, With(e, NoOverlay), "operational-event", Null)

\* The worse an item is the higher it ranks, then by title.
Weight(weights, value) == IF value \in DOMAIN weights THEN weights[value] ELSE 0
\* mutant: what is out of date does not count.
ScoreWithoutFreshness(item) ==
    Weight([attention |-> 220, unverified |-> 140, verified |-> 30], item.validation)
    + (CASE item.trust = "durable-doc" -> 40 [] item.trust = "promoted-artifact" -> 30
         [] OTHER -> 0)
    + (CASE item.lineage = "path-continuity" -> 20 [] item.lineage = "heuristic-high" -> 10
         [] OTHER -> 0)
    - (IF item.kind = "event" THEN 30 ELSE 0)
Score(item) ==
    Weight([attention |-> 220, unverified |-> 140, verified |-> 30], item.validation)
    + Weight([stale |-> 180, suspect |-> 110], item.freshness)
    + (CASE item.trust = "durable-doc" -> 40 [] item.trust = "promoted-artifact" -> 30
         [] OTHER -> 0)
    + (CASE item.lineage = "path-continuity" -> 20 [] item.lineage = "heuristic-high" -> 10
         [] OTHER -> 0)
    - (IF item.kind = "event" THEN 30 ELSE 0)
Assigned(model) == Kept(model.intents, {x \in ToSet(model.intents) : x.threads # <<>>})
Unassigned(model) == Kept(model.intents, {x \in ToSet(model.intents) : x.threads = <<>>})
TrustCandidates(model) ==
    Mapped(model.threads, ThreadItem) \o Mapped(model.nodes, NodeItem)
    \o Mapped(Assigned(model), IntentTrustItem) \o Mapped(Unassigned(model), IntentTrustItem)
    \o Mapped(model.events, EventTrustItem)
TrustItems(model) ==
    LET items == TrustCandidates(model)
    IN  Limited(Sorted(items, [i \in DOMAIN items |-> <<-Score(items[i]), items[i].title>>]),
                Maxima.trust)

-----------------------------------------------------------------------------
\* What to do now: the working memory, the latest session and what is recalled for
\* the goal of either. Without a goal nothing is recalled.
RecoveryGoal == IF working # Null THEN working.goal
                ELSE IF latest # Null THEN latest.goal ELSE Null
RecoverySource == IF working # Null THEN "working-memory"
                  ELSE IF latest # Null THEN "latest-session" ELSE "none"
Remembered(field) ==
    (IF working # Null THEN working[field] ELSE <<>>)
    \o (IF latest # Null THEN latest[field] ELSE <<>>)
OpenLoops == IF working # Null THEN ActiveLoops(working.openLoops)
             ELSE IF latest # Null THEN ActiveLoops(latest.openLoops) ELSE <<>>
HitKey(hit) == <<IF hit.origin = "document" THEN 1 ELSE 2, hit.id,
                 IF hit.at = Null THEN 0 ELSE hit.at>>
HitsInOrder(answer) == InOrder(answer, [hit \in answer |-> HitKey(hit)])
\* recallMemory makes a decision of each ADR and each artifact it finds.
DecisionOf(hit) == <<hit.origin, hit.id, hit.at>>
RecalledDecisions(hits) ==
    LET adrs == {h \in ToSet(hits) : h.origin = "document" /\ h.chunk.version.type = "adr"}
        own == {h \in ToSet(hits) : h.origin = "artifact"}
    IN  Mapped(Kept(hits, adrs) \o Kept(hits, own), DecisionOf)
Memorized(decision) == <<"memory", decision, Null>>

NowItem(kind, id, source, thread, path, snapshot, part) ==
    [kind |-> kind, id |-> id, source |-> source, thread |-> thread, path |-> path,
     snapshot |-> snapshot, freshness |-> part.freshness, validation |-> part.validation]
Plain(kind, id) == NowItem(kind, id, RecoverySource, Null, Null, Null, NoOverlay)
Noted(kind, text) == Plain(kind, <<kind, text, Null>>)
NowItems(hits, trusted) ==
    LET decisions == Limited(Distinct(Mapped(Remembered("decisions"), Memorized)
                                      \o RecalledDecisions(hits)), Maxima.decisions)
        hitItem(h) == NowItem("retrieval-hit", <<h.origin, h.id, h.at>>, "recall", Null,
                              IF h.origin = "document" THEN h.id ELSE Null,
                              IF Selectable(Null) THEN HEAD ELSE Null, NoOverlay)
        trustItem(x) == NowItem(IF x.kind = "intent" THEN "intent" ELSE "thread",
                                <<x.kind, x.id, Null>>, "narrative", x.thread, x.path, x.snapshot, x)
    IN  Limited(Mapped(OpenLoops, LAMBDA l : Noted("open-loop", l.id))
                \o Mapped(Distinct(Remembered("nextActions")), LAMBDA a : Noted("next-action", a))
                \o Mapped(Distinct(Remembered("constraints")), LAMBDA c : Noted("constraint", c))
                \o Mapped(decisions, LAMBDA d : Plain("decision", d))
                \o Mapped(Limited(hits, Maxima.hits), hitItem)
                \o Mapped(Limited(trusted, 4), trustItem),
                Maxima.now)

-----------------------------------------------------------------------------
\* How the project got here: the latest of the sessions, nodes, intents and events,
\* oldest first. Within a moment they are in the order of their ids, which begin with
\* what the step is made of.
StepOrigins == <<"decision", "event", "intent", "memory-session", "memory-working", "snapshot">>
StepKind(origin) == IF origin \in {"memory-session", "memory-working"} THEN "memory" ELSE origin
Step(origin, id, when, thread, path, snapshot, part) ==
    [origin |-> origin, kind |-> StepKind(origin), id |-> id, when |-> when, thread |-> thread, path |-> path,
     snapshot |-> snapshot, freshness |-> part.freshness, validation |-> part.validation]
Steps(model) ==
    LET memory(origin, record) == {Step(origin, <<record.id>>, record.at, Null, Null, record.head,
                                      NoOverlay)}
    IN  (IF latest = Null THEN {} ELSE memory("memory-session", latest))
        \cup (IF working = Null \/ (latest # Null /\ latest.id = working.id) THEN {}
              ELSE memory("memory-working", working))
        \cup {Step("decision", <<n.id>>, n.authoredAt, n.thread, n.path, n.commit, n) :
                n \in ToSet(model.nodes)}
        \cup {Step("intent", <<x.id>>, x.createdAt, FirstOf(x.threads), LeastOf(x.paths),
                   x.anchor, x) : x \in ToSet(Assigned(model))}
        \cup {Step("event", <<EventPlace(e), e.ref>>, e.at, FirstOf(e.threads),
                   LeastOf(e.paths), e.head, NoOverlay) : e \in ToSet(model.events)}
StepPlace(step) == CHOOSE i \in DOMAIN StepOrigins : StepOrigins[i] = step.origin
StepKey(step) == <<-step.when, StepPlace(step), step.id[1], Last(step.id)>>
NewestFirst(steps) == InOrder(steps, [step \in steps |-> StepKey(step)])
FormationSteps(model) == Reverse(Limited(NewestFirst(Steps(model)), Maxima.steps))

RecoveryView(model, answer) ==
    LET trusted == TrustItems(model)
    IN  [source |-> RecoverySource, goal |-> RecoveryGoal,
         now |-> NowItems(HitsInOrder(answer), trusted), trust |-> trusted,
         steps |-> FormationSteps(model)]

-----------------------------------------------------------------------------
\* recovery-profile.ts scores what the view kept again, and adds the snapshots.
ProfileScore(item) ==
    Weight([attention |-> 240, unverified |-> 160, verified |-> 20], item.validation)
    + Weight([stale |-> 180, suspect |-> 120], item.freshness)
    + (CASE item.trust = "durable-doc" -> 40 [] item.trust = "promoted-artifact" -> 30
         [] item.trust = "reviewed-artifact" -> 20 [] OTHER -> 0)
    + (IF item.lineage = "path-continuity" THEN 10 ELSE 0)
    - (IF item.kind = "event" THEN 20 ELSE 0)
Ranked(items) ==
    Sorted(items, [i \in DOMAIN items |-> <<-ProfileScore(items[i])>>])
SnapshotStep(c) == Step("snapshot", <<c>>, AuthoredAt(c), Null, Null, c, NoOverlay)
Profile(model, view) ==
    [source |-> view.source, goal |-> view.goal,
     now |-> Limited(Distinct(view.now), Maxima.profileNow),
     trust |-> Limited(Ranked(Distinct(view.trust)), Maxima.profileTrust),
     steps |-> Limited(NewestFirst(ToSet(view.steps)
                                   \cup {SnapshotStep(c) : c \in ToSet(model.snapshots)}),
                       Maxima.profileSteps)]

-----------------------------------------------------------------------------
\* The report: the synthesis, what drift says of it, and the recovery built from both.
Overlaid(model) == LET items == DriftItems(NoOptions)
                   IN  WithValidation(WithFreshness(model, items), items)
Report ==
    LET model == Overlaid(Synthesis)
    IN  \E answer \in (IF RecoveryGoal = Null THEN {{}} ELSE RecallAnswers(RecoveryGoal, RecallTopK)) :
          report' = [model |-> model, recovery |-> Profile(model, RecoveryView(model, answer))]

-----------------------------------------------------------------------------
\* A thread is never shown in a better light than a node or an intent of it, and
\* what is listed as worth trusting or not carries the statuses of the thread, node
\* or intent it stands for (narrative.ts:1993, where three passes rebuild the model).
Severity(status) == CASE status = "stale" -> 2 [] status = "suspect" -> 1 [] status = "fresh" -> 0
Subjects(model, kind) ==
    CASE kind = "thread" -> ToSet(model.threads)
      [] kind = "node"   -> ToSet(model.nodes)
      [] kind = "intent" -> ToSet(model.intents)
      [] kind = "event"  -> {}
OverlaysAgree ==
    report # Null =>
      LET model == report.model
      IN  /\ \A t \in ToSet(model.threads) :
               LET parts == PartsOf(model, t).nodes \cup PartsOf(model, t).intents
               IN  \A part \in parts : /\ Severity(part.freshness) <= Severity(t.freshness)
                                       /\ part.validation = "attention" => t.validation = "attention"
          /\ \A item \in ToSet(report.recovery.trust) :
               \A subject \in Subjects(model, item.kind) :
                 item.id = subject.id => /\ item.freshness = subject.freshness
                                         /\ item.validation = subject.validation
                                         /\ item.sensitivity = subject.sensitivity

\* The lists are cut, but never so that something staler is hidden behind something
\* fresher of the same validation; and the staler comes first (recovery-view.ts:177,
\* recovery-profile.ts:132, whose weights differ).
WorstShownFirst ==
    report # Null =>
      LET shown == report.recovery.trust
          same(i, subject) == /\ shown[i].kind # "event"
                              /\ shown[i].validation = subject.validation
          hidden(kind) == {s \in Subjects(report.model, kind) :
                             \A i \in DOMAIN shown : shown[i].kind # kind \/ shown[i].id # s.id}
      IN  /\ \A kind \in {"thread", "node", "intent"} : \A s \in hidden(kind) :
               \A i \in DOMAIN shown :
                 same(i, s) => Severity(s.freshness) <= Severity(shown[i].freshness)
          /\ \A i, j \in DOMAIN shown :
               (i < j /\ shown[j].kind # "event" /\ same(i, shown[j])) =>
                 Severity(shown[j].freshness) <= Severity(shown[i].freshness)
=============================================================================
