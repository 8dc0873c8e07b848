------------------------------ MODULE Explorer ------------------------------
(***************************************************************************)
(* The narrative explorer (tools/narrative-tui): a terminal program that   *)
(* reads a report once and lets its reader search and walk the three lists *)
(* of the recovery, with the detail of what was chosen last beside them.   *)
(*                                                                         *)
(* The focus only decides which widget a key goes to. A word stands for    *)
(* what is typed, and is found in the kinds and statuses of an item.       *)
(***************************************************************************)
EXTENDS Recovery

CONSTANTS
    Queries,  \* what may be typed; "" is nothing
    Scopes,   \* subset of {"all", "recover", "trust", "formation"}
    MaxOpen   \* bound: commands before a report the explorer is opened on

VARIABLES
    ui,       \* the state of the explorer, with the recovery it loaded
    chosen    \* history: the list and the item its reader moved to last

explorer == <<ui, chosen>>

-----------------------------------------------------------------------------
\* loadNarrativeModel: a word it does not know becomes another, a model without a schema
\* version has no recovery; one of another version is refused, and nothing opens.
Known(word, words, otherwise) == IF word \in words THEN word ELSE otherwise
CoerceNowItem(item) ==
    [item EXCEPT !.kind = Known(@, {"working-goal", "working-summary", "latest-session",
                                    "open-loop", "next-action", "stable-decision", "retrieval-hit",
                                    "constraint", "decision", "thread", "intent"}, "decision"),
                 !.source = Known(@, {"working-memory", "latest-session", "recall", "narrative",
                                      "none"}, "narrative")]
CoerceOverlay(part) ==
    [part EXCEPT !.freshness = Known(@, {"fresh", "suspect", "stale"}, Null),
                 !.validation = Known(@, {"verified", "attention", "unverified"}, Null)]
CoerceTrustItem(item) ==
    [CoerceOverlay(item) EXCEPT
        !.kind = Known(@, {"thread", "node", "intent", "event"}, "thread"),
        !.trust = Known(@, {"durable-doc", "reviewed-artifact", "promoted-artifact",
                            "operational-event"}, Null),
        !.sensitivity = Known(@, {"standard", "redacted", "restricted"}, Null)]
CoerceStep(step) ==
    [step EXCEPT !.kind = Known(@, {"snapshot", "thread", "intent", "event", "memory", "decision"},
                                "decision")]
CoerceRecovery(recovery) ==
    [recovery EXCEPT !.now = Mapped(@, CoerceNowItem), !.trust = Mapped(@, CoerceTrustItem),
                     !.steps = Mapped(@, CoerceStep)]
EmptyRecovery == [source |-> "none", goal |-> Null, now |-> <<>>, trust |-> <<>>, steps |-> <<>>]
Loaded(versioned) == IF versioned THEN CoerceRecovery(report.recovery) ELSE EmptyRecovery
InitialState(recovery) ==
    [recovery |-> recovery, query |-> "", scope |-> "all", now |-> Null, trust |-> Null, step |-> Null]

\* findLinkedThread: by id, then by path, then, for what to do now, by snapshot.
FirstThread(Test(_)) ==
    LET threads == Mapped(report.model.threads, CoerceOverlay)
    IN  FirstOf(Kept(threads, {t \in ToSet(threads) : Test(t)}))
LinkedThread(id, path, snapshot) ==
    LET byId == FirstThread(LAMBDA t : t.id = id)
        byPath == FirstThread(LAMBDA t : path \in t.paths)
    IN  IF byId # Null THEN byId
        ELSE IF byPath # Null THEN byPath
        ELSE FirstThread(LAMBDA t : snapshot \in t.commits)
LinkOfNow(item) == LinkedThread(item.thread, item.path, item.snapshot)
Link(item) == LinkedThread(item.thread, item.path, Null)

\* The words of an item, and the items the filter of the scope lets through.
NowWords(item) == {item.kind, item.source}
TrustWords(item) ==
    {item.kind, item.trust, item.sensitivity, item.freshness, item.validation}
StepWords(item) == {item.kind}
Visible(u, list, scope, Words(_)) ==
    IF u.scope \in {"all", scope} /\ u.query # ""
    THEN Kept(list, {item \in ToSet(list) : u.query \in Words(item)}) ELSE list
VisibleNow(u) == Visible(u, u.recovery.now, "recover", NowWords)
VisibleTrust(u) == Visible(u, u.recovery.trust, "trust", TrustWords)
VisibleSteps(u) == Visible(u, u.recovery.steps, "formation", StepWords)

\* chooseSelectedItem falls back on the first item, chooseExplicitItem on none.
SelectedNow(u) == LET visible == VisibleNow(u)
                  IN  IF u.now \in ToSet(visible) THEN u.now ELSE FirstOf(visible)
Explicit(item, visible) == IF item \in ToSet(visible) THEN item ELSE Null
SelectedTrust(u) == Explicit(u.trust, VisibleTrust(u))
SelectedStep(u) == Explicit(u.step, VisibleSteps(u))
FirstKnown(seq) == FirstOf(Kept(seq, {x \in ToSet(seq) : x # Null}))
SelectedThread(u) ==
    FirstKnown(<<IF SelectedTrust(u) = Null THEN Null ELSE Link(SelectedTrust(u)),
                 IF SelectedNow(u) = Null THEN Null ELSE LinkOfNow(SelectedNow(u)),
                 IF SelectedStep(u) = Null THEN Null ELSE Link(SelectedStep(u))>>)

\* The detail of the trust item, else of the step, else of what to do now, which
\* borrow the statuses of a thread; else of a thread.
ThreadStatus(thread) == IF thread = Null THEN NoOverlay
                        ELSE [freshness |-> thread.freshness, validation |-> thread.validation]
ShowDetail(list, item, status) ==
    [list |-> list, item |-> item, freshness |-> status.freshness, validation |-> status.validation]
Detail(u) ==
    CASE SelectedTrust(u) # Null -> ShowDetail("trust", SelectedTrust(u), SelectedTrust(u))
      [] SelectedTrust(u) = Null /\ SelectedStep(u) # Null ->
           ShowDetail("formation", SelectedStep(u),
                  ThreadStatus(FirstKnown(<<Link(SelectedStep(u)), SelectedThread(u)>>)))
      [] SelectedTrust(u) = Null /\ SelectedStep(u) = Null /\ SelectedNow(u) # Null ->
           ShowDetail("recover", SelectedNow(u),
                  ThreadStatus(FirstKnown(<<LinkOfNow(SelectedNow(u)), SelectedThread(u)>>)))
      [] OTHER -> ShowDetail("thread", SelectedThread(u), ThreadStatus(SelectedThread(u)))

-----------------------------------------------------------------------------
\* refresh, at the end of every handler: what is no longer visible is dropped.
Refreshed(u) ==
    [u EXCEPT !.now = Explicit(@, VisibleNow(u)), !.trust = Explicit(@, VisibleTrust(u)),
              !.step = Explicit(@, VisibleSteps(u))]
StillVisible(choice, u) ==
    CASE choice = Null             -> FALSE
      [] choice # Null /\ choice.list = "recover"   -> choice.item \in ToSet(VisibleNow(u))
      [] choice # Null /\ choice.list = "trust"     -> choice.item \in ToSet(VisibleTrust(u))
      [] choice # Null /\ choice.list = "formation" -> choice.item \in ToSet(VisibleSteps(u))
Filter(u) ==
    /\ ui' = Refreshed(u)
    /\ chosen' = IF StillVisible(chosen, u) THEN chosen ELSE Null

Open(versioned) ==
    /\ report # Null /\ ui = Null
    /\ ui' = Refreshed(InitialState(Loaded(versioned)))
    /\ chosen' = Null
\* An input event, or Escape in the search field.
Search(query) == ui # Null /\ query # ui.query /\ Filter([ui EXCEPT !.query = query])
ClearSearch == ui # Null /\ ui.query # "" /\ Filter([ui EXCEPT !.query = ""])
ChangeScope(scope) == ui # Null /\ scope # ui.scope /\ Filter([ui EXCEPT !.scope = scope])

\* A list moves its cursor by one and wraps; the cursor is at the selected item, or
\* on top. An empty list holds a placeholder that selects nothing.
Cursor(item, visible) == IF item \in ToSet(visible)
                         THEN CHOOSE i \in DOMAIN visible : visible[i] = item ELSE 1
MovedTo(item, visible, by) ==
    IF visible = <<>> THEN Null
    ELSE visible[1 + ((Cursor(item, visible) - 1 + by + Len(visible)) % Len(visible))]
Choose(list, item, u) ==
    /\ ui' = Refreshed(u)
    /\ chosen' = IF item = Null THEN Null ELSE [list |-> list, item |-> item]
\* mutant: the trust item stays selected.
WithNowOnly(u, item) == [u EXCEPT !.now = item, !.step = Null]
WithNow(u, item) == [u EXCEPT !.now = item, !.trust = Null, !.step = Null]
MoveNow(by) ==
    /\ ui # Null
    /\ LET item == MovedTo(ui.now, VisibleNow(ui), by)
       IN  Choose("recover", item, WithNow(ui, item))
MoveTrust(by) ==
    /\ ui # Null
    /\ LET item == MovedTo(ui.trust, VisibleTrust(ui), by)
       IN  Choose("trust", item, [ui EXCEPT !.trust = item, !.step = Null])
MoveStep(by) ==
    /\ ui # Null
    /\ LET item == MovedTo(ui.step, VisibleSteps(ui), by)
       IN  Choose("formation", item, [ui EXCEPT !.step = item, !.trust = Null])
\* "q" ends the program.
Quit == ui # Null /\ ui' = Null /\ chosen' = Null

ExplorerNext ==
    /\ \/ \E versioned \in BOOLEAN : Open(versioned)
       \/ \E query \in Queries : Search(query)
       \/ ClearSearch
       \/ \E scope \in Scopes : ChangeScope(scope)
       \/ \E by \in {-1, 1} : MoveNow(by) \/ MoveTrust(by) \/ MoveStep(by)
       \/ Quit
    /\ UNCHANGED <<repository, report>>

-----------------------------------------------------------------------------
\* Commands until a report is written, then its explorer.
Init == RepositoryInit /\ report = Null /\ ui = Null /\ chosen = Null
Next ==
    \/ /\ report = Null
       /\ \/ RepositoryNext
          \/ /\ moves < MaxMoves /\ moves' = moves + 1
             /\ \E options \in RepairOptions : Repair(options)
       /\ UNCHANGED <<report, explorer>>
    \/ /\ report = Null /\ HEAD > 0
       /\ Report
       /\ UNCHANGED <<repository, explorer>>
    \/ moves <= MaxOpen /\ ExplorerNext
Spec == Init /\ [][Next]_<<repository, report, explorer>>

-----------------------------------------------------------------------------
\* The detail is the one of the item its reader moved to last, in whichever of the
\* three lists, for as long as the filter shows that item (narrative-tui index.ts:558,
\* where each of five handlers changes part of the state the others rely on).
DetailFollowsChoice ==
    (ui # Null /\ chosen # Null) =>
        Detail(ui).list = chosen.list /\ Detail(ui).item = chosen.item
=============================================================================
