--------------------------- MODULE KnowledgeStore ---------------------------
(***************************************************************************)
(* The knowledge files of .ragit and the commands that write them without  *)
(* any lock: session materialize and artifact review (artifacts.ts),       *)
(* memory wrap, promote and recall (memory.ts), harness capture and        *)
(* promote (harness.ts), docs refresh and reconcile (doc-authority.ts),    *)
(* and the event ledger all of them append to (event-ledger.ts).           *)
(*                                                                         *)
(* A command is the list of file operations it still has to do.  A read    *)
(* whose answer a later write uses is an operation of its own: it replaces *)
(* itself by that write, so that other commands run in between.  An error  *)
(* or a crash drops the rest of the list.                                  *)
(*                                                                         *)
(* Artifact ids are the values createArtifactId hashes, an event's id is   *)
(* the event.  All events fall on one day, and masking is always on: with  *)
(* it off, and with --dry-run, no command writes anything.                 *)
(***************************************************************************)
EXTENDS Naturals, FiniteSets, Lists

CONSTANTS
    Procs,       \* command lines and MCP sessions
    Commands,    \* what they may run
    Reviewed,    \* harness artifacts an earlier session captured and reviewed
    Risk,        \* the admission action of each title or text
    SuiteTitle,  \* the title of a goal's own suite
    Enforce,     \* security.admission_mode = "enforce"
    Sentinel,    \* the text that replaces a blocked one
    NoRecord,
    MaxCommands, \* bound: commands started
    MaxCrashes,  \* bound: crashes
    MaxEdits     \* bound: documents a user edits by hand

ASSUME BoundAssumption == MaxCommands \in Nat /\ MaxCrashes \in Nat /\ MaxEdits \in Nat

\* What a command line gives a command: lists of turns, updates, references and
\* candidates, finite sets of marks and resources, a session whose file name has
\* a place among the others.
ASSUME CommandAssumption ==
    \A c \in Commands :
        /\ c.kind \in {"materialize", "review", "wrap", "capture", "memory.promote",
                       "harness.promote", "refresh"}
        /\ c.kind = "materialize" =>
             IsList(c.turns) /\ \A i \in DOMAIN c.turns : IsFiniteSet(c.turns[i].marks)
        /\ c.kind = "review" => IsList(c.updates)
        /\ c.kind = "wrap" => c.session \in Nat
        /\ c.kind = "capture" => IsFiniteSet(c.resources)
        /\ c.kind = "memory.promote" => IsList(c.refs) /\ IsList(c.candidates)
        /\ c.kind = "harness.promote" => IsList(c.refs)

VARIABLES
    artifacts,   \* .ragit/artifacts/**, by id
    transcripts, \* .ragit/log/transcripts/<session>.jsonl
    sessions,    \* .ragit/memory/session/<session>.json
    current,     \* .ragit/memory/working/current.json
    registry,    \* .ragit/memory/working/open-loops.json
    docs,        \* the documents, by path
    index,       \* .ragit/docs/index.json
    ledger,      \* .ragit/log/events/<day>.jsonl
    admitted,    \* .ragit/security/admission/<day>.jsonl
    todo,        \* the operations a command still has to do
    made,        \* the documents it has created
    approved,    \* history: artifacts reviewed since they were captured
    overlapped,  \* history: two commands have been running at a time
    started, crashes, edits

memory == <<sessions, current, registry>>
authority == <<docs, index>>
bounds == <<started, crashes, edits>>
vars == <<artifacts, transcripts, memory, authority, ledger, admitted,
          todo, made, approved, overlapped, bounds>>

Put(f, key, value) == [k \in DOMAIN f \cup {key} |-> IF k = key THEN value ELSE f[k]]
Idle(p) == todo[p] = <<>>

Event(type, session, names, paths, at) ==
    [type |-> type, session |-> session, names |-> names, paths |-> paths, at |-> at]

-----------------------------------------------------------------------------
\* Admission control: what each command stores of a text, and the line and the
\* event it appends when a text was flagged.
Flagged(texts) == {t \in texts : Risk[t] # "allow"}
Blocked(texts) == Enforce /\ \E t \in texts : Risk[t] = "block"
Admitted(text) == IF Blocked({text}) THEN Sentinel ELSE text

AdmissionWrites(surface, session, texts, at) ==
    IF Flagged(texts) = {} THEN <<>>
    ELSE <<[do |-> "admission", line |-> [surface |-> surface, texts |-> Flagged(texts)]],
           [do |-> "event", event |-> Event("security.admission", session, Flagged(texts), {}, at)]>>

\* session materialize: a turn gives one artifact for each mark its text has.
\* The sentinel reads "BLOCKED", which is a mark of an open loop.
SessionId(kind, goal, text) == [scope |-> "session", kind |-> kind, goal |-> goal, title |-> text]
TurnMarks(turn) ==
    IF Admitted(turn.text) = Sentinel THEN {"openLoop"}
    ELSE {k \in turn.marks : k = "feedback" => turn.role = "user"}
SessionArtifacts(c) ==
    UNION {{SessionId(k, c.goal, Admitted(t.text)) : k \in TurnMarks(t)} : t \in ToSet(c.turns)}

Captured(title) == [status |-> "captured", tier |-> "candidate", title |-> title, supersedes |-> {}]
Persist(id, record) == [do |-> "persist", id |-> id, record |-> record]
Captures(ids) == LET order == SetToSeq(ids)
                 IN  [i \in DOMAIN order |-> Persist(order[i], Captured(Admitted(order[i].title)))]

MaterializeWrites(c) ==
       AdmissionWrites("session", c.session, {t.text : t \in ToSet(c.turns)}, c.at)
    \o [i \in DOMAIN c.turns |-> [do |-> "transcript", session |-> c.session,
                                  line |-> Admitted(c.turns[i].text)]]
    \o Captures(SessionArtifacts(c))
    \o <<[do |-> "event", event |->
          Event("session.materialize", c.session, SessionArtifacts(c), {}, c.at)]>>

ReviewWrites(c, at) ==
    [i \in DOMAIN c.updates |-> [do |-> "review", update |-> c.updates[i], at |-> at]]

\* memory wrap: the session, then what is active of it, then its open loops.
ActiveLoops(loops) == {l \in loops : l.status # "closed"}
WorkingState(c) == [session |-> c.session, loops |-> ActiveLoops(c.loops)]
CurrentBeforeSession(c) == \* mutant: the working state is written first
    AdmissionWrites("memory.wrap", c.session, {c.goal}, c.at)
    \o <<[do |-> "current", state |-> WorkingState(c)],
         [do |-> "session", session |-> c.session, record |-> [loops |-> c.loops]],
         [do |-> "registry", state |-> WorkingState(c)],
         [do |-> "event", event |-> Event("memory.wrap", c.session, ActiveLoops(c.loops), {}, c.at)]>>
WrapWrites(c) ==
    AdmissionWrites("memory.wrap", c.session, {c.goal}, c.at)
    \o <<[do |-> "session", session |-> c.session, record |-> [loops |-> c.loops]],
         [do |-> "current", state |-> WorkingState(c)],
         [do |-> "registry", state |-> WorkingState(c)],
         [do |-> "event", event |-> Event("memory.wrap", c.session, ActiveLoops(c.loops), {}, c.at)]>>

\* harness capture: its resources, and a suite unless one of them is one.
HarnessId(kind, goal, title) == [scope |-> "harness", kind |-> kind, goal |-> goal, title |-> title]
HarnessIds(c) == {HarnessId(r.kind, c.goal, r.title) : r \in c.resources}
OwnSuite(c) == IF \E r \in c.resources : r.kind = "suite" THEN {}
               ELSE {HarnessId("suite", c.goal, SuiteTitle[c.goal])}
AnnounceCaptureFirst(c, at) == \* mutant: the event is appended before the artifacts
       <<[do |-> "event", event |->
          Event("harness.capture", NoRecord, HarnessIds(c) \cup OwnSuite(c), {}, at)]>>
    \o Captures(HarnessIds(c)) \o Captures(OwnSuite(c))
    \o AdmissionWrites("harness.capture", NoRecord,
                       {c.goal} \cup {r.title : r \in c.resources}, at)
CaptureWrites(c, at) ==
       Captures(HarnessIds(c)) \o Captures(OwnSuite(c))
    \o AdmissionWrites("harness.capture", NoRecord,
                       {c.goal} \cup {r.title : r \in c.resources}, at)
    \o <<[do |-> "event", event |->
          Event("harness.capture", NoRecord, HarnessIds(c) \cup OwnSuite(c), {}, at)]>>

\* The two promotions gather what they promote, create the documents, record
\* what admission said, rebuild the index and announce the documents.
Gather(c, at) == <<[do |-> "gather", c |-> c, refs |-> c.refs, ready |-> <<>>, at |-> at]>>
AnnounceThenIndex(surface, refs, texts, at) == \* mutant: announced before the index is rebuilt
    AdmissionWrites(surface, NoRecord, texts, at)
    \o <<[do |-> "announce", type |-> surface, refs |-> refs, at |-> at],
         [do |-> "reconcile", needed |-> TRUE]>>
Conclude(surface, refs, texts, at) ==
    AdmissionWrites(surface, NoRecord, texts, at)
    \o <<[do |-> "reconcile", needed |-> TRUE],
         [do |-> "announce", type |-> surface, refs |-> refs, at |-> at]>>

\* The path of a promoted document: by type and title for memory, with a number
\* when it is taken; by kind and title, and fixed, for a harness artifact.
HarnessFolder(kind) ==
    CASE kind \in {"suite", "envAssumption"} -> "harness/plans"
      [] kind \in {"checker", "rubric", "case", "oracle", "trace"} -> "harness/specs"
      [] OTHER -> "harness/pbds"
FixedPath(id, record) == [folder |-> HarnessFolder(id.kind), title |-> record.title, n |-> 1]
FreePath(folder, title) ==
    LET Taken(n) == [folder |-> folder, title |-> title, n |-> n] \in DOMAIN docs
    IN  [folder |-> folder, title |-> title,
         n |-> CHOOSE n \in 1..(Cardinality(DOMAIN docs) + 1) :
                   ~Taken(n) /\ \A m \in 1..(n - 1) : Taken(m)]

\* promotionCandidateFromArtifact: only a reviewed session artifact of four
\* kinds becomes a document, and it keeps its status.
CandidateOf(id) ==
    IF /\ id \in DOMAIN artifacts
       /\ id.scope = "session" /\ artifacts[id].status = "reviewed"
       /\ id.kind \in {"feedback", "constraint", "failure", "insight"}
    THEN <<[folder |-> "pbd", title |-> artifacts[id].title]>> ELSE <<>>
MemoryDocument(d) == [do |-> "doc", blocked |-> Blocked({d.title}), source |-> d,
                      path |-> [folder |-> d.folder, title |-> d.title, n |-> 0]]
MemoryPromotion(c, ready, at) ==
    LET all == c.candidates \o ready
    IN  [i \in DOMAIN all |-> MemoryDocument(all[i])]
        \o Conclude("memory.promote", ToSet(c.refs), {all[i].title : i \in DOMAIN all}, at)

\* promoteHarness writes back the record it has read when it gathered.
Promotable(id) == /\ id \in DOMAIN artifacts /\ id.scope = "harness"
                  /\ artifacts[id].status = "reviewed"
Promoted(record) == [status |-> "promoted", tier |-> "durable", title |-> record.title,
                     supersedes |-> record.supersedes]
HarnessPromotion(c, ready, at) ==
    FlattenSeq([i \in DOMAIN ready |->
        <<[do |-> "doc", blocked |-> FALSE, source |-> ready[i].id,
           path |-> FixedPath(ready[i].id, ready[i].record)],
          Persist(ready[i].id, Promoted(ready[i].record))>>])
    \o Conclude("harness.promote", ToSet(c.refs),
                {ready[i].record.title : i \in DOMAIN ready}, at)

\* docs refresh: every document, in turn, then the index.
RefreshWrites ==
    LET order == SetToSeq(DOMAIN docs)
    IN  [i \in DOMAIN order |-> [do |-> "refresh", path |-> order[i]]]
        \o <<[do |-> "reconcile", needed |-> FALSE]>>

Plan(c, at) ==
    CASE c.kind = "materialize"  -> MaterializeWrites(c)
      [] c.kind = "review"       -> ReviewWrites(c, at)
      [] c.kind = "wrap"         -> WrapWrites(c)
      [] c.kind = "capture"      -> CaptureWrites(c, at)
      [] c.kind \in {"memory.promote", "harness.promote"} -> Gather(c, at)
      [] c.kind = "refresh"      -> RefreshWrites

-----------------------------------------------------------------------------
Init ==
    /\ artifacts = [id \in Reviewed |-> [status |-> "reviewed", tier |-> "candidate", title |-> id.title,
                                    supersedes |-> {}]]
    /\ approved = Reviewed
    /\ transcripts = <<>> /\ sessions = <<>>
    /\ current = NoRecord /\ registry = NoRecord
    /\ docs = <<>> /\ index = {}
    /\ ledger = <<>> /\ admitted = {}
    /\ todo = [p \in Procs |-> <<>>] /\ made = [p \in Procs |-> {}]
    /\ overlapped = FALSE
    /\ started = 0 /\ crashes = 0 /\ edits = 0

Start(p, c) ==
    /\ Idle(p) /\ started < MaxCommands
    /\ todo' = [todo EXCEPT ![p] = Plan(c, started)]
    /\ made' = [made EXCEPT ![p] = {}]
    /\ overlapped' = (overlapped \/ \E q \in Procs : ~Idle(q))
    /\ started' = started + 1
    /\ UNCHANGED <<artifacts, transcripts, memory, authority, ledger, admitted,
                   approved, crashes, edits>>

Op(p, name) == ~Idle(p) /\ Head(todo[p]).do = name
Arg(p) == Head(todo[p])
Done(p) == todo' = [todo EXCEPT ![p] = Tail(@)]
Becomes(p, ops) == todo' = [todo EXCEPT ![p] = ops \o Tail(@)]
Fail(p) == todo' = [todo EXCEPT ![p] = <<>>] \* the error leaves the command

AppendAdmission(p) ==
    /\ Op(p, "admission")
    /\ admitted' = admitted \cup {Arg(p).line}
    /\ Done(p)
    /\ UNCHANGED <<artifacts, transcripts, memory, authority, ledger, made, approved,
                   overlapped, bounds>>

\* appendLedgerEvent reads the day's file for the id, then appends the line.
HasNoEvent(event) == FALSE \* mutant: the file is not read
HasEventId(event) == \E i \in DOMAIN ledger : ledger[i] = event
LookUpEvent(p) ==
    /\ Op(p, "event")
    /\ IF HasEventId(Arg(p).event) THEN Done(p)
       ELSE Becomes(p, <<[do |-> "append", event |-> Arg(p).event]>>)
    /\ UNCHANGED <<artifacts, transcripts, memory, authority, ledger, admitted, made,
                   approved, overlapped, bounds>>
AppendEvent(p) ==
    /\ Op(p, "append")
    /\ ledger' = Append(ledger, Arg(p).event)
    /\ Done(p)
    /\ UNCHANGED <<artifacts, transcripts, memory, authority, admitted, made, approved,
                   overlapped, bounds>>

AppendTurn(p) ==
    /\ Op(p, "transcript")
    /\ LET s == Arg(p).session
       IN  transcripts' = Put(transcripts, s, Append(IF s \in DOMAIN transcripts
                                                     THEN transcripts[s] ELSE <<>>, Arg(p).line))
    /\ Done(p)
    /\ UNCHANGED <<artifacts, memory, authority, ledger, admitted, made, approved,
                   overlapped, bounds>>

PersistArtifact(p) ==
    /\ Op(p, "persist")
    /\ LET id == Arg(p).id
           record == Arg(p).record
       IN  /\ artifacts' = Put(artifacts, id, record)
           /\ approved' = CASE record.status = "captured" -> approved \ {id}
                            [] record.status = "reviewed" -> approved \cup {id}
                            [] OTHER -> approved
    /\ Done(p)
    /\ UNCHANGED <<transcripts, memory, authority, ledger, admitted, made,
                   overlapped, bounds>>

\* reviewArtifacts: an update of an artifact that is missing, or whose status
\* does not allow it, is skipped with a warning.
CanTransition(status, next) ==
    \/ status = "captured" /\ next \in {"reviewed", "retracted", "archived"}
    \/ status = "reviewed" /\ next \in {"superseded", "retracted", "archived"}
    \/ status = "promoted" /\ next \in {"superseded", "archived"}
Review(p) ==
    /\ Op(p, "review")
    /\ LET u == Arg(p).update
           old == artifacts[u.id]
       IN  IF u.id \in DOMAIN artifacts /\ CanTransition(old.status, u.next)
           THEN Becomes(p, <<Persist(u.id, [status |-> u.next, tier |-> old.tier,
                                            title |-> old.title, supersedes |-> u.supersedes]),
                             [do |-> "event", event |->
                              Event("artifact.review", NoRecord, {u.id}, {}, Arg(p).at)]>>)
           ELSE Done(p)
    /\ UNCHANGED <<artifacts, transcripts, memory, authority, ledger, admitted, made,
                   approved, overlapped, bounds>>

WriteSession(p) ==
    /\ Op(p, "session")
    /\ sessions' = Put(sessions, Arg(p).session, Arg(p).record)
    /\ Done(p)
    /\ UNCHANGED <<artifacts, transcripts, current, registry, authority, ledger, admitted,
                   made, approved, overlapped, bounds>>
WriteCurrent(p) ==
    /\ Op(p, "current")
    /\ current' = Arg(p).state
    /\ Done(p)
    /\ UNCHANGED <<artifacts, transcripts, sessions, registry, authority, ledger, admitted,
                   made, approved, overlapped, bounds>>
WriteRegistry(p) ==
    /\ Op(p, "registry")
    /\ registry' = Arg(p).state
    /\ Done(p)
    /\ UNCHANGED <<artifacts, transcripts, sessions, current, authority, ledger, admitted,
                   made, approved, overlapped, bounds>>

\* The references are loaded one by one; then the command knows its writes.
Gathers(p) ==
    /\ Op(p, "gather")
    /\ LET op == Arg(p)
           ref == Head(op.refs)
           Loaded(ready) == <<[do |-> "gather", c |-> op.c, refs |-> Tail(op.refs),
                               ready |-> op.ready \o ready, at |-> op.at]>>
       IN  CASE op.refs = <<>> ->
                  Becomes(p, IF op.c.kind = "memory.promote"
                             THEN MemoryPromotion(op.c, op.ready, op.at)
                             ELSE HarnessPromotion(op.c, op.ready, op.at))
             [] op.refs # <<>> /\ op.c.kind = "memory.promote" ->
                  Becomes(p, Loaded(CandidateOf(ref)))
             [] op.refs # <<>> /\ op.c.kind = "harness.promote" ->
                  IF ~Promotable(ref) THEN Becomes(p, Loaded(<<>>))
                  ELSE IF Blocked({artifacts[ref].title}) THEN Fail(p)
                  ELSE Becomes(p, Loaded(<<[id |-> ref, record |-> artifacts[ref]]>>))
    /\ UNCHANGED <<artifacts, transcripts, memory, authority, ledger, admitted, made,
                   approved, overlapped, bounds>>

\* createDoc: the path is looked up, and refused when it is fixed and taken;
\* then the file is written, over anything that has appeared there.
RefuseNothing(path) == FALSE \* mutant: a taken path is not refused
Refused(path) == path.n # 0 /\ path \in DOMAIN docs
ResolveDoc(p) ==
    /\ Op(p, "doc")
    /\ LET d == Arg(p)
           path == IF d.path.n = 0 THEN FreePath(d.path.folder, d.path.title) ELSE d.path
       IN  IF d.blocked \/ Refused(d.path) THEN Fail(p)
           ELSE Becomes(p, <<[do |-> "create", path |-> path, source |-> d.source]>>)
    /\ UNCHANGED <<artifacts, transcripts, memory, authority, ledger, admitted, made,
                   approved, overlapped, bounds>>
Document(source, wellFormed, rev) ==
    [source |-> source, wellFormed |-> wellFormed, rev |-> rev]
\* refreshDocumentContent runs on every created document: it is well formed.
CreateDoc(p) ==
    /\ Op(p, "create")
    /\ docs' = Put(docs, Arg(p).path, Document(Arg(p).source, TRUE, 0))
    /\ made' = [made EXCEPT ![p] = @ \cup {Arg(p).path}]
    /\ Done(p)
    /\ UNCHANGED <<artifacts, transcripts, memory, index, ledger, admitted,
                   approved, overlapped, bounds>>

\* refreshDocs writes a document back only when that changes it.
ReadForRefresh(p) ==
    /\ Op(p, "refresh")
    /\ LET doc == docs[Arg(p).path]
       IN  IF doc.wellFormed THEN Done(p)
           ELSE Becomes(p, <<[do |-> "rewrite", path |-> Arg(p).path,
                              doc |-> Document(doc.source, TRUE, doc.rev)]>>)
    /\ UNCHANGED <<artifacts, transcripts, memory, authority, ledger, admitted, made,
                   approved, overlapped, bounds>>
Rewrite(p) ==
    /\ Op(p, "rewrite")
    /\ docs' = Put(docs, Arg(p).path, Arg(p).doc)
    /\ Done(p)
    /\ UNCHANGED <<artifacts, transcripts, memory, index, ledger, admitted, made,
                   approved, overlapped, bounds>>

\* reconcileDocs reads every document, then writes the whole index.
BuildAuthorityIndex(p) ==
    /\ Op(p, "reconcile")
    /\ IF Arg(p).needed /\ made[p] = {} THEN Done(p)
       ELSE Becomes(p, <<[do |-> "index", entries |->
                          {[path |-> path, wellFormed |-> docs[path].wellFormed] :
                           path \in DOMAIN docs}]>>)
    /\ UNCHANGED <<artifacts, transcripts, memory, authority, ledger, admitted, made,
                   approved, overlapped, bounds>>
WriteAuthorityIndex(p) ==
    /\ Op(p, "index")
    /\ index' = Arg(p).entries
    /\ Done(p)
    /\ UNCHANGED <<artifacts, transcripts, memory, docs, ledger, admitted, made,
                   approved, overlapped, bounds>>
Announce(p) ==
    /\ Op(p, "announce")
    /\ IF made[p] = {} THEN Done(p)
       ELSE Becomes(p, <<[do |-> "event", event |->
                          Event(Arg(p).type, NoRecord, Arg(p).refs, made[p],
                                IF Arg(p).type = "memory.promote" THEN Arg(p).at ELSE 0)]>>)
    /\ UNCHANGED <<artifacts, transcripts, memory, authority, ledger, admitted, made,
                   approved, overlapped, bounds>>

Crash(p) ==
    /\ ~Idle(p) /\ crashes < MaxCrashes
    /\ Fail(p)
    /\ crashes' = crashes + 1
    /\ UNCHANGED <<artifacts, transcripts, memory, authority, ledger, admitted, made,
                   approved, overlapped, started, edits>>

\* A user's editor saves a document.
EditDoc(path) ==
    /\ edits < MaxEdits /\ path \in DOMAIN docs
    /\ docs' = Put(docs, path, Document(docs[path].source, FALSE, docs[path].rev + 1))
    /\ edits' = edits + 1
    /\ UNCHANGED <<artifacts, transcripts, memory, index, ledger, admitted, todo, made,
                   approved, overlapped, started, crashes>>

Next ==
    \/ \E p \in Procs :
         \/ \E c \in Commands : Start(p, c)
         \/ AppendAdmission(p) \/ LookUpEvent(p) \/ AppendEvent(p)
         \/ AppendTurn(p) \/ PersistArtifact(p) \/ Review(p)
         \/ WriteSession(p) \/ WriteCurrent(p) \/ WriteRegistry(p)
         \/ Gathers(p) \/ ResolveDoc(p) \/ CreateDoc(p)
         \/ ReadForRefresh(p) \/ Rewrite(p)
         \/ BuildAuthorityIndex(p) \/ WriteAuthorityIndex(p) \/ Announce(p)
         \/ Crash(p)
    \/ \E path \in DOMAIN docs : EditDoc(path)

Spec == Init /\ [][Next]_vars

-----------------------------------------------------------------------------
\* memory recall answers from the working state, and from the session whose
\* file name sorts last where there is none.
LatestSession == CHOOSE s \in DOMAIN sessions : \A t \in DOMAIN sessions : t <= s
RecallLoops ==
    CASE current # NoRecord -> current.loops
      [] current = NoRecord /\ sessions # <<>> -> ActiveLoops(sessions[LatestSession].loops)
      [] OTHER -> {}
RecallSession ==
    CASE current # NoRecord -> current.session
      [] current = NoRecord /\ sessions # <<>> -> LatestSession
      [] OTHER -> NoRecord

\* Whatever the ledger says has happened is on disk, whichever commands ran at
\* the same time and wherever one of them crashed: the artifacts an event
\* captured or reviewed, the session it wrapped, the documents it promoted and
\* the admission lines it counts.
EventsFollowFacts ==
    \A i \in DOMAIN ledger :
        LET e == ledger[i]
        IN  /\ e.type \in {"session.materialize", "artifact.review", "harness.capture"} =>
                 e.names \subseteq DOMAIN artifacts
            /\ e.type = "memory.wrap" => e.session \in DOMAIN sessions
            /\ e.paths \subseteq DOMAIN docs
            /\ e.type = "security.admission" => \E line \in admitted : line.texts = e.names

\* Recall never names a session that is not on disk, nor shows a loop as open
\* that its session closed, whatever was torn by a crash or by another wrap.
RecallIsAnchored ==
    /\ RecallSession # NoRecord => RecallSession \in DOMAIN sessions
    /\ \A l \in RecallLoops : l.status # "closed"
    /\ registry # NoRecord => registry.session \in DOMAIN sessions

\* As long as commands ran one after the other, an event is appended once, also
\* when a command is repeated after a crash that cut it short.
EventsAreUnique ==
    ~overlapped => \A i, j \in DOMAIN ledger : ledger[i] = ledger[j] => i = j

\* As long as commands ran one after the other, a promoted artifact has been
\* reviewed since it was captured, and the document at its path is its own:
\* another artifact of the same title and folder has not replaced it.
PromotionIsBacked ==
    ~overlapped =>
        \A id \in DOMAIN artifacts :
            artifacts[id].status = "promoted" =>
                /\ id \in approved
                /\ FixedPath(id, artifacts[id]) \in DOMAIN docs
                /\ docs[FixedPath(id, artifacts[id])].source = id

\* As long as commands ran one after the other, a document the ledger announces
\* is in the authority index, wherever the promotion crashed.
AnnouncedDocsAreIndexed ==
    ~overlapped =>
        \A i \in DOMAIN ledger : ledger[i].paths \subseteq {e.path : e \in index}
=============================================================================
