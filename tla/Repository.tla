----------------------------- MODULE Repository -----------------------------
(***************************************************************************)
(* What the reading commands of ragit look at: the commits, the snapshots  *)
(* of those that were ingested, the artifacts, the event ledger and the    *)
(* memory files. The writing commands are one step each here; their inner  *)
(* steps, crashes and interleavings are IngestTransaction, KnowledgeStore  *)
(* and HarnessRun.                                                         *)
(*                                                                         *)
(* Commits are numbered from the first one, and HEAD is the last. The date *)
(* of commit c is 2c, and what happens while c is HEAD is dated 2c + 1.    *)
(* Paths, titles and artifact ids are numbers in alphabetical order.       *)
(***************************************************************************)
EXTENDS Integers, Sequences, FiniteSets, SequencesExt, FiniteSetsExt, Orders

CONSTANTS
    FirstTree,   \* the tree of the first commit: a function from paths to documents
    Trees,       \* the trees of the later ones
    Batches,     \* what session materialize and harness capture write, in this order
    Sessions,    \* what memory wrap is given
    IngestPaths, \* the lists of ingest --path
    ShaRank,     \* place of a commit among the names of all commits
    PathsRef,    \* what the id of an ingest event has of the paths it names (a hash)
    Null,        \* null
    MaxCommits,  \* bound: commits
    MaxMoves     \* bound: commands

ASSUME BoundAssumption == MaxCommits \in Nat /\ MaxMoves \in Nat
ASSUME NullAssumption == Null \notin Int \* commits and records are numbers
ASSUME TreeAssumption == \* the trees are finite, and every document has a title
    \A tree \in Trees :
        /\ IsFiniteSet(DOMAIN tree) /\ DOMAIN tree \subseteq Int
        /\ \A p \in DOMAIN tree : "title" \in DOMAIN tree[p] /\ tree[p].title \in Int
ASSUME RecordAssumption == \* and so it is with the records of a batch
    \A i \in DOMAIN Batches :
        LET records == Batches[i].records
        IN  /\ IsFiniteSet(DOMAIN records) /\ DOMAIN records \subseteq Int
            /\ \A id \in DOMAIN records : /\ {"title", "session", "goal", "paths"} \subseteq DOMAIN records[id]
                                          /\ records[id].title \in Int
ASSUME BatchAssumption == \* the events of a batch are its own
    /\ DOMAIN Batches \subseteq Int
    /\ \A i \in DOMAIN Batches :
         Batches[i].event \in {"session.materialize", "harness.capture", "harness.run"}
ASSUME SessionAssumption == \* what a session notes is in lists
    \A session \in Sessions :
        /\ \A field \in {"openLoops", "constraints", "nextActions", "decisions"} :
             field \in DOMAIN session /\ IsList(session[field])
        /\ session.id \in Int
        /\ \A other \in Sessions : session.id = other.id => session = other
ASSUME RefAssumption == \* the hash tells the paths apart
    LET sets == SUBSET UNION {DOMAIN tree : tree \in Trees}
    IN  /\ PathsRef \in [sets -> Int]
        /\ \A ps, qs \in sets : PathsRef[ps] = PathsRef[qs] => ps = qs
ASSUME RankAssumption == ShaRank \in [1..MaxCommits -> 1..MaxCommits]

VARIABLES
    commits,    \* the trees, oldest first
    manifests,  \* .ragit/manifest/<commit>.json: documents, artifact entries, and the
                \* artifacts with a chunk: labelled as such (scoped) or as durable (held)
    artifacts,  \* .ragit/artifacts/**, by id
    ledger,     \* .ragit/log/events
    working,    \* the working memory
    latest,     \* the session file whose name sorts last
    moves       \* commands so far

files == <<manifests, artifacts, ledger, working, latest>>
repository == <<commits, files, moves>>

HEAD == Len(commits)
Indexed == DOMAIN manifests
Tree(c) == IF c = 0 THEN <<>> ELSE commits[c]
Now == 2 * HEAD + 1
AuthoredAt(c) == 2 * c
Restricted(f, S) == [x \in DOMAIN f \cap S |-> f[x]]
With(f, g) == [x \in DOMAIN f \cup DOMAIN g |-> IF x \in DOMAIN g THEN g[x] ELSE f[x]]

\* Documents of an unknown type are not indexed.
Supported(tree) == Restricted(tree, {p \in DOMAIN tree : tree[p].type # "unknown"})

\* git diff --name-only since..HEAD: a file that was moved is named by its new path.
Moved(old, new) ==
    {p \in DOMAIN old \ DOMAIN new : \E q \in DOMAIN new \ DOMAIN old : new[q] = old[p]}
ChangedSince(since) ==
    LET old == Tree(since)
        new == Tree(HEAD)
    IN  (DOMAIN old \cup DOMAIN new)
        \ (Moved(old, new) \cup {p \in DOMAIN old \cap DOMAIN new : old[p] = new[p]})

-----------------------------------------------------------------------------
\* Git, and the ledger.
Commit(tree) ==
    /\ HEAD < MaxCommits /\ tree # Tree(HEAD)
    /\ HEAD = 0 => tree = FirstTree
    /\ commits' = Append(commits, tree)
    /\ UNCHANGED files

HeadSha == IF HEAD = 0 THEN Null ELSE HEAD
Event(type, ref, session, goal, paths) ==
    [type |-> type, ref |-> ref, head |-> HeadSha, session |-> session, goal |-> goal,
     paths |-> paths, at |-> Now]

-----------------------------------------------------------------------------
\* session materialize and harness capture: the records are bound to HEAD, or
\* wait for a commit when there is none.
Capture(i) ==
    LET batch == Batches[i]
        record(id) == With(batch.records[id], [status |-> "captured", source |-> HeadSha,
                                               bound |-> HeadSha, createdAt |-> Now,
                                               updatedAt |-> Now])
    IN  /\ DOMAIN batch.records \cap DOMAIN artifacts = {}
        /\ \A j \in 1..(i - 1) : DOMAIN Batches[j].records \subseteq DOMAIN artifacts
        /\ artifacts' = With(artifacts, [id \in DOMAIN batch.records |-> record(id)])
        /\ ledger' = ledger \cup {Event(batch.event, i, batch.session, batch.goal, batch.paths)}
        /\ UNCHANGED <<commits, manifests, working, latest>>

\* artifact review. The event names the commit the artifact was captured at.
Review(id, next) ==
    /\ artifacts[id].status = "captured"
    /\ artifacts' = [artifacts EXCEPT ![id].status = next, ![id].updatedAt = Now]
    /\ ledger' = ledger \cup
         {[Event("artifact.review", id, artifacts[id].session, artifacts[id].goal,
                 artifacts[id].paths) EXCEPT !.head = artifacts[id].source]}
    /\ UNCHANGED <<commits, manifests, working, latest>>

-----------------------------------------------------------------------------
\* ingest. A full one reads every document at HEAD; with --path it takes the
\* snapshot of HEAD, or else of its parent, and replaces the named documents.
IngestBase ==
    CASE HEAD \in Indexed -> HEAD
      [] HEAD \notin Indexed /\ HEAD - 1 \in Indexed -> HEAD - 1
      [] OTHER -> Null
CanIngest(request) ==
    /\ HEAD > 0
    /\ request.all \/ (request.paths \subseteq DOMAIN Tree(HEAD) /\ IngestBase # Null)

\* A version is named by its path, commit and content, so that a document which is
\* read again at a later commit is another version.
Version(doc) == With(doc, [at |-> HEAD])
Read(paths) == LET tree == Restricted(Supported(Tree(HEAD)), paths)
               IN  [p \in DOMAIN tree |-> Version(tree[p])]
IngestDocs(request) ==
    IF request.all THEN Read(DOMAIN Tree(HEAD))
    ELSE With(manifests[IngestBase].docs, Read(request.paths))

\* Every ingest binds what waits for a commit, if its files are there; only one
\* of scope "all" lists artifacts in the manifest, with a chunk for each that was
\* reviewed and bound. What is based on such a manifest keeps the chunks.
Live(id) == artifacts[id].status \in {"captured", "reviewed"}
Binds(id) ==
    /\ Live(id) /\ artifacts[id].bound = Null
    /\ artifacts[id].paths \subseteq DOMAIN Tree(HEAD)
Bound == [id \in DOMAIN artifacts |->
            IF Binds(id) THEN [artifacts[id] EXCEPT !.bound = HEAD, !.updatedAt = Now]
            ELSE artifacts[id]]
Entries(request) == IF request.scope = "all" THEN {id \in DOMAIN artifacts : Live(id)} ELSE {}
Scoped(request) ==
    {id \in Entries(request) : artifacts[id].status = "reviewed" /\ Bound[id].bound # Null}
Held(request) ==
    IF request.all THEN {} ELSE manifests[IngestBase].held \cup manifests[IngestBase].scoped
Manifest(request) == [docs |-> IngestDocs(request), entries |-> Entries(request),
                      scoped |-> Scoped(request), held |-> Held(request)]
Planned(request) == IF request.all THEN DOMAIN Tree(HEAD) ELSE request.paths

RunIngest(request) ==
    /\ manifests' = With(manifests, [c \in {HEAD} |-> Manifest(request)])
    /\ artifacts' = Bound
    /\ ledger' = ledger \cup
         {Event("ingest.completed", PathsRef[Planned(request)], Null, Null, Planned(request))}
    /\ UNCHANGED <<commits, working, latest>>

Requests == {[all |-> TRUE, paths |-> {}, scope |-> s] : s \in {"durable", "all"}}
            \cup {[all |-> FALSE, paths |-> ps, scope |-> "durable"] : ps \in IngestPaths}
Ingest(request) == CanIngest(request) /\ RunIngest(request)

-----------------------------------------------------------------------------
\* memory wrap writes the session, then the working memory, then the event; cut
\* short, the session file alone is there. The sessions give their id.
Wrapped(session) == With(session, [head |-> HeadSha, at |-> Now])
ActiveLoops(loops) == Kept(loops, {loop \in ToSet(loops) : loop.status # "closed"})
WriteSession(session) ==
    latest' = IF latest # Null /\ latest.id > session.id THEN latest ELSE Wrapped(session)
Wrap(session) ==
    /\ WriteSession(session)
    /\ working' = [Wrapped(session) EXCEPT !.openLoops = ActiveLoops(session.openLoops)]
    /\ ledger' = ledger \cup {Event("memory.wrap", session.id, session.id, session.goal, {})}
    /\ UNCHANGED <<commits, manifests, artifacts>>
WrapCutShort(session) ==
    /\ WriteSession(session)
    /\ UNCHANGED <<commits, manifests, artifacts, ledger, working>>

-----------------------------------------------------------------------------
\* Which snapshot a reader gets: the one of the commit it names, or HEAD's.
SelectSnapshot(ref) == IF ref = Null THEN HeadSha ELSE ref
Selectable(ref) == SelectSnapshot(ref) \in Indexed
\* The snapshot whose name sorts last, which need not be the newest.
LatestByName == CHOOSE c \in Indexed : \A d \in Indexed : ShaRank[d] <= ShaRank[c]
\* The ancestors that are indexed, newest first (git log).
IndexedNewestFirst == Kept([i \in 1..HEAD |-> HEAD + 1 - i], Indexed)

RepositoryInit ==
    /\ commits = <<>>
    /\ manifests = <<>>
    /\ artifacts = <<>>
    /\ ledger = {}
    /\ working = Null /\ latest = Null
    /\ moves = 0

RepositoryNext ==
    /\ moves < MaxMoves /\ moves' = moves + 1
    /\ \/ \E tree \in Trees : Commit(tree)
       \/ \E i \in DOMAIN Batches : Capture(i)
       \/ \E id \in DOMAIN artifacts, next \in {"reviewed", "archived"} : Review(id, next)
       \/ \E request \in Requests : Ingest(request)
       \/ \E session \in Sessions : Wrap(session) \/ WrapCutShort(session)
=============================================================================
