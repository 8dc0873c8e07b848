# A verification of ragit

ragit keeps, beside a git repository, a store of document versions and chunks,
one manifest per indexed commit that names what belongs to that commit, session
artifacts that are bound to commits, an event ledger, a memory, harness suites
and controlled documents, and commands that read all of it. This directory holds
TLA+ modules of that code, TLC configurations that check them on small
instances, and TLAPS proofs of what matters most for every instance.
`PROJECT.json` lists components, runs, mutants, findings, hazards and theorems,
and maps each definition to the lines it models.

    tlc -config IngestSnapshots.cfg MCIngestTransaction.tla
    tlapm LockedIngest_proofs.tla

## The system

Paths are under `src/src/core/` unless they say otherwise.

| Component | State | Operations | What makes it correct |
|---|---|---|---|
| Store write lock (`store-write-lock.ts`) | `.ragit/runtime/store-write.lock` | acquire (exclusive create, then write the owner), inspect and probe, release (read the owner, then remove) | one owner; the file names it; nobody alive is reported stale; a live owner gives it back |
| Ingest (`ingest.ts`, `ingest-transaction.ts`) | journals in `.ragit/runtime/transactions`, what the run holds in memory | select candidates and base, read, journal, write and verify the store, check HEAD, publish the manifest, finalize | a visible manifest is whole and readable, has one version per document, and versions of its own branch |
| Recovery and finalization (`ingest-recovery.ts`, `ingest-finalization.ts`, `repair.ts`) | the same journals | classify, finalize a backlog, repair | past its commit point an ingest is finished exactly once, whatever fails |
| Manifests and base (`manifest.ts`, `snapshot.ts`) | `.ragit/manifest/<sha>.json` | write by rename, load, choose an ingest base or a snapshot to read | exact commit, visible base |
| Canonical store (`zvec.ts`) | `.ragit/store`: two collections and a meta file | create, open with a contract, upsert, fetch, count | a store that opens holds what manifests name |
| Rebuild, swap, migrate (`store-rebuild.ts`, `store-swap.ts`, `migrate.ts`) | `store.next`, `store.prev` | build, verify, rename, roll back, remove journals; import a store of an older format | nothing is lost at any step |
| Store readers (`retrieval.ts`, `snapshot.ts`, `src/src/mcp/server.ts`, `src/src/commands/bootstrap.ts`) | a copy of the store per MCP query | query, the tools of the MCP server, status, doctor | an answer is complete for its snapshot, or fails; no false alarm and no false health |
| Embeddings (`embedding.ts`) | cache files and their count, a map of in-flight requests per process | look up, share, batch, retry, cache | every text gets its own vector, once at a time; every call ends |
| Artifacts (`artifacts.ts`) | `.ragit/artifacts` | materialize, review, plan and bind, search, recall | bound to the commit whose manifest lists it, after that manifest is visible |
| Event ledger (`event-ledger.ts`) | a JSON-lines file per day | append unless the event id is there, query | one event per fact, and only facts |
| Memory (`memory.ts`) | session, working memory, open loops | wrap, recall, promote | the three files and the ledger agree |
| Harness (`harness.ts`) | artifacts, runs, promoted documents | capture, promote, pack, verify, run | a verdict is what the child did; a failure leaves its evidence; every run ends |
| Security (`security.ts`) | quarantine, admission log, audit state | admission, redaction, audit, purge | what is purged is gone and the repository works afterwards |
| Document authority (`doc-authority.ts`) | controlled documents and their index | create, refresh, reconcile, promote | what a command wrote breaks no rule of its type; promoted documents are backed and indexed |
| Drift and repair plan (`drift.ts`, `repair.ts`) | none | diagnose, plan, apply | a repair brings HEAD up to date |
| Narrative, recovery views, log (`narrative*.ts`, `recovery-*.ts`, `log*.ts`) | none; a report is a file the explorer reads | select a window, link nodes into threads, lay drift, evidence and recovery over them, project what a viewer may see | the views agree with the snapshots and with each other |
| Narrative explorer (`src/tools/narrative-tui`) | selection, filters and detail of one terminal | load, search, walk three lists, show, refresh | the detail is that of what was chosen |
| Retrieval (`retrieval.ts`, `context*.ts`) | none | choose a snapshot, search, pack within a budget | only what the snapshot names; each source once before any twice |
| Init, hooks, configuration (`init/`, `project.ts`, `config.ts`, `gitignore-policy.ts`, `src/src/commands/init.ts` and `hooks.ts`) | configuration, hooks, `.gitignore`, created documents | init, config, hooks | running again creates nothing, and what users wrote stays |

How they interact: `ingest`, `repair`, `migrate` and `security purge --target
store` take the store write lock and are serialized by it. Everything else does
not: git moves HEAD, `session` and `artifact review` change artifacts while an
ingest plans and binds them, `memory`, `harness` and `docs` commands write the
same knowledge files, queries read the store while it is written or swapped, and
every command creates missing directories, `.ragit/store` among them. Components
share state through files only; the in-process calls are `ingest -> finalize ->
bind / append`, `repair -> finalize | rebuild`, `rebuild | migrate -> swap`,
`narrative -> drift, recovery`, and the MCP server's tools into the readers.

What is hard: a process may die between any two writes, and each command must
make sense of what the last one left; HEAD, the working tree and the artifacts
move under a running ingest; commands without a lock meet in the same files; the
native store reports no lost upsert; directory swaps are two renames; recovery is
a classification of what is found on disk; a harness run has four timers and a
child that owes it nothing; the readers recompute the same facts in several
places, and the places must agree.

## The modules

The store and what writes it:

* `StoreWriteLock.tla`: the lock. `Create` is the `writeFile` with flag `wx` and
  `WriteOwner` the end of that call, so that a torn file is seen; `Inspect` and
  `Probe` are two steps, as are `ReadOwner` and `RemoveLock`. Pids are reused,
  processes die anywhere, and an operator removes a stale file in two steps.
* `IngestTransaction.tla`: the pipeline, one action per await that changes
  something. `ScanJournals`, `FinalizeBacklog` and `StartRepair` enter the lock;
  `SelectBase` to `JournalManifestCommitted` are `runIngestUnlocked`;
  `LoadManifest` to `JournalCompleted` are `finalizeIngestTransaction`, shared by
  the ingest's own run, the backlog and repair (`mode`); `MoveHead`,
  `Materialize` and `Review` run at any time. `FailStep` is an error of any later
  step, with the code's catch blocks; `Crash` forgets the process and keeps the
  disk. `Class`, `Matches`, `Pending` and `Blocking` are `ingest-recovery.ts`.
* `SnapshotPublication.tla`: what ingest promises a reader, in three actions. A
  snapshot appears or is replaced whole, holds all an ingest wrote and otherwise
  only what was published, and an ingest is announced once.
  `IngestTransaction` implements it (`ImplementsPublication`, with
  `Readable`, `Begun` and `ledger` as the refinement mapping).
* `StoreLifecycle.tla`: the store as a directory. Creation (`OpenStore`,
  `CreateStore`), rebuild and migration (`BeginRebuild`, `BeginMigrate` to
  `Discard`), the swap (`Promote` to `RemovalStops`), the purge, and the imports
  from the sqlite-vss and JSON stores (`BeginImport` to `PublishImport`), whose
  records (`Older`) go straight into the live store. Ingest is in it with the
  steps that touch the store, the manifests and its journal.
* `StoreReaders.tla` EXTENDS it with the commands that read the store while those
  writers run: a query selects a snapshot, opens the store or copies it aside (the
  MCP server does), and answers from what it then holds; `status` and `doctor` are
  the reports they would give.
* `EmbedTexts.tla`: calls of `embedTexts` in several processes. Code between two
  awaits is not interrupted by another call of the process: `turn` names the call
  whose synchronous stretch goes on (`Continue`) or ends at an await (`Await`),
  and `Io` is the end of a file operation, which no turn delays. `LookUp` to
  `EndLookup` are the loop over the texts, with the cache read before the
  in-flight map is; `TakeBatch` to `ReleaseBatch` are the batches;
  `LoadNamespaceManifest` to `BumpManifest` are `writeCacheEntry`; `OpenTouch` and
  `WriteTouch` are the `touchCacheEntry` nobody waits for. Files are truncated
  before they are written, so that readers meet torn ones, and `Exit` ends a
  process anywhere. `SplitEmbeddingBatches` is the loop as a recursive function over
  the texts a call has found to be its own (`fresh`).

The knowledge files and the commands that write them without a lock:

* `KnowledgeStore.tla`: materialize, review, wrap, capture, the two promotions and
  refresh. A command is the list of file operations it has still to do; a read
  whose answer is used later is an operation that replaces itself by the write, so
  that other commands run in between, and a crash drops the rest of the list. The
  admission lines, the quarantine summary and the ledger are files like the
  others. Recall, pack and the coverage of the index are operators over the files.
* `HarnessRun.tla`: one `harness run`: the suite is verified, the cases are executed
  one after the other, each with a child process, a deadline, SIGTERM and a later
  SIGKILL, and descendants that may keep the pipes open; the failures, the run
  record and the ledger event are written in this order. Another command may
  capture a new version of an artifact the suite refers to.

What a repository gets before anything is ingested:

* `DocAuthority.tla`: `doc create` (`StartCreate`, `CheckPath`, `WriteDoc`: the path
  is resolved, looked at, and written after the template was read) and `doc refresh`
  (`StartRefresh`, then `ReadDoc` and `RewriteDoc` per document), with the contracts
  of the types and how a type is found. A document is what validation sees of it,
  and what the rewrite of its frontmatter does to the scalars: `splitFrontmatter` takes
  the outer quotes off and unescapes nothing, `quoteFrontmatterValue` escapes every
  quotation mark again, so that one inside a scalar gains a backslash at each refresh
  (`quotes`, `EscapeQuotes`); other scalars come back as they were. `by` remembers who
  wrote a document last, and `overwritten` whether a command has written over one it
  had not read. `DocsConform` says accordingly that another refresh changes nothing but
  such quotation marks; a document of the instance has one.
* `RepositorySetup.tla` EXTENDS it with `init`, one action per file it writes from
  `StartInit` to `FinishInit`, `config set`, `migrate embeddings` in one step, and a
  user who edits documents and the configuration. `PlanGapFill` with the modes and
  the coverage it looks at is the planner; `Parse`, `SetConfigValue` and `Contract`
  are the configuration, of which there are the settings that decide about the store
  and the admission. Of the two questions about `.gitignore` there is one. `settled`
  and `configured` are history variables: the inits that finished since the last edit
  of a document, and whether the configuration is still the one an init has written.

`Lists.tla` holds what the modules with theorems use of lists: sequences over no
particular set, and `Kept`, which is `Array.filter`. `Orders.tla` adds the rest of what
reading commands do to lists: keys compared place by place, a set in the order of its
keys, a stable sort, and a list without its repetitions. They are written without
operators as arguments, which the provers cannot use.

The commands that only read:

* `Repository.tla` is what they look at: commits, snapshots, artifacts, the ledger
  and the memory, with one step per writing command. How these steps fall apart is
  the business of the modules above.
* `Drift.tla` EXTENDS it with drift items, the repair plan and the log;
  `Narrative.tla` with the window of snapshots, the nodes and their lineage, the
  threads, the three overlays and the projection for a viewer; `Recovery.tla` with
  the recovery lists, their scores and cuts, and the report as a file;
  `Retrieval.tla` with candidate limits, recall and the answers that are possible
  whatever the similarities are; `ContextPack.tla` is the packing of hits under a
  budget, from no state at all.
* `Explorer.tla` is the terminal explorer of a report: loading (a report of an
  unknown schema is refused, an unknown word becomes another), filters, three
  lists, detail, refresh.

The `MC*` modules give TLC its instances: commit graphs, trees, workloads,
commands and symmetry. The `*_proofs` modules hold the theorems described below.

`IngestTransaction` and `StoreLifecycle` assume that one writer runs at a time.
`StoreWriteLock` is where that is shown; its `MutualExclusion` is the assumption,
and the removal of the lock of a crashed process is folded into their `Crash`.
Definitions commented `mutant` are versions of the code with a plausible bug;
`PROJECT.json` pairs each with the property that rejects it.

## What the runs check

| Run | Instance | Properties |
|---|---|---|
| `ingest_snapshots` | 3 commits (a fork), 2 documents, 3 contents (one unsupported), 3 ingests, 1 fault, no artifacts | `PublishedReadable`, `ChunksFollowDocuments`, `SnapshotsStayOnBranch`, `ImplementsPublication` |
| `ingest_recovery` | 1 commit, 1 document, 1 artifact, 2 artifact edits, 2 ingests, 2 faults, fair | `AnnouncedIsFinal`, `BindingAfterPublication`, `BacklogSettledFirst`, `CommitPointIsFinal`, `CommittedIsFinalized` |
| `store_write_lock` | 3 writers, 2 hosts, 2 pids, fair | `MutualExclusion`, `StaleOwnerIsGone`, `LockIsGivenBack` |
| `store_lifecycle` | 1 commit, 2 records (one legacy, one only in an older store), 1 ingest beside imports, rebuilds, migrations and purges, 2 contracts, 2 faults, 1 fault of a reader | `NothingLost`, `RebuiltStoreIsUnion`, `AnswersAreComplete`, `NoFalseAlarm`, `PendingSurvives` |
| `embed_texts` | 5 workloads of 2 or 3 calls in 1 or 2 processes, 3 keys (one larger than a batch), 1 retry, 1 failed write or exit, fair | `VectorsMatchTexts`, `InflightIsShared` (`OneRequestPerKey`, `InflightIsLive`), `DeniedStayLocal`, `CacheIsHonest` (`PaidIsCached`, `CountIsLowerBound`), `EveryCallEnds` |
| `knowledge_store` | 2 processes, 3 commands out of 8 kinds, 1 crash, 1 edit by hand | `EventsFollowFacts`, `RecallIsAnchored`, `EventsAreUnique`, `PromotionIsBacked`, `AnnouncedDocsAreIndexed` |
| `harness_run` | a suite of 2 cases and 4 that cannot be run, 1 recapture, 1 crash, fair timers | `VerdictsAreEarned`, `EvidenceIsComplete`, `EveryRunEnds` |
| `readers` | 3 commits, 6 commands, 3 paths, 2 artifacts, a window of 2 snapshots, packs of 5 hits, 3 inputs to the explorer | `RepairIndexesHead`, `PackIsDiverse`, `LineageReplays`, `LogAgreesWithNarrative`, `OverlaysAgree`, `WorstShownFirst`, `DetailFollowsChoice` |
| `setup` | 4 repositories (empty without git, code with documents, one that lacks only its architecture, a workspace), 2 inits, 3 commands, 1 edit by hand, 1 stop | `InitSettles`, `DocsConform`, `UserChoicesSurvive` |
| `ingest_blocked`, `store_swap_crash`, `store_purge` | below | expected to fail |

The bounds. `MaxEdits`, `MaxFaults`, `MaxReadFaults`, `MaxCommands`, `MaxCrashes`,
`MaxStops`, `MaxRecaptures`, `MaxMoves` and `MaxOpen` count what users and the environment do
over a whole behaviour; everything else is a set.

A fork with a parent, a changed, a deleted and an unsupported document is the
smallest repository in which every way to take over or drop a version occurs, and
three ingests make chains of bases. One artifact is enough for the binding of one;
two ingests, for a backlog behind a failure; two faults, for a failure during the
recovery of a failure, and for a swap whose rollback fails as well. Two processes
compete for a lock, the third comes after a crash; two pids make reuse possible,
two hosts a foreign owner. `store_lifecycle` has one commit only because two with
two faults take minutes more than a run should; an import is the second writer
beside its ingest, and the theorems do not depend on it. The workloads of
`embed_texts` are the ways calls meet: the same keys in opposite orders over two
batches, a call that waits for the second batch of a writer, a denied call beside
one that is not, two keys in one answer, two writers of different keys. Workloads
of three calls with two keys each, two of them writers, satisfy the invariants as
well and are left out for the time liveness takes on them. In `knowledge_store`
three commands are the least for one that writes between the read and the write of
another after a third has set the stage; its two harness artifacts share a title,
so that two promotions want one path. `harness_run` needs a second case, for the
kill timer of the first one reaches into it. `readers` has three commits, for a
window of two snapshots with a commit before it, and paths that are edited, moved
and deleted; five hits of four sources are enough for a pack to cite twice or
starve a source. `setup` needs three commands for one that runs beside an init and
a second init after it; its repositories are one for each mode of the planner that
can be told apart by which drafts it wants (`docs-heavy` plans as `existing` does),
and one in which the type of a single document decides whether a draft is wanted;
`Slugs` bounds the names `doc create` tries.

`CHECK_DEADLOCK FALSE` is given where the system really stops: every ingest or
command is used up, a journal blocks all later ones, every call or run has ended.

Three runs are expected to fail. Each states what the repository says and TLC
shows a behaviour of the code that contradicts it:

* `ingest_blocked`: `ingest.ts:893` sends the user of a blocked ingest to
  `ragit repair --action ingest-recover`, but no blocking journal is one that
  repair finalizes. The default `--scope durable` plans the binding of pending
  artifacts and lists none in the manifest, so that the completed journal is
  inconsistent from then on.
* `store_swap_crash`: "crash-safe" store writes; a crash between the two renames
  leaves no store, the next ingest creates an empty one, and earlier snapshots
  are only in a backup no command reads.
* `store_purge`: after `purge --target store` "you must rerun ingest"; the
  journals the purge leaves refuse it.

Four more claims are stated in the modules and have no run of their own. TLC
refutes each when it is put as the INVARIANT of the instance named:

* `SnapshotBoundToCommit` (`IngestTransaction`): "a snapshot manifest bound to the
  exact current commit" (`commands/ingest.mdx:9`). The instance of
  `ingest_snapshots` with `Heads = {h1, h2}`, one ingest and no faults: a checkout
  and a checkout back while documents are read go unnoticed.
* `DurableScopeHoldsDocuments` (`IngestTransaction`; `commands/ingest.mdx:42`). The
  instance of `ingest_recovery` with two ingests and no faults: artifact chunks of
  an `--scope all` ingest become durable ones when a later partial ingest takes
  them over from its base.
* `TopKIsHonored` (`Retrieval`; `commands/query.mdx:37`). The instance of `readers`
  (`topK` 1 and 3): the candidate limit is spent on versions of other snapshots,
  so that a query returns fewer hits than there are.
* `RefreshKeepsFrontmatter` (`DocAuthority`; "non-destructively rewrites tracked
  docs", `commands/doc/refresh.mdx:9`). The instance of `setup`: a line of the
  frontmatter that is no scalar, a list for one, is dropped, and a quotation mark
  inside a scalar gains a backslash. TLC refutes either half alone.

Other consequences of the code that the models reach, without a sentence in the
repository against them: a process that dies inside the creation of the lock or
of a journal leaves a torn file no command clears; a store whose creation was
interrupted has collections and no meta file, and no command opens it; a precommit
failure at a commit that is already indexed leaves a journal that is inconsistent,
not abandoned; a `--since` ingest keeps the old version of a document that is no
longer supported; a review that comes between `bindPlannedArtifacts`' list and its
write is overwritten; a migration promotes a copy nobody verified; two writers
of the embedding cache lose a count, so that `entryCount` is only a lower bound;
two overlapping writes of an entry may leave a torn one, which the next call that
misses it replaces; a call that joins another's request fails with it, whatever
retries it had itself; two commands append the same event when neither has seen
the other's line (`LookUpEvent` and `AppendEvent` of `KnowledgeStore` are two steps, and
`EventsAreUnique` speaks of repetition, not of overlapping commands); a document with a
quotation mark inside a frontmatter scalar is never up to date: every `doc refresh`
rewrites it; two promotions of one title overwrite each other's document;
materializing a session again resets the review of its artifacts; an init whose user
hesitates at its questions overwrites a draft's document that was written meanwhile;
an init writes the default configuration over what `config set` had set, and then
fails at a store that was migrated to another contract; a refresh that read a document
before its user changed it to another type writes the old text back after an init had
counted the new one, so that the next init finds a draft to create (this is why
`InitSettles` speaks of drafts only while no command has overwritten what it had not
read, and TLC refutes it without that condition in the instance of `setup`); `doctor` reports deprecated
embedding fields for every remote provider, for the defaults it merges have them;
`config set embedding.dimensions 0` is accepted and has no effect; an init that
tracks the manifests leaves the entry an earlier init wrote for them.

## Fairness

`FairSpec` of `IngestTransaction`: a run that holds the lock takes its next step
(weak fairness of the write steps and of the finalization steps: a JavaScript
promise chain goes on until it ends, throws or the process dies), the loop over
the backlog goes on, and `StartRepair` is strongly fair per transaction: the
operator repeats `ragit repair` while there is something to finalize, which is
what its diagnostics say to do. The guard of `StartRepair` is lost whenever
another command holds the lock, hence strong fairness. Nothing makes users,
git, faults or a new ingest fair. `FairLockSpec` of `StoreWriteLock`: a process that
does not die goes on; operators owe nothing. `FairSpec` of `EmbedTexts`: the event
loop and the file system go on, and a request to a provider ends, because
`requestJson` aborts it after `timeoutMs`. It may end in every way. `Spec` of
`HarnessRun`: the runner goes on, both of its timers fire, the system ends a child
that SIGKILL has hit, and its pipes close once nobody holds them. Nothing is
assumed of the child, which may ignore SIGTERM and never end, nor of descendants.

## What is proved

For all values of the constants. The `ASSUME`s say that trees and ancestors are those
of a commit graph, that identifiers of different kinds are different and bounds are
naturals; that the commands of `KnowledgeStore` are those of its table
(`CommandAssumption`), that the calls of `EmbedTexts` are lists of keys and a batch has
room for a text (`EmbedAssumption`), that an artifact of `HarnessRun` is referred to by
lists (`ArtifactAssumption`), and that what users write are documents and settings
(`DocumentAssumption`, `RepositoryAssumption`). For the readers, that trees are finite,
documents and artifacts have titles, and artifacts what they were captured with
(`TreeAssumption`, `RecordAssumption`), that what a session notes is in lists and its id
is its own (`SessionAssumption`), that only captures write events of captures
(`BatchAssumption`), that the hash in the id of an ingest event tells lists of paths apart
(`RefAssumption`), that null is no commit (`NullAssumption`), that commits have places among
the names of commits (`RankAssumption`), and that windows, lengths, budgets and tokens are
naturals (`WindowAssumption`, `MaximaAssumption`, `PackAssumption`). TLC evaluates all of them.

* `LockedIngest_proofs`, the lock: `LockTypeCorrect`, `Exclusion`, `Named`, `StaleIsGone`. The invariant
  adds who owns the file in every phase, that one process at most is writing its
  name, that a name in the file or found in it is that of a process that got past
  writing it, and that the owner an operator has verified is still in the file
  and stays dead.
* The same module, snapshots: `TypeCorrect`, `Readability`, `OneVersion`,
  `OnBranch`. None is inductive: `PublicationInv` adds what the writer holds in memory
  (versions of one commit, one per document, a base on the branch) and what it has
  verified to be in the store; `CommitInv` says which phase the journal shows at each
  step of the writer, that its commit's manifest exists from the commit point on, and
  what the backlog still holds.
* The same module, finalization: `CommitPoint`, `Announcement`, `BoundLast`,
  `BacklogFirst`. `FinalizationInv` relates the program counter of a finalization to
  what it has already bound, appended and journalled, so that a second run over any
  phase repeats nothing; `SettlementInv` says that every journal outside the backlog is
  settled.
* The same module, refinement: `Implementation`, `Spec => ImplementsPublication`. Each
  action is a step of `SnapshotPublication` or leaves its variables unchanged;
  `Publish` and `Announce` need `RefinementInv`: until the manifest the journal names
  what is in memory, and from then on the manifest holds what the journal names.
* `StoreLifecycle_proofs`, writers: `TypeCorrect`, `Survival`, `Rebuilt`, `PendingKept`.
  `NothingLost` is not inductive: `Copying` says that a build holds the whole manifest
  union, that it found no backup to overwrite, that only a directory that may stand for
  the store is promoted, and that the backup is complete while the store is away;
  `Ingesting` and `Purging` do the same for the other commands.
* The same module, readers: `CompleteAnswers`, `NoAlarm`. `ReadersInv` adds to the
  writers' invariant where the store is: while the backup holds what the store lacks,
  nothing at the place of the store can be taken for one (`Aside`), and as long as
  nothing has failed the store can be opened and holds every manifest, but for the
  instant between two renames and for a purge (`Healthy`). A reader has then missed
  nothing at any of its awaits (`Answering`).
* `EmbedTexts_proofs`: `BatchesPartition` is about the loop of `splitEmbeddingBatches`
  alone: every text is in exactly one batch, in order, no batch is empty or too long.
  `SharedRequests`, `DeniedCalls` and `RightVectors` rest on `MapInv`: whatever stands
  in the map of requests in flight is promised by a call that still works on it, each
  promise is of a key in a batch of that call, and vectors are only ever paired with
  their own text. `HonestCache` rests on `CacheInv`, which says of every writer of an
  entry what its count includes and who has still to write or count the rest.
* `KnowledgeStore_proofs`: `FactsFirst` and `AnchoredRecall` rest on `FactsInv`, about the
  operations that commands have still to do: each operation finds on disk what it will
  speak of, or comes after an operation of the same list that puts it there. `UniqueEvents`,
  `BackedPromotion` and `IndexedDocs` claim something only while no two commands have
  overlapped (`overlapped`); `OrderInv` says that until then what the head of a list has
  read is what the files still say.
* `HarnessRun_proofs`: `EarnedVerdicts`, `CompleteEvidence`. `HarnessInv`: a timer that is
  still set belongs to an earlier case or to a child whose deadline has passed, so that a
  child that was not late has ended by itself; the results stand in the order of the
  cases, each earned by its own child from the artifacts as the run has read them; each
  file is written when what it speaks of is there.
* `RepositorySetup_proofs`: `ConformingDocs`, `SettledInits`, `ChoicesSurvive`. `SetupInv`
  says that what a command is about to write is of a known type, that a run of init has
  every draft it wants on disk or on its list, and that its configuration stands. Steps
  of other commands keep this because drafts that are wanted only become fewer as
  documents are added (`WantsLess`): the slots of the census fill, a repository does not
  become empty again, and no document changes its type.
* `Readers_proofs`: `ReadersInvariance`, `RepairIndexes`, `PacksDiverse`,
  `LogAndNarrativeAgree`, `LineageIsReplayed`, `OverlaysAreAgreed`, `WorstAreShown`,
  `DetailIsChosen`. `RepositoryInv` is about the commands: snapshots are of commits, and
  whatever is documented or captured has a title. From it follows that drift items have
  different keys, so that the plan sees every item and names exactly what HEAD lacks.
  `PacksDiverse` is about the two loops of `selectContextHits`, for hits in every order
  and of every number: the first loop leaves one hit of a family, or none that fits
  beside the others (`Apart`, `Covers`), and what did not fit once never fits again, because
  a pack only grows. `LogAndNarrativeAgree` compares two computations of what changed
  between snapshots: log sorts the documents of two manifests and filters, the narrative
  takes the decisions of its window. `LineageIsReplayed` goes over the nodes of a path in
  the order of their snapshots (`RawOrdered`): after each snapshot the last node of a path
  tells what the manifest has of it (`LastChange`, `NodesReplay`), and because a path only
  ever enters one thread, predecessors lie in it (`OnePathOneThread`, `NodesFollow`).
* The same module, reports: `LedgerInv` says of every event which command recorded it at which
  commit, so that two events with one id are one event (`EventsDiffer`). From it follows
  that the ids of a synthesis tell its parts apart (`Synthesized`). The passes over it change a
  status and nothing else (`RestatedParts`), and a thread is hit by whatever hits a part
  of it (`Reported`). What is listed to trust is cut twice by two scores (`CutBy`); either
  outweighs with one step of freshness whatever it gives for trust and lineage
  (`StalerOutweighs`). `Faithful` carries this from the step that writes the report.
* The same module, explorer: `ReportInv` says that a report consists of finite lists, whose
  parts stay what they were through three overlays, two sorts and two cuts; with it,
  `ChoiceInv` says that what was chosen last is what the explorer's three selections
  point at, through every filter and every move.
* `Lists_proofs`: what the others need of lists, `Kept`, `Distinct`, `InOrder` and `Sorted`
  among it: a finite set has exactly one list in the order of keys that differ. `Least`
  (a non-empty set of naturals has a least element) and `Iteration` (a loop of finitely
  many steps computes something) take the place of induction, whose theorems have
  operators as parameters.

TLC checked each inductive invariant on small instances before it was proved. One
property was changed by the attempt: `InitSettles`, as said above.

Every safety invariant and action property of a passing run is proved. Only
model-checked: the liveness properties (`CommittedIsFinalized`, `LockIsGivenBack`,
`EveryCallEnds`, `EveryRunEnds`), which are out of the prover's reach. The type
invariants (`TypeOK`, `LockTypeOK`) of the lock, the ingest and the store, and
`HolderIsNamed` of the lock, are proved and not among the runs.

## Assumptions

One operator at a time removes stale locks. Artifact timestamps differ (the code
compares milliseconds). An ingest reads its documents at one instant and its
artifact plan with its base. Transaction ids and lock tokens are unique. A
rename is atomic, and replaces an empty directory. All calls of `EmbedTexts` have
one embedding profile; calls with different profiles share neither keys nor files.
In `StoreLifecycle` a record is a chunk; documents are written from the manifests
and need no store. In `RepositorySetup` a migration is one step, for its steps are in
`StoreLifecycle`, and the version of an embedding goes with its dimensions. An open
store keeps what it held when it was opened, and a collection is copied as of one
moment. In `KnowledgeStore` all events fall on one
day and masking is on (without it, and with `--dry-run`, no command writes). In
`Repository` commits are a line and their dates grow; a document is one chunk.

Abstractions a reader of a property should know. `AppendEvent` of `IngestTransaction`
looks an id up and appends the line in one step: the id is derived from the
transaction, and whoever finalizes one holds the write lock. Two overlapping
`init`s are not modelled, so that of `ensureGitIgnoreEntries` it is shown that a
repetition changes nothing, not what a concurrent writer of `.gitignore` loses. In
`HarnessRun` a child that was killed has printed nothing, and an empty `jsonSubset`
beside other rules is no rule (in the code it still asks for JSON). `Drift` leaves the
reason `binding_local_only` out. `OverlaysAgree` and `WorstShownFirst` are about the
report's `recovery`; the legacy list `recoveryProfile` is built before the overlays,
keeps the statuses of then, and is in no model.

## Not modelled, and the plan

In this order:

1. The other targets of `security purge`, `cache` among them, each the removal of one
   directory; `--target control-plane` also rewrites files other commands append to.
2. Timeline queries over the ledger and the text search over artifacts, filters
   without state.
3. Hooks: install, status and uninstall of two files; `install` writes over a hook of
   another tool and `uninstall` removes only its own. The other settings of
   `config.toml`, which nothing in the models reads.

Left out for good: text rules (masking, detection, chunking, what counts as
a heading), the texts of drafts and templates, the knowledge map, formatting, titles
and summaries, argument parsing, schemas and the vector search of the native
library, and the evaluation of a query set.
