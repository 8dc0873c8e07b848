------------------------- MODULE IngestTransaction -------------------------
(***************************************************************************)
(* The ingest pipeline of ragit: runIngest and runIngestUnlocked           *)
(* (src/core/ingest.ts), the transaction journal it keeps                  *)
(* (ingest-transaction.ts), the finalization of a committed transaction    *)
(* (ingest-finalization.ts), the classification of journals found on disk  *)
(* (ingest-recovery.ts) and the ingest-recover action of repair.ts.        *)
(*                                                                         *)
(* One writer runs at a time: withStoreWriteLock is StoreWriteLock.tla,    *)
(* and what that module guarantees is assumed here.  Beside the writer,    *)
(* and without the lock, the user commits and checks out (MoveHead),       *)
(* captures session memory (Materialize) and reviews it (Review).          *)
(*                                                                         *)
(* A document is versioned by commit and content, and its chunks are       *)
(* identified with that version; the chunks of an artifact are identified  *)
(* with the artifact and its updatedAt, as documentVersionId does.  The id *)
(* of a transaction also stands for its finalization's recordedAt.         *)
(***************************************************************************)
EXTENDS Naturals, FiniteSets

CONSTANTS
    Heads,       \* full commit shas
    Docs,        \* repository documents
    Blobs,       \* contents a document may have
    Unsupported, \* the contents detectDocType finds no supported type for
    Artifacts,   \* artifact records of .ragit/artifacts
    Txns,        \* transaction ids, one per ingest that reaches its journal
    None,        \* null
    Tree,        \* what each commit holds: a function from documents to blobs
    Parent,      \* the first parent of each commit, or None
    Ancestors,   \* the ancestors of each commit, itself included
    MaxEdits,    \* bound: artifact captures and reviews
    MaxFaults    \* bound: crashes, I/O errors and silently lost records

Edits  == 1..MaxEdits
Stamps == Edits \cup Txns

ASSUME TreeAssumption ==
    \A h \in Heads : /\ DOMAIN Tree[h] \subseteq Docs
                     /\ \A d \in DOMAIN Tree[h] : Tree[h][d] \in Blobs
ASSUME HistoryAssumption ==
    /\ Parent \in [Heads -> Heads \cup {None}]
    /\ Ancestors \in [Heads -> SUBSET Heads]
    /\ \A h \in Heads :
         /\ h \in Ancestors[h]
         /\ Parent[h] # None => Parent[h] \in Ancestors[h]
         /\ \A g \in Ancestors[h] : Ancestors[g] \subseteq Ancestors[h]
ASSUME NameAssumption == Docs \cap Artifacts = {}
ASSUME NoneAssumption == None \notin Heads \cup Txns \cup Stamps
ASSUME StampAssumption == Txns \cap Edits = {}
ASSUME BoundAssumption == MaxEdits \in Nat /\ MaxFaults \in Nat

VARIABLES
    head,        \* git HEAD: a commit, or None before the first one
    manifests,   \* .ragit/manifest/<sha>.json, or None
    storeDocs,   \* document versions the canonical store holds
    storeChunks, \* chunks the canonical store holds
    journals,    \* .ragit/runtime/transactions/<id>.json
    artifacts,   \* artifact records
    edits,       \* artifact edits so far: the clock of their updatedAt
    ledger,      \* ingest.completed events per transaction
    pc,          \* where the writer is; "idle" when no one holds the lock
    mode,        \* whose finalization runs: own, backlog or repair
    txn,         \* the writer's transaction
    todo,        \* pending transactions the scan found, still to finalize
    job,         \* what the writer holds in memory before the manifest
    seen,        \* the artifact list bindPlannedArtifacts read
    faults       \* faults so far

disk    == <<manifests, storeDocs, storeChunks, journals, ledger>>
writer  == <<pc, mode, txn, todo, job, seen>>
records == <<artifacts, edits>>
vars    == <<head, disk, records, writer, faults>>

-----------------------------------------------------------------------------
(* Types *)

Version == [id : Docs \cup Artifacts, commit : Heads \cup {None},
            content : Blobs \cup Stamps]

Manifest == [docs : SUBSET Version, chunks : SUBSET Version,
             bound : SUBSET Artifacts, durable : SUBSET Version]

Phases   == {"prepared", "store-written", "store-verified",
             "manifest-committed", "artifacts-finalized",
             "ledger-finalized", "completed"}
Statuses == {"in-progress", "failed-precommit", "failed-postcommit", "completed"}

Binding == [artifact : Artifacts, updatedAt : Stamps]

\* "absent": no file.  "malformed": created by writeNewTransaction with the
\* exclusive flag, its contents not yet, or never, written.
Journal == [status : Statuses \cup {"absent", "malformed"}, phase : Phases,
            head : Heads \cup {None}, docs : SUBSET Version,
            chunks : SUBSET Version, planned : SUBSET Binding]

\* "retired" stands for superseded, retracted and archived.
Artifact == [status : {"absent", "captured", "reviewed", "retired"},
             binding : {"pending", "bound"}, head : Heads \cup {None},
             updatedAt : Stamps \cup {None}]

Job == [head : Heads \cup {None}, base : Heads \cup {None}, full : BOOLEAN,
        reading : SUBSET Docs, deleted : SUBSET Docs, docs : SUBSET Version,
        artifactChunks : SUBSET Version, bound : SUBSET Artifacts,
        planned : SUBSET Binding]

Precommit == {"prepared", "store-written", "store-verified"}
Postcommit == {"manifest-committed", "artifacts-finalized", "ledger-finalized"}

WritePcs == {"write-journal", "write-store", "journal-written", "verify",
             "journal-verified", "check-head", "write-manifest",
             "journal-committed"}
FinalizePcs == {"load-manifest", "list-artifacts", "bind",
                "append-event", "journal-ledger", "journal-completed"}
Pcs == {"idle", "backlog", "select", "read"} \cup WritePcs \cup FinalizePcs

NoJournal == [status |-> "absent", phase |-> "prepared", head |-> None,
              docs |-> {}, chunks |-> {}, planned |-> {}]
NoArtifact == [status |-> "absent", binding |-> "pending", head |-> None,
               updatedAt |-> None]
NoJob == [head |-> None, base |-> None, full |-> FALSE, reading |-> {},
          deleted |-> {}, docs |-> {}, artifactChunks |-> {}, bound |-> {},
          planned |-> {}]
NoManifest == [docs |-> {}, chunks |-> {}, bound |-> {}, durable |-> {}]
Nothing == [a \in {} |-> NoArtifact]

ASSUME ManifestAssumption ==
    /\ None \notin Manifest
    /\ None \notin [head : Heads, docs : SUBSET Version, chunks : SUBSET Version]
    /\ None \notin [docs : SUBSET Version, chunks : SUBSET Version]

-----------------------------------------------------------------------------
(* Reading the disk *)

Indexed == {h \in Heads : manifests[h] # None}

\* listArtifactRecords with statuses captured and reviewed.
IsListed(artifact) == artifact.status \in {"captured", "reviewed"}
Listed == {a \in Artifacts : IsListed(artifacts[a])}

MatchesAnyManifest(journal, manifest) == TRUE \* mutant: existence is enough

\* manifestMismatch, negated.
Matches(journal, manifest) ==
    /\ journal.docs \subseteq manifest.docs
    /\ journal.chunks \subseteq manifest.chunks
    /\ {p.artifact : p \in journal.planned} \subseteq manifest.bound

\* classifyJournal and the catch of scanIngestTransactions.
Class(t) ==
    LET j == journals[t] IN
    CASE j.status = "absent" -> "absent"
      [] j.status = "malformed" -> "invalid"
      [] j.status \in Statuses /\ j.head \in Indexed ->
           IF ~ Matches(j, manifests[j.head]) THEN "inconsistent"
           ELSE IF j.status # "completed" THEN "finalization-pending"
           ELSE IF j.phase = "completed" THEN "completed" ELSE "inconsistent"
      [] OTHER ->
           IF j.status \in {"failed-precommit", "in-progress"} /\ j.phase \in Precommit
           THEN "precommit-incomplete" ELSE "inconsistent"

Pending  == {t \in Txns : Class(t) = "finalization-pending"}
Blocking == {t \in Txns : Class(t) \in {"inconsistent", "invalid"}}

-----------------------------------------------------------------------------
Init ==
    /\ head \in Heads \cup {None}
    /\ manifests = [h \in Heads |-> None]
    /\ storeDocs = {} /\ storeChunks = {}
    /\ journals = [t \in Txns |-> NoJournal]
    /\ artifacts = [a \in Artifacts |-> NoArtifact]
    /\ edits = 0
    /\ ledger = [t \in Txns |-> 0]
    /\ pc = "idle" /\ mode = "own" /\ txn = None /\ todo = {}
    /\ job = NoJob /\ seen = Nothing
    /\ faults = 0

Rest == /\ pc' = "idle" /\ mode' = "own" /\ txn' = None /\ todo' = {}
        /\ job' = NoJob /\ seen' = Nothing

SpendFault == faults < MaxFaults /\ faults' = faults + 1

Advance(from, to) == pc = from /\ pc' = to

SetPhase(phase) == journals' = [journals EXCEPT ![txn].phase = phase]

\* failIngestTransaction; the catch of runIngestUnlocked has reread the
\* journal, so the phase on disk decides.
FailedStatus(phase) == IF phase \in Postcommit THEN "failed-postcommit" ELSE "failed-precommit"
FailAndReset == \* mutant: a failed transaction starts over
    /\ journals' = [journals EXCEPT ![txn].status = "failed-precommit", ![txn].phase = "prepared"]
    /\ Rest
FailTransaction ==
    /\ journals' = [journals EXCEPT ![txn].status = FailedStatus(journals[txn].phase)]
    /\ Rest

-----------------------------------------------------------------------------
(* The environment: git and artifact commands, none of which take the lock *)

MoveHead ==
    /\ \E h \in Heads \ {head} : head' = h
    /\ UNCHANGED <<disk, records, writer, faults>>

\* materializeSession writes the record whatever it held before.
Materialize(a) ==
    /\ edits < MaxEdits /\ edits' = edits + 1
    /\ artifacts' = [artifacts EXCEPT ![a] =
          [status |-> "captured",
           binding |-> IF head = None THEN "pending" ELSE "bound",
           head |-> head, updatedAt |-> edits + 1]]
    /\ UNCHANGED <<head, disk, writer, faults>>

\* reviewArtifacts: canTransition, then a new updatedAt; the binding stays.
Review(a) ==
    /\ edits < MaxEdits /\ edits' = edits + 1
    /\ \E next \in CASE artifacts[a].status = "captured" -> {"reviewed", "retired"}
                     [] artifacts[a].status = "reviewed" -> {"retired"}
                     [] OTHER -> {} :
         artifacts' = [artifacts EXCEPT ![a].status = next, ![a].updatedAt = edits + 1]
    /\ UNCHANGED <<head, disk, writer, faults>>

-----------------------------------------------------------------------------
(* Entering the lock *)

ScanJournalsOnly == \* mutant: what is pending is left for later
    /\ pc = "idle" /\ head # None /\ Blocking = {}
    /\ pc' = "select"
    /\ UNCHANGED <<head, disk, records, mode, txn, todo, job, seen, faults>>

\* runIngest under the lock: nothing starts while a journal blocks; the
\* pending transactions are finalized first.
ScanJournals ==
    /\ pc = "idle"
    /\ head # None
    /\ Blocking = {}
    /\ todo' = Pending
    /\ pc' = IF Pending = {} THEN "select" ELSE "backlog"
    /\ UNCHANGED <<head, disk, records, mode, txn, job, seen, faults>>

FinalizeBacklog(t) ==
    /\ Advance("backlog", "load-manifest")
    /\ t \in todo
    /\ todo' = todo \ {t} /\ txn' = t /\ mode' = "backlog"
    /\ UNCHANGED <<head, disk, records, job, seen, faults>>

\* runRepair with ingest-recover: the class is read again under the lock.
StartRepair(t) ==
    /\ Advance("idle", "load-manifest")
    /\ t \in Pending
    /\ txn' = t /\ mode' = "repair"
    /\ UNCHANGED <<head, disk, records, todo, job, seen, faults>>

-----------------------------------------------------------------------------
(* The write half of runIngestUnlocked *)

AnySinceBase(h) == Indexed \* mutant: the ancestor check is dropped

\* --since takes an indexed ancestor.
SinceBases(h) == Ancestors[h] \cap Indexed

\* resolveCandidates for --all, for paths, and for --since; the base is chosen
\* by selectIngestBase.
FullSelection(h) == [base |-> None, full |-> TRUE, reading |-> DOMAIN Tree[h], deleted |-> {}]
PathSelections(h) ==
    LET base == IF h \in Indexed THEN h ELSE Parent[h] IN
    {[base |-> base, full |-> FALSE, reading |-> P, deleted |-> {}] :
       P \in {Q \in SUBSET DOMAIN Tree[h] : Q # {} /\ base \in Indexed}}
Changed(b, h) == {d \in DOMAIN Tree[h] : d \in DOMAIN Tree[b] => Tree[b][d] # Tree[h][d]}
SinceSelections(h) ==
    {[base |-> b, full |-> FALSE, reading |-> Changed(b, h),
      deleted |-> DOMAIN Tree[b] \ DOMAIN Tree[h]] : b \in SinceBases(h)}
Selection(h) == {FullSelection(h)} \cup PathSelections(h) \cup SinceSelections(h)

ArtifactVersion(a, updatedAt) == [id |-> a, commit |-> None, content |-> updatedAt]

\* What planPendingArtifactBindings and buildArtifactIndexData project, for the
\* pending artifacts that are ready and the scope asked for.
Draft(t, s, ready, scope) ==
    [head |-> head, base |-> s.base, full |-> s.full,
     reading |-> s.reading, deleted |-> s.deleted, docs |-> {},
     artifactChunks |->
       IF scope = "durable" THEN {}
       ELSE {ArtifactVersion(a, IF a \in ready THEN t ELSE artifacts[a].updatedAt) : a \in Listed},
     bound |->
       IF scope = "durable" THEN {}
       ELSE {a \in Listed : a \in ready \/ artifacts[a].binding = "bound"},
     planned |-> {[artifact |-> a, updatedAt |-> artifacts[a].updatedAt] : a \in ready}]

\* HEAD, the base manifest, the candidates and the dirty check against HEAD.
SelectBase ==
    /\ Advance("select", "read")
    /\ \E t \in Txns, s \in Selection(head),
          ready \in SUBSET {a \in Listed : artifacts[a].binding = "pending"},
          scope \in {"durable", "all"} :
         /\ journals[t].status = "absent"
         /\ txn' = t
         /\ job' = Draft(t, s, ready, scope)
    /\ UNCHANGED <<head, disk, records, mode, todo, seen, faults>>

\* The loop over processableFiles reads the working tree of whatever commit is
\* checked out by then; writeNewTransaction has created its file.
CreateJournal ==
    /\ Advance("read", "write-journal")
    /\ job.reading \subseteq DOMAIN Tree[head]
    /\ job' = [job EXCEPT !.docs =
         {[id |-> d, commit |-> job.head, content |-> Tree[head][d]] :
            d \in {r \in job.reading : Tree[head][r] \notin Unsupported}}]
    /\ journals' = [journals EXCEPT ![txn].status = "malformed"]
    /\ UNCHANGED <<head, manifests, storeDocs, storeChunks, ledger, records,
                   mode, txn, todo, seen, faults>>

NewChunks == job.docs \cup job.artifactChunks

WriteJournal ==
    /\ Advance("write-journal", "write-store")
    /\ journals' = [journals EXCEPT ![txn] =
         [status |-> "in-progress", phase |-> "prepared", head |-> job.head,
          docs |-> job.docs, chunks |-> NewChunks, planned |-> job.planned]]
    /\ UNCHANGED <<head, manifests, storeDocs, storeChunks, ledger, records,
                   mode, txn, todo, job, seen, faults>>

\* writeDocumentsToCanonicalStore and writeChunksToCanonicalStore; no status
\* upsertSync returns is looked at, so a record may be lost without an error.
WriteStore ==
    /\ Advance("write-store", "journal-written")
    /\ \/ /\ storeDocs' = storeDocs \cup job.docs
          /\ storeChunks' = storeChunks \cup NewChunks
          /\ UNCHANGED faults
       \/ /\ SpendFault
          /\ \E docs \in SUBSET job.docs, chunks \in SUBSET NewChunks :
               /\ storeDocs' = storeDocs \cup docs
               /\ storeChunks' = storeChunks \cup chunks
    /\ UNCHANGED <<head, manifests, journals, ledger, records,
                   mode, txn, todo, job, seen>>

JournalStoreWritten ==
    /\ Advance("journal-written", "verify")
    /\ SetPhase("store-written")
    /\ UNCHANGED <<head, manifests, storeDocs, storeChunks, ledger, records,
                   mode, txn, todo, job, seen, faults>>

VerifyNothing == \* mutant: what upsertSync wrote is not fetched again
    /\ Advance("verify", "journal-verified")
    /\ UNCHANGED <<head, disk, records, mode, txn, todo, job, seen, faults>>

\* The store is closed, reopened, and every id written is fetched.
VerifyStore ==
    /\ Advance("verify", "journal-verified")
    /\ job.docs \subseteq storeDocs
    /\ NewChunks \subseteq storeChunks
    /\ UNCHANGED <<head, disk, records, mode, txn, todo, job, seen, faults>>

StoreIncomplete ==
    /\ pc = "verify"
    /\ ~ (job.docs \subseteq storeDocs /\ NewChunks \subseteq storeChunks)
    /\ FailTransaction
    /\ UNCHANGED <<head, manifests, storeDocs, storeChunks, ledger, records, faults>>

JournalStoreVerified ==
    /\ Advance("journal-verified", "check-head")
    /\ SetPhase("store-verified")
    /\ UNCHANGED <<head, manifests, storeDocs, storeChunks, ledger, records,
                   mode, txn, todo, job, seen, faults>>

BindBeforeManifest == \* mutant: artifacts are bound before the manifest exists
    /\ Advance("check-head", "list-artifacts")
    /\ head = job.head
    /\ UNCHANGED <<head, disk, records, mode, txn, todo, job, seen, faults>>

CheckHead ==
    /\ Advance("check-head", "write-manifest")
    /\ head = job.head
    /\ UNCHANGED <<head, disk, records, mode, txn, todo, job, seen, faults>>

\* HEAD moved, or the candidates became dirty.
RepositoryChanged ==
    /\ pc = "check-head"
    /\ FailTransaction
    /\ UNCHANGED <<head, manifests, storeDocs, storeChunks, ledger, records, faults>>

\* The documentMap and chunkEntries kept from the base, and the durable scope.
Base == IF job.base = None THEN NoManifest ELSE manifests[job.base]
Replaced == job.deleted \cup {v.id : v \in job.docs}
KeepUnlessDeleted(versions) == {v \in versions : v.id \notin job.deleted} \* mutant
Kept(versions) == {v \in versions : v.id \notin Replaced}
NewManifest ==
    LET chunks == Kept(Base.chunks) \cup NewChunks IN
    [docs |-> Kept(Base.docs) \cup job.docs,
     chunks |-> chunks,
     bound |-> job.bound,
     durable |-> job.docs \cup (IF job.full THEN {} ELSE chunks \ job.artifactChunks)]

\* writeSnapshotManifest: a temporary file renamed over the manifest.
WriteManifest ==
    /\ Advance("write-manifest", "journal-committed")
    /\ manifests' = [manifests EXCEPT ![job.head] = NewManifest]
    /\ job' = NoJob
    /\ UNCHANGED <<head, storeDocs, storeChunks, journals, ledger, records,
                   mode, txn, todo, seen, faults>>

JournalManifestCommitted ==
    /\ Advance("journal-committed", "load-manifest")
    /\ SetPhase("manifest-committed")
    /\ UNCHANGED <<head, manifests, storeDocs, storeChunks, ledger, records,
                   mode, txn, todo, job, seen, faults>>

-----------------------------------------------------------------------------
(* finalizeIngestTransaction: after the manifest, from the backlog, or repair *)

LoadManifestOfCommitted == \* mutant: the journal must already say manifest-committed
    /\ pc = "load-manifest"
    /\ IF journals[txn].phase \in Precommit THEN FailTransaction
       ELSE /\ pc' = "list-artifacts"
            /\ UNCHANGED <<journals, mode, txn, todo, job, seen>>
    /\ UNCHANGED <<head, manifests, storeDocs, storeChunks, ledger, records, faults>>

LoadManifest ==
    /\ Advance("load-manifest", "list-artifacts")
    /\ journals[txn].head \in Indexed
    /\ IF journals[txn].phase \in Precommit
       THEN SetPhase("manifest-committed") ELSE UNCHANGED journals
    /\ UNCHANGED <<head, manifests, storeDocs, storeChunks, ledger, records,
                   mode, txn, todo, job, seen, faults>>

\* bindPlannedArtifacts reads every record once, before it writes any.
ListArtifacts ==
    /\ Advance("list-artifacts", "bind")
    /\ seen' = [a \in {p.artifact : p \in journals[txn].planned} |-> artifacts[a]]
    /\ UNCHANGED <<head, disk, records, mode, txn, todo, job, faults>>

BoundBy(t, artifact) ==
    /\ artifact.binding = "bound"
    /\ artifact.head = journals[t].head
    /\ artifact.updatedAt = t

Bindable(t, p, artifact) ==
    /\ IsListed(artifact)
    /\ \/ artifact.binding = "pending" /\ artifact.updatedAt = p.updatedAt
       \/ BoundBy(t, artifact)

Unbind(a) == seen' = [b \in DOMAIN seen \ {a} |-> seen[b]]

\* persistArtifactRecord of the record as it was listed.
BindArtifact(a) ==
    /\ pc = "bind" /\ a \in DOMAIN seen
    /\ \E p \in journals[txn].planned : p.artifact = a /\ Bindable(txn, p, seen[a])
    /\ artifacts' = IF seen[a].binding = "pending"
                    THEN [artifacts EXCEPT ![a] =
                            [seen[a] EXCEPT !.binding = "bound",
                                            !.head = journals[txn].head,
                                            !.updatedAt = txn]]
                    ELSE artifacts
    /\ Unbind(a)
    /\ UNCHANGED <<head, disk, edits, pc, mode, txn, todo, job, faults>>

BindingConflict(a) ==
    /\ pc = "bind" /\ a \in DOMAIN seen
    /\ \E p \in journals[txn].planned : p.artifact = a /\ ~ Bindable(txn, p, seen[a])
    /\ FailTransaction
    /\ UNCHANGED <<head, manifests, storeDocs, storeChunks, ledger, records, faults>>

JournalArtifactsEarly == \* mutant: the loop over the planned bindings stops early
    /\ Advance("bind", "append-event")
    /\ SetPhase("artifacts-finalized") /\ seen' = Nothing
    /\ UNCHANGED <<head, manifests, storeDocs, storeChunks, ledger, records,
                   mode, txn, todo, job, faults>>

JournalArtifacts ==
    /\ Advance("bind", "append-event")
    /\ DOMAIN seen = {}
    /\ SetPhase("artifacts-finalized")
    /\ UNCHANGED <<head, manifests, storeDocs, storeChunks, ledger, records,
                   mode, txn, todo, job, seen, faults>>

\* appendLedgerEvent skips an event id the day's file already holds.
AppendEvent ==
    /\ Advance("append-event", "journal-ledger")
    /\ ledger' = [ledger EXCEPT ![txn] = IF @ = 0 THEN 1 ELSE @]
    /\ UNCHANGED <<head, manifests, storeDocs, storeChunks, journals, records,
                   mode, txn, todo, job, seen, faults>>

JournalLedger ==
    /\ Advance("journal-ledger", "journal-completed")
    /\ SetPhase("ledger-finalized")
    /\ UNCHANGED <<head, manifests, storeDocs, storeChunks, ledger, records,
                   mode, txn, todo, job, seen, faults>>

\* The last update; then the lock is released, or the backlog goes on.
JournalCompleted ==
    /\ pc = "journal-completed"
    /\ journals' = [journals EXCEPT ![txn] = [@ EXCEPT !.status = "completed", !.phase = "completed"]]
    /\ IF mode = "backlog"
       THEN /\ pc' = IF todo = {} THEN "select" ELSE "backlog"
            /\ mode' = "own" /\ txn' = None
            /\ UNCHANGED <<todo, job, seen>>
       ELSE Rest
    /\ UNCHANGED <<head, manifests, storeDocs, storeChunks, ledger, records, faults>>

-----------------------------------------------------------------------------
(* Giving up *)

\* Before the journal exists an error leaves nothing behind.
Abort ==
    /\ pc \in {"select", "read"}
    /\ Rest
    /\ UNCHANGED <<head, disk, records, faults>>

\* An I/O error at any later step.  createIngestTransaction is outside the try
\* block, so an error while the journal is written leaves it malformed.
FailStep ==
    /\ SpendFault
    /\ pc \in WritePcs \cup FinalizePcs
    /\ IF pc = "write-journal" THEN Rest /\ UNCHANGED journals ELSE FailTransaction
    /\ UNCHANGED <<head, manifests, storeDocs, storeChunks, ledger, records>>

\* The process dies; the operator removes the stale lock before the next run.
Crash ==
    /\ SpendFault
    /\ pc # "idle"
    /\ Rest
    /\ UNCHANGED <<head, disk, records>>

-----------------------------------------------------------------------------
WriteSteps ==
    \/ SelectBase \/ CreateJournal \/ WriteJournal \/ WriteStore
    \/ JournalStoreWritten \/ VerifyStore \/ StoreIncomplete
    \/ JournalStoreVerified \/ CheckHead \/ RepositoryChanged
    \/ WriteManifest \/ JournalManifestCommitted

FinalizeSteps ==
    \/ LoadManifest \/ ListArtifacts
    \/ \E a \in Artifacts : BindArtifact(a) \/ BindingConflict(a)
    \/ JournalArtifacts \/ AppendEvent \/ JournalLedger \/ JournalCompleted

Environment ==
    \/ MoveHead
    \/ \E a \in Artifacts : Materialize(a) \/ Review(a)
    \/ FailStep \/ Crash

Next ==
    \/ ScanJournals
    \/ \E t \in Txns : FinalizeBacklog(t) \/ StartRepair(t)
    \/ WriteSteps
    \/ FinalizeSteps
    \/ Abort
    \/ Environment

Spec == Init /\ [][Next]_vars

\* A run that holds the lock keeps going until it ends, fails or crashes, and
\* the operator runs ragit repair again as long as it has something to finalize.
Fairness ==
    /\ WF_vars(WriteSteps \/ Abort)
    /\ WF_vars(FinalizeSteps)
    /\ WF_vars(\E t \in Txns : FinalizeBacklog(t))
    /\ \A t \in Txns : SF_vars(StartRepair(t))

FairSpec == Spec /\ Fairness

-----------------------------------------------------------------------------
(* Safety *)

\* The state has its type.
TypeOK ==
    /\ head \in Heads \cup {None}
    /\ manifests \in [Heads -> Manifest \cup {None}]
    /\ storeDocs \subseteq Version /\ storeChunks \subseteq Version
    /\ journals \in [Txns -> Journal]
    /\ artifacts \in [Artifacts -> Artifact]
    /\ edits \in 0..MaxEdits /\ faults \in 0..MaxFaults
    /\ ledger \in [Txns -> {0, 1}]
    /\ pc \in Pcs /\ mode \in {"own", "backlog", "repair"}
    /\ txn \in Txns \cup {None} /\ todo \subseteq Txns
    /\ job \in Job
    /\ DOMAIN seen \subseteq Artifacts /\ seen \in [DOMAIN seen -> Artifact]

\* Every record a visible manifest names is in the store, whatever was lost or
\* interrupted on the way: the reopen-and-fetch check before the manifest.
PublishedReadable ==
    \A h \in Indexed : /\ manifests[h].docs \subseteq storeDocs
                       /\ manifests[h].chunks \subseteq storeChunks

\* A snapshot holds one version of a document, and the chunks of that version
\* only: none of a replaced, deleted or differently read version stays behind
\* to be retrieved (the removal loops over documentMap and chunkEntries).
ChunksFollowDocuments ==
    \A h \in Indexed :
      /\ \A v, w \in manifests[h].docs : v.id = w.id => v = w
      /\ {c \in manifests[h].chunks : c.id \in Docs} = manifests[h].docs

\* No chain of partial and --since ingests brings a version of another branch
\* into a snapshot: the base is HEAD, its parent or an ancestor.
SnapshotsStayOnBranch ==
    \A h \in Indexed : \A v \in manifests[h].docs : v.commit \in Ancestors[h]

\* A completed transaction has its one ingest.completed event, and an event
\* stands only for a transaction past its commit point, whose snapshot exists
\* and whose planned artifacts are all bound, however often it was retried.
AnnouncedIsFinal ==
    \A t \in Txns :
      /\ journals[t].status = "completed" => ledger[t] = 1
      /\ ledger[t] = 1 =>
           /\ journals[t].phase \notin Precommit
           /\ journals[t].head \in Indexed
           /\ \A p \in journals[t].planned : artifacts[p.artifact].binding = "bound"

\* An artifact that a transaction stamped is bound to that transaction's
\* commit, and the commit's snapshot is already visible: binding comes after
\* publication, in a first run, a backlog run and a repair alike.
BindingAfterPublication ==
    \A a \in Artifacts : \A t \in Txns :
      artifacts[a].updatedAt = t =>
        /\ artifacts[a].binding = "bound"
        /\ artifacts[a].head = journals[t].head
        /\ journals[t].head \in Indexed
        /\ journals[t].phase \notin Precommit

\* While an ingest works towards its own manifest, every other journal is
\* settled: completed, or abandoned before its commit point ("automatically
\* finalizes a recoverable committed transaction before the next ingest").
BacklogSettledFirst ==
    pc \in {"select", "read"} \cup (WritePcs \ {"journal-committed"}) =>
      \A t \in Txns \ {txn} : Class(t) \in {"absent", "completed", "precommit-incomplete"}

\* A journal past its commit point never falls back before it, and a completed
\* one never changes, though finalization runs again over any phase it finds.
CommitPointIsFinal ==
    [][\A t \in Txns :
         /\ journals[t].phase \notin Precommit => journals'[t].phase \notin Precommit
         /\ journals[t].status = "completed" => journals'[t] = journals[t]]_vars

-----------------------------------------------------------------------------
(* Refinement *)

\* What a reader finds of a commit: what its manifest names and the store holds.
Readable(h) ==
    IF h \in Indexed THEN [docs   |-> manifests[h].docs \cap storeDocs,
                           chunks |-> manifests[h].chunks \cap storeChunks]
    ELSE None

Begun(t) == journals[t].status \in Statuses

Publication == INSTANCE SnapshotPublication WITH
    Versions  <- Version,
    snapshots <- [h \in Heads |-> Readable(h)],
    work      <- [t \in Txns |->
                    IF Begun(t) THEN [head |-> journals[t].head, docs |-> journals[t].docs,
                                      chunks |-> journals[t].chunks]
                    ELSE None],
    announced <- ledger

\* The pipeline implements SnapshotPublication: a reader never sees a snapshot
\* half written, whatever crashes, fails or is retried.
ImplementsPublication == Publication!Spec

-----------------------------------------------------------------------------
(* Liveness *)

Conflicted(t) == \E p \in journals[t].planned : ~ Bindable(t, p, artifacts[p.artifact])

\* A transaction whose manifest is visible is completed in the end, unless the
\* user changed an artifact it planned to bind.
CommittedIsFinalized ==
    \A t \in Txns : t \in Pending ~> (journals[t].status = "completed" \/ Conflicted(t))

-----------------------------------------------------------------------------
(* What the repository says and the code does not do *)

\* src/core/ingest.ts:893 sends the user of a blocked ingest to
\* "ragit repair --apply --action ingest-recover".
BlockedIngestIsRepairable ==
    pc = "idle" /\ Blocking # {} => Pending # {}

\* ingest.mdx:9: "produces a snapshot manifest bound to the exact current
\* commit".
SnapshotBoundToCommit ==
    \A h \in Indexed : \A v \in manifests[h].docs :
      v.commit = h => v.id \in DOMAIN Tree[h] /\ v.content = Tree[h][v.id]

\* ingest.mdx:42: "--scope durable|all: Include durable documents only, or
\* durable documents plus bindable artifacts."
DurableScopeHoldsDocuments ==
    \A h \in Indexed : \A c \in manifests[h].durable : c.id \in Docs
=============================================================================
