--------------------------- MODULE StoreLifecycle ---------------------------
(***************************************************************************)
(* The canonical store as a directory: created when a writer first opens   *)
(* it (src/core/zvec.ts), rebuilt from the manifests by repair             *)
(* (store-rebuild.ts), re-embedded by migrate embeddings (migrate.ts),     *)
(* swapped in by renames (store-swap.ts) and cleared by security purge     *)
(* (security.ts).  All of them run under the lock of StoreWriteLock.tla,   *)
(* one at a time.  An ingest appears here in the few steps that touch the  *)
(* store, the manifests and its journal; IngestTransaction.tla has the     *)
(* others.  The two imports of an older store (migrate.ts) open and fill   *)
(* the store like an ingest, without a journal and without a check.        *)
(*                                                                         *)
(* A record is a chunk; document versions are written from the manifests   *)
(* by a rebuild and a migration alike, and are never missing.              *)
(***************************************************************************)
EXTENDS Naturals, FiniteSets

CONSTANTS
    Heads,     \* commits
    Records,   \* chunks
    Legacy,    \* artifact chunks whose manifest entry has no rebuild payload
    Older,     \* chunks of an older store, sqlite-vss or JSON
    Unplaced,  \* chunks a rebuild cannot make again, as most of an import
    Txns,      \* ingests
    Contracts, \* embedding contracts
    None,
    MaxFaults  \* bound: crashes, I/O errors and writes that lose records

ASSUME NoneAssumption == None \notin Contracts \cup Heads \cup Txns
ASSUME ManifestAssumption == \A chunks \in SUBSET Records : chunks # None
ASSUME OlderAssumption == Older \subseteq Records
ASSUME FaultAssumption == MaxFaults \in Nat

VARIABLES
    store,     \* .ragit/store
    next,      \* .ragit/store.next
    previous,  \* .ragit/store.prev
    manifests, \* the chunks each commit's manifest refers to, or None
    journals,  \* .ragit/runtime/transactions
    config,    \* the embedding contract of config.toml
    pc,        \* where the command under the lock is, or "idle"
    job,       \* what that command holds in memory
    forgone,   \* history: records purged, or lost by a copy nothing checks
    faults

directories == <<store, next, previous>>
vars == <<directories, manifests, journals, config, pc, job, forgone, faults>>

\* "partial": collections or the meta file are missing, so that nobody can
\* open it.  "empty": the directory every command makes when it starts.
Directory == [state : {"absent", "empty", "partial", "whole"},
              contract : Contracts \cup {None}, records : SUBSET Records]
Bare(state) == [state |-> state, contract |-> None, records |-> {}]
Absent  == Bare("absent")
Empty   == Bare("empty")
Partial == Bare("partial")
Whole(contract, records) ==
    [state |-> "whole", contract |-> contract, records |-> records]
Held(dir) == IF dir.state = "whole" THEN dir.records ELSE {}

\* "open" and "failed" journals are in a precommit phase, "committed" ones
\* past it.
Journal == [status : {"absent", "open", "failed", "committed", "completed"},
            head : Heads \cup {None}, records : SUBSET Records]
NoJournal == [status |-> "absent", head |-> None, records |-> {}]

Job == [command : {"none", "ingest", "import", "rebuild", "migrate", "purge"},
        txn : Txns \cup {None}, contract : Contracts \cup {None},
        kept : SUBSET Records, records : SUBSET Records]
NoJob == [command |-> "none", txn |-> None, contract |-> None,
          kept |-> {}, records |-> {}]

IngestPcs == {"open", "create", "write", "publish", "commit", "complete"}
BuildPcs  == {"create-next", "fill-next", "verify-next", "promote"}
SwapPcs   == {"swap", "rollback", "drop", "discard", "remove-terminal"}
PurgePcs  == {"purge-store", "purge-next", "purge-previous", "purge-manifests"}
Pcs == {"idle"} \cup IngestPcs \cup BuildPcs \cup SwapPcs \cup PurgePcs

-----------------------------------------------------------------------------
Indexed == {h \in Heads : manifests[h] # None}
ManifestUnion == UNION {manifests[h] : h \in Indexed}

\* classifyJournal.
Visible(t)  == journals[t].head \in Indexed
Matches(t)  == journals[t].records \subseteq manifests[journals[t].head]
Pending     == {t \in Txns : /\ journals[t].status \in {"open", "failed", "committed"}
                             /\ Visible(t) /\ Matches(t)}
Blocking    == {t \in Txns :
                  \/ Visible(t) /\ ~ Matches(t)
                  \/ ~ Visible(t) /\ journals[t].status \in {"committed", "completed"}}
AllButBlocking == \* mutant: whatever does not block counts as terminal
    Txns \ Blocking
Terminal    == {t \in Txns : \/ journals[t].status = "completed" /\ Visible(t) /\ Matches(t)
                             \/ journals[t].status = "failed" /\ ~ Visible(t)}

Init ==
    /\ store = Absent /\ next = Absent /\ previous = Absent
    /\ manifests = [h \in Heads |-> None]
    /\ journals = [t \in Txns |-> NoJournal]
    /\ config \in Contracts
    /\ pc = "idle" /\ job = NoJob
    /\ forgone = {} /\ faults = 0

SpendFault == faults < MaxFaults /\ faults' = faults + 1
Advance(from, to) == pc = from /\ pc' = to
Rest == pc' = "idle" /\ job' = NoJob

-----------------------------------------------------------------------------
(* Without the lock *)

\* The user edits config.toml.
Configure(contract) ==
    /\ config # contract /\ config' = contract
    /\ UNCHANGED <<directories, manifests, journals, pc, job, forgone, faults>>

\* ensureRagitDirectories, which even memory and session commands call.
MakeStoreDirectory ==
    /\ store.state = "absent" /\ store' = Empty
    /\ UNCHANGED <<next, previous, manifests, journals, config, pc, job, forgone, faults>>

-----------------------------------------------------------------------------
(* Ingest *)

\* finalizeIngestTransaction of the backlog, or of repair.
FinalizePending(t) ==
    /\ pc = "idle" /\ t \in Pending
    /\ journals' = [journals EXCEPT ![t] = [@ EXCEPT !.status = "completed"]]
    /\ UNCHANGED <<directories, manifests, config, pc, job, forgone, faults>>

\* Up to the journal; part of the base snapshot, if there is one, is kept.
BeginIngest(t, h) ==
    /\ Advance("idle", "open")
    /\ Blocking = {} /\ Pending = {}
    /\ journals[t].status = "absent"
    /\ \E kept \in (UNION {SUBSET manifests[g] : g \in Indexed}) \cup {{}}, new \in SUBSET Records :
         /\ job' = [command |-> "ingest", txn |-> t, contract |-> config,
                    kept |-> kept, records |-> new]
         /\ journals' = [journals EXCEPT ![t] = [status |-> "open", head |-> h, records |-> new]]
    /\ UNCHANGED <<directories, manifests, config, forgone, faults>>

FailIngest ==
    /\ journals' = [journals EXCEPT ![job.txn] = [@ EXCEPT !.status = "failed"]]
    /\ Rest

Refuse == IF job.command = "import" THEN Rest /\ UNCHANGED journals ELSE FailIngest

\* openCanonicalStoreAtPath, not read-only: a store that is missing is
\* created, one that is incomplete or has another contract is refused.
OpenStore ==
    /\ pc = "open"
    /\ \/ /\ store.state \in {"absent", "empty"}
          /\ store' = Partial /\ pc' = "create"
          /\ UNCHANGED <<journals, job>>
       \/ /\ store.state = "whole" /\ store.contract = job.contract
          /\ pc' = "write"
          /\ UNCHANGED <<store, journals, job>>
       \/ /\ \/ store.state = "partial"
             \/ store.state = "whole" /\ store.contract # job.contract
          /\ Refuse /\ UNCHANGED store
    /\ UNCHANGED <<next, previous, manifests, config, forgone, faults>>

\* The collections exist; writeStoreMeta makes the store one to open.
CreateStore ==
    /\ Advance("create", "write")
    /\ store' = Whole(job.contract, {})
    /\ UNCHANGED <<next, previous, manifests, journals, config, job, forgone, faults>>

\* The upserts, and the check that reopens the store.
WriteStore ==
    /\ pc = "write" /\ job.command = "ingest"
    /\ \/ /\ store' = Whole(store.contract, store.records \cup job.records)
          /\ forgone' = forgone \ job.records
          /\ pc' = "publish"
          /\ UNCHANGED <<journals, job, faults>>
       \/ /\ SpendFault /\ FailIngest
          /\ \E written \in SUBSET job.records :
               store' = Whole(store.contract, store.records \cup written)
          /\ UNCHANGED forgone
    /\ UNCHANGED <<next, previous, manifests, config>>

Publish ==
    /\ Advance("publish", "commit") /\ job.command = "ingest"
    /\ manifests' = [manifests EXCEPT ![journals[job.txn].head] = job.kept \cup job.records]
    /\ UNCHANGED <<directories, journals, config, job, forgone, faults>>

Commit ==
    /\ Advance("commit", "complete")
    /\ journals' = [journals EXCEPT ![job.txn] = [@ EXCEPT !.status = "committed"]]
    /\ UNCHANGED <<directories, manifests, config, job, forgone, faults>>

Complete ==
    /\ pc = "complete" /\ Rest
    /\ journals' = [journals EXCEPT ![job.txn] = [@ EXCEPT !.status = "completed"]]
    /\ UNCHANGED <<directories, manifests, config, forgone, faults>>

-----------------------------------------------------------------------------
(* migrate from-sqlite-vss and from-json-store: what the older store holds    *)
(* becomes the snapshot of HEAD.                                              *)

BeginImport ==
    /\ Advance("idle", "open")
    /\ job' = [NoJob EXCEPT !.command = "import", !.contract = config, !.records = Older]
    /\ UNCHANGED <<directories, manifests, journals, config, forgone, faults>>

\* The upserts, with nothing to check them.
ImportRecords ==
    /\ Advance("write", "publish") /\ job.command = "import"
    /\ \E written \in SUBSET job.records :
         /\ store' = Whole(store.contract, store.records \cup written)
         /\ forgone' = (forgone \cup job.records) \ (store.records \cup written)
         /\ IF written = job.records THEN UNCHANGED faults ELSE SpendFault
    /\ UNCHANGED <<next, previous, manifests, journals, config, job>>

\* The manifest of HEAD becomes the one of the import, whatever it was.
PublishImport(h) ==
    /\ pc = "publish" /\ job.command = "import" /\ Rest
    /\ manifests' = [manifests EXCEPT ![h] = job.records]
    /\ UNCHANGED <<directories, journals, config, forgone, faults>>

-----------------------------------------------------------------------------
(* Building .ragit/store.next *)

\* assertStoreSwapReady.
SwapReady == next.state = "absent" /\ previous.state = "absent"

BeginBuild(command) ==
    /\ Advance("idle", "create-next")
    /\ SwapReady
    /\ job' = [NoJob EXCEPT !.command = command, !.contract = config, !.records = ManifestUnion]
    /\ UNCHANGED <<directories, manifests, journals, config, forgone, faults>>

\* rebuildStoreFromManifests: durable chunks and artifact payloads come from
\* the manifests, legacy artifact chunks from the store, whatever its contract.
BeginRebuild ==
    /\ ManifestUnion \cap Unplaced = {}
    /\ ManifestUnion \cap Legacy # {} =>
         store.state = "whole" /\ ManifestUnion \cap Legacy \subseteq store.records
    /\ BeginBuild("rebuild")

\* migrateEmbeddings: every chunk comes from the store, with a new embedding.
BeginMigrate ==
    /\ store.state = "whole" /\ store.contract # config
    /\ ManifestUnion \subseteq store.records
    /\ BeginBuild("migrate")

CreateNext ==
    /\ Advance("create-next", "fill-next")
    /\ next' = Partial
    /\ UNCHANGED <<store, previous, manifests, journals, config, job, forgone, faults>>

\* upsertSync may lose a record without an error; only a rebuild checks.
FillNext ==
    /\ Advance("fill-next", IF job.command = "rebuild" THEN "verify-next" ELSE "promote")
    /\ \/ /\ next' = Whole(job.contract, job.records)
          /\ UNCHANGED <<forgone, faults>>
       \/ /\ SpendFault
          /\ \E written \in SUBSET job.records :
               /\ next' = Whole(job.contract, written)
               /\ forgone' = IF job.command = "migrate"
                             THEN forgone \cup (job.records \ written) ELSE forgone
    /\ UNCHANGED <<store, previous, manifests, journals, config, job>>

VerifyNothing == \* mutant: the next store is promoted as it is
    /\ Advance("verify-next", "promote")
    /\ UNCHANGED <<directories, manifests, journals, config, job, forgone, faults>>

\* verifyNextStore fetches every id, and compares the counts.
VerifyNext ==
    /\ Advance("verify-next", IF next.records = job.records THEN "promote" ELSE "discard")
    /\ UNCHANGED <<directories, manifests, journals, config, job, forgone, faults>>

BuildFails ==
    /\ SpendFault
    /\ pc \in BuildPcs /\ pc' = "discard"
    /\ UNCHANGED <<directories, manifests, journals, config, job, forgone>>

\* removeNextStore after any failure.
Discard ==
    /\ pc = "discard" /\ Rest
    /\ next' = Absent
    /\ UNCHANGED <<store, previous, manifests, journals, config, forgone, faults>>

-----------------------------------------------------------------------------
(* promoteNextStore *)

AfterPromotion ==
    IF job.command = "rebuild" THEN pc' = "remove-terminal" /\ UNCHANGED job ELSE Rest

\* The first rename; there is none without a store directory.
Promote ==
    /\ pc = "promote"
    /\ previous.state = "absent"
    /\ IF store.state = "absent"
       THEN /\ store' = next /\ next' = Absent /\ UNCHANGED previous
            /\ AfterPromotion
       ELSE /\ previous' = store /\ store' = Absent /\ UNCHANGED <<next, job>>
            /\ pc' = "swap"
    /\ UNCHANGED <<manifests, journals, config, forgone, faults>>

\* The second rename, over an empty directory if another command made one.
PromoteNext ==
    /\ Advance("swap", "drop")
    /\ store' = next /\ next' = Absent
    /\ UNCHANGED <<previous, manifests, journals, config, job, forgone, faults>>

FailOverBackup == \* mutant: an error of the second rename is not caught
    /\ SpendFault
    /\ Advance("swap", "drop")
    /\ UNCHANGED <<directories, manifests, journals, config, job, forgone>>

SwapFails ==
    /\ SpendFault
    /\ Advance("swap", "rollback")
    /\ UNCHANGED <<directories, manifests, journals, config, job, forgone>>

Rollback ==
    /\ Advance("rollback", "discard")
    /\ store' = previous /\ previous' = Absent
    /\ UNCHANGED <<next, manifests, journals, config, job, forgone, faults>>

RollbackFails ==
    /\ SpendFault
    /\ Advance("rollback", "discard")
    /\ UNCHANGED <<directories, manifests, journals, config, job, forgone>>

DropPrevious ==
    /\ pc = "drop" /\ AfterPromotion
    /\ previous' = Absent
    /\ UNCHANGED <<store, next, manifests, journals, config, forgone, faults>>

\* An error of the rm leaves a part, and is reported as a failed promotion.
DropFails ==
    /\ SpendFault
    /\ Advance("drop", "discard")
    /\ previous' = Partial
    /\ UNCHANGED <<store, next, manifests, journals, config, job, forgone>>

\* The journals to remove are listed once and removed one by one.
RemoveJournals(gone) ==
    /\ pc = "remove-terminal" /\ Rest
    /\ journals' = [t \in Txns |-> IF t \in gone THEN NoJournal ELSE journals[t]]
    /\ UNCHANGED <<directories, manifests, config, forgone>>

RemoveTerminal == RemoveJournals(Terminal) /\ UNCHANGED faults

RemovalStops == SpendFault /\ \E gone \in SUBSET Terminal : RemoveJournals(gone)

-----------------------------------------------------------------------------
(* security purge --target store: directories first, manifests one by one *)

BeginPurge ==
    /\ Advance("idle", "purge-store")
    /\ job' = [NoJob EXCEPT !.command = "purge"]
    /\ forgone' = forgone \cup ManifestUnion
    /\ UNCHANGED <<directories, manifests, journals, config, faults>>

PurgeStore ==
    /\ Advance("purge-store", "purge-next")
    /\ store' = Absent
    /\ UNCHANGED <<next, previous, manifests, journals, config, job, forgone, faults>>

PurgeNext ==
    /\ Advance("purge-next", "purge-previous")
    /\ next' = Absent
    /\ UNCHANGED <<store, previous, manifests, journals, config, job, forgone, faults>>

PurgePrevious ==
    /\ Advance("purge-previous", "purge-manifests")
    /\ previous' = Absent
    /\ UNCHANGED <<store, next, manifests, journals, config, job, forgone, faults>>

PurgeManifest(h) ==
    /\ pc = "purge-manifests" /\ h \in Indexed
    /\ manifests' = [manifests EXCEPT ![h] = None]
    /\ UNCHANGED <<directories, journals, config, pc, job, forgone, faults>>

EndPurge ==
    /\ pc = "purge-manifests" /\ Indexed = {} /\ Rest
    /\ UNCHANGED <<directories, manifests, journals, config, forgone, faults>>

-----------------------------------------------------------------------------
\* The process dies, perhaps inside a recursive rm; the operator removes the
\* stale lock before the next command.
Torn(step, dir) == IF pc = step /\ dir.state # "absent" THEN {dir, Partial} ELSE {dir}

Crash ==
    /\ pc # "idle" /\ SpendFault /\ Rest
    /\ store' \in Torn("purge-store", store)
    /\ next' \in Torn("purge-next", next) \cup Torn("discard", next)
    /\ previous' \in Torn("purge-previous", previous) \cup Torn("drop", previous)
    /\ UNCHANGED <<manifests, journals, config, forgone>>

Ingest ==
    \/ \E t \in Txns : FinalizePending(t) \/ \E h \in Heads : BeginIngest(t, h)
    \/ OpenStore \/ CreateStore \/ WriteStore \/ Publish \/ Commit \/ Complete

Import == BeginImport \/ ImportRecords \/ \E h \in Heads : PublishImport(h)

Build == BeginRebuild \/ BeginMigrate \/ CreateNext \/ FillNext \/ VerifyNext
         \/ BuildFails \/ Discard

Swap == Promote \/ PromoteNext \/ SwapFails \/ Rollback \/ RollbackFails
        \/ DropPrevious \/ DropFails \/ RemoveTerminal \/ RemovalStops

Purge == \/ BeginPurge \/ PurgeStore \/ PurgeNext \/ PurgePrevious \/ EndPurge
         \/ \E h \in Heads : PurgeManifest(h)

Next ==
    \/ \E contract \in Contracts : Configure(contract)
    \/ MakeStoreDirectory
    \/ Ingest \/ Import \/ Build \/ Swap \/ Purge \/ Crash

Spec == Init /\ [][Next]_vars

-----------------------------------------------------------------------------
\* The state has its type.
TypeOK ==
    /\ store \in Directory /\ next \in Directory /\ previous \in Directory
    /\ manifests \in [Heads -> (SUBSET Records) \cup {None}]
    /\ journals \in [Txns -> Journal]
    /\ config \in Contracts /\ pc \in Pcs /\ job \in Job
    /\ forgone \subseteq Records /\ faults \in 0..MaxFaults

\* Whatever crashes or fails during a rebuild, a migration or a swap, every
\* record a manifest refers to is still on disk: in the store, or in the
\* backup no later command touches.
NothingLost ==
    ManifestUnion \ forgone \subseteq Held(store) \cup Held(previous)

\* The store a rebuild has promoted holds the union of the manifests and
\* nothing else, records of failed and abandoned ingests included.
RebuiltStoreIsUnion ==
    pc \in {"drop", "remove-terminal"} /\ job.command = "rebuild" =>
      store.state = "whole" /\ store.records = ManifestUnion

\* The journal of an ingest that is published but not finished stays until it
\* is finished: a rebuild deletes journals, and never that one.
PendingSurvives ==
    [][\A t \in Pending : journals'[t].status # "absent"]_vars

-----------------------------------------------------------------------------
(* What the repository says and the code does not do *)

\* docs/release-v2.0.0.md:5: "Adds crash-safe, serialized knowledge-store
\* writes".  A store anyone can open serves every snapshot.
SnapshotsStayServed ==
    store.state = "whole" => ManifestUnion \ forgone \subseteq store.records

\* security/purge.mdx:51: "`store` purge removes searchable state and
\* manifests; you must rerun ingest afterwards."
PurgedRepositoryIngests ==
    pc = "idle" /\ Indexed = {} => Blocking = {}
=============================================================================
