----------------------- MODULE StoreLifecycle_proofs -----------------------
(***************************************************************************)
(* For any commits, records, ingests, contracts and number of faults: the  *)
(* safety properties of StoreLifecycle.  NothingLost is not inductive: a   *)
(* swap is safe only because the store it promotes was built from every    *)
(* manifest, and because it found no backup to overwrite.                  *)
(*                                                                         *)
(* The second part is about StoreReaders: an answer is complete, and a     *)
(* healthy store raises no alarm.  Both need more than that nothing is     *)
(* lost: where the store is while a swap goes on, and what is in it as     *)
(* long as nothing has failed.                                             *)
(***************************************************************************)
EXTENDS StoreReaders, TLAPS

\* What an ingest keeps is in a manifest, and what it adds is in the store
\* before it publishes either.
Ingesting ==
    /\ pc \in {"open", "create", "write", "publish"} => job.kept \subseteq ManifestUnion
    /\ pc = "create" => store.state = "partial"
    /\ pc = "write" => store.state = "whole"
    /\ pc = "publish" => job.records \ forgone \subseteq Held(store)

\* A directory that may take the place of the store.
Stands(dir) ==
    /\ dir.state = "whole"
    /\ ManifestUnion \ forgone \subseteq dir.records
    /\ job.command = "rebuild" => dir.records = ManifestUnion

\* A build copies the manifest union, and only a verified or accounted copy is
\* promoted; the backup is complete as long as the store is away.
Copying ==
    /\ pc \in BuildPcs \cup {"swap"} => job.records = ManifestUnion
    /\ pc \in BuildPcs => previous.state = "absent" /\ job.command \in {"rebuild", "migrate"}
    /\ pc = "verify-next" => next.state = "whole"
    /\ pc \in {"promote", "swap"} => Stands(next)
    /\ pc \in {"swap", "rollback"} => ManifestUnion \ forgone \subseteq Held(previous)
    /\ pc = "drop" => Stands(store)

\* Before a purge removes anything it has given up everything.
Purging == pc \in PurgePcs => ManifestUnion \subseteq forgone

Kept == NothingLost /\ RebuiltStoreIsUnion /\ Ingesting /\ Copying /\ Purging
IInv == TypeOK /\ Kept

-----------------------------------------------------------------------------
\* What the directories are.
LEMMA Directories ==
  /\ Absent \in Directory /\ Empty \in Directory /\ Partial \in Directory
  /\ Held(Absent) = {} /\ Held(Empty) = {} /\ Held(Partial) = {}
  /\ Absent.state = "absent" /\ Empty.state = "empty" /\ Partial.state = "partial"
  /\ \A c \in Contracts \cup {None}, S \in SUBSET Records :
       /\ Whole(c, S) \in Directory /\ Held(Whole(c, S)) = S
       /\ Whole(c, S).state = "whole" /\ Whole(c, S).records = S
       /\ Whole(c, S).contract = c
BY DEF Absent, Empty, Partial, Bare, Whole, Held, Directory

LEMMA UnionBounded == TypeOK => ManifestUnion \subseteq Records
<1> SUFFICES ASSUME TypeOK, NEW h \in Indexed PROVE manifests[h] \subseteq Records
  BY DEF ManifestUnion
<1>1. h \in Heads /\ manifests[h] # None
  BY DEF Indexed
<1>2. manifests[h] \in (SUBSET Records) \cup {None}
  BY <1>1 DEF TypeOK
<1>3. QED
  BY <1>1, <1>2

LEMMA UnionKept == UNCHANGED manifests => ManifestUnion' = ManifestUnion
BY DEF ManifestUnion, Indexed

\* Publishing adds what was kept and what is new, and nothing else.
LEMMA UnionPublished ==
  ASSUME TypeOK, Publish
  PROVE  ManifestUnion' \subseteq ManifestUnion \cup job.kept \cup job.records
<1> SUFFICES ASSUME NEW h \in Indexed'
             PROVE  manifests'[h] \subseteq ManifestUnion \cup job.kept \cup job.records
  BY DEF ManifestUnion
<1>1. h \in Heads /\ manifests'[h] # None
  BY DEF Indexed
<1>2. CASE manifests'[h] = manifests[h]
  BY <1>1, <1>2 DEF ManifestUnion, Indexed
<1>3. CASE manifests'[h] # manifests[h]
  BY <1>1, <1>3 DEF Publish, TypeOK
<1>4. QED
  BY <1>2, <1>3

LEMMA UnionImported ==
  ASSUME TypeOK, NEW h \in Heads, PublishImport(h)
  PROVE  ManifestUnion' \subseteq ManifestUnion \cup job.records
<1> SUFFICES ASSUME NEW g \in Indexed'
             PROVE  manifests'[g] \subseteq ManifestUnion \cup job.records
  BY DEF ManifestUnion
<1>1. g \in Heads /\ manifests'[g] # None
  BY DEF Indexed
<1>2. CASE manifests'[g] = manifests[g]
  BY <1>1, <1>2 DEF ManifestUnion, Indexed
<1>3. CASE manifests'[g] # manifests[g]
  BY <1>1, <1>3 DEF PublishImport, TypeOK
<1>4. QED
  BY <1>2, <1>3

LEMMA UnionPurged ==
  ASSUME TypeOK, NEW h \in Heads, PurgeManifest(h)
  PROVE  ManifestUnion' \subseteq ManifestUnion
<1> SUFFICES ASSUME NEW g \in Indexed' PROVE manifests'[g] \subseteq ManifestUnion
  BY DEF ManifestUnion
<1>1. g \in Heads /\ manifests'[g] # None
  BY DEF Indexed
<1>2. manifests'[g] = manifests[g]
  BY <1>1 DEF PurgeManifest, TypeOK
<1>3. QED
  BY <1>1, <1>2 DEF ManifestUnion, Indexed

-----------------------------------------------------------------------------
(* Type correctness *)

LEMMA JournalType ==
  ASSUME TypeOK, NEW t, NEW status \in {"failed", "committed", "completed"}
  PROVE  [journals EXCEPT ![t] = [@ EXCEPT !.status = status]] \in [Txns -> Journal]
<1>1. \A u \in Txns : [journals[u] EXCEPT !.status = status] \in Journal
  BY DEF TypeOK, Journal
<1>2. QED
  BY <1>1 DEF TypeOK

LEMMA IngestType ==
  ASSUME TypeOK, Ingest
  PROVE  TypeOK'
<1> USE Directories DEF TypeOK, Advance, Rest, directories, Pcs, IngestPcs
<1>0. NoJob \in Job
  BY DEF NoJob, Job
<1>1. ASSUME NEW t \in Txns, FinalizePending(t) PROVE TypeOK'
  BY <1>1, JournalType DEF FinalizePending
<1>2. ASSUME NEW t \in Txns, NEW h \in Heads, BeginIngest(t, h) PROVE TypeOK'
  <2>1. PICK kept \in (UNION {SUBSET manifests[g] : g \in Indexed}) \cup {{}}, new \in SUBSET Records :
          /\ job' = [command |-> "ingest", txn |-> t, contract |-> config,
                     kept |-> kept, records |-> new]
          /\ journals' = [journals EXCEPT ![t] = [status |-> "open", head |-> h, records |-> new]]
    BY <1>2 DEF BeginIngest
  <2>2. kept \subseteq Records
    <3>1. CASE kept = {}
      BY <3>1
    <3>2. ASSUME NEW g \in Indexed, kept \in SUBSET manifests[g] PROVE kept \subseteq Records
      BY <3>2, UnionBounded DEF ManifestUnion
    <3>3. QED
      BY <2>1, <3>1, <3>2
  <2>3. job' \in Job /\ journals' \in [Txns -> Journal]
    BY <2>1, <2>2 DEF Job, Journal
  <2>4. QED
    BY <1>2, <2>3 DEF BeginIngest
<1>3. ASSUME FailIngest PROVE journals' \in [Txns -> Journal]
  BY <1>3, JournalType DEF FailIngest
<1>4. CASE OpenStore
  BY <1>0, <1>3, <1>4 DEF OpenStore, FailIngest, Refuse
<1>5. CASE CreateStore
  <2>1. job.contract \in Contracts \cup {None} /\ {} \in SUBSET Records
    BY DEF Job
  <2>2. QED
    BY <1>5, <2>1 DEF CreateStore
<1>6. CASE WriteStore
  <2>1. /\ store.contract \in Contracts \cup {None}
        /\ store.records \in SUBSET Records /\ job.records \in SUBSET Records
    BY DEF Directory, Job
  <2>2. PICK written \in SUBSET job.records : store' = Whole(store.contract, store.records \cup written)
    <3>1. job.records \in SUBSET job.records
      OBVIOUS
    <3>2. QED
      BY <1>6, <3>1 DEF WriteStore
  <2>3. store' \in Directory
    <3>1. store.records \cup written \in SUBSET Records
      BY <2>1
    <3>2. QED
      BY <2>1, <2>2, <3>1
  <2>4. forgone' \subseteq Records /\ faults' \in 0..MaxFaults
    BY <1>6, FaultAssumption DEF WriteStore, SpendFault
  <2>5. job' \in Job /\ journals' \in [Txns -> Journal] /\ pc' \in Pcs
    BY <1>0, <1>3, <1>6 DEF WriteStore, FailIngest
  <2>6. QED
    BY <1>6, <2>3, <2>4, <2>5 DEF WriteStore
<1>7. CASE Publish
  <2>1. job.kept \cup job.records \in SUBSET Records
    BY DEF Job
  <2>2. QED
    BY <1>7, <2>1 DEF Publish
<1>8. CASE Commit
  BY <1>8, JournalType DEF Commit
<1>9. CASE Complete
  BY <1>0, <1>9, JournalType DEF Complete
<1>10. QED
  BY <1>1, <1>2, <1>4, <1>5, <1>6, <1>7, <1>8, <1>9 DEF Ingest

LEMMA ImportType ==
  ASSUME TypeOK, Import
  PROVE  TypeOK'
<1> USE Directories DEF TypeOK, Advance, Rest, directories, Pcs, IngestPcs
<1>0. NoJob \in Job
  BY DEF NoJob, Job
<1>1. CASE BeginImport
  <2>1. job' \in Job
    BY <1>1, OlderAssumption DEF BeginImport, NoJob, Job
  <2>2. QED
    BY <1>1, <2>1 DEF BeginImport
<1>2. CASE ImportRecords
  <2>1. PICK written \in SUBSET job.records :
          /\ store' = Whole(store.contract, store.records \cup written)
          /\ forgone' = (forgone \cup job.records) \ (store.records \cup written)
          /\ IF written = job.records THEN UNCHANGED faults ELSE SpendFault
    BY <1>2 DEF ImportRecords
  <2>2. /\ store.contract \in Contracts \cup {None}
        /\ store.records \cup written \in SUBSET Records
        /\ job.records \in SUBSET Records
    BY <2>1 DEF Directory, Job
  <2>3. store' \in Directory
    BY <2>1, <2>2
  <2>4. forgone' \subseteq Records /\ faults' \in 0..MaxFaults
    BY <2>1, <2>2, FaultAssumption DEF SpendFault
  <2>5. QED
    BY <1>2, <2>3, <2>4 DEF ImportRecords
<1>3. ASSUME NEW h \in Heads, PublishImport(h) PROVE TypeOK'
  <2>1. job.records \in SUBSET Records
    BY DEF Job
  <2>2. QED
    BY <1>0, <1>3, <2>1 DEF PublishImport
<1>4. QED
  BY <1>1, <1>2, <1>3 DEF Import

LEMMA BuildType ==
  ASSUME TypeOK, Build
  PROVE  TypeOK'
<1> USE Directories DEF TypeOK, Advance, Rest, directories, Pcs, BuildPcs, SwapPcs
<1>0. NoJob \in Job
  BY DEF NoJob, Job
<1>1. ASSUME NEW command \in {"rebuild", "migrate"}, BeginBuild(command) PROVE TypeOK'
  <2>1. job' = [NoJob EXCEPT !.command = command, !.contract = config, !.records = ManifestUnion]
    BY <1>1 DEF BeginBuild
  <2>2. job' \in Job
    BY <2>1, UnionBounded DEF NoJob, Job
  <2>3. QED
    BY <1>1, <2>2 DEF BeginBuild
<1>2. CASE CreateNext
  BY <1>2 DEF CreateNext
<1>3. CASE FillNext
  <2>1. job.contract \in Contracts \cup {None} /\ job.records \in SUBSET Records
    BY DEF Job
  <2>2. /\ next' \in Directory
        /\ forgone' \subseteq Records
        /\ faults' \in 0..MaxFaults
    BY <1>3, <2>1, FaultAssumption DEF FillNext, SpendFault
  <2>3. QED
    BY <1>3, <2>2 DEF FillNext
<1>4. CASE VerifyNext
  BY <1>4 DEF VerifyNext
<1>5. CASE BuildFails
  BY <1>5, FaultAssumption DEF BuildFails, SpendFault
<1>6. CASE Discard
  BY <1>0, <1>6 DEF Discard
<1>7. QED
  BY <1>1, <1>2, <1>3, <1>4, <1>5, <1>6 DEF Build, BeginRebuild, BeginMigrate

LEMMA SwapType ==
  ASSUME TypeOK, Swap
  PROVE  TypeOK'
<1> USE Directories, FaultAssumption
    DEF TypeOK, Advance, Rest, directories, Pcs, SwapPcs, SpendFault, AfterPromotion
<1>0. NoJob \in Job /\ NoJournal \in Journal
  BY DEF NoJob, Job, NoJournal, Journal
<1>1. CASE Promote
  BY <1>0, <1>1 DEF Promote
<1>2. CASE PromoteNext \/ Rollback
  BY <1>2 DEF PromoteNext, Rollback
<1>3. CASE SwapFails \/ RollbackFails \/ DropFails
  BY <1>3 DEF SwapFails, RollbackFails, DropFails
<1>4. CASE DropPrevious
  BY <1>0, <1>4 DEF DropPrevious
<1>5. CASE RemoveTerminal \/ RemovalStops
  <2>1. PICK gone : RemoveJournals(gone)
    BY <1>5 DEF RemoveTerminal, RemovalStops
  <2>2. faults' \in 0..MaxFaults
    BY <1>5 DEF RemoveTerminal, RemovalStops
  <2>3. QED
    BY <1>0, <2>1, <2>2 DEF RemoveJournals
<1>6. QED
  BY <1>1, <1>2, <1>3, <1>4, <1>5 DEF Swap

LEMMA PurgeType ==
  ASSUME TypeOK, Purge
  PROVE  TypeOK'
<1> USE Directories DEF TypeOK, Advance, Rest, directories, Pcs, PurgePcs
<1>0. NoJob \in Job /\ [NoJob EXCEPT !.command = "purge"] \in Job
  BY DEF NoJob, Job
<1>1. CASE BeginPurge
  BY <1>0, <1>1, UnionBounded DEF BeginPurge
<1>2. CASE PurgeStore \/ PurgeNext \/ PurgePrevious
  BY <1>2 DEF PurgeStore, PurgeNext, PurgePrevious
<1>3. CASE EndPurge
  BY <1>0, <1>3 DEF EndPurge
<1>4. ASSUME NEW h \in Heads, PurgeManifest(h) PROVE TypeOK'
  <2>1. manifests' \in [Heads -> (SUBSET Records) \cup {None}]
    <3>1. [manifests EXCEPT ![h] = None] \in [Heads -> (SUBSET Records) \cup {None}]
      OBVIOUS
    <3>2. QED
      BY <1>4, <3>1 DEF PurgeManifest
  <2>2. QED
    BY <1>4, <2>1 DEF PurgeManifest
<1>5. QED
  BY <1>1, <1>2, <1>3, <1>4 DEF Purge

LEMMA OtherType ==
  ASSUME TypeOK,
         \/ \E contract \in Contracts : Configure(contract)
         \/ MakeStoreDirectory \/ Crash \/ UNCHANGED vars
  PROVE  TypeOK'
<1> USE Directories DEF TypeOK, directories
<1>0. NoJob \in Job
  BY DEF NoJob, Job
<1>1. ASSUME NEW contract \in Contracts, Configure(contract) PROVE TypeOK'
  BY <1>1 DEF Configure
<1>2. CASE MakeStoreDirectory
  BY <1>2 DEF MakeStoreDirectory
<1>3. CASE Crash
  <2>1. \A step, dir : dir \in Directory => Torn(step, dir) \subseteq Directory
    BY DEF Torn
  <2>2. store' \in Directory /\ next' \in Directory /\ previous' \in Directory
    BY <1>3, <2>1 DEF Crash
  <2>3. faults' \in 0..MaxFaults /\ pc' \in Pcs /\ job' \in Job
    BY <1>0, <1>3, FaultAssumption DEF Crash, SpendFault, Rest, Pcs
  <2>4. QED
    BY <1>3, <2>2, <2>3 DEF Crash
<1>4. CASE UNCHANGED vars
  BY <1>4 DEF vars
<1>5. QED
  BY <1>1, <1>2, <1>3, <1>4

LEMMA TypeStep == TypeOK /\ [Next]_vars => TypeOK'
BY IngestType, ImportType, BuildType, SwapType, PurgeType, OtherType DEF Next

LEMMA InitType == Init => TypeOK
<1> SUFFICES ASSUME Init PROVE TypeOK
  OBVIOUS
<1>1. store \in Directory /\ next \in Directory /\ previous \in Directory
  BY Directories DEF Init
<1>2. manifests \in [Heads -> (SUBSET Records) \cup {None}] /\ journals \in [Txns -> Journal]
  BY DEF Init, NoJournal, Journal
<1>3. job \in Job /\ pc \in Pcs /\ config \in Contracts
  BY DEF Init, NoJob, Job, Pcs
<1>4. forgone \subseteq Records /\ faults \in 0..MaxFaults
  BY FaultAssumption DEF Init
<1>5. QED
  BY <1>1, <1>2, <1>3, <1>4 DEF TypeOK

\* Type correctness: the state keeps its type.
THEOREM TypeCorrect == Spec => []TypeOK
<1>1. TypeOK /\ [Next]_vars => TypeOK'
  BY TypeStep
<1>2. QED
  BY <1>1, InitType, PTL DEF Spec

-----------------------------------------------------------------------------
(* The inductive invariant *)

\* The steps of an ingest, before and after the one that publishes.
LEMMA IngestStep ==
  ASSUME TypeOK, Kept, Ingest
  PROVE  Kept'
<1> USE DEF Kept, NothingLost, RebuiltStoreIsUnion, Ingesting, Copying, Stands, Purging,
            IngestPcs, BuildPcs, SwapPcs, PurgePcs, Advance, Rest, Held, directories
<1>1. ASSUME NEW t \in Txns, FinalizePending(t) PROVE Kept'
  BY <1>1, UnionKept DEF FinalizePending
<1>2. ASSUME NEW t \in Txns, NEW h \in Heads, BeginIngest(t, h) PROVE Kept'
  <2>1. PICK kept \in (UNION {SUBSET manifests[g] : g \in Indexed}) \cup {{}}, new \in SUBSET Records :
          job' = [command |-> "ingest", txn |-> t, contract |-> config,
                  kept |-> kept, records |-> new]
    BY <1>2 DEF BeginIngest
  <2>2. kept \subseteq ManifestUnion
    BY <2>1 DEF ManifestUnion
  <2>3. pc = "idle" /\ pc' = "open" /\ UNCHANGED <<store, next, previous, manifests, forgone>>
    BY <1>2 DEF BeginIngest
  <2>4. job'.kept \subseteq ManifestUnion' /\ job'.command = "ingest"
    BY <2>1, <2>2, <2>3, UnionKept
  <2>5. QED
    BY <2>3, <2>4, UnionKept
<1>3. CASE OpenStore
  BY <1>3, UnionKept DEF OpenStore, FailIngest, Refuse, Partial, Bare
<1>4. CASE CreateStore
  BY <1>4, UnionKept DEF CreateStore, Whole
<1>5. CASE WriteStore
  BY <1>5, UnionKept DEF WriteStore, FailIngest, Whole
<1>6. CASE Publish
  <2>1. ManifestUnion' \ forgone' \subseteq Held(store') \cup Held(previous')
    BY <1>6, UnionPublished DEF Publish
  <2>2. QED
    BY <1>6, <2>1 DEF Publish
<1>7. CASE Commit \/ Complete
  BY <1>7, UnionKept DEF Commit, Complete
<1>8. QED
  BY <1>1, <1>2, <1>3, <1>4, <1>5, <1>6, <1>7 DEF Ingest

\* An import gives up what it loses, and publishes what it wrote.
LEMMA ImportStep ==
  ASSUME TypeOK, Kept, Import
  PROVE  Kept'
<1> USE DEF Kept, NothingLost, RebuiltStoreIsUnion, Ingesting, Copying, Stands, Purging,
            IngestPcs, BuildPcs, SwapPcs, PurgePcs, Advance, Rest, Held, directories
<1>1. CASE BeginImport
  BY <1>1, UnionKept DEF BeginImport, NoJob
<1>2. CASE ImportRecords
  <2>1. PICK written \in SUBSET job.records :
          /\ store' = Whole(store.contract, store.records \cup written)
          /\ forgone' = (forgone \cup job.records) \ (store.records \cup written)
    BY <1>2 DEF ImportRecords
  <2>2. store'.state = "whole" /\ store'.records = store.records \cup written
    BY <2>1 DEF Whole
  <2>3. QED
    BY <1>2, <2>1, <2>2, UnionKept DEF ImportRecords
<1>3. ASSUME NEW h \in Heads, PublishImport(h) PROVE Kept'
  <2>1. ManifestUnion' \ forgone' \subseteq Held(store') \cup Held(previous')
    BY <1>3, UnionImported DEF PublishImport
  <2>2. QED
    BY <1>3, <2>1 DEF PublishImport
<1>4. QED
  BY <1>1, <1>2, <1>3 DEF Import

\* What a build puts into store.next, and what it may lose.
LEMMA BuildStep ==
  ASSUME TypeOK, Kept, Build
  PROVE  Kept'
<1> USE DEF Kept, NothingLost, RebuiltStoreIsUnion, Ingesting, Copying, Stands, Purging,
            IngestPcs, BuildPcs, SwapPcs, PurgePcs, Advance, Rest, Held, directories
<1>1. ASSUME NEW command \in {"rebuild", "migrate"}, BeginBuild(command) PROVE Kept'
  <2>1. job'.records = ManifestUnion /\ job'.command = command
    BY <1>1 DEF BeginBuild, NoJob
  <2>2. QED
    BY <1>1, <2>1, UnionKept DEF BeginBuild, SwapReady
<1>2. CASE CreateNext
  BY <1>2, UnionKept DEF CreateNext
<1>3. CASE FillNext
  <2>1. /\ next'.state = "whole"
        /\ job.command = "migrate" => ManifestUnion \ forgone' \subseteq next'.records
        /\ forgone \subseteq forgone'
    BY <1>3 DEF FillNext, Whole
  <2>2. QED
    BY <1>3, <2>1, UnionKept DEF FillNext
<1>4. CASE VerifyNext
  BY <1>4, UnionKept DEF VerifyNext
<1>5. CASE BuildFails \/ Discard
  BY <1>5, UnionKept DEF BuildFails, Discard
<1>6. QED
  BY <1>1, <1>2, <1>3, <1>4, <1>5 DEF Build, BeginRebuild, BeginMigrate

\* The renames: one of the store and its backup is complete at every step.
LEMMA SwapStep ==
  ASSUME TypeOK, Kept, Swap
  PROVE  Kept'
<1> USE UnionKept
    DEF Kept, NothingLost, RebuiltStoreIsUnion, Ingesting, Copying, Stands, Purging,
        IngestPcs, BuildPcs, SwapPcs, PurgePcs, Advance, Rest, Held, directories,
        AfterPromotion, Absent, Partial, Bare, NoJob
<1>1. CASE Promote
  BY <1>1 DEF Promote
<1>2. CASE PromoteNext
  BY <1>2 DEF PromoteNext
<1>3. CASE SwapFails \/ RollbackFails
  BY <1>3 DEF SwapFails, RollbackFails
<1>4. CASE Rollback
  BY <1>4 DEF Rollback
<1>5. CASE DropPrevious
  BY <1>5 DEF DropPrevious
<1>6. CASE DropFails
  BY <1>6 DEF DropFails
<1>7. CASE RemoveTerminal \/ RemovalStops
  BY <1>7 DEF RemoveTerminal, RemovalStops, RemoveJournals
<1>8. QED
  BY <1>1, <1>2, <1>3, <1>4, <1>5, <1>6, <1>7 DEF Swap

LEMMA PurgeStep ==
  ASSUME TypeOK, Kept, Purge
  PROVE  Kept'
<1> USE DEF Kept, NothingLost, RebuiltStoreIsUnion, Ingesting, Copying, Stands, Purging,
            IngestPcs, BuildPcs, SwapPcs, PurgePcs, Advance, Rest, Held, directories
<1>1. CASE BeginPurge
  BY <1>1, UnionKept DEF BeginPurge
<1>2. CASE PurgeStore \/ PurgeNext \/ PurgePrevious
  BY <1>2, UnionKept DEF PurgeStore, PurgeNext, PurgePrevious
<1>3. CASE EndPurge
  BY <1>3, UnionKept DEF EndPurge
<1>4. ASSUME NEW h \in Heads, PurgeManifest(h) PROVE Kept'
  BY <1>4, UnionPurged DEF PurgeManifest
<1>5. QED
  BY <1>1, <1>2, <1>3, <1>4 DEF Purge

LEMMA OtherStep ==
  ASSUME TypeOK, Kept,
         \/ \E contract \in Contracts : Configure(contract)
         \/ MakeStoreDirectory \/ Crash \/ UNCHANGED vars
  PROVE  Kept'
<1> USE UnionKept
    DEF Kept, NothingLost, RebuiltStoreIsUnion, Ingesting, Copying, Stands, Purging,
        IngestPcs, BuildPcs, SwapPcs, PurgePcs, Rest, Held, directories
<1>1. ASSUME NEW contract \in Contracts, Configure(contract) PROVE Kept'
  BY <1>1 DEF Configure
<1>2. CASE MakeStoreDirectory
  BY <1>2 DEF MakeStoreDirectory, Empty, Bare
<1>3. CASE Crash
  <2>1. pc \notin PurgePcs => store' = store
    BY <1>3 DEF Crash, Torn
  <2>2. pc \notin PurgePcs \cup {"drop"} => previous' = previous
    BY <1>3 DEF Crash, Torn
  <2>3. ManifestUnion' \ forgone' \subseteq Held(store') \cup Held(previous')
    BY <1>3, <2>1, <2>2 DEF Crash
  <2>4. QED
    BY <1>3, <2>3 DEF Crash
<1>4. CASE UNCHANGED vars
  BY <1>4 DEF vars
<1>5. QED
  BY <1>1, <1>2, <1>3, <1>4

LEMMA InvariantInit == Init => IInv
<1>1. Init => ManifestUnion = {}
  BY DEF Init, ManifestUnion, Indexed
<1>2. Init => Kept
  BY <1>1 DEF Init, Kept, NothingLost, RebuiltStoreIsUnion, Ingesting, Copying, Purging,
              IngestPcs, BuildPcs, SwapPcs, PurgePcs
<1>3. QED
  BY <1>2, InitType DEF IInv

LEMMA InvariantStep == IInv /\ [Next]_vars => IInv'
BY TypeStep, IngestStep, ImportStep, BuildStep, SwapStep, PurgeStep, OtherStep DEF IInv, Next

\* A swap is safe because of what the build before it has done.
THEOREM Invariance == Spec => []IInv
BY InvariantInit, InvariantStep, PTL DEF Spec

\* Every record a manifest refers to is still on disk, in the store or in the
\* backup, unless it was purged or lost by a copy nothing checks.
THEOREM Survival == Spec => []NothingLost
<1>1. IInv => NothingLost
  BY DEF IInv, Kept
<1>2. QED
  BY <1>1, Invariance, PTL

\* What a rebuild has promoted is exactly what the manifests refer to.
THEOREM Rebuilt == Spec => []RebuiltStoreIsUnion
<1>1. IInv => RebuiltStoreIsUnion
  BY DEF IInv, Kept
<1>2. QED
  BY <1>1, Invariance, PTL

-----------------------------------------------------------------------------
\* No step removes the journal of a published ingest that is not finished.
THEOREM PendingKept == Spec => PendingSurvives
<1>1. ASSUME TypeOK, [Next]_vars, NEW t \in Pending
      PROVE  journals'[t].status # "absent"
  <2>1. t \in Txns /\ journals[t].status \in {"open", "failed", "committed"} /\ Visible(t) /\ Matches(t)
    BY DEF Pending
  <2>2. CASE UNCHANGED journals
    BY <2>1, <2>2
  <2>3. CASE RemoveTerminal \/ RemovalStops
    <3>1. t \notin Terminal
      BY <2>1 DEF Terminal
    <3>2. journals'[t] = journals[t]
      BY <2>1, <2>3, <3>1 DEF RemoveTerminal, RemovalStops, RemoveJournals
    <3>3. QED
      BY <2>1, <3>2
  <2>4. ASSUME NEW u, NEW status \in {"failed", "committed", "completed"},
               journals' = [journals EXCEPT ![u] = [@ EXCEPT !.status = status]]
        PROVE  journals'[t].status # "absent"
    <3>1. DOMAIN journals = Txns /\ journals[t] \in Journal
      BY <2>1, <1>1 DEF TypeOK
    <3>2. journals'[t] \in {journals[t], [journals[t] EXCEPT !.status = status]}
      BY <2>1, <2>4, <3>1
    <3>3. [journals[t] EXCEPT !.status = status].status = status
      BY <3>1 DEF Journal
    <3>4. QED
      BY <2>1, <3>2, <3>3
  <2>5. ASSUME NEW u \in Txns, NEW h \in Heads, BeginIngest(u, h)
        PROVE  journals'[t].status # "absent"
    <3>1. Pending = {}
      BY <2>5 DEF BeginIngest
    <3>2. QED
      BY <3>1
  <2>6. CASE Ingest
    <3>1. ASSUME NEW u \in Txns, FinalizePending(u) PROVE journals'[t].status # "absent"
      BY <2>4, <3>1 DEF FinalizePending
    <3>2. ASSUME FailIngest PROVE journals'[t].status # "absent"
      BY <2>4, <3>2 DEF FailIngest
    <3>3. CASE OpenStore \/ CreateStore \/ WriteStore \/ Publish
      BY <2>2, <3>2, <3>3 DEF OpenStore, Refuse, CreateStore, WriteStore, Publish
    <3>4. CASE Commit
      BY <2>4, <3>4 DEF Commit
    <3>5. CASE Complete
      BY <2>4, <3>5 DEF Complete
    <3>6. QED
      BY <2>5, <2>6, <3>1, <3>3, <3>4, <3>5 DEF Ingest
  <2>7. CASE Build
    BY <2>2, <2>7 DEF Build, BeginRebuild, BeginMigrate, BeginBuild, CreateNext, FillNext,
                      VerifyNext, BuildFails, Discard
  <2>8. CASE Swap
    BY <2>2, <2>3, <2>8 DEF Swap, Promote, PromoteNext, SwapFails, Rollback, RollbackFails,
                            DropPrevious, DropFails
  <2>9. CASE Purge
    BY <2>2, <2>9 DEF Purge, BeginPurge, PurgeStore, PurgeNext, PurgePrevious, PurgeManifest,
                      EndPurge
  <2>10. CASE \/ \E contract \in Contracts : Configure(contract)
              \/ MakeStoreDirectory \/ Crash \/ UNCHANGED vars
    BY <2>2, <2>10 DEF Configure, MakeStoreDirectory, Crash, vars
  <2>11. CASE Import
    BY <2>2, <2>11 DEF Import, BeginImport, ImportRecords, PublishImport
  <2>12. QED
    BY <1>1, <2>6, <2>7, <2>8, <2>9, <2>10, <2>11 DEF Next
<1>2. TypeOK /\ [Next]_vars => [\A t \in Pending : journals'[t].status # "absent"]_vars
  BY <1>1
<1>3. QED
  BY <1>2, TypeCorrect, PTL DEF Spec, PendingSurvives

-----------------------------------------------------------------------------
(* The readers: where the store is *)

\* While the backup holds what the store lacks, nobody can take the directory
\* at the place of the store for a store.
Aside ==
    /\ pc \in {"swap", "rollback"} => store.state \in {"absent", "empty"}
    /\ pc = "discard" => store.state \in {"absent", "empty"} \/ Held(previous) = {}
    /\ pc = "remove-terminal" => Held(previous) = {}

\* A directory that can stand for the store if nothing has failed.
Serves(dir) == Indexed # {} => dir.state = "whole" /\ ManifestUnion \subseteq dir.records

\* As long as nothing has failed, the store is complete but for the instant between
\* two renames and for a purge, and what is promoted is complete.
Healthy ==
    faults = 0 =>
        /\ pc # "rollback"
        /\ pc \notin {"swap"} \cup PurgePcs => Serves(store)
        /\ pc \in {"promote", "swap"} => Serves(next)
        /\ pc = "publish" => store.state = "whole" /\ job.records \subseteq store.records

\* What a query has selected is a manifest, and it has missed nothing yet.
Answering ==
    /\ reader.step \in {"meta", "open", "copy", "copy-chunks"} => reader.selected \in SUBSET Records
    /\ reader.missing = {}

WritersInv == IInv /\ Aside /\ Healthy
ReadersInv == WritersInv /\ ReadersTypeOK /\ Answering

-----------------------------------------------------------------------------
(* ... which the writers keep *)

LEMMA AsideStep ==
  ASSUME IInv, Aside, [Next]_vars
  PROVE  Aside'
<1> USE DEF Aside, IInv, Kept, Copying, Stands, BuildPcs, IngestPcs, PurgePcs, Advance, Rest,
            directories, Held, Absent, Empty, Partial, Bare
<1>1. CASE Ingest
  BY <1>1 DEF Ingest, FinalizePending, BeginIngest, OpenStore, Refuse, FailIngest, CreateStore,
              WriteStore, Publish, Commit, Complete
<1>2. CASE Import
  BY <1>2 DEF Import, BeginImport, ImportRecords, PublishImport
<1>3. CASE Build
  BY <1>3 DEF Build, BeginRebuild, BeginMigrate, BeginBuild, CreateNext, FillNext, VerifyNext,
              BuildFails, Discard
<1>4. CASE Swap
  BY <1>4 DEF Swap, Promote, PromoteNext, SwapFails, Rollback, RollbackFails, DropPrevious,
              DropFails, RemoveTerminal, RemovalStops, RemoveJournals, AfterPromotion
<1>5. CASE Purge
  BY <1>5 DEF Purge, BeginPurge, PurgeStore, PurgeNext, PurgePrevious, PurgeManifest, EndPurge
<1>6. CASE \/ \E contract \in Contracts : Configure(contract)
           \/ MakeStoreDirectory \/ Crash \/ UNCHANGED vars
  BY <1>6 DEF Configure, MakeStoreDirectory, Crash, vars
<1>7. QED
  BY <1>1, <1>2, <1>3, <1>4, <1>5, <1>6 DEF Next

\* Without a manifest there is nothing to serve.
LEMMA NothingIndexed == Indexed = {} => ManifestUnion = {}
BY DEF ManifestUnion

LEMMA IndexedKept == UNCHANGED manifests => Indexed' = Indexed /\ ManifestUnion' = ManifestUnion
BY DEF ManifestUnion, Indexed

\* Faults are counted and never taken back.
LEMMA FaultsGrow ==
  ASSUME TypeOK, [Next]_vars, faults' = 0
  PROVE  faults = 0
<1>1. faults \in Nat
  BY FaultAssumption DEF TypeOK
<1>2. faults' = faults \/ SpendFault
  BY DEF Next, vars, Configure, MakeStoreDirectory, Crash,
         Ingest, FinalizePending, BeginIngest, OpenStore, CreateStore, WriteStore, Publish,
         Commit, Complete, Import, BeginImport, ImportRecords, PublishImport,
         Build, BeginRebuild, BeginMigrate, BeginBuild, CreateNext, FillNext, VerifyNext,
         BuildFails, Discard, Swap, Promote, PromoteNext, SwapFails, Rollback, RollbackFails,
         DropPrevious, DropFails, RemoveTerminal, RemovalStops,
         Purge, BeginPurge, PurgeStore, PurgeNext, PurgePrevious, PurgeManifest, EndPurge
<1>3. QED
  BY <1>1, <1>2 DEF SpendFault

LEMMA HealthyIngest ==
  ASSUME IInv, Healthy, Ingest, faults' = 0, faults = 0
  PROVE  Healthy'
<1> USE DEF Healthy, Serves, IInv, Kept, Ingesting, PurgePcs, IngestPcs, Advance, Rest,
            directories, Partial, Bare, Whole
<1>1. ASSUME NEW t \in Txns, FinalizePending(t) PROVE Healthy'
  BY <1>1, IndexedKept DEF FinalizePending
<1>2. ASSUME NEW t \in Txns, NEW h \in Heads, BeginIngest(t, h) PROVE Healthy'
  BY <1>2, IndexedKept DEF BeginIngest
<1>3. CASE OpenStore
  BY <1>3, IndexedKept, NothingIndexed DEF OpenStore, Refuse, FailIngest
<1>4. CASE CreateStore
  BY <1>4, IndexedKept, NothingIndexed DEF CreateStore
<1>5. CASE WriteStore
  <2>1. ~ SpendFault
    BY DEF SpendFault, TypeOK
  <2>2. QED
    BY <1>5, <2>1, IndexedKept DEF WriteStore
<1>6. CASE Publish
  <2>1. job.kept \subseteq ManifestUnion
    BY <1>6 DEF Publish
  <2>2. store'.state = "whole" /\ ManifestUnion' \subseteq store'.records
    BY <1>6, <2>1, UnionPublished, NothingIndexed DEF Publish
  <2>3. QED
    BY <1>6, <2>2 DEF Publish
<1>7. CASE Commit \/ Complete
  BY <1>7, IndexedKept DEF Commit, Complete
<1>8. QED
  BY <1>1, <1>2, <1>3, <1>4, <1>5, <1>6, <1>7 DEF Ingest

LEMMA HealthyImport ==
  ASSUME IInv, Healthy, Import, faults' = 0, faults = 0
  PROVE  Healthy'
<1> USE DEF Healthy, Serves, IInv, Kept, Ingesting, PurgePcs, IngestPcs, Advance, Rest,
            directories, Whole
<1>1. CASE BeginImport
  BY <1>1, IndexedKept DEF BeginImport
<1>2. CASE ImportRecords
  <2>1. ~ SpendFault
    BY DEF SpendFault, TypeOK
  <2>2. store'.state = "whole" /\ store'.records = store.records \cup job.records
    BY <1>2, <2>1 DEF ImportRecords
  <2>3. QED
    BY <1>2, <2>2, IndexedKept DEF ImportRecords
<1>3. ASSUME NEW h \in Heads, PublishImport(h) PROVE Healthy'
  <2>1. store'.state = "whole" /\ ManifestUnion' \subseteq store'.records
    BY <1>3, UnionImported, NothingIndexed DEF PublishImport
  <2>2. QED
    BY <1>3, <2>1 DEF PublishImport
<1>4. QED
  BY <1>1, <1>2, <1>3 DEF Import

LEMMA HealthyBuild ==
  ASSUME IInv, Healthy, Build, faults' = 0, faults = 0
  PROVE  Healthy'
<1> USE IndexedKept
    DEF Healthy, Serves, IInv, Kept, Copying, Stands, BuildPcs, PurgePcs, Advance, Rest,
        directories, Whole
<1>0. ~ SpendFault
  BY DEF SpendFault, TypeOK
<1>1. CASE BeginRebuild \/ BeginMigrate
  BY <1>1 DEF BeginRebuild, BeginMigrate, BeginBuild
<1>2. CASE CreateNext
  BY <1>2 DEF CreateNext
<1>3. CASE FillNext
  <2>1. next'.state = "whole" /\ next'.records = ManifestUnion
    BY <1>0, <1>3 DEF FillNext
  <2>2. QED
    BY <1>3, <2>1 DEF FillNext
<1>4. CASE VerifyNext
  BY <1>4 DEF VerifyNext
<1>5. CASE BuildFails \/ Discard
  BY <1>0, <1>5 DEF BuildFails, Discard
<1>6. QED
  BY <1>1, <1>2, <1>3, <1>4, <1>5 DEF Build

LEMMA HealthySwap ==
  ASSUME IInv, Healthy, Swap, faults' = 0, faults = 0
  PROVE  Healthy'
<1> USE IndexedKept DEF Healthy, Serves, PurgePcs, Advance, Rest, directories, AfterPromotion
<1>0. ~ SpendFault
  BY DEF SpendFault, TypeOK, IInv
<1>1. CASE Promote \/ PromoteNext
  BY <1>1 DEF Promote, PromoteNext
<1>2. CASE SwapFails \/ RollbackFails \/ DropFails \/ RemovalStops
  BY <1>0, <1>2 DEF SwapFails, RollbackFails, DropFails, RemovalStops
<1>3. CASE Rollback
  BY <1>3 DEF Rollback
<1>4. CASE DropPrevious \/ RemoveTerminal
  BY <1>4 DEF DropPrevious, RemoveTerminal, RemoveJournals
<1>5. QED
  BY <1>1, <1>2, <1>3, <1>4 DEF Swap

LEMMA HealthyOther ==
  ASSUME IInv, Healthy, faults' = 0, faults = 0,
         \/ Purge
         \/ \E contract \in Contracts : Configure(contract)
         \/ MakeStoreDirectory \/ Crash \/ UNCHANGED vars
  PROVE  Healthy'
<1> USE IndexedKept DEF Healthy, Serves, PurgePcs, Advance, Rest, directories
<1>0. ~ SpendFault
  BY DEF SpendFault, TypeOK, IInv
<1>1. CASE BeginPurge \/ PurgeStore \/ PurgeNext \/ PurgePrevious
  BY <1>1 DEF BeginPurge, PurgeStore, PurgeNext, PurgePrevious
<1>2. ASSUME NEW h \in Heads, PurgeManifest(h) PROVE Healthy'
  BY <1>2 DEF PurgeManifest
<1>3. CASE EndPurge
  BY <1>3 DEF EndPurge
<1>4. CASE MakeStoreDirectory
  BY <1>4 DEF MakeStoreDirectory
<1>5. CASE (\E contract \in Contracts : Configure(contract)) \/ UNCHANGED vars
  BY <1>5 DEF Configure, vars
<1>6. CASE Crash
  BY <1>0, <1>6 DEF Crash
<1>7. QED
  BY <1>1, <1>2, <1>3, <1>4, <1>5, <1>6 DEF Purge

LEMMA WritersStep == WritersInv /\ [Next]_vars => WritersInv'
<1> SUFFICES ASSUME WritersInv, [Next]_vars PROVE WritersInv'
  OBVIOUS
<1>1. IInv /\ Aside /\ Healthy
  BY DEF WritersInv
<1>2. IInv' /\ Aside'
  BY <1>1, InvariantStep, AsideStep
<1>3. CASE faults' = 0
  <2>1. faults = 0
    BY <1>1, <1>3, FaultsGrow DEF IInv
  <2>2. Healthy'
    BY <1>1, <1>3, <2>1, HealthyIngest, HealthyImport, HealthyBuild, HealthySwap, HealthyOther
    DEF Next
  <2>3. QED
    BY <1>2, <2>2 DEF WritersInv
<1>4. CASE faults' # 0
  BY <1>2, <1>4 DEF WritersInv, Healthy
<1>5. QED
  BY <1>3, <1>4

-----------------------------------------------------------------------------
(* A query *)

\* Whatever a store that can be opened lacks has a reason to be missing.
LEMMA NothingLacking ==
  ASSUME WritersInv, reader.selected \in SUBSET Records, HasCollections
  PROVE  Lacking = {}
<1> SUFFICES ASSUME NEW x \in Lacking PROVE FALSE
  OBVIOUS
<1>1. x \in ManifestUnion /\ x \notin forgone /\ x \notin Held(store) /\ x \notin Stranded
  BY DEF Lacking, Excused
<1>2. x \in Held(previous)
  BY <1>1 DEF WritersInv, IInv, Kept, NothingLost
<1>3. pc \in SwapPcs
  BY <1>1, <1>2 DEF Stranded
<1>4. CASE pc = "drop"
  BY <1>1, <1>4 DEF WritersInv, IInv, Kept, Copying, Stands, Held
<1>5. CASE pc # "drop"
  BY <1>2, <1>3, <1>5 DEF WritersInv, Aside, SwapPcs, HasCollections
<1>6. QED
  BY <1>4, <1>5

LEMMA NoReaderType == NoReader \in Reader /\ NoReader.missing = {} /\ NoReader.step = "idle"
BY DEF NoReader, Reader

LEMMA QueryStep ==
  ASSUME ReadersInv, Query, UNCHANGED vars
  PROVE  reader' \in Reader /\ Answering'
<1> USE NoReaderType DEF ReadersInv, ReadersTypeOK, Answering, Goto
<1>0. ASSUME NEW manifest \in SUBSET Records, Select(manifest)
      PROVE  reader' \in Reader /\ Answering'
  BY <1>0 DEF Select, Openings, NoReader, Reader
<1>1. ASSUME NEW missing, missing = {}, Finish(missing)
      PROVE  reader' \in Reader /\ Answering'
  BY <1>1 DEF Finish, NoReader, Reader
<1>2. ASSUME reader.step \in {"open", "copy", "copy-chunks"}, HasCollections PROVE Lacking = {}
  BY <1>2, NothingLacking
<1>3. ASSUME NEW h \in Heads, SelectAt(h) PROVE reader' \in Reader /\ Answering'
  BY <1>3 DEF SelectAt, NoReader, Reader
<1>4. CASE SelectHead
  <2>1. reader' = [NoReader EXCEPT !.step = "context", !.attempt = 1]
    BY <1>4 DEF SelectHead
  <2>2. reader' = [step |-> "context", attempt |-> 1, head |-> None, selected |-> None, missing |-> {}]
    BY <2>1 DEF NoReader
  <2>3. QED
    BY <2>2 DEF Reader
<1>5. ASSUME NEW h \in Heads \cup {None}, ReadContext(h) PROVE reader' \in Reader /\ Answering'
  BY <1>5 DEF ReadContext, Reader
<1>6. CASE LoadManifest
  <2> DEFINE found == IF reader.head = None THEN None ELSE manifests[reader.head]
  <2>1. found \in (SUBSET Records) \cup {None}
    BY DEF Reader, TypeOK
  <2>2. CASE reader.attempt # 0
    <3>1. reader' = [reader EXCEPT !.step = "recheck", !.selected = found]
      BY <1>6, <2>2 DEF LoadManifest
    <3>2. QED
      BY <2>1, <3>1 DEF Reader
  <2>3. CASE reader.attempt = 0 /\ found = None
    BY <1>6, <2>3 DEF LoadManifest, Fail
  <2>4. CASE reader.attempt = 0 /\ found # None
    <3>1. Select(found)
      BY <1>6, <2>4 DEF LoadManifest
    <3>2. QED
      BY <1>0, <2>1, <2>4, <3>1
  <2>5. QED
    BY <2>2, <2>3, <2>4
<1>7. ASSUME NEW h \in Heads \cup {None}, RecheckHead(h) PROVE reader' \in Reader /\ Answering'
  <2>1. CASE h # reader.head /\ reader.attempt = 1
    <3>1. reader' = [NoReader EXCEPT !.step = "context", !.attempt = 2]
      BY <1>7, <2>1 DEF RecheckHead
    <3>2. reader' = [step |-> "context", attempt |-> 2, head |-> None, selected |-> None, missing |-> {}]
      BY <3>1 DEF NoReader
    <3>3. QED
      BY <3>2 DEF Reader
  <2>2. CASE h = reader.head /\ reader.selected # None
    <3>1. Select(reader.selected) /\ reader.selected \in SUBSET Records
      BY <1>7, <2>2 DEF RecheckHead, Reader
    <3>2. QED
      BY <1>0, <3>1
  <2>3. CASE ~ (h # reader.head /\ reader.attempt = 1) /\ ~ (h = reader.head /\ reader.selected # None)
    BY <1>7, <2>3 DEF RecheckHead, Fail
  <2>4. QED
    BY <2>1, <2>2, <2>3
<1>8. CASE ReadMeta
  BY <1>8 DEF ReadMeta, Fail, Reader
<1>9. CASE OpenCollections \/ CopyChunks
  BY <1>1, <1>2, <1>9 DEF OpenCollections, CopyChunks, Fail
<1>10. CASE CopyMetaFirst
  BY <1>10 DEF CopyMetaFirst, Fail, Reader
<1>11. CASE CopyChunksFirst
  <2>1. CASE HasCollections
    <3>1. reader' = [NoReader EXCEPT !.step = "copy-meta", !.missing = {}]
      BY <1>2, <1>11, <2>1 DEF CopyChunksFirst
    <3>2. QED
      BY <3>1 DEF NoReader, Reader
  <2>2. CASE ~ HasCollections
    BY <1>11, <2>2 DEF CopyChunksFirst, Fail
  <2>3. QED
    BY <2>1, <2>2
<1>12. CASE CopyMeta
  BY <1>1, <1>12 DEF CopyMeta, Fail
<1>13. CASE Answer
  BY <1>13 DEF Answer
<1>14. QED
  BY <1>3, <1>4, <1>5, <1>6, <1>7, <1>8, <1>9, <1>10, <1>11, <1>12, <1>13 DEF Query

LEMMA ReadersStep == ReadersInv /\ [ReadersNext]_allVars => ReadersInv'
<1> SUFFICES ASSUME ReadersInv, [ReadersNext]_allVars PROVE ReadersInv'
  OBVIOUS
<1>1. [Next]_vars
  BY DEF ReadersNext, allVars, vars
<1>2. WritersInv'
  BY <1>1, WritersStep DEF ReadersInv
<1>3. TypeOK'
  BY <1>2 DEF WritersInv, IInv
<1>4. CASE UNCHANGED reader
  BY <1>2, <1>3, <1>4 DEF ReadersInv, ReadersTypeOK, Answering
<1>5. CASE Query /\ UNCHANGED vars
  BY <1>2, <1>3, <1>5, QueryStep DEF ReadersInv, ReadersTypeOK
<1>6. QED
  BY <1>4, <1>5 DEF ReadersNext, allVars

LEMMA ReadersStart == ReadersInit => ReadersInv
<1> SUFFICES ASSUME ReadersInit PROVE ReadersInv
  OBVIOUS
<1>1. Init /\ reader = NoReader
  BY DEF ReadersInit
<1>2. Indexed = {} /\ pc = "idle"
  BY <1>1 DEF Init, Indexed
<1>3. IInv /\ Aside /\ Healthy
  BY <1>1, <1>2, InvariantInit DEF Aside, Healthy, Serves, PurgePcs
<1>4. ReadersTypeOK /\ Answering
  BY <1>1, <1>3, NoReaderType DEF IInv, ReadersTypeOK, Answering
<1>5. QED
  BY <1>3, <1>4 DEF ReadersInv, WritersInv

\* Neither a reader nor a writer beside it leaves what the invariant says.
THEOREM ReadersInvariance == ReadersSpec => []ReadersInv
BY ReadersStart, ReadersStep, PTL DEF ReadersSpec

\* A query that got an answer has searched every chunk of its snapshot, except for
\* those with a reason to be missing, whatever the writers did meanwhile.
THEOREM CompleteAnswers == ReadersSpec => []AnswersAreComplete
<1>1. ReadersInv => AnswersAreComplete
  BY DEF ReadersInv, Answering, AnswersAreComplete
<1>2. QED
  BY <1>1, ReadersInvariance, PTL

\* As long as nothing has failed, doctor and status do not complain of the store.
THEOREM NoAlarm == ReadersSpec => []NoFalseAlarm
<1>1. ASSUME ReadersInv, faults = 0, pc = "idle", NEW h \in Indexed
      PROVE  RuntimeCheck /\ ConsistencyCheck /\ (SearchReady(h) <=> ContractCheck)
  <2>1. store.state = "whole" /\ ManifestUnion \subseteq store.records
    BY <1>1 DEF ReadersInv, WritersInv, Healthy, Serves, PurgePcs
  <2>2. manifests[h] # None
    BY DEF Indexed
  <2>3. QED
    BY <2>1, <2>2 DEF RuntimeCheck, ConsistencyCheck, ContractCheck, SearchReady,
                      SnapshotStatus, StoreLoaded
<1>2. ReadersInv => NoFalseAlarm
  BY <1>1 DEF NoFalseAlarm
<1>3. QED
  BY <1>2, ReadersInvariance, PTL
============================================================================
