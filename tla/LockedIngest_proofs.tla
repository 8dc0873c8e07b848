----------------------- MODULE LockedIngest_proofs ------------------------
(***************************************************************************)
(* For any number of writers, process ids and machines: the safety         *)
(* properties of StoreWriteLock, under whose lock an ingest runs. Its      *)
(* invariant says who owns the file in every phase, that the operator only *)
(* vouches for an owner that is gone, and that whoever was found in the    *)
(* file had started.                                                       *)
(*                                                                         *)
(* For any history, any documents, artifacts and transactions, and any     *)
(* number of faults: the properties of IngestTransaction. What it          *)
(* guarantees of finalization rests on CommitInv: a transaction past its   *)
(* commit point stays there; artifacts are bound after publication and     *)
(* before the event; the backlog is settled before anything else is        *)
(* written.                                                                *)
(*                                                                         *)
(* The last part shows that IngestTransaction implements                   *)
(* SnapshotPublication: the first complete write of a journal begins an    *)
(* ingest, the rename of a manifest publishes it, the append to the ledger *)
(* announces it, and nothing else shows.                                   *)
(***************************************************************************)
EXTENDS StoreWriteLock, IngestTransaction, TLAPS

(* The lock *)

\* The creator of the file owns it before its name is in it, a holder after.
Owned ==
    \A p \in Procs : /\ stage[p] = "write" => lockFile = "torn"
                     /\ stage[p] \in Holding => lockFile = p

OneCreator == \A p, q \in Procs : stage[p] = "write" /\ stage[q] = "write" => p = q

\* A name in the file is that of a process that got past writing it.
NamedHasStarted == \A p \in Procs : lockFile = p => stage[p] \in Holding \cup Finished

\* What the operator verified stays true until the operator acts on it.
Vouched == operator # Nobody => lockFile = operator /\ stage[operator] \in Finished

FoundHasStarted ==
    \A p \in Procs : stage[p] \in {"probe", "stale"} =>
      /\ found[p] \in Procs
      /\ host[found[p]] = host[p]
      /\ stage[found[p]] \in Holding \cup Finished

LockInv == /\ LockTypeOK /\ Owned /\ OneCreator /\ NamedHasStarted /\ Vouched
        /\ FoundHasStarted /\ StaleOwnerIsGone

\* Type correctness: the state keeps its type.
THEOREM LockTypeCorrect == LockSpec => []LockTypeOK
<1>1. LockInit => LockTypeOK
  BY DEF LockInit, LockTypeOK
<1>2. LockTypeOK /\ [LockNext]_lockVars => LockTypeOK'
  <2> SUFFICES ASSUME LockTypeOK, [LockNext]_lockVars PROVE LockTypeOK'
    OBVIOUS
  <2> USE DEF LockTypeOK, Leave, Goto, Running, Finished
  <2>1. ASSUME NEW p \in Procs, Start(p) \/ Step(p) \/ Die(p) PROVE LockTypeOK'
    BY <2>1 DEF Start, Step, Die, Create, WriteOwner, Inspect, Probe, Finish,
                ReadOwner, RemoveLock
  <2>2. CASE OperatorInspect
    BY <2>2 DEF OperatorInspect
  <2>3. CASE OperatorRemove
    BY <2>3 DEF OperatorRemove
  <2>4. CASE UNCHANGED lockVars
    BY <2>4 DEF lockVars
  <2>5. QED
    BY <2>1, <2>2, <2>3, <2>4 DEF LockNext
<1>3. QED
  BY <1>1, <1>2, PTL DEF LockSpec

\* A process that does not answer to its id is not alive, so it has finished
\* unless it had never started.
LEMMA Unanswered ==
  ASSUME LockTypeOK, NEW p \in Procs, ~ PidAlive(p, host[p]), stage[p] \in Holding \cup Finished
  PROVE  stage[p] \in Finished
  BY DEF PidAlive, Alive, Running, Holding, Finished

LEMMA LockInvInit == LockInit => LockInv
  BY ProcAssumption
  DEF LockInit, LockInv, LockTypeOK, Owned, OneCreator, NamedHasStarted, Vouched,
      FoundHasStarted, StaleOwnerIsGone, Running, Finished, Holding

\* Every step of a process keeps the invariant.
LEMMA ProcessStep ==
  ASSUME LockInv, LockTypeOK', NEW p \in Procs, Start(p) \/ Step(p) \/ Die(p)
  PROVE  LockInv'
<1> USE ProcAssumption DEF LockInv, Leave, Goto, Holding, Finished
<1>a. UNCHANGED <<pid, host, operator>>
  BY DEF Start, Step, Die, Create, WriteOwner, Inspect, Probe, Finish, ReadOwner, RemoveLock
<1>b. \A q \in Procs : stage[q] \in Finished => stage'[q] = stage[q]
  BY DEF LockTypeOK, Start, Step, Die, Create, WriteOwner, Inspect, Probe, Finish,
         ReadOwner, RemoveLock, Alive, Running
<1>c. \A q \in Procs : stage[q] \in Holding => stage'[q] \in Holding \cup Finished
  BY DEF LockTypeOK, Start, Step, Die, Create, WriteOwner, Inspect, Probe, Finish,
         ReadOwner, RemoveLock, Alive, Running
<1>1. (Owned /\ OneCreator)'
  <2> USE DEF LockTypeOK, Owned, OneCreator
  <2>1. CASE Start(p)
    BY <2>1 DEF Start
  <2>2. CASE Create(p)
    BY <2>2 DEF Create
  <2>3. CASE WriteOwner(p)
    BY <2>3 DEF WriteOwner
  <2>4. CASE Inspect(p)
    BY <2>4 DEF Inspect
  <2>5. CASE Probe(p)
    BY <2>5 DEF Probe
  <2>6. CASE Finish(p)
    BY <2>6 DEF Finish
  <2>7. CASE ReadOwner(p)
    BY <2>7 DEF ReadOwner
  <2>8. CASE RemoveLock(p)
    BY <2>8 DEF RemoveLock
  <2>9. CASE Die(p)
    BY <2>9 DEF Die
  <2>10. QED
    BY <2>1, <2>2, <2>3, <2>4, <2>5, <2>6, <2>7, <2>8, <2>9 DEF Step
<1>2. NamedHasStarted'
  <2>1. CASE WriteOwner(p)
    BY <2>1, <1>c DEF WriteOwner, NamedHasStarted, LockTypeOK
  <2>2. CASE lockFile' \notin Procs
    BY <2>2 DEF NamedHasStarted
  <2>3. CASE lockFile' = lockFile
    BY <2>3, <1>b, <1>c DEF NamedHasStarted
  <2>4. QED
    BY <2>1, <2>2, <2>3 DEF Start, Step, Die, Create, Inspect, Probe, Finish,
                            ReadOwner, RemoveLock
<1>3. Vouched'
  \* The verified owner's name keeps the file from being created again, and
  \* only a live owner writes or removes it.
  <2> SUFFICES ASSUME operator # Nobody PROVE lockFile' = operator /\ stage'[operator] \in Finished
    BY <1>a DEF Vouched
  <2>1. operator \in Procs /\ lockFile = operator /\ stage[operator] \in Finished
    BY DEF LockTypeOK, Vouched
  <2>2. lockFile' = lockFile
    BY <2>1 DEF Start, Step, Die, Create, WriteOwner, Inspect, Probe, Finish,
                ReadOwner, RemoveLock, Owned
  <2>3. QED
    BY <2>1, <2>2, <1>b
<1>4. FoundHasStarted'
  <2>1. CASE Inspect(p)
    BY <2>1, <1>a, <1>b, <1>c DEF Inspect, FoundHasStarted, NamedHasStarted, LockTypeOK
  <2>2. CASE ~ Inspect(p)
    <3>1. found' = found
      BY <2>2 DEF Start, Step, Die, Create, WriteOwner, Probe, Finish, ReadOwner, RemoveLock
    <3>2. \A q \in Procs : stage'[q] \in {"probe", "stale"} => stage[q] \in {"probe", "stale"}
      BY <2>2 DEF LockTypeOK, Start, Step, Die, Create, WriteOwner, Probe, Finish,
                  ReadOwner, RemoveLock
    <3>3. QED
      BY <3>1, <3>2, <1>a, <1>b, <1>c DEF FoundHasStarted
  <2>3. QED
    BY <2>1, <2>2
<1>5. StaleOwnerIsGone'
  <2>1. CASE Probe(p)
    <3>1. ~ PidAlive(found[p], host[p]) => stage[found[p]] \in Finished
      BY <2>1, Unanswered DEF Probe, FoundHasStarted
    <3>2. found' = found /\ \A q \in Procs : q # p => stage'[q] = stage[q]
      BY <2>1 DEF Probe, LockTypeOK
    <3>3. stage'[p] = "stale" => ~ PidAlive(found[p], host[p])
      BY <2>1 DEF Probe, LockTypeOK
    <3>4. ASSUME NEW q \in Procs, stage'[q] = "stale" PROVE stage'[found'[q]] \in Finished
      <4>1. CASE q = p
        <5>1. found[p] \in Procs /\ stage[found[p]] \in Finished
          BY <4>1, <3>4, <3>1, <3>3, <2>1 DEF Probe, FoundHasStarted
        <5>2. QED
          BY <5>1, <4>1, <3>2, <1>b
      <4>2. CASE q # p
        <5>1. stage[q] = "stale" /\ stage[found[q]] \in Finished
          BY <4>2, <3>4, <3>2 DEF StaleOwnerIsGone
        <5>2. found[q] \in Procs
          BY <5>1 DEF FoundHasStarted
        <5>3. QED
          BY <5>1, <5>2, <3>2, <1>b
      <4>3. QED
        BY <4>1, <4>2
    <3>5. QED
      BY <3>4 DEF StaleOwnerIsGone
  <2>2. CASE ~ Probe(p)
    <3>1. \A q \in Procs : stage'[q] = "stale" => stage[q] = "stale" /\ found'[q] = found[q]
      BY <2>2 DEF LockTypeOK, Start, Step, Die, Create, WriteOwner, Inspect, Finish,
                  ReadOwner, RemoveLock
    <3>2. QED
      BY <3>1, <1>b DEF StaleOwnerIsGone, FoundHasStarted
  <2>3. QED
    BY <2>1, <2>2
<1>6. QED
  BY <1>1, <1>2, <1>3, <1>4, <1>5

\* Both steps of the operator keep the invariant: removing is safe because
\* what was verified still holds.
LEMMA OperatorStep ==
  ASSUME LockInv, LockTypeOK', OperatorInspect \/ OperatorRemove
  PROVE  LockInv'
<1> USE ProcAssumption
<1>1. CASE OperatorInspect
  <2>1. stage[lockFile] \in Finished
    BY <1>1, Unanswered DEF OperatorInspect, LockInv, NamedHasStarted
  <2>2. QED
    BY <1>1, <2>1 DEF OperatorInspect, LockInv, Owned, OneCreator, NamedHasStarted,
                      Vouched, FoundHasStarted, StaleOwnerIsGone
<1>2. CASE OperatorRemove
  <2>1. lockFile \in Procs /\ stage[lockFile] \in Finished
    BY <1>2 DEF OperatorRemove, LockInv, Vouched, LockTypeOK
  <2>2. \A p \in Procs : stage[p] \notin {"write"} \cup Holding
    BY <2>1 DEF LockInv, Owned, Holding, Finished
  <2>3. QED
    BY <1>2, <2>2 DEF OperatorRemove, LockInv, Owned, OneCreator, NamedHasStarted,
                      Vouched, FoundHasStarted, StaleOwnerIsGone
<1>3. QED
  BY <1>1, <1>2

\* The invariant holds of every behaviour.
THEOREM LockInvariance == LockSpec => []LockInv
<1>1. LockInv /\ LockTypeOK' /\ [LockNext]_lockVars => LockInv'
  <2>1. CASE UNCHANGED lockVars
    BY <2>1 DEF lockVars, LockInv, LockTypeOK, Owned, OneCreator, NamedHasStarted, Vouched,
                FoundHasStarted, StaleOwnerIsGone
  <2>2. QED
    BY <2>1, ProcessStep, OperatorStep DEF LockNext
<1>2. QED
  BY <1>1, LockInvInit, LockTypeCorrect, PTL DEF LockSpec

\* Mutual exclusion of store writers, for every number of them: what
\* withStoreWriteLock promises to ingest, repair, migrate and purge.
THEOREM Exclusion == LockSpec => []MutualExclusion
<1>1. LockInv => MutualExclusion
  BY ProcAssumption DEF LockInv, Owned, OneCreator, MutualExclusion, Owning, Holding
<1>2. QED
  BY <1>1, LockInvariance, PTL

\* The file names whoever works under the lock.
THEOREM Named == LockSpec => []HolderIsNamed
<1>1. LockInv => HolderIsNamed
  BY DEF LockInv, Owned, HolderIsNamed
<1>2. QED
  BY <1>1, LockInvariance, PTL

\* STORE_WRITE_LOCK_STALE is raised only about a process that is gone.
THEOREM StaleIsGone == LockSpec => []StaleOwnerIsGone
<1>1. LockInv => StaleOwnerIsGone
  BY DEF LockInv
<1>2. QED
  BY <1>1, LockInvariance, PTL

-----------------------------------------------------------------------------
(* The ingest *)

BeforeManifest == {"write-journal", "write-store", "journal-written", "verify",
                   "journal-verified", "check-head", "write-manifest"}

\* What the writer relies on: there is a HEAD while it selects, a transaction
\* from then on, and a base that is indexed until the manifest is written.
Control ==
    /\ pc \in {"backlog", "select", "read"} \/ mode = "backlog" => head \in Heads
    /\ pc \in {"read"} \cup WritePcs \cup FinalizePcs => txn \in Txns
    /\ pc \in {"read"} \cup BeforeManifest =>
         job.head \in Heads /\ job.base \in Indexed \cup {None}

\* An artifact that is listed was captured at some time.
Dated == \A a \in Artifacts : IsListed(artifacts[a]) => artifacts[a].updatedAt \in Stamps

TypeInv == TypeOK /\ Control /\ Dated

LEMMA SelectionTyped ==
  ASSUME TypeOK, NEW h \in Heads, NEW s \in Selection(h)
  PROVE  s \in [base : Indexed \cup {None}, full : BOOLEAN,
                reading : SUBSET Docs, deleted : SUBSET Docs]
<1>1. \A g \in Heads : DOMAIN Tree[g] \subseteq Docs
  BY TreeAssumption
<1>2. Indexed \subseteq Heads
  BY DEF Indexed
<1>3. CASE s = FullSelection(h)
  BY <1>1, <1>3 DEF FullSelection
<1>4. CASE s \in PathSelections(h)
  <2> DEFINE base == IF h \in Indexed THEN h ELSE Parent[h]
  <2>1. PICK P \in SUBSET DOMAIN Tree[h] :
          /\ base \in Indexed
          /\ s = [base |-> base, full |-> FALSE, reading |-> P, deleted |-> {}]
    BY <1>4 DEF PathSelections
  <2>2. QED
    BY <1>1, <2>1
<1>5. CASE s \in SinceSelections(h)
  <2>1. PICK b \in Indexed :
          s = [base |-> b, full |-> FALSE, reading |-> Changed(b, h),
               deleted |-> DOMAIN Tree[b] \ DOMAIN Tree[h]]
    BY <1>5 DEF SinceSelections, SinceBases
  <2>2. Changed(b, h) \subseteq Docs /\ DOMAIN Tree[b] \ DOMAIN Tree[h] \subseteq Docs
    BY <1>1, <1>2, <2>1 DEF Changed
  <2>3. QED
    BY <2>1, <2>2
<1>6. QED
  BY <1>3, <1>4, <1>5 DEF Selection

LEMMA TypeInit == Init => TypeInv
  BY NoneAssumption, BoundAssumption
  DEF Init, TypeInv, TypeOK, Control, Dated, IsListed, Journal, NoJournal, Artifact, NoArtifact,
      Job, NoJob, Nothing, Pcs, WritePcs, FinalizePcs, BeforeManifest, Phases, Statuses

\* The environment.
LEMMA TypeEnvironment ==
  ASSUME TypeInv, MoveHead \/ \E a \in Artifacts : Materialize(a) \/ Review(a)
  PROVE  TypeInv'
<1> USE DEF TypeInv, disk, records, writer
<1>1. CASE MoveHead
  BY <1>1 DEF MoveHead, TypeOK, Control, Dated, Indexed
<1>2. ASSUME NEW a \in Artifacts, Materialize(a) PROVE TypeInv'
  <2>1. edits + 1 \in Stamps /\ edits + 1 \in 0..MaxEdits
    BY <1>2, BoundAssumption DEF Materialize, TypeOK, Stamps, Edits
  <2>2. QED
    BY <1>2, <2>1 DEF Materialize, TypeOK, Control, Dated, Indexed, IsListed, Artifact
<1>3. ASSUME NEW a \in Artifacts, Review(a) PROVE TypeInv'
  <2>1. edits + 1 \in Stamps /\ edits + 1 \in 0..MaxEdits
    BY <1>3, BoundAssumption DEF Review, TypeOK, Stamps, Edits
  <2>2. PICK next \in {"reviewed", "retired"} :
          artifacts' = [artifacts EXCEPT ![a].status = next, ![a].updatedAt = edits + 1]
    BY <1>3 DEF Review
  <2>3. QED
    BY <1>3, <2>1, <2>2 DEF Review, TypeOK, Control, Dated, Indexed, IsListed, Artifact
<1>4. QED
  BY <1>1, <1>2, <1>3

\* Choosing what runs.
LEMMA TypeEnter ==
  ASSUME TypeInv, ScanJournals \/ \E t \in Txns : FinalizeBacklog(t) \/ StartRepair(t)
  PROVE  TypeInv'
<1> USE DEF TypeInv, TypeOK, Control, Dated, Indexed, disk, records, Advance,
            Pcs, WritePcs, FinalizePcs, BeforeManifest
<1>1. CASE ScanJournals
  BY <1>1 DEF ScanJournals, Pending
<1>2. ASSUME NEW t \in Txns, FinalizeBacklog(t) PROVE TypeInv'
  BY <1>2 DEF FinalizeBacklog
<1>3. ASSUME NEW t \in Txns, StartRepair(t) PROVE TypeInv'
  BY <1>3 DEF StartRepair
<1>4. QED
  BY <1>1, <1>2, <1>3

\* Giving the lock up, with the journal marked or not.
LEMMA TypeRest ==
  ASSUME TypeInv, Rest, UNCHANGED <<head, manifests, storeDocs, storeChunks, ledger, records>>,
         faults' \in 0..MaxFaults, journals' \in [Txns -> Journal]
  PROVE  TypeInv'
  BY DEF TypeInv, TypeOK, Control, Dated, Indexed, records, Rest, NoJob, Job, Nothing, Pcs,
         WritePcs, FinalizePcs, BeforeManifest

LEMMA TypeFail ==
  ASSUME TypeInv, FailTransaction
  PROVE  journals' \in [Txns -> Journal]
<1> DEFINE status == FailedStatus(journals[txn].phase)
<1>1. status \in Statuses
  BY DEF FailedStatus, Statuses
<1>2. journals' = [journals EXCEPT ![txn].status = status]
  BY DEF FailTransaction
<1> HIDE DEF status
<1>3. journals \in [Txns -> Journal]
  BY DEF TypeInv, TypeOK
<1>4. \A j \in Journal : [j EXCEPT !.status = status] \in Journal
  BY <1>1 DEF Journal
<1>5. QED
  BY <1>2, <1>3, <1>4

LEMMA TypeGiveUp ==
  ASSUME TypeInv, Abort \/ FailStep \/ Crash \/ StoreIncomplete \/ RepositoryChanged
                  \/ \E a \in Artifacts : BindingConflict(a)
  PROVE  TypeInv'
<1>1. Rest /\ UNCHANGED <<head, manifests, storeDocs, storeChunks, ledger, records>>
  BY DEF Abort, FailStep, Crash, StoreIncomplete, RepositoryChanged, BindingConflict,
         FailTransaction, disk
<1>2. FailTransaction \/ UNCHANGED journals
  BY DEF Abort, FailStep, Crash, StoreIncomplete, RepositoryChanged, BindingConflict, disk
<1>3. journals' \in [Txns -> Journal]
  BY <1>2, TypeFail DEF TypeInv, TypeOK
<1>4. faults' \in 0..MaxFaults
  BY BoundAssumption DEF Abort, FailStep, Crash, StoreIncomplete, RepositoryChanged,
         BindingConflict, SpendFault, TypeInv, TypeOK
<1>5. QED
  BY <1>1, <1>3, <1>4, TypeRest

\* What SelectBase keeps of the artifacts has its type.
LEMMA TypeSelectBase ==
  ASSUME TypeInv, SelectBase
  PROVE  TypeInv'
<1> USE DEF TypeInv, Advance
<1>1. PICK t \in Txns, s \in Selection(head),
           ready \in SUBSET {a \in Listed : artifacts[a].binding = "pending"},
           scope \in {"durable", "all"} :
         txn' = t /\ job' = Draft(t, s, ready, scope)
  BY DEF SelectBase
<1>2. head \in Heads
  BY DEF SelectBase, Control
<1>3. s.base \in Indexed \cup {None} /\ s.full \in BOOLEAN
      /\ s.reading \in SUBSET Docs /\ s.deleted \in SUBSET Docs
  BY <1>2, SelectionTyped
<1>4. \A a \in Listed : a \in Artifacts /\ artifacts[a].updatedAt \in Stamps
  BY DEF Listed, Dated
<1>5. ready \subseteq Listed
  OBVIOUS
<1>6. {[artifact |-> a, updatedAt |-> artifacts[a].updatedAt] : a \in ready} \in SUBSET Binding
  BY <1>4, <1>5 DEF Binding
<1>7. {ArtifactVersion(a, IF a \in ready THEN t ELSE artifacts[a].updatedAt) : a \in Listed}
        \in SUBSET Version
  BY <1>4 DEF ArtifactVersion, Version, Stamps
<1>8. Indexed \cup {None} \subseteq Heads \cup {None}
  BY DEF Indexed
<1>9. job' \in Job /\ job'.head \in Heads /\ job'.base \in Indexed \cup {None}
  BY <1>1, <1>2, <1>3, <1>4, <1>6, <1>7, <1>8 DEF Draft, Job, Listed
<1>10. QED
  BY <1>1, <1>2, <1>9 DEF SelectBase, TypeOK, Control, Dated, Indexed, disk, records, Pcs,
                          WritePcs, FinalizePcs, BeforeManifest

LEMMA TypeCreateJournal ==
  ASSUME TypeInv, CreateJournal
  PROVE  TypeInv'
<1> DEFINE new == {[id |-> d, commit |-> job.head, content |-> Tree[head][d]] :
                     d \in {r \in job.reading : Tree[head][r] \notin Unsupported}}
<1>1. head \in Heads /\ job \in Job /\ txn \in Txns /\ journals[txn] \in Journal
  BY DEF CreateJournal, Advance, TypeInv, TypeOK, Control
<1>2. new \in SUBSET Version
  BY <1>1, TreeAssumption DEF Version, CreateJournal, Job
<1>3. job' = [job EXCEPT !.docs = new]
  BY DEF CreateJournal
<1>4. job' \in Job /\ job'.head = job.head /\ job'.base = job.base
  BY <1>1, <1>2, <1>3 DEF Job
<1>5. journals' \in [Txns -> Journal]
  BY <1>1 DEF CreateJournal, TypeInv, TypeOK, Journal
<1>6. QED
  BY <1>4, <1>5 DEF CreateJournal, Advance, TypeInv, TypeOK, Control, Dated, Indexed, records,
                    Pcs, WritePcs, FinalizePcs, BeforeManifest

LEMMA TypeSetPhase ==
  ASSUME TypeInv, NEW phase \in Phases, SetPhase(phase)
  PROVE  journals' \in [Txns -> Journal]
<1> DEFINE new == [journals[txn] EXCEPT !.phase = phase]
<1>1. journals' = [journals EXCEPT ![txn] = new]
  BY DEF SetPhase
<1>2. txn \in Txns => new \in Journal
  BY DEF TypeInv, TypeOK, Journal
<1> HIDE DEF new
<1>3. QED
  BY <1>1, <1>2 DEF TypeInv, TypeOK

\* The steps that move the journal's phase and nothing else on disk.
LEMMA TypeJournalStep ==
  ASSUME TypeInv,
         JournalStoreWritten \/ JournalStoreVerified \/ JournalManifestCommitted
         \/ JournalArtifacts \/ JournalLedger \/ LoadManifest
  PROVE  TypeInv'
<1>1. \/ \E phase \in Phases : SetPhase(phase)
      \/ UNCHANGED journals
  BY DEF JournalStoreWritten, JournalStoreVerified, JournalManifestCommitted,
         JournalArtifacts, JournalLedger, LoadManifest, Phases
<1>2. journals' \in [Txns -> Journal]
  BY <1>1, TypeSetPhase DEF TypeInv, TypeOK
<1>3. QED
  BY <1>2 DEF JournalStoreWritten, JournalStoreVerified, JournalManifestCommitted,
              JournalArtifacts, JournalLedger, LoadManifest, Advance, records,
              TypeInv, TypeOK, Control, Dated, Indexed, Pcs, WritePcs, FinalizePcs, BeforeManifest

LEMMA TypeWrite ==
  ASSUME TypeInv, WriteJournal \/ WriteStore \/ VerifyStore \/ CheckHead
  PROVE  TypeInv'
<1> USE DEF Advance, disk, records, TypeInv, Control, Dated, Indexed, Pcs, WritePcs, FinalizePcs,
            BeforeManifest
<1>0. job.docs \subseteq Version /\ NewChunks \subseteq Version
  BY DEF TypeOK, Job, NewChunks
<1>1. CASE WriteJournal
  <2>1. job.head \in Heads \cup {None} /\ job.planned \subseteq Binding
    BY DEF TypeOK, Job
  <2>2. journals' \in [Txns -> Journal]
    BY <1>0, <1>1, <2>1 DEF WriteJournal, TypeOK, Journal, Statuses, Phases
  <2>3. QED
    BY <1>1, <2>2 DEF WriteJournal, TypeOK
<1>2. CASE WriteStore
  <2>1. storeDocs' \subseteq Version /\ storeChunks' \subseteq Version
    BY <1>0, <1>2 DEF WriteStore, TypeOK
  <2>2. faults' \in 0..MaxFaults
    BY <1>2, BoundAssumption DEF WriteStore, SpendFault, TypeOK
  <2>3. QED
    BY <1>2, <2>1, <2>2 DEF WriteStore, TypeOK
<1>3. CASE VerifyStore
  BY <1>3 DEF VerifyStore, TypeOK
<1>4. CASE CheckHead
  BY <1>4 DEF CheckHead, TypeOK
<1>5. QED
  BY <1>1, <1>2, <1>3, <1>4

LEMMA BaseTyped ==
  ASSUME TypeInv, pc \in BeforeManifest
  PROVE  Base \in Manifest
  BY DEF TypeInv, TypeOK, Control, Base, Manifest, NoManifest, Indexed

LEMMA ManifestTyped ==
  ASSUME TypeInv, pc \in BeforeManifest
  PROVE  NewManifest \in Manifest
<1>1. Base.docs \subseteq Version /\ Base.chunks \subseteq Version
  BY BaseTyped DEF Manifest
<1>2. Kept(Base.docs) \subseteq Version /\ Kept(Base.chunks) \subseteq Version
  BY <1>1 DEF Kept
<1>3. job.docs \subseteq Version /\ NewChunks \subseteq Version /\ job.bound \subseteq Artifacts
  BY DEF TypeInv, TypeOK, Job, NewChunks
<1>4. QED
  BY <1>2, <1>3 DEF NewManifest, Manifest

LEMMA TypeWriteManifest ==
  ASSUME TypeInv, WriteManifest
  PROVE  TypeInv'
<1>1. NewManifest \in Manifest
  BY ManifestTyped DEF WriteManifest, Advance, BeforeManifest
<1>2. manifests' \in [Heads -> Manifest \cup {None}]
  BY <1>1 DEF WriteManifest, TypeInv, TypeOK
<1>3. NoJob \in Job
  BY DEF NoJob, Job
<1>4. QED
  BY <1>2, <1>3 DEF WriteManifest, Advance, records, TypeInv, TypeOK, Control, Dated, Pcs,
                    WritePcs, FinalizePcs, BeforeManifest

LEMMA TypeBind ==
  ASSUME TypeInv, ListArtifacts \/ \E a \in Artifacts : BindArtifact(a)
  PROVE  TypeInv'
<1> USE DEF TypeInv, Control, Dated, Indexed, disk, records, Advance, Pcs, WritePcs, FinalizePcs,
            BeforeManifest
<1>1. CASE ListArtifacts
  <2>1. {p.artifact : p \in journals[txn].planned} \subseteq Artifacts
    BY <1>1 DEF ListArtifacts, TypeOK, Journal, Binding
  <2>2. DOMAIN seen' \subseteq Artifacts /\ seen' \in [DOMAIN seen' -> Artifact]
    BY <1>1, <2>1 DEF ListArtifacts, TypeOK
  <2>3. QED
    BY <1>1, <2>2 DEF ListArtifacts, TypeOK
<1>2. ASSUME NEW a \in Artifacts, BindArtifact(a) PROVE TypeInv'
  <2>1. txn \in Txns /\ journals[txn] \in Journal /\ seen[a] \in Artifact /\ a \in DOMAIN seen
    BY <1>2 DEF BindArtifact, TypeOK
  <2>2. DOMAIN seen' \subseteq Artifacts /\ seen' \in [DOMAIN seen' -> Artifact]
    BY <1>2 DEF BindArtifact, Unbind, TypeOK
  <2> DEFINE new == [seen[a] EXCEPT !.binding = "bound", !.head = journals[txn].head,
                                    !.updatedAt = txn]
  <2>3. new \in Artifact /\ new.updatedAt \in Stamps
    BY <2>1 DEF Artifact, Journal, Stamps
  <2>4. artifacts' \in {artifacts, [artifacts EXCEPT ![a] = new]}
    BY <1>2 DEF BindArtifact
  <2> HIDE DEF new
  <2>5. artifacts' \in [Artifacts -> Artifact] /\ Dated'
    BY <2>3, <2>4 DEF TypeOK, IsListed
  <2>6. QED
    BY <1>2, <2>2, <2>5 DEF BindArtifact, TypeOK
<1>3. QED
  BY <1>1, <1>2

LEMMA CompletedTyped ==
  ASSUME NEW j \in Journal
  PROVE  [j EXCEPT !.status = "completed", !.phase = "completed"] \in Journal
<1>1. "completed" \in Statuses /\ "completed" \in Phases
  BY DEF Statuses, Phases
<1>2. QED
  BY <1>1 DEF Journal

LEMMA TypeFinish ==
  ASSUME TypeInv, AppendEvent \/ JournalCompleted
  PROVE  TypeInv'
<1> USE DEF TypeInv, Control, Dated, Indexed, disk, records, Advance, Pcs, WritePcs, FinalizePcs,
            BeforeManifest
<1>1. CASE AppendEvent
  <2>1. ledger' \in [Txns -> {0, 1}]
    BY <1>1 DEF AppendEvent, TypeOK
  <2>2. QED
    BY <1>1, <2>1 DEF AppendEvent, TypeOK
<1>2. CASE JournalCompleted
  <2> DEFINE new == [journals[txn] EXCEPT !.status = "completed", !.phase = "completed"]
  <2>1. journals' = [journals EXCEPT ![txn] = new]
    BY <1>2 DEF JournalCompleted
  <2>2. txn \in Txns => new \in Journal
    BY CompletedTyped DEF TypeOK
  <2> HIDE DEF new
  <2>3. journals' \in [Txns -> Journal]
    BY <2>1, <2>2 DEF TypeOK
  <2>4. CASE mode = "backlog"
    BY <1>2, <2>3, <2>4 DEF JournalCompleted, TypeOK
  <2>5. CASE mode # "backlog"
    BY <1>2, <2>3, <2>5, TypeRest DEF JournalCompleted, records, TypeOK
  <2>6. QED
    BY <2>4, <2>5
<1>3. QED
  BY <1>1, <1>2

LEMMA TypeStep == TypeInv /\ [Next]_vars => TypeInv'
<1> SUFFICES ASSUME TypeInv, [Next]_vars PROVE TypeInv'
  OBVIOUS
<1>1. CASE UNCHANGED vars
  BY <1>1 DEF vars, disk, records, writer, TypeInv, TypeOK, Control, Dated, Indexed
<1>2. CASE Environment
  BY <1>2, TypeEnvironment, TypeGiveUp DEF Environment
<1>3. CASE WriteSteps
  BY <1>3, TypeSelectBase, TypeCreateJournal, TypeWrite, TypeJournalStep, TypeGiveUp,
     TypeWriteManifest DEF WriteSteps
<1>4. CASE FinalizeSteps
  BY <1>4, TypeJournalStep, TypeBind, TypeGiveUp, TypeFinish DEF FinalizeSteps
<1>5. QED
  BY <1>1, <1>2, <1>3, <1>4, TypeEnter, TypeGiveUp DEF Next

\* Type correctness, and that the writer has the transaction, the commit and
\* the base it needs wherever it is.
THEOREM TypeCorrect == Spec => []TypeOK
<1>1. TypeInv => TypeOK
  BY DEF TypeInv
<1>2. QED
  BY <1>1, TypeInit, TypeStep, PTL DEF Spec

-----------------------------------------------------------------------------
(* Publication *)

\* Between the reopened store's check and the manifest, the check stays true.
Verified ==
    pc \in {"journal-verified", "check-head", "write-manifest"} =>
      job.docs \subseteq storeDocs /\ NewChunks \subseteq storeChunks

\* What the ingest is about to publish belongs to its commit, one version per
\* document, and its base is an ancestor.
Drafted ==
    pc \in {"read"} \cup BeforeManifest =>
      /\ job.base # None => job.base \in Ancestors[job.head]
      /\ \A v \in job.docs : v.id \in Docs /\ v.commit = job.head
      /\ \A v, w \in job.docs : v.id = w.id => v = w
      /\ \A c \in job.artifactChunks : c.id \in Artifacts

PublicationInv ==
    TypeInv /\ Verified /\ Drafted
    /\ PublishedReadable /\ ChunksFollowDocuments /\ SnapshotsStayOnBranch


LEMMA PublicationInit == Init => PublicationInv
  BY TypeInit DEF Init, PublicationInv, Verified, Drafted, BeforeManifest,
                  PublishedReadable, ChunksFollowDocuments, SnapshotsStayOnBranch, Indexed

\* Only WriteManifest changes a manifest, only WriteStore the store, and the
\* store only grows.
LEMMA OnlyWriters ==
  ASSUME [Next]_vars
  PROVE  /\ WriteManifest \/ UNCHANGED manifests
         /\ WriteStore \/ UNCHANGED <<storeDocs, storeChunks>>
         /\ storeDocs \subseteq storeDocs' /\ storeChunks \subseteq storeChunks'
<1> USE DEF disk, records, writer
<1>1. CASE UNCHANGED vars
  BY <1>1 DEF vars
<1>2. CASE WriteSteps
  BY <1>2 DEF WriteSteps, SelectBase, CreateJournal, WriteJournal, WriteStore,
     JournalStoreWritten, VerifyStore, StoreIncomplete, JournalStoreVerified, CheckHead,
     RepositoryChanged, WriteManifest, JournalManifestCommitted
<1>3. CASE FinalizeSteps
  BY <1>3 DEF FinalizeSteps, LoadManifest, ListArtifacts, BindArtifact, BindingConflict,
     JournalArtifacts, AppendEvent, JournalLedger, JournalCompleted
<1>4. CASE Environment
  BY <1>4 DEF Environment, MoveHead, Materialize, Review, FailStep, Crash
<1>5. QED
  BY <1>1, <1>2, <1>3, <1>4 DEF Next, ScanJournals, FinalizeBacklog, StartRepair, Abort

\* What the writer holds in memory is settled by SelectBase and CreateJournal.
LEMMA OnlyDrafters ==
  ASSUME [Next]_vars, pc' \in {"read"} \cup BeforeManifest
  PROVE  \/ SelectBase
         \/ CreateJournal
         \/ UNCHANGED job /\ pc \in {"read"} \cup BeforeManifest
<1> USE DEF disk, records, writer, Advance, BeforeManifest, Rest, FailTransaction
<1>1. CASE UNCHANGED vars
  BY <1>1 DEF vars
<1>2. CASE WriteSteps
  BY <1>2 DEF WriteSteps, SelectBase, CreateJournal, WriteJournal, WriteStore,
     JournalStoreWritten, VerifyStore, StoreIncomplete, JournalStoreVerified, CheckHead,
     RepositoryChanged, WriteManifest, JournalManifestCommitted
<1>3. CASE FinalizeSteps
  BY <1>3 DEF FinalizeSteps, LoadManifest, ListArtifacts, BindArtifact, BindingConflict,
     JournalArtifacts, AppendEvent, JournalLedger, JournalCompleted
<1>4. CASE Environment
  BY <1>4 DEF Environment, MoveHead, Materialize, Review, FailStep, Crash
<1>5. QED
  BY <1>1, <1>2, <1>3, <1>4 DEF Next, ScanJournals, FinalizeBacklog, StartRepair, Abort

LEMMA VerifiedStep ==
  ASSUME PublicationInv, [Next]_vars
  PROVE  Verified'
<1> SUFFICES ASSUME pc' \in {"journal-verified", "check-head", "write-manifest"}
             PROVE  (job.docs \subseteq storeDocs /\ NewChunks \subseteq storeChunks)'
  BY DEF Verified
<1>1. UNCHANGED job
  BY OnlyDrafters DEF BeforeManifest, SelectBase, CreateJournal, Advance
<1>2. VerifyStore \/ pc \in {"journal-verified", "check-head", "write-manifest"}
  <2> USE DEF disk, records, writer, Advance, Rest, FailTransaction
  <2>1. CASE UNCHANGED vars
    BY <2>1 DEF vars
  <2>2. CASE WriteSteps
    BY <2>2 DEF WriteSteps, SelectBase, CreateJournal, WriteJournal, WriteStore,
       JournalStoreWritten, StoreIncomplete, JournalStoreVerified, CheckHead,
       RepositoryChanged, WriteManifest, JournalManifestCommitted
  <2>3. CASE FinalizeSteps
    BY <2>3 DEF FinalizeSteps, LoadManifest, ListArtifacts, BindArtifact, BindingConflict,
       JournalArtifacts, AppendEvent, JournalLedger, JournalCompleted
  <2>4. CASE Environment
    BY <2>4 DEF Environment, MoveHead, Materialize, Review, FailStep, Crash
  <2>5. QED
    BY <2>1, <2>2, <2>3, <2>4 DEF Next, ScanJournals, FinalizeBacklog, StartRepair, Abort
<1>3. job.docs \subseteq storeDocs /\ NewChunks \subseteq storeChunks
  BY <1>2 DEF PublicationInv, Verified, VerifyStore
<1>4. QED
  BY <1>1, <1>3, OnlyWriters DEF NewChunks

LEMMA DraftedStep ==
  ASSUME PublicationInv, [Next]_vars
  PROVE  Drafted'
<1> SUFFICES ASSUME pc' \in {"read"} \cup BeforeManifest
             PROVE  /\ (job.base # None => job.base \in Ancestors[job.head])'
                    /\ (\A v \in job.docs : v.id \in Docs /\ v.commit = job.head)'
                    /\ (\A v, w \in job.docs : v.id = w.id => v = w)'
                    /\ (\A c \in job.artifactChunks : c.id \in Artifacts)'
  BY DEF Drafted
<1> USE DEF PublicationInv, TypeInv, TypeOK
<1>1. CASE SelectBase
  <2>1. PICK t \in Txns, s \in Selection(head),
             ready \in SUBSET {a \in Listed : artifacts[a].binding = "pending"},
             scope \in {"durable", "all"} :
           job' = Draft(t, s, ready, scope)
    BY <1>1 DEF SelectBase
  <2>2. head \in Heads
    BY <1>1 DEF SelectBase, Advance, Control
  <2>3. s.base # None => s.base \in Ancestors[head]
    <3>1. CASE s = FullSelection(head)
      BY <3>1 DEF FullSelection
    <3>2. CASE s \in PathSelections(head)
      BY <3>2, <2>2, HistoryAssumption DEF PathSelections, Indexed
    <3>3. CASE s \in SinceSelections(head)
      BY <3>3 DEF SinceSelections, SinceBases
    <3>4. QED
      BY <3>1, <3>2, <3>3 DEF Selection
  <2>4. \A c \in {ArtifactVersion(a, IF a \in ready THEN t ELSE artifacts[a].updatedAt) :
                    a \in Listed} : c.id \in Artifacts
    BY DEF ArtifactVersion, Listed
  <2>5. QED
    BY <2>1, <2>3, <2>4 DEF Draft
<1>2. CASE CreateJournal
  <2> DEFINE new == {[id |-> d, commit |-> job.head, content |-> Tree[head][d]] :
                       d \in {r \in job.reading : Tree[head][r] \notin Unsupported}}
  <2>1. /\ \A v \in new : v.id \in Docs /\ v.commit = job.head
        /\ \A v, w \in new : v.id = w.id => v = w
    BY DEF Job
  <2>2. job' = [job EXCEPT !.docs = new] /\ job \in Job
    BY <1>2 DEF CreateJournal
  <2> HIDE DEF new
  <2>3. job'.docs = new /\ job'.head = job.head /\ job'.base = job.base
        /\ job'.artifactChunks = job.artifactChunks
    BY <2>2 DEF Job
  <2>4. pc \in {"read"} \cup BeforeManifest
    BY <1>2 DEF CreateJournal, Advance
  <2>5. QED
    BY <2>1, <2>3, <2>4 DEF Drafted
<1>3. CASE UNCHANGED job /\ pc \in {"read"} \cup BeforeManifest
  BY <1>3 DEF Drafted
<1>4. QED
  BY <1>1, <1>2, <1>3, OnlyDrafters

\* What WriteManifest publishes: records of the store, one version of each
\* document with its chunks, all from the commit or its ancestors.
LEMMA PublishedManifest ==
  ASSUME PublicationInv, pc = "write-manifest"
  PROVE  /\ NewManifest.docs \subseteq storeDocs /\ NewManifest.chunks \subseteq storeChunks
         /\ \A v, w \in NewManifest.docs : v.id = w.id => v = w
         /\ {c \in NewManifest.chunks : c.id \in Docs} = NewManifest.docs
         /\ \A v \in NewManifest.docs : v.commit \in Ancestors[job.head]
<1> USE DEF PublicationInv
<1>1. pc \in {"read"} \cup BeforeManifest
  BY DEF BeforeManifest
<1>2. job.head \in Heads /\ (job.base = None \/ job.base \in Indexed)
  BY <1>1 DEF TypeInv, Control
<1>3. /\ Base.docs \subseteq storeDocs /\ Base.chunks \subseteq storeChunks
      /\ \A v, w \in Base.docs : v.id = w.id => v = w
      /\ {c \in Base.chunks : c.id \in Docs} = Base.docs
  BY <1>2 DEF Base, NoManifest, PublishedReadable, ChunksFollowDocuments
<1>4. \A v \in Base.docs : v.commit \in Ancestors[job.head]
  <2>1. CASE job.base = None
    BY <2>1 DEF Base, NoManifest
  <2>2. CASE job.base # None
    <3>1. job.base \in Heads /\ job.base \in Indexed /\ job.base \in Ancestors[job.head]
      BY <1>1, <1>2, <2>2 DEF Drafted, Indexed
    <3>2. Ancestors[job.base] \subseteq Ancestors[job.head]
      BY <3>1, <1>2, HistoryAssumption
    <3>3. QED
      BY <2>2, <3>1, <3>2 DEF Base, SnapshotsStayOnBranch
  <2>3. QED
    BY <2>1, <2>2
<1>5. /\ \A v \in job.docs : v.id \in Docs /\ v.commit = job.head
      /\ \A v, w \in job.docs : v.id = w.id => v = w
      /\ \A c \in job.artifactChunks : c.id \notin Docs
  BY <1>1, NameAssumption DEF Drafted
<1>6. job.docs \subseteq storeDocs /\ NewChunks \subseteq storeChunks
  BY DEF Verified
<1>7. /\ NewManifest.docs = Kept(Base.docs) \cup job.docs
      /\ NewManifest.chunks = Kept(Base.chunks) \cup NewChunks
  BY DEF NewManifest
<1>8. NewManifest.docs \subseteq storeDocs /\ NewManifest.chunks \subseteq storeChunks
  BY <1>3, <1>6, <1>7 DEF Kept
<1>9. \A v, w \in NewManifest.docs : v.id = w.id => v = w
  BY <1>3, <1>5, <1>7 DEF Kept, Replaced
<1>10. {c \in NewManifest.chunks : c.id \in Docs} = NewManifest.docs
  <2>1. {c \in Kept(Base.chunks) : c.id \in Docs} = Kept(Base.docs)
    BY <1>3 DEF Kept
  <2>2. {c \in NewChunks : c.id \in Docs} = job.docs
    BY <1>5 DEF NewChunks
  <2>3. QED
    BY <1>7, <2>1, <2>2
<1>11. \A v \in NewManifest.docs : v.commit \in Ancestors[job.head]
  BY <1>2, <1>4, <1>5, <1>7, HistoryAssumption DEF Kept
<1>12. QED
  BY <1>8, <1>9, <1>10, <1>11

LEMMA PublicationStep == PublicationInv /\ [Next]_vars => PublicationInv'
<1> SUFFICES ASSUME PublicationInv, [Next]_vars PROVE PublicationInv'
  OBVIOUS
<1>1. TypeInv' /\ Verified' /\ Drafted'
  BY TypeStep, VerifiedStep, DraftedStep DEF PublicationInv
<1>2. CASE WriteManifest
  <2>1. \A h \in Indexed' : \/ h = job.head /\ manifests'[h] = NewManifest
                            \/ h \in Indexed /\ manifests'[h] = manifests[h]
    BY <1>2 DEF WriteManifest, Indexed, PublicationInv, TypeInv, TypeOK
  <2>2. UNCHANGED <<storeDocs, storeChunks>>
    BY <1>2 DEF WriteManifest
  <2>3. (PublishedReadable /\ ChunksFollowDocuments /\ SnapshotsStayOnBranch)'
    <3> SUFFICES ASSUME NEW h \in Indexed'
                 PROVE  /\ manifests'[h].docs \subseteq storeDocs
                        /\ manifests'[h].chunks \subseteq storeChunks
                        /\ \A v, w \in manifests'[h].docs : v.id = w.id => v = w
                        /\ {c \in manifests'[h].chunks : c.id \in Docs} = manifests'[h].docs
                        /\ \A v \in manifests'[h].docs : v.commit \in Ancestors[h]
      BY <2>2 DEF PublishedReadable, ChunksFollowDocuments, SnapshotsStayOnBranch
    <3>1. CASE h = job.head /\ manifests'[h] = NewManifest
      BY <1>2, <3>1, PublishedManifest DEF WriteManifest, Advance
    <3>2. CASE h \in Indexed /\ manifests'[h] = manifests[h]
      BY <3>2 DEF PublicationInv, PublishedReadable, ChunksFollowDocuments,
                  SnapshotsStayOnBranch
    <3>3. QED
      BY <2>1, <3>1, <3>2
  <2>4. QED
    BY <1>1, <2>3 DEF PublicationInv
<1>3. CASE UNCHANGED manifests
  <2>1. (PublishedReadable /\ ChunksFollowDocuments /\ SnapshotsStayOnBranch)'
    BY <1>3, OnlyWriters DEF PublicationInv, PublishedReadable, ChunksFollowDocuments,
                             SnapshotsStayOnBranch, Indexed
  <2>2. QED
    BY <1>1, <2>1 DEF PublicationInv
<1>4. QED
  BY <1>2, <1>3, OnlyWriters

\* A snapshot is readable, whole and from its own branch in every state of
\* every run, for any history, tree, faults and order of the user's steps.
THEOREM Publications == Spec => []PublicationInv
  BY PublicationInit, PublicationStep, PTL DEF Spec

\* Whatever is lost, fails or crashes, no visible manifest names a record the
\* store does not hold.
THEOREM Readability == Spec => []PublishedReadable
<1>1. PublicationInv => PublishedReadable
  BY DEF PublicationInv
<1>2. QED
  BY <1>1, Publications, PTL

\* No snapshot holds two versions of a document or the chunks of another one.
THEOREM OneVersion == Spec => []ChunksFollowDocuments
<1>1. PublicationInv => ChunksFollowDocuments
  BY DEF PublicationInv
<1>2. QED
  BY <1>1, Publications, PTL

\* Every version in a snapshot comes from its commit or an ancestor of it.
THEOREM OnBranch == Spec => []SnapshotsStayOnBranch
<1>1. PublicationInv => SnapshotsStayOnBranch
  BY DEF PublicationInv
<1>2. QED
  BY <1>1, Publications, PTL

-----------------------------------------------------------------------------
(* Finalization *)

\* Once a snapshot exists, or a writer runs, there is a HEAD.
HeadStays == Indexed # {} \/ pc # "idle" => head \in Heads

\* Written, and not completed.
IsOpen(t) == journals[t].status \in Statuses \ {"completed"}

\* How far the journal of the running transaction is, seen from the writer.
JournalFollowsWriter ==
    /\ \A t \in Txns : journals[t].status \in {"absent", "malformed"} =>
                         journals[t].phase \in Precommit
    /\ pc = "read" => journals[txn].status = "absent"
    /\ pc = "write-journal" => journals[txn].status = "malformed"
    /\ pc \in BeforeManifest => journals[txn].phase \in Precommit
    /\ pc \in BeforeManifest \ {"write-journal"} => journals[txn].head = job.head
    /\ pc \in (WritePcs \ {"write-journal"}) \cup FinalizePcs => IsOpen(txn)
    /\ pc \in {"journal-committed"} \cup FinalizePcs => journals[txn].head \in Indexed
    /\ pc \in FinalizePcs \ {"load-manifest"} => journals[txn].phase \notin Precommit

BacklogIsOpen ==
    /\ \A t \in todo : IsOpen(t) /\ journals[t].head \in Indexed
    /\ mode = "backlog" => pc \in FinalizePcs /\ txn \notin todo
    /\ mode # "backlog" /\ pc # "backlog" => todo = {}

CommitInv == TypeInv /\ HeadStays /\ JournalFollowsWriter /\ BacklogIsOpen

LEMMA CommitInit == Init => CommitInv
  BY TypeInit DEF Init, CommitInv, HeadStays, JournalFollowsWriter, BacklogIsOpen, IsOpen, Indexed,
                  NoJournal, Precommit, BeforeManifest, WritePcs, FinalizePcs

\* A commit keeps its manifest, or gets another.
LEMMA IndexedGrows ==
  ASSUME TypeInv, [Next]_vars
  PROVE  Indexed \subseteq Indexed' /\ (UNCHANGED manifests \/ pc # "idle")
<1>1. CASE WriteManifest
  <2>1. NewManifest # None
    BY <1>1, ManifestTyped, ManifestAssumption DEF WriteManifest, Advance, BeforeManifest
  <2>2. QED
    BY <1>1, <2>1 DEF WriteManifest, Advance, Indexed, TypeInv, TypeOK
<1>2. CASE UNCHANGED manifests
  BY <1>2 DEF Indexed
<1>3. QED
  BY <1>1, <1>2, OnlyWriters

LEMMA HeadStep ==
  ASSUME CommitInv, [Next]_vars
  PROVE  HeadStays'
<1> USE DEF CommitInv, disk, records, writer
<1>1. head \in Heads => head' \in Heads
  <2>1. MoveHead \/ UNCHANGED head
    <3>1. CASE WriteSteps
      BY <3>1 DEF WriteSteps, SelectBase, CreateJournal, WriteJournal, WriteStore,
         JournalStoreWritten, VerifyStore, StoreIncomplete, JournalStoreVerified, CheckHead,
         RepositoryChanged, WriteManifest, JournalManifestCommitted
    <3>2. CASE FinalizeSteps
      BY <3>2 DEF FinalizeSteps, LoadManifest, ListArtifacts, BindArtifact, BindingConflict,
         JournalArtifacts, AppendEvent, JournalLedger, JournalCompleted
    <3>3. QED
      BY <3>1, <3>2 DEF vars, Next, ScanJournals, FinalizeBacklog, StartRepair, Abort,
         Environment, Materialize, Review, FailStep, Crash
  <2>2. QED
    BY <2>1 DEF MoveHead
<1>2. CASE Indexed # {} \/ pc # "idle"
  BY <1>1, <1>2 DEF HeadStays
<1>3. CASE Indexed = {} /\ pc = "idle"
  <2>1. Indexed' = {}
    BY <1>3, IndexedGrows DEF Indexed
  <2>2. ~ \E t \in Txns : StartRepair(t)
    BY <1>3 DEF StartRepair, Pending, Class
  <2>3. CASE ScanJournals
    BY <2>3, <1>1 DEF HeadStays, ScanJournals, TypeInv, TypeOK
  <2>4. CASE ~ ScanJournals
    <3>1. UNCHANGED pc
      BY <2>2, <2>4, <1>3 DEF vars, Next, FinalizeBacklog, Abort, Environment, MoveHead,
         Materialize, Review, FailStep, Crash, WriteSteps, FinalizeSteps, SelectBase,
         CreateJournal, WriteJournal, WriteStore, JournalStoreWritten, VerifyStore,
         StoreIncomplete, JournalStoreVerified, CheckHead, RepositoryChanged, WriteManifest,
         JournalManifestCommitted, LoadManifest, ListArtifacts, BindArtifact, BindingConflict,
         JournalArtifacts, AppendEvent, JournalLedger, JournalCompleted, Advance,
         WritePcs, FinalizePcs
    <3>2. QED
      BY <1>3, <2>1, <3>1 DEF HeadStays
  <2>5. QED
    BY <2>3, <2>4
<1>4. QED
  BY <1>2, <1>3

\* Giving the lock up keeps the journals, but for the status of a transaction
\* that is neither absent nor malformed nor completed.
LEMMA CommitRest ==
  ASSUME CommitInv, [Next]_vars, Rest,
         \A t \in Txns :
           /\ journals'[t].phase = journals[t].phase
           /\ journals'[t].status = journals[t].status \/ journals'[t].status \in Statuses
  PROVE  JournalFollowsWriter' /\ BacklogIsOpen'
<1>1. todo' = {} /\ mode' = "own" /\ pc' = "idle"
  BY DEF Rest
<1>2. \A t \in Txns : journals'[t].status \in {"absent", "malformed"} =>
                        journals'[t].phase \in Precommit
  BY DEF CommitInv, JournalFollowsWriter, Statuses
<1>3. QED
  BY <1>1, <1>2 DEF JournalFollowsWriter, BacklogIsOpen, BeforeManifest, WritePcs, FinalizePcs

LEMMA CommitGiveUp ==
  ASSUME CommitInv, [Next]_vars,
         Abort \/ FailStep \/ Crash \/ StoreIncomplete \/ RepositoryChanged
         \/ \E a \in Artifacts : BindingConflict(a)
  PROVE  JournalFollowsWriter' /\ BacklogIsOpen'
<1>1. Rest /\ (FailTransaction \/ UNCHANGED journals)
  BY DEF Abort, FailStep, Crash, StoreIncomplete, RepositoryChanged, BindingConflict,
         FailTransaction, disk
<1>2. CASE UNCHANGED journals
  BY <1>1, <1>2, CommitRest
<1>3. CASE FailTransaction
  <2>1. FailedStatus(journals[txn].phase) \in Statuses
    BY DEF FailedStatus, Statuses
  <2>2. \A t \in Txns :
           /\ journals'[t].phase = journals[t].phase
           /\ journals'[t].status = journals[t].status \/ journals'[t].status \in Statuses
    BY <1>3, <2>1 DEF FailTransaction, CommitInv, TypeInv, TypeOK, Journal
  <2>3. QED
    BY <1>1, <2>2, CommitRest
<1>4. QED
  BY <1>1, <1>2, <1>3

\* A step that writes the journal of the running transaction only, and says
\* where the writer and that journal are afterwards.
LEMMA CommitWriterStep ==
  ASSUME CommitInv, [Next]_vars, txn \in Txns, UNCHANGED <<txn, todo, mode>>,
         \A t \in Txns \ {txn} : journals'[t] = journals[t],
         pc' \in (WritePcs \ {"write-journal"}) \cup FinalizePcs,
         pc # "backlog", pc \in FinalizePcs => pc' \in FinalizePcs,
         IsOpen(txn)',
         pc' \in BeforeManifest => journals'[txn].phase \in Precommit,
         pc' \in BeforeManifest => journals'[txn].head = job'.head,
         pc' \in {"journal-committed"} \cup FinalizePcs => journals'[txn].head \in Indexed',
         pc' \in FinalizePcs \ {"load-manifest"} => journals'[txn].phase \notin Precommit
  PROVE  JournalFollowsWriter' /\ BacklogIsOpen'
<1> USE DEF CommitInv, JournalFollowsWriter, BacklogIsOpen, IsOpen
<1>1. \A t \in Txns : journals'[t].status \in {"absent", "malformed"} =>
                        journals'[t].phase \in Precommit
  BY DEF Statuses
<1>2. \A t \in todo : IsOpen(t)' /\ journals'[t].head \in Indexed'
  <2>1. Indexed \subseteq Indexed'
    BY IndexedGrows
  <2>2. todo \subseteq Txns /\ txn \notin todo
    BY DEF TypeInv, TypeOK
  <2>3. QED
    BY <2>1, <2>2
<1>3. JournalFollowsWriter'
  BY <1>1 DEF Statuses, WritePcs, FinalizePcs, BeforeManifest
<1>4. QED
  BY <1>2, <1>3

LEMMA CommitJournalStep ==
  ASSUME CommitInv, [Next]_vars,
         JournalStoreWritten \/ JournalStoreVerified \/ JournalManifestCommitted
         \/ JournalArtifacts \/ JournalLedger \/ LoadManifest
  PROVE  JournalFollowsWriter' /\ BacklogIsOpen'
<1> USE DEF CommitInv, Advance
<1>1. pc \in (WritePcs \ {"write-journal"}) \cup FinalizePcs /\ txn \in Txns
  BY DEF JournalStoreWritten, JournalStoreVerified, JournalManifestCommitted, JournalArtifacts,
         JournalLedger, LoadManifest, WritePcs, FinalizePcs, TypeInv, Control
<1>2. IsOpen(txn) /\ journals[txn] \in Journal
  BY <1>1 DEF JournalFollowsWriter, TypeInv, TypeOK
<1>3. UNCHANGED <<manifests, job, txn, todo, mode>>
  BY DEF JournalStoreWritten, JournalStoreVerified, JournalManifestCommitted, JournalArtifacts,
         JournalLedger, LoadManifest
<1>4. \/ JournalStoreWritten /\ pc' = "verify" /\ SetPhase("store-written")
      \/ JournalStoreVerified /\ pc' = "check-head" /\ SetPhase("store-verified")
      \/ JournalManifestCommitted /\ pc' = "load-manifest" /\ SetPhase("manifest-committed")
      \/ JournalArtifacts /\ pc' = "append-event" /\ SetPhase("artifacts-finalized")
      \/ JournalLedger /\ pc' = "journal-completed" /\ SetPhase("ledger-finalized")
      \/ LoadManifest /\ pc' = "list-artifacts" /\ SetPhase("manifest-committed")
      \/ LoadManifest /\ pc' = "list-artifacts" /\ UNCHANGED journals
           /\ journals[txn].phase \notin Precommit
  BY DEF JournalStoreWritten, JournalStoreVerified, JournalManifestCommitted, JournalArtifacts,
         JournalLedger, LoadManifest
<1>5. /\ \A t \in Txns \ {txn} : journals'[t] = journals[t]
      /\ journals'[txn].status = journals[txn].status
      /\ journals'[txn].head = journals[txn].head
  BY <1>1, <1>2, <1>4 DEF SetPhase, TypeInv, TypeOK, Journal
<1>6. \/ pc' \in {"verify", "check-head"} /\ journals'[txn].phase \in Precommit
      \/ pc' = "load-manifest"
      \/ pc' \in FinalizePcs \ {"load-manifest"} /\ journals'[txn].phase \notin Precommit
  BY <1>1, <1>2, <1>4 DEF SetPhase, TypeInv, TypeOK, Journal, Precommit, FinalizePcs
<1>7. pc' \in BeforeManifest => journals[txn].head = job.head
  BY <1>4 DEF JournalFollowsWriter, JournalStoreWritten, JournalStoreVerified, BeforeManifest
<1>8. pc' \in FinalizePcs => journals[txn].head \in Indexed
  BY <1>1, <1>4 DEF JournalFollowsWriter, JournalStoreWritten, JournalStoreVerified,
         JournalManifestCommitted, JournalArtifacts, JournalLedger, LoadManifest, FinalizePcs
<1>9. IsOpen(txn)' /\ Indexed' = Indexed /\ (pc \in FinalizePcs => pc' \in FinalizePcs)
  BY <1>2, <1>3, <1>4, <1>5 DEF IsOpen, Indexed, JournalStoreWritten, JournalStoreVerified,
         JournalManifestCommitted, JournalArtifacts, JournalLedger, LoadManifest, FinalizePcs
<1>10. QED
  BY <1>1, <1>3, <1>5, <1>6, <1>7, <1>8, <1>9, CommitWriterStep
     DEF BeforeManifest, WritePcs, FinalizePcs

LEMMA CommitWrite ==
  ASSUME CommitInv, [Next]_vars,
         WriteStore \/ VerifyStore \/ CheckHead \/ WriteManifest
         \/ ListArtifacts \/ AppendEvent \/ \E a \in Artifacts : BindArtifact(a)
  PROVE  JournalFollowsWriter' /\ BacklogIsOpen'
<1> USE DEF CommitInv, Advance, disk
<1>1. pc \in (WritePcs \ {"write-journal"}) \cup FinalizePcs /\ txn \in Txns /\ IsOpen(txn)
  BY DEF WriteStore, VerifyStore, CheckHead, WriteManifest, ListArtifacts, AppendEvent,
         BindArtifact, WritePcs, FinalizePcs, TypeInv, Control, JournalFollowsWriter
<1>2. UNCHANGED <<journals, txn, todo, mode>>
  BY DEF WriteStore, VerifyStore, CheckHead, WriteManifest, ListArtifacts, AppendEvent, BindArtifact
<1>3. IsOpen(txn)'
  BY <1>1, <1>2 DEF IsOpen
<1>4. CASE WriteStore \/ VerifyStore \/ CheckHead
  <2>1. UNCHANGED job /\ pc \in BeforeManifest \ {"write-journal"}
        /\ pc' \in BeforeManifest \ {"write-journal"}
    BY <1>4 DEF WriteStore, VerifyStore, CheckHead, BeforeManifest
  <2>2. journals[txn].phase \in Precommit /\ journals[txn].head = job.head
    BY <2>1 DEF JournalFollowsWriter, BeforeManifest
  <2>3. QED
    BY <1>1, <1>2, <1>3, <2>1, <2>2, CommitWriterStep DEF BeforeManifest, WritePcs, FinalizePcs
<1>5. CASE WriteManifest
  <2>1. journals[txn].head = job.head /\ job.head \in Heads
        /\ pc = "write-manifest" /\ pc' = "journal-committed"
    BY <1>5 DEF WriteManifest, JournalFollowsWriter, TypeInv, Control, BeforeManifest
  <2>2. job.head \in Indexed'
    BY <1>5, <2>1, ManifestTyped, ManifestAssumption
       DEF WriteManifest, Indexed, TypeInv, TypeOK, BeforeManifest
  <2>3. QED
    BY <1>1, <1>2, <1>3, <2>1, <2>2, CommitWriterStep DEF BeforeManifest, WritePcs, FinalizePcs
<1>6. CASE ListArtifacts \/ AppendEvent \/ \E a \in Artifacts : BindArtifact(a)
  <2>1. /\ pc \in FinalizePcs \ {"load-manifest"} /\ pc' \in FinalizePcs \ {"load-manifest"}
        /\ UNCHANGED manifests
    BY <1>6 DEF ListArtifacts, AppendEvent, BindArtifact, FinalizePcs
  <2>2. journals[txn].head \in Indexed' /\ journals[txn].phase \notin Precommit
    BY <2>1 DEF JournalFollowsWriter, Indexed
  <2>3. QED
    BY <1>1, <1>2, <1>3, <2>1, <2>2, CommitWriterStep DEF BeforeManifest, WritePcs, FinalizePcs
<1>7. QED
  BY <1>4, <1>5, <1>6

LEMMA CommitBegin ==
  ASSUME CommitInv, [Next]_vars, SelectBase \/ CreateJournal \/ WriteJournal
  PROVE  JournalFollowsWriter' /\ BacklogIsOpen'
<1> USE DEF CommitInv, Advance, disk, BacklogIsOpen
<1>1. CASE SelectBase
  <2>1. UNCHANGED <<journals, todo, mode>> /\ journals[txn'].status = "absent" /\ pc' = "read"
        /\ pc = "select" /\ UNCHANGED manifests
    BY <1>1 DEF SelectBase
  <2>2. txn' \notin todo
    BY <2>1 DEF IsOpen, Statuses
  <2>3. QED
    BY <2>1, <2>2 DEF JournalFollowsWriter, IsOpen, Indexed, BeforeManifest, WritePcs, FinalizePcs
<1>2. CASE CreateJournal
  <2>1. UNCHANGED <<todo, mode, txn, manifests>> /\ pc = "read" /\ pc' = "write-journal" /\ txn \in Txns
        /\ journals' = [journals EXCEPT ![txn].status = "malformed"]
    BY <1>2 DEF CreateJournal, TypeInv, Control
  <2>2. /\ \A t \in Txns \ {txn} : journals'[t] = journals[t]
        /\ journals'[txn].status = "malformed" /\ journals'[txn].phase = journals[txn].phase
    BY <2>1 DEF TypeInv, TypeOK, Journal
  <2>3. journals[txn].status = "absent" /\ journals[txn].phase \in Precommit
    BY <2>1 DEF JournalFollowsWriter
  <2>4. todo \subseteq Txns /\ txn \notin todo
    BY <2>3 DEF IsOpen, Statuses, TypeInv, TypeOK
  <2>5. \A t \in Txns : journals'[t].status \in {"absent", "malformed"} =>
                          journals'[t].phase \in Precommit
    BY <2>2, <2>3 DEF JournalFollowsWriter
  <2>6. JournalFollowsWriter'
    BY <2>1, <2>2, <2>3, <2>5 DEF JournalFollowsWriter, BeforeManifest, WritePcs, FinalizePcs
  <2>7. QED
    BY <2>1, <2>2, <2>4, <2>6 DEF IsOpen, Indexed, FinalizePcs
<1>3. CASE WriteJournal
  <2>1. UNCHANGED <<todo, mode, txn, job>> /\ pc = "write-journal" /\ pc' = "write-store"
        /\ txn \in Txns
    BY <1>3 DEF WriteJournal, TypeInv, Control, WritePcs
  <2>2. /\ \A t \in Txns \ {txn} : journals'[t] = journals[t]
        /\ journals'[txn].status = "in-progress" /\ journals'[txn].phase = "prepared"
        /\ journals'[txn].head = job.head
    BY <1>3, <2>1 DEF WriteJournal, TypeInv, TypeOK
  <2>3. QED
    BY <2>1, <2>2, CommitWriterStep
       DEF BeforeManifest, WritePcs, FinalizePcs, IsOpen, Statuses, Precommit
<1>4. QED
  BY <1>1, <1>2, <1>3

LEMMA CommitEnter ==
  ASSUME CommitInv, [Next]_vars,
         ScanJournals \/ \E t \in Txns : FinalizeBacklog(t) \/ StartRepair(t)
  PROVE  JournalFollowsWriter' /\ BacklogIsOpen'
<1> USE DEF CommitInv, Advance, disk, BacklogIsOpen
<1>0. \A t \in Pending : t \in Txns /\ IsOpen(t) /\ journals[t].head \in Indexed
  BY DEF Pending, Class, IsOpen
<1>1. CASE ScanJournals
  <2>1. UNCHANGED journals /\ todo' = Pending /\ pc' \in {"select", "backlog"}
    BY <1>1 DEF ScanJournals
  <2>2. JournalFollowsWriter'
    BY <2>1 DEF JournalFollowsWriter, BeforeManifest, WritePcs, FinalizePcs
  <2>3. \A t \in todo' : IsOpen(t)' /\ journals'[t].head \in Indexed'
    BY <1>0, <1>1, <2>1 DEF ScanJournals, IsOpen, Indexed
  <2>4. mode' # "backlog" /\ (pc' # "backlog" => todo' = {})
    BY <1>1 DEF ScanJournals, FinalizePcs
  <2>5. QED
    BY <2>2, <2>3, <2>4
<1>2. ASSUME NEW t \in Txns, FinalizeBacklog(t) PROVE JournalFollowsWriter' /\ BacklogIsOpen'
  <2>1. /\ UNCHANGED <<journals, manifests>> /\ todo' = todo \ {t} /\ txn' = t
        /\ mode' = "backlog" /\ pc' = "load-manifest" /\ t \in todo
    BY <1>2 DEF FinalizeBacklog
  <2>2. IsOpen(t) /\ journals[t].head \in Indexed
    BY <2>1
  <2>3. JournalFollowsWriter'
    BY <2>1, <2>2 DEF JournalFollowsWriter, IsOpen, Indexed, BeforeManifest, WritePcs, FinalizePcs
  <2>4. QED
    BY <2>1, <2>3 DEF IsOpen, Indexed, FinalizePcs
<1>3. ASSUME NEW t \in Txns, StartRepair(t) PROVE JournalFollowsWriter' /\ BacklogIsOpen'
  <2>1. /\ UNCHANGED <<journals, manifests, todo>> /\ txn' = t /\ mode' = "repair"
        /\ pc = "idle" /\ pc' = "load-manifest" /\ t \in Pending
    BY <1>3 DEF StartRepair
  <2>2. JournalFollowsWriter'
    BY <1>0, <2>1 DEF JournalFollowsWriter, IsOpen, Indexed, BeforeManifest, WritePcs, FinalizePcs
  <2>3. QED
    BY <2>1, <2>2 DEF IsOpen, Indexed, FinalizePcs
<1>4. QED
  BY <1>1, <1>2, <1>3

LEMMA CommitCompleted ==
  ASSUME CommitInv, JournalCompleted
  PROVE  JournalFollowsWriter' /\ BacklogIsOpen'
<1> USE DEF CommitInv
<1>1. txn \in Txns /\ pc \in FinalizePcs
  BY DEF JournalCompleted, FinalizePcs, TypeInv, Control
<1>2. /\ \A t \in Txns \ {txn} : journals'[t] = journals[t]
      /\ journals'[txn].status = "completed"
  BY <1>1 DEF JournalCompleted, TypeInv, TypeOK, Journal
<1>3. \A t \in Txns : journals'[t].status \in {"absent", "malformed"} =>
                        journals'[t].phase \in Precommit
  BY <1>2 DEF JournalFollowsWriter
<1>4. pc' \in {"idle", "select", "backlog"} /\ mode' = "own" /\ todo' \subseteq todo \ {txn}
      /\ (pc' # "backlog" => todo' = {})
  BY DEF JournalCompleted, Rest, BacklogIsOpen
<1>5. \A t \in todo' : IsOpen(t)' /\ journals'[t].head \in Indexed'
  BY <1>2, <1>4 DEF JournalCompleted, BacklogIsOpen, IsOpen, Indexed, TypeInv, TypeOK
<1>6. QED
  BY <1>3, <1>4, <1>5 DEF JournalFollowsWriter, BacklogIsOpen, BeforeManifest, WritePcs, FinalizePcs

LEMMA CommitStep == CommitInv /\ [Next]_vars => CommitInv'
<1> SUFFICES ASSUME CommitInv, [Next]_vars PROVE JournalFollowsWriter' /\ BacklogIsOpen'
  BY TypeStep, HeadStep DEF CommitInv
<1>1. ASSUME UNCHANGED <<disk, writer>> PROVE JournalFollowsWriter' /\ BacklogIsOpen'
  BY <1>1 DEF disk, writer, CommitInv, JournalFollowsWriter, BacklogIsOpen, IsOpen, Indexed
<1>2. CASE WriteSteps
  BY <1>2, CommitBegin, CommitWrite, CommitJournalStep, CommitGiveUp DEF WriteSteps
<1>3. CASE FinalizeSteps
  BY <1>3, CommitWrite, CommitJournalStep, CommitGiveUp, CommitCompleted DEF FinalizeSteps
<1>4. CASE Environment
  BY <1>1, <1>4, CommitGiveUp DEF Environment, MoveHead, Materialize, Review
<1>5. QED
  BY <1>1, <1>2, <1>3, <1>4, CommitEnter, CommitGiveUp DEF Next, vars

\* What the finalization theorems rest on: where each journal is while the
\* writer is anywhere, whoever crashed, failed or repaired before.
THEOREM Commits == Spec => []CommitInv
  BY CommitInit, CommitStep, PTL DEF Spec

-----------------------------------------------------------------------------
(* Finalization *)

\* Which journal a step may write, and when.
LEMMA JournalSteps ==
  ASSUME CommitInv, [Next]_vars
  PROVE  \/ UNCHANGED journals
         \/ txn \in Txns /\ CreateJournal
         \/ txn \in Txns /\ WriteJournal
         \/ /\ txn \in Txns /\ pc \in (WritePcs \ {"write-journal"}) \cup FinalizePcs
            /\ \/ JournalCompleted
               \/ FailTransaction
               \/ JournalStoreWritten \/ JournalStoreVerified \/ JournalManifestCommitted
               \/ JournalArtifacts \/ JournalLedger \/ LoadManifest
<1> USE DEF disk, records, writer, Advance, WritePcs, FinalizePcs
<1>1. pc \in {"read"} \cup WritePcs \cup FinalizePcs => txn \in Txns
  BY DEF CommitInv, TypeInv, Control
<1>2. CASE WriteSteps
  BY <1>1, <1>2 DEF WriteSteps, SelectBase, CreateJournal, WriteJournal, WriteStore,
     JournalStoreWritten, VerifyStore, StoreIncomplete, JournalStoreVerified, CheckHead,
     RepositoryChanged, WriteManifest, JournalManifestCommitted
<1>3. CASE FinalizeSteps
  BY <1>1, <1>3 DEF FinalizeSteps, LoadManifest, ListArtifacts, BindArtifact, BindingConflict,
     JournalArtifacts, AppendEvent, JournalLedger, JournalCompleted
<1>4. CASE Environment
  BY <1>1, <1>4 DEF Environment, MoveHead, Materialize, Review, FailStep, Crash
<1>5. QED
  BY <1>2, <1>3, <1>4 DEF Next, vars, ScanJournals, FinalizeBacklog, StartRepair, Abort

\* A step leaves a journal alone, creates it, or moves an open one on: the
\* commit, the records and the plan stay, and the phase does not fall back.
Created(t) ==
    /\ pc \in {"read", "write-journal"}
    /\ journals[t].status \in {"absent", "malformed"}
    /\ journals[t].phase \in Precommit
    /\ journals'[t].phase \in Precommit
    /\ journals'[t].status \in {"malformed", "in-progress"}
Moved(t) ==
    /\ IsOpen(t)
    /\ journals'[t].head = journals[t].head
    /\ journals'[t].docs = journals[t].docs
    /\ journals'[t].chunks = journals[t].chunks
    /\ journals'[t].planned = journals[t].planned
    /\ journals'[t].status \in Statuses
    /\ journals'[t].status = "completed" => JournalCompleted
    /\ journals[t].phase \notin Precommit => journals'[t].phase \notin Precommit

LEMMA JournalEffect ==
  ASSUME CommitInv, [Next]_vars, NEW t \in Txns
  PROVE  journals'[t] = journals[t] \/ (t = txn /\ (Created(t) \/ Moved(t)))
<1> USE DEF CommitInv, Advance
<1>0. journals \in [Txns -> Journal]
  BY DEF TypeInv, TypeOK
<1>1. CASE UNCHANGED journals
  BY <1>1
<1>2. CASE txn \in Txns /\ CreateJournal
  <2>1. pc = "read" /\ journals' = [journals EXCEPT ![txn].status = "malformed"]
    BY <1>2 DEF CreateJournal
  <2>2. journals[txn].status = "absent" /\ journals[txn].phase \in Precommit
    BY <1>2, <2>1 DEF JournalFollowsWriter
  <2>3. QED
    BY <1>0, <1>2, <2>1, <2>2 DEF Created, Journal
<1>3. CASE txn \in Txns /\ WriteJournal
  <2>1. pc = "write-journal"
    BY <1>3 DEF WriteJournal
  <2>2. journals[txn].status = "malformed" /\ journals[txn].phase \in Precommit
    BY <1>3, <2>1 DEF JournalFollowsWriter
  <2>3. /\ \A u \in Txns \ {txn} : journals'[u] = journals[u]
        /\ journals'[txn].status = "in-progress" /\ journals'[txn].phase = "prepared"
    BY <1>0, <1>3 DEF WriteJournal
  <2>4. QED
    BY <2>1, <2>2, <2>3 DEF Created, Precommit
<1>4. CASE /\ txn \in Txns /\ pc \in (WritePcs \ {"write-journal"}) \cup FinalizePcs
           /\ JournalCompleted
  <2>1. IsOpen(txn)
    BY <1>4 DEF JournalFollowsWriter
  <2>2. journals' = [journals EXCEPT ![txn] = [@ EXCEPT !.status = "completed", !.phase = "completed"]]
    BY <1>4 DEF JournalCompleted
  <2>3. "completed" \notin Precommit /\ "completed" \in Statuses
    BY DEF Precommit, Statuses
  <2>4. QED
    BY <1>0, <1>4, <2>1, <2>2, <2>3 DEF Moved, Journal
<1>5. CASE /\ txn \in Txns /\ pc \in (WritePcs \ {"write-journal"}) \cup FinalizePcs
           /\ FailTransaction
  <2>1. IsOpen(txn)
    BY <1>5 DEF JournalFollowsWriter
  <2>2. journals' = [journals EXCEPT ![txn].status = FailedStatus(journals[txn].phase)]
    BY <1>5 DEF FailTransaction
  <2>3. FailedStatus(journals[txn].phase) \in Statuses \ {"completed"}
    BY DEF FailedStatus, Statuses
  <2>4. QED
    BY <1>0, <1>5, <2>1, <2>2, <2>3 DEF Moved, Journal
<1>6. CASE /\ txn \in Txns /\ pc \in (WritePcs \ {"write-journal"}) \cup FinalizePcs
           /\ \/ JournalStoreWritten \/ JournalStoreVerified \/ JournalManifestCommitted
              \/ JournalArtifacts \/ JournalLedger \/ LoadManifest
  <2>1. IsOpen(txn)
    BY <1>6 DEF JournalFollowsWriter
  <2>2. \/ SetPhase("manifest-committed") \/ SetPhase("artifacts-finalized")
        \/ SetPhase("ledger-finalized") \/ UNCHANGED journals
        \/ /\ pc \in BeforeManifest
           /\ SetPhase("store-written") \/ SetPhase("store-verified")
    BY <1>6 DEF JournalStoreWritten, JournalStoreVerified, JournalManifestCommitted,
                JournalArtifacts, JournalLedger, LoadManifest, BeforeManifest
  <2>3. pc \in BeforeManifest => journals[txn].phase \in Precommit
    BY DEF JournalFollowsWriter
  <2>4. PICK phase \in Phases :
          /\ journals' \in {journals, [journals EXCEPT ![txn].phase = phase]}
          /\ journals[txn].phase \notin Precommit => phase \notin Precommit
    BY <2>2, <2>3 DEF SetPhase, Phases, Precommit
  <2>5. journals[t].status # "completed" \/ t # txn
    BY <2>1 DEF IsOpen
  <2>6. QED
    BY <1>0, <1>6, <2>1, <2>4 DEF Moved, Journal, IsOpen
<1>7. QED
  BY <1>1, <1>2, <1>3, <1>4, <1>5, <1>6, JournalSteps

\* No step takes a transaction back before its commit point, and none touches
\* a completed one: crashes, failures, backlog runs and repairs included.
THEOREM CommitPoint == Spec => CommitPointIsFinal
<1>1. CommitInv /\ [Next]_vars =>
        [\A t \in Txns :
           /\ journals[t].phase \notin Precommit => journals'[t].phase \notin Precommit
           /\ journals[t].status = "completed" => journals'[t] = journals[t]]_vars
  <2> SUFFICES ASSUME CommitInv, [Next]_vars, NEW t \in Txns
               PROVE  /\ journals[t].phase \notin Precommit => journals'[t].phase \notin Precommit
                      /\ journals[t].status = "completed" => journals'[t] = journals[t]
    OBVIOUS
  <2>1. QED
    BY JournalEffect DEF Created, Moved, IsOpen
<1>2. QED
  BY <1>1, Commits, PTL DEF Spec, CommitPointIsFinal

-----------------------------------------------------------------------------
(* Binding and the event *)

IsBound(a) == artifacts[a].binding = "bound"

\* The planned artifacts are bound one by one, and all of them before the event.
BindingProceeds ==
    /\ pc = "bind" =>
         /\ \A p \in journals[txn].planned : p.artifact \in DOMAIN seen \/ IsBound(p.artifact)
         /\ \A a \in DOMAIN seen : seen[a].binding = "bound" => IsBound(a)
    /\ pc \in {"append-event", "journal-ledger", "journal-completed"} =>
         \A p \in journals[txn].planned : IsBound(p.artifact)
    /\ pc \in {"journal-ledger", "journal-completed"} => ledger[txn] = 1

FinalizationInv == CommitInv /\ BindingProceeds /\ AnnouncedIsFinal /\ BindingAfterPublication

LEMMA FinalizationInit == Init => FinalizationInv
<1> SUFFICES ASSUME Init PROVE BindingProceeds /\ AnnouncedIsFinal /\ BindingAfterPublication
  BY CommitInit DEF FinalizationInv
<1>1. BindingProceeds
  BY DEF Init, BindingProceeds
<1>2. AnnouncedIsFinal
  BY DEF Init, AnnouncedIsFinal, NoJournal
<1>3. \A a \in Artifacts : artifacts[a].updatedAt = None
  BY DEF Init, NoArtifact
<1>4. None \notin Txns
  BY NoneAssumption
<1>5. QED
  BY <1>1, <1>2, <1>3, <1>4 DEF BindingAfterPublication

\* The actions that write artifacts, and those that write the ledger.
LEMMA RecordSteps ==
  ASSUME [Next]_vars
  PROVE  /\ \/ UNCHANGED artifacts
            \/ \E a \in Artifacts : Materialize(a) \/ Review(a) \/ BindArtifact(a)
         /\ UNCHANGED ledger \/ AppendEvent
<1> USE DEF disk, records, writer
<1>1. CASE WriteSteps
  BY <1>1 DEF WriteSteps, SelectBase, CreateJournal, WriteJournal, WriteStore,
     JournalStoreWritten, VerifyStore, StoreIncomplete, JournalStoreVerified, CheckHead,
     RepositoryChanged, WriteManifest, JournalManifestCommitted
<1>2. CASE FinalizeSteps
  BY <1>2 DEF FinalizeSteps, LoadManifest, ListArtifacts, BindArtifact, BindingConflict,
     JournalArtifacts, AppendEvent, JournalLedger, JournalCompleted
<1>3. CASE Environment
  BY <1>3 DEF Environment, MoveHead, Materialize, Review, FailStep, Crash
<1>4. QED
  BY <1>1, <1>2, <1>3 DEF Next, vars, ScanJournals, FinalizeBacklog, StartRepair, Abort

\* What BindArtifact writes, whatever happened to the record since it was listed.
LEMMA BindArtifactEffect ==
  ASSUME CommitInv, NEW a \in Artifacts, BindArtifact(a)
  PROVE  /\ \A b \in Artifacts \ {a} : artifacts'[b] = artifacts[b]
         /\ \/ seen[a].binding = "bound" /\ UNCHANGED artifacts
            \/ /\ IsBound(a)'
               /\ artifacts'[a].head = journals[txn].head
               /\ artifacts'[a].updatedAt = txn
<1> DEFINE new == [seen[a] EXCEPT !.binding = "bound", !.head = journals[txn].head,
                                  !.updatedAt = txn]
<1>1. seen[a] \in Artifact /\ artifacts \in [Artifacts -> Artifact]
  BY DEF BindArtifact, CommitInv, TypeInv, TypeOK
<1>2. new.binding = "bound" /\ new.head = journals[txn].head /\ new.updatedAt = txn
  BY <1>1 DEF Artifact
<1>3. artifacts' = IF seen[a].binding = "pending" THEN [artifacts EXCEPT ![a] = new] ELSE artifacts
  BY DEF BindArtifact
<1>4. seen[a].binding \in {"pending", "bound"}
  BY <1>1 DEF Artifact
<1> HIDE DEF new
<1>5. QED
  BY <1>1, <1>2, <1>3, <1>4 DEF IsBound

\* While there is a HEAD, a bound artifact stays bound.
LEMMA BoundStays ==
  ASSUME CommitInv, [Next]_vars, head \in Heads, NEW a \in Artifacts, IsBound(a)
  PROVE  IsBound(a)'
<1>0. artifacts \in [Artifacts -> Artifact] /\ head # None
  BY NoneAssumption DEF CommitInv, TypeInv, TypeOK
<1>1. CASE UNCHANGED artifacts
  BY <1>1 DEF IsBound
<1>2. ASSUME NEW b \in Artifacts, Materialize(b) PROVE IsBound(a)'
  BY <1>0, <1>2 DEF Materialize, IsBound
<1>3. ASSUME NEW b \in Artifacts, Review(b) PROVE IsBound(a)'
  <2>1. PICK next : artifacts' = [artifacts EXCEPT ![b].status = next, ![b].updatedAt = edits + 1]
    BY <1>3 DEF Review
  <2>2. QED
    BY <1>0, <2>1 DEF IsBound, Artifact
<1>4. ASSUME NEW b \in Artifacts, BindArtifact(b) PROVE IsBound(a)'
  BY <1>4, BindArtifactEffect DEF IsBound
<1>5. QED
  BY <1>1, <1>2, <1>3, <1>4, RecordSteps

\* Only BindArtifact puts a transaction's stamp on an artifact.
LEMMA StampSteps ==
  ASSUME CommitInv, [Next]_vars, NEW a \in Artifacts, artifacts'[a].updatedAt \in Txns
  PROVE  artifacts'[a] = artifacts[a] \/ BindArtifact(a)
<1>0. artifacts \in [Artifacts -> Artifact] /\ edits \in 0..MaxEdits
  BY DEF CommitInv, TypeInv, TypeOK
<1>1. ASSUME NEW b \in Artifacts, Materialize(b) PROVE artifacts'[a] = artifacts[a]
  <2>1. edits + 1 \notin Txns
    BY <1>0, <1>1, BoundAssumption, StampAssumption DEF Materialize, Edits
  <2>2. QED
    BY <1>0, <1>1, <2>1 DEF Materialize
<1>2. ASSUME NEW b \in Artifacts, Review(b) PROVE artifacts'[a] = artifacts[a]
  <2>1. edits + 1 \notin Txns
    BY <1>0, <1>2, BoundAssumption, StampAssumption DEF Review, Edits
  <2>2. PICK next : artifacts' = [artifacts EXCEPT ![b].status = next, ![b].updatedAt = edits + 1]
    BY <1>2 DEF Review
  <2>3. QED
    BY <1>0, <2>1, <2>2 DEF Artifact
<1>3. ASSUME NEW b \in Artifacts, BindArtifact(b) PROVE artifacts'[a] = artifacts[a] \/ BindArtifact(a)
  BY <1>3, BindArtifactEffect
<1>4. QED
  BY <1>1, <1>2, <1>3, RecordSteps

\* How the writer comes to be binding or past it.
LEMMA BindingSteps ==
  ASSUME [Next]_vars, pc' \in {"bind", "append-event", "journal-ledger", "journal-completed"}
  PROVE  \/ ListArtifacts \/ JournalArtifacts \/ AppendEvent \/ JournalLedger
         \/ \E a \in Artifacts : BindArtifact(a)
         \/ UNCHANGED <<disk, writer>>
<1> USE DEF disk, records, writer, Advance, Rest, FailTransaction
<1>1. CASE WriteSteps
  BY <1>1 DEF WriteSteps, SelectBase, CreateJournal, WriteJournal, WriteStore,
     JournalStoreWritten, VerifyStore, StoreIncomplete, JournalStoreVerified, CheckHead,
     RepositoryChanged, WriteManifest, JournalManifestCommitted
<1>2. CASE FinalizeSteps
  BY <1>2 DEF FinalizeSteps, LoadManifest, BindingConflict, JournalCompleted
<1>3. CASE Environment
  BY <1>3 DEF Environment, MoveHead, Materialize, Review, FailStep, Crash
<1>4. QED
  BY <1>1, <1>2, <1>3 DEF Next, vars, ScanJournals, FinalizeBacklog, StartRepair, Abort

LEMMA BindingStep ==
  ASSUME FinalizationInv, [Next]_vars
  PROVE  BindingProceeds'
<1> SUFFICES ASSUME pc' \in {"bind", "append-event", "journal-ledger", "journal-completed"}
             PROVE  BindingProceeds'
  BY DEF BindingProceeds
<1> USE DEF FinalizationInv
<1>0. /\ journals \in [Txns -> Journal] /\ artifacts \in [Artifacts -> Artifact]
      /\ ledger \in [Txns -> {0, 1}] /\ DOMAIN seen \subseteq Artifacts
      /\ (pc \in FinalizePcs => txn \in Txns)
  BY DEF CommitInv, TypeInv, TypeOK, Control
<1>1. pc # "idle" => \A a \in Artifacts : IsBound(a) => IsBound(a)'
  BY BoundStays DEF CommitInv, HeadStays
<1>2. \A t \in Txns : \A p \in journals[t].planned : p.artifact \in Artifacts
  BY <1>0 DEF Journal, Binding
<1>3. CASE ListArtifacts
  <2>1. /\ UNCHANGED <<journals, artifacts, txn>> /\ pc' = "bind" /\ txn \in Txns
        /\ seen' = [a \in {p.artifact : p \in journals[txn].planned} |-> artifacts[a]]
    BY <1>0, <1>3 DEF ListArtifacts, Advance, disk, records, FinalizePcs
  <2>2. QED
    BY <1>2, <2>1 DEF BindingProceeds, IsBound
<1>4. ASSUME NEW a \in Artifacts, BindArtifact(a) PROVE BindingProceeds'
  <2>1. /\ pc = "bind" /\ pc' = "bind" /\ UNCHANGED <<journals, txn>> /\ txn \in Txns
        /\ DOMAIN seen' = DOMAIN seen \ {a} /\ \A b \in DOMAIN seen' : seen'[b] = seen[b]
        /\ a \in DOMAIN seen
    BY <1>0, <1>4 DEF BindArtifact, Unbind, disk, FinalizePcs
  <2>2. IsBound(a)'
    BY <1>4, <2>1, BindArtifactEffect DEF BindingProceeds, IsBound
  <2>3. QED
    BY <1>0, <1>1, <1>2, <2>1, <2>2 DEF BindingProceeds
<1>5. CASE JournalArtifacts \/ JournalLedger
  <2>1. /\ pc \in {"bind", "journal-ledger"} /\ pc' \in {"append-event", "journal-completed"}
        /\ pc = "bind" => DOMAIN seen = {} /\ pc' = "append-event"
        /\ UNCHANGED <<txn, ledger, artifacts>> /\ txn \in Txns
        /\ SetPhase("artifacts-finalized") \/ SetPhase("ledger-finalized")
    BY <1>0, <1>5 DEF JournalArtifacts, JournalLedger, Advance, records, FinalizePcs
  <2>2. journals'[txn].planned = journals[txn].planned
    BY <1>0, <2>1 DEF SetPhase, Journal
  <2>3. \A p \in journals[txn].planned : IsBound(p.artifact)
    BY <2>1 DEF BindingProceeds
  <2>4. pc' = "journal-completed" => ledger[txn] = 1
    BY <2>1 DEF BindingProceeds
  <2>5. QED
    BY <2>1, <2>2, <2>3, <2>4 DEF BindingProceeds, IsBound
<1>6. CASE AppendEvent
  <2>1. /\ pc = "append-event" /\ pc' = "journal-ledger" /\ txn \in Txns
        /\ UNCHANGED <<txn, journals, artifacts>> /\ ledger'[txn] = 1
    BY <1>0, <1>6 DEF AppendEvent, Advance, records, FinalizePcs
  <2>2. QED
    BY <2>1 DEF BindingProceeds, IsBound
<1>7. CASE UNCHANGED <<disk, writer>>
  <2>1. UNCHANGED <<journals, ledger, pc, txn, seen>>
    BY <1>7 DEF disk, writer
  <2>2. pc # "idle" /\ txn \in Txns
    BY <1>0, <2>1 DEF FinalizePcs
  <2>3. QED
    BY <1>0, <1>1, <1>2, <2>1, <2>2 DEF BindingProceeds
<1>8. QED
  BY <1>3, <1>4, <1>5, <1>6, <1>7, BindingSteps

LEMMA AnnouncedStep ==
  ASSUME FinalizationInv, [Next]_vars
  PROVE  AnnouncedIsFinal'
<1> USE DEF FinalizationInv
<1> SUFFICES ASSUME NEW t \in Txns
             PROVE  /\ journals'[t].status = "completed" => ledger'[t] = 1
                    /\ ledger'[t] = 1 =>
                         /\ journals'[t].phase \notin Precommit
                         /\ journals'[t].head \in Indexed'
                         /\ \A p \in journals'[t].planned : IsBound(p.artifact)'
  BY DEF AnnouncedIsFinal, IsBound
<1>0. /\ journals \in [Txns -> Journal] /\ ledger \in [Txns -> {0, 1}]
      /\ (pc \in FinalizePcs => txn \in Txns)
  BY DEF CommitInv, TypeInv, TypeOK, Control
<1>1. ledger[t] = 1 => ledger'[t] = 1
  BY <1>0, RecordSteps DEF AppendEvent
<1>2. journals'[t].status = "completed" => ledger'[t] = 1
  <2>1. CASE journals'[t] = journals[t]
    BY <1>1, <2>1 DEF AnnouncedIsFinal
  <2>2. CASE t = txn /\ Created(t)
    BY <2>2 DEF Created
  <2>3. CASE t = txn /\ Moved(t)
    BY <1>1, <2>3 DEF Moved, JournalCompleted, BindingProceeds
  <2>4. QED
    BY <2>1, <2>2, <2>3, JournalEffect
<1>3. ASSUME ledger'[t] = 1
      PROVE  /\ journals[t].phase \notin Precommit /\ journals[t].head \in Indexed
             /\ \A p \in journals[t].planned : IsBound(p.artifact)
  <2>1. CASE ledger[t] = 1
    BY <2>1 DEF AnnouncedIsFinal, IsBound
  <2>2. CASE ledger[t] # 1
    <3>1. AppendEvent /\ t = txn /\ pc = "append-event"
      BY <1>0, <1>3, <2>2, RecordSteps DEF AppendEvent, Advance
    <3>2. QED
      BY <3>1 DEF BindingProceeds, CommitInv, JournalFollowsWriter, FinalizePcs
  <2>3. QED
    BY <2>1, <2>2
<1>4. ASSUME ledger'[t] = 1
      PROVE  /\ journals'[t].phase \notin Precommit
             /\ journals'[t].head \in Indexed'
             /\ \A p \in journals'[t].planned : IsBound(p.artifact)'
  <2>1. /\ journals'[t].phase \notin Precommit
        /\ journals'[t].head = journals[t].head
        /\ journals'[t].planned = journals[t].planned
    BY <1>3, <1>4, JournalEffect DEF Created, Moved
  <2>2. Indexed \subseteq Indexed'
    BY IndexedGrows DEF CommitInv
  <2>3. head \in Heads
    BY <1>3, <1>4 DEF CommitInv, HeadStays
  <2>4. \A p \in journals[t].planned : p.artifact \in Artifacts
    BY <1>0 DEF Journal, Binding
  <2>5. QED
    BY <1>3, <1>4, <2>1, <2>2, <2>3, <2>4, BoundStays
<1>5. QED
  BY <1>2, <1>4

LEMMA StampedStep ==
  ASSUME FinalizationInv, [Next]_vars
  PROVE  BindingAfterPublication'
<1> USE DEF FinalizationInv
<1> SUFFICES ASSUME NEW a \in Artifacts, NEW t \in Txns, artifacts'[a].updatedAt = t
             PROVE  /\ artifacts'[a].binding = "bound"
                    /\ artifacts'[a].head = journals'[t].head
                    /\ journals'[t].head \in Indexed'
                    /\ journals'[t].phase \notin Precommit
  BY DEF BindingAfterPublication
<1>1. /\ artifacts'[a].binding = "bound"
      /\ artifacts'[a].head = journals[t].head
      /\ journals[t].head \in Indexed
      /\ journals[t].phase \notin Precommit
  <2>1. CASE artifacts'[a] = artifacts[a]
    BY <2>1 DEF BindingAfterPublication
  <2>2. CASE BindArtifact(a) /\ artifacts'[a] # artifacts[a]
    <3>1. /\ artifacts'[a].binding = "bound" /\ artifacts'[a].head = journals[txn].head
          /\ artifacts'[a].updatedAt = txn
      BY <2>2, BindArtifactEffect DEF IsBound
    <3>2. journals[txn].head \in Indexed /\ journals[txn].phase \notin Precommit
      BY <2>2 DEF BindArtifact, CommitInv, JournalFollowsWriter, FinalizePcs
    <3>3. QED
      BY <3>1, <3>2
  <2>3. QED
    BY <2>1, <2>2, StampSteps
<1>2. /\ journals'[t].phase \notin Precommit
      /\ journals'[t].head = journals[t].head
  BY <1>1, JournalEffect DEF Created, Moved
<1>3. Indexed \subseteq Indexed'
  BY IndexedGrows DEF CommitInv
<1>4. QED
  BY <1>1, <1>2, <1>3

THEOREM Finalizations == Spec => []FinalizationInv
<1>1. FinalizationInv /\ [Next]_vars => FinalizationInv'
  BY CommitStep, BindingStep, AnnouncedStep, StampedStep DEF FinalizationInv
<1>2. QED
  BY <1>1, FinalizationInit, PTL DEF Spec

\* A completed transaction has its one event; an event stands only for a
\* published snapshot whose planned artifacts are all bound.
THEOREM Announcement == Spec => []AnnouncedIsFinal
<1>1. FinalizationInv => AnnouncedIsFinal
  BY DEF FinalizationInv
<1>2. QED
  BY <1>1, Finalizations, PTL

\* An artifact a transaction stamped is bound to the commit of a transaction
\* whose snapshot is visible.
THEOREM BoundLast == Spec => []BindingAfterPublication
<1>1. FinalizationInv => BindingAfterPublication
  BY DEF FinalizationInv
<1>2. QED
  BY <1>1, Finalizations, PTL

-----------------------------------------------------------------------------
(* The backlog *)

Settled(t) == Class(t) \in {"absent", "completed", "precommit-incomplete"}

Writing == {"select", "read"} \cup BeforeManifest

\* What a scan found pending stays so until its turn, and the rest is settled.
BacklogProceeds ==
    /\ pc \in {"idle", "backlog", "select"} => txn = None
    /\ \A t \in todo : Class(t) = "finalization-pending"
    /\ pc = "backlog" => \A t \in Txns \ todo : Settled(t)
    /\ pc \in FinalizePcs /\ mode = "backlog" =>
         /\ Matches(journals[txn], manifests[journals[txn].head])
         /\ \A t \in Txns \ (todo \cup {txn}) : Settled(t)

SettlementInv == CommitInv /\ BacklogProceeds /\ BacklogSettledFirst

LEMMA SettledFirst == BacklogSettledFirst <=>
                        (pc \in Writing => \A t \in Txns \ {txn} : Settled(t))
  BY DEF BacklogSettledFirst, Settled, Writing, WritePcs, BeforeManifest

\* The classes of classifyJournal are all there are.
LEMMA Classes ==
  ASSUME NEW t \in Txns
  PROVE  Settled(t) \/ t \in Pending \/ t \in Blocking
  BY DEF Settled, Pending, Blocking, Class, Statuses

LEMMA PendingFacts ==
  ASSUME NEW t \in Txns, Class(t) = "finalization-pending"
  PROVE  IsOpen(t) /\ journals[t].head \in Indexed /\ Matches(journals[t], manifests[journals[t].head])
  BY DEF Class, IsOpen

LEMMA SettlementInit == Init => SettlementInv
  BY CommitInit, SettledFirst
     DEF Init, SettlementInv, BacklogProceeds, Writing, BeforeManifest, FinalizePcs

\* A journal's class depends on that journal and on the manifests only.
LEMMA ClassStays ==
  ASSUME NEW t \in Txns, journals'[t] = journals[t], UNCHANGED manifests
  PROVE  Class(t)' = Class(t)
  BY DEF Class, Matches, Indexed

\* How the writer moves between selecting, writing and finalizing.
LEMMA WriterMoves ==
  ASSUME [Next]_vars
  PROVE  \/ ScanJournals \/ SelectBase \/ WriteManifest \/ JournalCompleted \/ Rest
         \/ \E t \in Txns : FinalizeBacklog(t) \/ StartRepair(t)
         \/ /\ UNCHANGED <<txn, mode, todo>>
            /\ pc' = pc \/ pc' \notin {"idle", "backlog", "select"}
            /\ pc' \in Writing => pc \in Writing
            /\ pc' \in FinalizePcs => pc \in FinalizePcs \cup {"journal-committed"}
<1> USE DEF disk, records, writer, Advance, FailTransaction, Writing, BeforeManifest, FinalizePcs
<1>1. CASE WriteSteps
  BY <1>1 DEF WriteSteps, CreateJournal, WriteJournal, WriteStore,
     JournalStoreWritten, VerifyStore, StoreIncomplete, JournalStoreVerified, CheckHead,
     RepositoryChanged, JournalManifestCommitted
<1>2. CASE FinalizeSteps
  BY <1>2 DEF FinalizeSteps, LoadManifest, ListArtifacts, BindArtifact, BindingConflict,
     JournalArtifacts, AppendEvent, JournalLedger
<1>3. CASE Environment
  BY <1>3 DEF Environment, MoveHead, Materialize, Review, FailStep, Crash
<1>4. QED
  BY <1>1, <1>2, <1>3 DEF Next, vars, Abort

\* The journals in the backlog are not the one being written.
LEMMA BacklogUntouched ==
  ASSUME CommitInv, [Next]_vars, NEW t \in todo
  PROVE  t \in Txns /\ journals'[t] = journals[t]
<1>1. t \in Txns
  BY DEF CommitInv, TypeInv, TypeOK
<1>2. CASE mode = "backlog"
  BY <1>1, <1>2, JournalEffect DEF CommitInv, BacklogIsOpen
<1>3. CASE mode # "backlog"
  <2>1. pc = "backlog"
    BY <1>3 DEF CommitInv, BacklogIsOpen
  <2>2. UNCHANGED journals
    BY <2>1, JournalSteps DEF CreateJournal, WriteJournal, Advance, WritePcs, FinalizePcs
  <2>3. QED
    BY <1>1, <2>2
<1>4. QED
  BY <1>2, <1>3

LEMMA CompletedIsSettled ==
  ASSUME SettlementInv, JournalCompleted, mode = "backlog", NEW t \in Txns, t = txn
  PROVE  Settled(t)'
<1>1. /\ txn \in Txns /\ pc \in FinalizePcs /\ journals[txn].head \in Indexed
      /\ journals \in [Txns -> Journal] /\ UNCHANGED manifests
  BY DEF JournalCompleted, SettlementInv, CommitInv, TypeInv, TypeOK, Control,
         JournalFollowsWriter, FinalizePcs
<1>2. journals'[txn] = [journals[txn] EXCEPT !.status = "completed", !.phase = "completed"]
  BY <1>1 DEF JournalCompleted
<1>3. /\ journals'[txn].status = "completed" /\ journals'[txn].phase = "completed"
      /\ journals'[txn].head = journals[txn].head /\ journals'[txn].docs = journals[txn].docs
      /\ journals'[txn].chunks = journals[txn].chunks
      /\ journals'[txn].planned = journals[txn].planned
  BY <1>1, <1>2 DEF Journal
<1>4. Matches(journals[txn], manifests[journals[txn].head])
  BY <1>1 DEF JournalCompleted, SettlementInv, BacklogProceeds
<1>5. Matches(journals'[txn], manifests'[journals'[txn].head])
  BY <1>1, <1>3, <1>4 DEF Matches
<1>6. journals'[txn].head \in Indexed'
  BY <1>1, <1>3 DEF Indexed
<1>7. "completed" \in Statuses
  BY DEF Statuses
<1>8. Class(t)' = "completed"
  BY <1>3, <1>5, <1>6, <1>7 DEF Class
<1>9. QED
  BY <1>8 DEF Settled

LEMMA SettlementStep == SettlementInv /\ [Next]_vars => SettlementInv'
<1> SUFFICES ASSUME SettlementInv, [Next]_vars PROVE BacklogProceeds' /\ BacklogSettledFirst'
  BY CommitStep DEF SettlementInv
<1> USE DEF SettlementInv
<1>0. /\ CommitInv
      /\ pc \in {"idle", "backlog", "select"} => txn = None
      /\ \A t \in todo : Class(t) = "finalization-pending"
      /\ pc = "backlog" => \A t \in Txns \ todo : Settled(t)
      /\ pc \in FinalizePcs /\ mode = "backlog" =>
           /\ Matches(journals[txn], manifests[journals[txn].head])
           /\ \A t \in Txns \ (todo \cup {txn}) : Settled(t)
      /\ pc \in Writing => \A t \in Txns \ {txn} : Settled(t)
      /\ mode = "backlog" => pc \in FinalizePcs /\ txn \notin todo
      /\ mode # "backlog" /\ pc # "backlog" => todo = {}
      /\ todo \subseteq Txns
  BY SettledFirst DEF BacklogProceeds, CommitInv, BacklogIsOpen, TypeInv, TypeOK
<1> SUFFICES /\ pc' \in {"idle", "backlog", "select"} => txn' = None
             /\ \A t \in todo' : Class(t)' = "finalization-pending"
             /\ pc' = "backlog" => \A t \in Txns \ todo' : Settled(t)'
             /\ pc' \in FinalizePcs /\ mode' = "backlog" =>
                  /\ Matches(journals'[txn'], manifests'[journals'[txn'].head])
                  /\ \A t \in Txns \ (todo' \cup {txn'}) : Settled(t)'
             /\ pc' \in Writing => \A t \in Txns \ {txn'} : Settled(t)'
  BY DEF BacklogProceeds, BacklogSettledFirst, Settled, Writing, WritePcs, BeforeManifest
<1> USE DEF Writing, BeforeManifest, FinalizePcs
<1>1. CASE Rest
  BY <1>1 DEF Rest
<1>2. CASE WriteManifest
  BY <1>0, <1>2 DEF WriteManifest, Advance
<1>3. ASSUME UNCHANGED manifests, NEW t \in Txns, journals'[t] = journals[t]
      PROVE  Class(t)' = Class(t) /\ (Settled(t) => Settled(t)')
  BY <1>3, ClassStays DEF Settled
<1>4. CASE ScanJournals
  <2>1. /\ UNCHANGED <<journals, manifests, txn, mode>> /\ todo' = Pending /\ Blocking = {}
        /\ pc = "idle" /\ pc' \in {"select", "backlog"} /\ (pc' = "select" => Pending = {})
    BY <1>4 DEF ScanJournals, disk
  <2>2. \A t \in Txns : Settled(t) \/ t \in Pending
    BY <2>1, Classes
  <2>3. \A t \in Pending : t \in Txns /\ Class(t) = "finalization-pending"
    BY DEF Pending
  <2>4. \A t \in Txns : Class(t)' = Class(t) /\ (Settled(t) => Settled(t)')
    BY <1>3, <2>1
  <2>5. QED
    BY <1>0, <2>1, <2>2, <2>3, <2>4
<1>5. CASE UNCHANGED manifests /\ SelectBase
  <2>1. UNCHANGED <<journals, todo, mode>> /\ pc = "select" /\ pc' = "read"
    BY <1>5 DEF SelectBase, Advance, disk
  <2>2. \A t \in Txns : Class(t)' = Class(t) /\ (Settled(t) => Settled(t)')
    BY <1>3, <1>5, <2>1
  <2>3. QED
    BY <1>0, <2>1, <2>2, NoneAssumption
<1>6. ASSUME UNCHANGED manifests, NEW t \in Txns, FinalizeBacklog(t)
      PROVE  /\ \A u \in todo' : Class(u)' = "finalization-pending"
             /\ pc' = "load-manifest"
             /\ Matches(journals'[txn'], manifests'[journals'[txn'].head])
             /\ \A u \in Txns \ (todo' \cup {txn'}) : Settled(u)'
  <2>1. /\ UNCHANGED journals /\ pc = "backlog" /\ pc' = "load-manifest"
        /\ t \in todo /\ todo' = todo \ {t} /\ txn' = t
    BY <1>6 DEF FinalizeBacklog, Advance, disk
  <2>2. \A u \in Txns : Class(u)' = Class(u) /\ (Settled(u) => Settled(u)')
    BY <1>3, <1>6, <2>1
  <2>3. Matches(journals[t], manifests[journals[t].head])
    BY <1>0, <2>1, PendingFacts
  <2>4. QED
    BY <1>0, <1>6, <2>1, <2>2, <2>3
<1>7. ASSUME NEW t \in Txns, StartRepair(t)
      PROVE  pc' = "load-manifest" /\ mode' = "repair" /\ todo' = {}
  BY <1>0, <1>7 DEF StartRepair, Advance
<1>8. CASE UNCHANGED manifests /\ JournalCompleted /\ ~ Rest
  <2>1. /\ pc \in FinalizePcs /\ mode = "backlog" /\ txn' = None /\ mode' = "own"
        /\ UNCHANGED todo /\ pc' \in {"select", "backlog"} /\ (pc' = "select" => todo = {})
    BY <1>8 DEF JournalCompleted
  <2>2. \A t \in Txns : t = txn => Settled(t)'
    BY <1>8, <2>1, CompletedIsSettled
  <2>3. \A t \in Txns \ {txn} : journals'[t] = journals[t]
    BY JournalEffect
  <2>4. \A t \in Txns \ {txn} : Class(t)' = Class(t) /\ (Settled(t) => Settled(t)')
    BY <1>3, <1>8, <2>3
  <2>5. \A t \in todo : Class(t)' = "finalization-pending"
    BY <1>0, <2>1, <2>4
  <2>6. \A t \in Txns \ todo : Settled(t)'
    BY <1>0, <2>1, <2>2, <2>4
  <2>7. QED
    BY <2>1, <2>5, <2>6
<1>9. CASE /\ UNCHANGED <<manifests, txn, mode, todo>>
           /\ pc' = pc \/ pc' \notin {"idle", "backlog", "select"}
           /\ pc' \in Writing => pc \in Writing
           /\ pc' \in FinalizePcs => pc \in FinalizePcs \cup {"journal-committed"}
  <2>1. \A t \in Txns \ {txn} : Class(t)' = Class(t) /\ (Settled(t) => Settled(t)')
    BY <1>3, <1>9, JournalEffect
  <2>2. \A t \in todo : Class(t)' = Class(t)
    BY <1>3, <1>9, BacklogUntouched
  <2>3. pc' = "backlog" => \A t \in Txns \ todo' : Settled(t)'
    <3>1. pc = "backlog" => txn \notin Txns
      BY <1>0, NoneAssumption
    <3>2. QED
      BY <1>0, <1>9, <2>1, <3>1
  <2>4. ASSUME pc' \in FinalizePcs, mode' = "backlog"
        PROVE  Matches(journals'[txn'], manifests'[journals'[txn'].head])
    <3>1. /\ pc \in FinalizePcs /\ txn \in Txns
          /\ Matches(journals[txn], manifests[journals[txn].head])
      BY <1>0, <1>9, <2>4 DEF CommitInv, TypeInv, Control
    <3>2. /\ journals'[txn].head = journals[txn].head
          /\ journals'[txn].docs = journals[txn].docs
          /\ journals'[txn].chunks = journals[txn].chunks
          /\ journals'[txn].planned = journals[txn].planned
      BY <3>1, JournalEffect DEF Created, Moved
    <3>3. QED
      BY <1>9, <3>1, <3>2 DEF Matches
  <2>5. QED
    BY <1>0, <1>9, <2>1, <2>2, <2>3, <2>4
<1>10. QED
  BY <1>1, <1>2, <1>4, <1>5, <1>6, <1>7, <1>8, <1>9, WriterMoves, OnlyWriters

\* While an ingest works towards its own manifest, every other journal is
\* completed or was abandoned before its commit point.
THEOREM BacklogFirst == Spec => []BacklogSettledFirst
<1>1. SettlementInv => BacklogSettledFirst
  BY DEF SettlementInv
<1>2. QED
  BY <1>1, SettlementInit, SettlementStep, PTL DEF Spec

-----------------------------------------------------------------------------
(* The abstract specification *)

Holds(journal, manifest) ==
    journal.docs \subseteq manifest.docs /\ journal.chunks \subseteq manifest.chunks

\* Until the manifest is written the journal names what is in memory; from then
\* on the commit's manifest holds what the journal names.
JournalNamesWork ==
    /\ pc \in BeforeManifest \ {"write-journal"} =>
         journals[txn].docs = job.docs /\ journals[txn].chunks = NewChunks
    /\ pc \in {"journal-committed"} \cup FinalizePcs =>
         Holds(journals[txn], manifests[journals[txn].head])

RefinementInv == PublicationInv /\ SettlementInv /\ JournalNamesWork

LEMMA RefinementInit == Init => RefinementInv
  BY PublicationInit, SettlementInit
     DEF Init, RefinementInv, JournalNamesWork, BeforeManifest, FinalizePcs

\* How the writer comes to where the journal must name its work.
LEMMA NamingSteps ==
  ASSUME [Next]_vars,
         pc' \in (BeforeManifest \ {"write-journal"}) \cup {"journal-committed"} \cup FinalizePcs
  PROVE  \/ WriteJournal \/ WriteManifest
         \/ \E t \in Txns : FinalizeBacklog(t) \/ StartRepair(t)
         \/ /\ UNCHANGED <<txn, manifests>>
            /\ \/ UNCHANGED job /\ pc \in BeforeManifest \ {"write-journal"}
                  /\ pc' \in BeforeManifest \ {"write-journal"}
               \/ /\ pc \in {"journal-committed"} \cup FinalizePcs
                  /\ pc' \in {"journal-committed"} \cup FinalizePcs
<1> USE DEF disk, records, writer, Advance, Rest, FailTransaction, BeforeManifest, FinalizePcs
<1>1. CASE WriteSteps
  BY <1>1 DEF WriteSteps, SelectBase, CreateJournal, WriteStore,
     JournalStoreWritten, VerifyStore, StoreIncomplete, JournalStoreVerified, CheckHead,
     RepositoryChanged, JournalManifestCommitted
<1>2. CASE FinalizeSteps
  BY <1>2 DEF FinalizeSteps, LoadManifest, ListArtifacts, BindArtifact, BindingConflict,
     JournalArtifacts, AppendEvent, JournalLedger, JournalCompleted
<1>3. CASE Environment
  BY <1>3 DEF Environment, MoveHead, Materialize, Review, FailStep, Crash
<1>4. QED
  BY <1>1, <1>2, <1>3 DEF Next, vars, Abort, ScanJournals

LEMMA NamesWorkStep ==
  ASSUME RefinementInv, [Next]_vars
  PROVE  JournalNamesWork'
<1> USE DEF RefinementInv
<1> SUFFICES ASSUME pc' \in (BeforeManifest \ {"write-journal"}) \cup {"journal-committed"} \cup FinalizePcs
             PROVE  JournalNamesWork'
  BY DEF JournalNamesWork
<1>0. journals \in [Txns -> Journal] /\ manifests \in [Heads -> Manifest \cup {None}]
      /\ CommitInv
      /\ (pc \in WritePcs \cup FinalizePcs => txn \in Txns)
      /\ (pc \in BeforeManifest => job.head \in Heads)
  BY DEF SettlementInv, CommitInv, TypeInv, TypeOK, Control
<1>1. CASE WriteJournal
  <2>1. /\ pc' = "write-store" /\ UNCHANGED <<txn, job>> /\ txn \in Txns
        /\ journals'[txn].docs = job.docs /\ journals'[txn].chunks = NewChunks
    BY <1>0, <1>1 DEF WriteJournal, Advance, WritePcs
  <2>2. QED
    BY <2>1 DEF JournalNamesWork, NewChunks, FinalizePcs
<1>2. CASE WriteManifest
  <2>1. /\ pc = "write-manifest" /\ pc' = "journal-committed" /\ UNCHANGED <<txn, journals>>
        /\ txn \in Txns /\ manifests'[job.head] = NewManifest /\ journals[txn].head = job.head
    BY <1>0, <1>2 DEF WriteManifest, Advance, WritePcs, BeforeManifest, CommitInv,
                      JournalFollowsWriter
  <2>2. journals[txn].docs = job.docs /\ journals[txn].chunks = NewChunks
    BY <2>1 DEF JournalNamesWork, BeforeManifest
  <2>3. job.docs \subseteq NewManifest.docs /\ NewChunks \subseteq NewManifest.chunks
    BY DEF NewManifest
  <2>4. QED
    BY <2>1, <2>2, <2>3 DEF JournalNamesWork, Holds, BeforeManifest
<1>3. ASSUME NEW t \in Txns, FinalizeBacklog(t) \/ StartRepair(t) PROVE JournalNamesWork'
  <2>1. UNCHANGED <<journals, manifests>> /\ txn' = t /\ pc' = "load-manifest"
    BY <1>3 DEF FinalizeBacklog, StartRepair, Advance, disk
  <2>2. Class(t) = "finalization-pending"
    BY <1>3 DEF FinalizeBacklog, StartRepair, Pending, SettlementInv, BacklogProceeds
  <2>3. Matches(journals[t], manifests[journals[t].head])
    BY <2>2, PendingFacts
  <2>4. QED
    BY <2>1, <2>3 DEF Matches, JournalNamesWork, Holds, BeforeManifest
<1>4. CASE /\ UNCHANGED <<txn, manifests, job>> /\ pc \in BeforeManifest \ {"write-journal"}
           /\ pc' \in BeforeManifest \ {"write-journal"}
  <2>1. PICK t \in Txns : t = txn
    BY <1>0, <1>4 DEF BeforeManifest, WritePcs
  <2>2. journals'[txn].docs = journals[txn].docs /\ journals'[txn].chunks = journals[txn].chunks
    BY <1>0, <1>4, <2>1, JournalEffect DEF Created, Moved, BeforeManifest
  <2>3. QED
    BY <1>4, <2>2 DEF JournalNamesWork, NewChunks, BeforeManifest, FinalizePcs
<1>5. CASE /\ UNCHANGED <<txn, manifests>> /\ pc \in {"journal-committed"} \cup FinalizePcs
           /\ pc' \in {"journal-committed"} \cup FinalizePcs
  <2>1. PICK t \in Txns : t = txn
    BY <1>0, <1>5 DEF WritePcs
  <2>2. /\ journals'[txn].docs = journals[txn].docs /\ journals'[txn].chunks = journals[txn].chunks
        /\ journals'[txn].head = journals[txn].head
    BY <1>0, <1>5, <2>1, JournalEffect DEF Created, Moved, FinalizePcs
  <2>3. QED
    BY <1>5, <2>2 DEF JournalNamesWork, Holds, BeforeManifest, FinalizePcs
<1>6. QED
  BY <1>1, <1>2, <1>3, <1>4, <1>5, NamingSteps

THEOREM Refinements == Spec => []RefinementInv
<1>1. RefinementInv /\ [Next]_vars => RefinementInv'
  BY PublicationStep, SettlementStep, NamesWorkStep DEF RefinementInv
<1>2. QED
  BY <1>1, RefinementInit, PTL DEF Spec

-----------------------------------------------------------------------------
(* The steps of the refinement mapping *)

WorkOf(t) ==
    IF Begun(t) THEN [head |-> journals[t].head, docs |-> journals[t].docs,
                      chunks |-> journals[t].chunks]
    ELSE None

\* A reader finds all of a visible manifest.
LEMMA AllReadable ==
  ASSUME RefinementInv, NEW h \in Indexed
  PROVE  Readable(h) = [docs |-> manifests[h].docs, chunks |-> manifests[h].chunks]
<1>1. manifests[h].docs \subseteq storeDocs /\ manifests[h].chunks \subseteq storeChunks
  BY DEF RefinementInv, PublicationInv, PublishedReadable
<1>2. manifests[h].docs \cap storeDocs = manifests[h].docs
      /\ manifests[h].chunks \cap storeChunks = manifests[h].chunks
  BY <1>1
<1>3. QED
  BY <1>2 DEF Readable

\* Only the rename of a manifest shows to readers: the store only grows, and
\* what a manifest names was there already.
LEMMA ReadersSee ==
  ASSUME RefinementInv, RefinementInv', [Next]_vars, UNCHANGED manifests, NEW h \in Heads
  PROVE  Readable(h)' = Readable(h)
<1>1. CASE h \notin Indexed
  BY <1>1 DEF Readable, Indexed
<1>2. CASE h \in Indexed
  <2>1. manifests[h].docs \subseteq storeDocs /\ manifests[h].chunks \subseteq storeChunks
    BY <1>2 DEF RefinementInv, PublicationInv, PublishedReadable
  <2>2. storeDocs \subseteq storeDocs' /\ storeChunks \subseteq storeChunks'
    BY OnlyWriters
  <2>3. manifests[h].docs \cap storeDocs' = manifests[h].docs \cap storeDocs
        /\ manifests[h].chunks \cap storeChunks' = manifests[h].chunks \cap storeChunks
    BY <2>1, <2>2
  <2>4. QED
    BY <2>3 DEF Readable, Indexed
<1>3. QED
  BY <1>1, <1>2

\* The work of an ingest is what its journal says once it is written.
LEMMA WorkStays ==
  ASSUME RefinementInv, [Next]_vars, NEW t \in Txns
  PROVE  WorkOf(t)' = WorkOf(t) \/ (WriteJournal /\ t = txn)
<1>0. CommitInv /\ journals \in [Txns -> Journal]
  BY DEF RefinementInv, SettlementInv, CommitInv, TypeInv, TypeOK
<1>1. CASE journals'[t] = journals[t]
  BY <1>1 DEF WorkOf, Begun
<1>2. CASE t = txn /\ Moved(t)
  BY <1>2 DEF WorkOf, Begun, Moved, IsOpen
<1>3. CASE t = txn /\ Created(t) /\ ~ WriteJournal
  <2>1. CreateJournal \/ UNCHANGED journals
    BY <1>0, <1>3, JournalSteps DEF Created, WritePcs, FinalizePcs
  <2>2. CASE UNCHANGED journals
    BY <2>2 DEF WorkOf, Begun
  <2>3. CASE CreateJournal
    <3>1. journals'[t].status = "malformed"
      BY <1>0, <1>3, <2>3 DEF CreateJournal, Journal
    <3>2. QED
      BY <1>3, <3>1 DEF WorkOf, Begun, Created, Statuses
  <2>4. QED
    BY <2>1, <2>2, <2>3
<1>4. QED
  BY <1>0, <1>1, <1>2, <1>3, JournalEffect

LEMMA BeginStep ==
  ASSUME RefinementInv, RefinementInv', [Next]_vars, WriteJournal, NEW t \in Txns, t = txn
  PROVE  Publication!Begin(t)
<1>0. /\ txn \in Txns /\ journals \in [Txns -> Journal] /\ job \in Job /\ job.head \in Heads
      /\ journals[txn].status = "malformed"
  BY DEF WriteJournal, Advance, RefinementInv, SettlementInv, CommitInv, TypeInv, TypeOK,
         Control, WritePcs, BeforeManifest, JournalFollowsWriter
<1> DEFINE new == [head |-> job.head, docs |-> job.docs, chunks |-> NewChunks]
<1>1. WorkOf(t) = None
  BY <1>0 DEF WorkOf, Begun, Statuses
<1>2. /\ journals'[txn].status = "in-progress" /\ journals'[txn].head = job.head
      /\ journals'[txn].docs = job.docs /\ journals'[txn].chunks = NewChunks
      /\ \A u \in Txns \ {txn} : journals'[u] = journals[u]
      /\ UNCHANGED <<txn, ledger, manifests>>
  BY <1>0 DEF WriteJournal
<1>3. \A u \in Txns : WorkOf(u)' = IF u = t THEN new ELSE WorkOf(u)
  BY <1>2 DEF WorkOf, Begun, Statuses
<1>4. new \in [head : Heads, docs : SUBSET Version, chunks : SUBSET Version]
  BY <1>0 DEF Job, NewChunks
<1> HIDE DEF new
<1>5. \A h \in Heads : Readable(h)' = Readable(h)
  BY <1>2, ReadersSee
<1>6. [h \in Heads |-> Readable(h)'] = [h \in Heads |-> Readable(h)]
  BY <1>5
<1>7. [u \in Txns |-> WorkOf(u)'] = [[u \in Txns |-> WorkOf(u)] EXCEPT ![t] = new]
  BY <1>3
<1>8. QED
  BY <1>0, <1>1, <1>2, <1>3, <1>4, <1>6, <1>7 DEF Publication!Begin, Publication!Work, WorkOf

\* What readers find of all commits together.
Visible == {h \in Heads : Readable(h) # None}
VisibleDocs == UNION {Readable(h).docs : h \in Visible}
VisibleChunks == UNION {Readable(h).chunks : h \in Visible}

LEMMA VisibleIsPublished ==
  Publication!Published.docs = VisibleDocs /\ Publication!Published.chunks = VisibleChunks
<1> DEFINE S == [h \in Heads |-> Readable(h)]
           V == {g \in Heads : S[g] # None}
<1>1. Publication!Published = [docs |-> UNION {S[h].docs : h \in V},
                               chunks |-> UNION {S[h].chunks : h \in V}]
  BY DEF Publication!Published
<1>2. V = Visible
  BY DEF Visible
<1>3. \A h \in Visible : S[h] = Readable(h)
  BY DEF Visible
<1> HIDE DEF S, V
<1>4. {S[h].docs : h \in V} = {Readable(h).docs : h \in Visible}
      /\ {S[h].chunks : h \in V} = {Readable(h).chunks : h \in Visible}
  BY <1>2, <1>3
<1>5. QED
  BY <1>1, <1>4 DEF VisibleDocs, VisibleChunks

\* What is published was published before or is the ingest's own.
LEMMA PublishedBefore ==
  ASSUME RefinementInv, pc = "write-manifest"
  PROVE  /\ NewManifest.docs \subseteq VisibleDocs \cup job.docs
         /\ NewManifest.chunks \subseteq VisibleChunks \cup NewChunks
<1>1. /\ NewManifest.docs = Kept(Base.docs) \cup job.docs
      /\ NewManifest.chunks = Kept(Base.chunks) \cup NewChunks
  BY DEF NewManifest
<1> SUFFICES Base.docs \subseteq VisibleDocs /\ Base.chunks \subseteq VisibleChunks
  BY <1>1 DEF Kept
<1>2. CASE job.base = None
  BY <1>2 DEF Base, NoManifest
<1>3. CASE job.base # None
  <2>1. job.base \in Indexed /\ job.base \in Heads
    BY <1>3 DEF RefinementInv, PublicationInv, TypeInv, Control, BeforeManifest, Indexed
  <2>2. Readable(job.base) = [docs |-> Base.docs, chunks |-> Base.chunks]
    BY <1>3, <2>1, AllReadable DEF Base
  <2>3. Base \in Manifest
    BY BaseTyped DEF RefinementInv, PublicationInv, BeforeManifest
  <2>4. Readable(job.base) \in [docs : SUBSET Version, chunks : SUBSET Version]
    BY <2>2, <2>3 DEF Manifest
  <2>5. Readable(job.base) # None
    BY <2>4, ManifestAssumption
  <2>6. Readable(job.base).docs = Base.docs /\ Readable(job.base).chunks = Base.chunks
    BY <2>2
  <2>7. QED
    BY <2>1, <2>5, <2>6 DEF Visible, VisibleDocs, VisibleChunks
<1>4. QED
  BY <1>2, <1>3

LEMMA PublishStep ==
  ASSUME RefinementInv, RefinementInv', [Next]_vars, WriteManifest, NEW t \in Txns, t = txn
  PROVE  Publication!Publish(t)
<1>0. /\ txn \in Txns /\ journals[txn] \in Journal /\ job.head \in Heads /\ pc = "write-manifest"
      /\ IsOpen(txn) /\ journals[txn].head = job.head
      /\ manifests \in [Heads -> Manifest \cup {None}]
  BY DEF WriteManifest, Advance, RefinementInv, SettlementInv, CommitInv, TypeInv, TypeOK,
         Control, WritePcs, BeforeManifest, JournalFollowsWriter
<1>1. journals[txn].docs = job.docs /\ journals[txn].chunks = NewChunks
  BY <1>0 DEF RefinementInv, JournalNamesWork, BeforeManifest
<1> DEFINE w   == [head |-> job.head, docs |-> job.docs, chunks |-> NewChunks]
           new == [docs |-> NewManifest.docs, chunks |-> NewManifest.chunks]
<1>2. w \in [head : Heads, docs : SUBSET Version, chunks : SUBSET Version]
  BY <1>0, <1>1 DEF Journal
<1>3. WorkOf(t) = w /\ w # None
  BY <1>0, <1>1, <1>2, ManifestAssumption DEF WorkOf, Begun, IsOpen
<1>4. NewManifest \in Manifest
  BY <1>0, ManifestTyped DEF RefinementInv, PublicationInv, BeforeManifest
<1>5. new # None /\ NewManifest # None
  BY <1>4, ManifestAssumption DEF Manifest
<1>6. /\ manifests' = [manifests EXCEPT ![job.head] = NewManifest]
      /\ UNCHANGED <<storeDocs, storeChunks, ledger, journals>>
  BY DEF WriteManifest
<1>7. NewManifest.docs \cap storeDocs = NewManifest.docs
      /\ NewManifest.chunks \cap storeChunks = NewManifest.chunks
  BY <1>0, PublishedManifest DEF RefinementInv
<1>8. \A h \in Heads : Readable(h)' = IF h = job.head THEN new ELSE Readable(h)
  BY <1>0, <1>5, <1>6, <1>7 DEF Readable, Indexed
<1>9. [h \in Heads |-> Readable(h)'] = [[h \in Heads |-> Readable(h)] EXCEPT ![job.head] = new]
  BY <1>8
<1>10. [u \in Txns |-> WorkOf(u)'] = [u \in Txns |-> WorkOf(u)]
  BY <1>6 DEF WorkOf, Begun
<1>11. w.head = job.head /\ w.docs = job.docs /\ w.chunks = NewChunks
       /\ new.docs = NewManifest.docs /\ new.chunks = NewManifest.chunks
  OBVIOUS
<1>12. job.docs \subseteq NewManifest.docs /\ NewChunks \subseteq NewManifest.chunks
  BY DEF NewManifest
<1> HIDE DEF w, new
<1>13. [h \in Heads |-> Readable(h)'][job.head] = new
  BY <1>0, <1>9
<1>14. [u \in Txns |-> WorkOf(u)][t] = w
  BY <1>3
<1>15. Publication!Holds(new, w)
  BY <1>5, <1>11, <1>12 DEF Publication!Holds
<1>16. /\ new.docs \subseteq Publication!Published.docs \cup w.docs
       /\ new.chunks \subseteq Publication!Published.chunks \cup w.chunks
  BY <1>0, <1>11, PublishedBefore, VisibleIsPublished
<1>17. QED
  BY <1>0, <1>3, <1>6, <1>9, <1>10, <1>11, <1>13, <1>14, <1>15, <1>16
     DEF Publication!Publish, WorkOf

LEMMA AnnounceStep ==
  ASSUME RefinementInv, RefinementInv', [Next]_vars, AppendEvent, ledger' # ledger,
         NEW t \in Txns, t = txn
  PROVE  Publication!Announce(t)
<1>0. /\ txn \in Txns /\ journals[txn] \in Journal /\ pc = "append-event"
      /\ IsOpen(txn) /\ journals[txn].head \in Indexed /\ ledger \in [Txns -> {0, 1}]
      /\ manifests \in [Heads -> Manifest \cup {None}]
  BY DEF AppendEvent, Advance, RefinementInv, SettlementInv, CommitInv, TypeInv, TypeOK,
         Control, FinalizePcs, JournalFollowsWriter
<1> DEFINE h == journals[txn].head
           w == [head |-> h, docs |-> journals[txn].docs, chunks |-> journals[txn].chunks]
<1>1. h \in Heads /\ manifests[h] \in Manifest
  BY <1>0 DEF Indexed
<1>2. w \in [head : Heads, docs : SUBSET Version, chunks : SUBSET Version]
  BY <1>0, <1>1 DEF Journal
<1>3. WorkOf(t) = w /\ w # None
  BY <1>0, <1>2, ManifestAssumption DEF WorkOf, Begun, IsOpen
<1>4. Readable(h) = [docs |-> manifests[h].docs, chunks |-> manifests[h].chunks]
  BY <1>0, AllReadable
<1>5. Readable(h) \in [docs : SUBSET Version, chunks : SUBSET Version]
  BY <1>1, <1>4 DEF Manifest
<1>6. Readable(h) # None
  BY <1>5, ManifestAssumption
<1>7. w.docs \subseteq Readable(h).docs /\ w.chunks \subseteq Readable(h).chunks
  BY <1>0, <1>4 DEF RefinementInv, JournalNamesWork, Holds, FinalizePcs
<1>8. ledger[t] = 0 /\ ledger' = [ledger EXCEPT ![t] = 1]
  BY <1>0 DEF AppendEvent
<1>9. UNCHANGED <<manifests, journals>>
  BY DEF AppendEvent
<1>10. [g \in Heads |-> Readable(g)'] = [g \in Heads |-> Readable(g)]
  BY <1>9, ReadersSee
<1>11. [u \in Txns |-> WorkOf(u)'] = [u \in Txns |-> WorkOf(u)]
  BY <1>9 DEF WorkOf, Begun
<1>12. w.head = h
  OBVIOUS
<1> HIDE DEF w, h
<1>13. QED
  BY <1>0, <1>1, <1>3, <1>6, <1>7, <1>8, <1>10, <1>11, <1>12
     DEF Publication!Announce, Publication!Holds, WorkOf

\* Every step of the pipeline is a step of the abstract specification, or one
\* its variables do not notice.
LEMMA RefinementStep ==
  ASSUME RefinementInv, RefinementInv', [Next]_vars
  PROVE  [Publication!Next]_(Publication!vars)
<1>1. CASE WriteJournal
  <2>1. PICK t \in Txns : t = txn
    BY <1>1 DEF WriteJournal, Advance, RefinementInv, SettlementInv, CommitInv, TypeInv,
                Control, WritePcs
  <2>2. QED
    BY <1>1, <2>1, BeginStep DEF Publication!Next
<1>2. CASE WriteManifest
  <2>1. PICK t \in Txns : t = txn
    BY <1>2 DEF WriteManifest, Advance, RefinementInv, SettlementInv, CommitInv, TypeInv,
                Control, WritePcs
  <2>2. QED
    BY <1>2, <2>1, PublishStep DEF Publication!Next
<1>3. CASE AppendEvent /\ ledger' # ledger
  <2>1. PICK t \in Txns : t = txn
    BY <1>3 DEF AppendEvent, Advance, RefinementInv, SettlementInv, CommitInv, TypeInv,
                Control, FinalizePcs
  <2>2. QED
    BY <1>3, <2>1, AnnounceStep DEF Publication!Next
<1>4. CASE ~ WriteJournal /\ ~ WriteManifest /\ ledger' = ledger
  <2>1. [h \in Heads |-> Readable(h)'] = [h \in Heads |-> Readable(h)]
    BY <1>4, OnlyWriters, ReadersSee
  <2>2. [t \in Txns |-> WorkOf(t)'] = [t \in Txns |-> WorkOf(t)]
    BY <1>4, WorkStays
  <2>3. QED
    BY <1>4, <2>1, <2>2 DEF Publication!vars, WorkOf
<1>5. QED
  BY <1>1, <1>2, <1>3, <1>4, RecordSteps

\* The pipeline implements SnapshotPublication: a snapshot appears whole and in
\* one step, holds the ingest's work and what was published before, and is
\* announced once, whatever crashes, fails, is retried or repaired.
THEOREM Implementation == Spec => ImplementsPublication
<1>1. Init => Publication!Init
  BY DEF Init, Publication!Init, Readable, Indexed, Begun, NoJournal, Statuses
<1>2. QED
  BY <1>1, RefinementStep, Refinements, PTL DEF Spec, ImplementsPublication, Publication!Spec

=============================================================================
