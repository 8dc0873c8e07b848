--------------------------- MODULE Readers_proofs ---------------------------
(***************************************************************************)
(* For any trees, commits, sessions, captures, maxima and hits, and what-  *)
(* ever is typed: what repair plans leads to a snapshot of HEAD, packs are *)
(* diverse, log agrees with the narrative, replaying the narrative gives   *)
(* the newest decisions, a report carries the statuses drift gives and     *)
(* shows the worst first, and the explorer shows what was chosen last.     *)
(*                                                                         *)
(* RepositoryInv says of what the commands left behind what the readers    *)
(* rely on, LedgerInv which command, of which commit, recorded an event,   *)
(* without which two events could pass for one.  What readers compute from *)
(* it are lists, finite and typed, where each loop of the code is a        *)
(* function that the lemma about the loop says exists.  Faithful says what *)
(* the passes over a report leave in it.  ReportInv and ChoiceInv carry    *)
(* its lists to the explorer, where a choice is selected, visible, and     *)
(* hidden by no other selection.                                           *)
(***************************************************************************)
EXTENDS Explorer, Lists_proofs

-----------------------------------------------------------------------------
\* The repository: what every reader finds.

\* What has a title that is a number; records whose ids are numbers and that have one.
Titled(d) == "title" \in DOMAIN d /\ d.title \in Int
AllTitled(docs) ==
    /\ IsFiniteSet(DOMAIN docs) /\ DOMAIN docs \subseteq Int
    /\ \A p \in DOMAIN docs : Titled(docs[p])
\* What a memory remembers are lists.
Remembers(record) ==
    \A field \in {"openLoops", "constraints", "nextActions", "decisions"} : IsList(record[field])
\* Between commands: the snapshots are of commits, and every document and every
\* artifact has a title.
RepositoryInv ==
    /\ commits \in Seq(Trees) /\ Len(commits) <= MaxCommits
    /\ DOMAIN manifests \subseteq 1..Len(commits)
    /\ \A c \in DOMAIN manifests : AllTitled(manifests[c].docs)
    /\ AllTitled(artifacts)
    /\ IsFiniteSet(ledger)
    /\ working # Null => Remembers(working)
    /\ latest # Null => Remembers(latest)

\* A record keeps its title unless it is given another.
LEMMA TitledWith ==
  ASSUME NEW d, Titled(d), NEW f, "title" \notin DOMAIN f
  PROVE  Titled(With(d, f))
BY DEF Titled, With

\* Records that have titles, and others laid over them, have titles.
LEMMA AllTitledWith ==
  ASSUME NEW d, NEW e, AllTitled(d), AllTitled(e)
  PROVE  AllTitled(With(d, e))
<1>1. DOMAIN With(d, e) = DOMAIN d \cup DOMAIN e
  BY DEF With
<1>2. IsFiniteSet(DOMAIN d \cup DOMAIN e)
  BY FS_Union DEF AllTitled
<1>3. \A p \in DOMAIN d \cup DOMAIN e : With(d, e)[p] = IF p \in DOMAIN e THEN e[p] ELSE d[p]
  BY DEF With
<1>4. QED
  BY <1>1, <1>2, <1>3 DEF AllTitled

\* So have some of them.
LEMMA AllTitledRestricted ==
  ASSUME NEW d, NEW S, AllTitled(d)
  PROVE  AllTitled(Restricted(d, S))
<1>1. DOMAIN Restricted(d, S) = DOMAIN d \cap S
  BY DEF Restricted
<1>2. IsFiniteSet(DOMAIN d \cap S)
  BY FS_Subset DEF AllTitled
<1>3. \A p \in DOMAIN d \cap S : Restricted(d, S)[p] = d[p]
  BY DEF Restricted
<1>4. QED
  BY <1>1, <1>2, <1>3 DEF AllTitled

\* The tree of HEAD has documents with titles, ...
LEMMA HeadTitled ==
  ASSUME RepositoryInv
  PROVE  HEAD \in Nat /\ AllTitled(Tree(HEAD))
<1>1. HEAD \in Nat
  BY LenProperties DEF RepositoryInv, HEAD
<1>2. CASE HEAD = 0
  <2>1. DOMAIN Tree(HEAD) = {}
    BY <1>2 DEF Tree
  <2>2. QED
    BY <1>1, <2>1, FS_EmptySet DEF AllTitled
<1>3. CASE HEAD # 0
  <2>1. commits[HEAD] \in Trees
    BY <1>1, <1>3, ElementOfSeq DEF RepositoryInv, HEAD
  <2>2. QED
    BY <1>1, <1>3, <2>1, TreeAssumption DEF Tree, AllTitled, Titled
<1>4. QED
  BY <1>2, <1>3

\* ... and an ingest, full or partial, publishes documents with titles.
LEMMA IngestTitled ==
  ASSUME RepositoryInv, NEW request, CanIngest(request)
  PROVE  AllTitled(IngestDocs(request))
<1>1. ASSUME NEW paths PROVE AllTitled(Read(paths))
  <2> DEFINE tree == Restricted(Supported(Tree(HEAD)), paths)
  <2>1. AllTitled(tree)
    BY HeadTitled, AllTitledRestricted DEF Supported
  <2>2. Read(paths) = [p \in DOMAIN tree |-> Version(tree[p])]
    BY DEF Read
  <2> HIDE DEF tree
  <2>3. \A p \in DOMAIN tree : Titled(Version(tree[p]))
    BY <2>1, TitledWith DEF Version, AllTitled
  <2>4. QED
    BY <2>1, <2>2, <2>3 DEF AllTitled
<1>2. CASE request.all
  BY <1>1, <1>2 DEF IngestDocs
<1>3. CASE ~request.all
  <2>1. IngestBase \in Indexed
    BY <1>3 DEF CanIngest, IngestBase
  <2>2. AllTitled(manifests[IngestBase].docs)
    BY <2>1 DEF RepositoryInv, Indexed
  <2>3. QED
    BY <1>1, <1>3, <2>2, AllTitledWith DEF IngestDocs
<1>4. QED
  BY <1>2, <1>3

\* An ingest keeps the invariant of the repository.
LEMMA RunIngestStep ==
  ASSUME RepositoryInv, NEW request, CanIngest(request), RunIngest(request)
  PROVE  RepositoryInv'
<1> DEFINE added == [c \in {HEAD} |-> Manifest(request)]
<1>1. manifests' = With(manifests, added) /\ artifacts' = Bound
      /\ UNCHANGED <<commits, working, latest>>
  BY DEF RunIngest
<1>2. HEAD \in 1..Len(commits)
  BY HeadTitled DEF CanIngest, HEAD
<1>3. DOMAIN manifests' = DOMAIN manifests \cup {HEAD}
      /\ \A c \in DOMAIN manifests' :
           manifests'[c] = IF c = HEAD THEN Manifest(request) ELSE manifests[c]
  BY <1>1 DEF With
<1>4. AllTitled(Manifest(request).docs)
  BY IngestTitled DEF Manifest
<1>5. \A c \in DOMAIN manifests' : AllTitled(manifests'[c].docs)
  BY <1>3, <1>4 DEF RepositoryInv
<1>6. AllTitled(artifacts')
  <2>1. /\ DOMAIN Bound = DOMAIN artifacts
        /\ \A id \in DOMAIN artifacts :
             Bound[id] = IF Binds(id) THEN [artifacts[id] EXCEPT !.bound = HEAD, !.updatedAt = Now]
                         ELSE artifacts[id]
    BY DEF Bound
  <2>2. AllTitled(artifacts)
    BY DEF RepositoryInv
  <2>3. \A id \in DOMAIN artifacts : Titled(Bound[id])
    BY <2>1, <2>2 DEF AllTitled, Titled
  <2>4. QED
    BY <1>1, <2>1, <2>2, <2>3 DEF AllTitled
<1>7. IsFiniteSet(ledger')
  <2>1. \E e : ledger' = ledger \cup {e}
    BY DEF RunIngest
  <2>2. QED
    BY <2>1, FS_AddElement DEF RepositoryInv
<1> HIDE DEF added
<1>8. DOMAIN manifests' \subseteq 1..Len(commits')
  BY <1>1, <1>2, <1>3 DEF RepositoryInv
<1>9. QED
  BY <1>1, <1>5, <1>6, <1>7, <1>8 DEF RepositoryInv

\* What a session leaves are lists.
LEMMA WrappedRemembers ==
  ASSUME NEW session \in Sessions
  PROVE  /\ Remembers(Wrapped(session))
         /\ Remembers([Wrapped(session) EXCEPT !.openLoops = ActiveLoops(session.openLoops)])
<1> DEFINE Fields == {"openLoops", "constraints", "nextActions", "decisions"}
<1>1. \A field \in Fields : field \in DOMAIN session /\ IsList(session[field])
  BY SessionAssumption
<1>2. \A field \in Fields : /\ field \in DOMAIN Wrapped(session)
                            /\ Wrapped(session)[field] = session[field]
  BY <1>1 DEF Wrapped, With
<1>3. Remembers(Wrapped(session))
  BY <1>1, <1>2 DEF Remembers
<1>4. IsList(ActiveLoops(session.openLoops))
  <2>1. IsList(session.openLoops)
    BY <1>1
  <2>2. QED
    BY <2>1, KeptLists DEF ActiveLoops
<1> DEFINE kept == [Wrapped(session) EXCEPT !.openLoops = ActiveLoops(session.openLoops)]
<1>5. ASSUME NEW field \in Fields PROVE IsList(kept[field])
  <2>1. CASE field = "openLoops"
    BY <1>2, <1>4, <2>1
  <2>2. CASE field # "openLoops"
    BY <1>1, <1>2, <2>2
  <2>3. QED
    BY <2>1, <2>2
<1>6. QED
  BY <1>3, <1>5 DEF Remembers

\* Every step of the readers keeps the invariant of the repository, ...
LEMMA RepositoryStep ==
  ASSUME RepositoryInv, [Next]_<<repository, report, explorer>>
  PROVE  RepositoryInv'
<1>1. ASSUME NEW tree \in Trees, Commit(tree) PROVE RepositoryInv'
  <2>1. commits' \in Seq(Trees) /\ Len(commits') = Len(commits) + 1
    BY <1>1, AppendProperties DEF Commit, RepositoryInv
  <2>2. Len(commits) \in Nat /\ Len(commits) < MaxCommits
    BY <1>1, LenProperties DEF Commit, HEAD, RepositoryInv
  <2>3. Len(commits') <= MaxCommits /\ 1..Len(commits) \subseteq 1..Len(commits')
    BY <2>1, <2>2, BoundAssumption
  <2>4. UNCHANGED files
    BY <1>1 DEF Commit
  <2>5. QED
    BY <2>1, <2>3, <2>4 DEF RepositoryInv, files
<1>2. ASSUME NEW i \in DOMAIN Batches, Capture(i) PROVE RepositoryInv'
  <2> DEFINE records == Batches[i].records
             written == [id \in DOMAIN records |->
                           With(records[id], [status |-> "captured", source |-> HeadSha,
                                              bound |-> HeadSha, createdAt |-> Now,
                                              updatedAt |-> Now])]
  <2>1. artifacts' = With(artifacts, written)
    BY <1>2 DEF Capture
  <2>2. AllTitled(written)
    <3>1. AllTitled(records)
      BY RecordAssumption DEF AllTitled, Titled
    <3>2. DOMAIN written = DOMAIN records
      OBVIOUS
    <3>3. ASSUME NEW id \in DOMAIN records PROVE Titled(written[id])
      <4>1. Titled(records[id])
        BY <3>1 DEF AllTitled
      <4>2. QED
        BY <4>1, TitledWith
    <3> HIDE DEF written, records
    <3>4. QED
      BY <3>1, <3>2, <3>3 DEF AllTitled
  <2> HIDE DEF written, records
  <2>3. AllTitled(artifacts')
    BY <2>1, <2>2, AllTitledWith DEF RepositoryInv
  <2>4. IsFiniteSet(ledger')
    <3>1. \E e : ledger' = ledger \cup {e}
      BY <1>2 DEF Capture
    <3>2. QED
      BY <3>1, FS_AddElement DEF RepositoryInv
  <2>5. UNCHANGED <<commits, manifests, working, latest>>
    BY <1>2 DEF Capture
  <2>6. QED
    BY <2>3, <2>4, <2>5 DEF RepositoryInv
<1>3. ASSUME NEW id \in DOMAIN artifacts, NEW next, Review(id, next) PROVE RepositoryInv'
  <2>1. artifacts' = [artifacts EXCEPT ![id].status = next, ![id].updatedAt = Now]
        /\ UNCHANGED <<commits, manifests, working, latest>>
    BY <1>3 DEF Review
  <2>2. AllTitled(artifacts)
    BY DEF RepositoryInv
  <2>3. DOMAIN artifacts' = DOMAIN artifacts /\ \A x \in DOMAIN artifacts : Titled(artifacts'[x])
    BY <2>1, <2>2 DEF AllTitled, Titled
  <2>4. IsFiniteSet(ledger')
    <3>1. \E e : ledger' = ledger \cup {e}
      BY <1>3 DEF Review
    <3>2. QED
      BY <3>1, FS_AddElement DEF RepositoryInv
  <2>5. AllTitled(artifacts')
    BY <2>2, <2>3 DEF AllTitled
  <2>6. QED
    BY <2>1, <2>4, <2>5 DEF RepositoryInv
<1>4. ASSUME NEW session \in Sessions, Wrap(session) \/ WrapCutShort(session)
      PROVE  RepositoryInv'
  <2>1. latest' = latest \/ latest' = Wrapped(session)
    BY <1>4 DEF Wrap, WrapCutShort, WriteSession
  <2>2. \/ working' = working
        \/ working' = [Wrapped(session) EXCEPT !.openLoops = ActiveLoops(session.openLoops)]
    BY <1>4 DEF Wrap, WrapCutShort
  <2>3. latest' # Null => Remembers(latest')
    BY <2>1, WrappedRemembers DEF RepositoryInv
  <2>4. working' # Null => Remembers(working')
    BY <2>2, WrappedRemembers DEF RepositoryInv
  <2>5. IsFiniteSet(ledger')
    <3>1. ledger' = ledger \/ \E e : ledger' = ledger \cup {e}
      BY <1>4 DEF Wrap, WrapCutShort
    <3>2. QED
      BY <3>1, FS_AddElement DEF RepositoryInv
  <2>6. UNCHANGED <<commits, manifests, artifacts>>
    BY <1>4 DEF Wrap, WrapCutShort
  <2>7. QED
    BY <2>3, <2>4, <2>5, <2>6 DEF RepositoryInv
<1>5. ASSUME UNCHANGED repository PROVE RepositoryInv'
  BY <1>5 DEF repository, files, RepositoryInv
<1>6. CASE RepositoryNext
  BY <1>1, <1>2, <1>3, <1>4, <1>6, RunIngestStep DEF RepositoryNext, Ingest
<1>7. ASSUME NEW options, Repair(options) PROVE RepositoryInv'
  BY <1>7, RunIngestStep DEF Repair
<1>8. QED
  BY <1>5, <1>6, <1>7 DEF Next, ExplorerNext

\* ... which holds in the beginning.
LEMMA RepositoryInitially == Init => RepositoryInv
<1> SUFFICES ASSUME Init PROVE RepositoryInv
  OBVIOUS
<1>1. commits = <<>> /\ manifests = <<>> /\ artifacts = <<>> /\ ledger = {}
      /\ working = Null /\ latest = Null
  BY DEF Init, RepositoryInit
<1>2. DOMAIN manifests = {} /\ DOMAIN artifacts = {}
  BY <1>1
<1>3. commits \in Seq(Trees) /\ Len(commits) = 0
  BY <1>1, EmptySeq
<1>4. AllTitled(artifacts)
  BY <1>2, FS_EmptySet DEF AllTitled
<1>5. QED
  BY <1>1, <1>2, <1>3, <1>4, FS_EmptySet, BoundAssumption DEF RepositoryInv

-----------------------------------------------------------------------------
\* drift and repair.

\* LatestByName is one of the snapshots, if there is one.
LEMMA LatestIsIndexed ==
  ASSUME RepositoryInv, Indexed # {}
  PROVE  LatestByName \in Indexed
<1>1. \A c \in Indexed : c \in 1..MaxCommits /\ ShaRank[c] \in 1..MaxCommits
  <2>1. Len(commits) \in Nat /\ Len(commits) <= MaxCommits
    BY LenProperties DEF RepositoryInv
  <2>2. \A c \in Indexed : c \in 1..MaxCommits
    BY <2>1, BoundAssumption DEF RepositoryInv, Indexed
  <2>3. QED
    BY <2>2, RankAssumption
<1> DEFINE n == MaxCommits
<1>2. n \in Nat /\ \A c \in Indexed : ShaRank[c] <= n
  BY <1>1, BoundAssumption
<1> HIDE DEF n
<1> DEFINE T == {n - ShaRank[c] : c \in Indexed}
<1>4. T \subseteq Nat /\ T # {}
  BY <1>1, <1>2
<1>5. PICK t \in T : \A u \in T : t <= u
  <2> HIDE DEF T
  <2>1. QED
    BY <1>4, Least
<1>6. PICK c \in Indexed : t = n - ShaRank[c]
  BY <1>5
<1>7. \A d \in Indexed : ShaRank[d] <= ShaRank[c]
  <2>1. \A d \in Indexed : n - ShaRank[c] <= n - ShaRank[d]
    BY <1>5, <1>6
  <2>2. QED
    BY <1>1, <1>2, <2>1
<1>8. QED
  BY <1>6, <1>7 DEF LatestByName

-----------------------------------------------------------------------------
\* The items of drift, before they are filtered and cut.
AllItems == BaselineItems \cup DocumentItems(NoOptions) \cup MemoryItems(NoOptions)
            \cup SuiteItems(NoOptions)
IsItem(x) == /\ x.title \in Int /\ x.id \in Int
             /\ x.status \in {"stale", "suspect", "fresh"}
             /\ x.type \in {"baseline", "document", "harnessSuite", "memoryArtifact"}

\* The status of an item is one of three.
LEMMA StatusOf == \A reasons : Status(reasons) \in {"stale", "suspect", "fresh"}
BY DEF Status

\* The documents of the baseline.
BaselineDocs == IF Baseline.snapshot = Null THEN {} ELSE DOMAIN manifests[Baseline.snapshot].docs
LEMMA BaselineDocsFinite ==
  ASSUME RepositoryInv
  PROVE  IsFiniteSet(BaselineDocs) /\ BaselineDocs \subseteq Int
<1>1. CASE Baseline.snapshot = Null
  BY <1>1, FS_EmptySet DEF BaselineDocs
<1>2. CASE Baseline.snapshot # Null
  <2>1. Baseline.snapshot \in Indexed
    BY <1>2, LatestIsIndexed DEF Baseline
  <2>2. QED
    BY <1>2, <2>1 DEF BaselineDocs, RepositoryInv, AllTitled, Indexed
<1>3. QED
  BY <1>1, <1>2

\* Every item is of one of four types, and is known by its id among those of its type.
LEMMA ItemsByType ==
  ASSUME RepositoryInv
  PROVE  /\ IsFiniteSet(AllItems)
         /\ \A x \in AllItems : IsItem(x)
         /\ \A x, y \in AllItems : x.type = y.type /\ x.id = y.id => x = y
<1> DEFINE changed == IF Baseline.snapshot = HEAD THEN {} ELSE ChangedSince(Baseline.snapshot)
           baseline == Item("durable", "baseline", 0, 0, Baseline.reasons, {}, BaselineRefs)
           document == [p \in BaselineDocs |-> DocumentItem(p, changed)]
           memory == [id \in DOMAIN artifacts |->
                        ArtifactItem("memory", "memoryArtifact", id,
                                     ArtifactReasons(artifacts[id]), Affected(artifacts[id]))]
           suite == [id \in DOMAIN artifacts |-> SuiteItem(id)]
           Documents == {document[p] : p \in BaselineDocs}
           Memories == {memory[id] : id \in DOMAIN artifacts}
           Suites == {suite[id] : id \in DOMAIN artifacts}
           Possible == {baseline} \cup Documents \cup Memories \cup Suites
<1>1. IsFiniteSet(BaselineDocs) /\ BaselineDocs \subseteq Int
  BY BaselineDocsFinite
<1>2. /\ IsFiniteSet(DOMAIN artifacts) /\ DOMAIN artifacts \subseteq Int
      /\ \A id \in DOMAIN artifacts : artifacts[id].title \in Int
  BY DEF RepositoryInv, AllTitled, Titled
<1>3. IsItem(baseline) /\ baseline.type = "baseline"
  BY StatusOf DEF Item, IsItem
<1>4. ASSUME NEW p \in BaselineDocs
      PROVE  IsItem(document[p]) /\ document[p].type = "document" /\ document[p].id = p
  BY <1>1, StatusOf DEF DocumentItem, Item, IsItem
<1>5. ASSUME NEW id \in DOMAIN artifacts
      PROVE  IsItem(memory[id]) /\ memory[id].type = "memoryArtifact" /\ memory[id].id = id
  BY <1>2, StatusOf DEF ArtifactItem, Item, IsItem
<1>6. ASSUME NEW id \in DOMAIN artifacts
      PROVE  IsItem(suite[id]) /\ suite[id].type = "harnessSuite" /\ suite[id].id = id
  BY <1>2, StatusOf DEF SuiteItem, ArtifactItem, Item, IsItem
<1>7. AllItems \subseteq Possible
  <2>1. BaselineItems \subseteq {baseline}
    BY DEF BaselineItems
  <2>2. DocumentItems(NoOptions) \subseteq Documents
    <3>1. CASE Baseline.snapshot = Null
      BY <3>1 DEF DocumentItems
    <3>2. CASE Baseline.snapshot # Null
      <4>1. \A p \in BaselineDocs : document[p] = DocumentItem(p, changed)
        OBVIOUS
      <4>2. DocumentItems(NoOptions) =
              {DocumentItem(p, changed) :
                p \in {q \in DOMAIN manifests[Baseline.snapshot].docs : Matches(NoOptions.path, q)}}
        BY <3>2 DEF DocumentItems
      <4>3. DOMAIN manifests[Baseline.snapshot].docs = BaselineDocs
        BY <3>2 DEF BaselineDocs
      <4> HIDE DEF changed, document
      <4>4. QED
        BY <4>1, <4>2, <4>3
    <3>3. QED
      BY <3>1, <3>2
  <2>3. MemoryItems(NoOptions) \subseteq Memories
    BY DEF MemoryItems
  <2>4. SuiteItems(NoOptions) \subseteq Suites
    BY DEF SuiteItems
  <2> HIDE DEF baseline, Documents, Memories, Suites
  <2>5. QED
    BY <2>1, <2>2, <2>3, <2>4 DEF AllItems
<1>8. IsFiniteSet(Possible)
  <2>1. document = [p \in BaselineDocs |-> document[p]]
        /\ memory = [id \in DOMAIN artifacts |-> memory[id]]
        /\ suite = [id \in DOMAIN artifacts |-> suite[id]]
    OBVIOUS
  <2> HIDE DEF document, memory, suite, baseline
  <2>2. IsFiniteSet(Documents)
    BY <1>1, <2>1, FiniteImage
  <2>3. IsFiniteSet(Memories)
    BY <1>2, <2>1, FiniteImage
  <2>4. IsFiniteSet(Suites)
    BY <1>2, <2>1, FiniteImage
  <2>5. IsFiniteSet({baseline})
    BY FS_Singleton
  <2> HIDE DEF Documents, Memories, Suites
  <2>6. QED
    BY <2>2, <2>3, <2>4, <2>5, FS_Union
<1> HIDE DEF document, memory, suite, baseline
<1>9. \A x \in Possible : IsItem(x)
  BY <1>3, <1>4, <1>5, <1>6
<1>10. \A x, y \in Possible : x.type = y.type /\ x.id = y.id => x = y
  BY <1>3, <1>4, <1>5, <1>6
<1> HIDE DEF Possible
<1>11. QED
  BY <1>7, <1>8, <1>9, <1>10, FS_Subset

\* drift without options shows all of them.
LEMMA DriftShowsAll ==
  ASSUME RepositoryInv
  PROVE  /\ IsList(DriftItems(NoOptions))
         /\ ToSet(DriftItems(NoOptions)) = AllItems
<1> DEFINE key == [item \in AllItems |-> ItemKey(item)]
<1>1. DriftItems(NoOptions) = InOrder(AllItems, key)
  <2>1. NoOptions.scope = "all" /\ NoOptions.maxCount = Null
    BY DEF NoOptions
  <2>2. QED
    BY <2>1 DEF DriftItems, WorstFirst, AllItems, Limited
<1>2. \A x \in AllItems : IsItem(x) /\ key[x] = ItemKey(x)
  BY ItemsByType
<1>3. ASSUME NEW x, IsItem(x)
      PROVE  StatusPriority(x.status) \in 1..3
  <2>1. \E i \in 1..3 : <<"stale", "suspect", "fresh">>[i] = x.status
    BY <1>3 DEF IsItem
  <2>2. QED
    BY <2>1 DEF StatusPriority
<1>4. ASSUME NEW x, IsItem(x)
      PROVE  /\ TypePriority(x.type) \in 1..4
             /\ <<"baseline", "document", "harnessSuite", "memoryArtifact">>[TypePriority(x.type)] = x.type
  <2>1. \E i \in 1..4 : <<"baseline", "document", "harnessSuite", "memoryArtifact">>[i] = x.type
    BY <1>4 DEF IsItem
  <2>2. QED
    BY <2>1 DEF TypePriority
<1>5. ASSUME NEW x \in AllItems PROVE key[x] \in [1..4 -> Int]
  BY <1>2, <1>3, <1>4 DEF ItemKey, IsItem
<1>6. ASSUME NEW x \in AllItems, NEW y \in AllItems, key[x] = key[y] PROVE x = y
  <2>1. TypePriority(x.type) = TypePriority(y.type) /\ x.id = y.id
    BY <1>2, <1>6 DEF ItemKey
  <2>2. x.type = y.type
    BY <1>2, <1>4, <2>1
  <2>3. QED
    BY <2>1, <2>2, ItemsByType
<1>7. Distinguishes(key, AllItems)
  BY <1>5, <1>6 DEF Distinguishes
<1> HIDE DEF key
<1>8. QED
  BY <1>1, <1>7, ItemsByType, InOrderSorts, InOrderLists DEF IsOrderOf

\* The actions of the other kinds are not ingests.
LEMMA IngestsPlanned ==
  PlannedIngests(NoOptions) = {a \in IngestActions(DriftItems(NoOptions)) : a.action = "ingest"}
<1> DEFINE items == DriftItems(NoOptions)
           others == UNION {VerifyActions(items[i])
                            \cup {Action(a, items[i].id, "blocked", Null) :
                                    a \in ManualActions(items[i])} : i \in DOMAIN items}
<1>1. RepairPlan(NoOptions) = IngestActions(items) \cup others
  BY DEF RepairPlan, NoOptions
<1>2. ASSUME NEW i \in DOMAIN items, NEW a \in VerifyActions(items[i])
      PROVE  a.action # "ingest"
  BY DEF VerifyActions, Action
<1>3. ASSUME NEW i \in DOMAIN items, NEW a \in ManualActions(items[i])
      PROVE  Action(a, items[i].id, "blocked", Null).action # "ingest"
  BY DEF ManualActions, Action
<1>4. \A a \in others : a.action # "ingest"
  BY <1>2, <1>3
<1> HIDE DEF others, items
<1>5. QED
  BY <1>1, <1>4 DEF PlannedIngests, items

\* In every state with such a repository a repair leads to a snapshot of HEAD.
LEMMA RepairFollows == RepositoryInv => RepairIndexesHead
<1> SUFFICES ASSUME RepositoryInv, HEAD > 0
             PROVE  /\ PlannedIngests(NoOptions) = {} <=> HEAD \in Indexed
                    /\ \A a \in PlannedIngests(NoOptions) :
                         CanIngest(a.request) /\ IngestDocs(a.request) = Read(DOMAIN Tree(HEAD))
  BY DEF RepairIndexesHead
<1> DEFINE items == DriftItems(NoOptions)
<1>1. IsList(items) /\ ToSet(items) = AllItems
  BY DriftShowsAll
<1>2. \A i \in DOMAIN items : items[i] \in AllItems
  BY <1>1 DEF ToSet
<1>3. \A x \in AllItems : \E i \in DOMAIN items : items[i] = x
  BY <1>1 DEF ToSet
<1>4. CASE HEAD \in Indexed
  <2>1. Baseline = [snapshot |-> HEAD, reasons |-> {}]
    BY <1>4 DEF Baseline
  <2>10. BaselineItems = {}
    BY <2>1 DEF BaselineItems
  <2>11. \A x \in DocumentItems(NoOptions) : x.type = "document" /\ x.reasons = {}
    <3>1. \A p : DocumentItem(p, {}).type = "document" /\ DocumentItem(p, {}).reasons = {}
      BY DEF DocumentItem, Item
    <3>2. \A x \in DocumentItems(NoOptions) : \E p : x = DocumentItem(p, {})
      BY <2>1 DEF DocumentItems
    <3>3. QED
      BY <3>1, <3>2
  <2>12. \A x \in MemoryItems(NoOptions) : x.type = "memoryArtifact"
    BY DEF MemoryItems, ArtifactItem, Item
  <2>13. \A x \in SuiteItems(NoOptions) : x.type = "harnessSuite"
    <3>1. \A id : SuiteItem(id).type = "harnessSuite"
      BY DEF SuiteItem, ArtifactItem, Item
    <3>2. QED
      BY <3>1 DEF SuiteItems
  <2>2. \A x \in AllItems : x.type # "baseline"
    BY <2>10, <2>11, <2>12, <2>13 DEF AllItems
  <2>3. \A x \in AllItems : x.type = "document" => "tracked_path_changed" \notin x.reasons
    BY <2>10, <2>11, <2>12, <2>13 DEF AllItems
  <2> HIDE DEF items
  <2>4. ~NeedsFullIngest(items) /\ TargetedPaths(items) = {}
    BY <1>2, <2>2, <2>3 DEF NeedsFullIngest, TargetedPaths
  <2>5. QED
    BY <1>4, <2>4, IngestsPlanned DEF IngestActions, items
<1>5. CASE HEAD \notin Indexed
  <2> DEFINE baseline == Item("durable", "baseline", 0, 0, Baseline.reasons, {}, BaselineRefs)
             ingest == Action("ingest", 0, "planned", FullIngest)
  <2>1. Baseline.reasons \cap {"no_baseline", "missing_manifest_anchor"} # {}
    BY <1>5 DEF Baseline
  <2>2. baseline \in AllItems
    BY <2>1 DEF AllItems, BaselineItems
  <2>3. baseline.type = "baseline" /\ baseline.reasons = Baseline.reasons
    BY DEF Item
  <2> HIDE DEF items, baseline
  <2>4. NeedsFullIngest(items)
    <3>1. PICK i \in DOMAIN items : items[i] = baseline
      BY <1>3, <2>2
    <3>2. QED
      BY <2>1, <2>3, <3>1 DEF NeedsFullIngest
  <2>5. IngestActions(items) = {ingest}
    BY <2>4 DEF IngestActions
  <2>6. ingest.action = "ingest" /\ ingest.request.all = TRUE
    BY DEF Action, FullIngest
  <2> HIDE DEF ingest
  <2>7. PlannedIngests(NoOptions) = {ingest}
    BY <2>5, <2>6, IngestsPlanned DEF items
  <2>8. QED
    BY <1>5, <2>6, <2>7 DEF CanIngest, IngestDocs
<1>6. QED
  BY <1>4, <1>5

-----------------------------------------------------------------------------
\* context pack: the tokens of a pack, and the two passes over the candidates.

\* The sum of usedTokens, ...
Sums(used, hits) ==
    /\ used \in [0..Len(hits) -> Nat]
    /\ used[0] = 0 /\ used[Len(hits)] = Used(hits)
    /\ \A n \in 1..Len(hits) : used[n] = used[n - 1] + hits[n].tokens

\* ... which is one.
LEMMA UsedLoop ==
  ASSUME NEW hits \in Seq(PackHits)
  PROVE  \E used : Sums(used, hits)
<1> DEFINE N == Len(hits)
           used[n \in 0..Len(hits)] == IF n = 0 THEN 0 ELSE used[n - 1] + hits[n].tokens
           Loop(f) == f = [n \in 0..Len(hits) |-> IF n = 0 THEN 0 ELSE f[n - 1] + hits[n].tokens]
           step == [n \in 1..N |-> [v \in Nat |-> v + hits[n].tokens]]
<1>1. N \in Nat /\ \A n \in 1..N : hits[n].tokens \in Nat
  BY PackAssumption, LenProperties, ElementOfSeq
<1> HIDE DEF N
<1>2. step \in [1..N -> [Nat -> Nat]]
  BY <1>1
<1>3. PICK f \in [0..N -> Nat] : Computes(f, N, 0, step)
  <2> HIDE DEF step
  <2>1. QED
    BY <1>1, <1>2, Iteration, Zenon
<1>4. \A n \in 0..N : f[n] = IF n = 0 THEN 0 ELSE f[n - 1] + hits[n].tokens
  <2>1. f[0] = 0 /\ \A n \in 1..N : f[n] = step[n][f[n - 1]]
    BY <1>3 DEF Computes
  <2>2. ASSUME NEW n \in 1..N PROVE n # 0 /\ f[n] = f[n - 1] + hits[n].tokens
    <3>1. n - 1 \in 0..N /\ n # 0
      BY <1>1
    <3>2. f[n - 1] \in Nat
      BY <1>3, <3>1
    <3>3. QED
      BY <2>1, <3>1, <3>2
  <2>3. \A n \in 0..N : n = 0 \/ n \in 1..N
    BY <1>1
  <2> HIDE DEF step
  <2>4. QED
    BY <2>1, <2>2, <2>3
<1>5. Loop(f)
  BY <1>3, <1>4 DEF N
<1>6. used = CHOOSE g : Loop(g)
  OBVIOUS
<1> HIDE DEF used, step
<1>7. Loop(used)
  <2> HIDE DEF Loop
  <2>1. QED
    BY <1>5, <1>6, Zenon
<1>8. /\ DOMAIN used = 0..N /\ used[0] = 0
      /\ \A n \in 1..N : used[n] = used[n - 1] + hits[n].tokens
  <2>1. used = [n \in 0..N |-> IF n = 0 THEN 0 ELSE used[n - 1] + hits[n].tokens]
    BY <1>7 DEF N
  <2>2. \A n \in 1..N : n \in 0..N /\ n # 0
    BY <1>1
  <2>3. 0 \in 0..N
    BY <1>1
  <2>4. QED
    BY <2>1, <2>2, <2>3
<1>9. \A n \in 0..N : used[n] \in Nat
  <2> DEFINE T == {n \in Int : used[n] \in Nat}
  <2>1. 0 \in T
    BY <1>8
  <2>2. ASSUME NEW n \in 1..N, n - 1 \in T PROVE n \in T
    <3>1. used[n - 1] \in Nat /\ n \in Int
      BY <2>2
    <3>2. hits[n].tokens \in Nat
      BY <1>1
    <3>3. used[n] = used[n - 1] + hits[n].tokens
      BY <1>8
    <3>4. used[n] \in Nat
      BY <3>1, <3>2, <3>3
    <3>5. QED
      BY <3>1, <3>4
  <2> HIDE DEF T
  <2>3. \A n \in 0..N : n \in T
    BY <1>1, <2>1, <2>2, Upward
  <2>4. QED
    BY <2>3 DEF T
<1>10. used \in [0..N -> Nat]
  <2>1. used = [n \in 0..N |-> used[n]]
    BY <1>7 DEF N
  <2>2. QED
    BY <1>9, <2>1
<1>11. used[N] = Used(hits)
  BY DEF Used, used, N
<1>12. Sums(used, hits)
  BY <1>8, <1>10, <1>11 DEF Sums, N
<1>13. QED
  BY <1>12

\* The tokens of a pack are a number, ...
LEMMA UsedNat ==
  ASSUME NEW hits \in Seq(PackHits)
  PROVE  Used(hits) \in Nat
<1>1. PICK used : Sums(used, hits)
  BY UsedLoop
<1>2. Len(hits) \in 0..Len(hits)
  BY LenProperties
<1>3. QED
  BY <1>1, <1>2 DEF Sums

\* ... those of no hits are none, ...
LEMMA UsedEmpty == Used(<<>>) = 0
<1>1. <<>> \in Seq(PackHits) /\ Len(<<>>) = 0
  BY EmptySeq
<1>2. PICK used : Sums(used, <<>>)
  BY <1>1, UsedLoop
<1>3. QED
  BY <1>1, <1>2 DEF Sums

\* select adds the tokens of what it appends.
LEMMA UsedAppend ==
  ASSUME NEW hits \in Seq(PackHits), NEW h \in PackHits
  PROVE  Used(Append(hits, h)) = Used(hits) + h.tokens
<1> DEFINE N == Len(hits)
           more == Append(hits, h)
<1>1. /\ N \in Nat /\ more \in Seq(PackHits) /\ Len(more) = N + 1
      /\ more[N + 1] = h /\ \A n \in 1..N : more[n] = hits[n]
  BY AppendProperties, LenProperties
<1>2. PICK a : Sums(a, hits)
  BY UsedLoop
<1>3. PICK b : Sums(b, more)
  BY <1>1, UsedLoop
<1> HIDE DEF more, N
<1> DEFINE T == {n \in Int : a[n] = b[n]}
<1>4. /\ a[0] = 0 /\ a[N] = Used(hits) /\ \A n \in 1..N : a[n] = a[n - 1] + hits[n].tokens
      /\ b[0] = 0 /\ b[N + 1] = Used(more) /\ \A n \in 1..(N + 1) : b[n] = b[n - 1] + more[n].tokens
  BY <1>1, <1>2, <1>3 DEF Sums, N
<1>5. 0 \in T
  BY <1>4
<1>6. ASSUME NEW n \in 1..N, n - 1 \in T PROVE n \in T
  <2>1. n \in 1..(N + 1) /\ n \in Int
    BY <1>1
  <2>2. QED
    BY <1>1, <1>4, <1>6, <2>1
<1>7. N \in T
  <2> HIDE DEF T
  <2>1. \A n \in 0..N : n \in T
    BY <1>1, <1>5, <1>6, Upward
  <2>2. QED
    BY <1>1, <2>1
<1>8. N + 1 \in 1..(N + 1) /\ (N + 1) - 1 = N
  BY <1>1
<1>9. QED
  BY <1>1, <1>4, <1>7, <1>8 DEF more

-----------------------------------------------------------------------------
\* The loops of selectContextHits: what a pass of them has selected, ...
Labels(pack, label) == {label[x] : x \in ToSet(pack)}
Fills(filled, candidates, pack, label, budget) ==
    /\ filled \in [0..Len(candidates) -> Seq(PackHits)]
    /\ filled[0] = pack /\ filled[Len(candidates)] = Filled(candidates, pack, label, budget)
    /\ \A n \in 1..Len(candidates) :
          filled[n] = IF /\ label[candidates[n]] \notin Labels(filled[n - 1], label)
                         /\ Fits(candidates[n], filled[n - 1], budget)
                      THEN Append(filled[n - 1], candidates[n]) ELSE filled[n - 1]

\* ... which is something.
LEMMA FilledLoop ==
  ASSUME NEW candidates \in Seq(PackHits), NEW pack \in Seq(PackHits), NEW label, NEW budget
  PROVE  \E filled : Fills(filled, candidates, pack, label, budget)
<1> DEFINE N == Len(candidates)
           V == Seq(PackHits)
           Add(n, v) == IF /\ label[candidates[n]] \notin {label[x] : x \in ToSet(v)}
                           /\ Fits(candidates[n], v, budget)
                        THEN Append(v, candidates[n]) ELSE v
           filled[n \in 0..Len(candidates)] ==
             IF n = 0 THEN pack
             ELSE LET h == candidates[n]
                      taken == filled[n - 1]
                  IN  IF label[h] \notin {label[x] : x \in ToSet(taken)} /\ Fits(h, taken, budget)
                      THEN Append(taken, h) ELSE taken
           Loop(f) == f = [n \in 0..Len(candidates) |->
             IF n = 0 THEN pack
             ELSE LET h == candidates[n]
                      taken == f[n - 1]
                  IN  IF label[h] \notin {label[x] : x \in ToSet(taken)} /\ Fits(h, taken, budget)
                      THEN Append(taken, h) ELSE taken]
           step == [n \in 1..N |-> [v \in V |-> Add(n, v)]]
<1>1. N \in Nat /\ (\A n \in 1..N : candidates[n] \in PackHits) /\ pack \in V
  BY LenProperties, ElementOfSeq
<1>2. \A n \in 1..N, v \in V : Add(n, v) \in V
  BY <1>1, AppendProperties
<1> HIDE DEF Add, V
<1>3. step \in [1..N -> [V -> V]]
  BY <1>2
<1>4. PICK f \in [0..N -> V] : Computes(f, N, pack, step)
  <2> HIDE DEF N, step
  <2>1. QED
    BY <1>1, <1>3, Iteration, Zenon
<1>5. \A n \in 0..N : f[n] = IF n = 0 THEN pack ELSE Add(n, f[n - 1])
  <2>1. f[0] = pack /\ \A n \in 1..N : f[n] = step[n][f[n - 1]]
    BY <1>4 DEF Computes
  <2>2. ASSUME NEW n \in 1..N PROVE n # 0 /\ f[n] = Add(n, f[n - 1])
    <3>1. n - 1 \in 0..N /\ n # 0
      BY <1>1
    <3>2. f[n - 1] \in V
      BY <1>4, <3>1
    <3>3. QED
      BY <2>1, <3>1, <3>2
  <2>3. \A n \in 0..N : n = 0 \/ n \in 1..N
    BY <1>1
  <2> HIDE DEF step
  <2>4. QED
    BY <2>1, <2>2, <2>3
<1>6. Loop(f)
  <2>1. f = [n \in 0..N |-> IF n = 0 THEN pack ELSE Add(n, f[n - 1])]
    BY <1>4, <1>5
  <2>2. QED
    BY <2>1 DEF Add
<1>7. filled = CHOOSE g : Loop(g)
  OBVIOUS
<1> HIDE DEF filled, step
<1>8. Loop(filled)
  <2> HIDE DEF Loop
  <2>1. QED
    BY <1>6, <1>7, Zenon
<1>9. filled = [n \in 0..N |-> IF n = 0 THEN pack ELSE Add(n, filled[n - 1])]
  BY <1>8 DEF Add
<1> HIDE DEF Loop
<1>10. /\ DOMAIN filled = 0..N /\ filled[0] = pack /\ filled = [n \in 0..N |-> filled[n]]
       /\ \A n \in 1..N : filled[n] = Add(n, filled[n - 1])
  <2>1. \A n \in 1..N : n \in 0..N /\ n # 0
    BY <1>1
  <2>2. 0 \in 0..N
    BY <1>1
  <2>3. QED
    BY <1>9, <2>1, <2>2
<1>11. filled \in [0..N -> V]
  <2> DEFINE T == {n \in Int : filled[n] \in V}
  <2>1. 0 \in T
    BY <1>1, <1>10
  <2>2. ASSUME NEW n \in 1..N, n - 1 \in T PROVE n \in T
    <3>1. filled[n - 1] \in V /\ n \in Int
      BY <2>2
    <3>2. filled[n] \in V
      BY <1>2, <1>10, <3>1
    <3>3. QED
      BY <3>1, <3>2
  <2> HIDE DEF T
  <2>3. \A n \in 0..N : n \in T
    BY <1>1, <2>1, <2>2, Upward
  <2>4. QED
    BY <1>10, <2>3 DEF T
<1>12. filled[N] = Filled(candidates, pack, label, budget)
  BY DEF Filled, filled, N
<1>13. Fills(filled, candidates, pack, label, budget)
  BY <1>10, <1>11, <1>12 DEF Fills, Labels, Add, V
<1>14. QED
  BY <1>13

-----------------------------------------------------------------------------

\* One pack continues another, ...
Grown(before, after) ==
    /\ Len(before) <= Len(after) /\ \A i \in 1..Len(before) : after[i] = before[i]
    /\ ToSet(before) \subseteq ToSet(after) /\ Used(before) <= Used(after)

\* ... has no label twice, ...
Apart(pack, label) == \A i, j \in 1..Len(pack) : label[pack[i]] = label[pack[j]] => i = j

\* ... and has, or has no room for, the label of each of these hits.
Covers(pack, hits, label, budget) ==
    \A h \in hits : label[h] \in Labels(pack, label) \/ ~Fits(h, pack, budget)

\* What a pass over the candidates makes of a pack.
WellFilled(result, candidates, pack, label, budget) ==
    /\ result \in Seq(PackHits) /\ Grown(pack, result)
    /\ (Used(pack) <= budget => Used(result) <= budget)
    /\ (Apart(pack, label) => Apart(result, label))
    /\ \A x \in ToSet(result) : x \in ToSet(pack)
                                  \/ (x \in ToSet(candidates) /\ Fits(x, pack, budget))

\* A hit that is appended makes the pack grow, ...
LEMMA GrownAppend ==
  ASSUME NEW pack \in Seq(PackHits), NEW h \in PackHits
  PROVE  /\ Append(pack, h) \in Seq(PackHits) /\ Grown(pack, Append(pack, h))
         /\ ToSet(Append(pack, h)) = ToSet(pack) \cup {h}
         /\ Len(Append(pack, h)) = Len(pack) + 1 /\ Append(pack, h)[Len(pack) + 1] = h
<1>1. IsList(pack) /\ Len(pack) \in Nat
  BY ListOf
<1>2. /\ Len(Append(pack, h)) = Len(pack) + 1 /\ Append(pack, h)[Len(pack) + 1] = h
      /\ \A i \in 1..Len(pack) : Append(pack, h)[i] = pack[i]
  BY <1>1, ListAppend
<1>3. ToSet(Append(pack, h)) = ToSet(pack) \cup {h}
  BY AppendSet
<1>4. Used(pack) \in Nat /\ h.tokens \in Nat
  BY PackAssumption, UsedNat
<1>5. Used(pack) <= Used(Append(pack, h))
  <2>1. Used(Append(pack, h)) = Used(pack) + h.tokens
    BY UsedAppend
  <2>2. QED
    BY <1>4, <2>1
<1>6. Append(pack, h) \in Seq(PackHits)
  BY AppendProperties
<1>7. Len(pack) <= Len(Append(pack, h))
  BY <1>1, <1>2
<1>8. QED
  BY <1>2, <1>3, <1>5, <1>6, <1>7 DEF Grown

\* ... as it does not when nothing is appended, and growth is growth in steps.
LEMMA GrownSame ==
  ASSUME NEW pack \in Seq(PackHits)
  PROVE  Grown(pack, pack)
<1>1. Len(pack) \in Nat /\ Used(pack) \in Nat
  BY LenProperties, UsedNat
<1>2. QED
  BY <1>1 DEF Grown

\* ... and by continuing what continues it.
LEMMA GrownFurther ==
  ASSUME NEW a \in Seq(PackHits), NEW b \in Seq(PackHits), NEW c \in Seq(PackHits),
         Grown(a, b), Grown(b, c)
  PROVE  Grown(a, c)
<1>1. /\ Len(a) \in Nat /\ Used(a) \in Nat /\ Len(b) \in Nat /\ Used(b) \in Nat
      /\ Len(c) \in Nat /\ Used(c) \in Nat
  BY LenProperties, UsedNat
<1>2. Len(a) <= Len(c) /\ Used(a) <= Used(c)
  BY <1>1 DEF Grown
<1>3. \A i \in 1..Len(a) : c[i] = a[i]
  <2>1. \A i \in 1..Len(a) : i \in 1..Len(b)
    BY <1>1 DEF Grown
  <2>2. QED
    BY <2>1 DEF Grown
<1>4. QED
  BY <1>2, <1>3 DEF Grown

\* What does not fit a pack does not fit it when it has grown.
LEMMA GrownCovers ==
  ASSUME NEW a \in Seq(PackHits), NEW b \in Seq(PackHits), Grown(a, b),
         NEW H \in SUBSET PackHits, NEW label, NEW budget \in Nat, Covers(a, H, label, budget)
  PROVE  Covers(b, H, label, budget)
<1> SUFFICES ASSUME NEW h \in H
             PROVE  label[h] \in Labels(b, label) \/ ~Fits(h, b, budget)
  BY DEF Covers
<1>1. Used(a) \in Nat /\ Used(b) \in Nat /\ h.tokens \in Nat /\ Used(a) <= Used(b)
  BY UsedNat, PackAssumption DEF Grown
<1>2. label[h] \in Labels(a, label) => label[h] \in Labels(b, label)
  BY DEF Grown, Labels
<1>3. ~Fits(h, a, budget) => ~Fits(h, b, budget)
  BY <1>1 DEF Fits
<1>4. QED
  BY <1>2, <1>3 DEF Covers

\* A pass of selectContextHits only adds what fits, ...
LEMMA FilledPack ==
  ASSUME NEW candidates \in Seq(PackHits), NEW pack \in Seq(PackHits), NEW label,
         NEW budget \in Nat
  PROVE  LET result == Filled(candidates, pack, label, budget)
         IN  /\ WellFilled(result, candidates, pack, label, budget)
             /\ Covers(result, ToSet(candidates), label, budget)
<1> DEFINE N == Len(candidates)
           C(n) == {candidates[i] : i \in 1..n}
<1>1. PICK filled : Fills(filled, candidates, pack, label, budget)
  BY FilledLoop
<1> DEFINE Well(n) == WellFilled(filled[n], candidates, pack, label, budget)
           Covered(n) == Covers(filled[n], C(n), label, budget)
           T == {n \in Int : Well(n) /\ Covered(n)}
<1>2. /\ N \in Nat /\ DOMAIN candidates = 1..N /\ \A i \in 1..N : candidates[i] \in PackHits
  BY LenProperties, ElementOfSeq
<1>3. filled[0] = pack
  BY <1>1 DEF Fills
<1>4. 0 \in T
  <2>1. Well(0)
    BY <1>3, GrownSame DEF WellFilled
  <2>2. Covered(0)
    <3>1. C(0) = {}
      OBVIOUS
    <3>2. QED
      BY <3>1 DEF Covers
  <2>3. QED
    BY <2>1, <2>2
<1>5. ASSUME NEW n \in 1..N, n - 1 \in T PROVE n \in T
  <2> DEFINE h == candidates[n]
             v == filled[n - 1]
             w == filled[n]
             new == label[h] \notin Labels(v, label) /\ Fits(h, v, budget)
  <2>1. n \in Int /\ Well(n - 1) /\ Covered(n - 1)
    BY <1>5
  <2>2. /\ h \in PackHits /\ h \in ToSet(candidates) /\ v \in Seq(PackHits) /\ Grown(pack, v)
        /\ C(n) = C(n - 1) \cup {h} /\ C(n - 1) \in SUBSET PackHits
    <3>1. v \in Seq(PackHits) /\ Grown(pack, v)
      BY <2>1 DEF WellFilled
    <3>2. 1..n = 1..(n - 1) \cup {n} /\ 1..(n - 1) \subseteq 1..N
      BY <1>2
    <3>3. C(n) = C(n - 1) \cup {h}
      BY <3>2
    <3>4. QED
      BY <1>2, <3>1, <3>2, <3>3 DEF ToSet
  <2>3. w = IF new THEN Append(v, h) ELSE v
    BY <1>1 DEF Fills
  <2>4. CASE ~new
    <3>1. w = v
      BY <2>3, <2>4
    <3>2. Well(n)
      BY <2>1, <3>1
    <3>3. Covered(n)
      BY <2>1, <2>2, <2>4, <3>1 DEF Covers
    <3>4. QED
      BY <2>1, <3>2, <3>3
  <2>5. CASE new
    <3>1. /\ w \in Seq(PackHits) /\ Grown(v, w) /\ ToSet(w) = ToSet(v) \cup {h}
          /\ Len(w) = Len(v) + 1 /\ w[Len(v) + 1] = h /\ w = Append(v, h)
      BY <2>2, <2>3, <2>5, GrownAppend
    <3>2. Covers(w, C(n - 1), label, budget)
      <4> HIDE DEF v, w, C
      <4>1. Covers(v, C(n - 1), label, budget)
        BY <2>1 DEF v
      <4>2. QED
        BY <2>2, <3>1, <4>1, GrownCovers
    <3>3. label[h] \in Labels(w, label)
      BY <3>1 DEF Labels
    <3>4. Covered(n)
      BY <2>2, <3>2, <3>3 DEF Covers
    <3>5. Grown(pack, w)
      <4> HIDE DEF v, w
      <4>1. QED
        BY <2>2, <3>1, GrownFurther
    <3>6. Used(pack) <= budget => Used(w) <= budget
      <4>1. Used(w) = Used(v) + h.tokens
        BY <2>2, <3>1, UsedAppend
      <4>2. QED
        BY <2>5, <4>1 DEF Fits
    <3>7. Apart(pack, label) => Apart(w, label)
      <4> SUFFICES ASSUME Apart(v, label) PROVE Apart(w, label)
        BY <2>1 DEF WellFilled
      <4>1. Len(v) \in Nat /\ DOMAIN v = 1..Len(v)
        BY <2>2, LenProperties
      <4>2. \A i \in 1..Len(v) : w[i] = v[i] /\ label[v[i]] # label[h]
        BY <2>5, <3>1, <4>1 DEF Grown, Labels, ToSet
      <4>3. \A i \in 1..Len(w) : i = Len(v) + 1 \/ i \in 1..Len(v)
        BY <3>1, <4>1
      <4>4. \A i, j \in 1..Len(v) : label[v[i]] = label[v[j]] => i = j
        BY DEF Apart
      <4> HIDE DEF v, w, h
      <4>5. QED
        BY <3>1, <4>2, <4>3, <4>4 DEF Apart
    <3>8. Fits(h, pack, budget)
      <4>1. /\ Used(pack) \in Nat /\ Used(v) \in Nat /\ h.tokens \in Nat
            /\ Used(pack) <= Used(v)
        BY <2>2, UsedNat, PackAssumption DEF Grown
      <4>2. QED
        BY <2>5, <4>1 DEF Fits
    <3>9. \A x \in ToSet(w) : x \in ToSet(pack)
                                \/ (x \in ToSet(candidates) /\ Fits(x, pack, budget))
      <4>1. \A x \in ToSet(v) : x \in ToSet(pack)
                                  \/ (x \in ToSet(candidates) /\ Fits(x, pack, budget))
        BY <2>1 DEF WellFilled
      <4>2. QED
        BY <2>2, <3>1, <3>8, <4>1
    <3>10. Well(n)
      BY <3>1, <3>5, <3>6, <3>7, <3>9 DEF WellFilled
    <3>11. QED
      BY <2>1, <3>4, <3>10
  <2>6. QED
    BY <2>4, <2>5
<1>6. N \in T
  <2> HIDE DEF T
  <2>1. \A n \in 0..N : n \in T
    BY <1>2, <1>4, <1>5, Upward
  <2>2. QED
    BY <1>2, <2>1
<1>7. C(N) = ToSet(candidates) /\ filled[N] = Filled(candidates, pack, label, budget)
  BY <1>1, <1>2 DEF ToSet, Fills
<1>8. QED
  BY <1>6, <1>7

-----------------------------------------------------------------------------
\* The families of a pack with one hit of each are as many as its hits.
LEMMA FamilyCount ==
  ASSUME NEW pack \in Seq(PackHits), Apart(pack, Family)
  PROVE  Cardinality(Families(pack)) = Len(pack)
<1> DEFINE f == [i \in 1..Len(pack) |-> pack[i].family]
<1>1. Len(pack) \in Nat /\ DOMAIN pack = 1..Len(pack) /\ \A i \in 1..Len(pack) : pack[i] \in PackHits
  BY LenProperties, ElementOfSeq
<1>2. \A i \in 1..Len(pack) : f[i] = Family[pack[i]]
  BY <1>1 DEF Family
<1>3. f \in Bijection(1..Len(pack), Families(pack))
  <2>1. f \in [1..Len(pack) -> Families(pack)]
    BY <1>1 DEF Families, ToSet
  <2>2. \A i, j \in 1..Len(pack) : f[i] = f[j] => i = j
    BY <1>2 DEF Apart
  <2>3. \A y \in Families(pack) : \E i \in 1..Len(pack) : f[i] = y
    BY <1>1 DEF Families, ToSet
  <2> HIDE DEF f
  <2>4. QED
    BY <2>1, <2>2, <2>3 DEF Bijection, Injection, Surjection, IsInjective
<1>4. IsFiniteSet(1..Len(pack)) /\ Cardinality(1..Len(pack)) = Len(pack)
  BY <1>1, IntervalSize
<1> HIDE DEF f
<1>5. ExistsBijection(1..Len(pack), Families(pack))
  BY <1>3 DEF ExistsBijection
<1>6. QED
  BY <1>4, <1>5, FS_Bijection

\* ... so that every pack is as it must be.
LEMMA PacksAreDiverse ==
  ASSUME NEW hits \in Seq(PackHits), NEW budget \in Nat
  PROVE  IsDiverse(Pack(hits, budget), hits, budget)
<1> DEFINE C == Distinct(hits)
           first == Filled(C, <<>>, Family, budget)
           pack == Filled(C, first, Citation, budget)
<1>1. C \in Seq(PackHits) /\ ToSet(C) = ToSet(hits) /\ <<>> \in Seq(PackHits)
  BY DistinctList, EmptySeq
<1>2. /\ ToSet(hits) \subseteq PackHits
      /\ \A x \in PackHits : Citation[x] = x /\ Family[x] = x.family
  BY ElementOfSeq, LenProperties DEF ToSet, Citation, Family
<1>3. WellFilled(first, C, <<>>, Family, budget) /\ Covers(first, ToSet(C), Family, budget)
  <2> HIDE DEF C
  <2>1. QED
    BY <1>1, FilledPack
<1>4. first \in Seq(PackHits)
  BY <1>3 DEF WellFilled
<1>5. WellFilled(pack, C, first, Citation, budget) /\ Covers(pack, ToSet(C), Citation, budget)
  <2> HIDE DEF C, first
  <2>1. QED
    BY <1>1, <1>4, FilledPack
<1>6. pack \in Seq(PackHits) /\ Grown(first, pack)
  BY <1>5 DEF WellFilled
<1>7. pack = Pack(hits, budget)
  BY DEF Pack, FillUp, OnePerFamily
<1> HIDE DEF C, first, pack
<1>8. /\ Len(first) \in Nat /\ DOMAIN first = 1..Len(first)
      /\ Len(pack) \in Nat /\ DOMAIN pack = 1..Len(pack)
      /\ \A i \in 1..Len(first) : first[i] \in PackHits
      /\ \A i \in 1..Len(pack) : pack[i] \in PackHits
  BY <1>4, <1>6, LenProperties, ElementOfSeq
<1>9. ToSet(first) \subseteq ToSet(hits) /\ ToSet(pack) \subseteq ToSet(hits)
  <2>1. ToSet(<<>>) = {}
    BY DEF ToSet
  <2>2. QED
    BY <1>1, <1>3, <1>5, <2>1 DEF WellFilled
<1>10. Apart(first, Family)
  <2>1. Apart(<<>>, Family)
    <3>1. 1..Len(<<>>) = {}
      OBVIOUS
    <3>2. QED
      BY <3>1 DEF Apart
  <2>2. QED
    BY <1>3, <2>1 DEF WellFilled
<1>11. IsInjective(pack)
  <2>1. Apart(first, Citation)
    <3>1. \A i, j \in 1..Len(first) : first[i] = first[j] => i = j
      BY <1>10 DEF Apart
    <3>2. QED
      BY <1>2, <1>8, <3>1 DEF Apart
  <2>2. Apart(pack, Citation)
    BY <1>5, <2>1 DEF WellFilled
  <2>3. QED
    BY <1>2, <1>8, <2>2 DEF Apart, IsInjective
<1>12. Used(pack) <= budget
  <2>1. Used(first) <= budget
    BY <1>3, UsedEmpty DEF WellFilled
  <2>2. QED
    BY <1>5, <2>1 DEF WellFilled
<1>13. ASSUME NEW h \in ToSet(hits) \ ToSet(pack) PROVE ~Fits(h, pack, budget)
  <2>1. Citation[h] \notin Labels(pack, Citation)
    BY <1>2, <1>9 DEF Labels
  <2>2. QED
    BY <1>1, <1>5, <2>1 DEF Covers
<1>14. \A pk : Families(pk) = {h.family : h \in ToSet(pk)}
  BY DEF Families
<1>15. ASSUME NEW h \in ToSet(hits), h.family \notin Families(first)
       PROVE  ~Fits(h, first, budget)
  <2>1. Family[h] \notin Labels(first, Family)
    BY <1>2, <1>9, <1>15 DEF Labels, Families
  <2>2. QED
    BY <1>1, <1>3, <2>1 DEF Covers
<1>16. Families(pack) = Families(first)
  <2>1. \A x \in ToSet(pack) : x \in ToSet(first) \/ Fits(x, first, budget)
    BY <1>5 DEF WellFilled
  <2>2. \A x \in ToSet(pack) : x.family \in Families(first)
    BY <1>9, <1>15, <2>1 DEF Families
  <2>3. ToSet(first) \subseteq ToSet(pack)
    BY <1>6 DEF Grown
  <2>4. QED
    BY <2>2, <2>3 DEF Families
<1>17. Cardinality(Families(first)) = Len(first)
  BY <1>4, <1>10, FamilyCount
<1>18. SubSeq(pack, 1, Len(first)) = first
  <2>1. Len(first) <= Len(pack) /\ \A i \in 1..Len(first) : pack[i] = first[i]
    BY <1>6 DEF Grown
  <2>2. SubSeq(pack, 1, Len(first)) = [i \in 1..Len(first) |-> pack[i]]
    BY <1>8
  <2>3. first = [i \in 1..Len(first) |-> first[i]]
    BY <1>4, LenProperties
  <2>4. QED
    BY <2>1, <2>2, <2>3
<1>19. QED
  BY <1>7, <1>9, <1>11, <1>12, <1>13, <1>15, <1>16, <1>17, <1>18 DEF IsDiverse

\* In no order are hits packed badly.
LEMMA NoneIllPacked == IllPacked = {}
<1>1. ASSUME NEW hits \in Rankings PROVE hits \in Seq(PackHits)
  <2>1. PICK n \in 0..MaxHits : hits \in [1..n -> PackHits]
    BY DEF Rankings
  <2>2. n \in Nat
    BY <2>1
  <2>3. QED
    BY <2>1, <2>2, SeqDef
<1>2. \A budget \in Budgets : budget \in Nat
  BY PackAssumption
<1>3. QED
  BY <1>1, <1>2, PacksAreDiverse DEF IllPacked

-----------------------------------------------------------------------------
\* narrative: the snapshots and what changed between them.

-----------------------------------------------------------------------------
\* A cut list is the beginning of the list, ...
LEMMA LimitedLists ==
  ASSUME NEW s, IsList(s), NEW n, n \in Nat \/ n = Null
  PROVE  /\ IsList(Limited(s, n)) /\ Len(Limited(s, n)) <= Len(s)
         /\ n # Null => Len(Limited(s, n)) <= n
         /\ \A i \in 1..Len(Limited(s, n)) : Limited(s, n)[i] = s[i]
         /\ Limited(s, n) # s => n \in Nat /\ Len(Limited(s, n)) = n
<1>1. Len(s) \in Nat /\ DOMAIN s = 1..Len(s) /\ s = [i \in 1..Len(s) |-> s[i]]
  BY ListFacts DEF IsList
<1>2. CASE n = Null
  BY <1>1, <1>2 DEF Limited
<1>3. CASE n # Null
  <2> DEFINE m == IF n >= Len(s) THEN Len(s) ELSE n
             t == Limited(s, n)
  <2>1. n \in Nat
    BY <1>3
  <2>2. m \in {n, Len(s)} /\ m <= n /\ m <= Len(s)
    BY <1>1, <2>1
  <2>3. t = SubSeq(s, 1, m)
    <3>1. CASE n >= Len(s)
      <4>1. t = s /\ m = Len(s)
        BY <1>3, <3>1 DEF Limited
      <4>2. s = SubSeq(s, 1, Len(s))
        BY <1>1
      <4>3. QED
        BY <4>1, <4>2
    <3>2. CASE ~(n >= Len(s))
      <4>1. t = SubSeq(s, 1, n) /\ m = n
        BY <1>3, <3>2 DEF Limited
      <4>2. QED
        BY <4>1
    <3>3. QED
      BY <3>1, <3>2
  <2> HIDE DEF m, t
  <2>4. t = [i \in 1..m |-> s[i]] /\ m \in Nat
    BY <1>1, <2>1, <2>2, <2>3
  <2>5. \A i \in 1..m : t[i] = s[i]
    BY <2>4
  <2>6. t = [i \in 1..m |-> t[i]]
    BY <2>4
  <2>7. IsList(t) /\ Len(t) = m
    BY <2>4, <2>6, ListMap
  <2>8. t # s => m # Len(s)
    BY <1>1, <2>4
  <2>9. QED
    BY <1>1, <2>1, <2>2, <2>5, <2>7, <2>8 DEF t
<1>4. QED
  BY <1>2, <1>3

-----------------------------------------------------------------------------
\* The window of a report.
LEMMA SelectedLists ==
  ASSUME RepositoryInv
  PROVE  /\ IsList(Selected) /\ Len(Selected) \in Nat /\ DOMAIN Selected = 1..Len(Selected)
         /\ \A i \in 1..Len(Selected) : Selected[i] \in Indexed
         /\ \A i \in 1..Len(Selected) : Len(Selected) + 1 - i \in 1..Len(Selected)
<1> DEFINE all == [i \in 1..HEAD |-> HEAD + 1 - i]
           kept == Kept(all, Indexed)
<1>1. HEAD \in Nat
  BY HeadTitled
<1>2. IsList(all)
  <2>1. all = [i \in 1..HEAD |-> all[i]]
    OBVIOUS
  <2> HIDE DEF all
  <2>2. QED
    BY <1>1, <2>1, ListMap
<1> HIDE DEF all
<1>3. IsList(kept) /\ ToSet(kept) \subseteq Indexed
  BY <1>2, KeptLists
<1> HIDE DEF kept
<1>4. Selected = Limited(kept, Window)
  BY DEF Selected, IndexedNewestFirst, kept, all
<1>5. /\ IsList(Selected) /\ Len(Selected) <= Len(kept)
      /\ \A i \in 1..Len(Selected) : Selected[i] = kept[i]
  BY <1>3, <1>4, LimitedLists, WindowAssumption
<1>6. /\ Len(Selected) \in Nat /\ DOMAIN Selected = 1..Len(Selected)
      /\ Len(kept) \in Nat /\ DOMAIN kept = 1..Len(kept)
  BY <1>3, <1>5, ListFacts
<1>7. \A i \in 1..Len(Selected) : i \in DOMAIN kept
  BY <1>5, <1>6
<1>8. \A i \in 1..Len(Selected) : Selected[i] \in Indexed
  BY <1>3, <1>5, <1>7 DEF ToSet
<1>9. \A i \in 1..Len(Selected) : Len(Selected) + 1 - i \in 1..Len(Selected)
  BY <1>6
<1>10. QED
  BY <1>5, <1>6, <1>8, <1>9

\* The documents of a selected snapshot have titles.
LEMMA DocsAtTitled ==
  ASSUME RepositoryInv, NEW i \in 1..Len(Selected)
  PROVE  AllTitled(DocsAt(i)) /\ AllTitled(Decisions(DocsAt(i)))
<1>1. Selected[Len(Selected) + 1 - i] \in Indexed
  BY SelectedLists
<1>2. AllTitled(DocsAt(i))
  BY <1>1 DEF DocsAt, RepositoryInv, Indexed
<1>3. QED
  BY <1>2, AllTitledRestricted DEF Decisions

\* Between two snapshots finitely many documents change, ...
LEMMA ChangesFinite ==
  ASSUME NEW current, NEW previous, AllTitled(current), AllTitled(previous)
  PROVE  IsFiniteSet(DecisionChanges(current, previous))
<1> DEFINE Paths == DOMAIN current \cup DOMAIN previous
           added == [p \in Paths |-> [path |-> p, change |-> "added", doc |-> current[p]]]
           modified == [p \in Paths |-> [path |-> p, change |-> "modified", doc |-> current[p]]]
           deleted == [p \in Paths |-> [path |-> p, change |-> "deleted", doc |-> previous[p]]]
           A == {added[p] : p \in Paths}
           M == {modified[p] : p \in Paths}
           D == {deleted[p] : p \in Paths}
<1>1. IsFiniteSet(Paths)
  BY FS_Union DEF AllTitled
<1>2. DecisionChanges(current, previous) \subseteq A \cup M \cup D
  BY DEF DecisionChanges
<1>3. added = [p \in Paths |-> added[p]] /\ modified = [p \in Paths |-> modified[p]]
      /\ deleted = [p \in Paths |-> deleted[p]]
  OBVIOUS
<1> HIDE DEF added, modified, deleted, Paths
<1>4. IsFiniteSet(A) /\ IsFiniteSet(M) /\ IsFiniteSet(D)
  BY <1>1, <1>3, FiniteImage
<1> HIDE DEF A, M, D
<1>5. IsFiniteSet(A \cup M \cup D)
  BY <1>4, FS_Union
<1>6. QED
  BY <1>2, <1>5, FS_Subset

\* ... so that finitely many nodes are changes ...
LEMMA ChangedNodesFinite ==
  ASSUME RepositoryInv
  PROVE  IsFiniteSet(ChangedNodes)
<1> DEFINE N == Len(Selected)
           at == [i \in 1..N |-> {RawNode(i, change) : change \in ChangesAt(i)}]
           All == {at[i] : i \in 1..N}
<1>1. N \in Nat
  BY SelectedLists
<1>2. ASSUME NEW i \in 1..N PROVE IsFiniteSet(at[i])
  <2>1. IsFiniteSet(ChangesAt(i))
    <3>1. CASE i = 1
      <4>1. AllTitled(<<>>)
        <5>1. DOMAIN <<>> = {}
          OBVIOUS
        <5>2. QED
          BY <5>1, FS_EmptySet DEF AllTitled
      <4>2. QED
        BY <3>1, <4>1, DocsAtTitled, ChangesFinite DEF ChangesAt
    <3>2. CASE i # 1
      <4>1. i - 1 \in 1..N
        BY <1>1, <3>2
      <4>2. QED
        BY <3>2, <4>1, DocsAtTitled, ChangesFinite DEF ChangesAt
    <3>3. QED
      BY <3>1, <3>2
  <2> DEFINE node == [change \in ChangesAt(i) |-> RawNode(i, change)]
  <2>2. at[i] = {node[change] : change \in ChangesAt(i)}
    OBVIOUS
  <2>3. node = [change \in ChangesAt(i) |-> node[change]]
    OBVIOUS
  <2> HIDE DEF node, at
  <2>4. QED
    BY <2>1, <2>2, <2>3, FiniteImage
<1>3. ChangedNodes = UNION All
  BY DEF ChangedNodes
<1>4. at = [i \in 1..N |-> at[i]]
  OBVIOUS
<1> HIDE DEF at
<1>5. IsFiniteSet(All)
  <2>1. IsFiniteSet(1..N)
    BY <1>1, FS_Interval
  <2> HIDE DEF N
  <2>2. QED
    BY <1>4, <2>1, FiniteImage
<1>6. \A T \in All : IsFiniteSet(T)
  BY <1>2
<1> HIDE DEF All
<1>7. QED
  BY <1>3, <1>5, <1>6, FS_UNION

\* ... or the support of one.
LEMMA RawNodesFinite ==
  ASSUME RepositoryInv
  PROVE  IsFiniteSet(RawNodes)
<1> DEFINE N == Len(Selected)
           docs == [i \in 1..N |-> DOMAIN DocsAt(i)]
           All == {docs[i] : i \in 1..N}
<1>1. N \in Nat
  BY SelectedLists
<1>2. IsFiniteSet(UNION All)
  <2>1. IsFiniteSet(1..N)
    BY <1>1, FS_Interval
  <2>2. \A i \in 1..N : IsFiniteSet(docs[i])
    BY DocsAtTitled DEF AllTitled
  <2>3. docs = [i \in 1..N |-> docs[i]]
    OBVIOUS
  <2> HIDE DEF N, docs
  <2>4. IsFiniteSet(All)
    BY <2>1, <2>3, FiniteImage
  <2>5. \A T \in All : IsFiniteSet(T)
    BY <2>2
  <2> HIDE DEF All
  <2>6. QED
    BY <2>4, <2>5, FS_UNION
<1> DEFINE changed == ChangedNodes
           named == UNION {artifacts[id].paths : id \in ToSet(Intents)}
           holds(p, i) == p \in DOMAIN DocsAt(i) /\ DocsAt(i)[p].type \in DecisionTypes
           paths == {p \in named \ {n.path : n \in changed} : \E i \in 1..N : holds(p, i)}
           place(p) == Max({i \in 1..N : holds(p, i)})
           node == [p \in paths |-> RawNode(place(p), [path |-> p, change |-> "related",
                                                       doc |-> DocsAt(place(p))[p]])]
           support == [n \in SupportNodes(changed) |-> SupportIndex(n)]
<1>3. IsFiniteSet(paths)
  <2>1. paths \subseteq UNION All
    OBVIOUS
  <2> HIDE DEF paths, All
  <2>2. QED
    BY <1>2, <2>1, FS_Subset
<1>4. SupportNodes(changed) = {node[p] : p \in paths}
  BY DEF SupportNodes
<1>5. node = [p \in paths |-> node[p]] /\ support = [n \in SupportNodes(changed) |-> support[n]]
  OBVIOUS
<1>6. {SupportIndex(n) : n \in SupportNodes(ChangedNodes)} = {support[n] : n \in SupportNodes(changed)}
  OBVIOUS
<1> HIDE DEF node, support, paths
<1>7. IsFiniteSet(SupportNodes(changed))
  BY <1>3, <1>4, <1>5, FiniteImage
<1>8. IsFiniteSet({support[n] : n \in SupportNodes(changed)})
  BY <1>5, <1>7, FiniteImage
<1>9. QED
  BY <1>6, <1>8, ChangedNodesFinite, FS_Union DEF RawNodes

-----------------------------------------------------------------------------
\* The nodes, in the order in which threads are assigned to them.

\* The nodes in the order in which threads are assigned to them.
RawKey == [n \in RawNodes |-> <<n.index, n.path>>]
RawList == NodeOrder(RawNodes)

\* Between two snapshots a path changes in one way.
LEMMA ChangesByPath ==
  ASSUME NEW current, NEW previous,
         NEW a \in DecisionChanges(current, previous), NEW b \in DecisionChanges(current, previous)
  PROVE  /\ a.path \in DOMAIN current \cup DOMAIN previous
         /\ a.path = b.path => a = b
<1> DEFINE form(x) ==
      \/ /\ x = [path |-> x.path, change |-> "added", doc |-> current[x.path]]
         /\ x.path \in DOMAIN current \ DOMAIN previous
      \/ /\ x = [path |-> x.path, change |-> "modified", doc |-> current[x.path]]
         /\ x.path \in DOMAIN current \cap DOMAIN previous
      \/ /\ x = [path |-> x.path, change |-> "deleted", doc |-> previous[x.path]]
         /\ x.path \in DOMAIN previous \ DOMAIN current
<1>1. \A x \in DecisionChanges(current, previous) : form(x)
  BY DEF DecisionChanges
<1>2. form(a) /\ form(b)
  BY <1>1
<1>3. QED
  BY <1>2

\* What a changed node is.
LEMMA ChangedNodeIs ==
  ASSUME RepositoryInv, NEW n \in ChangedNodes
  PROVE  /\ n.index \in 1..Len(Selected) /\ n.path \in Int
         /\ \E change \in ChangesAt(n.index) : n = RawNode(n.index, change) /\ change.path = n.path
<1>1. PICK i \in 1..Len(Selected) : \E change \in ChangesAt(i) : n = RawNode(i, change)
  BY DEF ChangedNodes
<1>10. PICK change \in ChangesAt(i) : n = RawNode(i, change)
  BY <1>1
<1>2. n.index = i /\ n.path = change.path
  BY <1>10 DEF RawNode
<1>3. Len(Selected) \in Nat
  BY SelectedLists
<1>4. change.path \in Int
  <2>1. CASE i = 1
    <3>1. change.path \in DOMAIN Decisions(DocsAt(i)) \cup DOMAIN <<>>
      BY <1>10, <2>1, ChangesByPath DEF ChangesAt
    <3>2. DOMAIN <<>> = {}
      OBVIOUS
    <3>3. QED
      BY <3>1, <3>2, DocsAtTitled DEF AllTitled
  <2>2. CASE i # 1
    <3>1. change.path \in DOMAIN Decisions(DocsAt(i)) \cup DOMAIN Decisions(DocsAt(i - 1))
      BY <1>10, <2>2, ChangesByPath DEF ChangesAt
    <3>2. i - 1 \in 1..Len(Selected)
      BY <1>3, <2>2
    <3>3. QED
      BY <3>1, <3>2, DocsAtTitled DEF AllTitled
  <2>3. QED
    BY <2>1, <2>2
<1>5. QED
  BY <1>1, <1>10, <1>2, <1>4

\* What a node that is merely related is.
SupportPlaces(p) ==
    {i \in 1..Len(Selected) : p \in DOMAIN DocsAt(i) /\ DocsAt(i)[p].type \in DecisionTypes}
SupportOf(p) ==
    SupportIndex(RawNode(Max(SupportPlaces(p)),
                         [path |-> p, change |-> "related", doc |-> DocsAt(Max(SupportPlaces(p)))[p]]))

\* It is the first of its path, and the newest.
LEMMA SupportNodeIs ==
  ASSUME RepositoryInv, NEW n \in RawNodes, n \notin ChangedNodes
  PROVE  /\ n.index \in Int /\ n.path \in Int /\ n.path \notin {m.path : m \in ChangedNodes}
         /\ n = SupportOf(n.path) /\ n.change = "related"
         /\ SupportPlaces(n.path) # {}
<1>1. PICK s \in SupportNodes(ChangedNodes) : n = SupportIndex(s)
  BY DEF RawNodes
<1>2. PICK p : /\ p \notin {m.path : m \in ChangedNodes}
               /\ SupportPlaces(p) # {}
               /\ s = RawNode(Max(SupportPlaces(p)),
                        [path |-> p, change |-> "related", doc |-> DocsAt(Max(SupportPlaces(p)))[p]])
  <2> DEFINE holds(p, i) == p \in DOMAIN DocsAt(i) /\ DocsAt(i)[p].type \in DecisionTypes
             place(p) == Max({i \in 1..Len(Selected) : holds(p, i)})
  <2>1. PICK p : /\ p \notin {m.path : m \in ChangedNodes}
                 /\ \E i \in 1..Len(Selected) : holds(p, i)
                 /\ s = RawNode(place(p), [path |-> p, change |-> "related", doc |-> DocsAt(place(p))[p]])
    BY DEF SupportNodes
  <2>2. SupportPlaces(p) # {} /\ place(p) = Max(SupportPlaces(p))
    BY <2>1 DEF SupportPlaces
  <2>3. QED
    BY <2>1, <2>2
<1>3. Len(Selected) \in Nat
  BY SelectedLists
<1>4. SupportPlaces(p) \subseteq 1..Len(Selected)
  BY DEF SupportPlaces
<1>5. Max(SupportPlaces(p)) \in SupportPlaces(p)
  BY <1>2, <1>3, <1>4, Greatest
<1>6. p \in Int /\ Max(SupportPlaces(p)) \in Int
  <2>1. Max(SupportPlaces(p)) \in 1..Len(Selected)
    BY <1>4, <1>5
  <2>2. p \in DOMAIN DocsAt(Max(SupportPlaces(p)))
    BY <1>5 DEF SupportPlaces
  <2>3. QED
    BY <1>3, <2>1, <2>2, DocsAtTitled DEF AllTitled
<1>7. /\ s.index = Max(SupportPlaces(p)) /\ s.path = p /\ s.change = "related"
      /\ DOMAIN s = {"index", "commit", "authoredAt", "path", "change", "type", "title"}
  BY <1>2 DEF RawNode
<1>8. n.path = p /\ n.index = Len(Selected) + 1 - s.index /\ n.change = "related"
  BY <1>1, <1>7 DEF SupportIndex
<1>9. n = SupportOf(p)
  BY <1>1, <1>2 DEF SupportOf
<1>10. QED
  BY <1>2, <1>3, <1>6, <1>7, <1>8, <1>9

\* The nodes of a report are told apart by their snapshot and their path, ...
LEMMA RawNodesDiffer ==
  ASSUME RepositoryInv
  PROVE  /\ \A n \in RawNodes : n.index \in Int /\ n.path \in Int
         /\ \A n, m \in RawNodes : n.index = m.index /\ n.path = m.path => n = m
<1>1. \A n \in RawNodes : n.index \in Int /\ n.path \in Int
  BY ChangedNodeIs, SupportNodeIs
<1>2. ASSUME NEW n \in RawNodes, NEW m \in RawNodes, n.index = m.index, n.path = m.path
      PROVE  n = m
  <2>1. CASE n \in ChangedNodes /\ m \in ChangedNodes
    <3>1. PICK a \in ChangesAt(n.index) : n = RawNode(n.index, a) /\ a.path = n.path
      BY <2>1, ChangedNodeIs
    <3>2. PICK b \in ChangesAt(n.index) : m = RawNode(n.index, b) /\ b.path = n.path
      BY <1>2, <2>1, ChangedNodeIs
    <3>3. a = b
      <4>1. \E current, previous : ChangesAt(n.index) = DecisionChanges(current, previous)
        BY DEF ChangesAt
      <4>2. QED
        BY <3>1, <3>2, <4>1, ChangesByPath
    <3>4. QED
      BY <3>1, <3>2, <3>3
  <2>2. CASE n \notin ChangedNodes /\ m \notin ChangedNodes
    BY <1>2, <2>2, SupportNodeIs
  <2>3. CASE n \in ChangedNodes /\ m \notin ChangedNodes
    BY <1>2, <2>3, SupportNodeIs
  <2>4. CASE n \notin ChangedNodes /\ m \in ChangedNodes
    BY <1>2, <2>4, SupportNodeIs
  <2>5. QED
    BY <2>1, <2>2, <2>3, <2>4
<1>3. QED
  BY <1>1, <1>2

\* ... so that they come in one order.
LEMMA RawListOrdered ==
  ASSUME RepositoryInv
  PROVE  /\ IsOrderOf(RawList, RawNodes, RawKey) /\ RawList \in Seq(RawNodes)
         /\ Len(RawList) \in Nat /\ DOMAIN RawList = 1..Len(RawList)
<1>1. \A n \in RawNodes : RawKey[n] = <<n.index, n.path>>
  BY DEF RawKey
<1>2. \A n \in RawNodes : RawKey[n] \in [1..2 -> Int]
  BY <1>1, RawNodesDiffer
<1>3. ASSUME NEW n \in RawNodes, NEW m \in RawNodes, RawKey[n] = RawKey[m] PROVE n = m
  <2>1. n.index = m.index /\ n.path = m.path
    BY <1>1, <1>3
  <2>2. QED
    BY <2>1, RawNodesDiffer
<1>4. Distinguishes(RawKey, RawNodes)
  BY <1>2, <1>3 DEF Distinguishes
<1>5. IsOrderOf(RawList, RawNodes, RawKey)
  BY <1>4, RawNodesFinite, InOrderSorts DEF RawList, NodeOrder, RawKey
<1>6. RawList \in Seq(RawNodes)
  BY <1>5, SeqDef DEF IsOrderOf
<1>7. QED
  BY <1>5, <1>6, LenProperties

-----------------------------------------------------------------------------
\* A node: what changed, and its place in the threads.
Places == [id : Nat, predecessor : Nat \cup {Null},
           relation : {"path-continuity", "heuristic-high", "root"}, thread : Nat]
NodeSet == {With(raw, x) : raw \in RawNodes, x \in Places}

\* A node that has no place yet.
LEMMA RawFields ==
  ASSUME NEW raw \in RawNodes
  PROVE  DOMAIN raw = {"index", "commit", "authoredAt", "path", "change", "type", "title"}
<1>1. \A i, change : DOMAIN RawNode(i, change) =
                       {"index", "commit", "authoredAt", "path", "change", "type", "title"}
  BY DEF RawNode
<1>2. CASE raw \in ChangedNodes
  <2>1. \E i, change : raw = RawNode(i, change)
    BY <1>2 DEF ChangedNodes
  <2>2. QED
    BY <1>1, <2>1
<1>3. CASE raw \notin ChangedNodes
  <2>1. PICK s \in SupportNodes(ChangedNodes) : raw = SupportIndex(s)
    BY <1>3 DEF RawNodes
  <2>2. \E i, change : s = RawNode(i, change)
    BY DEF SupportNodes
  <2>3. QED
    BY <1>1, <2>1, <2>2 DEF SupportIndex
<1>4. QED
  BY <1>2, <1>3

\* A node is what changed and its place.
LEMMA NodeFields ==
  ASSUME NEW raw \in RawNodes, NEW x \in Places
  PROVE  LET n == With(raw, x)
         IN  /\ n.id = x.id /\ n.predecessor = x.predecessor /\ n.relation = x.relation
             /\ n.thread = x.thread /\ n.index = raw.index /\ n.commit = raw.commit
             /\ n.authoredAt = raw.authoredAt /\ n.path = raw.path /\ n.change = raw.change
             /\ n.type = raw.type /\ n.title = raw.title
<1>1. DOMAIN x = {"id", "predecessor", "relation", "thread"}
  BY DEF Places
<1>2. QED
  BY <1>1, RawFields DEF With

\* Where a node goes.
LEMMA PredecessorIs ==
  ASSUME NEW nodes \in Seq(NodeSet), NEW raw \in RawNodes
  PROVE  LET p == Predecessor(nodes, raw)
         IN  /\ p.relation \in {"path-continuity", "heuristic-high", "root"}
             /\ p.relation = "path-continuity" =>
                  /\ p.node \in OlderOfPath(nodes, raw)
                  /\ \A i \in OlderOfPath(nodes, raw) : i <= p.node
             /\ p.relation # "path-continuity" => OlderOfPath(nodes, raw) = {}
             /\ p.relation = "heuristic-high" => p.node \in SameTitleBefore(nodes, raw)
             /\ p.relation = "root" => p.node = Null
<1> DEFINE older == OlderOfPath(nodes, raw)
           titled == SameTitleBefore(nodes, raw)
           p == Predecessor(nodes, raw)
<1>1. Len(nodes) \in Nat /\ DOMAIN nodes = 1..Len(nodes)
  BY LenProperties
<1>2. older \subseteq 1..Len(nodes) /\ titled \subseteq 1..Len(nodes)
  BY <1>1 DEF OlderOfPath, SameTitleBefore
<1>3. /\ older # {} => p = [node |-> Max(older), relation |-> "path-continuity"]
      /\ older = {} /\ Cardinality(titled) = 1 =>
           p = [node |-> Max(titled), relation |-> "heuristic-high"]
      /\ older = {} /\ Cardinality(titled) # 1 => p = [node |-> Null, relation |-> "root"]
  BY DEF Predecessor
<1> HIDE DEF older, titled, p
<1>4. Cardinality(titled) = 1 => titled # {}
  <2>1. Cardinality({}) = 0
    BY FS_EmptySet
  <2>2. QED
    BY <2>1
<1>5. older # {} => Max(older) \in older /\ \A i \in older : i <= Max(older)
  BY <1>1, <1>2, Greatest
<1>6. titled # {} => Max(titled) \in titled
  BY <1>1, <1>2, Greatest
<1>7. CASE older # {}
  BY <1>3, <1>5, <1>7 DEF older, titled, p
<1>8. CASE older = {} /\ Cardinality(titled) = 1
  BY <1>3, <1>4, <1>6, <1>8 DEF older, titled, p
<1>9. CASE older = {} /\ Cardinality(titled) # 1
  BY <1>3, <1>9 DEF older, titled, p
<1>10. QED
  BY <1>7, <1>8, <1>9

\* The node that AppendNode appends.
NextPlace(nodes, raw) ==
    LET previous == Predecessor(nodes, raw)
    IN  [id |-> Len(nodes) + 1, predecessor |-> previous.node, relation |-> previous.relation,
         thread |-> IF previous.node = Null THEN Len(nodes) + 1 ELSE nodes[previous.node].thread]

\* It is a node.
LEMMA AppendNodeTyped ==
  ASSUME NEW nodes \in Seq(NodeSet), NEW raw \in RawNodes
  PROVE  /\ NextPlace(nodes, raw) \in Places
         /\ AppendNode(nodes, raw) = Append(nodes, With(raw, NextPlace(nodes, raw)))
         /\ AppendNode(nodes, raw) \in Seq(NodeSet)
<1> DEFINE p == Predecessor(nodes, raw)
           place == NextPlace(nodes, raw)
<1>1. Len(nodes) \in Nat /\ DOMAIN nodes = 1..Len(nodes)
  BY LenProperties
<1>2. /\ p.relation \in {"path-continuity", "heuristic-high", "root"}
      /\ p.node \in DOMAIN nodes \/ p.node = Null
  BY PredecessorIs DEF OlderOfPath, SameTitleBefore
<1>3. \A i \in DOMAIN nodes : nodes[i].thread \in Nat
  <2>1. \A i \in DOMAIN nodes : nodes[i] \in NodeSet
    BY <1>1, ElementOfSeq
  <2>2. \A n \in NodeSet : n.thread \in Nat
    <3>1. \A raw2 \in RawNodes, x \in Places : With(raw2, x).thread = x.thread
      BY NodeFields
    <3>2. QED
      BY <3>1 DEF NodeSet, Places
  <2>3. QED
    BY <2>1, <2>2
<1>4. place \in Places
  <2>1. place = [id |-> Len(nodes) + 1, predecessor |-> p.node, relation |-> p.relation,
                 thread |-> IF p.node = Null THEN Len(nodes) + 1 ELSE nodes[p.node].thread]
    BY DEF NextPlace
  <2> HIDE DEF p, place
  <2>2. (IF p.node = Null THEN Len(nodes) + 1 ELSE nodes[p.node].thread) \in Nat
    BY <1>1, <1>2, <1>3
  <2>3. p.node \in Nat \cup {Null} /\ Len(nodes) + 1 \in Nat
    BY <1>1, <1>2
  <2>4. QED
    BY <1>2, <2>1, <2>2, <2>3 DEF Places
<1>5. AppendNode(nodes, raw) = Append(nodes, With(raw, place))
  BY DEF AppendNode, NextPlace
<1>6. With(raw, place) \in NodeSet
  BY <1>4 DEF NodeSet
<1>7. QED
  BY <1>4, <1>5, <1>6, AppendProperties

\* assignNarrativeThreads, node by node, ...
Assigns(nodes) ==
    /\ nodes \in [0..Len(RawList) -> Seq(NodeSet)]
    /\ nodes[0] = <<>> /\ nodes[Len(RawList)] = Nodes
    /\ \A n \in 1..Len(RawList) :
          nodes[n] = Append(nodes[n - 1], With(RawList[n], NextPlace(nodes[n - 1], RawList[n])))

\* ... which comes to an end.
LEMMA NodesLoop ==
  ASSUME RepositoryInv
  PROVE  \E nodes : Assigns(nodes)
<1> DEFINE N == Len(RawList)
           V == Seq(NodeSet)
           nodes[i \in 0..Len(RawList)] ==
             IF i = 0 THEN <<>> ELSE AppendNode(nodes[i - 1], RawList[i])
           Loop(f) == f = [i \in 0..Len(RawList) |->
                             IF i = 0 THEN <<>> ELSE AppendNode(f[i - 1], RawList[i])]
           step == [n \in 1..N |-> [v \in V |-> AppendNode(v, RawList[n])]]
<1>1. N \in Nat /\ (\A n \in 1..N : RawList[n] \in RawNodes) /\ <<>> \in V
  BY RawListOrdered, ElementOfSeq, EmptySeq
<1>2. \A n \in 1..N, v \in V : AppendNode(v, RawList[n]) \in V
  BY <1>1, AppendNodeTyped
<1> HIDE DEF V
<1>3. step \in [1..N -> [V -> V]]
  BY <1>2
<1>4. PICK f \in [0..N -> V] : Computes(f, N, <<>>, step)
  <2> HIDE DEF N, step
  <2>1. QED
    BY <1>1, <1>3, Iteration, Zenon
<1>5. \A n \in 0..N : f[n] = IF n = 0 THEN <<>> ELSE AppendNode(f[n - 1], RawList[n])
  <2>1. f[0] = <<>> /\ \A n \in 1..N : f[n] = step[n][f[n - 1]]
    BY <1>4 DEF Computes
  <2>2. ASSUME NEW n \in 1..N PROVE n # 0 /\ f[n] = AppendNode(f[n - 1], RawList[n])
    <3>1. n - 1 \in 0..N /\ n # 0
      BY <1>1
    <3>2. f[n - 1] \in V
      BY <1>4, <3>1
    <3>3. QED
      BY <2>1, <3>1, <3>2
  <2>3. \A n \in 0..N : n = 0 \/ n \in 1..N
    BY <1>1
  <2> HIDE DEF step
  <2>4. QED
    BY <2>1, <2>2, <2>3
<1>6. Loop(f)
  BY <1>4, <1>5
<1>7. nodes = CHOOSE g : Loop(g)
  OBVIOUS
<1> HIDE DEF nodes, step
<1>8. Loop(nodes)
  <2> HIDE DEF Loop
  <2>1. QED
    BY <1>6, <1>7, Zenon
<1>9. /\ DOMAIN nodes = 0..N /\ nodes[0] = <<>> /\ nodes = [n \in 0..N |-> nodes[n]]
      /\ \A n \in 1..N : nodes[n] = AppendNode(nodes[n - 1], RawList[n])
  <2>1. nodes = [n \in 0..N |-> IF n = 0 THEN <<>> ELSE AppendNode(nodes[n - 1], RawList[n])]
    BY <1>8
  <2> HIDE DEF Loop
  <2>2. \A n \in 1..N : n \in 0..N /\ n # 0
    BY <1>1
  <2>3. 0 \in 0..N
    BY <1>1
  <2>4. QED
    BY <2>1, <2>2, <2>3
<1> HIDE DEF Loop
<1>10. nodes \in [0..N -> V]
  <2> DEFINE T == {n \in Int : nodes[n] \in V}
  <2>1. 0 \in T
    BY <1>1, <1>9
  <2>2. ASSUME NEW n \in 1..N, n - 1 \in T PROVE n \in T
    <3>1. nodes[n - 1] \in V /\ n \in Int
      BY <2>2
    <3>2. nodes[n] \in V
      BY <1>2, <1>9, <3>1
    <3>3. QED
      BY <3>1, <3>2
  <2> HIDE DEF T
  <2>3. \A n \in 0..N : n \in T
    BY <1>1, <2>1, <2>2, Upward
  <2>4. QED
    BY <1>9, <2>3 DEF T
<1>11. nodes[N] = Nodes
  BY DEF Nodes, Linked, nodes, RawList
<1>12. ASSUME NEW n \in 1..N
       PROVE  nodes[n] = Append(nodes[n - 1], With(RawList[n], NextPlace(nodes[n - 1], RawList[n])))
  <2>1. n - 1 \in 0..N
    BY <1>1
  <2>2. nodes[n - 1] \in Seq(NodeSet)
    BY <1>10, <2>1 DEF V
  <2>3. QED
    BY <1>1, <1>9, <2>2, AppendNodeTyped
<1>13. Assigns(nodes)
  BY <1>9, <1>10, <1>11, <1>12 DEF Assigns, V
<1>14. QED
  BY <1>13

\* The nodes of a narrative are a list of nodes.
LEMMA NodesTyped ==
  ASSUME RepositoryInv
  PROVE  Nodes \in Seq(NodeSet)
<1>1. PICK nodes : Assigns(nodes)
  BY NodesLoop
<1>2. Len(RawList) \in 0..Len(RawList)
  BY RawListOrdered
<1>3. QED
  BY <1>1, <1>2 DEF Assigns

-----------------------------------------------------------------------------
\* log and the narrative, which compare snapshots on their own.

\* A list of numbers that get smaller.
Descends(s) == \A i \in 1..Len(s) : s[i] \in Int /\ \A j \in 1..(i - 1) : s[i] < s[j]

\* What is kept of such a list gets smaller too.
LEMMA KeptDescends ==
  ASSUME NEW s, IsList(s), Descends(s), NEW T
  PROVE  Descends(Kept(s, T))
<1> DEFINE S == ToSet(s)
           N == Len(s)
<1>1. PICK kept : Keeps(kept, s, S, T)
  BY KeptLoop DEF IsList
<1>2. N \in Nat /\ \A n \in 1..N : s[n] \in S
  BY ListFacts DEF ToSet
<1> DEFINE From(t, n) == \A i \in 1..Len(t) : \E j \in 1..n : t[i] = s[j]
           U == {n \in Int : Descends(kept[n]) /\ From(kept[n], n)}
           V == Seq(S \cap T)
<1>3. /\ kept \in [0..N -> V] /\ kept[0] = <<>> /\ kept[N] = Kept(s, T)
      /\ \A n \in 1..N :
            kept[n] = IF s[n] \in T THEN Append(kept[n - 1], s[n]) ELSE kept[n - 1]
  BY <1>1 DEF Keeps
<1>4. 0 \in U
  <2>1. Len(<<>>) = 0
    OBVIOUS
  <2>2. \A i \in 1..Len(kept[0]) : FALSE
    BY <1>3, <2>1
  <2>3. QED
    BY <2>2 DEF Descends
<1>5. ASSUME NEW n \in 1..N, n - 1 \in U PROVE n \in U
  <2> DEFINE before == kept[n - 1]
             L == Len(before)
             after == kept[n]
  <2>1. n - 1 \in 0..N /\ n \in Int
    BY <1>2
  <2>2. before \in Seq(S \cap T) /\ Descends(before) /\ From(before, n - 1)
    BY <1>3, <1>5, <2>1
  <2>3. after = IF s[n] \in T THEN Append(before, s[n]) ELSE before
    BY <1>3
  <2>4. L \in Nat /\ IsList(before)
    BY <2>2, ListOf
  <2>5. \A j \in 1..(n - 1) : j \in 1..n
    BY <2>1
  <2> HIDE DEF before, after, V
  <2>6. CASE s[n] \notin T
    <3>1. after = before
      BY <2>3, <2>6
    <3>2. From(after, n)
      BY <2>2, <2>5, <3>1
    <3>3. QED
      BY <2>1, <2>2, <3>1, <3>2 DEF after
  <2>7. CASE s[n] \in T
    <3>1. /\ after = Append(before, s[n]) /\ Len(after) = L + 1 /\ after[L + 1] = s[n]
          /\ \A i \in 1..L : after[i] = before[i]
      BY <2>3, <2>4, <2>7, ListAppend
    <3>2. From(after, n)
      <4>1. ASSUME NEW i \in 1..Len(after) PROVE \E j \in 1..n : after[i] = s[j]
        <5>1. CASE i = L + 1
          BY <2>1, <3>1, <5>1
        <5>2. CASE i # L + 1
          <6>1. i \in 1..L
            BY <2>4, <3>1, <5>2
          <6>2. QED
            BY <2>2, <2>5, <3>1, <6>1
        <5>3. QED
          BY <5>1, <5>2
      <4>2. QED
        BY <4>1
    <3>3. \A j \in 1..(n - 1) : s[n] \in Int /\ s[n] < s[j]
      BY DEF Descends
    <3>4. s[n] \in Int
      BY DEF Descends
    <3>5. \A j \in 1..L : s[n] < before[j]
      BY <2>2, <3>3
    <3>6. ASSUME NEW i \in 1..Len(after)
          PROVE  after[i] \in Int /\ \A j \in 1..(i - 1) : after[i] < after[j]
      <4>1. CASE i = L + 1
        <5>1. \A j \in 1..(i - 1) : j \in 1..L
          BY <2>4, <4>1
        <5>2. QED
          BY <3>1, <3>4, <3>5, <4>1, <5>1
      <4>2. CASE i # L + 1
        <5>1. i \in 1..L /\ \A j \in 1..(i - 1) : j \in 1..L
          BY <2>4, <3>1, <4>2
        <5>2. QED
          BY <2>2, <3>1, <5>1 DEF Descends
      <4>3. QED
        BY <4>1, <4>2
    <3>7. Descends(after)
      BY <3>6 DEF Descends
    <3>8. QED
      BY <2>1, <3>2, <3>7 DEF after
  <2>8. QED
    BY <2>6, <2>7
<1> HIDE DEF U
<1>6. \A n \in 0..N : n \in U
  BY <1>2, <1>4, <1>5, Upward
<1>7. N \in U
  BY <1>2, <1>6
<1>8. QED
  BY <1>3, <1>7 DEF U

\* The indexed commits, newest first, get smaller and are all of them.
LEMMA NewestFirstLists ==
  ASSUME RepositoryInv
  PROVE  /\ IsList(IndexedNewestFirst) /\ Descends(IndexedNewestFirst)
         /\ ToSet(IndexedNewestFirst) = Indexed /\ Indexed \subseteq 1..HEAD /\ HEAD \in Nat
<1> DEFINE all == [i \in 1..HEAD |-> HEAD + 1 - i]
<1>1. HEAD \in Nat
  BY HeadTitled
<1>2. Indexed \subseteq 1..HEAD
  BY DEF RepositoryInv, Indexed, HEAD
<1>3. all = [i \in 1..HEAD |-> all[i]] /\ \A i \in 1..HEAD : all[i] = HEAD + 1 - i
  OBVIOUS
<1> HIDE DEF all
<1>4. IsList(all) /\ Len(all) = HEAD /\ DOMAIN all = 1..HEAD
  BY <1>1, <1>3, ListMap
<1>5. Descends(all)
  <2>1. ASSUME NEW i \in 1..Len(all)
        PROVE  all[i] \in Int /\ \A j \in 1..(i - 1) : all[i] < all[j]
    <3>1. i \in 1..HEAD /\ \A j \in 1..(i - 1) : j \in 1..HEAD
      BY <1>1, <1>4
    <3>2. QED
      BY <1>1, <1>3, <3>1
  <2>2. QED
    BY <2>1 DEF Descends
<1>6. IndexedNewestFirst = Kept(all, Indexed)
  BY DEF IndexedNewestFirst, all
<1>7. \A c \in 1..HEAD : c \in ToSet(all)
  <2>1. ASSUME NEW c \in 1..HEAD PROVE c \in ToSet(all)
    <3>1. HEAD + 1 - c \in 1..HEAD /\ HEAD + 1 - (HEAD + 1 - c) = c
      BY <1>1
    <3>2. all[HEAD + 1 - c] = c
      BY <1>3, <3>1
    <3>3. QED
      BY <1>4, <3>1, <3>2 DEF ToSet
  <2>2. QED
    BY <2>1
<1>8. ToSet(Kept(all, Indexed)) = Indexed
  <2>1. ToSet(Kept(all, Indexed)) \subseteq Indexed
    BY <1>4, KeptLists
  <2>2. \A c \in Indexed : c \in ToSet(all) \cap Indexed
    BY <1>2, <1>7
  <2>3. \A c \in Indexed : c \in ToSet(Kept(all, Indexed))
    BY <1>4, <2>2, KeptAll DEF IsList
  <2>4. QED
    BY <2>1, <2>3
<1>9. QED
  BY <1>1, <1>2, <1>4, <1>5, <1>6, <1>8, KeptLists, KeptDescends

\* The snapshot in the window before one is the one indexed before it.
LEMMA WindowOfNeighbours ==
  ASSUME RepositoryInv, NEW i \in 2..Len(Selected)
  PROVE  /\ Selected[Len(Selected) + 1 - i] \in Indexed
         /\ PreviousIndexed(Selected[Len(Selected) + 1 - i]) = Selected[Len(Selected) + 1 - (i - 1)]

<1> DEFINE all == IndexedNewestFirst
           L == Len(Selected)
           k == L + 1 - i
           c == Selected[k]
           d == Selected[k + 1]
           older == {e \in Indexed : e < c}
<1>1. /\ IsList(all) /\ Descends(all) /\ ToSet(all) = Indexed /\ Indexed \subseteq 1..HEAD
      /\ HEAD \in Nat
  BY NewestFirstLists
<1>2. Len(all) \in Nat /\ DOMAIN all = 1..Len(all)
  BY <1>1, ListFacts
<1>3. L \in Nat /\ L <= Len(all) /\ \A j \in 1..L : Selected[j] = all[j]
  BY <1>1, SelectedLists, LimitedLists, WindowAssumption DEF Selected
<1>4. k \in 1..L /\ k + 1 \in 1..L /\ k \in 1..Len(all) /\ k + 1 \in 1..Len(all)
      /\ k + 1 = L + 1 - (i - 1)
  BY <1>2, <1>3
<1> HIDE DEF L, k
<1>5. c = all[k] /\ d = all[k + 1] /\ c \in Indexed /\ d \in Indexed
  BY <1>1, <1>2, <1>3, <1>4 DEF ToSet
<1>12. c \in Int /\ d \in Int /\ (\A e \in older : e \in Int /\ e < c)
  <2>1. \A e \in Indexed : e \in Int
    BY <1>1
  <2>2. QED
    BY <1>5, <2>1
<1>6. d < c
  <2>1. k \in 1..((k + 1) - 1)
    BY <1>3, <1>4
  <2>2. QED
    BY <1>1, <1>4, <1>5, <2>1 DEF Descends
<1>7. \A e \in older : e <= d
  <2>1. ASSUME NEW e \in older PROVE e <= d
    <3>1. PICK j \in 1..Len(all) : all[j] = e
      BY <1>1, <1>2 DEF ToSet
    <3>2. ~ (j <= k)
      <4>1. ASSUME j <= k PROVE FALSE
        <5>1. j = k \/ j \in 1..(k - 1)
          BY <1>3, <1>4, <3>1, <4>1
        <5>2. CASE j = k
          BY <1>1, <1>5, <3>1, <5>2
        <5>3. CASE j \in 1..(k - 1)
          <6>1. c < e
            BY <1>1, <1>4, <1>5, <3>1, <5>3 DEF Descends
          <6>2. QED
            BY <1>12, <6>1
        <5>4. QED
          BY <5>1, <5>2, <5>3
      <4>2. QED
        BY <4>1
    <3>3. j = k + 1 \/ k + 1 \in 1..(j - 1)
      BY <1>3, <1>4, <3>2
    <3>4. CASE j = k + 1
      BY <1>1, <1>5, <3>1, <3>4
    <3>5. CASE k + 1 \in 1..(j - 1)
      <4>1. e < d
        BY <1>1, <1>5, <3>1, <3>5 DEF Descends
      <4>2. QED
        BY <1>12, <4>1
    <3>6. QED
      BY <3>3, <3>4, <3>5
  <2>2. QED
    BY <2>1
<1>8. older \subseteq 1..HEAD /\ d \in older
  BY <1>1, <1>5, <1>6
<1> HIDE DEF older, c, d
<1>9. Max(older) = d
  <2>1. Max(older) \in older /\ \A x \in older : x <= Max(older)
    BY <1>1, <1>8, Greatest
  <2>2. Max(older) <= d /\ d <= Max(older)
    BY <1>7, <1>8, <2>1
  <2>3. Max(older) \in Int /\ d \in Int
    BY <1>8, <1>12, <2>1
  <2>4. QED
    BY <2>2, <2>3
<1>10. PreviousIndexed(c) = d
  BY <1>8, <1>9 DEF PreviousIndexed, older
<1>11. QED
  BY <1>4, <1>5, <1>10 DEF c, d, L, k

-----------------------------------------------------------------------------
\* Where two sets of documents differ.
Differ(new, old) ==
    {p \in DOMAIN new \cup DOMAIN old : ~ (p \in DOMAIN new \cap DOMAIN old /\ new[p] = old[p])}

\* That is what log lists ...
LEMMA LogDiffers ==
  ASSUME NEW current, NEW previous
  PROVE  {x.path : x \in ChangedDocs(current, previous)} = Differ(current, previous)
<1> DEFINE form(x) ==
      \/ /\ x = [path |-> x.path, status |-> "A", type |-> current[x.path].type]
         /\ x.path \in DOMAIN current \ DOMAIN previous
      \/ /\ x = [path |-> x.path, status |-> "M", type |-> current[x.path].type]
         /\ x.path \in {q \in DOMAIN current \cap DOMAIN previous : current[q] # previous[q]}
      \/ /\ x = [path |-> x.path, status |-> "D", type |-> previous[x.path].type]
         /\ x.path \in DOMAIN previous \ DOMAIN current
<1>1. ASSUME NEW x \in ChangedDocs(current, previous) PROVE x.path \in Differ(current, previous)
  <2>1. form(x)
    BY DEF ChangedDocs
  <2>2. QED
    BY <2>1 DEF Differ
<1>2. ASSUME NEW p \in Differ(current, previous)
      PROVE  \E x \in ChangedDocs(current, previous) : x.path = p
  <2>1. CASE p \in DOMAIN current \ DOMAIN previous
    <3>1. [path |-> p, status |-> "A", type |-> current[p].type] \in ChangedDocs(current, previous)
      BY <2>1 DEF ChangedDocs
    <3>2. QED
      BY <3>1
  <2>2. CASE p \in {q \in DOMAIN current \cap DOMAIN previous : current[q] # previous[q]}
    <3>1. [path |-> p, status |-> "M", type |-> current[p].type] \in ChangedDocs(current, previous)
      BY <2>2 DEF ChangedDocs
    <3>2. QED
      BY <3>1
  <2>3. CASE p \in DOMAIN previous \ DOMAIN current
    <3>1. [path |-> p, status |-> "D", type |-> previous[p].type] \in ChangedDocs(current, previous)
      BY <2>3 DEF ChangedDocs
    <3>2. QED
      BY <3>1
  <2>4. QED
    BY <2>1, <2>2, <2>3 DEF Differ
<1>3. QED
  BY <1>1, <1>2

\* ... and what the narrative makes nodes of, with the document as it is or was.
LEMMA NarrativeDiffers ==
  ASSUME NEW current, NEW previous
  PROVE  /\ {x.path : x \in DecisionChanges(current, previous)} = Differ(current, previous)
         /\ \A x \in DecisionChanges(current, previous) :
              /\ x.doc = IF x.path \in DOMAIN current THEN current[x.path] ELSE previous[x.path]
              /\ x.change \in {"added", "modified", "deleted"}
              /\ x.change = "deleted" <=> x.path \notin DOMAIN current
<1> DEFINE form(x) ==
      \/ /\ x = [path |-> x.path, change |-> "added", doc |-> current[x.path]]
         /\ x.path \in DOMAIN current \ DOMAIN previous
      \/ /\ x = [path |-> x.path, change |-> "modified", doc |-> current[x.path]]
         /\ x.path \in {q \in DOMAIN current \cap DOMAIN previous : current[q] # previous[q]}
      \/ /\ x = [path |-> x.path, change |-> "deleted", doc |-> previous[x.path]]
         /\ x.path \in DOMAIN previous \ DOMAIN current
<1>1. ASSUME NEW x \in DecisionChanges(current, previous)
      PROVE  /\ x.path \in Differ(current, previous)
             /\ x.doc = IF x.path \in DOMAIN current THEN current[x.path] ELSE previous[x.path]
             /\ x.change \in {"added", "modified", "deleted"}
             /\ x.change = "deleted" <=> x.path \notin DOMAIN current
  <2>1. form(x)
    BY DEF DecisionChanges
  <2>2. QED
    BY <2>1 DEF Differ
<1>2. ASSUME NEW p \in Differ(current, previous)
      PROVE  \E x \in DecisionChanges(current, previous) : x.path = p
  <2>1. CASE p \in DOMAIN current \ DOMAIN previous
    <3>1. [path |-> p, change |-> "added", doc |-> current[p]] \in DecisionChanges(current, previous)
      BY <2>1 DEF DecisionChanges
    <3>2. QED
      BY <3>1
  <2>2. CASE p \in {q \in DOMAIN current \cap DOMAIN previous : current[q] # previous[q]}
    <3>1. [path |-> p, change |-> "modified", doc |-> current[p]]
            \in DecisionChanges(current, previous)
      BY <2>2 DEF DecisionChanges
    <3>2. QED
      BY <3>1
  <2>3. CASE p \in DOMAIN previous \ DOMAIN current
    <3>1. [path |-> p, change |-> "deleted", doc |-> previous[p]]
            \in DecisionChanges(current, previous)
      BY <2>3 DEF DecisionChanges
    <3>2. QED
      BY <3>1
  <2>4. QED
    BY <2>1, <2>2, <2>3 DEF Differ
<1>3. QED
  BY <1>1, <1>2

\* The documents log filters, and the decisions among documents.
AreFiltered(filtered, docs, options) ==
    /\ DOMAIN filtered =
          {p \in DOMAIN docs : options.docType \in {Null, docs[p].type} /\ Matches(options.path, p)}
    /\ \A p \in DOMAIN filtered : filtered[p] = docs[p]
AreDecisions(decisions, docs) ==
    /\ DOMAIN decisions = {p \in DOMAIN docs : docs[p].type \in DecisionTypes}
    /\ \A p \in DOMAIN decisions : decisions[p] = docs[p]
LEMMA FilteredDocs ==
  ASSUME NEW docs, NEW options
  PROVE  AreFiltered(Filtered(docs, options), docs, options) /\ AreDecisions(Decisions(docs), docs)
<1> DEFINE typed == OfType(docs, options.docType)
<1>1. /\ DOMAIN typed = {p \in DOMAIN docs : options.docType \in {Null, docs[p].type}}
      /\ \A p \in DOMAIN typed : typed[p] = docs[p]
  BY DEF OfType, Restricted
<1>2. Filtered(docs, options) = Restricted(typed, {p \in DOMAIN typed : Matches(options.path, p)})
  BY DEF Filtered
<1> HIDE DEF typed
<1>3. /\ DOMAIN Filtered(docs, options) = {p \in DOMAIN typed : Matches(options.path, p)}
      /\ \A p \in DOMAIN Filtered(docs, options) : Filtered(docs, options)[p] = typed[p]
  BY <1>2 DEF Restricted
<1>4. AreDecisions(Decisions(docs), docs)
  BY DEF Decisions, Restricted, AreDecisions
<1>5. QED
  BY <1>1, <1>3, <1>4 DEF AreFiltered

\* A decision that changed has also changed for a log that is asked for its path, or for
\* the type it has or had.
LEMMA FilteredDiffers ==
  ASSUME NEW new, NEW old, NEW options, NEW p \in Differ(Decisions(new), Decisions(old)),
         Matches(options.path, p),
         options.docType \in {Null, IF p \in DOMAIN Decisions(new) THEN Decisions(new)[p].type
                                    ELSE Decisions(old)[p].type}
  PROVE  p \in Differ(Filtered(new, options), Filtered(old, options))
<1> DEFINE D == DOMAIN Decisions(new)
           E == DOMAIN Decisions(old)
           F == Filtered(new, options)
           G == Filtered(old, options)
<1>1. p \in D \cup E /\ ~ (p \in D \cap E /\ Decisions(new)[p] = Decisions(old)[p])
  BY DEF Differ
<1>2. /\ p \in D <=> (p \in DOMAIN new /\ new[p].type \in DecisionTypes)
      /\ p \in E <=> (p \in DOMAIN old /\ old[p].type \in DecisionTypes)
      /\ p \in D => Decisions(new)[p] = new[p]
      /\ p \in E => Decisions(old)[p] = old[p]
  <2>1. AreDecisions(Decisions(new), new) /\ AreDecisions(Decisions(old), old)
    BY FilteredDocs
  <2>2. QED
    BY <2>1 DEF AreDecisions
<1>3. /\ p \in DOMAIN F <=> (p \in DOMAIN new /\ options.docType \in {Null, new[p].type})
      /\ p \in DOMAIN G <=> (p \in DOMAIN old /\ options.docType \in {Null, old[p].type})
      /\ p \in DOMAIN F => F[p] = new[p]
      /\ p \in DOMAIN G => G[p] = old[p]
  <2>1. AreFiltered(F, new, options) /\ AreFiltered(G, old, options)
    BY FilteredDocs
  <2> HIDE DEF F, G
  <2>2. QED
    BY <2>1 DEF AreFiltered
<1> HIDE DEF D, E, F, G
<1>4. p \in DOMAIN F \cup DOMAIN G /\ ~ (p \in DOMAIN F \cap DOMAIN G /\ F[p] = G[p])
  <2>1. CASE p \in D
    <3>1. p \in DOMAIN F
      BY <1>2, <1>3, <2>1 DEF D
    <3>2. ASSUME p \in DOMAIN G, F[p] = G[p] PROVE FALSE
      <4>1. new[p] = old[p] /\ p \in DOMAIN old
        BY <1>3, <3>1, <3>2
      <4>2. p \in E /\ Decisions(new)[p] = Decisions(old)[p]
        BY <1>2, <2>1, <4>1
      <4>3. QED
        BY <1>1, <2>1, <4>2
    <3>3. QED
      BY <3>1, <3>2
  <2>2. CASE p \notin D
    <3>1. p \in E
      BY <1>1, <2>2
    <3>2. p \in DOMAIN G
      BY <1>2, <1>3, <2>2, <3>1 DEF D
    <3>3. ASSUME p \in DOMAIN F, F[p] = G[p] PROVE FALSE
      <4>1. new[p] = old[p] /\ p \in DOMAIN new
        BY <1>3, <3>2, <3>3
      <4>2. QED
        BY <1>2, <2>2, <3>1, <4>1
    <3>4. QED
      BY <3>2, <3>3
  <2>3. QED
    BY <2>1, <2>2
<1>5. QED
  BY <1>4 DEF Differ, F, G

\* Where a log without a filter finds a change, and a decision is or was, a decision changed.
LEMMA DecisionsDiffer ==
  ASSUME NEW new, NEW old
  PROVE  Differ(Filtered(new, LogOptions), Filtered(old, LogOptions))
           \cap (DOMAIN Decisions(old) \cup DOMAIN Decisions(new))
         = Differ(Decisions(new), Decisions(old))
<1> DEFINE F == Filtered(new, LogOptions)
           G == Filtered(old, LogOptions)
<1>1. LogOptions.docType = Null /\ LogOptions.path = Null
  BY DEF LogOptions
<1>2. /\ DOMAIN F = DOMAIN new /\ DOMAIN G = DOMAIN old
      /\ \A p \in DOMAIN new : F[p] = new[p]
      /\ \A p \in DOMAIN old : G[p] = old[p]
  <2>1. AreFiltered(F, new, LogOptions) /\ AreFiltered(G, old, LogOptions)
    BY FilteredDocs
  <2> HIDE DEF F, G
  <2>2. QED
    BY <1>1, <2>1 DEF AreFiltered, Matches
<1>3. ASSUME NEW p \in Differ(F, G), p \in DOMAIN Decisions(old) \cup DOMAIN Decisions(new)
      PROVE  p \in Differ(Decisions(new), Decisions(old))
  <2>1. /\ p \in DOMAIN Decisions(new) => p \in DOMAIN new /\ Decisions(new)[p] = new[p]
        /\ p \in DOMAIN Decisions(old) => p \in DOMAIN old /\ Decisions(old)[p] = old[p]
    <3>1. AreDecisions(Decisions(new), new) /\ AreDecisions(Decisions(old), old)
      BY FilteredDocs
    <3>2. QED
      BY <3>1 DEF AreDecisions
  <2> HIDE DEF F, G
  <2>2. QED
    BY <1>2, <1>3, <2>1 DEF Differ
<1>4. ASSUME NEW p \in Differ(Decisions(new), Decisions(old))
      PROVE  p \in Differ(F, G) /\ p \in DOMAIN Decisions(old) \cup DOMAIN Decisions(new)
  <2>1. p \in DOMAIN Decisions(old) \cup DOMAIN Decisions(new)
    BY DEF Differ
  <2>2. p \in Differ(F, G)
    BY <1>1, FilteredDiffers DEF Matches
  <2>3. QED
    BY <2>1, <2>2
<1>5. QED
  BY <1>3, <1>4

-----------------------------------------------------------------------------
\* The nodes of one snapshot, and the document each of them is about.
Older(i) == IF i = 1 THEN <<>> ELSE Decisions(DocsAt(i - 1))
LEMMA NodesOfSnapshot ==
  ASSUME RepositoryInv, NEW i \in 1..Len(Selected)
  PROVE  /\ {n.path : n \in {m \in ChangedNodes : m.index = i}}
              = Differ(Decisions(DocsAt(i)), Older(i))
         /\ \A n \in ChangedNodes : n.index = i =>
              /\ n.path \in Differ(Decisions(DocsAt(i)), Older(i))
              /\ n.commit = Selected[Len(Selected) + 1 - i]
              /\ n.type = IF n.path \in DOMAIN Decisions(DocsAt(i))
                          THEN Decisions(DocsAt(i))[n.path].type ELSE Older(i)[n.path].type
              /\ n.title = IF n.path \in DOMAIN Decisions(DocsAt(i))
                           THEN Decisions(DocsAt(i))[n.path].title ELSE Older(i)[n.path].title
              /\ n.change \in {"added", "modified", "deleted"}
              /\ n.change = "deleted" <=> n.path \notin DOMAIN Decisions(DocsAt(i))
<1> DEFINE new == Decisions(DocsAt(i))
           old == Older(i)
<1>1. ChangesAt(i) = DecisionChanges(new, old)
  BY DEF ChangesAt, Older
<1> HIDE DEF new, old
<1>2. /\ {x.path : x \in DecisionChanges(new, old)} = Differ(new, old)
      /\ \A x \in DecisionChanges(new, old) :
            /\ x.doc = IF x.path \in DOMAIN new THEN new[x.path] ELSE old[x.path]
            /\ x.change \in {"added", "modified", "deleted"}
            /\ x.change = "deleted" <=> x.path \notin DOMAIN new
  BY NarrativeDiffers
<1>3. ASSUME NEW change \in ChangesAt(i)
      PROVE  /\ RawNode(i, change) \in ChangedNodes
             /\ RawNode(i, change).index = i /\ RawNode(i, change).path = change.path
  BY DEF ChangedNodes, RawNode
<1>4. ASSUME NEW n \in ChangedNodes, n.index = i
      PROVE  \E change \in DecisionChanges(new, old) :
               /\ n.path = change.path /\ n.commit = Selected[Len(Selected) + 1 - i]
               /\ n.type = change.doc.type /\ n.title = change.doc.title /\ n.change = change.change
  <2>1. PICK change \in ChangesAt(i) : n = RawNode(i, change)
    BY <1>4, ChangedNodeIs
  <2>2. QED
    BY <1>1, <2>1 DEF RawNode
<1>5. \A n \in ChangedNodes : n.index = i =>
        /\ n.path \in Differ(new, old)
        /\ n.commit = Selected[Len(Selected) + 1 - i]
        /\ n.type = IF n.path \in DOMAIN new THEN new[n.path].type ELSE old[n.path].type
        /\ n.title = IF n.path \in DOMAIN new THEN new[n.path].title ELSE old[n.path].title
        /\ n.change \in {"added", "modified", "deleted"}
        /\ n.change = "deleted" <=> n.path \notin DOMAIN new
  BY <1>2, <1>4
<1>6. \A p \in Differ(new, old) : \E n \in ChangedNodes : n.index = i /\ n.path = p
  <2>1. ASSUME NEW p \in Differ(new, old) PROVE \E n \in ChangedNodes : n.index = i /\ n.path = p
    <3>1. PICK x \in ChangesAt(i) : x.path = p
      BY <1>1, <1>2
    <3>2. QED
      BY <1>3, <3>1
  <2>2. QED
    BY <2>1
<1>7. {n.path : n \in {m \in ChangedNodes : m.index = i}} = Differ(new, old)
  BY <1>5, <1>6
<1>8. QED
  BY <1>5, <1>7 DEF new, old

\* What log says of a snapshot of the window.
LEMMA EntryOfSnapshot ==
  ASSUME RepositoryInv, NEW i \in 2..Len(Selected), NEW options
  PROVE  LET entry == LogEntry(Selected[Len(Selected) + 1 - i], options)
         IN  /\ Selected[Len(Selected) + 1 - i] \in Indexed
             /\ entry.commit = Selected[Len(Selected) + 1 - i]
             /\ {x.path : x \in entry.changed}
                  = Differ(Filtered(DocsAt(i), options), Filtered(DocsAt(i - 1), options))
<1> DEFINE c == Selected[Len(Selected) + 1 - i]
           d == Selected[Len(Selected) + 1 - (i - 1)]
<1>1. c \in Indexed /\ PreviousIndexed(c) = d
  BY WindowOfNeighbours
<1>2. d # Null
  <2>1. i - 1 \in 1..Len(Selected)
    BY SelectedLists
  <2>2. d \in Indexed
    BY <2>1, SelectedLists
  <2>3. d \in 1..HEAD /\ HEAD \in Nat
    BY <2>2, NewestFirstLists
  <2> HIDE DEF d
  <2>4. d \in Int
    BY <2>3
  <2>5. QED
    BY <2>4, NullAssumption
<1>3. DocsAt(i) = manifests[c].docs /\ DocsAt(i - 1) = manifests[d].docs
  BY DEF DocsAt
<1> HIDE DEF c, d
<1>4. /\ LogEntry(c, options).commit = c
      /\ LogEntry(c, options).changed
           = ChangedDocs(Filtered(DocsAt(i), options), Filtered(DocsAt(i - 1), options))
  BY <1>1, <1>2, <1>3 DEF LogEntry
<1>5. {x.path : x \in LogEntry(c, options).changed}
        = Differ(Filtered(DocsAt(i), options), Filtered(DocsAt(i - 1), options))
  BY <1>4, LogDiffers
<1>6. QED
  BY <1>1, <1>4, <1>5 DEF c

\* An entry with a change is shown, whatever it was filtered by.
LEMMA LogShows ==
  ASSUME RepositoryInv, NEW c \in Indexed, NEW options, options.maxCount = Null,
         LogEntry(c, options).changed # {}
  PROVE  LogEntry(c, options) \in ToSet(Log(options))
<1> DEFINE all == [i \in 1..HEAD |-> HEAD + 1 - i]
           filtered == options.docType # Null \/ options.path # Null
           entry(e) == IF e \in Indexed THEN LogEntry(e, options) ELSE Missing(e)
           shown(e) == IF e \in Indexed THEN ~ filtered \/ HasContent(entry(e))
                       ELSE options.showMissing
           these == {e \in 1..HEAD : shown(e)}
           order == Kept(all, these)
           log == [i \in DOMAIN order |-> entry(order[i])]
<1>1. Log(options) = log
  BY DEF Log, Limited
<1>2. HEAD \in Nat /\ c \in 1..HEAD
  BY NewestFirstLists
<1>3. c \in these
  <2>1. entry(c) = LogEntry(c, options)
    OBVIOUS
  <2>2. HasContent(LogEntry(c, options))
    BY DEF HasContent
  <2>3. shown(c)
    BY <2>1, <2>2
  <2> HIDE DEF shown
  <2>4. QED
    BY <1>2, <2>3
<1>4. all = [i \in 1..HEAD |-> all[i]] /\ \A i \in 1..HEAD : all[i] = HEAD + 1 - i
  OBVIOUS
<1> HIDE DEF all, these
<1>5. IsList(all) /\ DOMAIN all = 1..HEAD
  BY <1>2, <1>4, ListMap
<1>6. c \in ToSet(all)
  <2>1. HEAD + 1 - c \in 1..HEAD /\ HEAD + 1 - (HEAD + 1 - c) = c
    BY <1>2
  <2>2. all[HEAD + 1 - c] = c
    BY <1>4, <2>1
  <2>3. QED
    BY <1>5, <2>1, <2>2 DEF ToSet
<1>7. c \in ToSet(order) /\ IsList(order)
  BY <1>3, <1>5, <1>6, KeptAll, KeptLists DEF IsList
<1> HIDE DEF order, entry
<1>8. PICK j \in DOMAIN order : order[j] = c
  BY <1>7 DEF ToSet
<1>9. DOMAIN log = DOMAIN order /\ log[j] = entry(c)
  BY <1>8
<1>10. entry(c) = LogEntry(c, options)
  BY DEF entry
<1> HIDE DEF log
<1>11. LogEntry(c, options) \in ToSet(log)
  BY <1>9, <1>10 DEF ToSet
<1>12. QED
  BY <1>1, <1>11

\* In every state with such a repository log and the narrative agree.
LEMMA LogAgrees == RepositoryInv => LogAgreesWithNarrative
<1> SUFFICES ASSUME RepositoryInv PROVE LogAgreesWithNarrative
  OBVIOUS
<1> DEFINE changes == {n \in ChangedNodes : n.index > 1}
           changedIn(entry) == {x.path : x \in entry.changed}
           listed(n, options) == \E entry \in ToSet(Log(options)) :
                                   entry.commit = n.commit /\ n.path \in changedIn(entry)
<1>1. ASSUME NEW i \in 2..Len(Selected)
      PROVE  LET c == Selected[Len(Selected) + 1 - i]
                 decided == DOMAIN Decisions(DocsAt(i - 1)) \cup DOMAIN Decisions(DocsAt(i))
             IN  changedIn(LogEntry(c, LogOptions)) \cap decided
                   = {n.path : n \in {m \in changes : m.index = i}}
  <2> DEFINE c == Selected[Len(Selected) + 1 - i]
             decided == DOMAIN Decisions(DocsAt(i - 1)) \cup DOMAIN Decisions(DocsAt(i))
             here == {m \in ChangedNodes : m.index = i}
  <2>1. i \in 1..Len(Selected) /\ i # 1 /\ i > 1
    OBVIOUS
  <2>2. changedIn(LogEntry(c, LogOptions))
          = Differ(Filtered(DocsAt(i), LogOptions), Filtered(DocsAt(i - 1), LogOptions))
    BY EntryOfSnapshot
  <2>3. Older(i) = Decisions(DocsAt(i - 1))
    BY <2>1 DEF Older
  <2>4. {n.path : n \in here} = Differ(Decisions(DocsAt(i)), Decisions(DocsAt(i - 1)))
    BY <2>1, <2>3, NodesOfSnapshot
  <2>5. {m \in changes : m.index = i} = here
    BY <2>1
  <2>6. changedIn(LogEntry(c, LogOptions)) \cap decided
          = Differ(Decisions(DocsAt(i)), Decisions(DocsAt(i - 1)))
    BY <2>2, DecisionsDiffer
  <2>7. QED
    BY <2>4, <2>5, <2>6
<1>2. ASSUME NEW n \in changes
      PROVE  /\ listed(n, [LogOptions EXCEPT !.path = {n.path}])
             /\ listed(n, [LogOptions EXCEPT !.docType = n.type])
  <2> DEFINE i == n.index
             c == Selected[Len(Selected) + 1 - i]
             new == DocsAt(i)
             old == DocsAt(i - 1)
  <2>1. i \in 2..Len(Selected) /\ i \in 1..Len(Selected) /\ i # 1
    <3>1. i \in 1..Len(Selected) /\ i > 1
      BY ChangedNodeIs
    <3>2. QED
      BY <3>1
  <2>2. Older(i) = Decisions(old)
    BY <2>1 DEF Older
  <2>3. /\ n.path \in Differ(Decisions(new), Decisions(old)) /\ n.commit = c
        /\ n.type = IF n.path \in DOMAIN Decisions(new) THEN Decisions(new)[n.path].type
                    ELSE Decisions(old)[n.path].type
    BY <2>1, <2>2, NodesOfSnapshot
  <2>4. ASSUME NEW options, options.maxCount = Null, Matches(options.path, n.path),
               options.docType \in {Null, n.type}
        PROVE  listed(n, options)
    <3>1. n.path \in Differ(Filtered(new, options), Filtered(old, options))
      BY <2>3, <2>4, FilteredDiffers
    <3>2. /\ c \in Indexed /\ LogEntry(c, options).commit = c
          /\ changedIn(LogEntry(c, options)) = Differ(Filtered(new, options), Filtered(old, options))
      BY <2>1, EntryOfSnapshot
    <3>3. n.path \in changedIn(LogEntry(c, options)) /\ LogEntry(c, options).commit = n.commit
      BY <2>3, <3>1, <3>2
    <3>4. LogEntry(c, options).changed # {}
      BY <3>3
    <3>5. LogEntry(c, options) \in ToSet(Log(options))
      BY <2>4, <3>2, <3>4, LogShows
    <3>6. QED
      BY <3>3, <3>5
  <2> DEFINE byPath == [LogOptions EXCEPT !.path = {n.path}]
             byType == [LogOptions EXCEPT !.docType = n.type]
  <2>5. byPath.maxCount = Null /\ byPath.path = {n.path} /\ byPath.docType = Null
    BY DEF LogOptions
  <2>6. byType.maxCount = Null /\ byType.path = Null /\ byType.docType = n.type
    BY DEF LogOptions
  <2> HIDE DEF byPath, byType, listed
  <2>7. listed(n, byPath)
    BY <2>4, <2>5 DEF Matches
  <2>8. listed(n, byType)
    BY <2>4, <2>6 DEF Matches
  <2>9. QED
    BY <2>7, <2>8 DEF byPath, byType
<1>3. QED
  BY <1>1, <1>2 DEF LogAgreesWithNarrative

-----------------------------------------------------------------------------
\* The threads, and what replaying them gives.

\* A path that is held by a snapshot has changed in it or before.
LEMMA HeldHasChanged ==
  ASSUME RepositoryInv, NEW p, SupportPlaces(p) # {}
  PROVE  p \in {n.path : n \in ChangedNodes}
<1>1. Len(Selected) \in Nat /\ SupportPlaces(p) \subseteq Nat
  BY SelectedLists DEF SupportPlaces
<1>2. PICK i \in SupportPlaces(p) : \A j \in SupportPlaces(p) : i <= j
  BY <1>1, Least
<1>3. i \in 1..Len(Selected)
  BY <1>2 DEF SupportPlaces
<1>4. \A j \in 1..Len(Selected) : p \in DOMAIN Decisions(DocsAt(j)) <=> j \in SupportPlaces(p)
  BY FilteredDocs DEF AreDecisions, SupportPlaces
<1>5. p \in DOMAIN Decisions(DocsAt(i))
  BY <1>2, <1>3, <1>4
<1>6. p \notin DOMAIN Older(i)
  <2>1. CASE i = 1
    <3>1. DOMAIN <<>> = {}
      OBVIOUS
    <3>2. QED
      BY <2>1, <3>1 DEF Older
  <2>2. CASE i # 1
    <3>1. i - 1 \in 1..Len(Selected) /\ ~ (i <= i - 1)
      BY <1>1, <1>3, <2>2
    <3>2. p \notin DOMAIN Decisions(DocsAt(i - 1))
      BY <1>2, <1>4, <3>1
    <3>3. QED
      BY <2>2, <3>2 DEF Older
  <2>3. QED
    BY <2>1, <2>2
<1>7. p \in Differ(Decisions(DocsAt(i)), Older(i))
  BY <1>5, <1>6 DEF Differ
<1>8. p \in {n.path : n \in {m \in ChangedNodes : m.index = i}}
  BY <1>3, <1>7, NodesOfSnapshot
<1>9. QED
  BY <1>8

\* So no node is merely related.
LEMMA OnlyChanges ==
  ASSUME RepositoryInv
  PROVE  RawNodes = ChangedNodes
<1>1. ASSUME NEW n \in RawNodes, n \notin ChangedNodes PROVE FALSE
  BY <1>1, SupportNodeIs, HeldHasChanged
<1>2. QED
  BY <1>1 DEF RawNodes

-----------------------------------------------------------------------------
\* What a node keeps of what changed.
Copies(n, raw) ==
    /\ n.index = raw.index /\ n.path = raw.path /\ n.change = raw.change
    /\ n.type = raw.type /\ n.title = raw.title
\* Its id is its place, and it follows the latest one of its path, or another one of the snapshot before, or none.
EarlierOfPath(nodes, k) == {j \in 1..(k - 1) : nodes[j].path = nodes[k].path}
FollowsOn(nodes, k) ==
    LET q == nodes[k].predecessor
        earlier == EarlierOfPath(nodes, k)
    IN  \/ earlier = {} /\ q = Null /\ nodes[k].thread = k
        \/ /\ earlier # {} /\ q \in earlier /\ \A j \in earlier : j <= q
           /\ nodes[k].thread = nodes[q].thread
        \/ /\ earlier = {} /\ q \in 1..(k - 1) /\ nodes[q].index = nodes[k].index - 1
           /\ nodes[k].thread = nodes[q].thread
Lineage(nodes, n) ==
    /\ Len(nodes) = n
    /\ \A k \in 1..n : nodes[k].id = k /\ Copies(nodes[k], RawList[k]) /\ FollowsOn(nodes, k)

\* One more node in its place.
LEMMA LineageGrows ==
  ASSUME RepositoryInv, NEW nodes \in Seq(NodeSet), NEW n \in 1..Len(RawList),
         Lineage(nodes, n - 1)
  PROVE  Lineage(Append(nodes, With(RawList[n], NextPlace(nodes, RawList[n]))), n)
<1> DEFINE raw == RawList[n]
           x == NextPlace(nodes, raw)
           new == With(raw, x)
           after == Append(nodes, new)
           p == Predecessor(nodes, raw)
<1>1. Len(RawList) \in Nat /\ raw \in RawNodes
  BY RawListOrdered, ElementOfSeq
<1>2. n - 1 \in Nat /\ n \in Int /\ Len(nodes) = n - 1
  BY <1>1 DEF Lineage
<1>3. /\ Len(after) = n /\ after[n] = new
      /\ \A k \in 1..(n - 1) : after[k] = nodes[k]
      /\ DOMAIN nodes = 1..(n - 1)
  <2>1. IsList(nodes) /\ DOMAIN nodes = 1..Len(nodes)
    BY ListOf
  <2> HIDE DEF new
  <2>2. QED
    BY <1>2, <2>1, ListAppend
<1>4. x \in Places
  BY <1>1, AppendNodeTyped
<1>5. /\ new.id = n /\ Copies(new, raw) /\ new.predecessor = p.node /\ new.index = raw.index
      /\ new.path = raw.path
      /\ new.thread = IF p.node = Null THEN n ELSE nodes[p.node].thread
  <2>1. /\ x.id = Len(nodes) + 1 /\ x.predecessor = p.node
        /\ x.thread = IF p.node = Null THEN Len(nodes) + 1 ELSE nodes[p.node].thread
    BY DEF NextPlace
  <2> HIDE DEF x, raw
  <2>2. /\ new.id = x.id /\ new.predecessor = x.predecessor /\ new.thread = x.thread /\ new.index = raw.index
        /\ new.path = raw.path /\ new.change = raw.change /\ new.type = raw.type
        /\ new.title = raw.title
    BY <1>1, <1>4, NodeFields
  <2> HIDE DEF new, p
  <2>3. QED
    BY <1>2, <2>1, <2>2 DEF Copies
<1>6. /\ p.relation \in {"path-continuity", "heuristic-high", "root"}
      /\ p.relation = "path-continuity" =>
           /\ p.node \in OlderOfPath(nodes, raw)
           /\ \A i \in OlderOfPath(nodes, raw) : i <= p.node
      /\ p.relation # "path-continuity" => OlderOfPath(nodes, raw) = {}
      /\ p.relation = "heuristic-high" => p.node \in SameTitleBefore(nodes, raw)
      /\ p.relation = "root" => p.node = Null
  <2> HIDE DEF raw
  <2>1. QED
    BY <1>1, PredecessorIs
<1> HIDE DEF p, new, x, after, raw
<1>7. ASSUME NEW k \in 1..(n - 1)
      PROVE  after[k].id = k /\ Copies(after[k], RawList[k]) /\ FollowsOn(after, k)
  <2>1. /\ nodes[k].id = k /\ Copies(nodes[k], RawList[k]) /\ FollowsOn(nodes, k)
        /\ after[k] = nodes[k]
    BY <1>3 DEF Lineage
  <2>2. \A j \in 1..(k - 1) : j \in 1..(n - 1)
    BY <1>2
  <2>3. \A j \in 1..(k - 1) : after[j] = nodes[j]
    BY <1>3, <2>2
  <2>4. EarlierOfPath(after, k) = EarlierOfPath(nodes, k)
    BY <2>1, <2>3 DEF EarlierOfPath
  <2>5. EarlierOfPath(nodes, k) \subseteq 1..(k - 1)
    BY DEF EarlierOfPath
  <2>6. FollowsOn(after, k)
    BY <2>1, <2>3, <2>4, <2>5 DEF FollowsOn
  <2>7. QED
    BY <2>1, <2>6
<1>8. OlderOfPath(nodes, raw) = EarlierOfPath(after, n)
  <2>1. OlderOfPath(nodes, raw) = {i \in 1..(n - 1) : nodes[i].path = raw.path}
    BY <1>3 DEF OlderOfPath
  <2>2. EarlierOfPath(after, n) = {i \in 1..(n - 1) : after[i].path = raw.path}
    BY <1>3, <1>5 DEF EarlierOfPath
  <2>3. QED
    BY <1>3, <2>1, <2>2
<1>9. FollowsOn(after, n)
  <2>1. CASE p.relation = "path-continuity"
    <3>1. p.node \in EarlierOfPath(after, n) /\ \A i \in EarlierOfPath(after, n) : i <= p.node
      BY <1>6, <1>8, <2>1
    <3>2. p.node \in 1..(n - 1)
      BY <3>1 DEF EarlierOfPath
    <3>3. p.node # Null
      <4>1. p.node \in Int
        BY <1>2, <3>2
      <4>2. QED
        BY <4>1, NullAssumption
    <3>4. after[n].thread = after[p.node].thread /\ after[n].predecessor = p.node
      BY <1>3, <1>5, <3>2, <3>3
    <3>5. QED
      BY <3>1, <3>4 DEF FollowsOn
  <2>2. CASE p.relation = "heuristic-high"
    <3>1. EarlierOfPath(after, n) = {} /\ p.node \in SameTitleBefore(nodes, raw)
      BY <1>6, <1>8, <2>2
    <3>2. p.node \in 1..(n - 1) /\ nodes[p.node].index = raw.index - 1
      BY <1>3, <3>1 DEF SameTitleBefore
    <3>3. p.node # Null
      <4>1. p.node \in Int
        BY <1>2, <3>2
      <4>2. QED
        BY <4>1, NullAssumption
    <3>4. /\ after[n].thread = after[p.node].thread /\ after[n].predecessor = p.node
          /\ after[p.node].index = after[n].index - 1
      BY <1>3, <1>5, <3>2, <3>3
    <3>5. QED
      BY <3>1, <3>2, <3>4 DEF FollowsOn
  <2>3. CASE p.relation = "root"
    <3>1. EarlierOfPath(after, n) = {} /\ p.node = Null
      BY <1>6, <1>8, <2>3
    <3>2. after[n].thread = n /\ after[n].predecessor = Null
      BY <1>3, <1>5, <3>1
    <3>3. QED
      BY <3>1, <3>2 DEF FollowsOn
  <2>4. QED
    BY <1>6, <2>1, <2>2, <2>3
<1>10. after[n].id = n /\ Copies(after[n], RawList[n])
  BY <1>3, <1>5 DEF raw
<1>11. \A k \in 1..n : k = n \/ k \in 1..(n - 1)
  BY <1>2
<1>12. \A k \in 1..n : after[k].id = k /\ Copies(after[k], RawList[k]) /\ FollowsOn(after, k)
  BY <1>7, <1>9, <1>10, <1>11
<1>13. Lineage(after, n)
  BY <1>3, <1>12 DEF Lineage
<1>14. QED
  BY <1>13 DEF after, new, x, raw

\* The nodes of a narrative.
LEMMA NodesLineage ==
  ASSUME RepositoryInv
  PROVE  Lineage(Nodes, Len(RawList))
<1> DEFINE N == Len(RawList)
<1>1. PICK nodes : Assigns(nodes)
  BY NodesLoop
<1> DEFINE T == {n \in Int : Lineage(nodes[n], n)}
<1>2. N \in Nat
  BY RawListOrdered
<1>3. 0 \in T
  <2>1. nodes[0] = <<>> /\ Len(<<>>) = 0
    BY <1>1 DEF Assigns
  <2>2. \A k \in 1..0 : FALSE
    OBVIOUS
  <2>3. QED
    BY <2>1, <2>2 DEF Lineage
<1>4. ASSUME NEW n \in 1..N, n - 1 \in T PROVE n \in T
  <2>1. n - 1 \in 0..N /\ n \in Int
    BY <1>2
  <2>2. /\ nodes[n - 1] \in Seq(NodeSet)
        /\ nodes[n] = Append(nodes[n - 1], With(RawList[n], NextPlace(nodes[n - 1], RawList[n])))
    <3> DEFINE V == Seq(NodeSet)
    <3>1. /\ nodes \in [0..N -> V]
          /\ \A m \in 1..N : nodes[m] = Append(nodes[m - 1],
                                               With(RawList[m], NextPlace(nodes[m - 1], RawList[m])))
      BY <1>1 DEF Assigns
    <3> HIDE DEF V
    <3>2. QED
      BY <2>1, <3>1 DEF V
  <2>3. Lineage(nodes[n - 1], n - 1)
    BY <1>4
  <2>4. Lineage(nodes[n], n)
    BY <2>2, <2>3, LineageGrows
  <2>5. QED
    BY <2>1, <2>4
<1> HIDE DEF T
<1>5. \A n \in 0..N : n \in T
  BY <1>2, <1>3, <1>4, Upward
<1>6. N \in T
  BY <1>2, <1>5
<1>7. nodes[N] = Nodes
  BY <1>1 DEF Assigns
<1>8. QED
  BY <1>6, <1>7 DEF T

-----------------------------------------------------------------------------
\* The nodes of a path come in the order of their snapshots.
LEMMA RawOrdered ==
  ASSUME RepositoryInv, NEW j \in 1..Len(RawList), NEW k \in 1..Len(RawList)
  PROVE  /\ RawList[j] \in ChangedNodes /\ RawList[j].index \in 1..Len(Selected)
         /\ j < k => RawList[j].index <= RawList[k].index
         /\ j < k /\ RawList[j].path = RawList[k].path => RawList[j].index < RawList[k].index
<1>1. RawList[j] \in RawNodes /\ RawList[k] \in RawNodes /\ Len(RawList) = Cardinality(RawNodes)
  <2>1. Len(RawList) \in Nat /\ DOMAIN RawList = 1..Len(RawList)
    BY RawListOrdered
  <2>2. RawList \in [1..Cardinality(RawNodes) -> RawNodes] /\ Cardinality(RawNodes) \in Nat
    BY RawListOrdered DEF IsOrderOf
  <2>3. 1..Len(RawList) = 1..Cardinality(RawNodes)
    BY <2>1, <2>2
  <2>4. Len(RawList) = Cardinality(RawNodes)
    BY <2>1, <2>2, <2>3
  <2>5. QED
    BY <2>2, <2>4
<1>2. /\ RawList[j] \in ChangedNodes /\ RawList[j].index \in 1..Len(Selected)
      /\ RawList[k].index \in 1..Len(Selected) /\ RawList[j].path \in Int /\ RawList[k].path \in Int
  <2>1. RawList[j] \in ChangedNodes /\ RawList[k] \in ChangedNodes
    BY <1>1, OnlyChanges
  <2>2. QED
    BY <2>1, ChangedNodeIs
<1>3. ASSUME j < k
      PROVE  \/ RawList[j].index < RawList[k].index
             \/ RawList[j].index = RawList[k].index /\ RawList[j].path < RawList[k].path
  <2>1. KeyBefore(RawKey[RawList[j]], RawKey[RawList[k]])
    BY <1>1, <1>3, RawListOrdered DEF IsOrderOf
  <2>2. /\ RawKey[RawList[j]] = <<RawList[j].index, RawList[j].path>>
        /\ RawKey[RawList[k]] = <<RawList[k].index, RawList[k].path>>
    BY <1>1 DEF RawKey
  <2> DEFINE a == RawList[j].index
             b == RawList[j].path
             c == RawList[k].index
             d == RawList[k].path
  <2>3. KeyBefore(<<a, b>>, <<c, d>>)
    BY <2>1, <2>2
  <2> HIDE DEF a, b, c, d
  <2>4. PICK i \in DOMAIN <<a, b>> : /\ <<a, b>>[i] < <<c, d>>[i]
                                     /\ \A x \in 1..(i - 1) : <<a, b>>[x] = <<c, d>>[x]
    BY <2>3 DEF KeyBefore
  <2>5. i = 1 \/ i = 2
    OBVIOUS
  <2>6. CASE i = 1
    BY <2>4, <2>6 DEF a, b, c, d
  <2>7. CASE i = 2
    <3>1. 1 \in 1..(i - 1)
      BY <2>7
    <3>2. a = c /\ b < d
      BY <2>4, <2>7, <3>1
    <3>3. QED
      BY <3>2 DEF a, b, c, d
  <2>8. QED
    BY <2>5, <2>6, <2>7
<1>4. j < k => RawList[j].index <= RawList[k].index
  BY <1>2, <1>3
<1>5. ASSUME j < k, RawList[j].path = RawList[k].path PROVE RawList[j].index < RawList[k].index
  BY <1>2, <1>3, <1>5
<1>6. QED
  BY <1>2, <1>4, <1>5

\* Every change is a node.
LEMMA RawCovers ==
  ASSUME RepositoryInv, NEW n \in ChangedNodes
  PROVE  \E k \in 1..Len(RawList) : RawList[k] = n
<1>1. n \in RawNodes /\ ToSet(RawList) = RawNodes
  BY OnlyChanges, RawListOrdered DEF IsOrderOf
<1>2. QED
  BY <1>1, RawListOrdered DEF ToSet

\* A path stays in one thread.
OneThread(nodes, n) ==
    \A j, k \in 1..n : nodes[j].path = nodes[k].path => nodes[j].thread = nodes[k].thread
LEMMA OnePathOneThread ==
  ASSUME NEW nodes, NEW N \in Nat, Lineage(nodes, N)
  PROVE  OneThread(nodes, N)
<1> DEFINE T == {n \in Int : OneThread(nodes, n)}
<1>1. 0 \in T
  <2>1. \A k \in 1..0 : FALSE
    OBVIOUS
  <2>2. QED
    BY <2>1 DEF OneThread
<1>2. ASSUME NEW n \in 1..N, n - 1 \in T PROVE n \in T
  <2>1. n \in Int /\ n - 1 \in Int /\ FollowsOn(nodes, n) /\ OneThread(nodes, n - 1)
    BY <1>2 DEF Lineage
  <2>2. ASSUME NEW j \in 1..(n - 1), nodes[j].path = nodes[n].path
        PROVE  nodes[j].thread = nodes[n].thread
    <3>1. j \in EarlierOfPath(nodes, n)
      BY <2>2 DEF EarlierOfPath
    <3>2. /\ nodes[n].predecessor \in EarlierOfPath(nodes, n)
          /\ nodes[n].thread = nodes[nodes[n].predecessor].thread
      BY <2>1, <3>1 DEF FollowsOn
    <3>3. /\ nodes[n].predecessor \in 1..(n - 1)
          /\ nodes[nodes[n].predecessor].path = nodes[n].path
      BY <3>2 DEF EarlierOfPath
    <3>4. nodes[j].thread = nodes[nodes[n].predecessor].thread
      BY <2>1, <2>2, <3>3 DEF OneThread
    <3>5. QED
      BY <3>2, <3>4
  <2>3. \A k \in 1..n : k = n \/ k \in 1..(n - 1)
    BY <2>1
  <2>4. OneThread(nodes, n)
    BY <2>1, <2>2, <2>3 DEF OneThread
  <2>5. QED
    BY <2>1, <2>4
<1> HIDE DEF T
<1>3. \A n \in 0..N : n \in T
  BY <1>1, <1>2, Upward
<1>4. N \in T
  BY <1>3
<1>5. QED
  BY <1>4 DEF T

\* A node follows one of an earlier snapshot, in its thread.
LEMMA NodesFollow ==
  ASSUME RepositoryInv, NEW nodes, Lineage(nodes, Len(RawList)), NEW i \in 1..Len(RawList)
  PROVE  LET n == nodes[i]
         IN  /\ n.change # "related"
             /\ IF n.predecessor = Null THEN n.thread = i
                ELSE /\ nodes[n.predecessor].index < n.index
                     /\ nodes[n.predecessor].thread = n.thread
<1> DEFINE q == nodes[i].predecessor
<1>1. Len(RawList) \in Nat
  BY RawListOrdered
<1>2. \A k \in 1..Len(RawList) : nodes[k].path = RawList[k].path /\ nodes[k].index = RawList[k].index
                                 /\ nodes[k].change = RawList[k].change
  BY DEF Lineage, Copies
<1>3. RawList[i] \in ChangedNodes /\ RawList[i].index \in 1..Len(Selected)
  BY RawOrdered
<1>4. nodes[i].change # "related"
  <2>1. RawList[i].change \in {"added", "modified", "deleted"}
    BY <1>3, NodesOfSnapshot
  <2>2. QED
    BY <1>2, <2>1
<1>5. ASSUME q \in 1..(i - 1) PROVE q # Null /\ q \in 1..Len(RawList) /\ q < i
  <2>1. q \in Int /\ q \in 1..Len(RawList) /\ q < i
    BY <1>1, <1>5
  <2>2. QED
    BY <2>1, NullAssumption
<1>6. FollowsOn(nodes, i)
  BY DEF Lineage
<1>7. CASE EarlierOfPath(nodes, i) = {} /\ q = Null /\ nodes[i].thread = i
  BY <1>4, <1>7
<1>8. CASE q \in EarlierOfPath(nodes, i) /\ nodes[i].thread = nodes[q].thread
  <2>1. q \in 1..(i - 1) /\ nodes[q].path = nodes[i].path
    BY <1>8 DEF EarlierOfPath
  <2>2. RawList[q].index < RawList[i].index
    <3>1. q \in 1..Len(RawList) /\ q < i /\ RawList[q].path = RawList[i].path
      BY <1>2, <1>5, <2>1
    <3> HIDE DEF q
    <3>2. QED
      BY <3>1, RawOrdered
  <2>3. QED
    BY <1>2, <1>4, <1>5, <1>8, <2>1, <2>2
<1>9. CASE /\ q \in 1..(i - 1) /\ nodes[q].index = nodes[i].index - 1
           /\ nodes[i].thread = nodes[q].thread
  <2>1. nodes[i].index \in Int
    <3>1. Len(Selected) \in Nat
      BY SelectedLists
    <3>2. QED
      BY <1>2, <1>3, <3>1
  <2>2. nodes[q].index < nodes[i].index
    BY <1>9, <2>1
  <2>3. QED
    BY <1>4, <1>5, <1>9, <2>2
<1>10. QED
  BY <1>6, <1>7, <1>8, <1>9 DEF FollowsOn

\* The last change of a path is what the newest snapshot has of it.
LEMMA LastChange ==
  ASSUME RepositoryInv, NEW k \in 1..Len(RawList),
         \A j \in 1..Len(RawList) : RawList[j].path = RawList[k].path => j <= k
  PROVE  LET newest == Decisions(DocsAt(Len(Selected)))
             p == RawList[k].path
         IN  /\ RawList[k].change # "deleted" <=> p \in DOMAIN newest
             /\ p \in DOMAIN newest => RawList[k].title = newest[p].title
<1> DEFINE L == Len(Selected)
           p == RawList[k].path
           s == RawList[k].index
           D(i) == Decisions(DocsAt(i))
           Same(i) == /\ p \in DOMAIN D(i) <=> p \in DOMAIN D(s)
                      /\ p \in DOMAIN D(s) => D(i)[p] = D(s)[p]
           T == {n \in Int : Same(s + n)}
<1>1. L \in Nat /\ s \in 1..L /\ s \in Int /\ RawList[k] \in ChangedNodes
  BY SelectedLists, RawOrdered
<1>2. ASSUME NEW i \in 1..L, s < i PROVE p \notin Differ(D(i), D(i - 1))
  <2>1. SUFFICES ASSUME p \in Differ(D(i), Older(i)) PROVE FALSE
    BY <1>1, <1>2 DEF Older
  <2>2. PICK n \in ChangedNodes : n.index = i /\ n.path = p
    <3>1. p \in {n.path : n \in {m \in ChangedNodes : m.index = i}}
      BY <2>1, NodesOfSnapshot
    <3>2. QED
      BY <3>1
  <2>3. PICK j \in 1..Len(RawList) : RawList[j] = n
    BY RawCovers
  <2>4. j <= k
    BY <2>2, <2>3
  <2>5. j = k \/ j < k
    BY <2>4, RawListOrdered
  <2>6. RawList[j].index <= s
    <3>1. CASE j = k
      BY <1>1, <3>1
    <3>2. CASE j < k
      BY <3>2, RawOrdered
    <3>3. QED
      BY <2>5, <3>1, <3>2
  <2>7. i <= s
    BY <2>2, <2>3, <2>6
  <2>8. QED
    BY <1>1, <1>2, <2>7
<1>3. 0 \in T
  <2>1. s + 0 = s
    BY <1>1
  <2>2. QED
    BY <2>1
<1>4. ASSUME NEW n \in 1..(L - s), n - 1 \in T PROVE n \in T
  <2>1. n \in Int /\ s + n \in 1..L /\ s < s + n /\ s + (n - 1) = (s + n) - 1
    BY <1>1
  <2>2. Same((s + n) - 1)
    BY <1>4, <2>1
  <2>3. p \notin Differ(D(s + n), D((s + n) - 1))
    BY <1>2, <2>1
  <2> DEFINE new == D(s + n)
             old == D((s + n) - 1)
             first == D(s)
  <2>4. /\ p \in DOMAIN old <=> p \in DOMAIN first
        /\ p \in DOMAIN first => old[p] = first[p]
    BY <2>2
  <2>5. p \notin Differ(new, old)
    BY <2>3
  <2> HIDE DEF new, old, first
  <2>6. /\ p \in DOMAIN new <=> p \in DOMAIN first
        /\ p \in DOMAIN first => new[p] = first[p]
    BY <2>4, <2>5 DEF Differ
  <2>7. Same(s + n)
    BY <2>6 DEF new, first
  <2>8. QED
    BY <2>1, <2>7
<1>5. Same(L)
  <2>1. L - s \in Nat /\ s + (L - s) = L
    BY <1>1
  <2> HIDE DEF T
  <2>2. \A n \in 0..(L - s) : n \in T
    BY <1>3, <1>4, <2>1, Upward
  <2>3. L - s \in T
    BY <2>1, <2>2
  <2>4. Same(s + (L - s))
    BY <2>3 DEF T
  <2>5. QED
    BY <2>1, <2>4
<1>6. /\ RawList[k].change = "deleted" <=> p \notin DOMAIN D(s)
      /\ p \in DOMAIN D(s) => RawList[k].title = D(s)[p].title
  BY <1>1, NodesOfSnapshot
<1>7. QED
  BY <1>5, <1>6

\* What the nodes of a narrative say of the newest snapshot.
LEMMA NodesReplay ==
  ASSUME RepositoryInv, Selected # <<>>, NEW nodes, Lineage(nodes, Len(RawList)),
         DOMAIN nodes = 1..Len(RawList)
  PROVE  Replays(nodes, Decisions(DocsAt(Len(Selected))))
<1> DEFINE N == Len(RawList)
           L == Len(Selected)
           newest == Decisions(DocsAt(L))
           ofPath(p) == {i \in DOMAIN nodes : nodes[i].path = p}
           paths == {nodes[i].path : i \in DOMAIN nodes}
           final(p) == nodes[Max(ofPath(p))]
<1>1. N \in Nat /\ L \in 1..Len(Selected)
  <2>1. L # 0
    BY SelectedLists, ListFacts
  <2>2. QED
    BY <2>1, SelectedLists, RawListOrdered
<1>2. \A k \in 1..N : Copies(nodes[k], RawList[k])
  BY DEF Lineage
<1>3. ASSUME NEW p \in paths
      PROVE  /\ final(p).change # "deleted" <=> p \in DOMAIN newest
             /\ p \in DOMAIN newest => final(p).title = newest[p].title
  <2>1. ofPath(p) \subseteq 1..N /\ ofPath(p) # {}
    OBVIOUS
  <2> DEFINE k == Max(ofPath(p))
  <2>2. k \in ofPath(p) /\ \A x \in ofPath(p) : x <= k
    BY <1>1, <2>1, Greatest
  <2> HIDE DEF k
  <2>3. k \in 1..N /\ nodes[k].path = p
    BY <2>2
  <2>4. /\ nodes[k].path = RawList[k].path /\ nodes[k].change = RawList[k].change
        /\ nodes[k].title = RawList[k].title
    BY <1>2, <2>3 DEF Copies
  <2>5. \A j \in 1..N : RawList[j].path = RawList[k].path => j <= k
    BY <1>2, <2>2, <2>3, <2>4 DEF Copies
  <2>6. /\ RawList[k].change # "deleted" <=> RawList[k].path \in DOMAIN newest
        /\ RawList[k].path \in DOMAIN newest => RawList[k].title = newest[RawList[k].path].title
    BY <2>3, <2>5, LastChange
  <2>7. final(p) = nodes[k]
    BY DEF k
  <2>8. QED
    BY <2>3, <2>4, <2>6, <2>7
<1>4. ASSUME NEW p \in DOMAIN newest PROVE p \in paths
  <2>1. AreDecisions(newest, DocsAt(L))
    BY FilteredDocs
  <2>2. L \in SupportPlaces(p)
    <3> HIDE DEF newest
    <3>1. p \in DOMAIN DocsAt(L) /\ DocsAt(L)[p].type \in DecisionTypes
      BY <1>4, <2>1 DEF AreDecisions
    <3>2. QED
      BY <1>1, <3>1 DEF SupportPlaces
  <2>3. PICK n \in ChangedNodes : n.path = p
    BY <2>2, HeldHasChanged
  <2>4. PICK k \in 1..N : RawList[k] = n
    BY RawCovers
  <2>5. nodes[k].path = p
    BY <1>2, <2>3, <2>4 DEF Copies
  <2>6. QED
    BY <2>5
<1>5. {p \in paths : final(p).change # "deleted"} = DOMAIN newest
  <2>1. \A p \in paths : final(p).change # "deleted" <=> p \in DOMAIN newest
    BY <1>3
  <2> HIDE DEF paths, final, newest
  <2>2. QED
    BY <1>4, <2>1
<1>6. \A p \in DOMAIN newest : final(p).title = newest[p].title
  BY <1>3, <1>4
<1>7. \A p \in paths : \A i, j \in ofPath(p) : nodes[i].thread = nodes[j].thread
  <2>1. OneThread(nodes, N)
    BY <1>1, OnePathOneThread
  <2>2. QED
    BY <2>1 DEF OneThread
<1>8. \A i \in DOMAIN nodes :
        LET n == nodes[i]
        IN  /\ n.change # "related"
            /\ IF n.predecessor = Null THEN n.thread = i
               ELSE /\ nodes[n.predecessor].index < n.index
                    /\ nodes[n.predecessor].thread = n.thread
  BY NodesFollow
<1>9. QED
  BY <1>5, <1>6, <1>7, <1>8 DEF Replays

\* Replaying the nodes of the window gives the decisions of its newest snapshot.
LEMMA LineageFollows ==
  ASSUME RepositoryInv
  PROVE  LineageReplays
<1>1. Lineage(Nodes, Len(RawList))
  BY NodesLineage
<1>2. DOMAIN Nodes = 1..Len(RawList)
  <2>1. IsList(Nodes)
    BY NodesTyped, ListOf
  <2>2. QED
    BY <1>1, <2>1, ListFacts DEF Lineage
<1>3. QED
  BY <1>1, <1>2, NodesReplay DEF LineageReplays

-----------------------------------------------------------------------------
\* The ledger: what its events have, and what tells them apart.

\* An artifact has a title and a date, and what it was captured with.
Complete(a) ==
    /\ {"title", "session", "goal", "paths", "source", "status", "bound", "createdAt"} \subseteq DOMAIN a
    /\ a.createdAt \in Int

\* The events of the commands, when commit h was HEAD.
EventAt(h, type, ref, session, goal, paths) ==
    [type |-> type, ref |-> ref, head |-> IF h = 0 THEN Null ELSE h, session |-> session,
     goal |-> goal, paths |-> paths, at |-> 2 * h + 1]
CaptureEvent(h, i) ==
    EventAt(h, Batches[i].event, i, Batches[i].session, Batches[i].goal, Batches[i].paths)
ReviewEvent(h, id, a) ==
    [EventAt(h, "artifact.review", id, a.session, a.goal, a.paths) EXCEPT !.head = a.source]
IngestEvent(h, paths) == EventAt(h, "ingest.completed", PathsRef[paths], Null, Null, paths)
WrapEvent(h, session) == EventAt(h, "memory.wrap", session.id, session.id, session.goal, {})
PathSets == SUBSET UNION {DOMAIN tree : tree \in Trees}
Recorded(e, records) ==
    \E h \in Nat : \/ \E i \in DOMAIN Batches : e = CaptureEvent(h, i)
                   \/ \E id \in DOMAIN records : e = ReviewEvent(h, id, records[id])
                   \/ \E paths \in PathSets : e = IngestEvent(h, paths)
                   \/ \E session \in Sessions : e = WrapEvent(h, session)
LedgerInv ==
    /\ \A id \in DOMAIN artifacts : Complete(artifacts[id])
    /\ \A e \in ledger : Recorded(e, artifacts)

\* An artifact that is changed keeps what it was captured with.
Continues(a, b) == /\ Complete(b) /\ b.session = a.session /\ b.goal = a.goal /\ b.paths = a.paths
              /\ b.source = a.source
Grows(records, later) ==
    DOMAIN records \subseteq DOMAIN later /\ \A id \in DOMAIN records : Continues(records[id], later[id])

\* So the events stay recorded.
LEMMA StaysRecorded ==
  ASSUME NEW records, NEW later, Grows(records, later), NEW e, Recorded(e, records)
  PROVE  Recorded(e, later)
<1>1. ASSUME NEW h \in Nat, NEW id \in DOMAIN records, e = ReviewEvent(h, id, records[id])
      PROVE  id \in DOMAIN later /\ e = ReviewEvent(h, id, later[id])
  BY <1>1 DEF Grows, Continues, ReviewEvent
<1>2. QED
  BY <1>1 DEF Recorded

\* The number of a commit in the dates.
LEMMA NowIs ==
  ASSUME RepositoryInv
  PROVE  /\ HEAD \in Nat
         /\ \A type, ref, session, goal, paths :
              Event(type, ref, session, goal, paths) = EventAt(HEAD, type, ref, session, goal, paths)
<1>1. HEAD \in Nat
  BY HeadTitled
<1>2. QED
  BY <1>1 DEF Event, EventAt, HeadSha, Now

\* Every command keeps the invariant of the ledger: one that changes artifacts, ...
LEMMA LedgerGrows ==
  ASSUME LedgerInv, Grows(artifacts, artifacts'),
         \A id \in DOMAIN artifacts' \ DOMAIN artifacts : Complete(artifacts'[id]),
         \A e \in ledger' : e \in ledger \/ Recorded(e, artifacts')
  PROVE  LedgerInv'
<1>1. \A e \in ledger' : Recorded(e, artifacts')
  BY StaysRecorded DEF LedgerInv
<1>2. \A id \in DOMAIN artifacts' : Complete(artifacts'[id])
  BY DEF Grows, Continues
<1>3. QED
  BY <1>1, <1>2 DEF LedgerInv

\* ... an ingest ...
LEMMA IngestRecords ==
  ASSUME RepositoryInv, LedgerInv, NEW request, CanIngest(request), RunIngest(request)
  PROVE  LedgerInv'
<1>1. /\ artifacts' = Bound
      /\ ledger' = ledger \cup
           {Event("ingest.completed", PathsRef[Planned(request)], Null, Null, Planned(request))}
  BY DEF RunIngest
<1>2. Grows(artifacts, artifacts') /\ DOMAIN artifacts' = DOMAIN artifacts
  <2>1. /\ DOMAIN Bound = DOMAIN artifacts
        /\ \A id \in DOMAIN artifacts :
             \/ Bound[id] = [artifacts[id] EXCEPT !.bound = HEAD, !.updatedAt = Now]
             \/ Bound[id] = artifacts[id]
    BY DEF Bound
  <2>2. ASSUME NEW id \in DOMAIN artifacts PROVE Continues(artifacts[id], Bound[id])
    <3>1. Complete(artifacts[id])
      BY DEF LedgerInv
    <3>2. CASE Bound[id] = artifacts[id]
      BY <3>1, <3>2 DEF Continues
    <3>3. CASE Bound[id] = [artifacts[id] EXCEPT !.bound = HEAD, !.updatedAt = Now]
      <4> DEFINE a == artifacts[id]
                 b == [a EXCEPT !.bound = HEAD, !.updatedAt = Now]
      <4>1. Complete(a) /\ Bound[id] = b
        BY <3>1, <3>3
      <4> HIDE DEF a
      <4>2. DOMAIN b = DOMAIN a /\ \A x \in {"session", "goal", "paths", "source", "createdAt"} :
                                     x \in DOMAIN a => b[x] = a[x]
        OBVIOUS
      <4> HIDE DEF b
      <4>3. Continues(a, b)
        BY <4>1, <4>2 DEF Complete, Continues
      <4>4. QED
        BY <4>1, <4>3 DEF a
    <3>4. QED
      BY <2>1, <3>2, <3>3
  <2>3. QED
    BY <1>1, <2>1, <2>2 DEF Grows
<1>3. Planned(request) \in PathSets
  <2>1. HEAD \in 1..Len(commits) /\ HEAD # 0 /\ commits \in Seq(Trees)
    BY HeadTitled DEF CanIngest, HEAD, RepositoryInv
  <2>2. Tree(HEAD) \in Trees
    BY <2>1, ElementOfSeq DEF Tree
  <2>3. Planned(request) \subseteq DOMAIN Tree(HEAD)
    BY DEF Planned, CanIngest
  <2>4. QED
    BY <2>2, <2>3 DEF PathSets
<1>4. Recorded(IngestEvent(HEAD, Planned(request)), artifacts')
  BY <1>3, NowIs DEF Recorded
<1>5. \A e \in ledger' : e \in ledger \/ Recorded(e, artifacts')
  <2>1. IngestEvent(HEAD, Planned(request))
          = Event("ingest.completed", PathsRef[Planned(request)], Null, Null, Planned(request))
    BY NowIs DEF IngestEvent
  <2>2. QED
    BY <1>1, <1>4, <2>1
<1>6. QED
  BY <1>2, <1>5, LedgerGrows

\* ... and the others.
LEMMA LedgerStep ==
  ASSUME RepositoryInv, LedgerInv, [Next]_<<repository, report, explorer>>
  PROVE  LedgerInv'
<1>1. ASSUME UNCHANGED artifacts PROVE Grows(artifacts, artifacts') /\ DOMAIN artifacts' = DOMAIN artifacts
  BY <1>1 DEF LedgerInv, Grows, Continues
<1>2. ASSUME NEW tree \in Trees, Commit(tree) PROVE LedgerInv'
  BY <1>2 DEF Commit, files, LedgerInv
<1>3. ASSUME NEW i \in DOMAIN Batches, Capture(i) PROVE LedgerInv'
  <2> DEFINE records == Batches[i].records
             added == [status |-> "captured", source |-> HeadSha, bound |-> HeadSha,
                       createdAt |-> Now, updatedAt |-> Now]
             written == [id \in DOMAIN records |-> With(records[id], added)]
             e == Event(Batches[i].event, i, Batches[i].session, Batches[i].goal, Batches[i].paths)
  <2>1. artifacts' = With(artifacts, written) /\ ledger' = ledger \cup {e}
        /\ DOMAIN records \cap DOMAIN artifacts = {}
    BY <1>3 DEF Capture
  <2>2. ASSUME NEW id \in DOMAIN records PROVE Complete(written[id])
    <3> DEFINE r == records[id]
               w == With(r, added)
    <3>1. {"title", "session", "goal", "paths"} \subseteq DOMAIN r
      BY RecordAssumption
    <3>2. Now \in Int
      BY NowIs DEF Now
    <3>3. /\ DOMAIN added = {"status", "source", "bound", "createdAt", "updatedAt"}
          /\ added.createdAt = Now
      OBVIOUS
    <3> HIDE DEF r, added
    <3>4. DOMAIN w = DOMAIN r \cup DOMAIN added /\ w.createdAt = Now
      BY <3>3 DEF With
    <3> HIDE DEF w
    <3>5. Complete(w)
      BY <3>1, <3>2, <3>3, <3>4 DEF Complete
    <3>6. written[id] = w
      BY DEF w, r
    <3>7. QED
      BY <3>5, <3>6
  <2>3. DOMAIN written = DOMAIN records
    OBVIOUS
  <2> HIDE DEF records, added, written
  <2>4. /\ DOMAIN artifacts' = DOMAIN artifacts \cup DOMAIN records
        /\ \A id \in DOMAIN artifacts' :
             artifacts'[id] = IF id \in DOMAIN records THEN written[id] ELSE artifacts[id]
    BY <2>1, <2>3 DEF With
  <2>5. Grows(artifacts, artifacts')
    BY <2>1, <2>4 DEF Grows, Continues, LedgerInv
  <2>6. e = CaptureEvent(HEAD, i) /\ HEAD \in Nat
    BY NowIs DEF CaptureEvent
  <2>7. Recorded(e, artifacts')
    BY <2>6 DEF Recorded
  <2>8. \A id \in DOMAIN artifacts' \ DOMAIN artifacts : Complete(artifacts'[id])
    BY <2>2, <2>4
  <2> HIDE DEF e
  <2>9. \A x \in ledger' : x \in ledger \/ Recorded(x, artifacts')
    BY <2>1, <2>7
  <2>10. QED
    BY <2>5, <2>8, <2>9, LedgerGrows
<1>4. ASSUME NEW id \in DOMAIN artifacts, NEW next, Review(id, next) PROVE LedgerInv'
  <2> DEFINE a == artifacts[id]
             b == [a EXCEPT !.status = next, !.updatedAt = Now]
             e == [Event("artifact.review", id, a.session, a.goal, a.paths) EXCEPT !.head = a.source]
  <2>1. artifacts' = [artifacts EXCEPT ![id].status = next, ![id].updatedAt = Now]
        /\ ledger' = ledger \cup {e}
    BY <1>4 DEF Review
  <2>2. /\ DOMAIN artifacts' = DOMAIN artifacts /\ artifacts'[id] = b
        /\ \A x \in DOMAIN artifacts : x # id => artifacts'[x] = artifacts[x]
    BY <2>1
  <2>3. Complete(a)
    BY DEF LedgerInv
  <2>4. e = ReviewEvent(HEAD, id, a) /\ HEAD \in Nat
    BY NowIs DEF ReviewEvent
  <2>5. Recorded(e, artifacts)
    BY <2>4 DEF Recorded
  <2> HIDE DEF a, e
  <2>6. DOMAIN b = DOMAIN a /\ \A x \in {"session", "goal", "paths", "source", "createdAt"} :
                                 x \in DOMAIN a => b[x] = a[x]
    OBVIOUS
  <2> HIDE DEF b
  <2>7. Continues(a, b)
    BY <2>3, <2>6 DEF Complete, Continues
  <2>8. Grows(artifacts, artifacts')
    BY <2>2, <2>7 DEF Grows, Continues, LedgerInv, a
  <2>9. Recorded(e, artifacts')
    BY <2>5, <2>8, StaysRecorded
  <2>10. \A x \in ledger' : x \in ledger \/ Recorded(x, artifacts')
    BY <2>1, <2>9
  <2>11. QED
    BY <2>2, <2>8, <2>10, LedgerGrows
<1>5. ASSUME NEW session \in Sessions, Wrap(session) \/ WrapCutShort(session) PROVE LedgerInv'
  <2> DEFINE e == Event("memory.wrap", session.id, session.id, session.goal, {})
  <2>1. UNCHANGED artifacts /\ ledger' \subseteq ledger \cup {e}
    BY <1>5 DEF Wrap, WrapCutShort
  <2>2. e = WrapEvent(HEAD, session) /\ HEAD \in Nat
    BY NowIs DEF WrapEvent
  <2>3. Recorded(e, artifacts')
    BY <2>2 DEF Recorded
  <2> HIDE DEF e
  <2>4. \A x \in ledger' : x \in ledger \/ Recorded(x, artifacts')
    BY <2>1, <2>3
  <2>5. QED
    BY <1>1, <2>1, <2>4, LedgerGrows
<1>6. ASSUME UNCHANGED repository PROVE LedgerInv'
  BY <1>6 DEF repository, files, LedgerInv
<1>7. CASE RepositoryNext
  BY <1>2, <1>3, <1>4, <1>5, <1>7, IngestRecords DEF RepositoryNext, Ingest
<1>8. ASSUME NEW options, Repair(options) PROVE LedgerInv'
  BY <1>8, IngestRecords DEF Repair
<1>9. QED
  BY <1>6, <1>7, <1>8 DEF Next, ExplorerNext

\* Nothing is recorded in the beginning.
LEMMA LedgerInitially == Init => LedgerInv
<1>1. ASSUME Init PROVE artifacts = <<>> /\ ledger = {}
  BY <1>1 DEF Init, RepositoryInit
<1>2. DOMAIN <<>> = {}
  OBVIOUS
<1>3. QED
  BY <1>1, <1>2 DEF LedgerInv

-----------------------------------------------------------------------------
\* The place of an event among the types.
LEMMA TypePlaces ==
  ASSUME NEW e, e.type \in {"artifact.review", "harness.capture", "harness.run",
                            "ingest.completed", "memory.wrap", "session.materialize"}
  PROVE  EventPlace(e) \in 1..6 /\ EventOrder[EventPlace(e)] = e.type
<1>1. DOMAIN EventOrder = 1..6
  BY DEF EventOrder
<1>2. \E i \in DOMAIN EventOrder : EventOrder[i] = e.type
  <2>1. /\ EventOrder[1] = "artifact.review" /\ EventOrder[2] = "harness.capture"
        /\ EventOrder[3] = "harness.run" /\ EventOrder[4] = "ingest.completed"
        /\ EventOrder[5] = "memory.wrap" /\ EventOrder[6] = "session.materialize"
    BY DEF EventOrder
  <2>2. 1 \in 1..6 /\ 2 \in 1..6 /\ 3 \in 1..6 /\ 4 \in 1..6 /\ 5 \in 1..6 /\ 6 \in 1..6
    OBVIOUS
  <2>3. QED
    BY <1>1, <2>1, <2>2
<1>3. EventPlace(e) \in DOMAIN EventOrder /\ EventOrder[EventPlace(e)] = e.type
  BY <1>2 DEF EventPlace
<1>4. QED
  BY <1>1, <1>3

\* What an event of the ledger has, ...
LEMMA EventFields ==
  ASSUME RepositoryInv, NEW e, Recorded(e, artifacts)
  PROVE  /\ e.type \in {"artifact.review", "harness.capture", "harness.run",
                        "ingest.completed", "memory.wrap", "session.materialize"}
         /\ e.at \in Int /\ e.ref \in Int
<1>1. \A h, type, ref, session, goal, paths :
        LET x == EventAt(h, type, ref, session, goal, paths)
        IN  x.type = type /\ x.at = 2 * h + 1 /\ x.ref = ref
  BY DEF EventAt
<1>2. PICK h \in Nat :
        \/ \E i \in DOMAIN Batches : e = CaptureEvent(h, i)
        \/ \E id \in DOMAIN artifacts : e = ReviewEvent(h, id, artifacts[id])
        \/ \E paths \in PathSets : e = IngestEvent(h, paths)
        \/ \E session \in Sessions : e = WrapEvent(h, session)
  BY DEF Recorded
<1>3. ASSUME NEW i \in DOMAIN Batches, e = CaptureEvent(h, i)
      PROVE  e.type = Batches[i].event /\ e.at = 2 * h + 1 /\ e.ref = i
  BY <1>1, <1>3 DEF CaptureEvent
<1>4. ASSUME NEW id \in DOMAIN artifacts, e = ReviewEvent(h, id, artifacts[id])
      PROVE  e.type = "artifact.review" /\ e.at = 2 * h + 1 /\ e.ref = id
  BY <1>4 DEF ReviewEvent, EventAt
<1>5. ASSUME NEW paths \in PathSets, e = IngestEvent(h, paths)
      PROVE  e.type = "ingest.completed" /\ e.at = 2 * h + 1 /\ e.ref = PathsRef[paths]
  BY <1>1, <1>5 DEF IngestEvent
<1>6. ASSUME NEW session \in Sessions, e = WrapEvent(h, session)
      PROVE  e.type = "memory.wrap" /\ e.at = 2 * h + 1 /\ e.ref = session.id
  BY <1>1, <1>6 DEF WrapEvent
<1>7. DOMAIN artifacts \subseteq Int
  BY DEF RepositoryInv, AllTitled
<1>8. \A paths \in PathSets : PathsRef[paths] \in Int
  BY RefAssumption DEF PathSets
<1>9. 2 * h + 1 \in Int
  OBVIOUS
<1>10. \A i \in DOMAIN Batches : i \in Int /\ Batches[i].event \in
           {"session.materialize", "harness.capture", "harness.run"}
  BY BatchAssumption
<1>11. \A session \in Sessions : session.id \in Int
  BY SessionAssumption
<1>12. CASE \E i \in DOMAIN Batches : e = CaptureEvent(h, i)
  BY <1>3, <1>9, <1>10, <1>12
<1>13. CASE \E id \in DOMAIN artifacts : e = ReviewEvent(h, id, artifacts[id])
  BY <1>4, <1>7, <1>9, <1>13
<1>14. CASE \E paths \in PathSets : e = IngestEvent(h, paths)
  BY <1>5, <1>8, <1>9, <1>14
<1>15. CASE \E session \in Sessions : e = WrapEvent(h, session)
  BY <1>6, <1>9, <1>11, <1>15
<1>16. QED
  BY <1>2, <1>12, <1>13, <1>14, <1>15

\* ... which tells it apart.
LEMMA EventsDiffer ==
  ASSUME RepositoryInv, NEW e, NEW f, Recorded(e, artifacts), Recorded(f, artifacts),
         e.at = f.at, e.type = f.type, e.ref = f.ref
  PROVE  e = f
<1> DEFINE Of(x, h) ==
      \/ \E i \in DOMAIN Batches : x = CaptureEvent(h, i) /\ x.ref = i
                                   /\ x.type \in {"session.materialize", "harness.capture", "harness.run"}
      \/ \E id \in DOMAIN artifacts : x = ReviewEvent(h, id, artifacts[id]) /\ x.ref = id
                                      /\ x.type = "artifact.review"
      \/ \E paths \in PathSets : x = IngestEvent(h, paths) /\ x.ref = PathsRef[paths]
                                 /\ x.type = "ingest.completed"
      \/ \E session \in Sessions : x = WrapEvent(h, session) /\ x.ref = session.id
                                   /\ x.type = "memory.wrap"
<1>1. ASSUME NEW x, Recorded(x, artifacts) PROVE \E h \in Nat : x.at = 2 * h + 1 /\ Of(x, h)
  <2>1. \A h, type, ref, session, goal, paths :
          LET y == EventAt(h, type, ref, session, goal, paths)
          IN  y.type = type /\ y.at = 2 * h + 1 /\ y.ref = ref
    BY DEF EventAt
  <2>2. PICK h \in Nat :
          \/ \E i \in DOMAIN Batches : x = CaptureEvent(h, i)
          \/ \E id \in DOMAIN artifacts : x = ReviewEvent(h, id, artifacts[id])
          \/ \E paths \in PathSets : x = IngestEvent(h, paths)
          \/ \E session \in Sessions : x = WrapEvent(h, session)
    BY <1>1 DEF Recorded
  <2>3. CASE \E i \in DOMAIN Batches : x = CaptureEvent(h, i)
    BY <2>1, <2>3, BatchAssumption DEF CaptureEvent
  <2>4. CASE \E id \in DOMAIN artifacts : x = ReviewEvent(h, id, artifacts[id])
    <3>1. PICK id \in DOMAIN artifacts : x = ReviewEvent(h, id, artifacts[id])
      BY <2>4
    <3>2. x.type = "artifact.review" /\ x.at = 2 * h + 1 /\ x.ref = id
      BY <3>1 DEF ReviewEvent, EventAt
    <3>3. QED
      BY <3>1, <3>2
  <2>5. CASE \E paths \in PathSets : x = IngestEvent(h, paths)
    BY <2>1, <2>5 DEF IngestEvent
  <2>6. CASE \E session \in Sessions : x = WrapEvent(h, session)
    BY <2>1, <2>6 DEF WrapEvent
  <2>7. QED
    BY <2>2, <2>3, <2>4, <2>5, <2>6
<1>2. PICK h \in Nat : e.at = 2 * h + 1 /\ Of(e, h)
  BY <1>1
<1>3. PICK k \in Nat : f.at = 2 * k + 1 /\ Of(f, k)
  BY <1>1
<1>4. h = k
  <2>1. 2 * h + 1 = 2 * k + 1
    BY <1>2, <1>3
  <2>2. QED
    BY <2>1
<1>5. \A ps, qs \in PathSets : PathsRef[ps] = PathsRef[qs] => ps = qs
  BY RefAssumption DEF PathSets
<1>6. \A s, t \in Sessions : s.id = t.id => s = t
  BY SessionAssumption
<1>7. Of(e, h) /\ Of(f, h)
  BY <1>2, <1>3, <1>4
<1>8. QED
  BY <1>5, <1>6, <1>7

-----------------------------------------------------------------------------
\* The report, made of lists.

\* The parts of a model are lists.
ModelLists(model) ==
    /\ IsList(model.snapshots) /\ IsList(model.nodes) /\ IsList(model.threads)
    /\ IsList(model.intents) /\ IsList(model.events)

\* The threads of a list of nodes are a list, ...
LEMMA ThreadsLists ==
  ASSUME NEW nodes, IsList(nodes)
  PROVE  IsList(Threads(nodes))
<1> DEFINE thread == [i \in DOMAIN nodes |-> Thread(nodes, nodes[i].thread)]
           threads == {thread[i] : i \in DOMAIN nodes}
<1>1. IsFiniteSet(DOMAIN nodes)
  BY ListFacts, FS_Interval
<1>2. thread = [i \in DOMAIN nodes |-> thread[i]]
  OBVIOUS
<1>3. Threads(nodes) = InOrder(threads, [t \in threads |-> <<t.title, t.id>>])
  BY DEF Threads
<1> HIDE DEF thread
<1>4. IsFiniteSet(threads)
  BY <1>1, <1>2, FiniteImage
<1> HIDE DEF threads
<1>5. QED
  BY <1>3, <1>4, InOrderLists

\* ... so are the intents ...
LEMMA IntentsLists == RepositoryInv => IsList(Intents)
<1> SUFFICES ASSUME RepositoryInv PROVE IsList(Intents)
  OBVIOUS
<1> DEFINE ids == {id \in DOMAIN artifacts :
                     /\ artifacts[id].kind \in IntentKinds /\ Trusted(id)
                     /\ Anchor(artifacts[id]) \in ToSet(Selected)}
<1>1. ids \in SUBSET DOMAIN artifacts
  OBVIOUS
<1>2. Intents = InOrder(ids, [id \in ids |-> <<artifacts[id].createdAt, id>>])
  BY DEF Intents
<1> HIDE DEF ids
<1>3. IsFiniteSet(ids)
  BY <1>1, FS_Subset DEF RepositoryInv, AllTitled
<1>4. QED
  BY <1>2, <1>3, InOrderLists

\* ... and the events of a repository, ...
LEMMA EventsLists == RepositoryInv => IsList(Events)
<1> SUFFICES ASSUME RepositoryInv PROVE IsList(Events)
  OBVIOUS
<1> DEFINE place(e) == CHOOSE i \in DOMAIN EventOrder : EventOrder[i] = e.type
           events == {e \in ledger : \/ e.head \in ToSet(Selected)
                                     \/ AuthoredAt(Oldest) <= e.at /\ e.at <= AuthoredAt(Newest)}
           key == [e \in events |-> <<e.at, place(e), e.ref>>]
<1>1. events \in SUBSET ledger
  OBVIOUS
<1>2. Events = IF Selected = <<>> THEN <<>> ELSE InOrder(events, key)
  BY DEF Events
<1> HIDE DEF events, key
<1>3. IsFiniteSet(events)
  BY <1>1, FS_Subset DEF RepositoryInv
<1>4. IsList(InOrder(events, key))
  BY <1>3, InOrderLists
<1>5. QED
  BY <1>2, <1>4, ListEmpty

\* ... and the parts of a synthesis.
LEMMA SynthesisLists == RepositoryInv => ModelLists(Synthesis)
<1> SUFFICES ASSUME RepositoryInv PROVE ModelLists(Synthesis)
  OBVIOUS
<1> DEFINE nodes == Nodes
           threads == Threads(nodes)
           intents == Intents
           events == Events
           m == Synthesis
<1>1. IsList(nodes)
  BY NodesTyped, ListOf
<1> HIDE DEF nodes
<1>2. IsList(threads) /\ IsList(intents) /\ IsList(events)
  BY <1>1, ThreadsLists, IntentsLists, EventsLists
<1> HIDE DEF threads, intents, events
<1>3. /\ m.snapshots = Selected
      /\ m.nodes = [i \in DOMAIN nodes |-> With(Projected(With(nodes[i], Unbound)), NoOverlay)]
      /\ m.threads = [i \in DOMAIN threads |-> With(Projected(With(threads[i], Unbound)), NoOverlay)]
      /\ m.intents = [i \in DOMAIN intents |->
                        With(Projected(IntentItem(threads, intents[i])), NoOverlay)]
      /\ m.events = [i \in DOMAIN events |-> Projected(EventItem(threads, events[i]))]
  BY DEF Synthesis, nodes, threads, intents, events
<1> HIDE DEF m
<1>4. /\ m.nodes = [i \in DOMAIN nodes |-> m.nodes[i]]
      /\ m.threads = [i \in DOMAIN threads |-> m.threads[i]]
      /\ m.intents = [i \in DOMAIN intents |-> m.intents[i]]
      /\ m.events = [i \in DOMAIN events |-> m.events[i]]
  BY <1>3
<1>5. /\ IsList(m.nodes) /\ IsList(m.threads) /\ IsList(m.intents) /\ IsList(m.events)
  BY <1>1, <1>2, <1>4, MapLists
<1>6. QED
  BY <1>3, <1>5, SelectedLists DEF ModelLists, m

\* The overlays keep the lists.
LEMMA OverlaidLists ==
  ASSUME NEW model, {"snapshots", "nodes", "threads", "intents", "events"} \subseteq DOMAIN model,
         ModelLists(model)
  PROVE  ModelLists(Overlaid(model))
<1> DEFINE items == DriftItems(NoOptions)
           f == WithFreshness(model, items)
           v == WithValidation(f, items)
<1>1. /\ DOMAIN f = DOMAIN model
      /\ f.snapshots = model.snapshots /\ f.events = model.events
      /\ DOMAIN f.nodes = DOMAIN model.nodes /\ f.nodes = [i \in DOMAIN model.nodes |-> f.nodes[i]]
      /\ DOMAIN f.threads = DOMAIN model.threads
      /\ f.threads = [i \in DOMAIN model.threads |-> f.threads[i]]
      /\ DOMAIN f.intents = DOMAIN model.intents
      /\ f.intents = [i \in DOMAIN model.intents |-> f.intents[i]]
  BY DEF WithFreshness
<1> HIDE DEF f
<1>2. /\ v.snapshots = f.snapshots /\ v.events = f.events
      /\ v.nodes = [i \in DOMAIN f.nodes |-> v.nodes[i]]
      /\ v.threads = [i \in DOMAIN f.threads |-> v.threads[i]]
      /\ v.intents = [i \in DOMAIN f.intents |-> v.intents[i]]
  BY <1>1 DEF WithValidation
<1> HIDE DEF v
<1>3. ModelLists(f)
  BY <1>1, MapLists DEF ModelLists
<1>4. ModelLists(v)
  BY <1>2, <1>3, MapLists DEF ModelLists
<1>5. Overlaid(model) = v
  BY DEF Overlaid, v, f
<1>6. QED
  BY <1>4, <1>5

\* The parts of the model of a report are lists.
LEMMA ReportedModel ==
  ASSUME RepositoryInv
  PROVE  ModelLists(Overlaid(Synthesis))
<1>1. {"snapshots", "nodes", "threads", "intents", "events"} \subseteq DOMAIN Synthesis
  BY DEF Synthesis
<1>2. QED
  BY <1>1, SynthesisLists, OverlaidLists

-----------------------------------------------------------------------------
\* What to trust is a list, ...
LEMMA TrustLists ==
  ASSUME NEW model, ModelLists(model)
  PROVE  IsList(TrustItems(model))
<1> DEFINE items == TrustCandidates(model)
           key == [i \in DOMAIN items |-> <<-Score(items[i]), items[i].title>>]
           a == Mapped(model.threads, ThreadItem)
           b == Mapped(model.nodes, NodeItem)
           c == Mapped(Assigned(model), IntentTrustItem)
           d == Mapped(Unassigned(model), IntentTrustItem)
           e == Mapped(model.events, EventTrustItem)
<1>1. IsList(Assigned(model)) /\ IsList(Unassigned(model))
  BY KeptLists DEF Assigned, Unassigned, ModelLists
<1>2. /\ a = [i \in DOMAIN model.threads |-> a[i]]
      /\ b = [i \in DOMAIN model.nodes |-> b[i]]
      /\ c = [i \in DOMAIN Assigned(model) |-> c[i]]
      /\ d = [i \in DOMAIN Unassigned(model) |-> d[i]]
      /\ e = [i \in DOMAIN model.events |-> e[i]]
  BY DEF Mapped
<1>3. items = a \o b \o c \o d \o e
  BY DEF TrustCandidates
<1> HIDE DEF a, b, c, d, e
<1>4. IsList(a) /\ IsList(b) /\ IsList(c) /\ IsList(d) /\ IsList(e)
  BY <1>1, <1>2, MapLists DEF ModelLists
<1>5. IsList(items)
  <2>1. IsList(a \o b)
    BY <1>4, ListJoin
  <2>2. IsList(a \o b \o c)
    BY <1>4, <2>1, ListJoin
  <2>3. IsList(a \o b \o c \o d)
    BY <1>4, <2>2, ListJoin
  <2>4. QED
    BY <1>3, <1>4, <2>3, ListJoin
<1>6. TrustItems(model) = Limited(Sorted(items, key), Maxima.trust)
  BY DEF TrustItems
<1> HIDE DEF items, key
<1>7. IsList(Sorted(items, key))
  BY <1>5, SortedLists
<1>8. Maxima.trust \in Nat
  BY MaximaAssumption
<1>9. QED
  BY <1>6, <1>7, <1>8, LimitedLists

\* What a memory remembers.
LEMMA RememberedLists ==
  ASSUME RepositoryInv, NEW field \in {"constraints", "nextActions", "decisions"}
  PROVE  IsList(Remembered(field))
<1> DEFINE a == IF working # Null THEN working[field] ELSE <<>>
           b == IF latest # Null THEN latest[field] ELSE <<>>
<1>1. IsList(a) /\ IsList(b)
  BY ListEmpty DEF RepositoryInv, Remembers
<1>2. Remembered(field) = a \o b
  BY DEF Remembered
<1> HIDE DEF a, b
<1>3. QED
  BY <1>1, <1>2, ListJoin

\* The open loops of a memory are a list.
LEMMA OpenLoopsLists ==
  ASSUME RepositoryInv
  PROVE  IsList(OpenLoops)
<1>1. /\ working # Null => IsList(working.openLoops)
      /\ latest # Null => IsList(latest.openLoops)
  BY DEF RepositoryInv, Remembers
<1>2. QED
  BY <1>1, KeptLists, ListEmpty DEF OpenLoops, ActiveLoops

\* ... so is what to do now, ...
LEMMA NowLists ==
  ASSUME RepositoryInv, NEW hits, IsList(hits), NEW trusted, IsList(trusted)
  PROVE  IsList(NowItems(hits, trusted))
<1> DEFINE adrs == {h \in ToSet(hits) : h.origin = "document" /\ h.chunk.version.type = "adr"}
           own == {h \in ToSet(hits) : h.origin = "artifact"}
           recalled == RecalledDecisions(hits)
           found == Kept(hits, adrs) \o Kept(hits, own)
           remembered == Mapped(Remembered("decisions"), Memorized)
           decisions == Limited(Distinct(remembered \o recalled), Maxima.decisions)
           hitItem(h) == NowItem("retrieval-hit", <<h.origin, h.id, h.at>>, "recall", Null,
                                 IF h.origin = "document" THEN h.id ELSE Null,
                                 IF Selectable(Null) THEN HEAD ELSE Null, NoOverlay)
           trustItem(x) == NowItem(IF x.kind = "intent" THEN "intent" ELSE "thread",
                                   <<x.kind, x.id, Null>>, "narrative", x.thread, x.path, x.snapshot, x)
           actions == Distinct(Remembered("nextActions"))
           limits == Distinct(Remembered("constraints"))
           topHits == Limited(hits, Maxima.hits)
           top == Limited(trusted, 4)
           a == Mapped(OpenLoops, LAMBDA l : Noted("open-loop", l.id))
           b == Mapped(actions, LAMBDA x : Noted("next-action", x))
           c == Mapped(limits, LAMBDA x : Noted("constraint", x))
           d == Mapped(decisions, LAMBDA x : Plain("decision", x))
           e == Mapped(topHits, hitItem)
           f == Mapped(top, trustItem)
<1>1. IsList(Kept(hits, adrs)) /\ IsList(Kept(hits, own))
  BY KeptLists
<1>2. recalled = [i \in DOMAIN found |-> recalled[i]]
      /\ remembered = [i \in DOMAIN Remembered("decisions") |-> remembered[i]]
  BY DEF RecalledDecisions, Mapped
<1> HIDE DEF adrs, own
<1>3. IsList(found)
  BY <1>1, ListJoin
<1> HIDE DEF found, recalled, remembered
<1>4. IsList(recalled) /\ IsList(remembered)
  BY <1>2, <1>3, MapLists, RememberedLists
<1>5. Maxima.decisions \in Nat /\ Maxima.hits \in Nat /\ Maxima.now \in Nat
  BY MaximaAssumption
<1>6. IsList(decisions)
  <2>1. IsList(remembered \o recalled)
    BY <1>4, ListJoin
  <2>2. IsList(Distinct(remembered \o recalled))
    BY <2>1, DistinctLists
  <2>3. QED
    BY <1>5, <2>2, LimitedLists
<1>7. IsList(actions) /\ IsList(limits)
  BY RememberedLists, DistinctLists
<1>8. IsList(topHits) /\ IsList(top)
  BY <1>5, LimitedLists
<1> HIDE DEF decisions, actions, limits, topHits, top
<1>9. /\ a = [i \in DOMAIN OpenLoops |-> a[i]] /\ b = [i \in DOMAIN actions |-> b[i]]
      /\ c = [i \in DOMAIN limits |-> c[i]] /\ d = [i \in DOMAIN decisions |-> d[i]]
      /\ e = [i \in DOMAIN topHits |-> e[i]] /\ f = [i \in DOMAIN top |-> f[i]]
  BY DEF Mapped
<1>10. NowItems(hits, trusted) = Limited(a \o b \o c \o d \o e \o f, Maxima.now)
  BY DEF NowItems, decisions, actions, limits, topHits, top, remembered, recalled
<1> HIDE DEF a, b, c, d, e, f
<1>11. IsList(a) /\ IsList(b) /\ IsList(c) /\ IsList(d) /\ IsList(e) /\ IsList(f)
  BY <1>6, <1>7, <1>8, <1>9, MapLists, OpenLoopsLists
<1>12. IsList(a \o b \o c \o d \o e \o f)
  <2>1. IsList(a \o b)
    BY <1>11, ListJoin
  <2>2. IsList(a \o b \o c)
    BY <1>11, <2>1, ListJoin
  <2>3. IsList(a \o b \o c \o d)
    BY <1>11, <2>2, ListJoin
  <2>4. IsList(a \o b \o c \o d \o e)
    BY <1>11, <2>3, ListJoin
  <2>5. QED
    BY <1>11, <2>4, ListJoin
<1>13. QED
  BY <1>5, <1>10, <1>12, LimitedLists

\* There are finitely many steps, ...
LEMMA StepsFinite ==
  ASSUME NEW model, ModelLists(model)
  PROVE  IsFiniteSet(Steps(model))
<1> DEFINE ofNode == [n \in ToSet(model.nodes) |->
                        Step("decision", <<n.id>>, n.authoredAt, n.thread, n.path, n.commit, n)]
           ofIntent == [x \in ToSet(Assigned(model)) |->
                          Step("intent", <<x.id>>, x.createdAt, FirstOf(x.threads),
                               LeastOf(x.paths), x.anchor, x)]
           ofEvent == [e \in ToSet(model.events) |->
                         Step("event", <<EventPlace(e), e.ref>>, e.at, FirstOf(e.threads),
                              LeastOf(e.paths), e.head, NoOverlay)]
           A == {ofNode[n] : n \in ToSet(model.nodes)}
           B == {ofIntent[x] : x \in ToSet(Assigned(model))}
           C == {ofEvent[e] : e \in ToSet(model.events)}
           memory(origin, record) == Step(origin, <<record.id>>, record.at, Null, Null,
                                          record.head, NoOverlay)
           D == {memory("memory-session", latest), memory("memory-working", working)}
<1>1. /\ IsFiniteSet(ToSet(model.nodes)) /\ IsFiniteSet(ToSet(Assigned(model)))
      /\ IsFiniteSet(ToSet(model.events))
  BY KeptLists, ListIsFinite DEF ModelLists, Assigned
<1>2. /\ ofNode = [n \in ToSet(model.nodes) |-> ofNode[n]]
      /\ ofIntent = [x \in ToSet(Assigned(model)) |-> ofIntent[x]]
      /\ ofEvent = [e \in ToSet(model.events) |-> ofEvent[e]]
  OBVIOUS
<1>3. Steps(model) \subseteq A \cup B \cup C \cup D
  BY DEF Steps
<1> HIDE DEF ofNode, ofIntent, ofEvent, memory
<1>4. IsFiniteSet(A) /\ IsFiniteSet(B) /\ IsFiniteSet(C)
  BY <1>1, <1>2, FiniteImage
<1>5. IsFiniteSet(D)
  <2>1. \A x, y : IsFiniteSet({x} \cup {y})
    BY FS_Singleton, FS_Union
  <2>2. D = {memory("memory-session", latest)} \cup {memory("memory-working", working)}
    OBVIOUS
  <2>3. QED
    BY <2>1, <2>2
<1> HIDE DEF A, B, C, D
<1>6. IsFiniteSet(A \cup B \cup C \cup D)
  BY <1>4, <1>5, FS_Union
<1>7. QED
  BY <1>3, <1>6, FS_Subset

\* ... and the three parts of a recovery view are lists, ...
LEMMA ViewLists ==
  ASSUME RepositoryInv, NEW model, ModelLists(model), NEW answer, IsFiniteSet(answer)
  PROVE  LET view == RecoveryView(model, answer)
         IN  IsList(view.now) /\ IsList(view.trust) /\ IsList(view.steps)
<1> DEFINE trusted == TrustItems(model)
           hits == HitsInOrder(answer)
           view == RecoveryView(model, answer)
<1>1. IsList(trusted)
  BY TrustLists
<1>2. IsList(hits)
  BY InOrderLists DEF HitsInOrder
<1>3. IsList(NowItems(hits, trusted))
  BY <1>1, <1>2, NowLists
<1>4. IsList(FormationSteps(model))
  <2>1. IsList(NewestFirst(Steps(model)))
    BY StepsFinite, InOrderLists DEF NewestFirst
  <2>2. Maxima.steps \in Nat
    BY MaximaAssumption
  <2>3. QED
    BY <2>1, <2>2, LimitedLists, ReverseLists DEF FormationSteps
<1>5. view.now = NowItems(hits, trusted) /\ view.trust = trusted
      /\ view.steps = FormationSteps(model)
  BY DEF RecoveryView
<1>6. QED
  BY <1>1, <1>3, <1>4, <1>5

\* The three lists of the recovery of a report.
RecoveryLists(recovery) ==
    /\ {"now", "trust", "steps"} \subseteq DOMAIN recovery
    /\ IsList(recovery.now) /\ IsList(recovery.trust) /\ IsList(recovery.steps)

\* ... also when they are ranked and cut again.
LEMMA ProfileLists ==
  ASSUME NEW model, ModelLists(model), NEW view,
         IsList(view.now), IsList(view.trust), IsList(view.steps)
  PROVE  RecoveryLists(Profile(model, view))
<1> DEFINE p == Profile(model, view)
           Snapshots == {SnapshotStep(c) : c \in ToSet(model.snapshots)}
           ranked == Ranked(Distinct(view.trust))
<1>1. /\ p.now = Limited(Distinct(view.now), Maxima.profileNow)
      /\ p.trust = Limited(ranked, Maxima.profileTrust)
      /\ p.steps = Limited(NewestFirst(ToSet(view.steps) \cup Snapshots), Maxima.profileSteps)
      /\ {"now", "trust", "steps"} \subseteq DOMAIN p
  BY DEF Profile
<1>2. /\ Maxima.profileNow \in Nat /\ Maxima.profileTrust \in Nat
      /\ Maxima.profileSteps \in Nat
  BY MaximaAssumption
<1>3. IsList(ranked)
  BY DistinctLists, SortedLists DEF Ranked
<1>4. IsFiniteSet(Snapshots)
  <2> DEFINE f == [c \in ToSet(model.snapshots) |-> SnapshotStep(c)]
  <2>1. f = [c \in ToSet(model.snapshots) |-> f[c]]
        /\ Snapshots = {f[c] : c \in ToSet(model.snapshots)}
    OBVIOUS
  <2>2. IsFiniteSet(ToSet(model.snapshots))
    BY ListIsFinite DEF ModelLists
  <2> HIDE DEF f, Snapshots
  <2>3. QED
    BY <2>1, <2>2, FiniteImage
<1> HIDE DEF p, Snapshots, ranked
<1>5. IsFiniteSet(ToSet(view.steps) \cup Snapshots)
  BY <1>4, ListIsFinite, FS_Union
<1>6. IsList(NewestFirst(ToSet(view.steps) \cup Snapshots))
  BY <1>5, InOrderLists DEF NewestFirst
<1>7. IsList(Distinct(view.now))
  BY DistinctLists
<1>8. \A s, n : IsList(s) /\ n \in Nat => IsList(Limited(s, n))
  BY LimitedLists
<1>9. IsList(p.now)
  BY <1>1, <1>2, <1>7, <1>8
<1>10. IsList(p.trust)
  BY <1>1, <1>2, <1>3, <1>8
<1>11. IsList(p.steps)
  BY <1>1, <1>2, <1>6, <1>8
<1>12. QED
  BY <1>1, <1>9, <1>10, <1>11 DEF RecoveryLists, p

-----------------------------------------------------------------------------
\* The parts of a synthesis.

\* What is shown of a list that is sorted by a score, the highest first, and cut.
LEMMA CutSorts ==
  ASSUME NEW s, IsList(s), NEW key, NEW k \in Nat \ {0}, \A i \in 1..Len(s) : key[i] \in [1..k -> Int],
         NEW score \in [ToSet(s) -> Int], \A i \in 1..Len(s) : key[i][1] = -score[s[i]],
         NEW n \in Nat
  PROVE  LET r == Limited(Sorted(s, key), n)
         IN  /\ IsList(r) /\ ToSet(r) \subseteq ToSet(s)
             /\ \A i, j \in DOMAIN r : i < j => score[r[j]] <= score[r[i]]
             /\ \A x \in ToSet(s) \ ToSet(r) : \A y \in ToSet(r) : score[x] <= score[y]
<1> DEFINE t == Sorted(s, key)
           r == Limited(t, n)
           N == Len(s)
           M == Len(r)
<1>1. N \in Nat /\ DOMAIN s = 1..N /\ ToSet(s) = {s[i] : i \in 1..N}
  BY ListFacts DEF ToSet
<1>2. IsList(t) /\ Len(t) = N
  BY SortedLists
<1>3. PICK order \in [1..N -> 1..N] :
        /\ \A i \in 1..N : t[i] = s[order[i]]
        /\ \A j \in 1..N : \E i \in 1..N : order[i] = j
        /\ \A i, j \in 1..N : i < j => key[order[i]][1] <= key[order[j]][1]
  <2>1. IsSortOf(t, s, key)
    BY SortedSorts
  <2> HIDE DEF t
  <2>2. QED
    BY <2>1 DEF IsSortOf
<1> HIDE DEF t
<1>4. /\ IsList(r) /\ M \in Nat /\ M <= N /\ DOMAIN r = 1..M
      /\ \A i \in 1..M : r[i] = t[i]
  <2>1. IsList(r) /\ M <= N /\ \A i \in 1..M : r[i] = t[i]
    BY <1>2, LimitedLists
  <2> HIDE DEF r
  <2>2. QED
    BY <2>1, ListFacts
<1> HIDE DEF r
<1>5. \A i \in 1..N : order[i] \in 1..N /\ t[i] \in ToSet(s) /\ score[t[i]] \in Int
                      /\ key[order[i]][1] = -score[t[i]]
  BY <1>1, <1>3
<1>6. ASSUME NEW i \in 1..N, NEW j \in 1..N, i < j PROVE score[t[j]] <= score[t[i]]
  <2>1. key[order[i]][1] <= key[order[j]][1]
    BY <1>3, <1>6
  <2>2. -score[t[i]] <= -score[t[j]]
    BY <1>5, <2>1
  <2>3. QED
    BY <1>5, <2>2
<1>7. \A i \in 1..M : i \in 1..N
  BY <1>1, <1>4
<1>8. ToSet(r) = {t[i] : i \in 1..M}
  BY <1>4 DEF ToSet
<1>9. ToSet(r) \subseteq ToSet(s)
  BY <1>5, <1>7, <1>8
<1>10. \A i, j \in DOMAIN r : i < j => score[r[j]] <= score[r[i]]
  BY <1>4, <1>6, <1>7
<1>11. ASSUME NEW x \in ToSet(s) \ ToSet(r), NEW y \in ToSet(r) PROVE score[x] <= score[y]
  <2>1. PICK j \in 1..N : s[j] = x
    BY <1>1
  <2>2. PICK b \in 1..N : order[b] = j
    BY <1>3
  <2>3. t[b] = x
    BY <1>3, <2>1, <2>2
  <2>4. PICK a \in 1..M : y = t[a]
    BY <1>8
  <2>5. b \notin 1..M
    BY <1>8, <1>11, <2>3
  <2>6. a < b /\ a \in 1..N
    BY <1>1, <1>4, <1>7, <2>5
  <2>7. QED
    BY <1>6, <2>3, <2>4, <2>6
<1>12. QED
  BY <1>4, <1>9, <1>10, <1>11 DEF r, t

-----------------------------------------------------------------------------
\* Each node has its place as its id, and a title.
LEMMA NodesAre ==
  ASSUME RepositoryInv
  PROVE  /\ IsList(Nodes)
         /\ \A i \in DOMAIN Nodes : /\ Nodes[i] \in NodeSet /\ Nodes[i].id = i /\ Nodes[i].title \in Int
                                    /\ Nodes[i].thread \in Int
<1>1. /\ IsList(Nodes) /\ Len(Nodes) \in Nat /\ DOMAIN Nodes = 1..Len(Nodes)
      /\ Nodes \in Seq(NodeSet)
  BY NodesTyped, ListOf
<1>2. /\ Len(Nodes) = Len(RawList)
      /\ \A k \in 1..Len(RawList) : Nodes[k].id = k /\ Copies(Nodes[k], RawList[k])
  BY NodesLineage DEF Lineage
<1>3. ASSUME NEW n \in ChangedNodes PROVE n.title \in Int
  <2>1. n.index \in 1..Len(Selected)
    BY <1>3, ChangedNodeIs
  <2> DEFINE i == n.index
             new == Decisions(DocsAt(i))
  <2>2. /\ n.path \in Differ(new, Older(i))
        /\ n.title = IF n.path \in DOMAIN new THEN new[n.path].title ELSE Older(i)[n.path].title
    BY <2>1, NodesOfSnapshot
  <2>3. AllTitled(new)
    BY <2>1, DocsAtTitled
  <2>4. AllTitled(Older(i))
    <3>1. CASE i = 1
      <4>1. DOMAIN <<>> = {}
        OBVIOUS
      <4>2. QED
        BY <3>1, <4>1, FS_EmptySet DEF Older, AllTitled
    <3>2. CASE i # 1
      <4>1. i - 1 \in 1..Len(Selected)
        BY <2>1, <3>2, SelectedLists
      <4>2. QED
        BY <3>2, <4>1, DocsAtTitled DEF Older
    <3>3. QED
      BY <3>1, <3>2
  <2>5. n.path \in DOMAIN new \/ n.path \in DOMAIN Older(i)
    BY <2>2 DEF Differ
  <2> HIDE DEF new
  <2>6. QED
    BY <2>2, <2>3, <2>4, <2>5 DEF AllTitled, Titled
<1>4. \A k \in 1..Len(RawList) : Nodes[k].title \in Int
  BY <1>2, <1>3, RawOrdered DEF Copies
<1>5. \A n \in NodeSet : n.thread \in Int
  <2>1. \A raw \in RawNodes, x \in Places : With(raw, x).thread \in Nat
    BY NodeFields DEF Places
  <2>2. QED
    BY <2>1 DEF NodeSet
<1>6. \A i \in DOMAIN Nodes : Nodes[i] \in NodeSet
  BY <1>1, ElementOfSeq
<1>7. QED
  BY <1>1, <1>2, <1>4, <1>5, <1>6

\* A thread is that of one of its nodes, and has the title of one.
LEMMA ThreadsAre ==
  ASSUME NEW nodes, IsList(nodes),
         \A i \in DOMAIN nodes : nodes[i].title \in Int /\ nodes[i].thread \in Int
  PROVE  /\ IsList(Threads(nodes))
         /\ \A t \in ToSet(Threads(nodes)) : t = Thread(nodes, t.id) /\ t.title \in Int
<1> DEFINE thread == [i \in DOMAIN nodes |-> Thread(nodes, nodes[i].thread)]
           threads == {thread[i] : i \in DOMAIN nodes}
           key == [t \in threads |-> <<t.title, t.id>>]
<1>1. IsFiniteSet(DOMAIN nodes)
  BY ListFacts, FS_Interval
<1>2. thread = [i \in DOMAIN nodes |-> thread[i]]
  OBVIOUS
<1>3. Threads(nodes) = InOrder(threads, key)
  BY DEF Threads
<1>4. \A i \in DOMAIN nodes : thread[i] = Thread(nodes, nodes[i].thread)
  OBVIOUS
<1> HIDE DEF thread
<1>5. IsFiniteSet(threads)
  BY <1>1, <1>2, FiniteImage
<1>6. ASSUME NEW i \in DOMAIN nodes
      PROVE  /\ thread[i] = Thread(nodes, thread[i].id) /\ thread[i].title \in Int
             /\ thread[i].id \in Int
  <2> DEFINE id == nodes[i].thread
             T == {n \in ToSet(nodes) : n.thread = id}
             own == NodesOf(nodes, id)
  <2>1. Thread(nodes, id).id = id /\ Thread(nodes, id).title = Last(own).title
    BY DEF Thread
  <2>2. nodes \in Seq(ToSet(nodes)) /\ nodes[i] \in ToSet(nodes) \cap T
    BY DEF IsList, ToSet
  <2>3. own = Kept(nodes, T)
    BY DEF NodesOf
  <2>4. IsList(own) /\ ToSet(own) \subseteq ToSet(nodes) /\ nodes[i] \in ToSet(own)
    <3> HIDE DEF T, own
    <3>1. nodes[i] \in ToSet(Kept(nodes, T))
      BY <2>2, KeptAll
    <3>2. QED
      BY <2>3, <3>1, KeptLists
  <2> HIDE DEF own, T
  <2>5. Last(own) \in ToSet(own)
    <3>1. Len(own) \in Nat /\ DOMAIN own = 1..Len(own) /\ DOMAIN own # {}
      BY <2>4, ListFacts DEF ToSet
    <3>2. Len(own) \in DOMAIN own
      BY <3>1
    <3>3. QED
      BY <3>2 DEF Last, ToSet
  <2>6. PICK j \in DOMAIN nodes : Last(own) = nodes[j]
    BY <2>4, <2>5 DEF ToSet
  <2>7. QED
    BY <1>4, <2>1, <2>6
<1>7. Distinguishes(key, threads)
  <2>1. \A t \in threads : key[t] \in [1..2 -> Int] /\ key[t] = <<t.title, t.id>>
                           /\ t = Thread(nodes, t.id)
    BY <1>6
  <2> HIDE DEF key, threads
  <2>2. ASSUME NEW a \in threads, NEW b \in threads, key[a] = key[b] PROVE a = b
    <3>1. <<a.title, a.id>> = <<b.title, b.id>>
      BY <2>1, <2>2
    <3>2. a.id = b.id
      BY <3>1
    <3>3. a = Thread(nodes, a.id) /\ b = Thread(nodes, b.id)
      BY <2>1
    <3>4. QED
      BY <3>2, <3>3
  <2>3. QED
    BY <2>1, <2>2 DEF Distinguishes
<1>8. \A t \in threads : t = Thread(nodes, t.id) /\ t.title \in Int
  BY <1>6
<1> HIDE DEF threads, key
<1>9. ToSet(InOrder(threads, key)) = threads
  BY <1>5, <1>7, InOrderSorts DEF IsOrderOf
<1>10. QED
  BY <1>3, <1>8, <1>9, ThreadsLists

\* An intent is an artifact, ...
LEMMA IntentsAre ==
  ASSUME RepositoryInv, LedgerInv
  PROVE  ToSet(Intents) \subseteq DOMAIN artifacts
<1> DEFINE ids == {id \in DOMAIN artifacts :
                     /\ artifacts[id].kind \in IntentKinds /\ Trusted(id)
                     /\ Anchor(artifacts[id]) \in ToSet(Selected)}
           key == [id \in ids |-> <<artifacts[id].createdAt, id>>]
<1>1. ids \subseteq DOMAIN artifacts
  OBVIOUS
<1>2. Intents = InOrder(ids, key)
  BY DEF Intents
<1>3. \A id \in ids : key[id] = <<artifacts[id].createdAt, id>>
  OBVIOUS
<1> HIDE DEF ids, key
<1>4. IsFiniteSet(ids)
  BY <1>1, FS_Subset DEF RepositoryInv, AllTitled
<1>5. \A id \in ids : artifacts[id].createdAt \in Int /\ id \in Int
  BY <1>1 DEF RepositoryInv, AllTitled, LedgerInv, Complete
<1>6. Distinguishes(key, ids)
  <2>1. ASSUME NEW id \in ids PROVE key[id] \in [1..2 -> Int]
    <3>1. \A a, b \in Int : <<a, b>> \in [1..2 -> Int]
      OBVIOUS
    <3>2. artifacts[id].createdAt \in Int /\ id \in Int
      BY <1>5
    <3>3. <<artifacts[id].createdAt, id>> \in [1..2 -> Int]
      BY <3>1, <3>2, Zenon
    <3>4. QED
      BY <1>3, <3>3, Zenon
  <2>2. \A a, b \in ids : key[a] = key[b] => a = b
    BY <1>3
  <2>3. QED
    BY <2>1, <2>2 DEF Distinguishes
<1>7. ToSet(InOrder(ids, key)) = ids
  BY <1>4, <1>6, InOrderSorts DEF IsOrderOf
<1>8. QED
  BY <1>1, <1>2, <1>7

\* ... and an event one of the ledger.
LEMMA EventsAre ==
  ASSUME RepositoryInv, LedgerInv
  PROVE  ToSet(Events) \subseteq ledger
<1> DEFINE place(e) == CHOOSE i \in DOMAIN EventOrder : EventOrder[i] = e.type
           events == {e \in ledger : \/ e.head \in ToSet(Selected)
                                     \/ AuthoredAt(Oldest) <= e.at /\ e.at <= AuthoredAt(Newest)}
           key == [e \in events |-> <<e.at, place(e), e.ref>>]
<1>1. events \subseteq ledger
  OBVIOUS
<1>2. Events = IF Selected = <<>> THEN <<>> ELSE InOrder(events, key)
  BY DEF Events
<1>3. \A e \in events : key[e] = <<e.at, EventPlace(e), e.ref>>
  BY DEF EventPlace
<1> HIDE DEF events, key
<1>4. IsFiniteSet(events)
  BY <1>1, FS_Subset DEF RepositoryInv
<1>5. \A e \in events : /\ Recorded(e, artifacts) /\ e.at \in Int /\ e.ref \in Int /\ EventPlace(e) \in Int
                        /\ EventOrder[EventPlace(e)] = e.type
  <2>1. \A e \in events : Recorded(e, artifacts)
    BY <1>1 DEF LedgerInv
  <2>2. QED
    BY <2>1, EventFields, TypePlaces
<1>6. Distinguishes(key, events)
  <2>1. ASSUME NEW e \in events PROVE key[e] \in [1..3 -> Int]
    <3>1. \A a, b, c \in Int : <<a, b, c>> \in [1..3 -> Int]
      OBVIOUS
    <3>2. QED
      BY <1>3, <1>5, <3>1
  <2>2. ASSUME NEW a \in events, NEW b \in events, key[a] = key[b] PROVE a = b
    <3>1. a.at = b.at /\ EventPlace(a) = EventPlace(b) /\ a.ref = b.ref
      BY <1>3, <2>2
    <3>2. a.type = b.type
      BY <1>5, <3>1
    <3>3. QED
      BY <1>5, <3>1, <3>2, EventsDiffer
  <2>3. QED
    BY <2>1, <2>2 DEF Distinguishes
<1>7. ToSet(InOrder(events, key)) = events
  BY <1>4, <1>6, InOrderSorts DEF IsOrderOf
<1>8. ToSet(<<>>) = {}
  BY DEF ToSet
<1>9. QED
  BY <1>1, <1>2, <1>7, <1>8

-----------------------------------------------------------------------------
\* What a synthesis has before drift is applied.

\* The types of the events, and the statuses drift gives.
EventTypes == {"artifact.review", "harness.capture", "harness.run", "ingest.completed",
               "memory.wrap", "session.materialize"}
Statuses == {"stale", "suspect", "fresh"}

\* Parts of a model that their ids tell apart, and the fields they have.
Tells(parts) == \A a, b \in parts : a.id = b.id => a = b
Carries(parts, fields) == \A x \in parts : fields \subseteq DOMAIN x /\ x.title \in Int
Overlays == {"freshness", "validation"}

\* A model before drift is applied.
ModelFields == {"snapshots", "nodes", "threads", "intents", "events"}
Synthesized(m) ==
    /\ ModelLists(m) /\ ModelFields \subseteq DOMAIN m
    /\ Tells(ToSet(m.nodes)) /\ Carries(ToSet(m.nodes), {"id", "title", "thread"} \cup Overlays)
    /\ Tells(ToSet(m.threads)) /\ Carries(ToSet(m.threads), {"id", "title"} \cup Overlays)
    /\ Tells(ToSet(m.intents)) /\ Carries(ToSet(m.intents), {"id", "title", "threads"} \cup Overlays)
    /\ \A e \in ToSet(m.events) : e.type \in EventTypes

\* What a report shows of a part: all but its goal and session, and two statuses.
LEMMA Shows ==
  ASSUME NEW r
  PROVE  LET x == With(Projected(r), NoOverlay)
         IN  /\ Overlays \subseteq DOMAIN x
             /\ \A h \in DOMAIN r \ ({"goal", "session", "sensitivity"} \cup Overlays) :
                  h \in DOMAIN x /\ x[h] = r[h] /\ h \in DOMAIN Projected(r) /\ Projected(r)[h] = r[h]
<1> DEFINE kept == Restricted(r, DOMAIN r \ {"goal", "session"})
           mark == [sensitivity |-> Sensitivity(r)]
           p == Projected(r)
<1>1. /\ DOMAIN kept = DOMAIN r \ {"goal", "session"}
      /\ \A h \in DOMAIN r \ {"goal", "session"} : kept[h] = r[h]
  BY DEF Restricted
<1>2. DOMAIN mark = {"sensitivity"} /\ p = With(kept, mark)
  BY DEF Projected
<1> HIDE DEF kept, mark
<1>3. /\ DOMAIN p = (DOMAIN r \ {"goal", "session"}) \cup {"sensitivity"}
      /\ \A h \in DOMAIN r \ {"goal", "session", "sensitivity"} : p[h] = r[h]
  BY <1>1, <1>2 DEF With
<1>4. DOMAIN NoOverlay = Overlays
  BY DEF NoOverlay, Overlays
<1> HIDE DEF p
<1>5. /\ DOMAIN With(p, NoOverlay) = DOMAIN p \cup Overlays
      /\ \A h \in DOMAIN p \ Overlays : With(p, NoOverlay)[h] = p[h]
  BY <1>4 DEF With
<1>6. QED
  BY <1>3, <1>5 DEF p

\* The fields of a node.
LEMMA NodeDomain ==
  ASSUME NEW n \in NodeSet
  PROVE  {"id", "title", "thread", "path", "commit"} \subseteq DOMAIN n
<1>1. PICK raw \in RawNodes, x \in Places : n = With(raw, x)
  BY DEF NodeSet
<1>2. DOMAIN x = {"id", "predecessor", "relation", "thread"}
  BY DEF Places
<1>3. QED
  BY <1>1, <1>2, RawFields DEF With

\* A synthesis is such a model.
LEMMA SynthesisIs ==
  ASSUME RepositoryInv, LedgerInv
  PROVE  Synthesized(Synthesis)
<1> DEFINE nodes == Nodes
           threads == Threads(nodes)
           intents == Intents
           events == Events
           m == Synthesis
           own(x) == With(x, Unbound)
           shown(x) == With(Projected(x), NoOverlay)
           intent(id) == IntentItem(threads, id)
<1>1. IsList(nodes) /\ \A i \in DOMAIN nodes : /\ nodes[i] \in NodeSet /\ nodes[i].id = i
                                               /\ nodes[i].title \in Int /\ nodes[i].thread \in Int
  BY NodesAre
<1> HIDE DEF nodes
<1>2. \A t \in ToSet(threads) : t = Thread(nodes, t.id) /\ t.title \in Int
  BY <1>1, ThreadsAre
<1>3. \A t \in ToSet(threads) : {"id", "title"} \subseteq DOMAIN t
  <2>1. \A id : {"id", "title"} \subseteq DOMAIN Thread(nodes, id)
    BY DEF Thread
  <2> HIDE DEF threads
  <2>2. ASSUME NEW t \in ToSet(threads) PROVE {"id", "title"} \subseteq DOMAIN t
    <3>1. t = Thread(nodes, t.id)
      BY <1>2
    <3>2. {"id", "title"} \subseteq DOMAIN Thread(nodes, t.id)
      BY <2>1
    <3>3. QED
      BY <3>1, <3>2
  <2>3. QED
    BY <2>2
<1>4. \A i \in DOMAIN intents : intents[i] \in DOMAIN artifacts
  BY IntentsAre DEF ToSet
<1>5. \A i \in DOMAIN events : events[i] \in ledger
  BY EventsAre DEF ToSet
<1>6. ModelLists(m) /\ ModelFields \subseteq DOMAIN m
  BY SynthesisLists DEF Synthesis, ModelFields
<1> HIDE DEF threads, intents, events
<1>7. /\ m.nodes = [i \in DOMAIN nodes |-> shown(own(nodes[i]))]
      /\ m.threads = [i \in DOMAIN threads |-> shown(own(threads[i]))]
      /\ m.intents = [i \in DOMAIN intents |-> shown(intent(intents[i]))]
      /\ m.events = [i \in DOMAIN events |-> Projected(EventItem(threads, events[i]))]
  BY DEF Synthesis, nodes, threads, intents, events
<1> HIDE DEF m
<1>8. ASSUME NEW x, NEW h \in DOMAIN x, h \in {"id", "title", "thread", "path", "commit"}
      PROVE  /\ h \in DOMAIN shown(own(x)) /\ shown(own(x))[h] = x[h]
             /\ Overlays \subseteq DOMAIN shown(own(x))
  <2>1. DOMAIN own(x) = DOMAIN x \cup {"goal", "session"}
        /\ \A g \in DOMAIN x \ {"goal", "session"} : own(x)[g] = x[g]
    BY DEF With, Unbound
  <2> HIDE DEF own
  <2>2. h \in DOMAIN own(x) \ ({"goal", "session", "sensitivity"} \cup Overlays)
    BY <1>8, <2>1 DEF Overlays
  <2>3. QED
    BY <1>8, <2>1, <2>2, Shows
<1>9. ASSUME NEW i \in DOMAIN nodes
      PROVE  LET x == shown(own(nodes[i]))
             IN  {"id", "title", "thread"} \cup Overlays \subseteq DOMAIN x /\ x.title \in Int /\ x.id = i
  <2>1. {"id", "title", "thread"} \subseteq DOMAIN nodes[i] /\ nodes[i].id = i /\ nodes[i].title \in Int
    BY <1>1, NodeDomain
  <2> HIDE DEF shown, own
  <2>2. QED
    BY <1>8, <2>1
<1>10. ASSUME NEW i \in DOMAIN threads
       PROVE  LET x == shown(own(threads[i]))
              IN  /\ {"id", "title"} \cup Overlays \subseteq DOMAIN x /\ x.title \in Int
                  /\ x = shown(own(Thread(nodes, x.id)))
  <2>1. threads[i] \in ToSet(threads)
    BY DEF ToSet
  <2>2. {"id", "title"} \subseteq DOMAIN threads[i] /\ threads[i].title \in Int
        /\ threads[i] = Thread(nodes, threads[i].id)
    BY <1>2, <1>3, <2>1
  <2> HIDE DEF shown, own
  <2>3. shown(own(threads[i])).id = threads[i].id
    BY <1>8, <2>2
  <2>4. {"id", "title"} \cup Overlays \subseteq DOMAIN shown(own(threads[i]))
        /\ shown(own(threads[i])).title \in Int
    BY <1>8, <2>2
  <2>5. QED
    BY <2>2, <2>3, <2>4
<1>11. ASSUME NEW i \in DOMAIN intents
       PROVE  LET x == shown(intent(intents[i]))
              IN  /\ {"id", "title", "threads"} \cup Overlays \subseteq DOMAIN x /\ x.title \in Int
                  /\ x = shown(intent(x.id))
  <2> DEFINE y == intent(intents[i])
  <2>1. /\ {"id", "title", "threads"} \subseteq DOMAIN y /\ y.id = intents[i]
        /\ y.title = artifacts[intents[i]].title
    BY DEF IntentItem
  <2>2. artifacts[intents[i]].title \in Int
    BY <1>4 DEF RepositoryInv, AllTitled, Titled
  <2> HIDE DEF y
  <2>3. \A h \in {"id", "title", "threads"} : h \in DOMAIN shown(y) /\ shown(y)[h] = y[h]
    BY <2>1, Shows DEF Overlays
  <2>4. Overlays \subseteq DOMAIN shown(y)
    BY Shows
  <2>5. shown(y).id = intents[i] /\ shown(y).title \in Int
    BY <2>1, <2>2, <2>3
  <2> HIDE DEF shown
  <2>6. shown(y) = shown(intent(shown(y).id))
    BY <2>5 DEF y
  <2>7. QED
    BY <2>3, <2>4, <2>5, <2>6 DEF y
<1>12. ASSUME NEW i \in DOMAIN events
       PROVE  Projected(EventItem(threads, events[i])).type \in EventTypes
  <2> DEFINE e == events[i]
             y == EventItem(threads, e)
  <2>1. Recorded(e, artifacts)
    BY <1>5 DEF LedgerInv
  <2>2. e.type \in EventTypes
    BY <2>1, EventFields DEF EventTypes
  <2>3. "type" \in DOMAIN e
    <3>1. \A h, type, ref, session, goal, paths :
            "type" \in DOMAIN EventAt(h, type, ref, session, goal, paths)
      BY DEF EventAt
    <3>2. \A h, id, a : "type" \in DOMAIN ReviewEvent(h, id, a)
      BY DEF ReviewEvent, EventAt
    <3>3. QED
      BY <2>1, <3>1, <3>2 DEF Recorded, CaptureEvent, IngestEvent, WrapEvent
  <2> HIDE DEF e
  <2>4. "type" \in DOMAIN y /\ y.type = e.type
    BY <2>3 DEF EventItem, With
  <2> HIDE DEF y
  <2>5. Projected(y).type = y.type
    BY <2>4, Shows DEF Overlays
  <2>6. QED
    BY <2>2, <2>4, <2>5 DEF e, y
<1> HIDE DEF shown, own, intent
<1>13. Tells(ToSet(m.nodes)) /\ Carries(ToSet(m.nodes), {"id", "title", "thread"} \cup Overlays)
  <2>1. ToSet(m.nodes) = {shown(own(nodes[i])) : i \in DOMAIN nodes}
    BY <1>7 DEF ToSet
  <2>2. QED
    BY <1>9, <2>1 DEF Tells, Carries
<1>14. Tells(ToSet(m.threads)) /\ Carries(ToSet(m.threads), {"id", "title"} \cup Overlays)
  <2>1. ToSet(m.threads) = {shown(own(threads[i])) : i \in DOMAIN threads}
    BY <1>7 DEF ToSet
  <2>2. \A x \in ToSet(m.threads) : x = shown(own(Thread(nodes, x.id)))
    BY <1>10, <2>1
  <2>3. ASSUME NEW a \in ToSet(m.threads), NEW b \in ToSet(m.threads), a.id = b.id PROVE a = b
    <3>1. a = shown(own(Thread(nodes, a.id))) /\ b = shown(own(Thread(nodes, b.id)))
      BY <2>2
    <3>2. QED
      BY <2>3, <3>1
  <2>4. QED
    BY <1>10, <2>1, <2>3 DEF Tells, Carries
<1>15. Tells(ToSet(m.intents)) /\ Carries(ToSet(m.intents), {"id", "title", "threads"} \cup Overlays)
  <2>1. ToSet(m.intents) = {shown(intent(intents[i])) : i \in DOMAIN intents}
    BY <1>7 DEF ToSet
  <2>2. \A x \in ToSet(m.intents) : x = shown(intent(x.id))
    BY <1>11, <2>1
  <2>3. ASSUME NEW a \in ToSet(m.intents), NEW b \in ToSet(m.intents), a.id = b.id PROVE a = b
    <3>1. a = shown(intent(a.id)) /\ b = shown(intent(b.id))
      BY <2>2
    <3>2. QED
      BY <2>3, <3>1
  <2>4. QED
    BY <1>11, <2>1, <2>3 DEF Tells, Carries
<1>16. \A e \in ToSet(m.events) : e.type \in EventTypes
  BY <1>7, <1>12 DEF ToSet
<1>17. Synthesized(m)
  BY <1>6, <1>13, <1>14, <1>15, <1>16 DEF Synthesized, m
<1>18. QED
  BY <1>17 DEF m

-----------------------------------------------------------------------------
\* What it has afterwards.

\* A pass that gives each part a status of its own.
Restates(t, s, field, status) ==
    t = [i \in DOMAIN s |-> [h \in DOMAIN s[i] |-> IF h = field THEN status[s[i]] ELSE s[i][h]]]

\* It changes nothing else, ...
LEMMA RestatedParts ==
  ASSUME NEW s, IsList(s), NEW t, NEW field \in Overlays, NEW status, Restates(t, s, field, status),
         NEW fields, Carries(ToSet(s), fields), Tells(ToSet(s)),
         {"id", "title"} \cup Overlays \subseteq fields
  PROVE  /\ IsList(t) /\ DOMAIN t = DOMAIN s
         /\ Carries(ToSet(t), fields) /\ Tells(ToSet(t))
         /\ \A i \in DOMAIN s : /\ t[i][field] = status[s[i]]
                                /\ \A h \in fields \ {field} : t[i][h] = s[i][h]
<1> DEFINE new(x) == [h \in DOMAIN x |-> IF h = field THEN status[x] ELSE x[h]]
<1>1. t = [i \in DOMAIN s |-> new(s[i])]
  BY DEF Restates
<1>2. \A x : DOMAIN new(x) = DOMAIN x
  OBVIOUS
<1>3. \A x : \A h \in DOMAIN x : new(x)[h] = IF h = field THEN status[x] ELSE x[h]
  OBVIOUS
<1> HIDE DEF new
<1>4. IsList(t) /\ DOMAIN t = DOMAIN s
  <2>1. t = [i \in DOMAIN s |-> t[i]]
    BY <1>1
  <2>2. QED
    BY <2>1, MapLists
<1>5. \A i \in DOMAIN s : t[i] = new(s[i]) /\ s[i] \in ToSet(s)
  BY <1>1 DEF ToSet
<1>6. \A i \in DOMAIN s : fields \subseteq DOMAIN s[i] /\ s[i].title \in Int
  BY <1>5 DEF Carries
<1>7. field \in fields /\ field # "id" /\ field # "title" /\ "id" \in fields /\ "title" \in fields
  BY DEF Overlays
<1>8. ASSUME NEW i \in DOMAIN s
      PROVE  /\ t[i][field] = status[s[i]]
             /\ \A h \in fields \ {field} : t[i][h] = s[i][h]
             /\ fields \subseteq DOMAIN t[i]
  BY <1>2, <1>3, <1>5, <1>6, <1>7
<1>9. ToSet(t) = {t[i] : i \in DOMAIN s}
  BY <1>4 DEF ToSet
<1>10. Carries(ToSet(t), fields)
  <2>1. \A i \in DOMAIN s : t[i].title \in Int
    BY <1>6, <1>7, <1>8
  <2>2. QED
    BY <1>8, <1>9, <2>1 DEF Carries
<1>11. ASSUME NEW i \in DOMAIN s, NEW j \in DOMAIN s, t[i].id = t[j].id PROVE t[i] = t[j]
  <2>1. s[i].id = s[j].id
    BY <1>7, <1>8, <1>11
  <2>2. s[i] = s[j]
    BY <1>5, <2>1 DEF Tells
  <2>3. QED
    BY <1>5, <2>2
<1>12. QED
  BY <1>4, <1>8, <1>9, <1>10, <1>11 DEF Tells

\* The more statuses, the worse.
LEMMA WorstOfMore ==
  ASSUME NEW A, NEW B, A \subseteq B
  PROVE  /\ Worst(A) \in Statuses /\ Worst(B) \in Statuses
         /\ Severity(Worst(A)) <= Severity(Worst(B))
<1>1. Severity("stale") = 2 /\ Severity("suspect") = 1 /\ Severity("fresh") = 0
  BY DEF Severity
<1>2. CASE "stale" \in B
  <2>1. Worst(B) = "stale"
    BY <1>2 DEF Worst
  <2>2. Worst(A) \in Statuses
    BY DEF Worst, Statuses
  <2>3. QED
    BY <1>1, <2>1, <2>2 DEF Statuses
<1>3. CASE "stale" \notin B /\ "suspect" \in B
  <2>1. Worst(B) = "suspect"
    BY <1>3 DEF Worst
  <2>2. Worst(A) \in {"suspect", "fresh"}
    BY <1>3 DEF Worst
  <2>3. QED
    BY <1>1, <2>1, <2>2 DEF Statuses
<1>4. CASE "stale" \notin B /\ "suspect" \notin B
  <2>1. Worst(B) = "fresh" /\ Worst(A) = "fresh"
    BY <1>4 DEF Worst
  <2>2. QED
    BY <1>1, <2>1 DEF Statuses
<1>5. QED
  BY <1>2, <1>3, <1>4

\* What is hit by more is worse.
LEMMA FreshnessOfMore ==
  ASSUME NEW items, NEW A, NEW B, A \subseteq B
  PROVE  /\ Freshness(items, A) \in Statuses
         /\ Severity(Freshness(items, A)) <= Severity(Freshness(items, B))
<1> DEFINE more == IF Baseline.reasons # {} THEN {"suspect"} ELSE {}
           a == {items[i].status : i \in A} \cup more
           b == {items[i].status : i \in B} \cup more
<1>1. a \subseteq b
  OBVIOUS
<1>2. Freshness(items, A) = Worst(a) /\ Freshness(items, B) = Worst(b)
  BY DEF Freshness
<1> HIDE DEF a, b
<1>3. QED
  BY <1>1, <1>2, WorstOfMore

\* A model with both overlays.
ThreadsWorst(model) ==
    \A t \in ToSet(model.threads) :
        \A part \in PartsOf(model, t).nodes \cup PartsOf(model, t).intents :
            /\ Severity(part.freshness) <= Severity(t.freshness)
            /\ part.validation = "attention" => t.validation = "attention"
Stated(parts) == \A x \in parts : x.title \in Int /\ x.freshness \in Statuses
Reported(model) ==
    /\ ModelLists(model)
    /\ Tells(ToSet(model.nodes)) /\ Stated(ToSet(model.nodes))
    /\ Tells(ToSet(model.threads)) /\ Stated(ToSet(model.threads))
    /\ Tells(ToSet(model.intents)) /\ Stated(ToSet(model.intents))
    /\ \A e \in ToSet(model.events) : e.type \in EventTypes
    /\ ThreadsWorst(model)

\* The three passes over a synthesis lead to such a model.
LEMMA OverlaidIs ==
  ASSUME NEW m, Synthesized(m)
  PROVE  Reported(Overlaid(m))
<1> DEFINE items == DriftItems(NoOptions)
           f == WithFreshness(m, items)
           v == WithValidation(f, items)
           NF == {"id", "title", "thread"} \cup Overlays
           TF == {"id", "title"} \cup Overlays
           XF == {"id", "title", "threads"} \cup Overlays
           freshNode == [x \in ToSet(m.nodes) |-> Freshness(items, NodeHits(items, x))]
           freshIntent == [x \in ToSet(m.intents) |-> Freshness(items, IntentHits(items, x))]
           freshThread == [x \in ToSet(m.threads) |-> Freshness(items, ThreadHits(m, items, x))]
           suites == {items[i] : i \in {j \in DOMAIN items : items[j].type = "harnessSuite"}}
           ofNode(n) == Validation(NodeContext(f, n), suites)
           ofIntent(x) == Validation(IntentContext(f, x), suites)
           ofThread(t) ==
             Combined({Validation(FullThreadContext(f, t), suites)}
                      \cup {ofNode(n) : n \in PartsOf(f, t).nodes}
                      \cup {ofIntent(x) : x \in PartsOf(f, t).intents})
           validNode == [n \in ToSet(f.nodes) |-> ofNode(n)]
           validIntent == [x \in ToSet(f.intents) |-> ofIntent(x)]
           validThread == [t \in ToSet(f.threads) |-> ofThread(t)]
<1>1. /\ \A i \in DOMAIN m.nodes : m.nodes[i] \in ToSet(m.nodes)
      /\ \A i \in DOMAIN m.intents : m.intents[i] \in ToSet(m.intents)
      /\ \A i \in DOMAIN m.threads : m.threads[i] \in ToSet(m.threads)
  BY DEF ToSet
<1>2. /\ DOMAIN f = DOMAIN m
      /\ f.snapshots = m.snapshots /\ f.events = m.events
      /\ f.nodes = [i \in DOMAIN m.nodes |->
           [m.nodes[i] EXCEPT !.freshness = Freshness(items, NodeHits(items, m.nodes[i]))]]
      /\ f.intents = [i \in DOMAIN m.intents |->
           [m.intents[i] EXCEPT !.freshness = Freshness(items, IntentHits(items, m.intents[i]))]]
      /\ f.threads = [i \in DOMAIN m.threads |->
           [m.threads[i] EXCEPT !.freshness = Freshness(items, ThreadHits(m, items, m.threads[i]))]]
  BY DEF Synthesized, ModelFields, WithFreshness
<1> HIDE DEF items
<1>3. /\ Restates(f.nodes, m.nodes, "freshness", freshNode)
      /\ Restates(f.intents, m.intents, "freshness", freshIntent)
      /\ Restates(f.threads, m.threads, "freshness", freshThread)
  <2> HIDE DEF f
  <2>1. Restates(f.nodes, m.nodes, "freshness", freshNode)
    BY <1>1, <1>2 DEF Restates
  <2>2. Restates(f.intents, m.intents, "freshness", freshIntent)
    BY <1>1, <1>2 DEF Restates
  <2>3. Restates(f.threads, m.threads, "freshness", freshThread)
    BY <1>1, <1>2 DEF Restates
  <2>4. QED
    BY <2>1, <2>2, <2>3
<1>4. /\ v.snapshots = f.snapshots /\ v.events = f.events
      /\ v.nodes = [i \in DOMAIN f.nodes |-> [f.nodes[i] EXCEPT !.validation = ofNode(f.nodes[i])]]
      /\ v.intents = [i \in DOMAIN f.intents |->
                        [f.intents[i] EXCEPT !.validation = ofIntent(f.intents[i])]]
      /\ v.threads = [i \in DOMAIN f.threads |->
                        [f.threads[i] EXCEPT !.validation = ofThread(f.threads[i])]]
  <2>1. ModelFields \subseteq DOMAIN f
    BY <1>2 DEF Synthesized
  <2> HIDE DEF f
  <2>2. QED
    BY <2>1 DEF WithValidation, ModelFields
<1> HIDE DEF f, v, suites
<1>5. /\ \A i \in DOMAIN f.nodes : f.nodes[i] \in ToSet(f.nodes)
      /\ \A i \in DOMAIN f.intents : f.intents[i] \in ToSet(f.intents)
      /\ \A i \in DOMAIN f.threads : f.threads[i] \in ToSet(f.threads)
  BY DEF ToSet
<1> HIDE DEF ofNode, ofIntent, ofThread
<1>6. /\ Restates(v.nodes, f.nodes, "validation", validNode)
      /\ Restates(v.intents, f.intents, "validation", validIntent)
      /\ Restates(v.threads, f.threads, "validation", validThread)
  <2>1. Restates(v.nodes, f.nodes, "validation", validNode)
    BY <1>4, <1>5 DEF Restates
  <2>2. Restates(v.intents, f.intents, "validation", validIntent)
    BY <1>4, <1>5 DEF Restates
  <2>3. Restates(v.threads, f.threads, "validation", validThread)
    BY <1>4, <1>5 DEF Restates
  <2>4. QED
    BY <2>1, <2>2, <2>3
<1>7. /\ \A i \in DOMAIN m.nodes : freshNode[m.nodes[i]] = Freshness(items, NodeHits(items, m.nodes[i]))
      /\ \A i \in DOMAIN m.intents : freshIntent[m.intents[i]] = Freshness(items, IntentHits(items, m.intents[i]))
      /\ \A i \in DOMAIN m.threads :
           freshThread[m.threads[i]] = Freshness(items, ThreadHits(m, items, m.threads[i]))
      /\ \A i \in DOMAIN f.nodes : validNode[f.nodes[i]] = ofNode(f.nodes[i])
      /\ \A i \in DOMAIN f.intents : validIntent[f.intents[i]] = ofIntent(f.intents[i])
      /\ \A i \in DOMAIN f.threads : validThread[f.threads[i]] = ofThread(f.threads[i])
  BY <1>1, <1>5
<1> HIDE DEF freshNode, freshIntent, freshThread, validNode, validIntent, validThread
<1>8. /\ IsList(m.nodes) /\ Carries(ToSet(m.nodes), NF) /\ Tells(ToSet(m.nodes))
      /\ IsList(m.intents) /\ Carries(ToSet(m.intents), XF) /\ Tells(ToSet(m.intents))
      /\ IsList(m.threads) /\ Carries(ToSet(m.threads), TF) /\ Tells(ToSet(m.threads))
      /\ "freshness" \in Overlays /\ "validation" \in Overlays
      /\ TF \subseteq NF /\ TF \subseteq XF
  BY DEF Synthesized, ModelLists, Overlays
<1>9. "thread" \in NF \ Overlays /\ "threads" \in XF \ Overlays /\ "id" \in TF \ Overlays
  BY DEF Overlays
<1> HIDE DEF NF, XF
<1>10. /\ IsList(f.nodes) /\ DOMAIN f.nodes = DOMAIN m.nodes
       /\ Carries(ToSet(f.nodes), NF) /\ Tells(ToSet(f.nodes))
       /\ \A i \in DOMAIN m.nodes : /\ f.nodes[i]["freshness"] = freshNode[m.nodes[i]]
                                    /\ \A h \in NF \ {"freshness"} : f.nodes[i][h] = m.nodes[i][h]
  BY <1>3, <1>8, RestatedParts
<1>11. /\ IsList(f.intents) /\ DOMAIN f.intents = DOMAIN m.intents
       /\ Carries(ToSet(f.intents), XF) /\ Tells(ToSet(f.intents))
       /\ \A i \in DOMAIN m.intents : /\ f.intents[i]["freshness"] = freshIntent[m.intents[i]]
                                      /\ \A h \in XF \ {"freshness"} : f.intents[i][h] = m.intents[i][h]
  BY <1>3, <1>8, RestatedParts
<1>12. /\ IsList(f.threads) /\ DOMAIN f.threads = DOMAIN m.threads
       /\ Carries(ToSet(f.threads), TF) /\ Tells(ToSet(f.threads))
       /\ \A i \in DOMAIN m.threads : /\ f.threads[i]["freshness"] = freshThread[m.threads[i]]
                                      /\ \A h \in TF \ {"freshness"} : f.threads[i][h] = m.threads[i][h]
  BY <1>3, <1>8, RestatedParts
<1>13. /\ IsList(v.nodes) /\ DOMAIN v.nodes = DOMAIN f.nodes
       /\ Carries(ToSet(v.nodes), NF) /\ Tells(ToSet(v.nodes))
       /\ \A i \in DOMAIN f.nodes : /\ v.nodes[i]["validation"] = validNode[f.nodes[i]]
                                    /\ \A h \in NF \ {"validation"} : v.nodes[i][h] = f.nodes[i][h]
  BY <1>6, <1>8, <1>10, RestatedParts
<1>14. /\ IsList(v.intents) /\ DOMAIN v.intents = DOMAIN f.intents
       /\ Carries(ToSet(v.intents), XF) /\ Tells(ToSet(v.intents))
       /\ \A i \in DOMAIN f.intents : /\ v.intents[i]["validation"] = validIntent[f.intents[i]]
                                      /\ \A h \in XF \ {"validation"} : v.intents[i][h] = f.intents[i][h]
  BY <1>6, <1>8, <1>11, RestatedParts
<1>15. /\ IsList(v.threads) /\ DOMAIN v.threads = DOMAIN f.threads
       /\ Carries(ToSet(v.threads), TF) /\ Tells(ToSet(v.threads))
       /\ \A i \in DOMAIN f.threads : /\ v.threads[i]["validation"] = validThread[f.threads[i]]
                                      /\ \A h \in TF \ {"validation"} : v.threads[i][h] = f.threads[i][h]
  BY <1>6, <1>8, <1>12, RestatedParts
<1>16. "freshness" \in NF \ {"validation"} /\ "freshness" \in XF \ {"validation"}
       /\ "freshness" \in TF \ {"validation"}
       /\ "thread" \in NF \ {"validation"} /\ "thread" \in NF \ {"freshness"}
       /\ "threads" \in XF \ {"validation"} /\ "threads" \in XF \ {"freshness"}
       /\ "id" \in TF \ {"validation"} /\ "id" \in TF \ {"freshness"}
  BY <1>9 DEF NF, XF, Overlays
<1> HIDE DEF TF
<1>17. \A i \in DOMAIN m.nodes :
         /\ v.nodes[i].freshness = Freshness(items, NodeHits(items, m.nodes[i]))
         /\ v.nodes[i].validation = ofNode(f.nodes[i])
         /\ v.nodes[i].thread = m.nodes[i].thread /\ f.nodes[i].thread = m.nodes[i].thread
  BY <1>7, <1>10, <1>13, <1>16
<1>18. \A i \in DOMAIN m.intents :
         /\ v.intents[i].freshness = Freshness(items, IntentHits(items, m.intents[i]))
         /\ v.intents[i].validation = ofIntent(f.intents[i])
         /\ v.intents[i].threads = m.intents[i].threads /\ f.intents[i].threads = m.intents[i].threads
  BY <1>7, <1>11, <1>14, <1>16
<1>19. \A i \in DOMAIN m.threads :
         /\ v.threads[i].freshness = Freshness(items, ThreadHits(m, items, m.threads[i]))
         /\ v.threads[i].validation = ofThread(f.threads[i])
         /\ v.threads[i].id = m.threads[i].id /\ f.threads[i].id = m.threads[i].id
  BY <1>7, <1>12, <1>15, <1>16
<1>20. ModelLists(v) /\ \A e \in ToSet(v.events) : e.type \in EventTypes
  BY <1>2, <1>4, <1>13, <1>14, <1>15 DEF ModelLists, Synthesized
<1>21. /\ Stated(ToSet(v.nodes)) /\ Stated(ToSet(v.intents)) /\ Stated(ToSet(v.threads))
  <2>1. \A A : Freshness(items, A) \in Statuses
    BY FreshnessOfMore
  <2>2. \A x \in ToSet(v.nodes) : x.freshness \in Statuses
    BY <1>10, <1>13, <1>17, <2>1 DEF ToSet
  <2>3. \A x \in ToSet(v.intents) : x.freshness \in Statuses
    BY <1>11, <1>14, <1>18, <2>1 DEF ToSet
  <2>4. \A x \in ToSet(v.threads) : x.freshness \in Statuses
    BY <1>12, <1>15, <1>19, <2>1 DEF ToSet
  <2>5. QED
    BY <1>13, <1>14, <1>15, <2>2, <2>3, <2>4 DEF Stated, Carries
<1>22. ASSUME NEW k \in DOMAIN m.threads, NEW j \in DOMAIN m.nodes, m.nodes[j].thread = m.threads[k].id
       PROVE  /\ Severity(v.nodes[j].freshness) <= Severity(v.threads[k].freshness)
              /\ v.nodes[j].validation = "attention" => v.threads[k].validation = "attention"
  <2>1. NodeHits(items, m.nodes[j]) \subseteq ThreadHits(m, items, m.threads[k])
    <3>1. m.nodes[j] \in PartsOf(m, m.threads[k]).nodes
      BY <1>22 DEF PartsOf
    <3>2. QED
      BY <3>1 DEF NodeHits, ThreadHits, HitsThread
  <2>2. ofNode(f.nodes[j]) = "attention" => ofThread(f.threads[k]) = "attention"
    <3>1. f.nodes[j].thread = f.threads[k].id /\ j \in DOMAIN f.nodes
      BY <1>10, <1>17, <1>19, <1>22
    <3>2. f.nodes[j] \in PartsOf(f, f.threads[k]).nodes
      BY <3>1 DEF PartsOf
    <3>3. QED
      BY <3>2 DEF ofThread, Combined
  <2>3. QED
    BY <1>17, <1>19, <2>1, <2>2, FreshnessOfMore
<1>23. ASSUME NEW k \in DOMAIN m.threads, NEW j \in DOMAIN m.intents,
              m.threads[k].id \in ToSet(m.intents[j].threads)
       PROVE  /\ Severity(v.intents[j].freshness) <= Severity(v.threads[k].freshness)
              /\ v.intents[j].validation = "attention" => v.threads[k].validation = "attention"
  <2>1. IntentHits(items, m.intents[j]) \subseteq ThreadHits(m, items, m.threads[k])
    <3>1. m.intents[j] \in PartsOf(m, m.threads[k]).intents
      BY <1>23 DEF PartsOf
    <3>2. QED
      BY <3>1 DEF IntentHits, ThreadHits, HitsThread
  <2>2. ofIntent(f.intents[j]) = "attention" => ofThread(f.threads[k]) = "attention"
    <3>1. f.threads[k].id \in ToSet(f.intents[j].threads) /\ j \in DOMAIN f.intents
      BY <1>11, <1>18, <1>19, <1>23
    <3>2. f.intents[j] \in PartsOf(f, f.threads[k]).intents
      BY <3>1 DEF PartsOf
    <3>3. QED
      BY <3>2 DEF ofThread, Combined
  <2>3. QED
    BY <1>18, <1>19, <2>1, <2>2, FreshnessOfMore
<1>24. ThreadsWorst(v)
  <2>1. ASSUME NEW t \in ToSet(v.threads),
               NEW part \in PartsOf(v, t).nodes \cup PartsOf(v, t).intents
        PROVE  /\ Severity(part.freshness) <= Severity(t.freshness)
               /\ part.validation = "attention" => t.validation = "attention"
    <3>1. PICK k \in DOMAIN m.threads : t = v.threads[k]
      BY <1>12, <1>15 DEF ToSet
    <3>2. CASE part \in PartsOf(v, t).nodes
      <4>1. PICK j \in DOMAIN m.nodes : part = v.nodes[j] /\ v.nodes[j].thread = t.id
        BY <1>10, <1>13, <3>2 DEF PartsOf
      <4>2. m.nodes[j].thread = m.threads[k].id
        BY <1>17, <1>19, <3>1, <4>1
      <4>3. QED
        BY <1>22, <3>1, <4>1, <4>2
    <3>3. CASE part \in PartsOf(v, t).intents
      <4>1. PICK j \in DOMAIN m.intents : part = v.intents[j] /\ t.id \in ToSet(v.intents[j].threads)
        BY <1>11, <1>14, <3>3 DEF PartsOf
      <4>2. m.threads[k].id \in ToSet(m.intents[j].threads)
        BY <1>18, <1>19, <3>1, <4>1
      <4>3. QED
        BY <1>23, <3>1, <4>1, <4>2
    <3>4. QED
      BY <2>1, <3>2, <3>3
  <2>2. QED
    BY <2>1 DEF ThreadsWorst
<1>25. Reported(v)
  BY <1>13, <1>14, <1>15, <1>20, <1>21, <1>24 DEF Reported
<1>26. Overlaid(m) = v
  BY DEF Overlaid, v, f, items
<1>27. QED
  BY <1>25, <1>26

-----------------------------------------------------------------------------
\* What to trust, and the scores it is ranked by.

\* An item that stands for a thread, a node or an intent.
Represents(z, kind, x) ==
    /\ z.kind = kind /\ z.id = x.id /\ z.title = x.title
    /\ z.freshness = x.freshness /\ z.validation = x.validation /\ z.sensitivity = x.sensitivity
    /\ z.trust \in {"durable-doc", "promoted-artifact", "reviewed-artifact"}
SubjectKinds == {"thread", "node", "intent"}
\* Items that stand for the parts of a model, each for one, and for its events.
StandsIn(model, z) ==
    \/ \E kind \in SubjectKinds : \E x \in Subjects(model, kind) : Represents(z, kind, x)
    \/ z.kind = "event" /\ z.title \in 1..6
Represented(model, items) ==
    \A kind \in SubjectKinds : \A x \in Subjects(model, kind) :
        \E z \in items : Represents(z, kind, x)

\* The candidates are such items, and leave nothing out.
LEMMA CandidatesAre ==
  ASSUME NEW model, Reported(model)
  PROVE  /\ IsList(TrustCandidates(model))
         /\ \A z \in ToSet(TrustCandidates(model)) : StandsIn(model, z)
         /\ Represented(model, ToSet(TrustCandidates(model)))
<1> DEFINE items == TrustCandidates(model)
           a == Mapped(model.threads, ThreadItem)
           b == Mapped(model.nodes, NodeItem)
           c == Mapped(Assigned(model), IntentTrustItem)
           d == Mapped(Unassigned(model), IntentTrustItem)
           e == Mapped(model.events, EventTrustItem)
<1>1. /\ IsList(model.threads) /\ IsList(model.nodes) /\ IsList(model.intents)
      /\ IsList(model.events)
  BY DEF Reported, ModelLists
<1>2. /\ IsList(Assigned(model)) /\ IsList(Unassigned(model))
      /\ ToSet(Assigned(model)) \subseteq ToSet(model.intents)
      /\ ToSet(Unassigned(model)) \subseteq ToSet(model.intents)
  BY <1>1, KeptLists DEF Assigned, Unassigned
<1>3. \A x \in ToSet(model.intents) : x \in ToSet(Assigned(model)) \cup ToSet(Unassigned(model))
  <2> SUFFICES ASSUME NEW x \in ToSet(model.intents)
               PROVE  x \in ToSet(Assigned(model)) \cup ToSet(Unassigned(model))
    OBVIOUS
  <2>1. model.intents \in Seq(ToSet(model.intents))
    BY <1>1 DEF IsList
  <2>2. CASE x.threads # <<>>
    BY <2>1, <2>2, KeptAll DEF Assigned
  <2>3. CASE x.threads = <<>>
    BY <2>1, <2>3, KeptAll DEF Unassigned
  <2>4. QED
    BY <2>2, <2>3
<1>4. /\ a = [i \in DOMAIN model.threads |-> ThreadItem(model.threads[i])]
      /\ b = [i \in DOMAIN model.nodes |-> NodeItem(model.nodes[i])]
      /\ c = [i \in DOMAIN Assigned(model) |-> IntentTrustItem(Assigned(model)[i])]
      /\ d = [i \in DOMAIN Unassigned(model) |-> IntentTrustItem(Unassigned(model)[i])]
      /\ e = [i \in DOMAIN model.events |-> EventTrustItem(model.events[i])]
  BY DEF Mapped
<1>5. items = a \o b \o c \o d \o e
  BY DEF TrustCandidates
<1> HIDE DEF a, b, c, d, e, items
<1>6. /\ a = [i \in DOMAIN model.threads |-> a[i]]
      /\ b = [i \in DOMAIN model.nodes |-> b[i]]
      /\ c = [i \in DOMAIN Assigned(model) |-> c[i]]
      /\ d = [i \in DOMAIN Unassigned(model) |-> d[i]]
      /\ e = [i \in DOMAIN model.events |-> e[i]]
  BY <1>4
<1>7. IsList(a) /\ IsList(b) /\ IsList(c) /\ IsList(d) /\ IsList(e)
  BY <1>1, <1>2, <1>6, MapLists
<1>8. IsList(items) /\ ToSet(items) = ToSet(a) \cup ToSet(b) \cup ToSet(c) \cup ToSet(d) \cup ToSet(e)
  <2>1. IsList(a \o b) /\ ToSet(a \o b) = ToSet(a) \cup ToSet(b)
    BY <1>7, JoinSets
  <2>2. IsList(a \o b \o c) /\ ToSet(a \o b \o c) = ToSet(a \o b) \cup ToSet(c)
    BY <1>7, <2>1, JoinSets
  <2>3. IsList(a \o b \o c \o d) /\ ToSet(a \o b \o c \o d) = ToSet(a \o b \o c) \cup ToSet(d)
    BY <1>7, <2>2, JoinSets
  <2>4. IsList(a \o b \o c \o d \o e)
        /\ ToSet(a \o b \o c \o d \o e) = ToSet(a \o b \o c \o d) \cup ToSet(e)
    BY <1>7, <2>3, JoinSets
  <2>5. QED
    BY <1>5, <2>1, <2>2, <2>3, <2>4
<1>9. /\ ToSet(a) = {ThreadItem(x) : x \in ToSet(model.threads)}
      /\ ToSet(b) = {NodeItem(x) : x \in ToSet(model.nodes)}
      /\ ToSet(c) = {IntentTrustItem(x) : x \in ToSet(Assigned(model))}
      /\ ToSet(d) = {IntentTrustItem(x) : x \in ToSet(Unassigned(model))}
      /\ ToSet(e) = {EventTrustItem(x) : x \in ToSet(model.events)}
  BY <1>4 DEF ToSet
<1>10. /\ Subjects(model, "thread") = ToSet(model.threads)
       /\ Subjects(model, "node") = ToSet(model.nodes)
       /\ Subjects(model, "intent") = ToSet(model.intents)
  BY DEF Subjects
<1>11. /\ \A x : Represents(ThreadItem(x), "thread", x)
       /\ \A x : Represents(NodeItem(x), "node", x)
       /\ \A x : Represents(IntentTrustItem(x), "intent", x)
  BY DEF Represents, ThreadItem, NodeItem, IntentTrustItem, TrustItem
<1>12. \A x \in ToSet(model.events) : EventTrustItem(x).kind = "event"
                                      /\ EventTrustItem(x).title \in 1..6
  <2>1. \A x \in ToSet(model.events) : EventPlace(x) \in 1..6
    BY TypePlaces DEF Reported, EventTypes
  <2>2. \A x : EventTrustItem(x).kind = "event" /\ EventTrustItem(x).title = EventPlace(x)
    BY DEF EventTrustItem, TrustItem
  <2>3. QED
    BY <2>1, <2>2
<1>13. ASSUME NEW z \in ToSet(items) PROVE StandsIn(model, z)
  <2>1. CASE z \in ToSet(a)
    <3>1. PICK x \in ToSet(model.threads) : z = ThreadItem(x)
      BY <1>9, <2>1
    <3>2. "thread" \in SubjectKinds /\ x \in Subjects(model, "thread") /\ Represents(z, "thread", x)
      BY <1>10, <1>11, <3>1 DEF SubjectKinds
    <3>3. QED
      BY <3>2 DEF StandsIn
  <2>2. CASE z \in ToSet(b)
    <3>1. PICK x \in ToSet(model.nodes) : z = NodeItem(x)
      BY <1>9, <2>2
    <3>2. "node" \in SubjectKinds /\ x \in Subjects(model, "node") /\ Represents(z, "node", x)
      BY <1>10, <1>11, <3>1 DEF SubjectKinds
    <3>3. QED
      BY <3>2 DEF StandsIn
  <2>3. CASE z \in ToSet(c) \cup ToSet(d)
    <3>1. PICK x \in ToSet(model.intents) : z = IntentTrustItem(x)
      BY <1>2, <1>9, <2>3
    <3>2. "intent" \in SubjectKinds /\ x \in Subjects(model, "intent") /\ Represents(z, "intent", x)
      BY <1>10, <1>11, <3>1 DEF SubjectKinds
    <3>3. QED
      BY <3>2 DEF StandsIn
  <2>4. CASE z \in ToSet(e)
    BY <1>9, <1>12, <2>4 DEF StandsIn
  <2>5. QED
    BY <1>8, <1>13, <2>1, <2>2, <2>3, <2>4
<1>14. Represented(model, ToSet(items))
  <2>1. \A x \in ToSet(model.threads) : ThreadItem(x) \in ToSet(items)
    BY <1>8, <1>9
  <2>2. \A x \in ToSet(model.nodes) : NodeItem(x) \in ToSet(items)
    BY <1>8, <1>9
  <2>3. \A x \in ToSet(model.intents) : IntentTrustItem(x) \in ToSet(items)
    BY <1>3, <1>8, <1>9
  <2>4. QED
    BY <1>10, <1>11, <2>1, <2>2, <2>3 DEF Represented, SubjectKinds
<1>15. QED
  BY <1>8, <1>13, <1>14 DEF items

\* The two scores are numbers, ...
LEMMA ScoresAre ==
  ASSUME NEW z
  PROVE  Score(z) \in Int /\ ProfileScore(z) \in Int
<1> DEFINE v == Weight([attention |-> 220, unverified |-> 140, verified |-> 30], z.validation)
           w == Weight([attention |-> 240, unverified |-> 160, verified |-> 20], z.validation)
           f == Weight([stale |-> 180, suspect |-> 110], z.freshness)
           g == Weight([stale |-> 180, suspect |-> 120], z.freshness)
           t == CASE z.trust = "durable-doc" -> 40 [] z.trust = "promoted-artifact" -> 30
                  [] OTHER -> 0
           u == CASE z.trust = "durable-doc" -> 40 [] z.trust = "promoted-artifact" -> 30
                  [] z.trust = "reviewed-artifact" -> 20 [] OTHER -> 0
           l == CASE z.lineage = "path-continuity" -> 20 [] z.lineage = "heuristic-high" -> 10
                  [] OTHER -> 0
           k == IF z.lineage = "path-continuity" THEN 10 ELSE 0
           e == IF z.kind = "event" THEN 30 ELSE 0
           h == IF z.kind = "event" THEN 20 ELSE 0
<1>1. v \in Int /\ w \in Int /\ f \in Int /\ g \in Int
  BY DEF Weight
<1>2. t \in Int /\ u \in Int /\ l \in Int /\ k \in Int /\ e \in Int /\ h \in Int
  OBVIOUS
<1>3. Score(z) = v + f + t + l - e
  BY DEF Score
<1>4. ProfileScore(z) = w + g + u + k - h
  BY DEF ProfileScore
<1> HIDE DEF v, w, f, g, t, u, l, k, e, h
<1>5. QED
  BY <1>1, <1>2, <1>3, <1>4

\* ... in which what is staler outweighs the rest.
LEMMA StalerOutweighs ==
  ASSUME NEW y, NEW z, y.kind # "event", z.kind # "event", y.validation = z.validation,
         y.freshness \in Statuses, z.freshness \in Statuses,
         Score(y) <= Score(z) \/ ProfileScore(y) <= ProfileScore(z)
  PROVE  Severity(y.freshness) <= Severity(z.freshness)
<1> DEFINE v(x) == Weight([attention |-> 220, unverified |-> 140, verified |-> 30], x.validation)
           w(x) == Weight([attention |-> 240, unverified |-> 160, verified |-> 20], x.validation)
           f(x) == Weight([stale |-> 180, suspect |-> 110], x.freshness)
           g(x) == Weight([stale |-> 180, suspect |-> 120], x.freshness)
           t(x) == CASE x.trust = "durable-doc" -> 40 [] x.trust = "promoted-artifact" -> 30
                     [] OTHER -> 0
           u(x) == CASE x.trust = "durable-doc" -> 40 [] x.trust = "promoted-artifact" -> 30
                     [] x.trust = "reviewed-artifact" -> 20 [] OTHER -> 0
           l(x) == CASE x.lineage = "path-continuity" -> 20 [] x.lineage = "heuristic-high" -> 10
                     [] OTHER -> 0
           k(x) == IF x.lineage = "path-continuity" THEN 10 ELSE 0
<1>1. v(y) \in Int /\ v(y) = v(z) /\ w(y) \in Int /\ w(y) = w(z)
  BY DEF Weight
<1>2. \A x \in {y, z} : /\ t(x) \in 0..40 /\ l(x) \in 0..20
                        /\ u(x) \in 0..40 /\ k(x) \in 0..10
  OBVIOUS
<1>3. \A x \in {y, z} : Score(x) = v(x) + f(x) + t(x) + l(x) - 0
  BY DEF Score
<1>4. \A x \in {y, z} : ProfileScore(x) = w(x) + g(x) + u(x) + k(x) - 0
  BY DEF ProfileScore
<1>5. \A x \in {y, z} :
        \/ x.freshness = "stale" /\ f(x) = 180 /\ g(x) = 180 /\ Severity(x.freshness) = 2
        \/ x.freshness = "suspect" /\ f(x) = 110 /\ g(x) = 120 /\ Severity(x.freshness) = 1
        \/ x.freshness = "fresh" /\ f(x) = 0 /\ g(x) = 0 /\ Severity(x.freshness) = 0
  BY DEF Weight, Severity, Statuses
<1> HIDE DEF v, w, f, g, t, u, l, k
<1>6. CASE Score(y) <= Score(z)
  <2>1. v(y) + f(y) + t(y) + l(y) - 0 <= v(y) + f(z) + t(z) + l(z) - 0
    BY <1>1, <1>3, <1>6
  <2>2. t(y) \in 0..40 /\ t(z) \in 0..40 /\ l(y) \in 0..20 /\ l(z) \in 0..20
    BY <1>2
  <2>3. f(y) \in Int /\ f(z) \in Int
    BY <1>5
  <2>4. f(y) <= f(z) + 60
    BY <1>1, <2>1, <2>2, <2>3
  <2>5. QED
    BY <1>5, <2>4
<1>7. CASE ProfileScore(y) <= ProfileScore(z)
  <2>1. w(y) + g(y) + u(y) + k(y) - 0 <= w(y) + g(z) + u(z) + k(z) - 0
    BY <1>1, <1>4, <1>7
  <2>2. u(y) \in 0..40 /\ u(z) \in 0..40 /\ k(y) \in 0..10 /\ k(z) \in 0..10
    BY <1>2
  <2>3. g(y) \in Int /\ g(z) \in Int
    BY <1>5
  <2>4. g(y) <= g(z) + 50
    BY <1>1, <2>1, <2>2, <2>3
  <2>5. QED
    BY <1>5, <2>4
<1>8. QED
  BY <1>6, <1>7

-----------------------------------------------------------------------------
\* What of it is shown.

\* A list cut from another by a score: its best, best first.
CutBy(r, s, score) ==
    /\ IsList(r) /\ ToSet(r) \subseteq ToSet(s)
    /\ \A i, j \in DOMAIN r : i < j => score[r[j]] <= score[r[i]]
    /\ \A x \in ToSet(s) \ ToSet(r) : \A y \in ToSet(r) : score[x] <= score[y]

\* What to trust is cut from the candidates by their scores, ...
LEMMA TrustIsCut ==
  ASSUME NEW model, Reported(model)
  PROVE  CutBy(TrustItems(model), TrustCandidates(model),
               [z \in ToSet(TrustCandidates(model)) |-> Score(z)])
<1> DEFINE items == TrustCandidates(model)
           score == [z \in ToSet(items) |-> Score(z)]
           key == [i \in DOMAIN items |-> <<-Score(items[i]), items[i].title>>]
<1>1. IsList(items) /\ \A z \in ToSet(items) : StandsIn(model, z)
  BY CandidatesAre
<1>2. \A z \in ToSet(items) : z.title \in Int
  <2> SUFFICES ASSUME NEW z \in ToSet(items) PROVE z.title \in Int
    OBVIOUS
  <2>1. CASE z.kind = "event" /\ z.title \in 1..6
    BY <2>1
  <2>2. CASE \E kind \in SubjectKinds : \E x \in Subjects(model, kind) : Represents(z, kind, x)
    <3>1. PICK kind \in SubjectKinds : \E x \in Subjects(model, kind) : Represents(z, kind, x)
      BY <2>2
    <3>2. PICK x \in Subjects(model, kind) : Represents(z, kind, x)
      BY <3>1
    <3>3. x \in ToSet(model.threads) \cup ToSet(model.nodes) \cup ToSet(model.intents)
      BY <3>1, <3>2 DEF SubjectKinds, Subjects
    <3>4. x.title \in Int
      BY <3>3 DEF Reported, Stated
    <3>5. QED
      BY <3>2, <3>4 DEF Represents
  <2>3. QED
    BY <1>1, <2>1, <2>2 DEF StandsIn
<1>3. \A z : Score(z) \in Int
  BY ScoresAre
<1>4. /\ score \in [ToSet(items) -> Int] /\ \A z \in ToSet(items) : score[z] = Score(z)
  BY <1>3
<1>5. TrustItems(model) = Limited(Sorted(items, key), Maxima.trust) /\ Maxima.trust \in Nat
  BY MaximaAssumption DEF TrustItems
<1>6. \A i \in DOMAIN items : items[i] \in ToSet(items) /\ key[i] = <<-Score(items[i]), items[i].title>>
  BY DEF ToSet
<1>7. DOMAIN items = 1..Len(items)
  BY <1>1, ListFacts
<1> HIDE DEF items, score, key
<1>8. \A a, b \in Int : <<a, b>> \in [1..2 -> Int] /\ <<a, b>>[1] = a
  OBVIOUS
<1>9. \A i \in 1..Len(items) : key[i] \in [1..2 -> Int] /\ key[i][1] = -score[items[i]]
  <2> SUFFICES ASSUME NEW i \in 1..Len(items)
               PROVE  key[i] \in [1..2 -> Int] /\ key[i][1] = -score[items[i]]
    OBVIOUS
  <2>1. /\ items[i] \in ToSet(items) /\ key[i] = <<-Score(items[i]), items[i].title>>
        /\ score[items[i]] = Score(items[i])
    BY <1>4, <1>6, <1>7
  <2>2. items[i].title \in Int /\ -Score(items[i]) \in Int
    BY <1>2, <1>3, <2>1
  <2>3. QED
    BY <1>8, <2>1, <2>2
<1>10. 2 \in Nat \ {0}
  OBVIOUS
<1>11. LET r == Limited(Sorted(items, key), Maxima.trust)
       IN  /\ IsList(r) /\ ToSet(r) \subseteq ToSet(items)
           /\ \A i, j \in DOMAIN r : i < j => score[r[j]] <= score[r[i]]
           /\ \A x \in ToSet(items) \ ToSet(r) : \A y \in ToSet(r) : score[x] <= score[y]
  BY <1>1, <1>4, <1>5, <1>9, <1>10, CutSorts
<1>12. CutBy(TrustItems(model), items, score)
  BY <1>5, <1>11 DEF CutBy
<1>13. QED
  BY <1>12 DEF items, score

\* ... and what a profile keeps of it by the scores of the profile.
LEMMA ProfileIsCut ==
  ASSUME NEW s, IsList(s)
  PROVE  CutBy(Limited(Ranked(Distinct(s)), Maxima.profileTrust), s,
               [z \in ToSet(s) |-> ProfileScore(z)])
<1> DEFINE items == Distinct(s)
           score == [z \in ToSet(s) |-> ProfileScore(z)]
           key == [i \in DOMAIN items |-> <<-ProfileScore(items[i])>>]
<1>1. IsList(items) /\ ToSet(items) = ToSet(s)
  BY DistinctLists
<1>2. \A z : ProfileScore(z) \in Int
  BY ScoresAre
<1>3. score \in [ToSet(items) -> Int] /\ \A z \in ToSet(items) : score[z] = ProfileScore(z)
  BY <1>1, <1>2
<1>4. Ranked(items) = Sorted(items, key) /\ Maxima.profileTrust \in Nat
  BY MaximaAssumption DEF Ranked
<1>5. \A i \in DOMAIN items : items[i] \in ToSet(items) /\ key[i] = <<-ProfileScore(items[i])>>
  BY DEF ToSet
<1>6. DOMAIN items = 1..Len(items)
  BY <1>1, ListFacts
<1> HIDE DEF items, score, key
<1>7. \A a \in Int : <<a>> \in [1..1 -> Int] /\ <<a>>[1] = a
  OBVIOUS
<1>8. \A i \in 1..Len(items) : key[i] \in [1..1 -> Int] /\ key[i][1] = -score[items[i]]
  <2> SUFFICES ASSUME NEW i \in 1..Len(items)
               PROVE  key[i] \in [1..1 -> Int] /\ key[i][1] = -score[items[i]]
    OBVIOUS
  <2>1. /\ items[i] \in ToSet(items) /\ key[i] = <<-ProfileScore(items[i])>>
        /\ score[items[i]] = ProfileScore(items[i])
    BY <1>3, <1>5, <1>6
  <2>2. -ProfileScore(items[i]) \in Int
    BY <1>2
  <2>3. QED
    BY <1>7, <2>1, <2>2
<1>9. 1 \in Nat \ {0}
  OBVIOUS
<1>10. LET r == Limited(Sorted(items, key), Maxima.profileTrust)
       IN  /\ IsList(r) /\ ToSet(r) \subseteq ToSet(items)
           /\ \A i, j \in DOMAIN r : i < j => score[r[j]] <= score[r[i]]
           /\ \A x \in ToSet(items) \ ToSet(r) : \A y \in ToSet(r) : score[x] <= score[y]
  BY <1>1, <1>3, <1>4, <1>8, <1>9, CutSorts
<1>11. CutBy(Limited(Ranked(items), Maxima.profileTrust), s, score)
  BY <1>1, <1>4, <1>10 DEF CutBy
<1>12. QED
  BY <1>11 DEF items, score

\* What a report of a model shows.
ShownTrust(model) == Limited(Ranked(Distinct(TrustItems(model))), Maxima.profileTrust)

\* Everything shown stands for a part of the model, or an event of it; ...
LEMMA ShownAre ==
  ASSUME NEW model, Reported(model)
  PROVE  /\ IsList(ShownTrust(model))
         /\ \A z \in ToSet(ShownTrust(model)) : StandsIn(model, z)
<1> DEFINE view == TrustItems(model)
<1>1. CutBy(view, TrustCandidates(model), [z \in ToSet(TrustCandidates(model)) |-> Score(z)])
  BY TrustIsCut
<1>2. IsList(view) /\ ToSet(view) \subseteq ToSet(TrustCandidates(model))
  BY <1>1 DEF CutBy
<1>3. CutBy(ShownTrust(model), view, [z \in ToSet(view) |-> ProfileScore(z)])
  BY <1>2, ProfileIsCut DEF ShownTrust
<1>4. IsList(ShownTrust(model)) /\ ToSet(ShownTrust(model)) \subseteq ToSet(view)
  BY <1>3 DEF CutBy
<1>5. QED
  BY <1>2, <1>4, CandidatesAre

\* ... what is shown later, or not at all, is not staler than what is shown before it.
LEMMA ShownFirst ==
  ASSUME NEW model, Reported(model)
  PROVE  /\ \A i, j \in DOMAIN ShownTrust(model) :
              i < j => ProfileScore(ShownTrust(model)[j]) <= ProfileScore(ShownTrust(model)[i])
         /\ \A x \in ToSet(TrustCandidates(model)) \ ToSet(ShownTrust(model)) :
              \A y \in ToSet(ShownTrust(model)) : Score(x) <= Score(y) \/ ProfileScore(x) <= ProfileScore(y)
<1> DEFINE view == TrustItems(model)
           all == TrustCandidates(model)
           shown == ShownTrust(model)
           score == [z \in ToSet(all) |-> Score(z)]
           profile == [z \in ToSet(view) |-> ProfileScore(z)]
<1>1. CutBy(view, all, score)
  BY TrustIsCut
<1>2. IsList(view)
  BY <1>1 DEF CutBy
<1>3. CutBy(shown, view, profile)
  BY <1>2, ProfileIsCut DEF ShownTrust
<1>4. /\ \A z \in ToSet(all) : score[z] = Score(z)
      /\ \A z \in ToSet(view) : profile[z] = ProfileScore(z)
  OBVIOUS
<1>5. \A i \in DOMAIN shown : shown[i] \in ToSet(shown)
  BY DEF ToSet
<1> HIDE DEF view, all, shown, score, profile
<1>6. ToSet(view) \subseteq ToSet(all) /\ ToSet(shown) \subseteq ToSet(view)
  BY <1>1, <1>3 DEF CutBy
<1>7. ASSUME NEW i \in DOMAIN shown, NEW j \in DOMAIN shown, i < j
      PROVE  ProfileScore(shown[j]) <= ProfileScore(shown[i])
  <2>1. profile[shown[j]] <= profile[shown[i]]
    BY <1>3, <1>7 DEF CutBy
  <2>2. shown[i] \in ToSet(view) /\ shown[j] \in ToSet(view)
    BY <1>5, <1>6
  <2>3. QED
    BY <1>4, <2>1, <2>2
<1>8. ASSUME NEW x \in ToSet(all) \ ToSet(shown), NEW y \in ToSet(shown)
      PROVE  Score(x) <= Score(y) \/ ProfileScore(x) <= ProfileScore(y)
  <2>1. y \in ToSet(view) /\ y \in ToSet(all)
    BY <1>6
  <2>2. CASE x \in ToSet(view)
    <3>1. profile[x] <= profile[y]
      BY <1>3, <1>8, <2>2 DEF CutBy
    <3>2. QED
      BY <1>4, <2>1, <2>2, <3>1
  <2>3. CASE x \notin ToSet(view)
    <3>1. score[x] <= score[y]
      BY <1>1, <1>8, <2>1, <2>3 DEF CutBy
    <3>2. QED
      BY <1>4, <2>1, <3>1
  <2>4. QED
    BY <2>2, <2>3
<1>9. QED
  BY <1>7, <1>8 DEF all, shown

\* The statuses of what is shown are those of what it stands for, ...
LEMMA ShownAgree ==
  ASSUME NEW model, Reported(model), NEW item \in ToSet(ShownTrust(model)),
         NEW subject \in Subjects(model, item.kind), item.id = subject.id
  PROVE  /\ item.freshness = subject.freshness /\ item.validation = subject.validation
         /\ item.sensitivity = subject.sensitivity
<1>1. StandsIn(model, item)
  BY ShownAre
<1>2. item.kind # "event"
  BY DEF Subjects
<1>3. PICK kind \in SubjectKinds : \E x \in Subjects(model, kind) : Represents(item, kind, x)
  BY <1>1, <1>2 DEF StandsIn
<1>4. PICK x \in Subjects(model, kind) : Represents(item, kind, x)
  BY <1>3
<1>5. item.kind = kind /\ item.id = x.id
  BY <1>4 DEF Represents
<1>6. Tells(Subjects(model, kind))
  <2>1. CASE kind = "thread"
    BY <2>1 DEF Reported, Subjects
  <2>2. CASE kind = "node"
    BY <2>2 DEF Reported, Subjects
  <2>3. CASE kind = "intent"
    BY <2>3 DEF Reported, Subjects
  <2>4. QED
    BY <2>1, <2>2, <2>3 DEF SubjectKinds
<1>7. x = subject
  BY <1>4, <1>5, <1>6 DEF Tells
<1>8. QED
  BY <1>4, <1>7 DEF Represents

\* ... which are those drift gives, ...
LEMMA CandidateStatus ==
  ASSUME NEW model, Reported(model), NEW z, StandsIn(model, z), z.kind # "event"
  PROVE  z.freshness \in Statuses
<1>1. PICK kind \in SubjectKinds : \E x \in Subjects(model, kind) : Represents(z, kind, x)
  BY DEF StandsIn
<1>2. PICK x \in Subjects(model, kind) : Represents(z, kind, x)
  BY <1>1
<1>3. x \in ToSet(model.threads) \cup ToSet(model.nodes) \cup ToSet(model.intents)
  BY <1>1, <1>2 DEF SubjectKinds, Subjects
<1>4. x.freshness \in Statuses
  BY <1>3 DEF Reported, Stated
<1>5. QED
  BY <1>2, <1>4 DEF Represents

\* ... and the stalest come first.
LEMMA ShownInOrder ==
  ASSUME NEW model, Reported(model)
  PROVE  /\ \A kind \in SubjectKinds : \A s \in Subjects(model, kind) : \A i \in DOMAIN ShownTrust(model) :
              (/\ \A j \in DOMAIN ShownTrust(model) : ShownTrust(model)[j].kind # kind \/ ShownTrust(model)[j].id # s.id
               /\ ShownTrust(model)[i].kind # "event" /\ ShownTrust(model)[i].validation = s.validation) =>
                Severity(s.freshness) <= Severity(ShownTrust(model)[i].freshness)
         /\ \A i, j \in DOMAIN ShownTrust(model) :
              (/\ i < j /\ ShownTrust(model)[j].kind # "event" /\ ShownTrust(model)[i].kind # "event"
               /\ ShownTrust(model)[i].validation = ShownTrust(model)[j].validation) =>
                Severity(ShownTrust(model)[j].freshness) <= Severity(ShownTrust(model)[i].freshness)
<1> DEFINE shown == ShownTrust(model)
           all == TrustCandidates(model)
<1>1. \A i \in DOMAIN shown : shown[i] \in ToSet(shown)
  BY DEF ToSet
<1>2. \A z \in ToSet(shown) : \E i \in DOMAIN shown : shown[i] = z
  BY DEF ToSet
<1>3. \A i \in DOMAIN shown : StandsIn(model, shown[i])
  BY <1>1, ShownAre
<1>4. Represented(model, ToSet(all)) /\ \A z \in ToSet(all) : StandsIn(model, z)
  BY CandidatesAre
<1>5. /\ \A i, j \in DOMAIN shown : i < j => ProfileScore(shown[j]) <= ProfileScore(shown[i])
      /\ \A x \in ToSet(all) \ ToSet(shown) :
           \A y \in ToSet(shown) : Score(x) <= Score(y) \/ ProfileScore(x) <= ProfileScore(y)
  BY ShownFirst
<1> HIDE DEF shown, all
<1>6. \A z : (StandsIn(model, z) /\ z.kind # "event") => z.freshness \in Statuses
  BY CandidateStatus
<1>7. ASSUME NEW i \in DOMAIN shown, NEW j \in DOMAIN shown, i < j,
             shown[j].kind # "event", shown[i].kind # "event",
             shown[i].validation = shown[j].validation
      PROVE  Severity(shown[j].freshness) <= Severity(shown[i].freshness)
  <2>1. ProfileScore(shown[j]) <= ProfileScore(shown[i])
    BY <1>5, <1>7
  <2>2. shown[i].freshness \in Statuses /\ shown[j].freshness \in Statuses
    BY <1>3, <1>6, <1>7
  <2>3. QED
    BY <1>7, <2>1, <2>2, StalerOutweighs
<1>8. ASSUME NEW kind \in SubjectKinds, NEW s \in Subjects(model, kind), NEW i \in DOMAIN shown,
             \A j \in DOMAIN shown : shown[j].kind # kind \/ shown[j].id # s.id,
             shown[i].kind # "event", shown[i].validation = s.validation
      PROVE  Severity(s.freshness) <= Severity(shown[i].freshness)
  <2>1. PICK z \in ToSet(all) : Represents(z, kind, s)
    BY <1>4, <1>8 DEF Represented
  <2>2. /\ z.kind = kind /\ z.id = s.id /\ z.freshness = s.freshness /\ z.validation = s.validation
        /\ z.kind # "event"
    BY <1>8, <2>1 DEF Represents, SubjectKinds
  <2>3. z \notin ToSet(shown)
    BY <1>2, <1>8, <2>2
  <2>4. Score(z) <= Score(shown[i]) \/ ProfileScore(z) <= ProfileScore(shown[i])
    BY <1>1, <1>5, <2>3
  <2>5. z.freshness \in Statuses /\ shown[i].freshness \in Statuses
    BY <1>3, <1>4, <1>6, <1>8, <2>2
  <2>6. Severity(z.freshness) <= Severity(shown[i].freshness)
    BY <1>8, <2>2, <2>4, <2>5, StalerOutweighs
  <2>7. QED
    BY <2>2, <2>6
<1>9. QED
  BY <1>7, <1>8 DEF shown

-----------------------------------------------------------------------------
\* A report as the lemmas above describe it.
Faithful == report # Null => Reported(report.model) /\ report.recovery.trust = ShownTrust(report.model)

\* A step of it leads to one.
LEMMA ReportFaithful ==
  ASSUME RepositoryInv, LedgerInv, Report
  PROVE  Faithful'
<1> DEFINE model == Overlaid(Synthesis)
<1>1. PICK answer : report' = [model |-> model,
                               recovery |-> Profile(model, RecoveryView(model, answer))]
  BY DEF Report
<1>2. Reported(model)
  BY SynthesisIs, OverlaidIs
<1> HIDE DEF model
<1>3. Profile(model, RecoveryView(model, answer)).trust = ShownTrust(model)
  BY DEF Profile, RecoveryView, ShownTrust
<1>4. report'.model = model /\ report'.recovery.trust = ShownTrust(model)
  BY <1>1, <1>3
<1>5. QED
  BY <1>2, <1>4 DEF Faithful, Reported, ShownTrust

\* Reading a report changes nothing in it.
LEMMA SameReport ==
  ASSUME Faithful, report' = report
  PROVE  Faithful'
BY DEF Faithful, Reported, ShownTrust

\* In such a report the overlays agree, ...
LEMMA FaithfulAgrees == Faithful => OverlaysAgree
<1> SUFFICES ASSUME Faithful, report # Null PROVE OverlaysAgree
  BY DEF OverlaysAgree
<1> DEFINE model == report.model
           trust == report.recovery.trust
<1>1. Reported(model) /\ trust = ShownTrust(model)
  BY DEF Faithful
<1>2. ThreadsWorst(model)
  BY <1>1 DEF Reported
<1> HIDE DEF model, trust
<1>3. \A item \in ToSet(trust) : \A subject \in Subjects(model, item.kind) :
        item.id = subject.id => /\ item.freshness = subject.freshness
                                /\ item.validation = subject.validation
                                /\ item.sensitivity = subject.sensitivity
  BY <1>1, ShownAgree
<1>4. QED
  BY <1>2, <1>3 DEF OverlaysAgree, ThreadsWorst, model, trust

\* ... and the worst are shown first.
LEMMA FaithfulInOrder == Faithful => WorstShownFirst
<1> SUFFICES ASSUME Faithful, report # Null PROVE WorstShownFirst
  BY DEF WorstShownFirst
<1> DEFINE model == report.model
           trust == report.recovery.trust
<1>1. Reported(model) /\ trust = ShownTrust(model)
  BY DEF Faithful
<1> HIDE DEF model, trust
<1>2. /\ \A kind \in SubjectKinds : \A s \in Subjects(model, kind) : \A i \in DOMAIN trust :
           (/\ \A j \in DOMAIN trust : trust[j].kind # kind \/ trust[j].id # s.id
            /\ trust[i].kind # "event" /\ trust[i].validation = s.validation) =>
             Severity(s.freshness) <= Severity(trust[i].freshness)
      /\ \A i, j \in DOMAIN trust :
           (/\ i < j /\ trust[j].kind # "event" /\ trust[i].kind # "event"
            /\ trust[i].validation = trust[j].validation) =>
             Severity(trust[j].freshness) <= Severity(trust[i].freshness)
  BY <1>1, ShownInOrder
<1>3. QED
  BY <1>2 DEF WorstShownFirst, SubjectKinds, model, trust

-----------------------------------------------------------------------------
\* The explorer.

\* What a query or a recall answers is finite.
LEMMA SomeFinite ==
  ASSUME NEW S, IsFiniteSet(S), NEW k, NEW T \in Some(k, S)
  PROVE  IsFiniteSet(T)
<1>1. T \in SUBSET S
  BY DEF Some, kSubset
<1>2. QED
  BY <1>1, FS_Subset

\* What recallMemory answers is finite.
LEMMA AnswersFinite ==
  ASSUME RepositoryInv, HEAD > 0, NEW goal, NEW topK, NEW answer \in RecallAnswers(goal, topK)
  PROVE  IsFiniteSet(answer)
<1> DEFINE snapshot == IF Selectable(Null) THEN SnapshotHits(HEAD, "durable") ELSE {{}}
<1>1. PICK hits \in snapshot, ids \in RecallCandidates(goal) :
        answer \in Finalized(hits \cup {ArtifactHit(id) : id \in ids}, topK)
  BY DEF RecallAnswers
<1>2. IsFiniteSet(hits)
  <2>1. CASE hits = {}
    BY <2>1, FS_EmptySet
  <2>2. CASE Selectable(Null) /\ hits \in SnapshotHits(HEAD, "durable")
    <3> DEFINE docs == manifests[HEAD].docs
               version == [p \in DOMAIN docs |-> DocumentHit([path |-> p, version |-> docs[p]])]
               All == {version[p] : p \in DOMAIN docs}
    <3>1. HEAD \in Indexed
      BY <2>2 DEF Selectable, SelectSnapshot, HeadSha
    <3>2. IsFiniteSet(DOMAIN docs)
      BY <3>1 DEF RepositoryInv, AllTitled, Indexed
    <3>3. hits \in SUBSET All
      <4>1. PICK candidates :
              hits = {DocumentHit(chunk) : chunk \in candidates \cap DocumentsInScope(HEAD, "durable")}
        BY <2>2 DEF SnapshotHits
      <4>2. DocumentsInScope(HEAD, "durable") = {[path |-> p, version |-> docs[p]] : p \in DOMAIN docs}
        BY DEF DocumentsInScope, VersionsOf
      <4>3. QED
        BY <4>1, <4>2
    <3>4. version = [p \in DOMAIN docs |-> version[p]]
      OBVIOUS
    <3> HIDE DEF version, docs
    <3>5. IsFiniteSet(All)
      BY <3>2, <3>4, FiniteImage
    <3>6. QED
      BY <3>3, <3>5, FS_Subset
  <2>3. QED
    BY <1>1, <2>1, <2>2
<1>3. IsFiniteSet(ids)
  <2>1. ids \in SUBSET DOMAIN artifacts
    BY <1>1 DEF RecallCandidates, ReviewedFor, Unreviewed
  <2>2. QED
    BY <2>1, FS_Subset DEF RepositoryInv, AllTitled
<1>4. IsFiniteSet({ArtifactHit(id) : id \in ids})
  <2> DEFINE f == [id \in ids |-> ArtifactHit(id)]
  <2>1. f = [id \in ids |-> f[id]] /\ {ArtifactHit(id) : id \in ids} = {f[id] : id \in ids}
    OBVIOUS
  <2> HIDE DEF f
  <2>2. QED
    BY <1>3, <2>1, FiniteImage
<1>5. IsFiniteSet(hits \cup {ArtifactHit(id) : id \in ids})
  BY <1>2, <1>4, FS_Union
<1>6. QED
  BY <1>1, <1>5, SomeFinite DEF Finalized

\* A report that was written has three lists.
ReportInv == report # Null => RecoveryLists(report.recovery)

\* Report writes one that has.
LEMMA ReportStep ==
  ASSUME RepositoryInv, HEAD > 0, Report
  PROVE  RecoveryLists(report'.recovery)
<1> DEFINE model == Overlaid(Synthesis)
<1>1. PICK answer \in (IF RecoveryGoal = Null THEN {{}} ELSE RecallAnswers(RecoveryGoal, RecallTopK)) :
        report' = [model |-> model, recovery |-> Profile(model, RecoveryView(model, answer))]
  BY DEF Report
<1>2. IsFiniteSet(answer)
  BY <1>1, AnswersFinite, FS_EmptySet
<1>3. ModelLists(model)
  BY ReportedModel
<1> HIDE DEF model
<1>4. RecoveryLists(Profile(model, RecoveryView(model, answer)))
  BY <1>2, <1>3, ViewLists, ProfileLists
<1>5. QED
  BY <1>1, <1>4

-----------------------------------------------------------------------------
\* The state of the explorer.
Fields == {"recovery", "query", "scope", "now", "trust", "step"}
Opened(u) == DOMAIN u = Fields /\ RecoveryLists(u.recovery)
\* The state selects what was chosen, and nothing that its detail would be shown before.
Selects(u, choice) ==
    /\ choice.item # Null
    /\ \/ choice.list = "recover" /\ u.now = choice.item /\ u.trust = Null /\ u.step = Null
       \/ choice.list = "trust" /\ u.trust = choice.item
       \/ choice.list = "formation" /\ u.step = choice.item /\ u.trust = Null
\* What was chosen is selected and visible.
ChoiceInv ==
    ui # Null => /\ Opened(ui)
                 /\ chosen # Null => Selects(ui, chosen) /\ StillVisible(chosen, ui)

\* The filter shows lists.
LEMMA VisibleLists ==
  ASSUME NEW u, Opened(u)
  PROVE  IsList(VisibleNow(u)) /\ IsList(VisibleTrust(u)) /\ IsList(VisibleSteps(u))
BY KeptLists DEF Opened, RecoveryLists, VisibleNow, VisibleTrust, VisibleSteps, Visible

\* What is visible depends on the recovery, the query and the scope.
LEMMA SameView ==
  ASSUME NEW u, NEW w, u.recovery = w.recovery, u.query = w.query, u.scope = w.scope
  PROVE  /\ VisibleNow(u) = VisibleNow(w) /\ VisibleTrust(u) = VisibleTrust(w)
         /\ VisibleSteps(u) = VisibleSteps(w)
         /\ \A choice : StillVisible(choice, u) = StillVisible(choice, w)
<1>1. /\ VisibleNow(u) = VisibleNow(w) /\ VisibleTrust(u) = VisibleTrust(w)
      /\ VisibleSteps(u) = VisibleSteps(w)
  BY DEF VisibleNow, VisibleTrust, VisibleSteps, Visible
<1>2. QED
  BY <1>1 DEF StillVisible

\* refresh keeps what was chosen as long as it is visible.
LEMMA RefreshedKeeps ==
  ASSUME NEW u, Opened(u)
  PROVE  /\ Opened(Refreshed(u))
         /\ \A choice : choice # Null /\ Selects(u, choice) /\ StillVisible(choice, u) =>
              Selects(Refreshed(u), choice) /\ StillVisible(choice, Refreshed(u))
<1> DEFINE r == Refreshed(u)
<1>1. /\ DOMAIN r = Fields /\ r.recovery = u.recovery /\ r.query = u.query /\ r.scope = u.scope
      /\ r.now = Explicit(u.now, VisibleNow(u)) /\ r.trust = Explicit(u.trust, VisibleTrust(u))
      /\ r.step = Explicit(u.step, VisibleSteps(u))
  BY DEF Opened, Refreshed, Fields
<1> HIDE DEF r
<1>2. Opened(r)
  BY <1>1 DEF Opened
<1>3. ASSUME NEW choice, choice # Null, Selects(u, choice), StillVisible(choice, u)
      PROVE  Selects(r, choice) /\ StillVisible(choice, r)
  <2>1. StillVisible(choice, r)
    BY <1>1, <1>3, SameView
  <2>2. \A visible : Explicit(Null, visible) = Null
    BY DEF Explicit
  <2>3. CASE choice.list = "recover" /\ u.now = choice.item /\ u.trust = Null /\ u.step = Null
    <3>1. choice.item \in ToSet(VisibleNow(u))
      BY <1>3, <2>3 DEF StillVisible
    <3>2. r.now = choice.item
      BY <1>1, <2>3, <3>1 DEF Explicit
    <3>3. QED
      BY <1>1, <1>3, <2>1, <2>2, <2>3, <3>2 DEF Selects
  <2>4. CASE choice.list = "trust" /\ u.trust = choice.item
    <3>1. choice.item \in ToSet(VisibleTrust(u))
      BY <1>3, <2>4 DEF StillVisible
    <3>2. r.trust = choice.item
      BY <1>1, <2>4, <3>1 DEF Explicit
    <3>3. QED
      BY <1>3, <2>1, <2>4, <3>2 DEF Selects
  <2>5. CASE choice.list = "formation" /\ u.step = choice.item /\ u.trust = Null
    <3>1. choice.item \in ToSet(VisibleSteps(u))
      BY <1>3, <2>5 DEF StillVisible
    <3>2. r.step = choice.item
      BY <1>1, <2>5, <3>1 DEF Explicit
    <3>3. QED
      BY <1>1, <1>3, <2>1, <2>2, <2>5, <3>2 DEF Selects
  <2>6. QED
    BY <1>3, <2>3, <2>4, <2>5 DEF Selects
<1>4. QED
  BY <1>2, <1>3 DEF r

\* A cursor that is moved is at an item of the list.
LEMMA MovedToItem ==
  ASSUME NEW visible, IsList(visible), NEW item, NEW by \in {-1, 1}, visible # <<>>
  PROVE  MovedTo(item, visible, by) \in ToSet(visible)
<1> DEFINE N == Len(visible)
           at == Cursor(item, visible)
           k == (at - 1 + by + N) % N
<1>1. N \in Nat \ {0} /\ DOMAIN visible = 1..N
  BY ListFacts
<1>2. at \in 1..N
  <2>1. CASE item \in ToSet(visible)
    <3>1. \E i \in DOMAIN visible : visible[i] = item
      BY <2>1 DEF ToSet
    <3>2. QED
      BY <1>1, <2>1, <3>1 DEF Cursor
  <2>2. CASE item \notin ToSet(visible)
    BY <1>1, <2>2 DEF Cursor
  <2>3. QED
    BY <2>1, <2>2
<1> HIDE DEF at, N
<1>3. k \in 0..(N - 1)
  <2> DEFINE m == at - 1 + by + N
  <2>1. m \in Int
    BY <1>1, <1>2
  <2> HIDE DEF m
  <2>2. m % N \in 0..(N - 1)
    BY <1>1, <2>1
  <2>3. QED
    BY <2>2 DEF m
<1>4. MovedTo(item, visible, by) = visible[1 + k]
  BY DEF MovedTo, at, N
<1> HIDE DEF k
<1>5. 1 + k \in 1..N
  BY <1>1, <1>3
<1>6. QED
  BY <1>1, <1>4, <1>5 DEF ToSet

\* A filter keeps the choice or clears it.
LEMMA FilterFollows ==
  ASSUME NEW u, Opened(u), Filter(u), chosen # Null => Selects(u, chosen)
  PROVE  ChoiceInv'
<1>1. ui' = Refreshed(u) /\ chosen' = IF StillVisible(chosen, u) THEN chosen ELSE Null
  BY DEF Filter
<1>2. Opened(ui')
  BY <1>1, RefreshedKeeps
<1>3. ASSUME chosen' # Null PROVE Selects(ui', chosen') /\ StillVisible(chosen', ui')
  <2>1. StillVisible(chosen, u) /\ chosen' = chosen
    BY <1>1, <1>3
  <2>2. QED
    BY <1>1, <1>3, <2>1, RefreshedKeeps
<1>4. QED
  BY <1>2, <1>3 DEF ChoiceInv

\* A move chooses the item it moves to.
LEMMA MoveFollows ==
  ASSUME NEW list, NEW item, NEW u, Opened(u), Choose(list, item, u),
         LET choice == [list |-> list, item |-> item]
         IN  (item # Null /\ choice # Null) => Selects(u, choice) /\ StillVisible(choice, u)
  PROVE  ChoiceInv'
<1>1. /\ ui' = Refreshed(u)
      /\ chosen' = IF item = Null THEN Null ELSE [list |-> list, item |-> item]
  BY DEF Choose
<1>2. Opened(ui')
  BY <1>1, RefreshedKeeps
<1>3. ASSUME chosen' # Null PROVE Selects(ui', chosen') /\ StillVisible(chosen', ui')
  <2>1. item # Null /\ chosen' = [list |-> list, item |-> item]
    BY <1>1, <1>3
  <2>2. QED
    BY <1>1, <1>3, <2>1, RefreshedKeeps
<1>4. QED
  BY <1>2, <1>3 DEF ChoiceInv

\* What the explorer loads has lists, whether it is versioned or not.
LEMMA LoadedLists ==
  ASSUME ReportInv, report # Null, NEW versioned \in BOOLEAN
  PROVE  RecoveryLists(Loaded(versioned))
<1>1. CASE versioned
  <2> DEFINE r == report.recovery
             c == CoerceRecovery(r)
  <2>1. RecoveryLists(r)
    BY DEF ReportInv
  <2>2. {"now", "trust", "steps"} \subseteq DOMAIN r
    BY <2>1 DEF RecoveryLists
  <2> HIDE DEF r
  <2>3. /\ {"now", "trust", "steps"} \subseteq DOMAIN c
        /\ c.now = Mapped(r.now, CoerceNowItem) /\ c.trust = Mapped(r.trust, CoerceTrustItem)
        /\ c.steps = Mapped(r.steps, CoerceStep)
    BY <2>2 DEF CoerceRecovery
  <2> HIDE DEF c
  <2>4. /\ c.now = [i \in DOMAIN r.now |-> c.now[i]]
        /\ c.trust = [i \in DOMAIN r.trust |-> c.trust[i]]
        /\ c.steps = [i \in DOMAIN r.steps |-> c.steps[i]]
    BY <2>3 DEF Mapped
  <2>5. IsList(c.now) /\ IsList(c.trust) /\ IsList(c.steps)
    BY <2>1, <2>4, MapLists DEF RecoveryLists
  <2>6. QED
    BY <1>1, <2>3, <2>5 DEF Loaded, RecoveryLists, c, r
<1>2. CASE ~versioned
  BY <1>2, ListEmpty DEF Loaded, EmptyRecovery, RecoveryLists
<1>3. QED
  BY <1>1, <1>2

\* Whatever is typed or moved, what was chosen is selected and visible.
LEMMA ChoiceFollows ==
  ASSUME ChoiceInv, ReportInv, ExplorerNext
  PROVE  ChoiceInv'
<1>1. ASSUME NEW versioned \in BOOLEAN, Open(versioned) PROVE ChoiceInv'
  <2> DEFINE u == InitialState(Loaded(versioned))
  <2>1. report # Null /\ ui' = Refreshed(u) /\ chosen' = Null
    BY <1>1 DEF Open
  <2>2. Opened(u)
    BY <2>1, LoadedLists DEF Opened, InitialState, Fields
  <2> HIDE DEF u
  <2>3. QED
    BY <2>1, <2>2, RefreshedKeeps DEF ChoiceInv
<1>2. ASSUME NEW query, Search(query) \/ (ClearSearch /\ query = "") PROVE ChoiceInv'
  <2> DEFINE u == [ui EXCEPT !.query = query]
  <2>1. ui # Null /\ Filter(u)
    BY <1>2 DEF Search, ClearSearch
  <2>2. Opened(ui) /\ (chosen # Null => Selects(ui, chosen))
    BY <2>1 DEF ChoiceInv
  <2>3. Opened(u) /\ u.now = ui.now /\ u.trust = ui.trust /\ u.step = ui.step
    BY <2>2 DEF Opened, Fields
  <2> HIDE DEF u
  <2>4. chosen # Null => Selects(u, chosen)
    BY <2>2, <2>3 DEF Selects
  <2>5. QED
    BY <2>1, <2>3, <2>4, FilterFollows
<1>3. ASSUME NEW scope, ChangeScope(scope) PROVE ChoiceInv'
  <2> DEFINE u == [ui EXCEPT !.scope = scope]
  <2>1. ui # Null /\ Filter(u)
    BY <1>3 DEF ChangeScope
  <2>2. Opened(ui) /\ (chosen # Null => Selects(ui, chosen))
    BY <2>1 DEF ChoiceInv
  <2>3. Opened(u) /\ u.now = ui.now /\ u.trust = ui.trust /\ u.step = ui.step
    BY <2>2 DEF Opened, Fields
  <2> HIDE DEF u
  <2>4. chosen # Null => Selects(u, chosen)
    BY <2>2, <2>3 DEF Selects
  <2>5. QED
    BY <2>1, <2>3, <2>4, FilterFollows
<1>4. ASSUME NEW by \in {-1, 1}, MoveNow(by) PROVE ChoiceInv'
  <2> DEFINE item == MovedTo(ui.now, VisibleNow(ui), by)
             u == WithNow(ui, item)
             choice == [list |-> "recover", item |-> item]
  <2>1. ui # Null /\ Choose("recover", item, u)
    BY <1>4 DEF MoveNow
  <2>2. Opened(ui)
    BY <2>1 DEF ChoiceInv
  <2>3. IsList(VisibleNow(ui))
    BY <2>2, VisibleLists
  <2>4. item # Null => item \in ToSet(VisibleNow(ui))
    <3>1. CASE VisibleNow(ui) = <<>>
      BY <3>1 DEF MovedTo
    <3>2. CASE VisibleNow(ui) # <<>>
      BY <2>3, <3>2, MovedToItem
    <3>3. QED
      BY <3>1, <3>2
  <2>5. /\ Opened(u) /\ u.recovery = ui.recovery /\ u.query = ui.query /\ u.scope = ui.scope
        /\ u.now = item /\ u.trust = Null /\ u.step = Null
    BY <2>2 DEF Opened, Fields, WithNow
  <2> HIDE DEF item, u
  <2>6. VisibleNow(u) = VisibleNow(ui)
    BY <2>5, SameView
  <2>7. choice.list = "recover" /\ choice.item = item
    OBVIOUS
  <2> HIDE DEF choice
  <2>8. (item # Null /\ choice # Null) => Selects(u, choice) /\ StillVisible(choice, u)
    <3> SUFFICES ASSUME item # Null, choice # Null PROVE Selects(u, choice) /\ StillVisible(choice, u)
      OBVIOUS
    <3>1. Selects(u, choice)
      BY <2>5, <2>7 DEF Selects
    <3>2. choice.item \in ToSet(VisibleNow(u))
      BY <2>4, <2>6, <2>7
    <3>3. QED
      BY <2>7, <3>1, <3>2 DEF StillVisible
  <2>9. QED
    BY <2>1, <2>5, <2>8, MoveFollows DEF choice
<1>5. ASSUME NEW by \in {-1, 1}, MoveTrust(by) PROVE ChoiceInv'
  <2> DEFINE item == MovedTo(ui.trust, VisibleTrust(ui), by)
             u == [ui EXCEPT !.trust = item, !.step = Null]
             choice == [list |-> "trust", item |-> item]
  <2>1. ui # Null /\ Choose("trust", item, u)
    BY <1>5 DEF MoveTrust
  <2>2. Opened(ui)
    BY <2>1 DEF ChoiceInv
  <2>3. IsList(VisibleTrust(ui))
    BY <2>2, VisibleLists
  <2>4. item # Null => item \in ToSet(VisibleTrust(ui))
    <3>1. CASE VisibleTrust(ui) = <<>>
      BY <3>1 DEF MovedTo
    <3>2. CASE VisibleTrust(ui) # <<>>
      BY <2>3, <3>2, MovedToItem
    <3>3. QED
      BY <3>1, <3>2
  <2>5. /\ Opened(u) /\ u.recovery = ui.recovery /\ u.query = ui.query /\ u.scope = ui.scope
        /\ u.trust = item /\ u.step = Null
    BY <2>2 DEF Opened, Fields
  <2> HIDE DEF item, u
  <2>6. VisibleTrust(u) = VisibleTrust(ui)
    BY <2>5, SameView
  <2>7. choice.list = "trust" /\ choice.item = item
    OBVIOUS
  <2> HIDE DEF choice
  <2>8. (item # Null /\ choice # Null) => Selects(u, choice) /\ StillVisible(choice, u)
    <3> SUFFICES ASSUME item # Null, choice # Null PROVE Selects(u, choice) /\ StillVisible(choice, u)
      OBVIOUS
    <3>1. Selects(u, choice)
      BY <2>5, <2>7 DEF Selects
    <3>2. choice.item \in ToSet(VisibleTrust(u))
      BY <2>4, <2>6, <2>7
    <3>3. QED
      BY <2>7, <3>1, <3>2 DEF StillVisible
  <2>9. QED
    BY <2>1, <2>5, <2>8, MoveFollows DEF choice
<1>6. ASSUME NEW by \in {-1, 1}, MoveStep(by) PROVE ChoiceInv'
  <2> DEFINE item == MovedTo(ui.step, VisibleSteps(ui), by)
             u == [ui EXCEPT !.step = item, !.trust = Null]
             choice == [list |-> "formation", item |-> item]
  <2>1. ui # Null /\ Choose("formation", item, u)
    BY <1>6 DEF MoveStep
  <2>2. Opened(ui)
    BY <2>1 DEF ChoiceInv
  <2>3. IsList(VisibleSteps(ui))
    BY <2>2, VisibleLists
  <2>4. item # Null => item \in ToSet(VisibleSteps(ui))
    <3>1. CASE VisibleSteps(ui) = <<>>
      BY <3>1 DEF MovedTo
    <3>2. CASE VisibleSteps(ui) # <<>>
      BY <2>3, <3>2, MovedToItem
    <3>3. QED
      BY <3>1, <3>2
  <2>5. /\ Opened(u) /\ u.recovery = ui.recovery /\ u.query = ui.query /\ u.scope = ui.scope
        /\ u.step = item /\ u.trust = Null
    BY <2>2 DEF Opened, Fields
  <2> HIDE DEF item, u
  <2>6. VisibleSteps(u) = VisibleSteps(ui)
    BY <2>5, SameView
  <2>7. choice.list = "formation" /\ choice.item = item
    OBVIOUS
  <2> HIDE DEF choice
  <2>8. (item # Null /\ choice # Null) => Selects(u, choice) /\ StillVisible(choice, u)
    <3> SUFFICES ASSUME item # Null, choice # Null PROVE Selects(u, choice) /\ StillVisible(choice, u)
      OBVIOUS
    <3>1. Selects(u, choice)
      BY <2>5, <2>7 DEF Selects
    <3>2. choice.item \in ToSet(VisibleSteps(u))
      BY <2>4, <2>6, <2>7
    <3>3. QED
      BY <2>7, <3>1, <3>2 DEF StillVisible
  <2>9. QED
    BY <2>1, <2>5, <2>8, MoveFollows DEF choice
<1>7. CASE Quit
  BY <1>7 DEF Quit, ChoiceInv
<1>8. QED
  BY <1>1, <1>2, <1>3, <1>4, <1>5, <1>6, <1>7 DEF ExplorerNext

\* The detail is the one of the item the state selects.
LEMMA DetailOfSelected ==
  ASSUME NEW u, NEW choice, choice # Null, Selects(u, choice), StillVisible(choice, u)
  PROVE  Detail(u).list = choice.list /\ Detail(u).item = choice.item
<1>1. choice.item # Null /\ \A visible : Explicit(Null, visible) = Null
  BY DEF Selects, Explicit
<1>2. CASE choice.list = "recover" /\ u.now = choice.item /\ u.trust = Null /\ u.step = Null
  <2>1. choice.item \in ToSet(VisibleNow(u))
    BY <1>2 DEF StillVisible
  <2>2. SelectedNow(u) = choice.item /\ SelectedTrust(u) = Null /\ SelectedStep(u) = Null
    BY <1>1, <1>2, <2>1 DEF SelectedNow, SelectedTrust, SelectedStep
  <2>3. Detail(u) = ShowDetail("recover", SelectedNow(u),
                  ThreadStatus(FirstKnown(<<LinkOfNow(SelectedNow(u)), SelectedThread(u)>>)))
    BY <1>1, <2>2 DEF Detail
  <2>4. QED
    BY <1>2, <2>2, <2>3 DEF ShowDetail
<1>3. CASE choice.list = "trust" /\ u.trust = choice.item
  <2>1. choice.item \in ToSet(VisibleTrust(u))
    BY <1>3 DEF StillVisible
  <2>2. SelectedTrust(u) = choice.item
    BY <1>3, <2>1 DEF SelectedTrust, Explicit
  <2>3. Detail(u) = ShowDetail("trust", SelectedTrust(u), SelectedTrust(u))
    BY <1>1, <2>2 DEF Detail
  <2>4. QED
    BY <1>3, <2>2, <2>3 DEF ShowDetail
<1>4. CASE choice.list = "formation" /\ u.step = choice.item /\ u.trust = Null
  <2>1. choice.item \in ToSet(VisibleSteps(u))
    BY <1>4 DEF StillVisible
  <2>2. SelectedStep(u) = choice.item /\ SelectedTrust(u) = Null
    BY <1>1, <1>4, <2>1 DEF SelectedTrust, SelectedStep, Explicit
  <2>3. Detail(u) = ShowDetail("formation", SelectedStep(u),
                  ThreadStatus(FirstKnown(<<Link(SelectedStep(u)), SelectedThread(u)>>)))
    BY <1>1, <2>2 DEF Detail
  <2>4. QED
    BY <1>4, <2>2, <2>3 DEF ShowDetail
<1>5. QED
  BY <1>2, <1>3, <1>4 DEF Selects

\* So the detail is the one of what was chosen.
LEMMA DetailFollows == ChoiceInv => DetailFollowsChoice
BY DetailOfSelected DEF ChoiceInv, DetailFollowsChoice

-----------------------------------------------------------------------------
\* The invariant of the readers.
ReadersInv == RepositoryInv /\ LedgerInv /\ ReportInv /\ Faithful /\ ChoiceInv

\* Every step keeps it.
LEMMA ReadersStep ==
  ASSUME ReadersInv, [Next]_<<repository, report, explorer>>
  PROVE  ReadersInv'
<1>1. RepositoryInv'
  BY RepositoryStep DEF ReadersInv
<1>2. LedgerInv'
  BY LedgerStep DEF ReadersInv
<1>3. ReportInv' /\ Faithful' /\ ChoiceInv'
  <2>1. CASE UNCHANGED <<report, explorer>>
    <3>1. ReportInv' /\ ChoiceInv'
      BY <2>1 DEF ReadersInv, ReportInv, ChoiceInv, explorer, Opened, Selects, StillVisible,
          VisibleNow, VisibleTrust, VisibleSteps, Visible, RecoveryLists
    <3>2. Faithful'
      BY <2>1, SameReport DEF ReadersInv
    <3>3. QED
      BY <3>1, <3>2
  <2>2. CASE report = Null /\ HEAD > 0 /\ Report /\ UNCHANGED <<repository, explorer>>
    <3>1. Faithful'
      BY <2>2, ReportFaithful DEF ReadersInv
    <3>2. QED
      BY <2>2, <3>1, ReportStep DEF ReadersInv, ReportInv, ChoiceInv, explorer
  <2>3. CASE ExplorerNext
    <3>1. ChoiceInv'
      BY <2>3, ChoiceFollows DEF ReadersInv
    <3>2. report' = report
      BY <2>3 DEF ExplorerNext
    <3>3. Faithful'
      BY <3>2, SameReport DEF ReadersInv
    <3>4. QED
      BY <3>1, <3>2, <3>3 DEF ReadersInv, ReportInv
  <2>4. QED
    BY <2>1, <2>2, <2>3 DEF Next
<1>4. QED
  BY <1>1, <1>2, <1>3 DEF ReadersInv

\* For any trees, any number of commits, any sessions, any maxima and anything typed: the
\* snapshots are of commits, every event is of a commit and a command that happened, a
\* report carries the statuses drift gives and is made of lists, and the
\* explorer selects what was chosen (narrative.ts:1993, narrative-tui index.ts:558).
THEOREM ReadersInvariance == Spec => []ReadersInv
<1>1. Init => ReadersInv
  BY RepositoryInitially, LedgerInitially DEF Init, ReadersInv, ReportInv, Faithful, ChoiceInv
<1>2. ReadersInv /\ [Next]_<<repository, report, explorer>> => ReadersInv'
  BY ReadersStep
<1>3. QED
  BY <1>1, <1>2, PTL DEF Spec

\* In every state, whatever drift finds, the actions repair plans for all of it lead to a
\* snapshot of HEAD (repair.ts:52, where a plan is cut and reduced to one ingest).
THEOREM RepairIndexes == Spec => []RepairIndexesHead
<1>1. ReadersInv => RepairIndexesHead
  BY RepairFollows DEF ReadersInv
<1>2. QED
  BY <1>1, ReadersInvariance, PTL

\* In every state, whatever the order of the hits of a query and whatever the budget, a
\* context pack keeps the budget, cites nothing twice, leaves nothing out that fits and
\* prefers a source that is not in it yet (context-selection.ts:31).
THEOREM PacksDiverse == Spec => []PackIsDiverse
<1>1. PackIsDiverse
  BY NoneIllPacked DEF PackIsDiverse
<1>2. QED
  BY <1>1, PTL

\* In every state the log and the narrative agree on which decisions changed between two
\* snapshots, also for a log that is filtered (log.ts:256, narrative-model.ts:1030).
THEOREM LogAndNarrativeAgree == Spec => []LogAgreesWithNarrative
<1>1. ReadersInv => LogAgreesWithNarrative
  BY LogAgrees DEF ReadersInv
<1>2. QED
  BY <1>1, ReadersInvariance, PTL

\* In every state, for any trees and any window, replaying the nodes of the narrative path by
\* path gives the decisions of the newest snapshot, a path stays in one thread, a node follows
\* one of an earlier snapshot in its own thread, and no document has to be added as merely
\* related (narrative-model.ts:1096-1291).
THEOREM LineageIsReplayed == Spec => []LineageReplays
<1>1. ReadersInv => LineageReplays
  BY LineageFollows DEF ReadersInv
<1>2. QED
  BY <1>1, ReadersInvariance, PTL

\* In every state of a report, for any trees, sessions and captures, a thread is shown in no
\* better light than a node or an intent of it, and what is listed to trust or not carries
\* the statuses of the thread, node or intent it stands for (narrative.ts:1993).
THEOREM OverlaysAreAgreed == Spec => []OverlaysAgree
<1>1. ReadersInv => OverlaysAgree
  BY FaithfulAgrees DEF ReadersInv
<1>2. QED
  BY <1>1, ReadersInvariance, PTL

\* In every state of a report, whatever the maxima its two lists are cut at, nothing staler is
\* hidden behind something fresher of the same validation, and the staler comes first
\* (recovery-view.ts:177, recovery-profile.ts:132).
THEOREM WorstAreShown == Spec => []WorstShownFirst
<1>1. ReadersInv => WorstShownFirst
  BY FaithfulInOrder DEF ReadersInv
<1>2. QED
  BY <1>1, ReadersInvariance, PTL

\* The detail the explorer shows is always the one of what its reader moved to last
\* (narrative-tui index.ts:558).
THEOREM DetailIsChosen == Spec => []DetailFollowsChoice
<1>1. ReadersInv => DetailFollowsChoice
  BY DetailFollows DEF ReadersInv
<1>2. QED
  BY <1>1, ReadersInvariance, PTL
=============================================================================
