----------------------- MODULE RepositorySetup_proofs -----------------------
(***************************************************************************)
(* For any repository, documents, drafts and settings, and any number of   *)
(* edits, commands and stops: what doc create and doc refresh wrote        *)
(* conforms, what a user chose survives, and init settles.                 *)
(*                                                                         *)
(* Documents conform because what a command is about to write is of a      *)
(* known type already when it is read.  An init settles because the        *)
(* drafts it wants only become fewer as documents are added: the slots of  *)
(* the census fill, a repository does not become empty again, and no       *)
(* document changes its type.  That argument needs every write to be of a  *)
(* document its command has read, hence "overwritten".                     *)
(***************************************************************************)
EXTENDS RepositorySetup, Lists_proofs

-----------------------------------------------------------------------------
(* The inductive invariant *)

\* What DocsConform says of one document.
Conforms(p, doc) ==
    LET type == DetectDocType(p, doc)
    IN  /\ type \in KnownTypes /\ Violations(type, doc) = {}
        /\ RefreshDocumentContent(type, doc) = [doc EXCEPT !.quotes = EscapeQuotes(@)]

\* The documents, and what a doc command is about to write.
DocsInv ==
    /\ IsFiniteSet(DOMAIN docs)
    /\ \A p \in DOMAIN docs :
          IsDocument(docs[p]) /\ (docs[p].by = "doc" => Conforms(p, docs[p]))
    /\ command.pc \in {"check", "write"} =>
          command.type \in KnownTypes /\ IsDocument(command.base)
    /\ command.pc = "write" => command.path \notin command.found
    /\ command.pc = "rewrite" =>
          IsDocument(command.seen) /\ DetectDocType(command.path, command.seen) \in KnownTypes

\* What the init that runs has written, and what it still has to write.
RunInv ==
    run.pc # "idle" =>
        /\ git
        /\ run = [pc |-> run.pc, options |-> run.options, tracked |-> run.tracked,
                  found |-> run.found, todo |-> run.todo, edits |-> run.edits]
        /\ run.edits \in Nat /\ run.edits <= edits
        /\ run.todo \in Seq(ToSet(Priorities) \ run.found)
        /\ run.pc \notin {"choose", "draft"} =>
              run.todo = <<>> /\ GitIgnoreEntries(run.tracked) \subseteq gitignore
        /\ run.edits = edits =>
              /\ run.pc \in {"store", "index"} => "AGENTS.md" \in DOMAIN docs
              /\ ~ overwritten =>
                    \A o \in {run.options}, p \in ToSet(Priorities) :
                       Wants(o, p) => p \in DOMAIN docs \cup ToSet(run.todo)

\* What the inits that have settled had written is still there.
SettledInv ==
    \A o \in settled :
        /\ "AGENTS.md" \in DOMAIN docs /\ GitIgnoreEntries(o.tracked) \subseteq gitignore
        /\ ~ overwritten =>
              \A p \in ToSet(Priorities) : Wants(o.options, p) => p \in DOMAIN docs

\* A configuration has four settings.
Shape(c) ==
    /\ c = [provider |-> c.provider, model |-> c.model, dims |-> c.dims,
            admission |-> c.admission]
    /\ c.dims \in Int

\* The configuration, and the store that was opened under it.
ConfigInv ==
    /\ config # NoConfig => Shape(config)
    /\ configured \in {"no", "written", "yes"}
    /\ configured # "no" => config = DefaultConfig
    /\ configured = "yes" \/ (configured = "written" /\ run.pc = "index") =>
          git /\ store = Contract(DefaultConfig)

SetupInv ==
    /\ edits \in Nat
    /\ DocsInv /\ RunInv /\ SettledInv /\ ConfigInv

-----------------------------------------------------------------------------
(* Documents *)

\* "unknown" is no type that has a contract.
LEMMA UnknownType == Unknown \notin KnownTypes
BY DEF Unknown, KnownTypes, Contracts

\* Another author, or another number of characters for a quotation mark.
LEMMA ChangedField ==
  ASSUME NEW doc, NEW n,
         doc = [type |-> doc.type, heading |-> doc.heading, h1 |-> doc.h1,
                sections |-> doc.sections, topology |-> doc.topology,
                list |-> doc.list, quotes |-> doc.quotes, by |-> doc.by]
  PROVE  /\ [doc EXCEPT !.by = "doc"] =
            [type |-> doc.type, heading |-> doc.heading, h1 |-> doc.h1,
             sections |-> doc.sections, topology |-> doc.topology,
             list |-> doc.list, quotes |-> doc.quotes, by |-> "doc"]
         /\ [doc EXCEPT !.quotes = n] =
            [type |-> doc.type, heading |-> doc.heading, h1 |-> doc.h1,
             sections |-> doc.sections, topology |-> doc.topology,
             list |-> doc.list, quotes |-> n, by |-> doc.by]
OBVIOUS

\* The characters of a quotation mark are counted.
LEMMA EscapedNat == ASSUME NEW n \in Nat PROVE EscapeQuotes(n) \in Nat
BY DEF EscapeQuotes

\* A command writes a document that breaks no rule of its type, and in which another
\* refresh would change no more than quotation marks.
LEMMA WrittenConforms ==
  ASSUME NEW type \in KnownTypes, NEW doc, IsDocument(doc), NEW p
  PROVE  /\ IsDocument(Written(type, doc)) /\ Written(type, doc).by = "doc"
         /\ Conforms(p, Written(type, doc)) /\ DetectDocType(p, Written(type, doc)) = type
<1> DEFINE new == Written(type, doc)
<1>1. new = [type |-> type, heading |-> IF doc.h1 THEN doc.heading ELSE type, h1 |-> TRUE,
             sections |-> doc.sections \cup Contracts[type],
             topology |-> doc.topology \/ type = "pbd", list |-> FALSE,
             quotes |-> EscapeQuotes(doc.quotes), by |-> "doc"]
  <2> DEFINE old == RefreshDocumentContent(type, doc)
  <2>1. old = [type |-> old.type, heading |-> old.heading, h1 |-> old.h1,
               sections |-> old.sections, topology |-> old.topology,
               list |-> old.list, quotes |-> old.quotes, by |-> old.by]
    BY DEF RefreshDocumentContent
  <2>2. new = [old EXCEPT !.by = "doc"]
    BY DEF Written
  <2>3. /\ old.type = type /\ old.h1 = TRUE /\ old.list = FALSE
        /\ old.heading = (IF doc.h1 THEN doc.heading ELSE type)
        /\ old.sections = doc.sections \cup Contracts[type]
        /\ old.topology = (doc.topology \/ type = "pbd")
        /\ old.quotes = EscapeQuotes(doc.quotes)
    BY DEF RefreshDocumentContent
  <2> HIDE DEF old, new
  <2>4. new = [type |-> old.type, heading |-> old.heading, h1 |-> old.h1,
               sections |-> old.sections, topology |-> old.topology,
               list |-> old.list, quotes |-> old.quotes, by |-> "doc"]
    BY <2>1, <2>2, ChangedField
  <2>5. QED
    BY <2>3, <2>4
<1>2. /\ new.type = type /\ new.h1 = TRUE /\ new.list = FALSE /\ new.by = "doc"
      /\ new.heading = (IF doc.h1 THEN doc.heading ELSE type)
      /\ new.sections = doc.sections \cup Contracts[type]
      /\ new.topology = (doc.topology \/ type = "pbd")
      /\ new.quotes = EscapeQuotes(doc.quotes)
  BY <1>1
<1>3. IsDocument(new)
  BY <1>1, EscapedNat DEF IsDocument, Types
<1> HIDE DEF new
<1>4. DetectDocType(p, new) = type
  BY <1>2, UnknownType DEF DetectDocType
<1>5. Violations(type, new) = {}
  <2>1. Contracts[type] \ new.sections = {}
    BY <1>2
  <2>2. type = "pbd" => new.topology
    BY <1>2
  <2>3. QED
    BY <1>2, <2>1, <2>2 DEF Violations
<1>6. RefreshDocumentContent(type, new) = [new EXCEPT !.quotes = EscapeQuotes(@)]
  <2>1. new.sections \cup Contracts[type] = new.sections
    BY <1>2
  <2>2. (new.topology \/ type = "pbd") = new.topology
    BY <1>2, <1>3 DEF IsDocument
  <2>3. RefreshDocumentContent(type, new) =
          [type |-> new.type, heading |-> new.heading, h1 |-> new.h1,
           sections |-> new.sections, topology |-> new.topology, list |-> new.list,
           quotes |-> EscapeQuotes(new.quotes), by |-> new.by]
    BY <1>2, <2>1, <2>2 DEF RefreshDocumentContent
  <2>4. QED
    BY <1>3, <2>3, ChangedField DEF IsDocument
<1>7. QED
  BY <1>2, <1>3, <1>4, <1>5, <1>6 DEF new, Conforms

\* A rewritten document keeps its sections, and its title if it has one.
LEMMA WrittenPreserves ==
  ASSUME NEW type \in KnownTypes, NEW doc, IsDocument(doc), NEW p, DetectDocType(p, doc) = type
  PROVE  Preserves(p, doc, Written(type, doc))
<1>1. /\ Written(type, doc).sections = doc.sections \cup Contracts[type]
      /\ Written(type, doc).heading = (IF doc.h1 THEN doc.heading ELSE type)
  BY DEF Written, RefreshDocumentContent
<1>2. QED
  BY <1>1, WrittenConforms DEF Preserves

\* What init writes.
LEMMA DraftDocument == IsDocument(Draft) /\ Draft.by = "init"
BY DEF Draft, IsDocument, Types

\* Put adds a document and keeps the others.
LEMMA PutDocs ==
  ASSUME DocsInv, NEW p, NEW doc, IsDocument(doc), doc.by = "doc" => Conforms(p, doc),
         Put(p, doc)
  PROVE  /\ IsFiniteSet(DOMAIN docs')
         /\ \A q \in DOMAIN docs' :
               IsDocument(docs'[q]) /\ (docs'[q].by = "doc" => Conforms(q, docs'[q]))
         /\ DOMAIN docs' = DOMAIN docs \cup {p} /\ docs'[p] = doc
         /\ \A q \in DOMAIN docs : q # p => docs'[q] = docs[q]
<1>1. /\ DOMAIN docs' = DOMAIN docs \cup {p} /\ docs'[p] = doc
      /\ \A q \in DOMAIN docs : q # p => docs'[q] = docs[q]
  BY DEF Put
<1>2. IsFiniteSet(DOMAIN docs')
  BY <1>1, FS_AddElement DEF DocsInv
<1>3. ASSUME NEW q \in DOMAIN docs'
      PROVE  IsDocument(docs'[q]) /\ (docs'[q].by = "doc" => Conforms(q, docs'[q]))
  <2>1. CASE q = p
    BY <1>1, <2>1
  <2>2. CASE q # p
    BY <1>1, <2>2 DEF DocsInv
  <2>3. QED
    BY <2>1, <2>2
<1>4. QED
  BY <1>1, <1>2, <1>3

\* A step that writes no document and leaves the doc command alone.
LEMMA DocsKept == DocsInv /\ UNCHANGED <<docs, command>> => DocsInv'
BY DEF DocsInv

\* One that writes a document and leaves the doc command alone.
LEMMA DocsPut ==
  ASSUME DocsInv, NEW p, NEW doc, IsDocument(doc), doc.by = "doc" => Conforms(p, doc),
         Put(p, doc), UNCHANGED command
  PROVE  DocsInv'
<1>1. /\ IsFiniteSet(DOMAIN docs')
      /\ \A q \in DOMAIN docs' :
            IsDocument(docs'[q]) /\ (docs'[q].by = "doc" => Conforms(q, docs'[q]))
  BY PutDocs
<1>2. QED
  BY <1>1 DEF DocsInv

\* A doc command begins.
LEMMA DocsBegin ==
  ASSUME DocsInv,
         \/ \E input \in CreateInputs : StartCreate(input)
         \/ \E input \in RefreshInputs : StartRefresh(input)
  PROVE  DocsInv'
<1>1. CASE \E input \in CreateInputs : StartCreate(input)
  <2>1. PICK input \in CreateInputs : StartCreate(input)
    BY <1>1
  <2>2. /\ command'.pc = "check" /\ command'.type = input.type /\ command'.base = input.base
        /\ UNCHANGED docs
    BY <2>1 DEF StartCreate, Begin
  <2>3. QED
    BY <2>2, DocumentAssumption DEF DocsInv
<1>2. CASE \E input \in RefreshInputs : StartRefresh(input)
  <2>1. PICK input \in RefreshInputs : StartRefresh(input)
    BY <1>2
  <2>2. command'.pc = "next" /\ UNCHANGED docs
    BY <2>1 DEF StartRefresh, Begin
  <2>3. QED
    BY <2>2 DEF DocsInv
<1>3. QED
  BY <1>1, <1>2

\* A step of a doc command.
LEMMA DocsProgress == DocsInv /\ DocStep => DocsInv'
<1> SUFFICES ASSUME DocsInv, DocStep PROVE DocsInv'
  OBVIOUS
<1>1. CASE CheckPath
  <2>1. CASE command.path \in DOMAIN docs
    <3>1. command'.pc = "idle" /\ UNCHANGED docs
      BY <1>1, <2>1 DEF CheckPath, Idle
    <3>2. QED
      BY <3>1 DEF DocsInv
  <2>2. CASE command.path \notin DOMAIN docs
    <3>1. /\ command.pc = "check" /\ command'.pc = "write" /\ command'.type = command.type
          /\ command'.base = command.base /\ command'.path = command.path
          /\ command'.found = DOMAIN docs /\ UNCHANGED docs
      BY <1>1, <2>2 DEF CheckPath
    <3>2. QED
      BY <2>2, <3>1 DEF DocsInv
  <2>3. QED
    BY <2>1, <2>2
<1>2. CASE WriteDoc
  <2>1. /\ command.type \in KnownTypes /\ IsDocument(command.base)
        /\ Put(command.path, Written(command.type, command.base)) /\ command'.pc = "idle"
    BY <1>2 DEF WriteDoc, DocsInv, Idle
  <2>2. /\ IsFiniteSet(DOMAIN docs')
        /\ \A q \in DOMAIN docs' :
              IsDocument(docs'[q]) /\ (docs'[q].by = "doc" => Conforms(q, docs'[q]))
    BY <2>1, WrittenConforms, PutDocs
  <2>3. QED
    BY <2>1, <2>2 DEF DocsInv
<1>3. CASE ReadDoc
  <2>1. UNCHANGED docs
    BY <1>3 DEF ReadDoc
  <2>2. CASE command.todo = <<>> \/ Head(command.todo) \notin DOMAIN docs
    <3>1. command'.pc = "idle"
      BY <1>3, <2>2 DEF ReadDoc, Idle
    <3>2. QED
      BY <2>1, <3>1 DEF DocsInv
  <2>3. CASE ~(command.todo = <<>> \/ Head(command.todo) \notin DOMAIN docs)
    <3> DEFINE p == Head(command.todo)
    <3>1. CASE Refreshes(p)
      <4>1. /\ p \in DOMAIN docs /\ command'.pc = "rewrite" /\ command'.path = p
            /\ command'.seen = docs[p]
        BY <1>3, <2>3, <3>1 DEF ReadDoc
      <4>2. DetectDocType(p, docs[p]) \in KnownTypes
        BY <3>1 DEF Refreshes
      <4> HIDE DEF p
      <4>3. QED
        BY <2>1, <4>1, <4>2 DEF DocsInv
    <3>2. CASE ~ Refreshes(p)
      <4>1. command'.pc = "next"
        BY <1>3, <2>3, <3>2 DEF ReadDoc
      <4>2. QED
        BY <2>1, <4>1 DEF DocsInv
    <3>3. QED
      BY <3>1, <3>2
  <2>4. QED
    BY <2>2, <2>3
<1>4. CASE RewriteDoc
  <2> DEFINE type == DetectDocType(command.path, command.seen)
  <2>1. /\ type \in KnownTypes /\ IsDocument(command.seen)
        /\ Put(command.path, Written(type, command.seen)) /\ command'.pc = "next"
    BY <1>4 DEF RewriteDoc, DocsInv
  <2> HIDE DEF type
  <2>2. /\ IsFiniteSet(DOMAIN docs')
        /\ \A q \in DOMAIN docs' :
              IsDocument(docs'[q]) /\ (docs'[q].by = "doc" => Conforms(q, docs'[q]))
    BY <2>1, WrittenConforms, PutDocs
  <2>3. QED
    BY <2>1, <2>2 DEF DocsInv
<1>5. QED
  BY <1>1, <1>2, <1>3, <1>4 DEF DocStep

\* The user writes or deletes a document.
LEMMA DocsEdited == DocsInv /\ EditDocument => DocsInv'
<1> SUFFICES ASSUME DocsInv, NEW p \in Paths, EditDoc(p) \/ DeleteDoc(p) PROVE DocsInv'
  BY DEF EditDocument
<1>1. CASE EditDoc(p)
  <2>1. PICK doc \in Drafts[p] : Put(p, doc) /\ UNCHANGED command
    BY <1>1 DEF EditDoc
  <2>2. IsDocument(doc) /\ doc.by # "doc"
    BY DocumentAssumption
  <2>3. QED
    BY <2>1, <2>2, DocsPut
<1>2. CASE DeleteDoc(p)
  <2>1. /\ DOMAIN docs' = DOMAIN docs \ {p} /\ UNCHANGED command
        /\ \A q \in DOMAIN docs \ {p} : docs'[q] = docs[q]
    BY <1>2 DEF DeleteDoc
  <2>2. IsFiniteSet(DOMAIN docs')
    BY <2>1, FS_RemoveElement DEF DocsInv
  <2>3. QED
    BY <2>1, <2>2 DEF DocsInv
<1>3. QED
  BY <1>1, <1>2

\* Every step.
LEMMA DocsInductive == DocsInv /\ [Next]_vars => DocsInv'
<1> SUFFICES ASSUME DocsInv, [Next]_vars PROVE DocsInv'
  OBVIOUS
<1> USE DEF docVars
<1>1. CASE \E o \in InitOptions : StartInit(o)
  BY <1>1, DocsKept DEF StartInit
<1>2. CASE InitStep
  <2>1. CASE WriteDraft
    BY <2>1, DraftDocument, DocsPut DEF WriteDraft
  <2>2. CASE EnsureAgentsInstruction
    BY <2>2, DraftDocument, DocsPut, DocsKept DEF EnsureAgentsInstruction
  <2>3. CASE \/ ChooseGitIgnorePolicy \/ EnsureGitIgnoreEntries \/ WriteRagitConfig
             \/ BootstrapStore \/ FinishInit
    BY <2>3, DocsKept DEF ChooseGitIgnorePolicy, EnsureGitIgnoreEntries, WriteRagitConfig,
                          BootstrapStore, FinishInit, InitSteps
  <2>4. QED
    BY <1>2, <2>1, <2>2, <2>3 DEF InitStep
<1>3. CASE DocCommand
  BY <1>3, DocsBegin DEF DocCommand
<1>4. CASE DocProgress
  BY <1>4, DocsProgress DEF DocProgress
<1>5. CASE \E setting \in Settings : ConfigSet(setting[1], setting[2])
  BY <1>5, DocsKept DEF ConfigSet
<1>6. CASE MigrateEmbeddings \/ EditConfig
  BY <1>6, DocsKept DEF MigrateEmbeddings, EditConfig
<1>7. CASE EditDocument
  BY <1>7, DocsEdited
<1>8. CASE Stop
  <2>1. CASE StopDoc
    <3>1. command'.pc = "idle" /\ UNCHANGED docs
      BY <2>1 DEF StopDoc, Idle
    <3>2. QED
      BY <3>1 DEF DocsInv
  <2>2. QED
    BY <1>8, <2>1, DocsKept DEF Stop
<1>9. CASE UNCHANGED vars
  BY <1>9, DocsKept DEF vars
<1>10. QED
  BY <1>1, <1>2, <1>3, <1>4, <1>5, <1>6, <1>7, <1>8, <1>9 DEF Next

\* At the start, what there is is the user's.
LEMMA DocsInitially == Init => DocsInv
BY RepositoryAssumption DEF Init, DocsInv, Idle

-----------------------------------------------------------------------------
(* More documents, fewer drafts *)

\* No document goes, and none changes its type.
Grown == /\ DOMAIN docs \subseteq DOMAIN docs'
         /\ \A p \in DOMAIN docs : DetectDocType(p, docs'[p]) = DetectDocType(p, docs[p])

\* As long as the user leaves the documents alone, a step that does not write over
\* what its command has not read only adds to them.
LEMMA Grows ==
  ASSUME DocsInv, [Next]_vars, ~ EditDocument, ~ overwritten'
  PROVE  Grown /\ ~ overwritten
<1> DEFINE Same == UNCHANGED <<docs, overwritten>>
<1>1. Same => Grown /\ ~ overwritten
  BY DEF Grown
<1>2. ASSUME NEW p, NEW doc, IsDocument(doc), doc.by = "doc" => Conforms(p, doc), Put(p, doc),
             p \in DOMAIN docs => DetectDocType(p, doc) = DetectDocType(p, docs[p])
      PROVE  Grown
  BY <1>2, PutDocs DEF Grown
<1>3. ASSUME Put(Head(run.todo), Draft), Head(run.todo) \notin DOMAIN docs PROVE Grown
  BY <1>2, <1>3, DraftDocument
<1>4. CASE InitStep
  <2>1. CASE WriteDraft
    BY <1>3, <2>1 DEF WriteDraft
  <2>2. CASE EnsureAgentsInstruction
    <3>1. UNCHANGED overwritten
      BY <2>2 DEF EnsureAgentsInstruction
    <3>2. CASE "AGENTS.md" \in DOMAIN docs
      BY <1>1, <2>2, <3>2 DEF EnsureAgentsInstruction
    <3>3. CASE "AGENTS.md" \notin DOMAIN docs
      BY <1>2, <2>2, <3>1, <3>3, DraftDocument DEF EnsureAgentsInstruction
    <3>4. QED
      BY <3>2, <3>3
  <2>3. CASE \/ ChooseGitIgnorePolicy \/ EnsureGitIgnoreEntries \/ WriteRagitConfig
             \/ BootstrapStore \/ FinishInit
    BY <1>1, <2>3 DEF ChooseGitIgnorePolicy, EnsureGitIgnoreEntries, WriteRagitConfig,
                      BootstrapStore, FinishInit, InitSteps, docVars
  <2>4. QED
    BY <1>4, <2>1, <2>2, <2>3 DEF InitStep
<1>5. CASE DocProgress
  <2>1. CASE WriteDoc
    <3>1. /\ command.path \notin DOMAIN docs /\ ~ overwritten
          /\ command.type \in KnownTypes /\ IsDocument(command.base)
          /\ Put(command.path, Written(command.type, command.base))
      BY <2>1 DEF WriteDoc, DocsInv
    <3>2. QED
      BY <1>2, <3>1, WrittenConforms
  <2>2. CASE RewriteDoc
    <3> DEFINE type == DetectDocType(command.path, command.seen)
    <3>1. /\ command.path \in DOMAIN docs => docs[command.path] = command.seen
          /\ ~ overwritten
          /\ type \in KnownTypes /\ IsDocument(command.seen)
          /\ Put(command.path, Written(type, command.seen))
      BY <2>2 DEF RewriteDoc, DocsInv
    <3>2. command.path \in DOMAIN docs => DetectDocType(command.path, docs[command.path]) = type
      BY <3>1
    <3> HIDE DEF type
    <3>3. QED
      BY <1>2, <3>1, <3>2, WrittenConforms
  <2>3. CASE CheckPath \/ ReadDoc
    BY <1>1, <2>3 DEF CheckPath, ReadDoc
  <2>4. QED
    BY <1>5, <2>1, <2>2, <2>3 DEF DocProgress, DocStep
<1>6. CASE DocCommand
  BY <1>1, <1>6 DEF DocCommand, StartCreate, StartRefresh, Begin
<1>7. CASE \/ \E o \in InitOptions : StartInit(o)
           \/ \E setting \in Settings : ConfigSet(setting[1], setting[2])
           \/ MigrateEmbeddings \/ EditConfig \/ Stop \/ UNCHANGED vars
  BY <1>1, <1>7 DEF StartInit, ConfigSet, MigrateEmbeddings, EditConfig, Stop, StopDoc,
                    docVars, vars
<1>8. QED
  BY <1>4, <1>5, <1>6, <1>7 DEF Next

\* The slots of the census only fill.
LEMMA FilledGrows == Grown => Filled \subseteq Filled'
BY DEF Grown, Filled

\* The modes on which a draft depends.
LEMMA Modes ==
  /\ DetectRepositoryMode = "monorepo" <=> Monorepo
  /\ DetectRepositoryMode = "empty" <=>
        /\ ~ Monorepo /\ repository.code = 0
        /\ Cardinality(DOMAIN docs) <= 1 /\ Cardinality(repository.builds) <= 1
BY DEF DetectRepositoryMode

\* A repository never becomes empty.
LEMMA ModesStay ==
  ASSUME DocsInv, DocsInv', Grown, UNCHANGED repository
  PROVE  /\ DetectRepositoryMode' = "monorepo" <=> DetectRepositoryMode = "monorepo"
         /\ DetectRepositoryMode' = "empty" => DetectRepositoryMode = "empty"
<1>1. Monorepo' <=> Monorepo
  BY DEF Monorepo
<1>2. /\ Cardinality(DOMAIN docs) <= Cardinality(DOMAIN docs')
      /\ Cardinality(DOMAIN docs) \in Nat /\ Cardinality(DOMAIN docs') \in Nat
  BY FS_Subset, FS_CardinalityType DEF Grown, DocsInv
<1>3. /\ DetectRepositoryMode' = "monorepo" <=> Monorepo'
      /\ DetectRepositoryMode' = "empty" <=>
            /\ ~ Monorepo' /\ repository'.code = 0
            /\ Cardinality(DOMAIN docs') <= 1 /\ Cardinality(repository'.builds) <= 1
  BY DEF DetectRepositoryMode
<1>4. QED
  BY <1>1, <1>2, <1>3, Modes

Signals == {"projectOverview", "localDevelopmentGuide", "architectureRationale",
            "decisionRecords", "packageOwnershipMap", "ingestionPolicy"}

\* What the census finds sufficient stays sufficient.
LEMMA CoverageStays ==
  ASSUME Grown, NEW signal \in Signals, CensusDocumentation[signal] = "sufficient"
  PROVE  CensusDocumentation'[signal] = "sufficient"
BY FilledGrows DEF CensusDocumentation, Signal, Signals

\* The drafts that init knows.
LEMMA PrioritySet ==
  /\ ToSet(Priorities) = {"RAGIT.md", "docs/workspace-map.md", "docs/ragit/ingestion-policy.md",
                          "docs/known-gaps.md", "docs/adr/README.md"}
  /\ Priorities \in Seq(ToSet(Priorities))
<1>1. ToSet(Priorities) = {Priorities[i] : i \in 1..5}
  BY DEF ToSet, Priorities
<1>2. 1..5 = {1, 2, 3, 4, 5}
  OBVIOUS
<1>3. \A i \in {1, 2, 3, 4, 5} : Priorities[i] \in ToSet(Priorities)
  BY <1>1, <1>2
<1>4. QED
  BY <1>1, <1>2, <1>3 DEF Priorities

\* A draft is wanted for a mode that stays and for what is lacking.
LEMMA WantedLess ==
  ASSUME NEW p \in ToSet(Priorities), NEW strategy, NEW m, NEW n, NEW c, NEW d,
         n = "monorepo" => m = "monorepo", n = "empty" => m = "empty",
         DOMAIN c = Signals, DOMAIN d = Signals,
         \A signal \in Signals : c[signal] = "sufficient" => d[signal] = "sufficient",
         Wanted(p, n, strategy, d)
  PROVE  Wanted(p, m, strategy, c)
<1> USE DEF Signals, Wanted
<1>1. CASE p = "RAGIT.md"
  BY <1>1
<1>2. CASE p = "docs/workspace-map.md"
  BY <1>2
<1>3. CASE p = "docs/ragit/ingestion-policy.md"
  BY <1>3
<1>4. CASE p = "docs/known-gaps.md"
  BY <1>4
<1>5. CASE p = "docs/adr/README.md"
  BY <1>5
<1>6. QED
  BY <1>1, <1>2, <1>3, <1>4, <1>5, PrioritySet

\* A draft that is wanted was wanted before.
LEMMA WantsLess ==
  ASSUME DocsInv, DocsInv', Grown, UNCHANGED repository,
         NEW o, NEW p \in ToSet(Priorities), Wants(o, p)'
  PROVE  Wants(o, p)
<1> DEFINE m == IF o.mode = "auto" THEN DetectRepositoryMode ELSE o.mode
           n == IF o.mode = "auto" THEN DetectRepositoryMode' ELSE o.mode
<1>1. Wanted(p, n, o.strategy, CensusDocumentation')
  BY DEF Wants
<1>2. DOMAIN CensusDocumentation = Signals /\ DOMAIN CensusDocumentation' = Signals
  BY DEF CensusDocumentation, Signals
<1>3. /\ n = "monorepo" => m = "monorepo"
      /\ n = "empty" => m = "empty"
  BY ModesStay
<1> HIDE DEF m, n
<1>4. Wanted(p, m, o.strategy, CensusDocumentation)
  BY <1>1, <1>2, <1>3, CoverageStays, WantedLess
<1>5. QED
  BY <1>4 DEF Wants, m

-----------------------------------------------------------------------------
(* The inits *)

\* What no step but an edit of a document does.
Quiet == /\ DOMAIN docs \subseteq DOMAIN docs' /\ gitignore \subseteq gitignore'
         /\ repository' = repository /\ (git => git')
         /\ ~ overwritten' => Grown /\ ~ overwritten

\* The documents a step adds are one draft or one document of a doc command.
LEMMA DocsStay == [Next]_vars /\ ~ EditDocument => DOMAIN docs \subseteq DOMAIN docs'
<1> SUFFICES ASSUME [Next]_vars, ~ EditDocument PROVE DOMAIN docs \subseteq DOMAIN docs'
  OBVIOUS
<1>1. ASSUME NEW p, NEW doc, Put(p, doc) PROVE DOMAIN docs \subseteq DOMAIN docs'
  BY <1>1 DEF Put
<1>2. CASE InitStep
  BY <1>1, <1>2 DEF InitStep, WriteDraft, EnsureAgentsInstruction, ChooseGitIgnorePolicy,
                    EnsureGitIgnoreEntries, WriteRagitConfig, BootstrapStore, FinishInit,
                    InitSteps, docVars
<1>3. CASE DocProgress
  BY <1>1, <1>3 DEF DocProgress, DocStep, WriteDoc, RewriteDoc, CheckPath, ReadDoc
<1>4. CASE DocCommand
  BY <1>4 DEF DocCommand, StartCreate, StartRefresh, Begin
<1>5. CASE \/ \E o \in InitOptions : StartInit(o)
           \/ \E setting \in Settings : ConfigSet(setting[1], setting[2])
           \/ MigrateEmbeddings \/ EditConfig \/ Stop \/ UNCHANGED vars
  BY <1>5 DEF StartInit, ConfigSet, MigrateEmbeddings, EditConfig, Stop, StopDoc, docVars, vars
<1>6. QED
  BY <1>2, <1>3, <1>4, <1>5 DEF Next

\* The other variables of a quiet step.
LEMMA OthersStay ==
  [Next]_vars => gitignore \subseteq gitignore' /\ repository' = repository /\ (git => git')
<1> SUFFICES ASSUME [Next]_vars
             PROVE  gitignore \subseteq gitignore' /\ repository' = repository /\ (git => git')
  OBVIOUS
<1>1. CASE InitStep
  <2>1. UNCHANGED <<repository, git>>
    BY <1>1 DEF InitStep, WriteDraft, EnsureAgentsInstruction, ChooseGitIgnorePolicy,
                EnsureGitIgnoreEntries, WriteRagitConfig, BootstrapStore, FinishInit, InitSteps
  <2>2. gitignore \subseteq gitignore'
    BY <1>1 DEF InitStep, WriteDraft, EnsureAgentsInstruction, ChooseGitIgnorePolicy,
                EnsureGitIgnoreEntries, WriteRagitConfig, BootstrapStore, FinishInit
  <2>3. QED
    BY <2>1, <2>2
<1>2. CASE DocProgress \/ DocCommand \/ EditDocument
  BY <1>2 DEF DocProgress, DocCommand, EditDocument, setupVars
<1>3. CASE \E o \in InitOptions : StartInit(o)
  <2>1. git' = TRUE /\ UNCHANGED <<repository, gitignore>>
    BY <1>3 DEF StartInit
  <2>2. QED
    BY <2>1
<1>4. CASE \/ \E setting \in Settings : ConfigSet(setting[1], setting[2])
           \/ MigrateEmbeddings \/ EditConfig \/ Stop \/ UNCHANGED vars
  BY <1>4 DEF ConfigSet, MigrateEmbeddings, EditConfig, Stop, setupVars, vars
<1>5. QED
  BY <1>1, <1>2, <1>3, <1>4 DEF Next

\* Every step but an edit of a document is quiet, ...
LEMMA Quietly == DocsInv /\ [Next]_vars => EditDocument \/ Quiet
BY Grows, DocsStay, OthersStay DEF Quiet

\* ... and so is every step that counts no edit.
LEMMA QuietSteps == SetupInv /\ [Next]_vars /\ UNCHANGED edits => Quiet
BY Quietly DEF SetupInv, EditDocument, Edit

\* What an init has written or still plans to write is enough, if nobody edits.
LEMMA RunStays ==
  ASSUME SetupInv, DocsInv', Quiet, UNCHANGED <<run, edits>>
  PROVE  RunInv'
<1> SUFFICES ASSUME run.pc # "idle" PROVE RunInv'
  BY DEF RunInv
<1>1. ASSUME run.edits = edits, ~ overwritten', NEW o \in {run.options},
             NEW p \in ToSet(Priorities), Wants(o, p)'
      PROVE  p \in DOMAIN docs' \cup ToSet(run'.todo)
  <2>1. Grown /\ ~ overwritten /\ repository' = repository
    BY <1>1 DEF Quiet
  <2>2. Wants(o, p)
    BY <1>1, <2>1, WantsLess DEF SetupInv
  <2>3. p \in DOMAIN docs \cup ToSet(run.todo)
    BY <1>1, <2>1, <2>2 DEF SetupInv, RunInv
  <2>4. QED
    BY <2>3 DEF Quiet
<1>2. QED
  BY <1>1 DEF SetupInv, RunInv, Quiet

\* The same of the inits that have settled.
LEMMA SettledStays ==
  ASSUME SetupInv, DocsInv', Quiet, UNCHANGED settled
  PROVE  SettledInv'
<1>1. ASSUME NEW o \in settled, ~ overwritten', NEW p \in ToSet(Priorities),
             Wants(o.options, p)'
      PROVE  p \in DOMAIN docs'
  <2>1. Grown /\ ~ overwritten /\ repository' = repository
    BY <1>1 DEF Quiet
  <2>2. Wants(o.options, p)
    BY <1>1, <2>1, WantsLess DEF SetupInv
  <2>3. p \in DOMAIN docs
    BY <1>1, <2>1, <2>2 DEF SetupInv, SettledInv
  <2>4. QED
    BY <2>3 DEF Quiet
<1>2. QED
  BY <1>1 DEF SetupInv, SettledInv, Quiet

\* The drafts an init plans are those that are wanted and missing.
LEMMA Plans ==
  ASSUME NEW o
  PROVE  /\ PlanGapFill(o) \in Seq(ToSet(Priorities) \ DOMAIN docs)
         /\ \A p \in ToSet(Priorities) :
               Wants(o, p) => p \in DOMAIN docs \cup ToSet(PlanGapFill(o))
         /\ (\A p \in ToSet(Priorities) : Wants(o, p) => p \in DOMAIN docs)
               => PlanGapFill(o) = <<>>
<1> DEFINE P == ToSet(Priorities)
           T == {p \in P : p \notin DOMAIN docs /\ Wants(o, p)}
           plan == PlanGapFill(o)
<1>1. plan = Kept(Priorities, T) /\ Priorities \in Seq(P)
  BY PrioritySet DEF PlanGapFill
<1>2. T \subseteq P \ DOMAIN docs /\ \A p \in P : Wants(o, p) => p \in DOMAIN docs \cup T
  OBVIOUS
<1>3. (\A p \in P : Wants(o, p) => p \in DOMAIN docs) => T = {}
  OBVIOUS
<1> HIDE DEF P, T, plan
<1>4. plan \in Seq(P \cap T)
  BY <1>1, KeptList
<1>5. plan \in Seq(P \ DOMAIN docs)
  BY <1>2, <1>4
<1>6. \A p \in P \cap T : p \in ToSet(plan)
  <2> SUFFICES ASSUME NEW p \in P \cap T PROVE p \in ToSet(plan)
    OBVIOUS
  <2>1. \E i \in 1..5 : Priorities[i] = p /\ Len(Priorities) = 5
    BY PrioritySet DEF Priorities, P
  <2>2. p \in ToSet(Priorities)
    BY DEF P
  <2>3. QED
    BY <1>1, <2>2, KeptAll
<1>7. T = {} => plan = <<>>
  BY <1>4
<1>8. QED
  BY <1>2, <1>3, <1>5, <1>6, <1>7 DEF P, plan

\* A list without its first element.
LEMMA Rest ==
  ASSUME NEW S, NEW s \in Seq(S), s # <<>>
  PROVE  /\ Head(s) \in S /\ Tail(s) \in Seq(S)
         /\ \A x \in ToSet(s) : x = Head(s) \/ x \in ToSet(Tail(s))
<1>1. IsList(s) /\ DOMAIN s = 1..Len(s)
  BY ListOf
<1>2. /\ IsList(Tail(s)) /\ Len(Tail(s)) = Len(s) - 1 /\ Len(s) \in Nat \ {0}
      /\ \A i \in 1..Len(Tail(s)) : Tail(s)[i] = s[i + 1]
      /\ Head(s) = s[1]
  BY <1>1, ListTail
<1>3. DOMAIN Tail(s) = 1..Len(Tail(s))
  BY <1>2, ListFacts
<1>4. ASSUME NEW i \in 1..Len(s), i # 1 PROVE s[i] \in ToSet(Tail(s))
  <2>1. i - 1 \in 1..Len(Tail(s)) /\ Tail(s)[i - 1] = s[i]
    BY <1>2, <1>4
  <2>2. QED
    BY <1>3, <2>1 DEF ToSet
<1>5. QED
  BY <1>1, <1>2, <1>4, HeadTailProperties DEF ToSet

\* What the steps of an init make of RunInv.
LEMMA RunInductive == SetupInv /\ DocsInv' /\ [Next]_vars => RunInv'
<1> SUFFICES ASSUME SetupInv, DocsInv', [Next]_vars PROVE RunInv'
  OBVIOUS
<1>1. CASE \E o \in InitOptions : StartInit(o)
  <2>1. PICK o \in InitOptions : StartInit(o)
    BY <1>1
  <2> DEFINE plan == PlanGapFill(o)
  <2>2. /\ git' = TRUE /\ UNCHANGED <<docs, repository, edits>>
        /\ run' = [pc |-> "choose", options |-> o, tracked |-> {}, found |-> DOMAIN docs,
                   todo |-> plan, edits |-> edits]
    BY <2>1 DEF StartInit, Command, docVars
  <2>3. /\ plan \in Seq(ToSet(Priorities) \ DOMAIN docs)
        /\ \A p \in ToSet(Priorities) : Wants(o, p) => p \in DOMAIN docs \cup ToSet(plan)
    BY Plans
  <2>4. \A p \in ToSet(Priorities) : Wants(o, p)' => Wants(o, p)
    <3>1. Grown
      BY <2>2 DEF Grown
    <3>2. QED
      BY <2>2, <3>1, WantsLess DEF SetupInv
  <2> HIDE DEF plan
  <2>5. QED
    BY <2>2, <2>3, <2>4 DEF RunInv, SetupInv
<1>2. CASE EditDocument
  BY <1>2 DEF EditDocument, Edit, setupVars, RunInv, SetupInv
<1>3. CASE EditConfig
  BY <1>3 DEF EditConfig, Edit, docVars, RunInv, SetupInv
<1>4. ASSUME UNCHANGED <<run, edits>> PROVE RunInv'
  BY <1>4, QuietSteps, RunStays
<1>5. CASE InitStep
  <2>1. Quiet /\ edits' = edits
    <3>1. edits' = edits
      BY <1>5 DEF InitStep, ChooseGitIgnorePolicy, WriteDraft, EnsureGitIgnoreEntries,
                  WriteRagitConfig, EnsureAgentsInstruction, BootstrapStore, FinishInit,
                  InitSteps, counters
    <3>2. QED
      BY <3>1, QuietSteps
  <2>2. ASSUME run.edits = edits, ~ overwritten', NEW o \in {run.options},
               NEW p \in ToSet(Priorities), Wants(o, p)', run.pc # "idle"
        PROVE  p \in DOMAIN docs \cup ToSet(run.todo)
    <3>1. Grown /\ ~ overwritten /\ repository' = repository
      BY <2>1, <2>2 DEF Quiet
    <3>2. Wants(o, p)
      BY <2>2, <3>1, WantsLess DEF SetupInv
    <3>3. QED
      BY <2>2, <3>1, <3>2 DEF SetupInv, RunInv
  <2>3. CASE ChooseGitIgnorePolicy
    <3>1. /\ run.pc = "choose" /\ run'.pc = "draft" /\ run'.options = run.options
          /\ run'.found = run.found /\ run'.todo = run.todo /\ run'.edits = run.edits
          /\ run' = [pc |-> run'.pc, options |-> run'.options, tracked |-> run'.tracked,
                     found |-> run'.found, todo |-> run'.todo, edits |-> run'.edits]
      BY <2>3 DEF ChooseGitIgnorePolicy, SetupInv, RunInv
    <3>2. QED
      BY <2>1, <2>2, <3>1 DEF SetupInv, RunInv, Quiet
  <2>4. CASE WriteDraft
    <3> DEFINE S == ToSet(Priorities) \ run.found
    <3>1. /\ run.pc = "draft" /\ run.todo \in Seq(S) /\ run.todo # <<>>
          /\ Put(Head(run.todo), Draft) /\ run' = [run EXCEPT !.todo = Tail(run.todo)]
      BY <2>4 DEF WriteDraft, SetupInv, RunInv
    <3>2. /\ run'.pc = "draft" /\ run'.options = run.options
          /\ run'.found = run.found /\ run'.todo = Tail(run.todo) /\ run'.edits = run.edits
          /\ run' = [pc |-> run'.pc, options |-> run'.options, tracked |-> run'.tracked,
                     found |-> run'.found, todo |-> run'.todo, edits |-> run'.edits]
      BY <3>1 DEF SetupInv, RunInv
    <3>3. DOMAIN docs' = DOMAIN docs \cup {Head(run.todo)}
      BY <3>1 DEF Put
    <3> HIDE DEF S
    <3>4. /\ Tail(run.todo) \in Seq(S)
          /\ \A x \in ToSet(run.todo) : x = Head(run.todo) \/ x \in ToSet(Tail(run.todo))
      BY <3>1, Rest
    <3>5. \A p \in DOMAIN docs \cup ToSet(run.todo) : p \in DOMAIN docs' \cup ToSet(run'.todo)
      BY <3>2, <3>3, <3>4
    <3>6. run.pc # "idle" /\ git /\ run.edits \in Nat /\ run.edits <= edits
      BY <3>1 DEF SetupInv, RunInv
    <3>7. ASSUME run'.edits = edits', ~ overwritten', NEW o \in {run'.options},
                 NEW p \in ToSet(Priorities), Wants(o, p)'
          PROVE  p \in DOMAIN docs' \cup ToSet(run'.todo)
      BY <2>1, <2>2, <3>2, <3>5, <3>6, <3>7
    <3>8. run'.todo \in Seq(ToSet(Priorities) \ run'.found)
      BY <3>2, <3>4 DEF S
    <3>9. QED
      BY <2>1, <3>2, <3>6, <3>7, <3>8 DEF RunInv, Quiet
  <2>5. CASE EnsureGitIgnoreEntries
    <3>1. /\ run.pc = "draft" /\ run'.pc = "config" /\ run'.options = run.options
          /\ run'.tracked = run.tracked /\ run'.found = run.found
          /\ run'.todo = run.todo /\ run'.edits = run.edits
          /\ run' = [pc |-> run'.pc, options |-> run'.options, tracked |-> run'.tracked,
                     found |-> run'.found, todo |-> run'.todo, edits |-> run'.edits]
          /\ run.todo = <<>> /\ GitIgnoreEntries(run.tracked) \subseteq gitignore'
      BY <2>5 DEF EnsureGitIgnoreEntries, RunGoto, SetupInv, RunInv
    <3>2. QED
      BY <2>1, <2>2, <3>1 DEF SetupInv, RunInv, Quiet
  <2>6. CASE WriteRagitConfig
    <3>1. /\ run.pc = "config" /\ run'.pc = "agents" /\ run'.options = run.options
          /\ run'.tracked = run.tracked /\ run'.found = run.found
          /\ run'.todo = run.todo /\ run'.edits = run.edits
          /\ run' = [pc |-> run'.pc, options |-> run'.options, tracked |-> run'.tracked,
                     found |-> run'.found, todo |-> run'.todo, edits |-> run'.edits]
      BY <2>6 DEF WriteRagitConfig, RunGoto, SetupInv, RunInv
    <3>2. QED
      BY <2>1, <2>2, <3>1 DEF SetupInv, RunInv, Quiet
  <2>7. CASE EnsureAgentsInstruction
    <3>1. /\ run.pc = "agents" /\ run'.pc = "store" /\ run'.options = run.options
          /\ run'.tracked = run.tracked /\ run'.found = run.found
          /\ run'.todo = run.todo /\ run'.edits = run.edits
          /\ run' = [pc |-> run'.pc, options |-> run'.options, tracked |-> run'.tracked,
                     found |-> run'.found, todo |-> run'.todo, edits |-> run'.edits]
          /\ "AGENTS.md" \in DOMAIN docs'
      BY <2>7 DEF EnsureAgentsInstruction, RunGoto, SetupInv, RunInv, Put
    <3>2. QED
      BY <2>1, <2>2, <3>1 DEF SetupInv, RunInv, Quiet
  <2>8. CASE BootstrapStore
    <3>1. CASE run'.pc = "idle"
      BY <3>1 DEF RunInv
    <3>2. CASE run'.pc # "idle"
      <4>1. /\ run.pc = "store" /\ run'.pc = "index" /\ run'.options = run.options
            /\ run'.tracked = run.tracked /\ run'.found = run.found
            /\ run'.todo = run.todo /\ run'.edits = run.edits
            /\ run' = [pc |-> run'.pc, options |-> run'.options, tracked |-> run'.tracked,
                       found |-> run'.found, todo |-> run'.todo, edits |-> run'.edits]
        BY <2>8, <3>2 DEF BootstrapStore, RunGoto, Idle, SetupInv, RunInv
      <4>2. QED
        BY <2>1, <2>2, <4>1 DEF SetupInv, RunInv, Quiet
    <3>3. QED
      BY <3>1, <3>2
  <2>9. CASE FinishInit
    BY <2>9 DEF FinishInit, RunInv, Idle
  <2>10. QED
    BY <1>5, <2>3, <2>4, <2>5, <2>6, <2>7, <2>8, <2>9 DEF InitStep
<1>6. CASE Stop
  <2>1. UNCHANGED edits /\ (UNCHANGED run \/ run'.pc = "idle")
    BY <1>6 DEF Stop, Idle
  <2>2. QED
    BY <1>4, <2>1 DEF RunInv
<1>7. CASE \/ DocProgress \/ DocCommand
           \/ \E setting \in Settings : ConfigSet(setting[1], setting[2])
           \/ MigrateEmbeddings \/ UNCHANGED vars
  BY <1>4, <1>7 DEF DocProgress, DocCommand, ConfigSet, MigrateEmbeddings, Command,
                    setupVars, counters, vars
<1>8. QED
  BY <1>1, <1>2, <1>3, <1>5, <1>6, <1>7 DEF Next

\* An init settles when all it planned is there.
LEMMA SettledInductive == SetupInv /\ DocsInv' /\ [Next]_vars => SettledInv'
<1> SUFFICES ASSUME SetupInv, DocsInv', [Next]_vars PROVE SettledInv'
  OBVIOUS
<1>1. CASE EditDocument
  BY <1>1 DEF EditDocument, SettledInv
<1>2. CASE FinishInit
  <2> DEFINE new == [options |-> run.options, tracked |-> run.tracked]
  <2>1. /\ run.pc = "index" /\ UNCHANGED <<docs, gitignore, overwritten, repository, edits>>
        /\ settled' = settled \/ (settled' = settled \cup {new} /\ run.edits = edits)
    BY <1>2 DEF FinishInit, docVars
  <2>2. Quiet
    BY <2>1, QuietSteps
  <2>3. CASE settled' = settled
    BY <2>2, <2>3, SettledStays
  <2>4. CASE settled' = settled \cup {new} /\ run.edits = edits
    <3>1. /\ "AGENTS.md" \in DOMAIN docs /\ GitIgnoreEntries(new.tracked) \subseteq gitignore
          /\ run.todo = <<>> /\ new.options = run.options
      BY <2>1, <2>4 DEF SetupInv, RunInv
    <3>2. ASSUME ~ overwritten, NEW o \in {run.options}, NEW p \in ToSet(Priorities),
                 Wants(o, p)
          PROVE  p \in DOMAIN docs
      <4>1. p \in DOMAIN docs \cup ToSet(run.todo)
        BY <2>1, <2>4, <3>2 DEF SetupInv, RunInv
      <4>2. ToSet(run.todo) = {}
        BY <3>1 DEF ToSet
      <4>3. QED
        BY <4>1, <4>2
    <3> HIDE DEF new
    <3>3. ASSUME NEW s \in settled \cup {new}, ~ overwritten', NEW p \in ToSet(Priorities),
                 Wants(s.options, p)'
          PROVE  p \in DOMAIN docs'
      <4>1. Grown /\ ~ overwritten
        BY <2>2, <3>3 DEF Quiet
      <4>2. Wants(s.options, p)
        BY <2>1, <3>3, <4>1, WantsLess DEF SetupInv
      <4>3. CASE s = new
        BY <2>1, <3>1, <3>2, <4>1, <4>2, <4>3
      <4>4. CASE s \in settled
        BY <2>1, <4>1, <4>2, <4>4 DEF SetupInv, SettledInv
      <4>5. QED
        BY <3>3, <4>3, <4>4
    <3>4. QED
      BY <2>1, <2>4, <3>1, <3>3 DEF SetupInv, SettledInv
  <2>5. QED
    BY <2>1, <2>3, <2>4
<1>3. CASE ~ EditDocument /\ ~ FinishInit
  <2>1. settled' = settled
    BY <1>3 DEF Next, InitStep, WriteDraft, EnsureAgentsInstruction, ChooseGitIgnorePolicy,
                EnsureGitIgnoreEntries, WriteRagitConfig, BootstrapStore, InitSteps,
                DocProgress, DocCommand, StartInit, ConfigSet, MigrateEmbeddings, EditConfig,
                Stop, counters, vars
  <2>2. QED
    BY <1>3, <2>1, Quietly, SettledStays DEF SetupInv
<1>4. QED
  BY <1>1, <1>2, <1>3

-----------------------------------------------------------------------------
(* The configuration *)

\* The default configuration asks for the default store, and is parsed as it stands.
LEMMA Defaults ==
  /\ Parse(DefaultConfig) = DefaultConfig /\ DefaultConfig # NoConfig
  /\ Loads(DefaultConfig) /\ Supported(DefaultConfig) /\ Contract(DefaultConfig) # NoStore
  /\ Shape(DefaultConfig)
  /\ DefaultConfig.provider = "local-placeholder" /\ DefaultConfig.admission = "enforce"
BY DEF DefaultConfig, Parse, NormalizedModel, NormalizedAdmission, NoLine, NoConfig, Loads,
       Providers, Supported, Contract, NoStore, ModelSpecs, Shape

\* What parsing makes of a configuration, ...
Parsed(d, c) ==
    /\ Shape(d) /\ d.dims \in Int
    /\ d.provider = c.provider /\ d.model = NormalizedModel(c.provider, c.model)
    /\ d.dims = (IF c.dims = NoLine THEN 64 ELSE IF c.dims > 0 THEN c.dims ELSE NoLine)
    /\ d.admission = (IF c.admission = "" THEN "report-only"
                      ELSE NormalizedAdmission(c.admission))

\* A parsed configuration has four settings that load as they are.
LEMMA ParsedShape == ASSUME NEW c, Shape(c) PROVE Parsed(Parse(c), c)
BY DEF Shape, Parse, DefaultConfig, NoLine, Parsed

\* ... and config set, ...
Assigned(new, c, key) ==
    /\ Shape(new) /\ new.dims \in Int
    /\ key # "provider" => new.provider = c.provider
    /\ key # "model" => new.model = c.model
    /\ key # "dims" => new.dims = c.dims
    /\ key # "admission" => new.admission = c.admission

\* Setting one leaves the others.
LEMMA SetShape ==
  ASSUME NEW c, Shape(c), NEW key \in {"provider", "model", "dims", "admission"}, NEW value,
         key = "dims" => value \in Int
  PROVE  Assigned(SetConfigValue(c, key, value), c, key)
<1> USE DEF Shape, SetConfigValue, Assigned
<1>1. CASE key = "provider"
  BY <1>1
<1>2. CASE key = "model"
  BY <1>2
<1>3. CASE key = "dims"
  BY <1>3
<1>4. CASE key = "admission"
  BY <1>4
<1>5. QED
  BY <1>1, <1>2, <1>3, <1>4

\* ... and the settings as they work.
Works(e, c) ==
    /\ DOMAIN e = {"provider", "model", "dims", "admission"}
    /\ e.provider = c.provider /\ e.model = NormalizedModel(c.provider, c.model)
    /\ e.dims = (IF c.dims > 0 THEN c.dims ELSE 64)
    /\ e.admission = (IF c.admission = "" THEN "report-only"
                      ELSE NormalizedAdmission(c.admission))

\* What each setting works as depends on its line, and the model on the provider.
LEMMA EffectiveSettings == ASSUME NEW c, Shape(c) PROVE Works(Effective(c), c)
<1> DEFINE d == Parse(c)
           e == Effective(c)
<1>1. e = [d EXCEPT !.dims = IF d.dims = NoLine THEN 64 ELSE d.dims]
  BY DEF Effective
<1>2. Parsed(d, c)
  BY ParsedShape
<1> HIDE DEF d, e
<1>3. e = [provider |-> d.provider, model |-> d.model,
           dims |-> IF d.dims = NoLine THEN 64 ELSE d.dims, admission |-> d.admission]
  BY <1>1, <1>2 DEF Parsed, Shape
<1>4. /\ DOMAIN e = {"provider", "model", "dims", "admission"}
      /\ e.provider = d.provider /\ e.model = d.model /\ e.admission = d.admission
      /\ e.dims = IF d.dims = NoLine THEN 64 ELSE d.dims
  BY <1>3
<1>5. c.dims \in Int
  BY DEF Shape
<1>6. e.dims = (IF c.dims > 0 THEN c.dims ELSE 64)
  <2>1. d.dims = (IF c.dims = NoLine THEN 64 ELSE IF c.dims > 0 THEN c.dims ELSE NoLine)
    BY <1>2 DEF Parsed
  <2>2. e.dims = IF d.dims = NoLine THEN 64 ELSE d.dims
    BY <1>4
  <2>3. QED
    BY <1>5, <2>1, <2>2 DEF NoLine
<1>7. QED
  BY <1>2, <1>4, <1>6 DEF Works, Parsed, e

\* A model is normalized once.
LEMMA ModelOnce ==
  ASSUME NEW provider, NEW model
  PROVE  NormalizedModel(provider, NormalizedModel(provider, model))
            = NormalizedModel(provider, model)
<1>1. DOMAIN ModelSpecs = {"openai", "ollama"}
  BY DEF ModelSpecs
<1>2. /\ DefaultModel["openai"] = "text-embedding-3-small"
      /\ DefaultModel["ollama"] = "nomic-embed-text"
  BY DEF DefaultModel
<1>3. QED
  BY <1>1, <1>2 DEF NormalizedModel

\* config set changes what its setting does, and nothing else.
LEMMA OneSetting ==
  ASSUME NEW c, Shape(c), NEW key \in {"provider", "model", "dims", "admission"}, NEW value,
         key = "dims" => value \in Int
  PROVE  Changed(Effective(c), Effective(SetConfigValue(Parse(c), key, value))) \subseteq {key}
<1> DEFINE d == Parse(c)
           new == SetConfigValue(d, key, value)
           before == Effective(c)
           after == Effective(new)
<1>1. Parsed(d, c) /\ Shape(d) /\ c.dims \in Int
  BY ParsedShape DEF Parsed, Shape
<1> HIDE DEF d
<1>2. Assigned(new, d, key) /\ Shape(new)
  BY <1>1, SetShape DEF Assigned
<1> HIDE DEF new
<1>3. Works(before, c) /\ Works(after, new)
  BY <1>2, EffectiveSettings
<1> HIDE DEF before, after
<1>4. key # "provider" => after.provider = before.provider
  BY <1>1, <1>2, <1>3 DEF Works, Assigned, Parsed
<1>5. key # "model" /\ after.provider = before.provider => after.model = before.model
  <2>1. /\ after.model = NormalizedModel(after.provider, new.model)
        /\ before.model = NormalizedModel(before.provider, c.model)
        /\ d.model = NormalizedModel(before.provider, c.model)
        /\ key # "model" => new.model = d.model
    BY <1>1, <1>2, <1>3 DEF Works, Assigned, Parsed
  <2>2. NormalizedModel(before.provider, d.model) = d.model
    BY <2>1, ModelOnce
  <2>3. QED
    BY <2>1, <2>2
<1>6. key # "dims" => after.dims = before.dims
  <2>1. /\ after.dims = (IF new.dims > 0 THEN new.dims ELSE 64)
        /\ before.dims = (IF c.dims > 0 THEN c.dims ELSE 64)
        /\ d.dims = (IF c.dims = NoLine THEN 64 ELSE IF c.dims > 0 THEN c.dims ELSE NoLine)
        /\ key # "dims" => new.dims = d.dims
    BY <1>1, <1>2, <1>3 DEF Works, Assigned, Parsed
  <2>2. QED
    BY <1>1, <2>1 DEF NoLine
<1>7. key # "admission" => after.admission = before.admission
  <2>1. /\ after.admission = (IF new.admission = "" THEN "report-only"
                              ELSE NormalizedAdmission(new.admission))
        /\ before.admission = d.admission
        /\ d.admission = (IF c.admission = "" THEN "report-only"
                          ELSE NormalizedAdmission(c.admission))
        /\ key # "admission" => new.admission = d.admission
    BY <1>1, <1>2, <1>3 DEF Works, Assigned, Parsed
  <2>2. QED
    BY <2>1 DEF NormalizedAdmission
<1>8. Changed(before, after) \subseteq {key}
  <2>1. /\ DOMAIN before = {"provider", "model", "dims", "admission"}
        /\ key \in {"provider", "model", "dims", "admission"}
    BY <1>3 DEF Works
  <2>2. QED
    BY <1>4, <1>5, <1>6, <1>7, <2>1 DEF Changed
<1>9. QED
  BY <1>8 DEF d, new, before, after

\* The configuration an init has written stays, and the store is opened under it.
LEMMA ConfigInductive == SetupInv /\ [Next]_vars => ConfigInv'
<1> SUFFICES ASSUME SetupInv, [Next]_vars PROVE ConfigInv'
  OBVIOUS
<1>1. CASE /\ UNCHANGED <<config, configured, store>>
           /\ run'.pc = "index" => run.pc = "index"
  BY <1>1, OthersStay DEF SetupInv, ConfigInv
<1>2. CASE InitStep
  <2>1. CASE WriteRagitConfig
    <3>1. /\ config' = DefaultConfig /\ configured' = (IF configured = "yes" THEN "yes" ELSE "written")
          /\ UNCHANGED <<git, store>> /\ run'.pc # "index"
      BY <2>1 DEF WriteRagitConfig, RunGoto, SetupInv, RunInv
    <3>2. QED
      BY <3>1, Defaults DEF SetupInv, ConfigInv
  <2>2. CASE BootstrapStore
    <3>1. UNCHANGED <<config, configured, git>> /\ run.pc = "store"
      BY <2>2 DEF BootstrapStore, InitSteps, counters
    <3>2. git
      BY <3>1 DEF SetupInv, RunInv
    <3>3. CASE store \in {NoStore, Contract(DefaultConfig)}
      <4>1. store' = Contract(DefaultConfig)
        BY <2>2, <3>3 DEF BootstrapStore
      <4>2. QED
        BY <3>1, <3>2, <4>1 DEF SetupInv, ConfigInv
    <3>4. CASE store \notin {NoStore, Contract(DefaultConfig)}
      <4>1. store' = store /\ run'.pc # "index"
        BY <2>2, <3>4 DEF BootstrapStore, Idle
      <4>2. QED
        BY <3>1, <4>1 DEF SetupInv, ConfigInv
    <3>5. QED
      BY <3>3, <3>4
  <2>3. CASE FinishInit
    <3>1. /\ UNCHANGED <<config, git, store>> /\ run.pc = "index" /\ run'.pc # "index"
          /\ configured' = (IF configured = "written" THEN "yes" ELSE configured)
      BY <2>3 DEF FinishInit, Idle
    <3>2. QED
      BY <3>1 DEF SetupInv, ConfigInv
  <2>4. CASE ChooseGitIgnorePolicy \/ WriteDraft \/ EnsureGitIgnoreEntries
             \/ EnsureAgentsInstruction
    <3>1. UNCHANGED <<config, configured, store>> /\ run'.pc # "index"
      BY <2>4 DEF ChooseGitIgnorePolicy, WriteDraft, EnsureGitIgnoreEntries,
                  EnsureAgentsInstruction, RunGoto, InitSteps, counters, SetupInv, RunInv
    <3>2. QED
      BY <1>1, <3>1
  <2>5. QED
    BY <1>2, <2>1, <2>2, <2>3, <2>4 DEF InitStep
<1>3. CASE \E o \in InitOptions : StartInit(o)
  <2>1. UNCHANGED <<config, configured, store>> /\ run'.pc # "index"
    BY <1>3 DEF StartInit
  <2>2. QED
    BY <1>1, <2>1
<1>4. CASE DocCommand
  <2>1. /\ UNCHANGED <<configured, store, git, run>>
        /\ config' = (IF config = NoConfig THEN DefaultConfig ELSE config)
    BY <1>4 DEF DocCommand, EnsureConfigFile
  <2>2. QED
    BY <2>1, Defaults DEF SetupInv, ConfigInv
<1>5. CASE \E setting \in Settings : ConfigSet(setting[1], setting[2])
  <2>1. PICK setting \in Settings : ConfigSet(setting[1], setting[2])
    BY <1>5
  <2> DEFINE raw == IF config = NoConfig THEN DefaultConfig ELSE config
             new == SetConfigValue(Parse(raw), setting[1], setting[2])
  <2>2. configured' = "no" /\ (config' = raw \/ config' = new)
    BY <2>1 DEF ConfigSet
  <2>3. Shape(raw)
    BY Defaults DEF SetupInv, ConfigInv
  <2> HIDE DEF raw
  <2>4. Shape(new)
    BY <2>3, ParsedShape, SetShape, RepositoryAssumption DEF Parsed, Assigned
  <2> HIDE DEF new
  <2>5. QED
    BY <2>2, <2>3, <2>4 DEF ConfigInv
<1>6. CASE MigrateEmbeddings
  <2>1. /\ UNCHANGED <<config, configured, git, run>> /\ store' = Contract(Parse(config))
    BY <1>6 DEF MigrateEmbeddings
  <2>2. QED
    BY <2>1, Defaults DEF SetupInv, ConfigInv
<1>7. CASE EditConfig
  <2>1. configured' = "no" /\ config' \in HandSettings
    BY <1>7 DEF EditConfig
  <2>2. Shape(config')
    BY <2>1, RepositoryAssumption DEF Shape
  <2>3. QED
    BY <2>1, <2>2 DEF ConfigInv
<1>8. CASE DocProgress \/ EditDocument \/ UNCHANGED vars
  BY <1>1, <1>8 DEF DocProgress, EditDocument, setupVars, counters, vars
<1>9. CASE Stop
  <2>1. UNCHANGED <<config, configured, store>> /\ (UNCHANGED run \/ run'.pc # "index")
    BY <1>9 DEF Stop, Idle
  <2>2. QED
    BY <1>1, <2>1
<1>10. QED
  BY <1>2, <1>3, <1>4, <1>5, <1>6, <1>7, <1>8, <1>9 DEF Next

-----------------------------------------------------------------------------
(* The theorems *)

\* The inductive invariant holds.
THEOREM SetupInvariance == Spec => []SetupInv
<1>1. Init => SetupInv
  <2>1. ASSUME Init PROVE RunInv /\ SettledInv /\ ConfigInv /\ edits \in Nat
    BY <2>1 DEF Init, RunInv, SettledInv, ConfigInv, Idle
  <2>2. QED
    BY <2>1, DocsInitially DEF SetupInv
<1>2. SetupInv /\ [Next]_vars => SetupInv'
  <2> SUFFICES ASSUME SetupInv, [Next]_vars PROVE SetupInv'
    OBVIOUS
  <2>1. edits' \in Nat
    <3>1. edits' = edits \/ edits' = edits + 1
      BY DEF Next, InitStep, WriteDraft, EnsureAgentsInstruction, ChooseGitIgnorePolicy,
             EnsureGitIgnoreEntries, WriteRagitConfig, BootstrapStore, FinishInit, InitSteps,
             DocProgress, DocCommand, StartInit, ConfigSet, MigrateEmbeddings, EditConfig,
             EditDocument, Edit, Command, Stop, counters, vars
    <3>2. QED
      BY <3>1 DEF SetupInv
  <2>2. DocsInv'
    BY DocsInductive DEF SetupInv
  <2>3. QED
    BY <2>1, <2>2, RunInductive, SettledInductive, ConfigInductive DEF SetupInv
<1>3. QED
  BY <1>1, <1>2, PTL DEF Spec

\* DocsConform: whatever was there before, and whoever edits beside it, a document a
\* doc command wrote last breaks no rule of its contract, and another refresh would
\* change nothing in it but put a backslash before a quotation mark inside a scalar.
THEOREM ConformingDocs == Spec => []DocsConform
<1>1. SetupInv => DocsConform
  BY DEF SetupInv, DocsInv, DocsConform, Conforms
<1>2. QED
  BY <1>1, SetupInvariance, PTL

\* InitSettles: the drafts, AGENTS.md and the entries of .gitignore of an init stay as
\* long as nobody edits a document, and doctor does not complain as long as nobody
\* touches the configuration.
THEOREM SettledInits == Spec => []InitSettles
<1>1. SetupInv => InitSettles
  <2> SUFFICES ASSUME SetupInv PROVE InitSettles
    OBVIOUS
  <2>1. \A o \in settled :
           /\ "AGENTS.md" \in DOMAIN docs /\ GitIgnoreEntries(o.tracked) \subseteq gitignore
           /\ ~ overwritten => PlanGapFill(o.options) = <<>>
    BY Plans DEF SetupInv, SettledInv
  <2>2. ASSUME configured = "yes" PROVE Complaints = {}
    <3>1. config = DefaultConfig /\ store = Contract(DefaultConfig) /\ git
      BY <2>2 DEF SetupInv, ConfigInv
    <3>2. Usable
      BY <3>1, Defaults DEF Usable
    <3>3. QED
      BY <3>1, <3>2, Defaults DEF Complaints
  <2>3. QED
    BY <2>1, <2>2 DEF InitSettles
<1>2. QED
  BY <1>1, SetupInvariance, PTL

\* A document that another replaces: a draft, or what a doc command writes.
LEMMA Replaces ==
  ASSUME SetupInv, [Next]_vars, UNCHANGED edits, NEW p \in DOMAIN docs, docs'[p] # docs[p]
  PROVE  \/ run' # run /\ p \notin run.found
         \/ command.pc = "write" /\ p \notin command.found
         \/ command.pc = "rewrite"
               /\ (docs[p] = command.seen => Preserves(p, docs[p], docs'[p]))
<1>1. ASSUME NEW q, NEW doc, Put(q, doc) PROVE p = q /\ docs'[p] = doc
  BY <1>1 DEF Put
<1>2. ~ EditDocument
  BY DEF EditDocument, Edit, SetupInv
<1>3. CASE WriteDraft
  <2>1. /\ run.pc = "draft" /\ run.todo # <<>> /\ Put(Head(run.todo), Draft)
        /\ run' = [run EXCEPT !.todo = Tail(run.todo)]
    BY <1>3 DEF WriteDraft
  <2> DEFINE S == ToSet(Priorities) \ run.found
  <2>2. run.todo \in Seq(S) /\ run'.todo = Tail(run.todo)
    BY <2>1 DEF SetupInv, RunInv
  <2> HIDE DEF S
  <2>3. Head(run.todo) \in S /\ Tail(run.todo) # run.todo
    <3>1. Head(run.todo) \in S /\ IsList(run.todo)
      BY <2>1, <2>2, Rest, ListOf
    <3> DEFINE rest == Tail(run.todo)
    <3>2. Len(rest) = Len(run.todo) - 1 /\ Len(run.todo) \in Nat \ {0}
      BY <2>1, <3>1, ListTail
    <3> HIDE DEF rest
    <3>3. rest # run.todo
      BY <3>2
    <3>4. QED
      BY <3>1, <3>3 DEF rest
  <2>4. p = Head(run.todo)
    BY <1>1, <2>1
  <2>5. QED
    BY <2>2, <2>3, <2>4 DEF S
<1>4. CASE EnsureAgentsInstruction
  BY <1>1, <1>4 DEF EnsureAgentsInstruction
<1>5. CASE DocProgress
  <2>1. CASE WriteDoc
    <3>1. command.pc = "write" /\ command.path \notin command.found
      BY <2>1 DEF WriteDoc, SetupInv, DocsInv
    <3>2. p = command.path
      BY <1>1, <2>1 DEF WriteDoc
    <3>3. QED
      BY <3>1, <3>2
  <2>2. CASE RewriteDoc
    <3> DEFINE type == DetectDocType(command.path, command.seen)
    <3>1. /\ command.pc = "rewrite" /\ Put(command.path, Written(type, command.seen))
          /\ type \in KnownTypes /\ IsDocument(command.seen)
      BY <2>2 DEF RewriteDoc, SetupInv, DocsInv
    <3>2. Preserves(command.path, command.seen, Written(type, command.seen))
      BY <3>1, WrittenPreserves
    <3> HIDE DEF type
    <3>3. p = command.path /\ docs'[p] = Written(type, command.seen)
      BY <1>1, <3>1
    <3>4. QED
      BY <3>1, <3>2, <3>3
  <2>3. CASE CheckPath \/ ReadDoc
    BY <2>3 DEF CheckPath, ReadDoc
  <2>4. QED
    BY <1>5, <2>1, <2>2, <2>3 DEF DocProgress, DocStep
<1>6. CASE DocCommand
  BY <1>6 DEF DocCommand, StartCreate, StartRefresh, Begin
<1>7. CASE \/ \E o \in InitOptions : StartInit(o)
           \/ \E setting \in Settings : ConfigSet(setting[1], setting[2])
           \/ MigrateEmbeddings \/ EditConfig \/ Stop \/ UNCHANGED vars
  BY <1>7 DEF StartInit, ConfigSet, MigrateEmbeddings, EditConfig, Stop, StopDoc, docVars, vars
<1>8. CASE \/ ChooseGitIgnorePolicy \/ EnsureGitIgnoreEntries \/ WriteRagitConfig
           \/ BootstrapStore \/ FinishInit
  BY <1>8 DEF ChooseGitIgnorePolicy, EnsureGitIgnoreEntries, WriteRagitConfig,
              BootstrapStore, FinishInit, InitSteps, docVars
<1>9. QED
  BY <1>2, <1>3, <1>4, <1>5, <1>6, <1>7, <1>8 DEF Next, InitStep

\* A command changes one setting, if any.
LEMMA FewSettings ==
  ASSUME SetupInv, [Next]_vars, config # NoConfig, commands' # commands
  PROVE  Cardinality(Changed(Effective(config), Effective(config'))) <= 1
<1>1. CASE config' = config
  <2>1. Changed(Effective(config), Effective(config')) = {}
    BY <1>1 DEF Changed
  <2>2. QED
    BY <2>1, FS_EmptySet
<1>2. CASE \E setting \in Settings : ConfigSet(setting[1], setting[2])
  <2>1. PICK setting \in Settings : ConfigSet(setting[1], setting[2])
    BY <1>2
  <2> DEFINE key == setting[1]
             changed == Changed(Effective(config), Effective(config'))
  <2>2. config' = config \/ config' = SetConfigValue(Parse(config), key, setting[2])
    BY <2>1 DEF ConfigSet
  <2>3. CASE config' = SetConfigValue(Parse(config), key, setting[2])
    <3>1. changed \subseteq {key}
      <4>1. Shape(config)
        BY DEF SetupInv, ConfigInv
      <4>2. QED
        BY <2>3, <4>1, OneSetting, RepositoryAssumption
    <3> HIDE DEF changed, key
    <3>2. IsFiniteSet({key}) /\ Cardinality({key}) = 1
      BY FS_Singleton
    <3>3. Cardinality(changed) <= 1
      BY <3>1, <3>2, FS_Subset
    <3>4. QED
      BY <3>3 DEF changed
  <2>4. QED
    BY <1>1, <2>2, <2>3
<1>3. CASE DocCommand \/ MigrateEmbeddings \/ \E o \in InitOptions : StartInit(o)
  <2>1. config' = config
    BY <1>3 DEF DocCommand, EnsureConfigFile, MigrateEmbeddings, StartInit
  <2>2. QED
    BY <1>1, <2>1
<1>4. CASE InitStep \/ DocProgress \/ EditDocument \/ EditConfig \/ Stop \/ UNCHANGED vars
  <2>1. commands' = commands
    BY <1>4 DEF InitStep, WriteDraft, EnsureAgentsInstruction, ChooseGitIgnorePolicy,
                EnsureGitIgnoreEntries, WriteRagitConfig, BootstrapStore, FinishInit, InitSteps,
                DocProgress, EditDocument, EditConfig, Edit, Stop, counters, vars
  <2>2. QED
    BY <2>1
<1>5. QED
  BY <1>2, <1>3, <1>4 DEF Next

\* UserChoicesSurvive: no command deletes what a user wrote or chose, and what it
\* replaces it did not find or was asked to refresh.
THEOREM ChoicesSurvive == Spec => UserChoicesSurvive
<1>1. SetupInv /\ [Next]_vars => [KeepsChoices]_vars
  <2> SUFFICES ASSUME SetupInv, [Next]_vars PROVE KeepsChoices
    OBVIOUS
  <2>1. gitignore \subseteq gitignore'
    BY OthersStay
  <2>2. edits' = edits => DOMAIN docs \subseteq DOMAIN docs'
    BY QuietSteps DEF Quiet
  <2>3. ASSUME NEW p \in DOMAIN docs, docs'[p] # docs[p], edits' = edits
        PROVE  \/ run' # run /\ p \notin run.found
               \/ command.pc = "write" /\ p \notin command.found
               \/ command.pc = "rewrite"
                     /\ (docs[p] = command.seen => Preserves(p, docs[p], docs'[p]))
    BY <2>3, Replaces
  <2>4. QED
    BY <2>1, <2>2, <2>3, FewSettings DEF KeepsChoices
<1>2. QED
  BY <1>1, SetupInvariance, PTL DEF Spec, UserChoicesSurvive

=============================================================================
