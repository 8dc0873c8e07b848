-------------------------- MODULE RepositorySetup --------------------------
(***************************************************************************)
(* init, config set and migrate embeddings: what a repository gets before  *)
(* anything is ingested (src/commands/init.ts, src/core/init, project.ts,  *)
(* config.ts), beside the commands of DocAuthority and a user who writes   *)
(* documents.                                                              *)
(*                                                                         *)
(* An interactive init plans its drafts, then waits for its user to choose *)
(* the gitignore policy, then writes.  Of the configuration there are the  *)
(* settings that decide about the store and the admission; the version of  *)
(* an embedding goes with its dimensions.  --dry-run writes nothing.       *)
(***************************************************************************)
EXTENDS DocAuthority, Integers

CONSTANTS Repositories,  \* [git, code, builds, packages, docs] before ragit
          PathRoles,     \* rolesFromPath: the slots a path fills
          InitOptions,   \* [mode, strategy, mergeExisting, interactive, gitInit]
          Settings,      \* config set: <<key, value>>
          HandSettings,  \* configurations a user may write by hand
          MaxEdits, MaxCommands, MaxStops  \* bounds

VARIABLES repository, git,
          gitignore,   \* the entries of .gitignore
          config,      \* config.toml, NoConfig if there is none
          store,       \* the embedding contract of the store, NoStore if there is none
          run,         \* the init that runs
          edits, commands, stops,
          settled,     \* history: the inits that planned and finished since the last
                       \* edit of a document
          configured   \* history: whether an init has "written" the configuration, or
                       \* has finished with it, and nobody has touched it since

setupVars == <<repository, git, gitignore, config, store, run>>
counters == <<edits, commands, stops, settled, configured>>

\* What a user has before ragit, and what there is to set.
ASSUME RepositoryAssumption ==
    /\ \A r \in Repositories :
          /\ IsFiniteSet(DOMAIN r.docs)
          /\ \A p \in DOMAIN r.docs : IsDocument(r.docs[p]) /\ r.docs[p].by = "user"
    /\ \A setting \in Settings :
          /\ setting[1] \in {"provider", "model", "dims", "admission"}
          /\ setting[1] = "dims" => setting[2] \in Int
    /\ HandSettings \subseteq [provider : STRING, model : STRING, dims : Int, admission : STRING]

vars == <<docVars, setupVars, counters>>

NoConfig == [provider |-> "none"]
NoStore == [provider |-> "none"]
NoLine == -1  \* config.toml has no line for the dimensions, or they are undefined

-----------------------------------------------------------------------------
(* The configuration *)

DefaultConfig == [provider |-> "local-placeholder", model |-> "placeholder-v1",
                  dims |-> 64, admission |-> "enforce"]
DefaultModel == [openai |-> "text-embedding-3-small", ollama |-> "nomic-embed-text"]
ModelSpecs ==
    [openai |-> [m \in {"text-embedding-3-small", "text-embedding-3-large"} |->
                    IF m = "text-embedding-3-small" THEN 1536 ELSE 3072],
     ollama |-> [m \in {"nomic-embed-text", "mxbai-embed-large"} |->
                    IF m = "nomic-embed-text" THEN 768 ELSE 1024]]
Providers == {"local-placeholder"} \cup DOMAIN ModelSpecs

\* parseToml: a line that is missing has its default, but for the admission mode;
\* dimensions that are not positive become undefined, and stringifyToml leaves out
\* what is undefined.
Loads(raw) == raw.provider \in Providers
NormalizedModel(provider, model) ==
    IF provider \in DOMAIN ModelSpecs /\ model \in {"", "placeholder-v1"}
    THEN DefaultModel[provider] ELSE IF model = "" THEN "placeholder-v1" ELSE model
NormalizedAdmission(value) == IF value = "report-only" THEN value ELSE "enforce"
Parse(raw) ==
    [provider |-> raw.provider, model |-> NormalizedModel(raw.provider, raw.model),
     dims |-> IF raw.dims = NoLine THEN DefaultConfig.dims
              ELSE IF raw.dims > 0 THEN raw.dims ELSE NoLine,
     admission |-> IF raw.admission = "" THEN "report-only"
                   ELSE NormalizedAdmission(raw.admission)]

\* setConfigValue: a number may replace a number, whatever it is.
Accepts(c, key, value) ==
    /\ key = "provider" => value \in Providers
    /\ key = "dims" => c.dims # NoLine \/ value > 0
SetConfigValue(c, key, value) ==
    CASE key = "provider"  -> [c EXCEPT !.provider = value]
      [] key = "model"     -> [c EXCEPT !.model = value]
      [] key = "dims"      -> [c EXCEPT !.dims = value]
      [] key = "admission" -> [c EXCEPT !.admission = NormalizedAdmission(value)]

\* resolveEmbeddingProfile, toEmbeddingContract.
Supported(c) == c.provider # "local-placeholder" => c.model \in DOMAIN ModelSpecs[c.provider]
Contract(c) ==
    [provider |-> c.provider,
     dims |-> IF c.provider # "local-placeholder" THEN ModelSpecs[c.provider][c.model]
              ELSE IF c.dims = NoLine THEN 64 ELSE c.dims]
Usable == config # NoConfig /\ Loads(config) /\ Supported(Parse(config))

\* Every doc command and config set write the defaults if there is no configuration.
EnsureConfigFile == config' = IF config = NoConfig THEN DefaultConfig ELSE config

-----------------------------------------------------------------------------
(* What init finds, and what it plans *)

Monorepo == \/ repository.packages
            \/ repository.builds \cap {"pnpm-workspace.yaml", "turbo.json", "nx.json", "lerna.json"} # {}
DetectRepositoryMode ==
    LET n == Cardinality(DOMAIN docs)
        most == (3 * repository.code) \div 4
    IN  CASE Monorepo -> "monorepo"
          [] ~Monorepo /\ repository.code = 0 /\ n <= 1 /\ Cardinality(repository.builds) <= 1 -> "empty"
          [] OTHER -> IF n >= 8 /\ n >= most THEN "docs-heavy" ELSE "existing"

TypeRoles == [prd |-> {"product"}, adr |-> {"decisions"}, ddd |-> {"architecture", "glossary"},
              glossary |-> {"glossary"}, spec |-> {"architecture"}, srs |-> {"architecture"},
              plan |-> {}, pbd |-> {}, unknown |-> {}]
Filled == UNION {PathRoles[p] \cup TypeRoles[DetectDocType(p, docs[p])] : p \in DOMAIN docs}
Signal(sufficient, partial) ==
    IF sufficient THEN "sufficient" ELSE IF partial THEN "partial" ELSE "missing"
CensusDocumentation ==
    [projectOverview       |-> Signal("project" \in Filled, docs # <<>>),
     localDevelopmentGuide |-> Signal("rules" \in Filled, "project" \in Filled),
     architectureRationale |-> Signal("architecture" \in Filled, "decisions" \in Filled),
     decisionRecords       |-> Signal("decisions" \in Filled, "architecture" \in Filled),
     packageOwnershipMap   |-> Signal("workspace" \in Filled, Monorepo),
     ingestionPolicy       |-> Signal("ingestion-policy" \in Filled, "package.json" \in repository.builds)]

Priorities == <<"RAGIT.md", "docs/workspace-map.md", "docs/ragit/ingestion-policy.md",
                "docs/known-gaps.md", "docs/adr/README.md">>
Wanted(path, mode, strategy, coverage) ==
    LET lacks(signal) == coverage[signal] # "sufficient"
    IN  CASE path = "RAGIT.md" -> TRUE
          [] path = "docs/workspace-map.md" ->
                strategy = "full" \/ mode \in {"empty", "monorepo"} \/ lacks("packageOwnershipMap")
          [] path = "docs/ragit/ingestion-policy.md" ->
                strategy = "minimal" \/ lacks("ingestionPolicy") \/ mode = "empty"
          [] path = "docs/known-gaps.md" ->
                strategy = "full" \/ \E signal \in DOMAIN coverage : lacks(signal)
          [] path = "docs/adr/README.md" ->
                strategy = "full" \/ mode = "empty" \/ lacks("decisionRecords")

\* What an init with these options wants a repository to have.
Wants(o, path) ==
    LET mode == IF o.mode = "auto" THEN DetectRepositoryMode ELSE o.mode
    IN  Wanted(path, mode, o.strategy, CensusDocumentation)
\* mutant: existing documents are only spared by --merge-existing.
PlanOverExisting(o) ==
    Kept(Priorities, {p \in ToSet(Priorities) : /\ ~(o.mergeExisting /\ p \in DOMAIN docs)
                                                /\ Wants(o, p)})
\* The drafts to create.
PlanGapFill(o) ==
    Kept(Priorities, {p \in ToSet(Priorities) : p \notin DOMAIN docs /\ Wants(o, p)})

Draft == [type |-> Unknown, heading |-> Unknown, h1 |-> TRUE, sections |-> {},
          topology |-> FALSE, list |-> FALSE, quotes |-> 0, by |-> "init"]

\* The runtime state is ignored under every policy; one of the two questions stands
\* for both.
Policies == SUBSET {".ragit/manifest/"}
GitIgnoreEntries(tracked) == {".ragit/store/", ".ragit/manifest/"} \ tracked

-----------------------------------------------------------------------------
(* init, one action per file it writes *)

InitSteps == UNCHANGED <<docVars, repository, git, counters>>
Command == commands < MaxCommands /\ commands' = commands + 1 /\ UNCHANGED <<edits, stops>>
RunGoto(pc) == run' = [run EXCEPT !.pc = pc]

\* ensureGitContext to planGapFill; without a git repository an init that may not
\* create one fails.
StartInit(o) ==
    /\ Command /\ run.pc = "idle"
    /\ git \/ o.gitInit \/ o.interactive
    /\ git' = TRUE
    /\ run' = [pc |-> "choose", options |-> o, tracked |-> {}, found |-> DOMAIN docs,
               todo |-> PlanGapFill(o), edits |-> edits]
    /\ UNCHANGED <<docVars, repository, gitignore, config, store, settled, configured>>
ChooseGitIgnorePolicy ==
    /\ run.pc = "choose"
    /\ \E tracked \in IF run.options.interactive THEN Policies ELSE {{}} :
          run' = [run EXCEPT !.pc = "draft", !.tracked = tracked]
    /\ InitSteps /\ UNCHANGED <<gitignore, config, store>>
WriteDraft ==
    /\ run.pc = "draft" /\ run.todo # <<>>
    /\ Put(Head(run.todo), Draft)
    /\ overwritten' = (overwritten \/ Head(run.todo) \in DOMAIN docs)
    /\ run' = [run EXCEPT !.todo = Tail(@)]
    /\ UNCHANGED <<command, repository, git, gitignore, config, store, counters>>
\* mutant: the missing entries are written over the file.
WriteMissingEntries ==
    /\ run.pc = "draft" /\ run.todo = <<>>
    /\ LET entries == GitIgnoreEntries(run.tracked)
       IN  gitignore' = IF entries \subseteq gitignore THEN gitignore ELSE entries \ gitignore
    /\ RunGoto("config")
    /\ InitSteps /\ UNCHANGED <<config, store>>
EnsureGitIgnoreEntries ==
    /\ run.pc = "draft" /\ run.todo = <<>>
    /\ gitignore' = gitignore \cup GitIgnoreEntries(run.tracked)
    /\ RunGoto("config")
    /\ InitSteps /\ UNCHANGED <<config, store>>
WriteRagitConfig ==
    /\ run.pc = "config"
    /\ config' = DefaultConfig
    /\ configured' = IF configured = "yes" THEN "yes" ELSE "written"
    /\ RunGoto("agents")
    /\ UNCHANGED <<docVars, repository, git, gitignore, store, edits, commands, stops, settled>>
EnsureAgentsInstruction ==
    /\ run.pc = "agents"
    /\ IF "AGENTS.md" \in DOMAIN docs THEN UNCHANGED docs ELSE Put("AGENTS.md", Draft)
    /\ RunGoto("store")
    /\ UNCHANGED <<command, overwritten, repository, git, gitignore, config, store, counters>>
\* A store with another contract than that of the configuration does not open.
BootstrapStore ==
    /\ run.pc = "store"
    /\ store' = IF store = NoStore THEN Contract(DefaultConfig) ELSE store
    /\ IF store \in {NoStore, Contract(DefaultConfig)} THEN RunGoto("index")
                                                       ELSE run' = Idle
    /\ InitSteps /\ UNCHANGED <<gitignore, config>>
FinishInit ==
    /\ run.pc = "index"
    /\ run' = Idle
    /\ settled' = settled \cup {o \in {[options |-> run.options, tracked |-> run.tracked]} :
                                   run.edits = edits}
    /\ configured' = IF configured = "written" THEN "yes" ELSE configured
    /\ UNCHANGED <<docVars, repository, git, gitignore, config, store,
                   edits, commands, stops>>

InitStep == ChooseGitIgnorePolicy \/ WriteDraft \/ EnsureGitIgnoreEntries \/ WriteRagitConfig
            \/ EnsureAgentsInstruction \/ BootstrapStore \/ FinishInit

-----------------------------------------------------------------------------
(* The other commands *)

DocCommand ==
    /\ Command /\ (config = NoConfig \/ Loads(config))
    /\ \/ \E input \in CreateInputs : StartCreate(input)
       \/ \E input \in RefreshInputs : StartRefresh(input)
    /\ EnsureConfigFile
    /\ UNCHANGED <<repository, git, gitignore, store, run, settled, configured>>
DocProgress == DocStep /\ UNCHANGED <<setupVars, counters>>

ConfigSet(key, value) ==
    /\ Command
    /\ LET raw == IF config = NoConfig THEN DefaultConfig ELSE config
       IN  config' = IF Loads(raw) /\ Accepts(Parse(raw), key, value)
                     THEN SetConfigValue(Parse(raw), key, value) ELSE raw
    /\ configured' = "no"
    /\ UNCHANGED <<docVars, repository, git, gitignore, store, run, settled>>

\* StoreLifecycle has its steps.
MigrateEmbeddings ==
    /\ Command /\ Usable /\ store # NoStore
    /\ store' = Contract(Parse(config))
    /\ UNCHANGED <<docVars, repository, git, gitignore, config, run, settled, configured>>

-----------------------------------------------------------------------------
(* The user, and crashes *)

Edit == edits < MaxEdits /\ edits' = edits + 1 /\ UNCHANGED <<commands, stops>>
EditDocument ==
    /\ Edit /\ (\E p \in Paths : EditDoc(p) \/ DeleteDoc(p))
    /\ settled' = {}
    /\ UNCHANGED <<setupVars, configured>>
EditConfig ==
    /\ Edit /\ config' \in HandSettings
    /\ configured' = "no"
    /\ UNCHANGED <<docVars, repository, git, gitignore, store, run, settled>>

Stop ==
    /\ stops < MaxStops /\ stops' = stops + 1
    /\ \/ StopDoc /\ UNCHANGED run
       \/ run.pc # "idle" /\ run' = Idle /\ UNCHANGED docVars
    /\ UNCHANGED <<repository, git, gitignore, config, store, edits, commands, settled,
                   configured>>

Init ==
    /\ repository \in Repositories /\ git = repository.git
    /\ docs = repository.docs /\ command = Idle /\ overwritten = FALSE
    /\ gitignore = {"node_modules/"}
    /\ config = NoConfig /\ store = NoStore
    /\ run = Idle
    /\ edits = 0 /\ commands = 0 /\ stops = 0
    /\ settled = {} /\ configured = "no"

Next ==
    \/ \E o \in InitOptions : StartInit(o)
    \/ InitStep
    \/ DocCommand \/ DocProgress
    \/ \E setting \in Settings : ConfigSet(setting[1], setting[2])
    \/ MigrateEmbeddings
    \/ EditDocument \/ EditConfig
    \/ Stop

Spec == Init /\ [][Next]_vars

-----------------------------------------------------------------------------
(* Properties *)

\* The checks of doctor that depend on the configuration and the store.
Complaints ==
    {c \in {"git.repository"} : ~git}
    \cup {c \in {"ragit.config"} : ~Usable}
    \cup {c \in {"embedding.deprecated-fields"} : Usable /\ config.provider # "local-placeholder"}
    \cup {c \in {"embedding.contract"} :
             Usable /\ store # NoStore /\ store # Contract(Parse(config))}
    \cup {c \in {"zvec.runtime"} : store = NoStore}
    \cup {c \in {"security.admission-mode"} : Usable /\ Parse(config).admission # "enforce"}

\* After an init, as long as nobody edits a document, AGENTS.md and its entries of
\* .gitignore are there and the same init would create nothing, whichever other inits
\* and doc commands run or stop beside it, unless one of them has written over what
\* it had not read; and as long as nobody touches the configuration, doctor does not
\* complain about it.
InitSettles ==
    /\ \A o \in settled :
          /\ "AGENTS.md" \in DOMAIN docs /\ GitIgnoreEntries(o.tracked) \subseteq gitignore
          /\ ~overwritten => PlanGapFill(o.options) = <<>>
    /\ configured = "yes" => Complaints = {}

Effective(raw) == LET c == Parse(raw) IN [c EXCEPT !.dims = IF @ = NoLine THEN 64 ELSE @]
Changed(old, new) ==
    {k \in DOMAIN old : new[k] # old[k]}
        \ (IF new.provider # old.provider THEN {"model"} ELSE {})
Preserves(p, old, new) ==
    /\ DetectDocType(p, new) = DetectDocType(p, old)
    /\ old.sections \subseteq new.sections /\ (old.h1 => new.heading = old.heading)

\* No command deletes a document or a line of .gitignore; one replaces a document only
\* if it was not there when the command looked, or to refresh it, and then the type,
\* the title and the sections stay. config set changes at most one setting that has an
\* effect, and the model besides it only with the provider.
KeepsChoices ==
    /\ gitignore \subseteq gitignore'
    /\ edits' = edits => DOMAIN docs \subseteq DOMAIN docs'
    /\ \A p \in DOMAIN docs \cap DOMAIN docs' : docs'[p] # docs[p] =>
          \/ edits' # edits
          \/ run' # run /\ p \notin run.found
          \/ command.pc = "write" /\ p \notin command.found
          \/ command.pc = "rewrite"
                /\ (docs[p] = command.seen => Preserves(p, docs[p], docs'[p]))
    /\ config # NoConfig /\ Loads(config) /\ commands' # commands =>
          Cardinality(Changed(Effective(config), Effective(config'))) <= 1
UserChoicesSurvive == [][KeepsChoices]_vars
=============================================================================
