---------------------------- MODULE StoreReaders ----------------------------
(***************************************************************************)
(* The commands that read the store of StoreLifecycle.tla.  None of them   *)
(* takes the lock, so that a query goes on between the steps of a writer:  *)
(* it selects a snapshot (src/core/snapshot.ts), then opens the store, or  *)
(* for the MCP server (src/mcp/server.ts) a copy of it, and looks for the  *)
(* chunks of that snapshot (retrieval.ts).  status and doctor              *)
(* (src/commands/bootstrap.ts) are what they report when nothing else goes *)
(* on meanwhile.                                                           *)
(*                                                                         *)
(* HEAD moves whenever it likes, so that each reading of it may find any   *)
(* commit, one of Heads or one outside (None), which no ingest has met.    *)
(* A store that is open keeps what it held when it was opened, and a       *)
(* collection is copied as it is at one moment.                            *)
(***************************************************************************)
EXTENDS StoreLifecycle

CONSTANT MaxReadFaults  \* bound: faults before and during a query

ASSUME ReadBoundAssumption == MaxReadFaults \in Nat

VARIABLE reader  \* the query that goes on

allVars == <<vars, reader>>

\* head and attempt are those of selectSnapshot, attempt 0 for a query --at;
\* selected is the manifest, missing what the answer lacks without a reason.
Reader == [step : {"idle", "context", "manifest", "recheck", "meta", "open", "copy",
                   "copy-chunks", "copy-meta", "answered"},
           attempt : 0..2, head : Heads \cup {None},
           selected : (SUBSET Records) \cup {None}, missing : SUBSET Records]
NoReader == [step |-> "idle", attempt |-> 0, head |-> None, selected |-> None, missing |-> {}]

\* Why the store may lack a chunk of a manifest: it was given up, no manifest
\* of now refers to it, or an interrupted swap has left it in the backup.
Stranded == IF pc \in SwapPcs THEN {} ELSE Held(previous)
Excused  == forgone \cup (Records \ ManifestUnion) \cup Stranded

-----------------------------------------------------------------------------
(* selectSnapshot *)

Fail == reader' = NoReader  \* an error, or for recall an answer without snapshot

\* The command line opens the store itself, a tool of the MCP server a copy.
Openings == {"meta", "copy"}
Select(manifest) ==
    \E step \in Openings : reader' = [NoReader EXCEPT !.step = step, !.selected = manifest]

\* A commit that is named is looked up once.
SelectAt(h) ==
    /\ reader.step = "idle" /\ faults <= MaxReadFaults
    /\ reader' = [NoReader EXCEPT !.step = "manifest", !.head = h]

SelectHead ==
    /\ reader.step = "idle" /\ faults <= MaxReadFaults
    /\ reader' = [NoReader EXCEPT !.step = "context", !.attempt = 1]

\* resolveRepositoryContext.
ReadContext(h) ==
    /\ reader.step = "context"
    /\ reader' = [reader EXCEPT !.step = "manifest", !.head = h]

\* loadExactSnapshot.  With --at the error is thrown at once.
LoadManifest ==
    LET found == IF reader.head = None THEN None ELSE manifests[reader.head]
    IN  /\ reader.step = "manifest"
        /\ CASE reader.attempt # 0 ->
                  reader' = [reader EXCEPT !.step = "recheck", !.selected = found]
             [] reader.attempt = 0 /\ found = None -> Fail
             [] OTHER -> Select(found)

\* HEAD is read once more: if it has moved, the selection is repeated once.
RecheckHead(h) ==
    /\ reader.step = "recheck"
    /\ CASE h # reader.head /\ reader.attempt = 1 ->
              reader' = [NoReader EXCEPT !.step = "context", !.attempt = 2]
         [] h = reader.head /\ reader.selected # None -> Select(reader.selected)
         [] OTHER -> Fail

-----------------------------------------------------------------------------
(* openStoreForRetrieval *)

Lacking == (reader.selected \ Held(store)) \ Excused
Goto(step) == reader' = [reader EXCEPT !.step = step]
Finish(missing) == reader' = [NoReader EXCEPT !.step = "answered", !.missing = missing]
HasCollections == store.state \in {"partial", "whole"}

\* openCanonicalStoreAtPath, read-only: first the meta file, which may have another
\* contract than the configuration had when it was read.
ReadMeta ==
    /\ reader.step = "meta"
    /\ \/ store.state = "whole" /\ Goto("open")
       \/ Fail

OpenOrCreate == \* mutant: the store is opened for writing, and made if it is missing
    reader.step = "open" /\ Finish(Lacking)

\* The collections, which may by now be those of another store.
OpenCollections ==
    /\ reader.step = "open"
    /\ IF HasCollections THEN Finish(Lacking) ELSE Fail

\* cp takes the meta file and the collections in any order, each of the store that
\* is there at that moment; what has gone ends it.
CopyMetaFirst ==
    /\ reader.step = "copy"
    /\ IF store.state = "whole" THEN Goto("copy-chunks") ELSE Fail

CopyChunksFirst ==
    /\ reader.step = "copy"
    /\ IF HasCollections
       THEN reader' = [NoReader EXCEPT !.step = "copy-meta", !.missing = Lacking]
       ELSE Fail

CopyChunks ==
    /\ reader.step = "copy-chunks"
    /\ IF HasCollections THEN Finish(Lacking) ELSE Fail

CopyMeta ==
    /\ reader.step = "copy-meta"
    /\ IF store.state = "whole" THEN Finish(reader.missing) ELSE Fail

\* The hits are returned; a copy is removed.
Answer == reader.step = "answered" /\ reader' = NoReader

-----------------------------------------------------------------------------
Query ==
    \/ \E h \in Heads : SelectAt(h)
    \/ SelectHead
    \/ \E h \in Heads \cup {None} : ReadContext(h) \/ RecheckHead(h)
    \/ LoadManifest \/ ReadMeta \/ OpenCollections
    \/ CopyMetaFirst \/ CopyChunksFirst \/ CopyChunks \/ CopyMeta \/ Answer

ReadersInit == Init /\ reader = NoReader
ReadersNext == \/ /\ Next /\ UNCHANGED reader
                  /\ reader.step # "idle" => faults' <= MaxReadFaults
               \/ Query /\ UNCHANGED vars
ReadersSpec == ReadersInit /\ [][ReadersNext]_allVars

-----------------------------------------------------------------------------
(* status and doctor *)

\* runStatus: whether the snapshot of HEAD is searchReady.  The store counts as
\* loaded if it opens under the configured contract.
StoreLoaded == store.state = "whole" /\ store.contract = config
SnapshotStatus(h) ==
    CASE manifests[h] = None -> "missing"
      [] manifests[h] # None /\ StoreLoaded -> "indexed"
      [] OTHER -> "store-unavailable"
SearchReady(h) == SnapshotStatus(h) = "indexed"

\* runDoctor, the checks that depend on the state here.  The store is opened
\* under its own contract, and one without a meta file misses no chunk.
ContractCheck     == store.state = "whole" => store.contract = config
RuntimeCheck      == store.state = "whole"
CountsAgree == \* mutant: the store is compared by the number of its chunks
    store.state = "whole" => Cardinality(store.records) = Cardinality(ManifestUnion)
ConsistencyCheck  == store.state = "whole" => ManifestUnion \subseteq store.records

-----------------------------------------------------------------------------
\* The state has its type.
ReadersTypeOK == TypeOK /\ reader \in Reader

\* A query that got an answer has searched every chunk of the snapshot it
\* selected, whatever ingest, rebuild, migration or purge did in between,
\* except for chunks with a reason to be missing.
AnswersAreComplete == reader.step = "answered" => reader.missing = {}

\* Neither doctor nor status complains of the store while nothing has failed: when
\* no command runs, the store opens and has the chunks of every manifest, and only
\* another contract in the configuration makes an indexed commit unready.
NoFalseAlarm ==
    faults = 0 /\ pc = "idle" =>
      \A h \in Indexed : RuntimeCheck /\ ConsistencyCheck /\ (SearchReady(h) <=> ContractCheck)
=============================================================================
