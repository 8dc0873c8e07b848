----------------------------- MODULE EmbedTexts -----------------------------
(***************************************************************************)
(* embedTexts (src/core/embedding.ts): the texts of a call are looked up   *)
(* in a cache on disk, shared with the calls of the same process that have *)
(* asked for them already, or sent to a provider in batches, with retries. *)
(*                                                                         *)
(* Calls of one process interleave at every await and nowhere else: turn   *)
(* names the call whose synchronous code is running.  File operations and  *)
(* the calls of other processes, which share the cache and nothing else,   *)
(* go on meanwhile.  writeFile truncates the file first, so that others    *)
(* may read a torn one.  All calls have one profile: it is part of every   *)
(* key, and calls with different profiles share nothing.  A vector is      *)
(* represented by the key it is the embedding of.                          *)
(***************************************************************************)
EXTENDS Naturals, SequencesExt

CONSTANTS
    Calls,     \* invocations of embedTexts
    Procs,     \* processes of ragit: commands, the MCP server
    Keys,      \* cache keys
    Size,      \* the bytes of the text behind a key
    MaxItems,  \* policy.batch
    MaxBytes,
    Retries,   \* policy.retry.retryAttempts
    Workloads, \* what the calls of a behaviour may ask for
    Stored,    \* the sets of keys that may be cached when it begins
    MaxFaults, \* bound: failed file writes and exits of processes
    None

\* Two texts that differ in their line ends only have one key.
Request == [process : Procs, texts : Seq(Keys), deny : BOOLEAN,
            mode : {"readwrite", "readonly", "disabled"}]

ASSUME EmbedAssumption ==
    /\ Workloads \subseteq [Calls -> Request]
    /\ Stored \subseteq SUBSET Keys /\ \A kept \in Stored : IsFiniteSet(kept)
    /\ Size \in [Keys -> Nat] /\ MaxItems \in Nat \ {0} /\ MaxBytes \in Nat
    /\ Retries \in Nat /\ MaxFaults \in Nat
    /\ None \notin Calls \cup Keys
    /\ Keys \cap {"pending", "error"} = {}

VARIABLES
    request,  \* the arguments of each call
    stage,    \* where each call is
    turn,     \* per process: the call whose synchronous code runs, or None
    inflight, \* per process, inflightEmbeddings: the call that promised a key
    promise,  \* per call: the state of its deferred for each key
    at,       \* the text the call is looking up
    hit,      \* what loadCacheEntry returned for it
    denied,   \* calls with a miss they may not send to a provider
    pending,  \* pendingRequests: the key, its indices, the call that promised it
    fresh,    \* freshRequests: the keys of those it promised itself
    results,
    batch,    \* batches taken so far
    offset,   \* fresh requests taken so far
    current,  \* the keys of the batch being worked on
    attempt,
    vectors,  \* the answer to it
    item,     \* the request being settled, written or awaited
    entry,    \* the files of the cache: "missing", "torn" or "whole"
    manifest, \* the entryCount of namespace.json, or None: missing or torn
    counted,  \* the entryCount a writer has read
    existed,  \* whether it found the entry it writes
    queued,   \* cache touches nobody waits for: not begun ...
    opened,   \* ... and begun
    faults

lookup == <<at, hit, denied, pending, fresh, results>>
batching == <<batch, offset, current, attempt, vectors>>
shared == <<inflight, promise>>
writing == <<counted, existed>>
touches == <<queued, opened>>
disk == <<entry, manifest>>
vars == <<request, stage, turn, shared, lookup, batching, item,
          disk, writing, touches, faults>>

Ended == {"done", "failed", "dead"}
Alive(c) == stage[c] \notin Ended \cup {"new"}
Process(c) == request[c].process
Texts(c) == request[c].texts
Here(c) == Texts(c)[at[c]]
Cached(c) == request[c].mode # "disabled"
Present == {k \in Keys : entry[k] # "missing"}

Init ==
    /\ request \in Workloads
    /\ stage = [c \in Calls |-> "new"]
    /\ turn = [p \in Procs |-> None]
    /\ inflight = [p \in Procs |-> [k \in Keys |-> None]]
    /\ promise = [c \in Calls |-> [k \in Keys |-> None]]
    /\ at = [c \in Calls |-> 1]
    /\ hit = [c \in Calls |-> FALSE]
    /\ denied = {}
    /\ pending = [c \in Calls |-> <<>>]
    /\ fresh = [c \in Calls |-> <<>>]
    /\ results = [c \in Calls |-> [i \in DOMAIN Texts(c) |-> None]]
    /\ batch = [c \in Calls |-> 0]
    /\ offset = [c \in Calls |-> 0]
    /\ current = [c \in Calls |-> <<>>]
    /\ attempt = [c \in Calls |-> 0]
    /\ vectors = [c \in Calls |-> <<>>]
    /\ item = [c \in Calls |-> 1]
    /\ \E kept \in Stored :
        /\ entry = [k \in Keys |-> IF k \in kept THEN "whole" ELSE "missing"]
        /\ manifest = IF kept = {} THEN None ELSE Cardinality(kept)
    /\ counted = [c \in Calls |-> 0]
    /\ existed = [c \in Calls |-> FALSE]
    /\ queued = {} /\ opened = {}
    /\ faults = 0

Set(f, c, v) == [f EXCEPT ![c] = v]

\* A synchronous stretch of call c that begins at one of its stages.
On(c, from) ==
    /\ stage[c] = from
    /\ turn[Process(c)] \in {None, c}
\* It goes on without an await, or comes to one.
Continue(c, to) == stage' = Set(stage, c, to) /\ turn' = Set(turn, Process(c), c)
Await(c, to) == stage' = Set(stage, c, to) /\ turn' = Set(turn, Process(c), None)
\* A file operation ends; the call resumes when its turn comes.
Io(c, from, to) == stage[c] = from /\ stage' = Set(stage, c, to) /\ UNCHANGED turn

Start(c) ==
    /\ On(c, "new")
    /\ Await(c, IF Texts(c) = <<>> THEN "done" ELSE "lookup")
    /\ UNCHANGED <<request, shared, lookup, batching, item, disk, writing, touches, faults>>

-----------------------------------------------------------------------------
(* The loop over the texts. *)

Repeats(c) == {j \in DOMAIN pending[c] : pending[c][j].key = Here(c)}

JoinOwnRequest(c) ==
    /\ On(c, "lookup") /\ at[c] \in DOMAIN Texts(c)
    /\ \E j \in Repeats(c) :
          pending' = [pending EXCEPT ![c][j].indices = @ \cup {at[c]}]
    /\ at' = [at EXCEPT ![c] = @ + 1]
    /\ Continue(c, "lookup")
    /\ UNCHANGED <<request, shared, hit, denied, fresh, results, batching, item,
                   disk, writing, touches, faults>>

LookUp(c) ==
    /\ On(c, "lookup") /\ at[c] \in DOMAIN Texts(c)
    /\ Repeats(c) = {}
    /\ hit' = Set(hit, c, FALSE)
    /\ IF Cached(c) THEN Await(c, "read") ELSE Continue(c, "decide")
    /\ UNCHANGED <<request, shared, at, denied, pending, fresh, results, batching, item,
                   disk, writing, touches, faults>>

\* A missing, torn or foreign file is a miss.
LoadCacheEntry(c) ==
    /\ Io(c, "read", "decide")
    /\ hit' = Set(hit, c, entry[Here(c)] = "whole")
    /\ UNCHANGED <<request, shared, at, denied, pending, fresh, results, batching, item,
                   disk, writing, touches, faults>>

Promised(c) == inflight[Process(c)][Here(c)]
NextText(c) == at' = [at EXCEPT ![c] = @ + 1] /\ Continue(c, "lookup")
Push(c, owner) ==
    /\ pending' = [pending EXCEPT ![c] =
          Append(@, [key |-> Here(c), indices |-> {at[c]}, owner |-> owner])]
    /\ fresh' = IF owner = c THEN [fresh EXCEPT ![c] = Append(@, Here(c))] ELSE fresh

TakeHit(c) ==
    /\ On(c, "decide") /\ hit[c]
    /\ results' = [results EXCEPT ![c][at[c]] = Here(c)]
    /\ queued' = IF request[c].mode = "readwrite" THEN queued \cup {<<c, at[c]>>} ELSE queued
    /\ NextText(c)
    /\ UNCHANGED <<request, shared, hit, denied, pending, fresh, batching, item,
                   disk, writing, opened, faults>>

Deny(c) ==
    /\ On(c, "decide") /\ ~ hit[c] /\ request[c].deny
    /\ denied' = denied \cup {c}
    /\ NextText(c)
    /\ UNCHANGED <<request, shared, hit, pending, fresh, results, batching, item,
                   disk, writing, touches, faults>>

JoinBeforeDeny(c) == \* mutant: the map is looked at before providerOnCacheMiss
    /\ On(c, "decide") /\ ~ hit[c]
    /\ Promised(c) # None
    /\ Push(c, Promised(c))
    /\ NextText(c)
    /\ UNCHANGED <<request, shared, hit, denied, results, batching, item,
                   disk, writing, touches, faults>>

JoinInflight(c) ==
    /\ On(c, "decide") /\ ~ hit[c] /\ ~ request[c].deny
    /\ Promised(c) # None
    /\ Push(c, Promised(c))
    /\ NextText(c)
    /\ UNCHANGED <<request, shared, hit, denied, results, batching, item,
                   disk, writing, touches, faults>>

Promise(c) ==
    /\ On(c, "decide") /\ ~ hit[c] /\ ~ request[c].deny
    /\ Promised(c) = None
    /\ inflight' = [inflight EXCEPT ![Process(c)][Here(c)] = c]
    /\ promise' = [promise EXCEPT ![c][Here(c)] = "pending"]
    /\ Push(c, c)
    /\ NextText(c)
    /\ UNCHANGED <<request, hit, denied, results, batching, item,
                   disk, writing, touches, faults>>

EndLookup(c) ==
    /\ On(c, "lookup") /\ at[c] \notin DOMAIN Texts(c)
    /\ IF c \in denied THEN Await(c, "failed") ELSE Continue(c, "batch")
    /\ UNCHANGED <<request, shared, lookup, batching, item, disk, writing, touches, faults>>

-----------------------------------------------------------------------------
(* The batches. *)

\* One text more: the open batch is closed before it if it is full, and after
\* it if the text alone is too large.
NoBatch == [closed |-> <<>>, open |-> <<>>, bytes |-> 0]
Close(split) == [closed |-> Append(split.closed, split.open), open |-> <<>>, bytes |-> 0]
AddToBatch(split, k) ==
    LET full == \/ Len(split.open) >= MaxItems
                \/ split.bytes + Size[k] > MaxBytes
        before == IF split.open # <<>> /\ full THEN Close(split) ELSE split
        after == [closed |-> before.closed, open |-> Append(before.open, k),
                  bytes |-> before.bytes + Size[k]]
    IN  IF Size[k] > MaxBytes THEN Close(after) ELSE after

SplitEmbeddingBatches(keys) ==
    LET split[n \in 0..Len(keys)] ==
            IF n = 0 THEN NoBatch ELSE AddToBatch(split[n - 1], keys[n])
        last == split[Len(keys)]
    IN  IF last.open = <<>> THEN last.closed ELSE Close(last).closed

Batches(c) == SplitEmbeddingBatches(fresh[c])

TakeBatchAfterOthers(c) == \* mutant: the vectors of other calls are awaited first
    /\ On(c, "batch") /\ batch[c] < Len(Batches(c))
    /\ \A j \in DOMAIN pending[c] :
          pending[c][j].owner # c => promise[pending[c][j].owner][pending[c][j].key] # "pending"
    /\ LET n == Len(Batches(c)[batch[c] + 1])
       IN  /\ current' = Set(current, c, SubSeq(fresh[c], offset[c] + 1, offset[c] + n))
           /\ offset' = [offset EXCEPT ![c] = @ + n]
    /\ batch' = [batch EXCEPT ![c] = @ + 1]
    /\ attempt' = Set(attempt, c, 0)
    /\ Await(c, "provider")
    /\ UNCHANGED <<request, shared, lookup, vectors, item, disk, writing, touches, faults>>

TakeBatch(c) ==
    /\ On(c, "batch") /\ batch[c] < Len(Batches(c))
    /\ LET n == Len(Batches(c)[batch[c] + 1])
       IN  /\ current' = Set(current, c, SubSeq(fresh[c], offset[c] + 1, offset[c] + n))
           /\ offset' = [offset EXCEPT ![c] = @ + n]
    /\ batch' = [batch EXCEPT ![c] = @ + 1]
    /\ attempt' = Set(attempt, c, 0)
    /\ Await(c, "provider")
    /\ UNCHANGED <<request, shared, lookup, vectors, item, disk, writing, touches, faults>>

EndBatches(c) ==
    /\ On(c, "batch") /\ batch[c] = Len(Batches(c))
    /\ item' = Set(item, c, 1)
    /\ Await(c, "await")
    /\ UNCHANGED <<request, shared, lookup, batching, disk, writing, touches, faults>>

\* The keys of the batch leave inflightEmbeddings.
Release(c) ==
    inflight' = [inflight EXCEPT ![Process(c)] =
        [k \in Keys |-> IF k \in ToSet(current[c]) THEN None ELSE @[k]]]

RejectOnly(c) == \* mutant: the keys leave the map after a success only
    /\ promise' = [promise EXCEPT ![c] =
          [k \in Keys |-> IF k \in ToSet(current[c]) THEN "error" ELSE @[k]]]
    /\ Continue(c, "batch")
    /\ UNCHANGED inflight

RejectBatch(c) ==
    /\ promise' = [promise EXCEPT ![c] =
          [k \in Keys |-> IF k \in ToSet(current[c]) THEN "error" ELSE @[k]]]
    /\ Release(c)
    /\ Continue(c, "batch")

\* The entries of an OpenAI answer say which input they are for; entry j is for
\* answer[j].  Each input has to be there once.
Complete(answer) == \A i, j \in DOMAIN answer : answer[i] = answer[j] => i = j
InArrivalOrder(c, answer) == \* mutant: the index of an entry is ignored
    [j \in DOMAIN answer |-> current[c][answer[j]]]

ByIndex(c, answer) ==
    [i \in DOMAIN answer |->
        current[c][answer[CHOOSE j \in DOMAIN answer : answer[j] = i]]]

Answer(c) ==
    /\ On(c, "provider")
    /\ \E answer \in [DOMAIN current[c] -> DOMAIN current[c]] :
        \/ /\ Complete(answer)
           /\ vectors' = Set(vectors, c, ByIndex(c, answer))
           /\ item' = Set(item, c, 1)
           /\ Continue(c, "settle")
           /\ UNCHANGED shared
        \/ /\ ~ Complete(answer)
           /\ RejectBatch(c)
           /\ UNCHANGED <<vectors, item>>
    /\ UNCHANGED <<request, lookup, batch, offset, current, attempt,
                   disk, writing, touches, faults>>

\* No credentials, a refused request, vectors of the wrong size.
Refuse(c) ==
    /\ On(c, "provider")
    /\ RejectBatch(c)
    /\ UNCHANGED <<request, lookup, batching, item, disk, writing, touches, faults>>

\* Status 429 or 5xx, no connection, or no answer within timeoutMs.
Unreachable(c) ==
    /\ On(c, "provider")
    /\ IF attempt[c] >= Retries
       THEN RejectBatch(c) /\ UNCHANGED attempt
       ELSE /\ attempt' = [attempt EXCEPT ![c] = @ + 1]
            /\ Await(c, "provider")
            /\ UNCHANGED shared
    /\ UNCHANGED <<request, lookup, batch, offset, current, vectors, item,
                   disk, writing, touches, faults>>

\* deferred.resolve, and writeCacheEntry in the mode that writes.
Settle(c) ==
    /\ On(c, "settle") /\ item[c] \in DOMAIN current[c]
    /\ promise' = [promise EXCEPT ![c][current[c][item[c]]] = vectors[c][item[c]]]
    /\ IF request[c].mode = "readwrite"
       THEN Await(c, "ensure") /\ UNCHANGED item
       ELSE /\ item' = [item EXCEPT ![c] = @ + 1]
            /\ IF Cached(c) THEN Await(c, "settle") ELSE Continue(c, "settle")
    /\ UNCHANGED <<request, inflight, lookup, batching, disk, writing, touches, faults>>

ReleaseBatch(c) ==
    /\ On(c, "settle") /\ item[c] \notin DOMAIN current[c]
    /\ Release(c)
    /\ Continue(c, "batch")
    /\ UNCHANGED <<request, promise, lookup, batching, item, disk, writing, touches, faults>>

-----------------------------------------------------------------------------
(* writeCacheEntry and touchCacheEntry. *)

\* A write that ends after another one of the same file may leave a mixture.
Written(file, new, torn) == IF file = torn THEN {new} ELSE {new, torn}
Item(c) == current[c][item[c]]
NextItem(c, from) == Io(c, from, "settle") /\ item' = [item EXCEPT ![c] = @ + 1]

\* ensureNamespaceManifest
LoadNamespaceManifest(c) ==
    /\ IF manifest # None
       THEN Io(c, "ensure", "check") /\ counted' = Set(counted, c, manifest)
       ELSE Io(c, "ensure", "count") /\ UNCHANGED counted
    /\ UNCHANGED <<request, shared, lookup, batching, item, disk, existed, touches, faults>>

CountExistingEntries(c) ==
    /\ Io(c, "count", "create")
    /\ counted' = Set(counted, c, Cardinality(Present))
    /\ UNCHANGED <<request, shared, lookup, batching, item, disk, existed, touches, faults>>

TruncateManifest(c) ==
    /\ Io(c, "create", "fill") \/ Io(c, "recreate", "refill")
    /\ manifest' = None
    /\ UNCHANGED <<request, shared, lookup, batching, item, entry, writing, touches, faults>>

WriteNewManifest(c) ==
    /\ Io(c, "fill", "check")
    /\ manifest' \in Written(manifest, counted[c], None)
    /\ UNCHANGED <<request, shared, lookup, batching, item, entry, writing, touches, faults>>

CheckEntry(c) ==
    /\ Io(c, "check", "open")
    /\ existed' = Set(existed, c, entry[Item(c)] # "missing")
    /\ UNCHANGED <<request, shared, lookup, batching, item, disk, counted, touches, faults>>

TruncateEntry(c) ==
    /\ Io(c, "open", "write")
    /\ entry' = Set(entry, Item(c), "torn")
    /\ UNCHANGED <<request, shared, lookup, batching, item, manifest, writing, touches, faults>>

WriteEntry(c) ==
    /\ IF existed[c] THEN NextItem(c, "write") ELSE Io(c, "write", "recreate") /\ UNCHANGED item
    /\ \E file \in Written(entry[Item(c)], "whole", "torn") : entry' = Set(entry, Item(c), file)
    /\ UNCHANGED <<request, shared, lookup, batching, manifest, writing, touches, faults>>

RecountManifest(c) == \* mutant: counts the files again and adds its own
    /\ NextItem(c, "refill")
    /\ manifest' \in Written(manifest, Cardinality(Present) + 1, None)
    /\ UNCHANGED <<request, shared, lookup, batching, entry, writing, touches, faults>>

\* entryCount + 1, on what was read before the entry was written.
BumpManifest(c) ==
    /\ NextItem(c, "refill")
    /\ manifest' \in Written(manifest, counted[c] + 1, None)
    /\ UNCHANGED <<request, shared, lookup, batching, entry, writing, touches, faults>>

TouchKey(t) == Texts(t[1])[t[2]]

OpenTouch(t) ==
    /\ t \in queued
    /\ queued' = queued \ {t} /\ opened' = opened \cup {t}
    /\ entry' = Set(entry, TouchKey(t), "torn")
    /\ UNCHANGED <<request, stage, turn, shared, lookup, batching, item, manifest, writing, faults>>

WriteTouch(t) ==
    /\ t \in opened
    /\ opened' = opened \ {t}
    /\ \E file \in Written(entry[TouchKey(t)], "whole", "torn") : entry' = Set(entry, TouchKey(t), file)
    /\ UNCHANGED <<request, stage, turn, shared, lookup, batching, item, manifest, writing,
                   queued, faults>>

\* Cache writes are best-effort: the file stays as it is, and the call goes on.
Writing == {"ensure", "count", "create", "fill", "check", "open", "write", "recreate", "refill"}

CacheWriteFails(c) ==
    /\ faults < MaxFaults /\ faults' = faults + 1
    /\ \E from \in Writing : NextItem(c, from)
    /\ UNCHANGED <<request, shared, lookup, batching, disk, writing, touches>>

-----------------------------------------------------------------------------
(* The results, and the end of a process. *)

Awaited(c) == pending[c][item[c]]
Outcome(c) == promise[Awaited(c).owner][Awaited(c).key]

AwaitRequest(c) ==
    /\ On(c, "await") /\ item[c] \in DOMAIN pending[c]
    /\ Outcome(c) # "pending"
    /\ IF Outcome(c) = "error"
       THEN Await(c, "failed") /\ UNCHANGED <<results, item>>
       ELSE /\ results' = [results EXCEPT ![c] =
                  [i \in DOMAIN @ |-> IF i \in Awaited(c).indices THEN Outcome(c) ELSE @[i]]]
            /\ item' = [item EXCEPT ![c] = @ + 1]
            /\ Await(c, "await")
    /\ UNCHANGED <<request, shared, at, hit, denied, pending, fresh, batching,
                   disk, writing, touches, faults>>

Return(c) ==
    /\ On(c, "await") /\ item[c] \notin DOMAIN pending[c]
    /\ Await(c, IF None \in {results[c][i] : i \in DOMAIN results[c]} THEN "failed" ELSE "done")
    /\ UNCHANGED <<request, shared, lookup, batching, item, disk, writing, touches, faults>>

\* The process ends: its calls and its map are gone, the files stay.
Exit(p) ==
    /\ faults < MaxFaults /\ faults' = faults + 1
    /\ \E c \in Calls : Alive(c) /\ Process(c) = p
    /\ stage' = [c \in Calls |-> IF Alive(c) /\ Process(c) = p THEN "dead" ELSE stage[c]]
    /\ turn' = Set(turn, p, None)
    /\ inflight' = Set(inflight, p, [k \in Keys |-> None])
    /\ queued' = {t \in queued : Process(t[1]) # p}
    /\ opened' = {t \in opened : Process(t[1]) # p}
    /\ UNCHANGED <<request, promise, lookup, batching, item, disk, writing>>

Find(c) == JoinOwnRequest(c) \/ LookUp(c) \/ LoadCacheEntry(c) \/ TakeHit(c) \/ Deny(c)
           \/ JoinInflight(c) \/ Promise(c) \/ EndLookup(c)
Embed(c) == TakeBatch(c) \/ Answer(c) \/ Refuse(c) \/ Unreachable(c) \/ Settle(c)
            \/ ReleaseBatch(c) \/ EndBatches(c)
Write(c) == LoadNamespaceManifest(c) \/ CountExistingEntries(c) \/ TruncateManifest(c)
            \/ WriteNewManifest(c) \/ CheckEntry(c) \/ TruncateEntry(c) \/ WriteEntry(c)
            \/ BumpManifest(c)
Step(c) == Find(c) \/ Embed(c) \/ Write(c) \/ AwaitRequest(c) \/ Return(c)

Next ==
    \/ \E c \in Calls : Start(c) \/ Step(c) \/ CacheWriteFails(c)
    \/ \E t \in queued \cup opened : OpenTouch(t) \/ WriteTouch(t)
    \/ \E p \in Procs : Exit(p)

Spec == Init /\ [][Next]_vars

\* The event loop and the file system go on, and a request ends by its timeout.
FairSpec == Spec /\ \A c \in Calls : WF_vars(Step(c))

-----------------------------------------------------------------------------
\* A call that returns has for each of its texts the vector of that text, through
\* repeated texts, cache hits, vectors of another call, several batches and
\* answers in another order.
VectorsMatchTexts == \A c \in Calls : stage[c] = "done" => results[c] = Texts(c)

\* No key is asked of the provider twice at a time by one process, although each
\* call looks for a cached vector, and waits, before it looks who else asks.
OneRequestPerKey ==
    \A c, d \in Calls :
        /\ c # d /\ Process(c) = Process(d)
        /\ stage[c] = "provider" /\ stage[d] = "provider"
        => ToSet(current[c]) \cap ToSet(current[d]) = {}

\* A call never joins a request that has failed already or that nobody works on:
\* at every await the promises in the map belong to live calls and are open or
\* kept.  One that stayed would fail, or hang, all later calls of a server.
InflightIsLive ==
    \A p \in Procs, k \in Keys :
        LET c == inflight[p][k]
        IN  turn[p] = None /\ c # None => Alive(c) /\ promise[c][k] \in {"pending", k}

\* The map of requests in flight lets calls share a request and never stands in
\* their way.
InflightIsShared == OneRequestPerKey /\ InflightIsLive

\* "A partially cached remote batch fails as a unit": a call that may not reach
\* the provider does not get the vectors of one that may, and asks for none.
DeniedStayLocal ==
    \A c \in Calls : request[c].deny =>
        /\ pending[c] = <<>>
        /\ stage[c] = "done" => None \notin {results[c][i] : i \in DOMAIN Texts(c)}
        /\ \A p \in Procs, k \in Keys : inflight[p][k] # c

\* entryCount, which status and doctor report, is never more than the entries
\* there are, whoever writes at the same time and wherever a process ends.  It can
\* be less: two writers that read the same count lose one.
CountIsLowerBound == manifest # None => manifest <= Cardinality(Present)

\* What was paid for is kept: unless a write fails or a process exits, a key
\* whose vector a writing call received has an entry when the call has ended,
\* also when a later batch of the call failed.
PaidIsCached ==
    \A c \in Calls, k \in Keys :
        /\ faults = 0 /\ request[c].mode = "readwrite"
        /\ stage[c] \in Ended /\ promise[c][k] \in Keys
        => entry[k] # "missing"

\* The cache of a namespace keeps what was paid for, and its manifest does not
\* promise more than it keeps.
CacheIsHonest == PaidIsCached /\ CountIsLowerBound

\* Two calls may wait for each other's texts, and either may fail: every call
\* ends nevertheless.
EveryCallEnds == \A c \in Calls : Alive(c) ~> stage[c] \in Ended
=============================================================================
