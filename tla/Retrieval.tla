----------------------------- MODULE Retrieval -----------------------------
(***************************************************************************)
(* query, memory search and memory recall (retrieval.ts).                  *)
(*                                                                         *)
(* A document is one chunk. How well a text answers a query is not         *)
(* modelled, so an operator is the set of the answers that are possible,   *)
(* whatever the similarities are, and an answer is a set of hits.          *)
(***************************************************************************)
EXTENDS Repository, ContextPack

CONSTANT TopKs   \* --top-k

Some(k, S) == kSubset(Min({k, Cardinality(S)}), S)

-----------------------------------------------------------------------------
\* The store keeps the documents of every snapshot, under their path.
Stored == UNION {{[path |-> p, version |-> manifests[c].docs[p]] : p \in DOMAIN manifests[c].docs} :
                    c \in Indexed}
VersionsOf(c) ==
    {[path |-> p, version |-> manifests[c].docs[p]] : p \in DOMAIN manifests[c].docs}

\* resolveChunkIdsForScope: how many chunks the manifest lists under a scope, and
\* the documents among them.
ChunksInScope(c, scope) ==
    LET ofScope(s) == {id \in manifests[c].scoped : artifacts[id].scope = s}
        docs == Cardinality(DOMAIN manifests[c].docs)
    IN  CASE scope = "durable" -> docs + Cardinality(manifests[c].held)
          [] scope = "all"     -> docs + Cardinality(manifests[c].held \cup manifests[c].scoped)
          [] OTHER             -> Cardinality(ofScope(scope))
DocumentsInScope(c, scope) == IF scope \in {"durable", "all"} THEN VersionsOf(c) ELSE {}

\* buildSnapshotHits: as many chunks of those paths as the manifest lists (there are
\* fewer than a hundred), then only the versions of the manifest.
DocumentHit(chunk) == [origin |-> "document", id |-> chunk.path, at |-> chunk.version.at,
                       chunk |-> chunk]
SnapshotHits(c, scope) ==
    LET paths == {chunk.path : chunk \in DocumentsInScope(c, scope)}
        found == {chunk \in Stored : chunk.path \in paths}
    IN  {{DocumentHit(chunk) : chunk \in candidates \cap DocumentsInScope(c, scope)} :
            candidates \in Some(ChunksInScope(c, scope), found)}

-----------------------------------------------------------------------------
\* The artifacts a query of a scope adds, as they are now; those of the scope
\* "evidence" are excerpts, and no artifact here has any.
ArtifactHit(id) ==
    LET a == artifacts[id]
    IN  [origin |-> "artifact", id |-> id, at |-> IF a.bound # Null THEN a.bound ELSE a.source,
         chunk |-> Null]
ExplicitCandidates(scope) ==
    {id \in DOMAIN artifacts : /\ artifacts[id].status \in {"reviewed", "promoted"}
                               /\ scope \in {"all", artifacts[id].scope}}

\* loadRecallArtifacts: what was reviewed for the goal, and what the latest session
\* left unreviewed. Of two sessions of one commit either may be the later one.
UnreviewedKinds == {"feedback", "failure", "openLoop"}
Unreviewed == {id \in DOMAIN artifacts : /\ artifacts[id].status = "captured"
                                         /\ artifacts[id].kind \in UnreviewedKinds}
LatestSessions ==
    {artifacts[id].session : id \in {i \in Unreviewed :
        \A j \in Unreviewed : artifacts[j].updatedAt <= artifacts[i].updatedAt}}
ReviewedFor(goal) ==
    {id \in DOMAIN artifacts : artifacts[id].status = "reviewed" /\ artifacts[id].goal = goal}
RecallCandidates(goal) ==
    IF Unreviewed = {} THEN {ReviewedFor(goal)}
    ELSE {ReviewedFor(goal) \cup {id \in Unreviewed : session # Null
                                                      /\ artifacts[id].session = session} :
            session \in LatestSessions}

-----------------------------------------------------------------------------
\* finalizeHits. searchKnowledge fails without its snapshot; recall goes on.
Finalized(hits, topK) == Some(topK, hits)
Answers(ref, scope, topK) ==
    LET added == IF scope = "durable" THEN {} ELSE ExplicitCandidates(scope)
    IN  IF ~Selectable(ref) THEN {}
        ELSE UNION {Finalized(hits \cup {ArtifactHit(id) : id \in added}, topK) :
                      hits \in SnapshotHits(SelectSnapshot(ref), scope)}
RecallAnswers(goal, topK) ==
    LET snapshot == IF Selectable(Null) THEN SnapshotHits(HEAD, "durable") ELSE {{}}
    IN  UNION {Finalized(hits \cup {ArtifactHit(id) : id \in ids}, topK) :
                 hits \in snapshot, ids \in RecallCandidates(goal)}

\* packContext: the chunks and excerpts a pack is made of.
PackTopK == 30
Excerpts(answer) == {h \in PackHits : h.family \in {<<hit.origin, hit.id>> : hit \in answer}}

-----------------------------------------------------------------------------
\* A context pack keeps its budget, cites nothing twice, leaves nothing out that fits,
\* and takes a second hit of a source only when no other source has one that fits
\* ("strict budgets, exact-citation deduplication, and source diversity",
\* docs/release-v2.0.0.md:48), in whatever order the hits of a query come.
PackIsDiverse ==
    \A ref \in Indexed, scope \in {"durable", "all"} :
        \A answer \in Answers(ref, scope, PackTopK) : \A hits \in IllPacked :
            ~(hits \subseteq Excerpts(answer))

\* A query returns as many hits as --top-k allows and the snapshot has ("--top-k <n>:
\* Control how many hits to return", query.mdx:37).
TopKIsHonored ==
    \A ref \in Indexed, topK \in TopKs : \A answer \in Answers(ref, "durable", topK) :
        Cardinality(answer) = Min({topK, Cardinality(VersionsOf(ref))})
=============================================================================
