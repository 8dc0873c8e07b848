------------------------ MODULE SnapshotPublication ------------------------
(***************************************************************************)
(* What ingest promises to the readers of a repository's knowledge: a      *)
(* snapshot of a commit appears, or is replaced, in one step and whole;    *)
(* it holds everything the ingest that published it wrote, and otherwise   *)
(* only what was published before; and an ingest is announced in the event *)
(* ledger at most once, while its snapshot holds everything it wrote.      *)
(* Nothing is said of journals, of the store or of recovery.               *)
(***************************************************************************)
EXTENDS Naturals

CONSTANTS
    Heads,    \* commits
    Txns,     \* ingests
    Versions, \* versions of documents and chunks
    None

VARIABLES
    snapshots, \* for each commit, what a reader finds, or None
    work,      \* for each ingest, the commit and the records it set out to write
    announced  \* ingest.completed events per ingest

vars == <<snapshots, work, announced>>

Work == [head : Heads, docs : SUBSET Versions, chunks : SUBSET Versions]

\* Everything some published snapshot holds.
Published == [docs   |-> UNION {snapshots[h].docs : h \in {g \in Heads : snapshots[g] # None}},
              chunks |-> UNION {snapshots[h].chunks : h \in {g \in Heads : snapshots[g] # None}}]

Holds(snapshot, w) ==
    /\ snapshot # None
    /\ w.docs \subseteq snapshot.docs
    /\ w.chunks \subseteq snapshot.chunks

Init ==
    /\ snapshots = [h \in Heads |-> None]
    /\ work = [t \in Txns |-> None]
    /\ announced = [t \in Txns |-> 0]

\* An ingest sets out; no reader sees a difference.
Begin(t) ==
    /\ work[t] = None
    /\ work'[t] \in Work
    /\ work' = [work EXCEPT ![t] = work'[t]]
    /\ UNCHANGED <<snapshots, announced>>

\* The snapshot of the ingest's commit becomes one that holds its work, and
\* beside it records that were published before.
Publish(t) ==
    /\ work[t] # None
    /\ LET h   == work[t].head
           new == snapshots'[h]
       IN  /\ snapshots' = [snapshots EXCEPT ![h] = new]
           /\ Holds(new, work[t])
           /\ new.docs \subseteq Published.docs \cup work[t].docs
           /\ new.chunks \subseteq Published.chunks \cup work[t].chunks
    /\ UNCHANGED <<work, announced>>

Announce(t) ==
    /\ work[t] # None
    /\ announced[t] = 0
    /\ Holds(snapshots[work[t].head], work[t])
    /\ announced' = [announced EXCEPT ![t] = 1]
    /\ UNCHANGED <<snapshots, work>>

Next == \E t \in Txns : Begin(t) \/ Publish(t) \/ Announce(t)

Spec == Init /\ [][Next]_vars
=============================================================================
