------------------------ MODULE MCIngestTransaction ------------------------
(* Instances of IngestTransaction small enough for TLC.                     *)
EXTENDS IngestTransaction, TLC

CONSTANTS h1, h2, h3, d1, d2, x, y, z

\* One commit: what recovery does to journals, artifacts and the ledger.
OneTree == h1 :> (d1 :> x)
OneParent == h1 :> None
OneAncestors == h1 :> {h1}

\* Two commits: a document that changes from one commit to the next.
LineTree == h1 :> (d1 :> x) @@ h2 :> (d1 :> y)
LineParent == h1 :> None @@ h2 :> h1
LineAncestors == h1 :> {h1} @@ h2 :> {h1, h2}

\* Lineage: one branch changes d1 and deletes d2, the other makes d2 unsupported.
ForkTree == h1 :> (d1 :> x @@ d2 :> x) @@ h2 :> (d1 :> y) @@ h3 :> (d1 :> x @@ d2 :> z)
ForkParent == h1 :> None @@ h2 :> h1 @@ h3 :> h1
ForkAncestors == h1 :> {h1} @@ h2 :> {h1, h2} @@ h3 :> {h1, h3}

\* Transactions are interchangeable until one is used.
Symmetry == Permutations(Txns)
=============================================================================
