--------------------------- MODULE MCStoreReaders ---------------------------
(* Instances of StoreReaders small enough for TLC.                          *)
EXTENDS StoreReaders, TLC

\* Only the legacy record differs from the others.
Symmetry == Permutations(Txns) \cup Permutations(Heads) \cup Permutations(Contracts)
=============================================================================
