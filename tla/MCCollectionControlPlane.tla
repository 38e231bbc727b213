---------------------- MODULE MCCollectionControlPlane ----------------------
(* Small instances of the collection control plane for TLC.                *)
EXTENDS CollectionControlPlane, TLC

CONSTANTS t1, w1, w2

WorkerSymmetry == Permutations(Workers)

=============================================================================
