------------------------- MODULE MCContainerRecords -------------------------
(* Small instances of ContainerRecords; the values are in the cfg files. *)
EXTENDS ContainerRecords, TLC

Symmetry == Permutations(Reqs)
=============================================================================
