------------------------- MODULE MCStorageAdapters -------------------------
(***************************************************************************)
(* Instances of StorageAdapters for TLC.  All operations run in one        *)
(* process: in several, those of sftp would interleave as webdav's do.     *)
(***************************************************************************)
EXTENDS StorageRefinement

CONSTANT p1

OneProcess == [o \in Ops |-> p1]
Symmetry == Permutations(Ops)
=============================================================================
