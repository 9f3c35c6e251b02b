------------------------ MODULE MCIdempotentUpload ------------------------
(***************************************************************************)
(* Instances of IdempotentUpload for TLC.                                  *)
(***************************************************************************)
EXTENDS IdempotentUploadRefinement, TLC

Symmetry == Permutations(Requests)

\* Spec without the late faults, which upload_safety leaves out: where Faults
\* has neither "commit_unacked" nor "complete", it is Spec.
GuardedNext ==
  \/ \E r \in Requests :
       Arrive(r) \/ GuardedStep(r) \/ StorageStep(r) \/ Crash(r)
  \/ \E k \in Keys : Expire(k)
  \/ AllServed

GuardedSpec == Init /\ [][GuardedNext]_vars
=============================================================================
