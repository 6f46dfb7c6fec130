-------------------------- MODULE MCUploadSession --------------------------
(* Instances of UploadSession for TLC.                                     *)
EXTENDS UploadSession, TLC

Symmetry == Permutations(Requests)

=============================================================================
