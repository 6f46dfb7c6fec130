-------------------------- MODULE MCMediaPipeline --------------------------
(* Instances of MediaPipeline for TLC.                                     *)
EXTENDS MediaPipeline, TLC

Symmetry == Permutations(Workers)

=============================================================================
