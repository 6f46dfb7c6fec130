---------------------------- MODULE MCMediaPath ----------------------------
(* The instance of MediaPath for TLC.                                      *)
EXTENDS MediaPath
=============================================================================
