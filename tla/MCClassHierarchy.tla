-------------------------- MODULE MCClassHierarchy --------------------------
(* Every hierarchy of a few classes, for TLC.                              *)
EXTENDS ClassHierarchy_proofs, TLC
=============================================================================
