---------------------------- MODULE MCValidateRun ----------------------------
(* A small instance of ValidateRun for TLC.                                *)
EXTENDS ValidateRun_proofs, TLC

MCSeverities == {"Info", "Warning", "custom"}
=============================================================================
