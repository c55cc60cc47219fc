---------------------------- MODULE MCNodeHealth ------------------------------
(* Small instances of NodeHealth.                                              *)
EXTENDS NodeHealth

=============================================================================
