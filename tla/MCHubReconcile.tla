---------------------------- MODULE MCHubReconcile ----------------------------
(* Small instances of HubReconcile; some properties are temporal, so no        *)
(* symmetry is declared.                                                       *)
EXTENDS HubReconcile

=============================================================================
