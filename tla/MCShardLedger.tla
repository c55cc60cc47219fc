---------------------------- MODULE MCShardLedger -----------------------------
(* Small instances of ShardLedger; some properties are temporal, so no         *)
(* symmetry is declared.                                                       *)
EXTENDS ShardLedger

=============================================================================
