----------------------------- MODULE MCAdmission ------------------------------
(* Small instances of Admission; the runs check temporal properties, so there *)
(* is no symmetry.                                                            *)
EXTENDS Admission

=============================================================================
