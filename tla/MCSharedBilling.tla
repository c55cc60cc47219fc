--------------------------- MODULE MCSharedBilling ----------------------------
(* Small instances of SharedBilling; the liveness run allows no symmetry.      *)
EXTENDS SharedBilling

\* The bound on ages is no excuse: a session grows old enough to cost more than
\* there is.
ASSUME AgesSuffice == Expected(MaxAge) > InitialBalance

=============================================================================
