---------------------------- MODULE MCMembership ------------------------------
(* Small instances of Membership.  Users are interchangeable, and so are       *)
(* requests: the site administrator, who may always act, is somebody else.     *)
EXTENDS Membership, TLC

Symmetry == Permutations(Users) \cup Permutations(Requests)

=============================================================================
