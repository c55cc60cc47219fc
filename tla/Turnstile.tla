------------------------------- MODULE Turnstile -------------------------------
(***************************************************************************)
(* What a room promises about its people, with nothing of how joins are     *)
(* served: they enter one by one, nobody enters a room that is filled to    *)
(* its capacity, and anybody inside may leave.                              *)
(***************************************************************************)
EXTENDS Integers, FiniteSets

CONSTANTS People, Capacity

VARIABLE inside

Init == inside = {}

Enter(p) ==
  /\ p \notin inside
  /\ Cardinality(inside) < Capacity
  /\ inside' = inside \cup {p}

Leave(p) ==
  /\ p \in inside
  /\ inside' = inside \ {p}

Next == \E p \in People : Enter(p) \/ Leave(p)

Spec == Init /\ [][Next]_inside

=============================================================================
