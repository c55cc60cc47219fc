------------------------------ MODULE NodeHealth -------------------------------
(***************************************************************************)
(* Which nodes new rooms may go to.  An agent's heartbeat makes its node    *)
(* active; the health checker lists the nodes that have been silent for     *)
(* too long and then makes them inactive one by one.  PurchaseRoom asks     *)
(* for nothing but the flag.                                                *)
(*                                                                          *)
(* An agent sends a heartbeat or does not, and one that is lost is one not  *)
(* sent.  Time is counted in ticks; the checker's list is done in the tick  *)
(* in which it was made, though heartbeats come in between.                 *)
(***************************************************************************)
EXTENDS Integers

CONSTANTS
  Nodes,
  StaleAfter,  \* ticks of silence that are too many: 2 minutes
  CheckEvery,  \* ticks between two checks: 60 seconds
  MaxDelays    \* bound: failed queries, failed updates and restarts

ASSUME ConstantsOK ==
  /\ StaleAfter \in Nat /\ MaxDelays \in Nat
  /\ CheckEvery \in Nat \ {0}

VARIABLES
  known,     \* nodes with a row
  active,    \* nodes.is_active
  heard,     \* nodes with a last_heartbeat
  age,       \* age[n]: ticks since last_heartbeat
  timer,     \* ticks that the checker has slept
  stale,     \* what is left of the checker's list
  delays     \* history: failed queries, failed updates and restarts

vars == <<known, active, heard, age, timer, stale, delays>>

\* An age beyond all that matter.
Limit == StaleAfter + CheckEvery * (1 + MaxDelays) + 1

TypeOK ==
  /\ known \subseteq Nodes
  /\ active \subseteq known /\ heard \subseteq known
  /\ age \in [Nodes -> 0 .. Limit]
  /\ timer \in 0 .. CheckEvery
  /\ stale \subseteq heard
  /\ delays \in 0 .. MaxDelays

Init ==
  /\ known = {} /\ active = {} /\ heard = {}
  /\ age = [n \in Nodes |-> 0]
  /\ timer = 0
  /\ stale = {}
  /\ delays = 0

-----------------------------------------------------------------------------

\* A new node is active, by the default of the column, before it is heard of.
AddNode(n) ==
  /\ n \notin known
  /\ known' = known \cup {n}
  /\ active' = active \cup {n}
  /\ UNCHANGED <<heard, age, timer, stale, delays>>

\* Mutant of Heartbeat: the node is not made active again.
HeartbeatKeepsFlag(n) ==
  /\ n \in known
  /\ heard' = heard \cup {n}
  /\ age' = [age EXCEPT ![n] = 0]
  /\ UNCHANGED <<known, active, timer, stale, delays>>

Heartbeat(n) ==
  /\ n \in known
  /\ active' = active \cup {n}
  /\ heard' = heard \cup {n}
  /\ age' = [age EXCEPT ![n] = 0]
  /\ UNCHANGED <<known, timer, stale, delays>>

Silent(n) == n \in heard /\ age[n] > StaleAfter

\* Mutant of List: a node that has never been heard of counts as silent.
ListUnheard ==
  /\ timer = CheckEvery
  /\ timer' = 0
  /\ stale' = {n \in active : n \notin heard \/ Silent(n)}
  /\ UNCHANGED <<known, active, heard, age, delays>>

\* checkNodeHealth: one SELECT for all silent nodes ...
List ==
  /\ timer = CheckEvery
  /\ timer' = 0
  /\ stale' = {n \in active : Silent(n)}
  /\ UNCHANGED <<known, active, heard, age, delays>>

\* A SELECT that fails finds none of them, one that breaks off or cannot read a
\* row finds some: either is logged at most, and the checker goes on.
ListPartly ==
  /\ timer = CheckEvery
  /\ delays < MaxDelays
  /\ timer' = 0
  /\ stale' \in SUBSET {n \in active : Silent(n)}
  /\ \E n \in active \ stale' : Silent(n)
  /\ delays' = delays + 1
  /\ UNCHANGED <<known, active, heard, age>>

\* Mutant of MarkInactive: the mark is not written.
MarkNothing(n) ==
  /\ n \in stale
  /\ stale' = stale \ {n}
  /\ UNCHANGED <<known, active, heard, age, timer, delays>>

\* ... and an UPDATE for each by id, even if it has been heard of since.
MarkInactive(n) ==
  /\ n \in stale
  /\ active' = active \ {n}
  /\ stale' = stale \ {n}
  /\ UNCHANGED <<known, heard, age, timer, delays>>

\* An UPDATE that fails is logged.
MarkFails(n) ==
  /\ n \in stale
  /\ delays < MaxDelays
  /\ stale' = stale \ {n}
  /\ delays' = delays + 1
  /\ UNCHANGED <<known, active, heard, age, timer>>

\* The control plane restarts, and the checker sleeps first.
Restart ==
  /\ delays < MaxDelays
  /\ timer' = 0
  /\ stale' = {}
  /\ delays' = delays + 1
  /\ UNCHANGED <<known, active, heard, age>>

Least(a, b) == IF a < b THEN a ELSE b

\* Time passes while the checker sleeps.
Tick ==
  /\ timer < CheckEvery
  /\ stale = {}
  /\ timer' = timer + 1
  /\ age' = [n \in Nodes |-> IF n \in heard THEN Least(age[n] + 1, Limit) ELSE 0]
  /\ UNCHANGED <<known, active, heard, stale, delays>>

Next ==
  \/ \E n \in Nodes : AddNode(n) \/ Heartbeat(n) \/ MarkInactive(n) \/ MarkFails(n)
  \/ List \/ ListPartly
  \/ Restart
  \/ Tick

Spec == Init /\ [][Next]_vars

\* Time passes, and the checker's goroutine runs.
FairSpec ==
  /\ Spec
  /\ WF_vars(Tick) /\ WF_vars(List)
  /\ \A n \in Nodes : WF_vars(MarkInactive(n))

-----------------------------------------------------------------------------
(* Properties *)

\* A room goes to a node that is alive or has died just now: an active node has
\* been heard of within the time of two checks, plus one for every check that
\* failed or a restart put off (control-plane/README.md:94, health.go:33 and 61,
\* rooms.go:344).  Nodes that have never been heard of are no part of it.
ActiveNodesAreAlive ==
  \A n \in active \cap heard : age[n] <= StaleAfter + CheckEvery * (1 + delays)

\* The checker may overwrite a heartbeat that comes while it works through its
\* list (health.go:61), but not for long: a node that from some time on is never
\* silent for too long ends up active for good.
LiveNodesStay ==
  \A n \in Nodes : <>[](n \in heard /\ ~Silent(n)) => <>[](n \in active)

=============================================================================
