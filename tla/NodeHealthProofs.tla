--------------------------- MODULE NodeHealthProofs ---------------------------
(***************************************************************************)
(* How long a silent node may stay active, for any number of nodes, any     *)
(* periods and any number of failures.                                      *)
(***************************************************************************)
EXTENDS NodeHealth, TLAPS

\* The age that an active node may have just after a check, when d checks in
\* all have failed or been put off.
Bound(d) == StaleAfter + CheckEvery * d

\* Between two checks an age grows with the checker's timer; what is on the
\* checker's list has waited a whole period more, and time waits for the list.
Inv ==
  /\ TypeOK
  /\ stale # {} => timer = 0
  /\ \A n \in (active \cap heard) \ stale : age[n] <= Bound(delays) + timer
  /\ \A n \in stale \cap active : age[n] <= Bound(delays) + CheckEvery

-----------------------------------------------------------------------------

LEMMA BoundFacts ==
  ASSUME NEW d \in Nat
  PROVE  /\ Bound(d) \in Nat /\ StaleAfter <= Bound(d)
         /\ Bound(d + 1) = Bound(d) + CheckEvery
         /\ Bound(d) + CheckEvery = StaleAfter + CheckEvery * (1 + d)
<1>1. CheckEvery * d \in Nat /\ CheckEvery * (d + 1) = CheckEvery * d + CheckEvery
  BY ConstantsOK
<1>2. QED
  BY <1>1, ConstantsOK DEF Bound

LEMMA LimitIsNat == Limit \in Nat
<1>1. CheckEvery * (1 + MaxDelays) \in Nat
  BY ConstantsOK
<1>2. QED
  BY <1>1, ConstantsOK DEF Limit

LEMMA Numbers ==
  ASSUME TypeOK
  PROVE  /\ StaleAfter \in Nat /\ CheckEvery \in Nat \ {0}
         /\ timer \in Nat /\ timer <= CheckEvery /\ delays \in Nat
         /\ Bound(delays) \in Nat /\ StaleAfter <= Bound(delays)
         /\ Bound(delays + 1) = Bound(delays) + CheckEvery
         /\ Bound(delays) + CheckEvery = StaleAfter + CheckEvery * (1 + delays)
<1>1. delays \in Nat /\ timer \in Nat /\ timer <= CheckEvery
  BY ConstantsOK DEF TypeOK
<1>2. QED
  BY <1>1, BoundFacts, ConstantsOK

LEMMA InitInv == Init => Inv
  BY ConstantsOK, LimitIsNat DEF Init, Inv, TypeOK

LEMMA AddNodeInv ==
  ASSUME Inv, NEW n \in Nodes, AddNode(n)
  PROVE  Inv'
<1>1. n \notin heard /\ n \notin stale
  BY DEF Inv, TypeOK, AddNode
<1>2. TypeOK'
  BY DEF Inv, TypeOK, AddNode
<1>3. QED
  BY <1>1, <1>2 DEF Inv, AddNode, Bound

LEMMA HeartbeatInv ==
  ASSUME Inv, NEW n \in Nodes, Heartbeat(n)
  PROVE  Inv'
<1>1. TypeOK'
  BY LimitIsNat DEF Inv, TypeOK, Heartbeat
<1>2. Bound(delays) \in Nat /\ timer \in Nat /\ CheckEvery \in Nat
  BY Numbers DEF Inv
<1>3. age'[n] = 0 /\ \A m \in Nodes \ {n} : age'[m] = age[m]
  BY DEF Inv, TypeOK, Heartbeat
<1>4. ASSUME NEW m \in (active' \cap heard') \ stale'
      PROVE  age'[m] <= Bound(delays) + timer
  BY <1>1, <1>2, <1>3, <1>4 DEF Inv, TypeOK, Heartbeat
<1>5. ASSUME NEW m \in stale' \cap active'
      PROVE  age'[m] <= Bound(delays) + CheckEvery
  BY <1>1, <1>2, <1>3, <1>5 DEF Inv, TypeOK, Heartbeat
<1>6. QED
  BY <1>1, <1>4, <1>5 DEF Inv, Heartbeat, Bound

LEMMA ListInv ==
  ASSUME Inv, List
  PROVE  Inv'
<1>1. TypeOK'
  BY ConstantsOK DEF Inv, TypeOK, List, Silent
<1>2. /\ Bound(delays) \in Nat /\ StaleAfter <= Bound(delays)
      /\ CheckEvery \in Nat \ {0} /\ StaleAfter \in Nat
  BY Numbers DEF Inv
<1>3. stale = {}
  BY <1>2 DEF Inv, List
<1>4. \A m \in active \cap heard : age[m] \in Int /\ age[m] <= Bound(delays) + CheckEvery
  BY <1>3 DEF Inv, TypeOK, List
<1>5. \A m \in (active' \cap heard') \ stale' : age'[m] <= Bound(delays) + timer'
  BY <1>2, <1>4 DEF List, Silent
<1>6. \A m \in stale' \cap active' : age'[m] <= Bound(delays) + CheckEvery
  BY <1>4 DEF List, Silent
<1>7. QED
  BY <1>1, <1>5, <1>6 DEF Inv, List, Bound

LEMMA MarkInv ==
  ASSUME Inv, NEW n \in Nodes, MarkInactive(n)
  PROVE  Inv'
<1>1. TypeOK'
  BY DEF Inv, TypeOK, MarkInactive
<1>2. QED
  BY <1>1 DEF Inv, MarkInactive, Bound

\* A failure raises the bound by a period, as much as an entry of the list is
\* late, and starts a new one.
LEMMA PutOff ==
  ASSUME Inv, delays < MaxDelays, delays' = delays + 1,
         UNCHANGED <<known, active, heard, age>>,
         stale' \subseteq heard, timer' = 0
  PROVE  Inv'
<1>1. TypeOK'
  BY ConstantsOK DEF Inv, TypeOK
<1>2. /\ Bound(delays) \in Nat /\ Bound(delays') = Bound(delays) + CheckEvery
      /\ CheckEvery \in Nat /\ timer \in Nat /\ timer <= CheckEvery
  BY Numbers DEF Inv
<1>3. \A m \in active \cap heard : age[m] \in Int /\ age[m] <= Bound(delays')
  BY <1>2 DEF Inv, TypeOK
<1>4. \A m \in (active' \cap heard') \ stale' : age'[m] <= Bound(delays') + timer'
  BY <1>2, <1>3
<1>5. \A m \in stale' \cap active' : age'[m] <= Bound(delays') + CheckEvery
  BY <1>1, <1>2, <1>3 DEF TypeOK
<1>6. QED
  BY <1>1, <1>4, <1>5 DEF Inv, Bound

LEMMA TickInv ==
  ASSUME Inv, Tick
  PROVE  Inv'
<1>1. TypeOK'
  BY LimitIsNat, ConstantsOK DEF Inv, TypeOK, Tick, Least
<1>2. Bound(delays) \in Nat /\ timer \in Nat
  BY Numbers DEF Inv
<1>3. ASSUME NEW m \in (active \cap heard) \ stale
      PROVE  age'[m] <= Bound(delays) + (timer + 1)
  <2>1. m \in Nodes /\ m \in heard /\ age[m] \in Int /\ age[m] <= Bound(delays) + timer
    BY <1>3 DEF Inv, TypeOK
  <2>2. age'[m] <= age[m] + 1
    BY <2>1, LimitIsNat DEF Tick, Least
  <2>3. age'[m] \in Int
    BY <1>1, <2>1 DEF TypeOK
  <2>4. QED
    BY <1>2, <2>1, <2>2, <2>3
<1>4. QED
  BY <1>1, <1>3 DEF Inv, Tick, Bound

LEMMA NextInv == Inv /\ [Next]_vars => Inv'
<1> SUFFICES ASSUME Inv, [Next]_vars
             PROVE  Inv'
  OBVIOUS
<1>1. ASSUME NEW n \in Nodes, MarkFails(n)
      PROVE  Inv'
  <2>1. timer' = 0
    BY <1>1 DEF MarkFails, Inv
  <2>2. stale' \subseteq heard
    BY <1>1 DEF MarkFails, Inv, TypeOK
  <2>3. QED
    BY <1>1, <2>1, <2>2, PutOff DEF MarkFails
<1>2. CASE Restart \/ ListPartly
  <2>1. stale' \subseteq heard
    BY <1>2 DEF Restart, ListPartly, Silent
  <2>2. QED
    BY <1>2, <2>1, PutOff DEF Restart, ListPartly
<1>3. CASE UNCHANGED vars
  BY <1>3 DEF Inv, TypeOK, vars, Bound
<1>4. QED
  BY <1>1, <1>2, <1>3, AddNodeInv, HeartbeatInv, MarkInv, ListInv, TickInv DEF Next

-----------------------------------------------------------------------------

\* The rows, the flags and the checker's list stay consistent, for any nodes,
\* periods and failures.
THEOREM TypeCorrect == Spec => []TypeOK
<1>1. Inv => TypeOK
  BY DEF Inv
<1>2. QED
  BY <1>1, InitInv, NextInv, PTL DEF Spec

\* However heartbeats, checks, failed queries and updates and restarts interleave, an
\* active node that has ever been heard of has been heard of within the stale
\* period, one check and one more for every failure.
THEOREM SilentNodesGo == Spec => []ActiveNodesAreAlive
<1>1. Inv => ActiveNodesAreAlive
  <2> SUFFICES ASSUME Inv, NEW n \in active \cap heard
               PROVE  age[n] <= StaleAfter + CheckEvery * (1 + delays)
    BY DEF ActiveNodesAreAlive
  <2>1. /\ Bound(delays) \in Nat
        /\ Bound(delays) + CheckEvery = StaleAfter + CheckEvery * (1 + delays)
        /\ CheckEvery \in Nat /\ timer \in Nat /\ timer <= CheckEvery
    BY Numbers DEF Inv
  <2>2. age[n] \in Int /\ age[n] <= Bound(delays) + CheckEvery
    BY <2>1 DEF Inv, TypeOK
  <2>3. QED
    BY <2>1, <2>2
<1>2. QED
  BY <1>1, InitInv, NextInv, PTL DEF Spec

=============================================================================
