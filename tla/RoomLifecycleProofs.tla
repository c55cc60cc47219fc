--------------------------- MODULE RoomLifecycleProofs -------------------------
(***************************************************************************)
(* A purged room leaves no row behind, and an extension adds a whole term  *)
(* to what is left, for any number of rooms, users and extensions.         *)
(*                                                                         *)
(* The second holds as long as the extensions of a room that are in their  *)
(* transactions at one time are paid by one user, whose row lock keeps     *)
(* them apart (OnePayer); two payers lose a term, as a run of              *)
(* MCRoomLifecycle shows.                                                  *)
(*                                                                         *)
(* The worker acts on what its query found.  It is right about a room as   *)
(* long as no extension of the room commits in between (ExtensionsWait).   *)
(***************************************************************************)
EXTENDS RoomLifecycle, FiniteSetTheorems, TLAPS

-----------------------------------------------------------------------------
(* What the invariant of extensions says *)

Locked(q) == ext[q].stage = "locked"

\* The extensions of a room that run at one time have one payer.
OnePayer ==
  \A q1, q2 \in Extensions :
    Locked(q1) /\ Locked(q2) /\ ext[q1].room = ext[q2].room => ext[q1].payer = ext[q2].payer

\* An extension under way has a payer and names a room that was created.
ExtensionOK(q) ==
  ext[q].stage # "none" =>
    /\ ext[q].room \in Rooms
    /\ ext[q].payer \in Users
    /\ status[ext[q].room] # "none"

\* What an extension will write is still a whole term after what is left.
TermAhead(q) ==
  LET r == ext[q].room IN
  Locked(q) /\ Exists(r) /\ left[r] # NoExpiry /\ left[r] >= 0 =>
    ext[q].until # NoExpiry /\ ext[q].until >= left[r] + Term

PayersApart ==
  \A q1, q2 \in Extensions :
    Locked(q1) /\ Locked(q2) /\ ext[q1].payer = ext[q2].payer => q1 = q2

PaidInv ==
  /\ \A q \in Extensions : ExtensionOK(q) /\ TermAhead(q)
  /\ PayersApart


USE ConstantsOK

LEMMA TimeTypes ==
  ASSUME NEW t \in Times
  PROVE  NewExpiry(t) \in Times /\ Nearer(t) \in Times
  BY DEF Times, NewExpiry, Nearer, Passed

LEMMA Ages ==
  ASSUME NEW age \in 0..PurgeAfter + 1
  PROVE  Older(age) \in 0..PurgeAfter + 1
  BY DEF Older

-----------------------------------------------------------------------------
(* Types *)

Visits == [stage : {"none", "joining", "leaving"}, room : Rooms \cup {NoRoom}]
Requests == [stage : {"none", "checked", "locked"}, room : Rooms \cup {NoRoom},
             payer : Users \cup {NoUser}, until : Times]
Cycles == [phase : {"sleep", "empty", "expired", "purge"}, todo : SUBSET Rooms,
           cur : Rooms \cup {NoRoom}, calls : Nat]

PeopleOK ==
  /\ members \in [Rooms -> SUBSET Users]
  /\ owners \in [Rooms -> SUBSET Users]
  /\ favorites \in [Rooms -> SUBSET Users]

RoomsOK ==
  /\ status \in [Rooms -> {"none", "active", "inactive", "deleted"}]
  /\ idle \in [Rooms -> 0..PurgeAfter + 1]
  /\ left \in [Rooms -> Times]

Parts ==
  /\ RoomsOK /\ PeopleOK
  /\ visit \in [Users -> Visits]
  /\ ext \in [Extensions -> Requests]
  /\ worker \in Cycles

LEMMA TypeParts == (TypeOK <=> Parts) /\ (TypeOK' <=> Parts')
  BY DEF TypeOK, RoomsOK, PeopleOK, Visits, Requests, Cycles, Parts

LEMMA InitTypes == Init => TypeOK
  BY DEF Init, TypeOK, Times, NoVisit, NoExtension, Asleep

LEMMA RoomTypes ==
  ASSUME TypeOK,
         \/ \E r \in Rooms, expiry \in Expiries \cup {NoExpiry} : CreateRoom(r, expiry)
         \/ \E r \in Rooms, u \in Users :
              PurchaseRoom(r, u) \/ AssignOwner(r, u) \/ ToggleFavorite(r, u)
  PROVE  TypeOK'
<1> SUFFICES ASSUME Parts PROVE Parts'
  BY TypeParts
<1> USE DEF Parts
<1>1. ASSUME NEW r \in Rooms, NEW expiry \in Times, NEW us \in SUBSET Users,
             NewRoom(r, expiry, us)
      PROVE  Parts'
  <2>1. RoomsOK'
    BY <1>1 DEF NewRoom, RoomsOK
  <2>2. PeopleOK'
    BY <1>1 DEF NewRoom, PeopleOK
  <2>3. QED
    BY <1>1, <2>1, <2>2 DEF NewRoom
<1>2. Expiries \cup {NoExpiry, Term} \subseteq Times
  <2>1. Nat \subseteq Times
    BY DEF Times
  <2>2. Expiries \subseteq Nat /\ Term \in Nat /\ NoExpiry \in Times
    BY DEF Times
  <2>3. QED
    BY <2>1, <2>2
<1>3. ASSUME NEW r \in Rooms, NEW u \in Users, AssignOwner(r, u) \/ ToggleFavorite(r, u)
      PROVE  Parts'
  <2>1. PeopleOK'
    BY <1>3 DEF AssignOwner, ToggleFavorite, PeopleOK
  <2>2. QED
    BY <1>3, <2>1 DEF AssignOwner, ToggleFavorite, RoomsOK
<1>4. QED
  BY <1>1, <1>2, <1>3 DEF CreateRoom, PurchaseRoom

LEMMA VisitTypes ==
  ASSUME TypeOK, NEW u \in Users,
         \/ \E r \in Rooms : JoinCheck(u, r) \/ LeaveRoom(u, r)
         \/ JoinCommit(u) \/ VisitFails(u) \/ LeaveTouches(u)
  PROVE  TypeOK'
<1> SUFFICES ASSUME Parts PROVE Parts'
  BY TypeParts
<1> USE DEF Parts
<1>1. ASSUME NEW r \in Rooms, JoinCheck(u, r) \/ LeaveRoom(u, r)
      PROVE  visit' \in [Users -> Visits]
  BY <1>1 DEF JoinCheck, LeaveRoom, Visits
<1>2. CASE JoinCommit(u) \/ VisitFails(u) \/ LeaveTouches(u)
  <2>1. NoVisit \in Visits
    BY DEF NoVisit, Visits
  <2>2. visit' = [visit EXCEPT ![u] = NoVisit]
    BY <1>2 DEF JoinCommit, VisitFails, LeaveTouches
  <2>3. visit' \in [Users -> Visits]
    BY <2>1, <2>2
  <2>4. RoomsOK'
    BY <1>2 DEF JoinCommit, VisitFails, LeaveTouches, roomVars, RoomsOK
  <2>5. PeopleOK'
    BY <1>2 DEF JoinCommit, VisitFails, LeaveTouches, roomVars, peopleVars, PeopleOK
  <2>6. UNCHANGED <<ext, worker>>
    BY <1>2 DEF JoinCommit, VisitFails, LeaveTouches
  <2>7. QED
    BY <2>3, <2>4, <2>5, <2>6
<1>3. ASSUME NEW r \in Rooms, JoinCheck(u, r)
      PROVE  Parts'
  BY <1>1, <1>3 DEF JoinCheck, roomVars, peopleVars, RoomsOK, PeopleOK
<1>4. ASSUME NEW r \in Rooms, LeaveRoom(u, r)
      PROVE  Parts'
  <2>1. PeopleOK'
    BY <1>4 DEF LeaveRoom, PeopleOK
  <2>2. QED
    BY <1>1, <1>4, <2>1 DEF LeaveRoom, RoomsOK
<1>5. QED
  BY <1>2, <1>3, <1>4

LEMMA ExtensionTypes ==
  ASSUME TypeOK, \A q \in Extensions : ExtensionOK(q), NEW q \in Extensions,
         \/ \E u \in Users, r \in Rooms : ExtendCheck(q, u, r)
         \/ ExtendRead(q) \/ ExtendCommit(q) \/ ExtendFails(q)
  PROVE  TypeOK'
<1> SUFFICES ASSUME Parts PROVE Parts'
  BY TypeParts
<1> USE DEF Parts
<1>1. ext[q] \in Requests /\ NoExpiry \in Times
  BY DEF Times
<1>2. ASSUME NEW u \in Users, NEW r \in Rooms, ExtendCheck(q, u, r)
      PROVE  ext' \in [Extensions -> Requests] /\ UNCHANGED roomVars
  BY <1>1, <1>2 DEF ExtendCheck, Requests
<1>3. ASSUME ExtendRead(q)
      PROVE  ext' \in [Extensions -> Requests] /\ UNCHANGED roomVars
  <2> DEFINE t == NewExpiry(left[ext[q].room])
  <2>1. ext[q].room \in Rooms
    BY <1>3 DEF ExtendRead, ExtensionOK
  <2>2. t \in Times
    BY <2>1, TimeTypes DEF RoomsOK
  <2> HIDE DEF t
  <2>3. [[ext[q] EXCEPT !.stage = "locked"] EXCEPT !.until = t] \in Requests
    BY <1>1, <2>2 DEF Requests
  <2>4. ext' = [ext EXCEPT ![q] = [[ext[q] EXCEPT !.stage = "locked"] EXCEPT !.until = t]]
    BY <1>3 DEF ExtendRead, t
  <2>5. UNCHANGED roomVars
    BY <1>3 DEF ExtendRead
  <2>6. QED
    BY <2>3, <2>4, <2>5
<1>4. ASSUME ExtendCommit(q) \/ ExtendFails(q)
      PROVE  ext' \in [Extensions -> Requests] /\ RoomsOK'
  <2>1. NoExtension \in Requests
    BY <1>1 DEF NoExtension, Requests
  <2>2. ext[q].until \in Times
    BY <1>1 DEF Requests
  <2>3. RoomsOK'
    BY <1>4, <2>2 DEF ExtendCommit, ExtendFails, roomVars, RoomsOK
  <2>4. QED
    BY <1>4, <2>1, <2>3 DEF ExtendCommit, ExtendFails
<1>5. UNCHANGED roomVars => RoomsOK'
  BY DEF roomVars, RoomsOK
<1>6. UNCHANGED <<peopleVars, visit, worker>>
  BY DEF ExtendCheck, ExtendRead, ExtendCommit, ExtendFails, roomVars
<1>7. QED
  BY <1>2, <1>3, <1>4, <1>5, <1>6 DEF peopleVars, PeopleOK

\* A worker that takes a room from its list and makes n more node calls.
LEMMA CycleTypes ==
  ASSUME NEW w \in Cycles, NEW todo \in SUBSET Rooms, NEW cur \in Rooms \cup {NoRoom},
         NEW n \in Nat
  PROVE  /\ w.todo \in SUBSET Rooms
         /\ [w EXCEPT !.todo = todo, !.calls = @ + n] \in Cycles
         /\ [w EXCEPT !.cur = cur, !.calls = @ + n] \in Cycles
         /\ [w EXCEPT !.todo = todo, !.cur = cur, !.calls = @ + n] \in Cycles
<1>1. w.calls + n \in Nat /\ w.todo \in SUBSET Rooms
  BY DEF Cycles
<1> DEFINE c == w.calls + n
<1> HIDE DEF c
<1>2. /\ [w EXCEPT !.todo = todo, !.calls = c] \in Cycles
      /\ [w EXCEPT !.cur = cur, !.calls = c] \in Cycles
      /\ [w EXCEPT !.todo = todo, !.cur = cur, !.calls = c] \in Cycles
  BY <1>1 DEF Cycles, c
<1>3. QED
  BY <1>1, <1>2 DEF c

LEMMA FailureTypes ==
  ASSUME TypeOK, WorkerFails
  PROVE  TypeOK'
<1> SUFFICES ASSUME Parts PROVE Parts'
  BY TypeParts
<1> USE DEF Parts
<1>1. UNCHANGED <<visit, ext>>
  BY DEF WorkerFails, ScanPartly, MarkFails, EvictFails, PurgeStops
<1>2. UNCHANGED roomVars => RoomsOK' /\ PeopleOK'
  BY DEF roomVars, peopleVars, RoomsOK, PeopleOK
<1>3. CASE ScanPartly
  <2>1. worker' \in Cycles
    BY <1>3 DEF ScanPartly, Scan, Cycles
  <2>2. QED
    BY <1>1, <1>2, <1>3, <2>1 DEF ScanPartly
<1>4. CASE MarkFails
  <2>1. worker' \in Cycles
    <3>1. NoRoom \in Rooms \cup {NoRoom} /\ worker.todo \in SUBSET Rooms /\ 1 \in Nat
      BY DEF Cycles
    <3>2. \A r \in Rooms : worker.todo \ {r} \in SUBSET Rooms
      BY <3>1
    <3>3. /\ \A r \in Rooms : [worker EXCEPT !.todo = @ \ {r}, !.calls = @ + 1] \in Cycles
          /\ [worker EXCEPT !.cur = NoRoom, !.calls = @ + 1] \in Cycles
      BY <3>1, <3>2, CycleTypes
    <3>4. \/ \E r \in Rooms : worker' = [worker EXCEPT !.todo = @ \ {r}, !.calls = @ + 1]
          \/ worker' = [worker EXCEPT !.cur = NoRoom, !.calls = @ + 1]
      BY <1>4, <3>1, Zenon DEF MarkFails
    <3>5. QED
      BY <3>3, <3>4, Zenon
  <2>2. QED
    BY <1>1, <1>2, <1>4, <2>1 DEF MarkFails
<1>5. ASSUME NEW r \in Rooms, EvictFails(r)
      PROVE  Parts'
  <2>1. members[r] \subseteq Users
    BY DEF PeopleOK
  <2>2. PICK kept \in {{}, members[r]}, read \in {{}, members[r]} :
          /\ members' = [members EXCEPT ![r] = kept]
          /\ worker' = [worker EXCEPT !.todo = @ \ {r}, !.cur = r,
                                      !.calls = @ + 2 * Cardinality(read)]
    BY <1>5 DEF EvictFails
  <2> DEFINE n == Cardinality(read)
  <2>3. n \in Nat
    <3>1. read \subseteq Users
      BY <2>1
    <3>2. QED
      BY <3>1, FS_Subset, FS_CardinalityType
  <2> HIDE DEF n
  <2>4. worker' = [worker EXCEPT !.todo = @ \ {r}, !.cur = r, !.calls = @ + 2 * n]
    BY <2>2 DEF n
  <2>5. worker.todo \ {r} \in SUBSET Rooms /\ 2 * n \in Nat /\ r \in Rooms \cup {NoRoom}
    <3>1. worker.todo \in SUBSET Rooms
      BY DEF Cycles
    <3>2. QED
      BY <2>3, <3>1
  <2>6. worker' \in Cycles
    BY <2>4, <2>5, CycleTypes
  <2>7. kept \in SUBSET Users
    BY <2>1
  <2>8. PeopleOK'
    BY <1>5, <2>2, <2>7 DEF EvictFails, PeopleOK
  <2>9. QED
    BY <1>1, <1>5, <2>6, <2>8 DEF EvictFails, RoomsOK
<1>6. ASSUME NEW r \in Rooms, PurgeStops(r)
      PROVE  Parts'
  <2>1. PeopleOK'
    BY <1>6 DEF PurgeStops, PeopleOK
  <2>2. worker' \in Cycles
    BY <1>6 DEF PurgeStops, Cycles
  <2>3. QED
    BY <1>1, <1>6, <2>1, <2>2 DEF PurgeStops, RoomsOK
<1>7. QED
  BY <1>3, <1>4, <1>5, <1>6 DEF WorkerFails

LEMMA WorkerTypes ==
  ASSUME TypeOK, WorkerStep \/ Restart
  PROVE  TypeOK'
<1> SUFFICES ASSUME Parts PROVE Parts'
  BY TypeParts
<1> USE DEF Parts
<1>1. UNCHANGED <<visit, ext>>
  BY DEF WorkerStep, Restart, ScanEmpty, DeactivateEmpty, ScanExpired, EvictMembers,
     DeactivateExpired, ScanPurge, PurgeDependants, PurgeRoom, EndCycle
<1>2. UNCHANGED roomVars => RoomsOK' /\ PeopleOK'
  BY DEF roomVars, peopleVars, RoomsOK, PeopleOK
<1>3. CASE ScanEmpty \/ ScanExpired \/ ScanPurge \/ EndCycle \/ Restart
  BY <1>1, <1>2, <1>3
  DEF ScanEmpty, IdleRooms, ScanExpired, ExpiredRooms, ScanPurge, AbandonedRooms, EndCycle,
     Restart, Scan, Asleep, Cycles
<1>4. ASSUME NEW r \in Rooms, DeactivateEmpty(r)
      PROVE  Parts'
  <2>1. RoomsOK'
    BY <1>4 DEF DeactivateEmpty, RoomsOK
  <2>2. worker' \in Cycles
    BY <1>4, CycleTypes DEF DeactivateEmpty
  <2>3. QED
    BY <1>1, <1>4, <2>1, <2>2 DEF DeactivateEmpty, peopleVars, PeopleOK
<1>5. ASSUME NEW r \in Rooms, EvictMembers(r)
      PROVE  Parts'
  <2> DEFINE n == Cardinality(members[r])
  <2>1. members[r] \subseteq Users
    BY DEF PeopleOK
  <2>2. n \in Nat
    BY <2>1, FS_Subset, FS_CardinalityType
  <2> HIDE DEF n
  <2>3. worker' = [worker EXCEPT !.todo = @ \ {r}, !.cur = r, !.calls = @ + 2 * n]
    BY <1>5 DEF EvictMembers, n
  <2>4. worker.todo \ {r} \in SUBSET Rooms /\ 2 * n \in Nat /\ r \in Rooms \cup {NoRoom}
    <3>1. worker.todo \in SUBSET Rooms
      BY DEF Cycles
    <3>2. QED
      BY <2>2, <3>1
  <2>5. worker' \in Cycles
    BY <2>3, <2>4, CycleTypes
  <2>6. PeopleOK'
    BY <1>5 DEF EvictMembers, PeopleOK
  <2>7. QED
    BY <1>1, <1>5, <2>5, <2>6 DEF EvictMembers, RoomsOK
<1>6. CASE DeactivateExpired \/ PurgeRoom
  <2>1. RoomsOK'
    BY <1>6 DEF DeactivateExpired, PurgeRoom, RoomsOK
  <2>2. worker' \in Cycles
    <3>1. CASE DeactivateExpired
      BY <3>1, CycleTypes DEF DeactivateExpired
    <3>2. CASE PurgeRoom
      BY <3>2 DEF PurgeRoom, Cycles
    <3>3. QED
      BY <1>6, <3>1, <3>2
  <2>3. QED
    BY <1>1, <1>6, <2>1, <2>2 DEF DeactivateExpired, PurgeRoom, peopleVars, PeopleOK
<1>7. ASSUME NEW r \in Rooms, PurgeDependants(r)
      PROVE  Parts'
  <2>1. PeopleOK'
    BY <1>7 DEF PurgeDependants, PeopleOK
  <2>2. worker' \in Cycles
    BY <1>7 DEF PurgeDependants, Cycles
  <2>3. QED
    BY <1>1, <1>7, <2>1, <2>2 DEF PurgeDependants, RoomsOK
<1>8. QED
  BY <1>3, <1>4, <1>5, <1>6, <1>7 DEF WorkerStep

LEMMA TickTypes ==
  ASSUME TypeOK, Tick
  PROVE  TypeOK'
<1> SUFFICES ASSUME Parts PROVE Parts'
  BY TypeParts
<1> USE DEF Parts
<1>1. RoomsOK'
  BY Ages, TimeTypes DEF Tick, RoomsOK
<1>2. ASSUME NEW q \in Extensions
      PROVE  [ext[q] EXCEPT !.until = Nearer(@)] \in Requests
  <2>1. ext[q] \in Requests
    OBVIOUS
  <2>2. Nearer(ext[q].until) \in Times
    BY <2>1, TimeTypes DEF Requests
  <2>3. QED
    BY <2>1, <2>2 DEF Requests
<1>3. ext' \in [Extensions -> Requests]
  BY <1>2 DEF Tick
<1>4. QED
  BY <1>1, <1>3 DEF Tick, peopleVars, PeopleOK

-----------------------------------------------------------------------------
(* Extensions name rooms that exist or existed *)

\* The steps that write status or expiry of a room.
LEMMA RoomKinds ==
  ASSUME TypeOK, [Next]_vars
  PROVE  \/ UNCHANGED <<status, left>>
         \/ \E r \in Rooms : \E expiry, us : NewRoom(r, expiry, us)
         \/ \E q \in Extensions : ExtendCommit(q)
         \/ Tick
         \/ DeactivateExpired \/ PurgeRoom \/ \E r \in Rooms : DeactivateEmpty(r)
<1>1. CASE \/ \E r \in Rooms, expiry \in Expiries \cup {NoExpiry} : CreateRoom(r, expiry)
           \/ \E r \in Rooms, u \in Users : PurchaseRoom(r, u)
  BY <1>1 DEF CreateRoom, PurchaseRoom
<1>2. CASE \/ \E u \in Users, r \in Rooms :
               \/ AssignOwner(r, u) \/ ToggleFavorite(r, u)
               \/ JoinCheck(u, r) \/ LeaveRoom(u, r)
           \/ \E u \in Users : JoinCommit(u) \/ VisitFails(u) \/ LeaveTouches(u)
           \/ \E q \in Extensions, u \in Users, r \in Rooms : ExtendCheck(q, u, r)
           \/ \E q \in Extensions : ExtendRead(q) \/ ExtendFails(q)
  BY <1>2 DEF AssignOwner, ToggleFavorite, JoinCheck, LeaveRoom, JoinCommit, VisitFails,
     LeaveTouches, ExtendCheck, ExtendRead, ExtendFails, roomVars
<1>3. CASE \/ ScanEmpty \/ ScanExpired \/ ScanPurge \/ EndCycle \/ Restart
           \/ \E r \in Rooms : EvictMembers(r) \/ PurgeDependants(r)
  BY <1>3 DEF ScanEmpty, ScanExpired, ScanPurge, EndCycle, Restart, EvictMembers,
     PurgeDependants, roomVars
<1>4. CASE WorkerFails
  BY <1>4 DEF WorkerFails, ScanPartly, MarkFails, EvictFails, PurgeStops, roomVars
<1>5. UNCHANGED vars => UNCHANGED <<status, left>>
  BY DEF vars, roomVars
<1>6. QED
  BY <1>1, <1>2, <1>3, <1>4, <1>5 DEF Next, UserStep, WorkerStep

\* A room that was created never becomes one that was not, and nobody but an
\* extension and the clock moves its expiry.
LEMMA RoomSteps ==
  ASSUME TypeOK, [Next]_vars, NEW r \in Rooms, status[r] # "none"
  PROVE  /\ status'[r] # "none"
         /\ ~Tick /\ (\A q \in Extensions : ~ExtendCommit(q)) /\ Exists(r)' =>
              left'[r] = left[r] /\ Exists(r)
<1> USE TypeParts DEF Parts, RoomsOK
<1>1. CASE UNCHANGED <<status, left>>
  BY <1>1 DEF Exists
<1>2. ASSUME NEW o \in Rooms, NEW expiry, NEW us, NewRoom(o, expiry, us)
      PROVE  o # r /\ status'[r] = status[r] /\ left'[r] = left[r]
  BY <1>2 DEF NewRoom
<1>3. ASSUME NEW q \in Extensions, ExtendCommit(q)
      PROVE  status'[r] # "none"
  BY <1>3 DEF ExtendCommit
<1>4. ASSUME \/ \E o \in Rooms : DeactivateEmpty(o)
             \/ DeactivateExpired \/ PurgeRoom
      PROVE  status'[r] # "none" /\ left' = left /\ (Exists(r)' => Exists(r))
  BY <1>4 DEF DeactivateEmpty, DeactivateExpired, PurgeRoom, Exists
<1>5. CASE Tick
  BY <1>5 DEF Tick
<1> HIDE DEF RoomsOK
<1>6. QED
  BY <1>1, <1>2, <1>3, <1>4, <1>5, RoomKinds DEF Exists

\* Only its own extension brings back a room that is closed or has expired.
LEMMA ClosedRoomsStay ==
  ASSUME TypeOK, [Next]_vars, NEW r \in Rooms, status[r] # "none",
         \A q \in Extensions : ExtendCommit(q) => ext[q].room # r
  PROVE  /\ status[r] # "active" => status'[r] # "active"
         /\ Expired(r) => Expired(r)'
<1> USE TypeParts DEF Parts, RoomsOK
<1>1. CASE UNCHANGED <<status, left>>
  BY <1>1 DEF Expired
<1>2. ASSUME NEW o \in Rooms, NEW expiry, NEW us, NewRoom(o, expiry, us)
      PROVE  status'[r] = status[r] /\ left'[r] = left[r]
  BY <1>2 DEF NewRoom
<1>3. ASSUME NEW q \in Extensions, ExtendCommit(q)
      PROVE  status'[r] = status[r] /\ left'[r] = left[r]
  BY <1>3 DEF ExtendCommit
<1>4. ASSUME \/ \E o \in Rooms : DeactivateEmpty(o)
             \/ DeactivateExpired \/ PurgeRoom
      PROVE  left' = left /\ (status[r] # "active" => status'[r] # "active")
  BY <1>4 DEF DeactivateEmpty, DeactivateExpired, PurgeRoom
<1>5. CASE Tick
  <2>1. status' = status /\ (left'[r] = left[r] \/ left'[r] = Nearer(left[r]))
    BY <1>5 DEF Tick
  <2>2. left[r] \in Times
    OBVIOUS
  <2>3. QED
    BY <2>1, <2>2 DEF Expired, Passed, Nearer, Times
<1> HIDE DEF RoomsOK
<1>6. QED
  BY <1>1, <1>2, <1>3, <1>4, <1>5, RoomKinds DEF Expired

\* The extensions that a step leaves where they were.
LEMMA OtherExtensions ==
  ASSUME TypeOK, [Next]_vars
  PROVE  \/ UNCHANGED ext
         \/ Tick
         \/ \E q \in Extensions :
              /\ \/ \E u \in Users, r \in Rooms : ExtendCheck(q, u, r)
                 \/ ExtendRead(q) \/ ExtendCommit(q) \/ ExtendFails(q)
              /\ \A o \in Extensions \ {q} : ext'[o] = ext[o]
<1>1. CASE UNCHANGED vars
  BY <1>1 DEF vars
<1>2. ASSUME NEW q \in Extensions,
             \/ \E u \in Users, r \in Rooms : ExtendCheck(q, u, r)
             \/ ExtendRead(q) \/ ExtendCommit(q) \/ ExtendFails(q)
      PROVE  \A o \in Extensions \ {q} : ext'[o] = ext[o]
  BY <1>2 DEF ExtendCheck, ExtendRead, ExtendCommit, ExtendFails, TypeOK
<1>3. CASE UserStep
  BY <1>2, <1>3 DEF UserStep, CreateRoom, PurchaseRoom, NewRoom, AssignOwner, ToggleFavorite,
     JoinCheck, LeaveRoom, JoinCommit, VisitFails, LeaveTouches
<1>4. CASE WorkerStep \/ Restart
  BY <1>4 DEF WorkerStep, ScanEmpty, DeactivateEmpty, ScanExpired, EvictMembers,
     DeactivateExpired, ScanPurge, PurgeDependants, PurgeRoom, EndCycle, Restart
<1>5. CASE WorkerFails
  BY <1>5 DEF WorkerFails, ScanPartly, MarkFails, EvictFails, PurgeStops
<1>6. QED
  BY <1>1, <1>3, <1>4, <1>5 DEF Next

LEMMA ExtensionStep ==
  ASSUME TypeOK, \A q \in Extensions : ExtensionOK(q), [Next]_vars
  PROVE  \A q \in Extensions : ExtensionOK(q)'
<1> SUFFICES ASSUME NEW q \in Extensions PROVE ExtensionOK(q)'
  OBVIOUS
<1>1. ASSUME ext'[q].stage # "none" => ext[q].stage # "none",
             ext'[q].stage # "none" => ext'[q].room = ext[q].room /\ ext'[q].payer = ext[q].payer
      PROVE  ExtensionOK(q)'
  BY <1>1, RoomSteps DEF ExtensionOK
<1>2. CASE ext'[q] = ext[q]
  BY <1>1, <1>2
<1>3. CASE Tick
  BY <1>1, <1>3 DEF Tick, TypeOK
<1>4. ASSUME NEW u \in Users, NEW r \in Rooms, ExtendCheck(q, u, r)
      PROVE  ExtensionOK(q)'
  BY <1>4 DEF ExtendCheck, Exists, roomVars, ExtensionOK, TypeOK
<1>5. CASE ExtendRead(q) \/ ExtendCommit(q) \/ ExtendFails(q)
  BY <1>1, <1>5 DEF ExtendRead, ExtendCommit, ExtendFails, NoExtension, TypeOK
<1>6. QED
  BY <1>2, <1>3, <1>4, <1>5, OtherExtensions

-----------------------------------------------------------------------------

IInv == TypeOK /\ NoOrphans /\ \A q \in Extensions : ExtensionOK(q)

LEMMA OrphansStep ==
  ASSUME TypeOK, NoOrphans, [Next]_vars
  PROVE  NoOrphans'
<1>1. CASE UNCHANGED vars
  BY <1>1 DEF vars, roomVars, peopleVars, NoOrphans
<1>2. CASE UserStep
  <2>1. ASSUME NEW r \in Rooms, NEW expiry, NEW us, NewRoom(r, expiry, us)
        PROVE  NoOrphans'
    BY <2>1 DEF NewRoom, NoOrphans, TypeOK
  <2>2. ASSUME NEW r \in Rooms, NEW u \in Users, AssignOwner(r, u) \/ ToggleFavorite(r, u)
        PROVE  NoOrphans'
    BY <2>2 DEF AssignOwner, ToggleFavorite, Exists, NoOrphans, TypeOK
  <2>3. ASSUME NEW r \in Rooms, NEW u \in Users, JoinCheck(u, r) \/ LeaveRoom(u, r)
        PROVE  NoOrphans'
    BY <2>3 DEF JoinCheck, LeaveRoom, roomVars, peopleVars, NoOrphans, TypeOK
  <2>4. ASSUME NEW u \in Users, JoinCommit(u) \/ VisitFails(u) \/ LeaveTouches(u)
        PROVE  NoOrphans'
    BY <2>4 DEF JoinCommit, VisitFails, LeaveTouches, Exists, roomVars, peopleVars, NoOrphans,
       TypeOK
  <2>5. ASSUME NEW q \in Extensions, NEW u \in Users, NEW r \in Rooms, ExtendCheck(q, u, r)
        PROVE  NoOrphans'
    BY <2>5 DEF ExtendCheck, roomVars, peopleVars, NoOrphans
  <2>6. ASSUME NEW q \in Extensions, ExtendRead(q) \/ ExtendCommit(q) \/ ExtendFails(q)
        PROVE  NoOrphans'
    BY <2>6 DEF ExtendRead, ExtendCommit, ExtendFails, roomVars, peopleVars, NoOrphans, TypeOK
  <2>7. QED
    BY <1>2, <2>1, <2>2, <2>3, <2>4, <2>5, <2>6 DEF UserStep, CreateRoom, PurchaseRoom
<1>3. CASE WorkerStep
  <2>1. CASE ScanEmpty \/ ScanExpired \/ ScanPurge \/ EndCycle
    BY <2>1 DEF ScanEmpty, ScanExpired, ScanPurge, EndCycle, roomVars, peopleVars, NoOrphans
  <2>2. ASSUME NEW r \in Rooms, DeactivateEmpty(r) \/ EvictMembers(r) \/ PurgeDependants(r)
        PROVE  NoOrphans'
    BY <2>2 DEF DeactivateEmpty, EvictMembers, PurgeDependants, peopleVars, NoOrphans, TypeOK
  <2>3. CASE DeactivateExpired \/ PurgeRoom
    BY <2>3 DEF DeactivateExpired, PurgeRoom, peopleVars, NoOrphans, TypeOK
  <2>4. QED
    BY <1>3, <2>1, <2>2, <2>3 DEF WorkerStep
<1>4. CASE Restart \/ Tick
  BY <1>4 DEF Restart, Tick, roomVars, peopleVars, NoOrphans
<1>5. CASE WorkerFails
  <2>1. CASE ScanPartly \/ MarkFails
    BY <2>1 DEF ScanPartly, MarkFails, roomVars, peopleVars, NoOrphans
  <2>2. ASSUME NEW r \in Rooms, EvictFails(r)
        PROVE  NoOrphans'
    BY <2>2 DEF EvictFails, NoOrphans, TypeOK
  <2>3. ASSUME NEW r \in Rooms, PurgeStops(r)
        PROVE  NoOrphans'
    BY <2>3 DEF PurgeStops, NoOrphans, TypeOK
  <2>4. QED
    BY <1>5, <2>1, <2>2, <2>3 DEF WorkerFails
<1>6. QED
  BY <1>1, <1>2, <1>3, <1>4, <1>5 DEF Next

LEMMA NextIInv ==
  ASSUME IInv, [Next]_vars
  PROVE  IInv'
<1>1. TypeOK'
  <2>1. CASE UNCHANGED vars
    BY <2>1 DEF IInv, vars, roomVars, peopleVars, TypeOK
  <2>2. CASE UserStep
    BY <2>2, RoomTypes, VisitTypes, ExtensionTypes DEF UserStep, IInv
  <2>3. QED
    BY <2>1, <2>2, WorkerTypes, FailureTypes, TickTypes DEF IInv, Next
<1>2. QED
  BY <1>1, OrphansStep, ExtensionStep DEF IInv

\* Every reachable state is well typed, purges leave no orphans and extensions
\* name rooms that were created.
THEOREM Invariance == Spec => []IInv
<1>1. Init => IInv
  BY InitTypes DEF Init, IInv, NoOrphans, ExtensionOK, NoExtension
<1>2. IInv /\ [Next]_vars => IInv'
  BY NextIInv
<1>3. QED
  BY <1>1, <1>2, PTL DEF Spec

\* The state of the rooms, the requests and the worker is well typed.
THEOREM TypeCorrect == Spec => []TypeOK
<1>1. IInv => TypeOK
  BY DEF IInv
<1>2. QED
  BY <1>1, Invariance, PTL

\* A purged room leaves no members, owners or favorites behind, whatever is
\* written between the DELETEs of the purge, for any number of rooms and users.
THEOREM PurgeLeavesNothing == Spec => []NoOrphans
<1>1. IInv => NoOrphans
  BY DEF IInv
<1>2. QED
  BY <1>1, Invariance, PTL

-----------------------------------------------------------------------------
(* Paid time *)

\* The payer's row lock: a second extension of the same payer waits.
LEMMA PayersStep ==
  ASSUME TypeOK, PayersApart, [Next]_vars
  PROVE  PayersApart'
<1>1. CASE UNCHANGED ext
  BY <1>1 DEF PayersApart, Locked
<1>2. CASE Tick
  <2>1. \A q \in Extensions : ext'[q].stage = ext[q].stage /\ ext'[q].payer = ext[q].payer
    BY <1>2 DEF Tick, TypeOK
  <2>2. QED
    BY <2>1 DEF PayersApart, Locked
<1>3. ASSUME NEW q \in Extensions, \A o \in Extensions \ {q} : ext'[o] = ext[o],
             Locked(q)' => /\ ext'[q].payer = ext[q].payer
                           /\ Locked(q) \/ ~Paying(ext[q].payer)
      PROVE  PayersApart'
  BY <1>3 DEF PayersApart, Locked, Paying
<1>4. ASSUME NEW q \in Extensions, NEW u \in Users, NEW r \in Rooms, ExtendCheck(q, u, r)
      PROVE  ~Locked(q)'
  BY <1>4 DEF ExtendCheck, Locked, TypeOK
<1>5. ASSUME NEW q \in Extensions, ExtendRead(q)
      PROVE  ext'[q].payer = ext[q].payer /\ ~Paying(ext[q].payer)
  BY <1>5 DEF ExtendRead, TypeOK
<1>6. ASSUME NEW q \in Extensions, ExtendCommit(q) \/ ExtendFails(q)
      PROVE  ~Locked(q)'
  BY <1>6 DEF ExtendCommit, ExtendFails, NoExtension, Locked, TypeOK
<1>7. QED
  BY <1>1, <1>2, <1>3, <1>4, <1>5, <1>6, OtherExtensions

LEMMA TickKeepsTerm ==
  ASSUME TypeOK, Tick, NEW q \in Extensions, ExtensionOK(q), TermAhead(q)
  PROVE  TermAhead(q)'
<1> DEFINE r == ext[q].room
<1>1. /\ ext'[q].stage = ext[q].stage /\ ext'[q].room = r
      /\ ext'[q].until = Nearer(ext[q].until)
      /\ status' = status
  BY DEF Tick, TypeOK
<1>2. ext[q].until \in Times
  BY DEF TypeOK
<1>3. SUFFICES ASSUME Locked(q), Exists(r), left'[r] # NoExpiry, left'[r] >= 0
               PROVE  ext'[q].until # NoExpiry /\ ext'[q].until >= left'[r] + Term
  BY <1>1 DEF TermAhead, Locked, Exists
<1>4. r \in Rooms /\ left[r] \in Times
  BY <1>3 DEF ExtensionOK, Locked, TypeOK
<1>5. left'[r] = Nearer(left[r])
  BY <1>3, <1>4 DEF Tick
<1>6. left[r] # NoExpiry /\ left[r] >= 1 /\ left'[r] = left[r] - 1
  BY <1>3, <1>4, <1>5 DEF Nearer, Times
<1>7. ext[q].until # NoExpiry /\ ext[q].until >= left[r] + Term
  <2>1. left[r] \in Int /\ left[r] >= 0
    BY <1>4, <1>6 DEF Times
  <2>2. QED
    BY <1>3, <1>6, <2>1 DEF TermAhead
<1>8. ext'[q].until = ext[q].until - 1
  BY <1>1, <1>2, <1>4, <1>6, <1>7 DEF Nearer, Times
<1>9. QED
  BY <1>2, <1>4, <1>6, <1>7, <1>8 DEF Times

\* The room's expiry is written by an extension that no other one overlaps.
LEMMA CommitKeepsTerm ==
  ASSUME TypeOK, PaidInv, OnePayer, NEW q \in Extensions, NEW o \in Extensions, ExtendCommit(o)
  PROVE  TermAhead(q)'
<1>1. o # q => ext'[q] = ext[q]
  BY DEF ExtendCommit, TypeOK
<1>2. CASE o = q
  BY <1>2 DEF ExtendCommit, NoExtension, TermAhead, Locked, TypeOK
<1>3. CASE o # q /\ Locked(q)
  <2>1. ext[q].room \in Rooms /\ ext[o].room \in Rooms
    BY <1>3 DEF PaidInv, ExtensionOK, ExtendCommit, Locked
  <2>2. ext[q].room # ext[o].room
    BY <1>3 DEF PaidInv, PayersApart, OnePayer, ExtendCommit, Locked
  <2>3. left'[ext[q].room] = left[ext[q].room] /\ status'[ext[q].room] = status[ext[q].room]
    BY <2>1, <2>2 DEF ExtendCommit, TypeOK
  <2>4. TermAhead(q)
    BY DEF PaidInv
  <2>5. QED
    BY <1>1, <1>3, <2>3, <2>4 DEF TermAhead, Locked, Exists
<1>4. CASE o # q /\ ~Locked(q)
  BY <1>1, <1>4 DEF TermAhead, Locked
<1>5. QED
  BY <1>2, <1>3, <1>4

LEMMA ReadSetsTerm ==
  ASSUME TypeOK, NEW q \in Extensions, ExtensionOK(q), ExtendRead(q)
  PROVE  TermAhead(q)'
<1> DEFINE r == ext[q].room
<1>1. r \in Rooms /\ left[r] \in Times
  BY DEF ExtendRead, ExtensionOK, TypeOK
<1>2. /\ ext'[q].room = r
      /\ ext'[q].until = NewExpiry(left[r])
      /\ left'[r] = left[r]
  BY DEF ExtendRead, roomVars, TypeOK
<1>3. ASSUME left[r] # NoExpiry, left[r] >= 0
      PROVE  NewExpiry(left[r]) # NoExpiry /\ NewExpiry(left[r]) >= left[r] + Term
  BY <1>1, <1>3 DEF NewExpiry, Passed, Times
<1>4. QED
  BY <1>2, <1>3 DEF TermAhead

LEMMA TermStep ==
  ASSUME TypeOK, PaidInv, OnePayer, [Next]_vars, NEW q \in Extensions
  PROVE  TermAhead(q)'
<1>1. ExtensionOK(q) /\ TermAhead(q)
  BY DEF PaidInv
<1>2. CASE Tick
  BY <1>1, <1>2, TickKeepsTerm
<1>3. CASE \E o \in Extensions : ExtendCommit(o)
  BY <1>3, CommitKeepsTerm
<1>4. CASE ExtendRead(q)
  BY <1>1, <1>4, ReadSetsTerm
<1>5. CASE ~Locked(q)'
  BY <1>5 DEF TermAhead
<1>6. ASSUME ~Tick, \A o \in Extensions : ~ExtendCommit(o), ext'[q] = ext[q], Locked(q)
      PROVE  TermAhead(q)'
  <2>1. ext[q].room \in Rooms /\ status[ext[q].room] # "none"
    BY <1>1, <1>6 DEF ExtensionOK, Locked
  <2>2. Exists(ext[q].room)' => left'[ext[q].room] = left[ext[q].room] /\ Exists(ext[q].room)
    BY <1>6, <2>1, RoomSteps
  <2>3. QED
    BY <1>1, <1>6, <2>2 DEF TermAhead, Exists
<1>7. ASSUME \/ \E u \in Users, r \in Rooms : ExtendCheck(q, u, r)
             \/ ExtendFails(q)
      PROVE  ~Locked(q)'
  BY <1>7 DEF ExtendCheck, ExtendFails, NoExtension, Locked, TypeOK
<1>8. ext'[q] = ext[q] /\ ~Locked(q) => ~Locked(q)'
  BY DEF Locked
<1>9. QED
  BY <1>2, <1>3, <1>4, <1>5, <1>6, <1>7, <1>8, OtherExtensions

LEMMA PaidStep ==
  ASSUME IInv, PaidInv, OnePayer, [Next]_vars
  PROVE  PaidInv'
  BY TermStep, PayersStep, ExtensionStep DEF IInv, PaidInv

\* An extension that commits adds a whole term to what is left of the room's
\* time, as long as the extensions of a room that overlap have one payer: then
\* the lock on the payer's row is a lock on the room.
THEOREM OnePayerGetsAll == Spec /\ []OnePayer => PaidTimeIsAdded
<1>1. Init => PaidInv
  BY DEF Init, PaidInv, ExtensionOK, TermAhead, PayersApart, Locked, NoExtension
<1>2. IInv /\ PaidInv /\ OnePayer /\ [Next]_vars => PaidInv'
  BY PaidStep
<1>3. ASSUME IInv, PaidInv, [Next]_vars,
             NEW q \in Extensions, ext[q].stage = "locked", ExtendCommit(q), Exists(ext[q].room)
      PROVE  LET r == ext[q].room IN
             left[r] = NoExpiry \/ Expired(r) \/ left'[r] >= left[r] + Term
  <2> DEFINE r == ext[q].room
  <2>1. r \in Rooms /\ left[r] \in Times /\ TermAhead(q)
    BY <1>3 DEF IInv, PaidInv, ExtensionOK, TypeOK
  <2>2. left'[r] = ext[q].until
    BY <1>3, <2>1 DEF ExtendCommit, IInv, TypeOK
  <2>3. QED
    BY <1>3, <2>1, <2>2 DEF TermAhead, Locked, Expired, Passed, Times
<1>4. IInv /\ PaidInv /\ [Next]_vars =>
        [\A q \in Extensions :
           LET r == ext[q].room IN
           ext[q].stage = "locked" /\ ExtendCommit(q) /\ Exists(r) =>
             \/ left[r] = NoExpiry \/ Expired(r)
             \/ left'[r] >= left[r] + Term]_vars
  BY <1>3
<1>5. QED
  BY <1>1, <1>2, <1>4, Invariance, PTL DEF Spec, PaidTimeIsAdded

\* In particular nothing is lost as long as one user pays for everything.
COROLLARY SolePayerGetsAll ==
  ASSUME \A u, v \in Users : u = v
  PROVE  Spec => PaidTimeIsAdded
<1>1. IInv => OnePayer
  <2> SUFFICES ASSUME IInv, NEW q1 \in Extensions, NEW q2 \in Extensions,
                      Locked(q1), Locked(q2)
               PROVE  ext[q1].payer = ext[q2].payer
    BY DEF OnePayer
  <2>1. ext[q1].payer \in Users /\ ext[q2].payer \in Users
    BY DEF IInv, ExtensionOK, Locked
  <2>2. QED
    BY <2>1
<1>2. QED
  BY <1>1, Invariance, OnePayerGetsAll, PTL

-----------------------------------------------------------------------------
(* What the worker has listed *)

\* The rooms that the worker is still to deal with, or deals with.
OnList(r) == r \in worker.todo \/ r = worker.cur

\* No extension commits while its room is on the worker's list.
ExtensionsWait ==
  [][\A q \in Extensions : ExtendCommit(q) => ~OnList(ext[q].room)]_vars

\* What the queries found is still so.
ListIsTrue ==
  \A r \in Rooms : OnList(r) =>
    /\ status[r] # "none"
    /\ worker.phase = "expired" => Expired(r)
    /\ worker.phase = "purge" => status[r] # "active"

LEMMA ListSteps ==
  ASSUME TypeOK, [Next]_vars
  PROVE  \/ worker' = worker
         \/ worker' = Asleep
         \/ ScanEmpty \/ ScanExpired \/ ScanPurge \/ ScanPartly
         \/ /\ worker'.phase = worker.phase
            /\ \A r \in Rooms : OnList(r)' => OnList(r)
<1>1. worker \in Cycles
  BY TypeParts DEF Parts
<1>2. CASE UNCHANGED vars
  BY <1>2 DEF vars
<1>3. CASE UserStep \/ Tick
  BY <1>3 DEF UserStep, CreateRoom, PurchaseRoom, NewRoom, AssignOwner, ToggleFavorite,
     JoinCheck, LeaveRoom, JoinCommit, VisitFails, LeaveTouches, ExtendCheck, ExtendRead,
     ExtendCommit, ExtendFails, Tick
<1>4. ASSUME NEW r \in Rooms,
             \/ DeactivateEmpty(r) \/ EvictMembers(r) \/ PurgeDependants(r)
             \/ EvictFails(r) \/ PurgeStops(r)
      PROVE  worker'.phase = worker.phase /\ \A o \in Rooms : OnList(o)' => OnList(o)
  <2>1. /\ r \in worker.todo /\ worker.cur = NoRoom
        /\ worker'.phase = worker.phase /\ worker'.todo = worker.todo \ {r}
        /\ worker'.cur = NoRoom \/ worker'.cur = r
    <3>1. CASE DeactivateEmpty(r) \/ EvictMembers(r) \/ PurgeDependants(r)
      BY <1>1, <3>1 DEF DeactivateEmpty, EvictMembers, PurgeDependants, Working, Cycles
    <3>2. CASE EvictFails(r) \/ PurgeStops(r)
      BY <1>1, <3>2 DEF EvictFails, PurgeStops, Working, Cycles
    <3>3. QED
      BY <1>4, <3>1, <3>2
  <2>2. QED
    BY <2>1 DEF OnList
<1>5. CASE DeactivateExpired \/ PurgeRoom
  <2>1. worker'.phase = worker.phase /\ worker'.todo = worker.todo /\ worker'.cur = NoRoom
    BY <1>1, <1>5 DEF DeactivateExpired, PurgeRoom, Cycles
  <2>2. QED
    BY <2>1 DEF OnList
<1>6. CASE EndCycle \/ Restart
  BY <1>6 DEF EndCycle, Restart
<1>7. CASE MarkFails
  <2>1. \/ \E r \in worker.todo :
             /\ worker.cur = NoRoom
             /\ worker' = [worker EXCEPT !.todo = @ \ {r}, !.calls = @ + 1]
        \/ worker' = [worker EXCEPT !.cur = NoRoom, !.calls = @ + 1]
    BY <1>7, Zenon DEF MarkFails, Working
  <2>2. /\ worker'.phase = worker.phase /\ worker'.todo \subseteq worker.todo
        /\ worker'.cur = NoRoom
    BY <1>1, <2>1 DEF Cycles
  <2>3. QED
    BY <2>2, TypeParts DEF OnList, Parts, Cycles
<1>8. QED
  BY <1>2, <1>3, <1>4, <1>5, <1>6, <1>7 DEF Next, WorkerStep, WorkerFails

LEMMA ListStep ==
  ASSUME TypeOK, ListIsTrue, [Next]_vars,
         \A q \in Extensions : ExtendCommit(q) => ~OnList(ext[q].room)
  PROVE  ListIsTrue'
<1>1. ASSUME NEW r \in Rooms, OnList(r)
      PROVE  /\ status'[r] # "none"
             /\ status[r] # "active" => status'[r] # "active"
             /\ Expired(r) => Expired(r)'
  BY <1>1, RoomSteps, ClosedRoomsStay DEF ListIsTrue
<1>2. CASE worker' = worker
  <2>1. \A r \in Rooms : OnList(r)' => OnList(r)
    BY <1>2 DEF OnList
  <2>2. QED
    BY <1>1, <1>2, <2>1 DEF ListIsTrue
<1>3. CASE worker' = Asleep
  BY <1>3 DEF Asleep, ListIsTrue, OnList
<1>4. CASE ScanEmpty
  BY <1>4 DEF ScanEmpty, IdleRooms, Scan, ListIsTrue, OnList, roomVars
<1>5. CASE ScanExpired
  BY <1>5 DEF ScanExpired, ExpiredRooms, Scan, ListIsTrue, OnList, Expired, roomVars
<1>6. CASE ScanPurge
  BY <1>6 DEF ScanPurge, AbandonedRooms, Scan, ListIsTrue, OnList, roomVars
<1>7. CASE ScanPartly
  <2>1. PICK found \in SUBSET Rooms :
          \/ Scan("empty", found) /\ found \subseteq IdleRooms
          \/ Scan("expired", found) /\ found \subseteq ExpiredRooms
          \/ Scan("purge", found) /\ found \subseteq AbandonedRooms
    BY <1>7 DEF ScanPartly
  <2>2. status' = status /\ left' = left
    BY <1>7 DEF ScanPartly, roomVars
  <2>3. QED
    BY <2>1, <2>2
    DEF Scan, IdleRooms, ExpiredRooms, AbandonedRooms, ListIsTrue, OnList, Expired
<1>8. CASE /\ worker'.phase = worker.phase
           /\ \A r \in Rooms : OnList(r)' => OnList(r)
  BY <1>1, <1>8 DEF ListIsTrue
<1>9. QED
  BY <1>2, <1>3, <1>4, <1>5, <1>6, <1>7, <1>8, ListSteps

\* What the worker does to a room is still called for when it does it: a room
\* that it closes as expired has expired (cleanup.go:206), and one that it
\* deletes as inactive is inactive (cleanup.go:292).
WorkerIsRight ==
  [][/\ DeactivateExpired => Expired(worker.cur)
     /\ \A r \in Rooms : status[r] = "active" => status'[r] # "deleted"]_vars

\* The worker makes node calls for the rooms before a room and then trusts what
\* its query said of it.  Extensions that commit in between are all that can make
\* it close a room that is paid for or delete one that is active, though people
\* come and go, queries and requests fail and the worker restarts meanwhile.
THEOREM OnlyExtensionsMislead == Spec /\ ExtensionsWait => WorkerIsRight
<1>1. Init => ListIsTrue
  BY DEF Init, ListIsTrue, OnList, Asleep
<1>2. TypeOK /\ ListIsTrue /\ [Next]_vars
        /\ [\A q \in Extensions : ExtendCommit(q) => ~OnList(ext[q].room)]_vars => ListIsTrue'
  <2>1. CASE UNCHANGED vars
    BY <2>1 DEF vars, roomVars, ListIsTrue, OnList, Expired
  <2>2. QED
    BY <2>1, ListStep
<1>3. ASSUME TypeOK, ListIsTrue, [Next]_vars, DeactivateExpired
      PROVE  Expired(worker.cur)
  BY <1>3, TypeParts DEF DeactivateExpired, ListIsTrue, OnList, Parts, Cycles
<1>4. ASSUME TypeOK, ListIsTrue, [Next]_vars, NEW r \in Rooms, status[r] = "active"
      PROVE  status'[r] # "deleted"
  <2> USE <1>4, TypeParts DEF Parts, RoomsOK
  <2>1. CASE UNCHANGED <<status, left>>
    BY <2>1
  <2>2. ASSUME NEW o \in Rooms, NEW expiry, NEW us, NewRoom(o, expiry, us)
        PROVE  status'[r] # "deleted"
    BY <2>2 DEF NewRoom
  <2>3. ASSUME NEW q \in Extensions, ExtendCommit(q)
        PROVE  status'[r] # "deleted"
    BY <2>3 DEF ExtendCommit
  <2>4. CASE DeactivateExpired \/ Tick \/ \E o \in Rooms : DeactivateEmpty(o)
    BY <2>4 DEF DeactivateExpired, DeactivateEmpty, Tick
  <2>5. CASE PurgeRoom
    <3>1. worker.phase = "purge" /\ r # worker.cur
      BY <2>5 DEF PurgeRoom, ListIsTrue, OnList
    <3>2. status' = status \/ status' = [status EXCEPT ![worker.cur] = "deleted"]
      BY <2>5 DEF PurgeRoom
    <3>3. QED
      BY <3>1, <3>2
  <2> HIDE DEF RoomsOK
  <2>6. QED
    BY <2>1, <2>2, <2>3, <2>4, <2>5, RoomKinds
<1>5. TypeOK /\ ListIsTrue /\ [Next]_vars =>
        [/\ DeactivateExpired => Expired(worker.cur)
         /\ \A r \in Rooms : status[r] = "active" => status'[r] # "deleted"]_vars
  BY <1>3, <1>4
<1>6. QED
  BY <1>1, <1>2, <1>5, TypeCorrect, PTL DEF Spec, ExtensionsWait, WorkerIsRight

=============================================================================
