---------------------------- MODULE RoomLifecycle -----------------------------
(***************************************************************************)
(* The life of a room in the database: created or bought, joined and left, *)
(* extended, deactivated and purged.  The handlers run concurrently with   *)
(* each other and with the cleanup worker, whose three phases query the    *)
(* database first and act on the answer room by room, a network call to    *)
(* the VPN node in between.                                                *)
(*                                                                         *)
(* Time is relative: idle[r] is the age of rooms.last_activity and left[r] *)
(* what is left until rooms.expires_at, both cut off where no comparison   *)
(* of the code tells the values apart any more, so that the clock needs no *)
(* bound.  The real durations (30 minutes idle, 24 hours to the purge, 7   *)
(* days of grace, a term of 7 days or more) are constants in the same      *)
(* order.  The hubs on the nodes and the price of an extension are other   *)
(* modules' business: here the payer's row lock is what serialises two     *)
(* extensions that one user pays.                                          *)
(***************************************************************************)
EXTENDS Integers, FiniteSets

CONSTANTS
  Rooms,            \* ids of rooms, issued once (SERIAL)
  Users,
  Admins,           \* users with is_admin in their token
  Extensions,       \* concurrent POST /rooms/{id}/extend requests
  NoRoom,
  NoUser,
  NoExpiry,         \* expires_at IS NULL
  IdleTimeout,      \* cleanEmptyRooms: 30 minutes
  PurgeAfter,       \* purgeOldInactiveRooms: 24 hours
  Grace,            \* ExtendRoom: 7 days
  Term,             \* what a purchase or an extension adds
  Expiries,         \* the expiries an administrator gives a new room
  MaxNodeCalls,     \* maxNodeCallsPerCycle
  CountLockAccepted,\* does the database accept SELECT COUNT(*) ... FOR UPDATE?
  MaxLeft           \* bound of the model: rooms with more left are not extended

ASSUME ConstantsOK ==
  /\ IsFiniteSet(Users)
  /\ Admins \subseteq Users
  /\ NoRoom \notin Rooms /\ NoUser \notin Users /\ NoExpiry \notin Int
  /\ IdleTimeout \in Nat \ {0} /\ PurgeAfter \in Nat /\ Grace \in Nat /\ Term \in Nat
  /\ IdleTimeout < PurgeAfter /\ PurgeAfter < Grace /\ Grace <= Term
  /\ Expiries \subseteq Nat
  /\ MaxNodeCalls \in Nat \ {0}
  /\ CountLockAccepted \in BOOLEAN
  /\ MaxLeft \in Nat

VARIABLES
  status,     \* "none", then is_active as "active" or "inactive", then "deleted"
  idle,       \* how long ago rooms.last_activity was
  left,       \* how long until rooms.expires_at; negative once it has passed
  members,    \* room_members
  owners,     \* users with role 'owner' in room_roles
  favorites,  \* favorites
  visit,      \* visit[u]: the user's Join or Leave under way
  ext,        \* ext[q]: an ExtendRoom under way
  worker      \* the cleanup worker

peopleVars == <<members, owners, favorites>>
roomVars == <<status, idle, left, peopleVars>>
vars == <<roomVars, visit, ext, worker>>

NoVisit == [stage |-> "none", room |-> NoRoom]
NoExtension == [stage |-> "none", room |-> NoRoom, payer |-> NoUser, until |-> NoExpiry]
Asleep == [phase |-> "sleep", todo |-> {}, cur |-> NoRoom, calls |-> 0]

Exists(r) == status[r] \in {"active", "inactive"}
Passed(t) == t # NoExpiry /\ t < 0
Expired(r) == Passed(left[r])

Times == {NoExpiry} \cup {t \in Int : t >= -Grace}

TypeOK ==
  /\ status \in [Rooms -> {"none", "active", "inactive", "deleted"}]
  /\ idle \in [Rooms -> 0..PurgeAfter + 1]
  /\ left \in [Rooms -> Times]
  /\ members \in [Rooms -> SUBSET Users]
  /\ owners \in [Rooms -> SUBSET Users]
  /\ favorites \in [Rooms -> SUBSET Users]
  /\ visit \in [Users -> [stage : {"none", "joining", "leaving"}, room : Rooms \cup {NoRoom}]]
  /\ ext \in [Extensions -> [stage : {"none", "checked", "locked"}, room : Rooms \cup {NoRoom},
                             payer : Users \cup {NoUser}, until : Times]]
  /\ worker \in [phase : {"sleep", "empty", "expired", "purge"}, todo : SUBSET Rooms,
                 cur : Rooms \cup {NoRoom}, calls : Nat]

Init ==
  /\ status = [r \in Rooms |-> "none"]
  /\ idle = [r \in Rooms |-> 0]
  /\ left = [r \in Rooms |-> NoExpiry]
  /\ members = [r \in Rooms |-> {}]
  /\ owners = [r \in Rooms |-> {}]
  /\ favorites = [r \in Rooms |-> {}]
  /\ visit = [u \in Users |-> NoVisit]
  /\ ext = [q \in Extensions |-> NoExtension]
  /\ worker = Asleep

-----------------------------------------------------------------------------
(* Creating, owning and marking a room *)

NewRoom(r, expiry, itsOwners) ==
  /\ status[r] = "none"
  /\ status' = [status EXCEPT ![r] = "active"]
  /\ left' = [left EXCEPT ![r] = expiry]
  /\ idle' = [idle EXCEPT ![r] = 0]
  /\ owners' = [owners EXCEPT ![r] = itsOwners]
  /\ UNCHANGED <<members, favorites, visit, ext, worker>>

\* AdminHandler.CreateRoom: no owner, with or without an expiry.
CreateRoom(r, expiry) == NewRoom(r, expiry, {})

\* RoomHandler.PurchaseRoom: locks the last room with an aggregate query too.
PurchaseRoom(r, u) == CountLockAccepted /\ NewRoom(r, Term, {u})

\* AdminHandler.AssignOwner (setRoomOwner): earlier owners keep their role.
AssignOwner(r, u) ==
  /\ Exists(r)
  /\ owners' = [owners EXCEPT ![r] = @ \cup {u}]
  /\ UNCHANGED <<status, idle, left, members, favorites, visit, ext, worker>>

\* AddFavorite and RemoveFavorite.
ToggleFavorite(r, u) ==
  /\ Exists(r)
  /\ favorites' = [favorites EXCEPT ![r] = IF u \in @ THEN @ \ {u} ELSE @ \cup {u}]
  /\ UNCHANGED <<status, idle, left, members, owners, visit, ext, worker>>

-----------------------------------------------------------------------------
(* Joining and leaving *)

\* Join and JoinInvite read the room and make their checks before a transaction
\* begins.  Join refuses an expired room unless it is shared, JoinInvite does not.
JoinCheck(u, r) ==
  /\ visit[u] = NoVisit
  /\ status[r] = "active"
  /\ visit' = [visit EXCEPT ![u] = [stage |-> "joining", room |-> r]]
  /\ UNCHANGED <<roomVars, ext, worker>>

\* The transaction: whether the room is still active is not asked again, only
\* the foreign key insists that it exists.  A member joins again for nothing.
JoinCommit(u) ==
  LET r == visit[u].room IN
  /\ visit[u].stage = "joining"
  /\ CountLockAccepted
  /\ Exists(r)
  /\ members' = [members EXCEPT ![r] = @ \cup {u}]
  /\ idle' = IF u \in members[r] THEN idle ELSE [idle EXCEPT ![r] = 0]
  /\ visit' = [visit EXCEPT ![u] = NoVisit]
  /\ UNCHANGED <<status, left, owners, favorites, ext, worker>>

\* Any failure, the control plane's restart included, ends a Join or a Leave.
VisitFails(u) ==
  /\ visit[u] # NoVisit
  /\ visit' = [visit EXCEPT ![u] = NoVisit]
  /\ UNCHANGED <<roomVars, ext, worker>>

\* Leave and Kick delete the membership, or log that they could not ...
LeaveRoom(u, r) ==
  /\ visit[u] = NoVisit
  /\ u \in members[r]
  /\ members' \in {members, [members EXCEPT ![r] = @ \ {u}]}
  /\ visit' = [visit EXCEPT ![u] = [stage |-> "leaving", room |-> r]]
  /\ UNCHANGED <<status, idle, left, owners, favorites, ext, worker>>

\* ... and touch the room last, after the sessions were closed and billed.
LeaveTouches(u) ==
  LET r == visit[u].room IN
  /\ visit[u].stage = "leaving"
  /\ idle' = IF Exists(r) THEN [idle EXCEPT ![r] = 0] ELSE idle
  /\ visit' = [visit EXCEPT ![u] = NoVisit]
  /\ UNCHANGED <<status, left, peopleVars, ext, worker>>

-----------------------------------------------------------------------------
(* Extending *)

\* Permission and grace period are checked before the transaction.
ExtendCheck(q, u, r) ==
  /\ ext[q].stage = "none"
  /\ Exists(r)
  /\ left[r] # NoExpiry => left[r] <= MaxLeft
  /\ u \in owners[r] \cup Admins
  /\ status[r] = "inactive" => left[r] # NoExpiry /\ -left[r] < Grace
  /\ ext' = [ext EXCEPT ![q] = [stage |-> "checked", room |-> r, payer |-> u, until |-> NoExpiry]]
  /\ UNCHANGED <<roomVars, visit, worker>>

Paying(u) == \E q \in Extensions : ext[q].stage = "locked" /\ ext[q].payer = u

\* Mutant of NewExpiry: the term is taken off.
NewExpirySubtracts(t) == IF t = NoExpiry THEN Term ELSE t - Term

\* A new term follows what is left, or starts now.
NewExpiry(t) == IF t = NoExpiry \/ Passed(t) THEN Term ELSE t + Term

\* Mutant of ExtendRead: the payer's row is not locked.
ExtendReadUnlocked(q) ==
  LET r == ext[q].room IN
  /\ ext[q].stage = "checked"
  /\ Exists(r)
  /\ ext' = [ext EXCEPT ![q].stage = "locked", ![q].until = NewExpiry(left[r])]
  /\ UNCHANGED <<roomVars, visit, worker>>

\* The transaction locks the payer's row and reads expires_at, with no lock on
\* the room.
ExtendRead(q) ==
  LET r == ext[q].room IN
  /\ ext[q].stage = "checked"
  /\ ~Paying(ext[q].payer)
  /\ Exists(r)
  /\ ext' = [ext EXCEPT ![q].stage = "locked", ![q].until = NewExpiry(left[r])]
  /\ UNCHANGED <<roomVars, visit, worker>>

\* The UPDATE and the commit.  An UPDATE of a purged room changes no row, and
\* the transaction commits all the same.
ExtendCommit(q) ==
  LET r == ext[q].room IN
  /\ ext[q].stage = "locked"
  /\ IF Exists(r)
     THEN /\ left' = [left EXCEPT ![r] = ext[q].until]
          /\ status' = [status EXCEPT ![r] = "active"]
     ELSE UNCHANGED <<left, status>>
  /\ ext' = [ext EXCEPT ![q] = NoExtension]
  /\ UNCHANGED <<idle, peopleVars, visit, worker>>

\* Not enough shards, the room is gone, a statement fails or a restart.
ExtendFails(q) ==
  /\ ext[q].stage # "none"
  /\ ext' = [ext EXCEPT ![q] = NoExtension]
  /\ UNCHANGED <<roomVars, visit, worker>>

-----------------------------------------------------------------------------
(* The cleanup worker *)

Scan(phase, found) ==
  worker' = [phase |-> phase, todo |-> found, cur |-> NoRoom, calls |-> 0]

\* The loop of a phase is over: nothing left, or the node calls are used up.
PhaseDone == worker.cur = NoRoom /\ (worker.todo = {} \/ worker.calls >= MaxNodeCalls)

Working(phase, r) ==
  /\ worker.phase = phase
  /\ worker.cur = NoRoom
  /\ r \in worker.todo
  /\ worker.calls < MaxNodeCalls

IdleRooms == {r \in Rooms : status[r] = "active" /\ members[r] = {} /\ idle[r] >= IdleTimeout}

\* Mutant of ExpiredRooms: only the empty ones are listed.
ExpiredRoomsEmpty == {r \in Rooms : status[r] = "active" /\ Expired(r) /\ members[r] = {}}

ExpiredRooms == {r \in Rooms : status[r] = "active" /\ Expired(r)}
AbandonedRooms == {r \in Rooms : status[r] = "inactive" /\ idle[r] > PurgeAfter}

ScanEmpty ==
  /\ worker.phase = "sleep"
  /\ Scan("empty", IdleRooms)
  /\ UNCHANGED <<roomVars, visit, ext>>

\* DeleteHub on the node, then UPDATE rooms SET is_active = FALSE.
DeactivateEmpty(r) ==
  /\ Working("empty", r)
  /\ status' = IF Exists(r) THEN [status EXCEPT ![r] = "inactive"] ELSE status
  /\ worker' = [worker EXCEPT !.todo = @ \ {r}, !.calls = @ + 1]
  /\ UNCHANGED <<idle, left, peopleVars, visit, ext>>

ScanExpired ==
  /\ worker.phase = "empty" /\ PhaseDone
  /\ Scan("expired", ExpiredRooms)
  /\ UNCHANGED <<roomVars, visit, ext>>

\* Disconnect everybody, close the sessions, delete the members ...
EvictMembers(r) ==
  /\ Working("expired", r)
  /\ members' = [members EXCEPT ![r] = {}]
  /\ worker' = [worker EXCEPT !.todo = @ \ {r}, !.cur = r,
                              !.calls = @ + 2 * Cardinality(members[r])]
  /\ UNCHANGED <<status, idle, left, owners, favorites, visit, ext>>

\* ... then delete the hub and mark the room.
DeactivateExpired ==
  LET r == worker.cur IN
  /\ worker.phase = "expired" /\ r # NoRoom
  /\ status' = IF Exists(r) THEN [status EXCEPT ![r] = "inactive"] ELSE status
  /\ worker' = [worker EXCEPT !.cur = NoRoom, !.calls = @ + 1]
  /\ UNCHANGED <<idle, left, peopleVars, visit, ext>>

ScanPurge ==
  /\ worker.phase = "expired" /\ PhaseDone
  /\ Scan("purge", AbandonedRooms)
  /\ UNCHANGED <<roomVars, visit, ext>>

\* Mutant of PurgeDependants: the favorites are forgotten.
PurgeDependantsButFavorites(r) ==
  /\ Working("purge", r)
  /\ owners' = [owners EXCEPT ![r] = {}]
  /\ members' = [members EXCEPT ![r] = {}]
  /\ worker' = [worker EXCEPT !.todo = @ \ {r}, !.cur = r]
  /\ UNCHANGED <<status, idle, left, favorites, visit, ext>>

\* Sessions, roles, favorites, bans, members, messages, invites: one DELETE each.
PurgeDependants(r) ==
  /\ Working("purge", r)
  /\ owners' = [owners EXCEPT ![r] = {}]
  /\ favorites' = [favorites EXCEPT ![r] = {}]
  /\ members' = [members EXCEPT ![r] = {}]
  /\ worker' = [worker EXCEPT !.todo = @ \ {r}, !.cur = r]
  /\ UNCHANGED <<status, idle, left, visit, ext>>

\* Mutant of PurgeRoom: tables without foreign keys.
PurgeRoomUnreferenced ==
  /\ worker.phase = "purge" /\ worker.cur # NoRoom
  /\ status' = [status EXCEPT ![worker.cur] = "deleted"]
  /\ worker' = [worker EXCEPT !.cur = NoRoom]
  /\ UNCHANGED <<idle, left, peopleVars, visit, ext>>

\* DELETE FROM rooms: the foreign keys refuse it when a row refers to the room
\* again; the worker logs that and goes on.
PurgeRoom ==
  LET r == worker.cur IN
  /\ worker.phase = "purge" /\ r # NoRoom
  /\ status' = IF members[r] = {} /\ favorites[r] = {} /\ owners[r] = {}
               THEN [status EXCEPT ![r] = "deleted"] ELSE status
  /\ worker' = [worker EXCEPT !.cur = NoRoom]
  /\ UNCHANGED <<idle, left, peopleVars, visit, ext>>

EndCycle ==
  /\ worker.phase = "purge" /\ PhaseDone
  /\ worker' = Asleep
  /\ UNCHANGED <<roomVars, visit, ext>>

\* A query fails, or a row of its answer cannot be read: the phase goes on with
\* none of the rooms, or with some of them.
ScanPartly ==
  /\ \E found \in SUBSET Rooms :
       \/ /\ worker.phase = "sleep"
          /\ found \subseteq IdleRooms /\ found # IdleRooms
          /\ Scan("empty", found)
       \/ /\ worker.phase = "empty" /\ PhaseDone
          /\ found \subseteq ExpiredRooms /\ found # ExpiredRooms
          /\ Scan("expired", found)
       \/ /\ worker.phase = "expired" /\ PhaseDone
          /\ found \subseteq AbandonedRooms /\ found # AbandonedRooms
          /\ Scan("purge", found)
  /\ UNCHANGED <<roomVars, visit, ext>>

\* The room is not marked: the hub has gone, and the next room is dealt with.
MarkFails ==
  /\ \/ \E r \in worker.todo :
          /\ Working("empty", r)
          /\ status[r] = "active"
          /\ worker' = [worker EXCEPT !.todo = @ \ {r}, !.calls = @ + 1]
     \/ /\ worker.phase = "expired" /\ worker.cur # NoRoom
        /\ status[worker.cur] = "active"
        /\ worker' = [worker EXCEPT !.cur = NoRoom, !.calls = @ + 1]
  /\ UNCHANGED <<roomVars, visit, ext>>

\* The members of an expired room are not deleted, and perhaps not read either,
\* which spares their node calls; the room is closed all the same.
EvictFails(r) ==
  /\ Working("expired", r)
  /\ members[r] # {}
  /\ \E kept \in {{}, members[r]}, read \in {{}, members[r]} :
       /\ kept # {} \/ read = {}
       /\ members' = [members EXCEPT ![r] = kept]
       /\ worker' = [worker EXCEPT !.todo = @ \ {r}, !.cur = r,
                                   !.calls = @ + 2 * Cardinality(read)]
  /\ UNCHANGED <<status, idle, left, owners, favorites, visit, ext>>

\* A DELETE of a purge fails: those before it, of the owners, the favorites and
\* the members in this order, have been made, and the next room is dealt with.
PurgeStops(r) ==
  /\ Working("purge", r)
  /\ \E n \in 0..3 :
       /\ owners' = IF n >= 1 THEN [owners EXCEPT ![r] = {}] ELSE owners
       /\ favorites' = IF n >= 2 THEN [favorites EXCEPT ![r] = {}] ELSE favorites
       /\ members' = IF n >= 3 THEN [members EXCEPT ![r] = {}] ELSE members
  /\ worker' = [worker EXCEPT !.todo = @ \ {r}]
  /\ UNCHANGED <<status, idle, left, visit, ext>>

\* Every error is logged, if at all, and the worker continues.  (The last DELETE
\* of a purge that fails is a PurgeStops too.)
WorkerFails ==
  \/ ScanPartly \/ MarkFails
  \/ \E r \in Rooms : EvictFails(r) \/ PurgeStops(r)

\* The control plane restarts in the middle of a cycle (the requests it cuts
\* off end in VisitFails and ExtendFails): the worker starts over.
Restart ==
  /\ worker.phase # "sleep"
  /\ ~(worker.phase = "purge" /\ PhaseDone)
  /\ worker' = Asleep
  /\ UNCHANGED <<roomVars, visit, ext>>

-----------------------------------------------------------------------------

Older(age) == IF age <= PurgeAfter THEN age + 1 ELSE age
Nearer(t) == IF t = NoExpiry \/ t = -Grace THEN t ELSE t - 1

\* Time passes.
Tick ==
  /\ idle' = [r \in Rooms |-> IF Exists(r) THEN Older(idle[r]) ELSE idle[r]]
  /\ left' = [r \in Rooms |-> IF Exists(r) THEN Nearer(left[r]) ELSE left[r]]
  /\ ext' = [q \in Extensions |-> [ext[q] EXCEPT !.until = Nearer(@)]]
  /\ UNCHANGED <<status, peopleVars, visit, worker>>

UserStep ==
  \/ \E r \in Rooms, expiry \in Expiries \cup {NoExpiry} : CreateRoom(r, expiry)
  \/ \E r \in Rooms, u \in Users :
       PurchaseRoom(r, u) \/ AssignOwner(r, u) \/ ToggleFavorite(r, u)
  \/ \E u \in Users, r \in Rooms : JoinCheck(u, r) \/ LeaveRoom(u, r)
  \/ \E u \in Users : JoinCommit(u) \/ VisitFails(u) \/ LeaveTouches(u)
  \/ \E q \in Extensions, u \in Users, r \in Rooms : ExtendCheck(q, u, r)
  \/ \E q \in Extensions : ExtendRead(q) \/ ExtendCommit(q) \/ ExtendFails(q)

WorkerStep ==
  \/ ScanEmpty   \/ \E r \in Rooms : DeactivateEmpty(r)
  \/ ScanExpired \/ \E r \in Rooms : EvictMembers(r)
  \/ DeactivateExpired
  \/ ScanPurge   \/ \E r \in Rooms : PurgeDependants(r)
  \/ PurgeRoom   \/ EndCycle

Next == UserStep \/ WorkerStep \/ WorkerFails \/ Restart \/ Tick

Spec == Init /\ [][Next]_vars

\* Time goes on, and the worker's loop does: its node calls have a timeout and
\* it logs every error and continues.
FairSpec == Spec /\ WF_vars(WorkerStep) /\ WF_vars(Tick)

-----------------------------------------------------------------------------
(* Properties *)

\* The rows that refer to a room are gone when the room is, whatever was
\* written between the worker's DELETEs (service/cleanup.go:252-294).
NoOrphans ==
  \A r \in Rooms : status[r] = "deleted" =>
    members[r] = {} /\ owners[r] = {} /\ favorites[r] = {}

\* handler/rooms.go:520 "otherwise add to existing": an extension that commits
\* moves the room's expiry by a whole term, whichever extensions run at once.
PaidTimeIsAdded ==
  [][\A q \in Extensions :
       LET r == ext[q].room IN
       ext[q].stage = "locked" /\ ExtendCommit(q) /\ Exists(r) =>
         \/ left[r] = NoExpiry \/ Expired(r)
         \/ left'[r] >= left[r] + Term]_vars

\* A stretch of time in which nobody touches a room: no new members, owners or
\* favorites, nobody leaves last, no extension, no failed query, no restart.
Calm ==
  /\ ~Restart /\ ~WorkerFails
  /\ \A q \in Extensions : ~ExtendCommit(q)
  /\ \A r \in Rooms :
       /\ idle'[r] >= idle[r]
       /\ members'[r] \subseteq members[r]
       /\ owners'[r] \subseteq owners[r]
       /\ favorites'[r] \subseteq favorites[r]

\* An expired room does not stay open: after whatever has failed, the worker
\* deactivates it, unless people extend rooms or queries fail for ever.
ExpiredRoomsClose ==
  (<>[][Calm]_vars) => \A r \in Rooms : [](status[r] = "active" /\ Expired(r)
                                           => <>(status[r] # "active" \/ ~Expired(r)))

\* A room that was deactivated, with whatever rows still refer to it, is purged
\* or extended in the end.
AbandonedRoomsGo ==
  (<>[][Calm]_vars) => \A r \in Rooms : [](status[r] = "inactive"
                                           => <>(status[r] # "inactive"))

=============================================================================
