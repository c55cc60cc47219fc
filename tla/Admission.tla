------------------------------ MODULE Admission -------------------------------
(***************************************************************************)
(* Who gets into a room: the transactions of Join and JoinInvite, Leave,    *)
(* and the connections of the pool that they hold.  A join counts the       *)
(* members, asks the pool for a second connection (getNodeByID), calls the  *)
(* node, and inserts the member at the end, all in one transaction.         *)
(*                                                                          *)
(* The count is the answer of a statement that locks the rows it counts:    *)
(* under READ COMMITTED it takes a snapshot, waits for the rows, and then   *)
(* counts those that are still there; rows inserted meanwhile, those of     *)
(* somebody who left and came back too, are not in the snapshot.  Bans,     *)
(* roles and the VPN users are Membership's business.                       *)
(***************************************************************************)
EXTENDS Integers, FiniteSets

CONSTANTS
  Users,
  Requests,          \* HTTP requests that are served at the same time
  NoUser,
  MaxPlayers,        \* rooms.max_players
  MaxUses,           \* room_invites.max_uses; 0 for unlimited
  PoolSize,          \* SetMaxOpenConns
  CountLockAccepted  \* does the database accept SELECT COUNT(*) ... FOR UPDATE?

ASSUME ConstantsOK ==
  /\ IsFiniteSet(Users) /\ IsFiniteSet(Requests)
  /\ NoUser \notin Users
  /\ MaxPlayers \in Nat \ {0}
  /\ MaxUses \in Nat
  /\ PoolSize \in Nat \ {0}
  /\ CountLockAccepted \in BOOLEAN

VARIABLES
  member,  \* users with a row in room_members
  used,    \* room_invites.used_count
  req      \* req[q]: the request under way

vars == <<member, used, req>>

Stages == {"idle", "checked", "begun", "counted", "creating", "again", "leaving"}

Idle == [stage |-> "idle", user |-> NoUser, invite |-> FALSE, rows |-> {}]

TypeOK ==
  /\ member \subseteq Users
  /\ used \in Nat
  /\ req \in [Requests -> [stage : Stages, user : Users \cup {NoUser},
                           invite : BOOLEAN, rows : SUBSET Users]]
  /\ \A q \in Requests : req[q].user = NoUser <=> req[q].stage = "idle"

Init ==
  /\ member = {}
  /\ used = 0
  /\ req = [q \in Requests |-> Idle]

-----------------------------------------------------------------------------
(* Connections and row locks *)

\* Mutant of End: the request ends, its user is not forgotten.
EndKeepsUser(q) == req' = [req EXCEPT ![q].stage = "idle"]

End(q) == req' = [req EXCEPT ![q] = Idle]

\* Mutant of Holding: the transaction of a member is not committed before the
\* node is read.
HoldingLonger ==
  {q \in Requests : req[q].stage \in {"begun", "counted", "creating", "leaving", "again"}}

\* A transaction keeps its connection; so does a statement that waits.
Holding == {q \in Requests : req[q].stage \in {"begun", "counted", "creating", "leaving"}}
FreeConnection == Cardinality(Holding) < PoolSize

Locking == {q \in Requests : req[q].stage \in {"counted", "creating"}}
LockedByOthers(q) == UNION {req[p].rows : p \in Locking \ {q}}

-----------------------------------------------------------------------------
(* Joining *)

\* Join's checks before its transaction: the room is there, active, and so on.
Check(q, u) ==
  /\ req[q] = Idle
  /\ FreeConnection
  /\ req' = [req EXCEPT ![q] = [Idle EXCEPT !.stage = "checked", !.user = u]]
  /\ UNCHANGED <<member, used>>

\* Mutant of CheckInvite: a full invite passes.
CheckInviteOffByOne(q, u) ==
  /\ req[q] = Idle
  /\ FreeConnection
  /\ MaxUses > 0 => used <= MaxUses
  /\ req' = [req EXCEPT ![q] = [Idle EXCEPT !.stage = "checked", !.user = u, !.invite = TRUE]]
  /\ UNCHANGED <<member, used>>

\* JoinInvite compares used_count with max_uses before its transaction, too.
CheckInvite(q, u) ==
  /\ req[q] = Idle
  /\ FreeConnection
  /\ MaxUses > 0 => used < MaxUses
  /\ req' = [req EXCEPT ![q] = [Idle EXCEPT !.stage = "checked", !.user = u, !.invite = TRUE]]
  /\ UNCHANGED <<member, used>>

\* Begin, and the snapshot of the counting statement.
Begin(q) ==
  /\ req[q].stage = "checked"
  /\ FreeConnection
  /\ req' = [req EXCEPT ![q].stage = "begun", ![q].rows = member]
  /\ UNCHANGED <<member, used>>

\* The rows of the snapshot that are still there, once nobody else locks them.
CountReturns(q) ==
  /\ req[q].stage = "begun"
  /\ CountLockAccepted
  /\ req[q].rows \cap LockedByOthers(q) = {}

\* The transaction of somebody who is a member already commits at once; an
\* invite is used up even so.  The node is read afterwards.
AlreadyMember(q) ==
  /\ CountReturns(q)
  /\ req[q].user \in member
  /\ used' = IF req[q].invite THEN used + 1 ELSE used
  /\ req' = [req EXCEPT ![q].stage = "again", ![q].rows = {}]
  /\ UNCHANGED member

\* The room is full, or the count fails: PostgreSQL answers "FOR UPDATE is not
\* allowed with aggregate functions".
Refuse(q) ==
  /\ req[q].stage = "begun"
  /\ CountLockAccepted =>
       /\ CountReturns(q)
       /\ req[q].user \notin member
       /\ Cardinality(req[q].rows) >= MaxPlayers
  /\ End(q)
  /\ UNCHANGED <<member, used>>

\* Mutant of HasSpace: the comparison is the wrong way round.
HasSpaceInverted(q) ==
  /\ CountReturns(q)
  /\ req[q].user \notin member
  /\ Cardinality(req[q].rows) > MaxPlayers
  /\ req' = [req EXCEPT ![q].stage = "counted"]
  /\ UNCHANGED <<member, used>>

\* Mutant of HasSpace: one player too many.
HasSpaceOffByOne(q) ==
  /\ CountReturns(q)
  /\ req[q].user \notin member
  /\ Cardinality(req[q].rows) <= MaxPlayers
  /\ req' = [req EXCEPT ![q].stage = "counted"]
  /\ UNCHANGED <<member, used>>

HasSpace(q) ==
  /\ CountReturns(q)
  /\ req[q].user \notin member
  /\ Cardinality(req[q].rows) < MaxPlayers
  /\ req' = [req EXCEPT ![q].stage = "counted"]
  /\ UNCHANGED <<member, used>>

\* getNodeByID inside the transaction: another connection, given back at once.
GetNode(q) ==
  /\ req[q].stage = "counted"
  /\ FreeConnection
  /\ req' = [req EXCEPT ![q].stage = "creating"]
  /\ UNCHANGED <<member, used>>

GetNodeAgain(q) ==
  /\ req[q].stage = "again"
  /\ FreeConnection
  /\ End(q)
  /\ UNCHANGED <<member, used>>

\* The node has created the VPN user; INSERT and commit.
Admit(q) ==
  /\ req[q].stage = "creating"
  /\ req[q].user \notin member
  /\ member' = member \cup {req[q].user}
  /\ used' = IF req[q].invite THEN used + 1 ELSE used
  /\ End(q)

\* The same user was faster.  Join rolls back and reads the row that is there,
\* JoinInvite fails.
Duplicate(q) ==
  /\ req[q].stage = "creating"
  /\ req[q].user \in member
  /\ IF req[q].invite THEN End(q)
     ELSE req' = [req EXCEPT ![q].stage = "again", ![q].rows = {}]
  /\ UNCHANGED <<member, used>>

\* A wrong password, the node, a statement or the commit fails, or the control
\* plane restarts; the deferred Rollback releases rows and connection.
Fail(q) ==
  /\ req[q] # Idle
  /\ End(q)
  /\ UNCHANGED <<member, used>>

-----------------------------------------------------------------------------
(* Leaving *)

\* Leave, Kick or Ban issue DELETE FROM room_members ...
Leave(q, u) ==
  /\ req[q] = Idle
  /\ u \in member
  /\ FreeConnection
  /\ req' = [req EXCEPT ![q] = [Idle EXCEPT !.stage = "leaving", !.user = u]]
  /\ UNCHANGED <<member, used>>

\* A row that is deleted is gone from all snapshots.
Without(q, u) ==
  [p \in Requests |-> IF p = q THEN Idle ELSE [req[p] EXCEPT !.rows = @ \ {u}]]

\* Mutant of Delete: the rows are counted, but not locked.
DeleteUnlocked(q) ==
  /\ req[q].stage = "leaving"
  /\ member' = member \ {req[q].user}
  /\ req' = Without(q, req[q].user)
  /\ UNCHANGED used

\* ... which waits for a join that counted the row.
Delete(q) ==
  /\ req[q].stage = "leaving"
  /\ req[q].user \notin LockedByOthers(q)
  /\ member' = member \ {req[q].user}
  /\ req' = Without(q, req[q].user)
  /\ UNCHANGED used

-----------------------------------------------------------------------------

Served(q) ==
  \/ Begin(q) \/ AlreadyMember(q) \/ Refuse(q) \/ HasSpace(q)
  \/ GetNode(q) \/ GetNodeAgain(q) \/ Admit(q) \/ Duplicate(q) \/ Delete(q)

Next ==
  \E q \in Requests :
    \/ \E u \in Users : Check(q, u) \/ CheckInvite(q, u) \/ Leave(q, u)
    \/ Served(q)
    \/ Fail(q)

Spec == Init /\ [][Next]_vars

\* Those who wait for a connection or for a row are queued, so nobody is passed
\* over for ever; node and database calls have timeouts.
FairSpec == Spec /\ \A q \in Requests : SF_vars(Served(q))

-----------------------------------------------------------------------------
(* Properties *)

\* Joins implement a turnstile.  The count is checked before the member is added
\* and new rows are not locked (rooms.go:764 and 795), so every request but one
\* may add a member to a full room: that is the capacity, never more.
T == INSTANCE Turnstile WITH
  People <- Users, inside <- member, Capacity <- MaxPlayers + Cardinality(Requests) - 1
TurnstileSpec == T!Spec

\* rooms.go:1375: the uses of an invite are compared before the transaction, so
\* every request but one may use a spent invite; never more.
UsesAreBounded == MaxUses > 0 => used <= MaxUses + Cardinality(Requests) - 1

\* What a join counted is still there while it calls the node: rooms.go:761
\* "Lock room_members rows".
CountedRowsStay ==
  [][\A q \in Locking : q \in Locking' => req'[q].rows = req[q].rows]_vars

\* All connections are taken, and nobody who has one can go on: some wait for a
\* second one (rooms.go:813), the others for rows that those have locked.
Stuck(q) ==
  \/ req[q].stage = "counted"
  \/ /\ req[q].stage \in {"begun", "leaving"}
     /\ LockedByOthers(q) \cap (req[q].rows \cup {req[q].user}) # {}
Exhausted == ~FreeConnection /\ \A q \in Holding : Stuck(q)

\* Nothing but an exhausted pool keeps a request from its answer.
RequestsEnd == \A q \in Requests : [](req[q] # Idle => <>(req[q] = Idle \/ Exhausted))

\* README.md:3 "lets players create and join virtual LAN rooms": if nothing
\* fails any more and people ask again and again to join a room that has space,
\* somebody becomes a member.
NoFailures == <>[][\A q \in Requests : ~Fail(q) \/ Served(q)]_vars
JoinsAreServed ==
  (/\ NoFailures
   /\ [](~Exhausted /\ Cardinality(member) < MaxPlayers)
   /\ []<>(\E q \in Requests : req[q].stage = "begun"))
  => <>(member # {})

=============================================================================
