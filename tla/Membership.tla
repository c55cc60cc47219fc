------------------------------ MODULE Membership ------------------------------
(***************************************************************************)
(* The people of one room: their rows in room_members with the name of the  *)
(* VPN user made for them on the node, bans and roles.  Join,               *)
(* Leave, Kick, Ban, SetRole, TransferRoom and AssignOwner each run in a    *)
(* goroutine, read before they write, and mostly without a transaction;     *)
(* calls to the node lie in between and are best effort.                    *)
(*                                                                          *)
(* Capacity, invites and the transaction of Join are Admission's business.  *)
(* The name of a VPN user holds the user's id and a random number: here the *)
(* number is one that no row and no request of the user has.  VPN users     *)
(* that neither a row nor a request names are left out; so is                *)
(* rooms.owner_id, which no permission is derived from.                      *)
(***************************************************************************)
EXTENDS Integers, FiniteSets

CONSTANTS
  Users,
  Requests,     \* HTTP requests that are served at the same time
  NoUser,
  SiteAdmin     \* somebody with is_admin in the token, who joins no room

ASSUME ConstantsOK ==
  /\ NoUser \notin Users /\ SiteAdmin \notin Users /\ SiteAdmin # NoUser
  /\ IsFiniteSet(Requests)

VARIABLES
  name,     \* name[u]: the number in vpn_username of u's row; 0 without a row
  banned,   \* room_bans
  role,     \* role[u] in room_roles
  onNode,   \* VPN users of the room's hub: user and number
  lost,     \* history: names of rows whose VPN user was taken from them
  req       \* req[q]: the request under way; failed: a query of it has failed and
            \* was passed over

rowVars == <<name, banned, role>>
vars == <<rowVars, onNode, lost, req>>

\* A row and every request may have a name at the same time.
Numbers == 1 .. Cardinality(Requests) + 1

Roles == {"none", "member", "admin", "owner"}

Idle == [stage |-> "idle", user |-> NoUser, name |-> 0, by |-> NoUser,
         grant |-> "none", ban |-> FALSE, failed |-> FALSE]

Stages == {"idle", "joining", "created",
           "removing", "deleting", "demoting", "revoking", "closing",
           "granting", "transferring"}

TypeOK ==
  /\ name \in [Users -> Numbers \cup {0}]
  /\ banned \subseteq Users
  /\ role \in [Users -> Roles]
  /\ onNode \subseteq Users \X Numbers
  /\ lost \subseteq Users \X Numbers
  /\ req \in [Requests -> [stage : Stages, user : Users \cup {NoUser},
                           name : Numbers \cup {0}, by : Users \cup {NoUser, SiteAdmin},
                           grant : Roles, ban : BOOLEAN, failed : BOOLEAN]]
  /\ \A q \in Requests : req[q].stage = "idle" => req[q] = Idle

IsMember(u) == name[u] # 0

\* A room that was bought has an owner, one that an administrator created none.
Init ==
  /\ name = [u \in Users |-> 0]
  /\ banned = {}
  /\ \E owner \in Users \cup {NoUser} :
       role = [u \in Users |-> IF u = owner THEN "owner" ELSE "none"]
  /\ onNode = {}
  /\ lost = {}
  /\ req = [q \in Requests |-> Idle]

-----------------------------------------------------------------------------
(* Permissions *)

Callers == Users \cup {SiteAdmin}
Managers == {SiteAdmin} \cup {u \in Users : role[u] \in {"owner", "admin"}}
Owners == {SiteAdmin} \cup {u \in Users : role[u] = "owner"}

Start(q, r) == req[q] = Idle /\ req' = [req EXCEPT ![q] = r]
Goto(q, stage) == req' = [req EXCEPT ![q].stage = stage]

\* Mutant of End: the name outlives the request.
EndKeepsName(q) == req' = [req EXCEPT ![q] = [Idle EXCEPT !.name = req[q].name]]

End(q) == req' = [req EXCEPT ![q] = Idle]

\* The names that a row or a request has after the step, and what the node and
\* the history know of them.
Named == ({<<u, name'[u]>> : u \in Users} \cup {<<req'[q].user, req'[q].name>> : q \in Requests})
           \cap (Users \X Numbers)
Node(has, hasLost) ==
  LET named == Named IN onNode' = has \cap named /\ lost' = hasLost \cap named

-----------------------------------------------------------------------------
(* Joining *)

Joining(u) == [Idle EXCEPT !.stage = "joining", !.user = u]

\* Mutant of Join: bans are not looked up.
JoinAnybody(q, u) == Start(q, Joining(u)) /\ UNCHANGED rowVars /\ Node(onNode, lost)

\* Join and JoinInvite look for a ban before their transaction.
Join(q, u) ==
  /\ u \notin banned
  /\ Start(q, Joining(u))
  /\ UNCHANGED rowVars
  /\ Node(onNode, lost)

\* Neither looks at the error of that query: without an answer nobody is banned.
JoinUnread(q, u) ==
  /\ u \in banned
  /\ Start(q, [Joining(u) EXCEPT !.failed = TRUE])
  /\ UNCHANGED rowVars
  /\ Node(onNode, lost)

\* A member gets the name of the row again.
AlreadyMember(q) ==
  /\ req[q].stage = "joining"
  /\ IsMember(req[q].user)
  /\ End(q)
  /\ UNCHANGED rowVars
  /\ Node(onNode, lost)

InUse(u) == {name[u]} \cup {req[q].name : q \in {p \in Requests : req[p].user = u}}
FreshName(u) == CHOOSE n \in Numbers : n \notin InUse(u)

\* CreateVPNUser under a fresh name, at the first or the second attempt.
CreateVPNUser(q) ==
  LET u == req[q].user IN
  /\ req[q].stage = "joining"
  /\ ~IsMember(u)
  /\ req' = [req EXCEPT ![q].stage = "created", ![q].name = FreshName(u)]
  /\ UNCHANGED rowVars
  /\ Node(onNode \cup {<<u, FreshName(u)>>}, lost)

\* Mutant of CreateFails: the second error is ignored.
CreateFailsUnnoticed(q) ==
  /\ req[q].stage = "joining"
  /\ ~IsMember(req[q].user)
  /\ req' = [req EXCEPT ![q].stage = "created", ![q].name = FreshName(req[q].user)]
  /\ UNCHANGED rowVars
  /\ Node(onNode, lost)

\* Both attempts fail.  A VPN user made all the same is one that no row names.
CreateFails(q) ==
  /\ req[q].stage = "joining"
  /\ ~IsMember(req[q].user)
  /\ End(q)
  /\ UNCHANGED rowVars
  /\ Node(onNode, lost)

\* INSERT of member and role, and commit.
InsertMember(q) ==
  LET u == req[q].user IN
  /\ req[q].stage = "created"
  /\ ~IsMember(u)
  /\ name' = [name EXCEPT ![u] = req[q].name]
  /\ role' = [role EXCEPT ![u] = IF @ = "none" THEN "member" ELSE @]
  /\ End(q)
  /\ UNCHANGED banned
  /\ Node(onNode, lost)

\* The user has joined twice at once: the row is there, the VPN user stays.
Duplicate(q) ==
  /\ req[q].stage = "created"
  /\ IsMember(req[q].user)
  /\ End(q)
  /\ UNCHANGED rowVars
  /\ Node(onNode, lost)

-----------------------------------------------------------------------------
(* Leaving, kicking, banning *)

\* The row is read for the name of the VPN user.
Remove(q, u, ban) ==
  /\ IsMember(u)
  /\ Start(q, [Idle EXCEPT !.stage = "removing", !.user = u, !.name = name[u], !.ban = ban])
  /\ UNCHANGED rowVars
  /\ Node(onNode, lost)

\* The member leaves, or the billing worker finds that the shards have run out.
Leave(q, u) == Remove(q, u, FALSE)
Kick(q, a, u) == a \in Managers /\ Remove(q, u, FALSE)
Ban(q, a, u) == a \in Managers /\ Remove(q, u, TRUE)

\* Somebody who is not a member, or whose row cannot be read, is banned all the
\* same.
BanOutsider(q, a, u) ==
  /\ a \in Managers
  /\ Start(q, [Idle EXCEPT !.stage = "closing", !.user = u, !.ban = TRUE])
  /\ UNCHANGED rowVars
  /\ Node(onNode, lost)

\* The billing worker finds no row or cannot read it, and goes on to the role.
KickOutsider(q, u) ==
  /\ Start(q, [Idle EXCEPT !.stage = "demoting", !.user = u])
  /\ UNCHANGED rowVars
  /\ Node(onNode, lost)

\* The node's row cannot be read.  Ban ignores that and goes on to the ban; the
\* others give up, as in CutOff.
NodeNotFound(q) ==
  /\ req[q].stage = "removing"
  /\ req[q].ban
  /\ req' = [req EXCEPT ![q].stage = "closing", ![q].name = 0]
  /\ UNCHANGED rowVars
  /\ Node(onNode, lost)

\* DeleteVPNUser, best effort.
DeleteVPNUser(q) ==
  /\ req[q].stage = "removing"
  /\ Goto(q, "deleting")
  /\ UNCHANGED rowVars
  /\ \E gone \in {{}, {<<req[q].user, req[q].name>>}} : Node(onNode \ gone, lost)

\* DELETE FROM room_members by user, whatever name the row has by now.
DeleteMember(q) ==
  /\ req[q].stage = "deleting"
  /\ name' = [name EXCEPT ![req[q].user] = 0]
  /\ req' = [req EXCEPT ![q].stage = "demoting", ![q].name = 0]
  /\ UNCHANGED <<banned, role>>
  /\ Node(onNode, lost)

\* A DELETE that fails is logged, and the removal goes on.
DeleteFails(q) ==
  /\ req[q].stage = "deleting"
  /\ req' = [req EXCEPT ![q].stage = "demoting", ![q].name = 0]
  /\ UNCHANGED rowVars
  /\ Node(onNode, lost \cup {<<req[q].user, req[q].name>>})

\* Mutant of ReadRole: an admin keeps the role as well.
ReadRoleOfMembers(q) ==
  /\ req[q].stage = "demoting"
  /\ Goto(q, IF role[req[q].user] = "member" THEN "revoking" ELSE "closing")
  /\ UNCHANGED rowVars
  /\ Node(onNode, lost)

\* The role is read, and an owner keeps it.
ReadRole(q) ==
  /\ req[q].stage = "demoting"
  /\ Goto(q, IF role[req[q].user] \in {"none", "owner"} THEN "closing" ELSE "revoking")
  /\ UNCHANGED rowVars
  /\ Node(onNode, lost)

\* DELETE FROM room_roles by user, whatever the role is by now.
DeleteRole(q) ==
  /\ req[q].stage = "revoking"
  /\ role' = [role EXCEPT ![req[q].user] = "none"]
  /\ Goto(q, "closing")
  /\ UNCHANGED <<name, banned>>
  /\ Node(onNode, lost)

\* A SELECT of the role that fails skips the DELETE, a DELETE that fails is logged
\* at most, and the removal goes on.
KeepRole(q) ==
  /\ req[q].stage \in {"demoting", "revoking"}
  /\ req' = [req EXCEPT ![q].stage = "closing", ![q].failed = TRUE]
  /\ UNCHANGED rowVars
  /\ Node(onNode, lost)

\* The play session is closed, and the removal has come to its end.
Close(q) ==
  /\ req[q].stage = "closing"
  /\ ~req[q].ban
  /\ End(q)
  /\ UNCHANGED rowVars
  /\ Node(onNode, lost)

InsertBan(q) ==
  /\ req[q].stage = "closing"
  /\ req[q].ban
  /\ banned' = banned \cup {req[q].user}
  /\ End(q)
  /\ UNCHANGED <<name, role>>
  /\ Node(onNode, lost)

\* When the room has expired, cleanup takes the VPN users one by one, then the
\* rows at once; roles stay.
EvictVPNUser(u) ==
  /\ IsMember(u)
  /\ onNode' = onNode \ {<<u, name[u]>>}
  /\ lost' = lost \cup {<<u, name[u]>>}
  /\ UNCHANGED <<rowVars, req>>

EvictMembers ==
  /\ name' = [u \in Users |-> 0]
  /\ UNCHANGED <<banned, role, req>>
  /\ Node(onNode, lost)

Unban(a, u) ==
  /\ a \in Managers
  /\ u \in banned
  /\ banned' = banned \ {u}
  /\ UNCHANGED <<name, role, onNode, lost, req>>

-----------------------------------------------------------------------------
(* Roles *)

\* SetRole looks whether the user is a member, then writes the role.
SetRole(q, a, u, r) ==
  /\ a \in Owners
  /\ IsMember(u)
  /\ Start(q, [Idle EXCEPT !.stage = "granting", !.user = u, !.grant = r])
  /\ UNCHANGED rowVars
  /\ Node(onNode, lost)

WriteRole(q) ==
  /\ req[q].stage = "granting"
  /\ role' = [role EXCEPT ![req[q].user] = req[q].grant]
  /\ End(q)
  /\ UNCHANGED <<name, banned>>
  /\ Node(onNode, lost)

\* TransferRoom asks whether the caller is the owner, then, in a transaction,
\* makes the caller an admin and the other the owner.  A site administrator
\* has all permissions anyway.
TransferRoom(q, a, u) ==
  /\ a \in Owners
  /\ Start(q, [Idle EXCEPT !.stage = "transferring", !.user = u, !.by = a])
  /\ UNCHANGED rowVars
  /\ Node(onNode, lost)

CommitTransfer(q) ==
  LET u == req[q].user IN
  /\ req[q].stage = "transferring"
  /\ role' = [[v \in Users |-> IF v = req[q].by THEN "admin" ELSE role[v]]
               EXCEPT ![u] = "owner"]
  /\ End(q)
  /\ UNCHANGED <<name, banned>>
  /\ Node(onNode, lost)

\* AdminHandler.AssignOwner: the write of room_roles by setRoomOwner.
AssignOwner(u) ==
  /\ role' = [role EXCEPT ![u] = "owner"]
  /\ UNCHANGED <<name, banned, onNode, lost, req>>

-----------------------------------------------------------------------------
(* Failures *)

\* The request fails or the control plane restarts; what is done stays done.
CutOff(q) ==
  /\ req[q] # Idle
  /\ End(q)
  /\ UNCHANGED rowVars
  /\ Node(onNode, IF req[q].stage = "deleting"
                  THEN lost \cup {<<req[q].user, req[q].name>>} ELSE lost)

\* The node loses the hub; the heartbeat makes it again, without its users.
HubLost ==
  /\ onNode # {}
  /\ onNode' = {}
  /\ lost' = lost \cup onNode
  /\ UNCHANGED <<rowVars, req>>

-----------------------------------------------------------------------------

Begins(q) ==
  \/ \E u \in Users : Join(q, u) \/ JoinUnread(q, u) \/ Leave(q, u) \/ KickOutsider(q, u)
  \/ \E a \in Callers, u \in Users :
       \/ Kick(q, a, u) \/ Ban(q, a, u) \/ BanOutsider(q, a, u) \/ TransferRoom(q, a, u)
       \/ \E r \in {"member", "admin"} : SetRole(q, a, u, r)

Proceeds(q) ==
  \/ AlreadyMember(q) \/ CreateVPNUser(q) \/ CreateFails(q)
  \/ InsertMember(q) \/ Duplicate(q)
  \/ NodeNotFound(q) \/ DeleteVPNUser(q) \/ DeleteMember(q) \/ DeleteFails(q)
  \/ ReadRole(q) \/ DeleteRole(q) \/ KeepRole(q) \/ Close(q) \/ InsertBan(q)
  \/ WriteRole(q) \/ CommitTransfer(q)

Next ==
  \/ \E q \in Requests : Begins(q) \/ Proceeds(q) \/ CutOff(q)
  \/ \E a \in Callers, u \in Users : Unban(a, u)
  \/ \E u \in Users : AssignOwner(u) \/ EvictVPNUser(u)
  \/ EvictMembers
  \/ HubLost

Spec == Init /\ [][Next]_vars

-----------------------------------------------------------------------------
(* Properties *)

\* The credentials of a member work: the node has the VPN user of every row,
\* unless a removal of that very name is under way, or stopped half-way, the
\* expiry has taken it, or the node lost its hub (rooms.go:824 creates the user
\* before the row).
Removing(u) == \E q \in Requests :
  req[q].stage = "deleting" /\ req[q].user = u /\ req[q].name = name[u]
MembersCanConnect ==
  \A u \in Users : IsMember(u) => <<u, name[u]>> \in onNode \cup lost \/ Removing(u)

\* The step in which a request passes over a failed query, for u.
PassesOver(q, u) == req'[q].failed /\ ~req[q].failed /\ req'[q].user = u

\* rooms.go:745 and 1380: somebody who is banned and out, and has no join under
\* way that began before the ban, stays out until the ban is lifted; except when
\* the query for the ban fails, whose error is not looked at.
Out(u) ==
  /\ ~IsMember(u)
  /\ \A q \in Requests : req[q].stage \in {"joining", "created"} => req[q].user # u
BansHold == [][\A u \in banned \cap banned' :
  Out(u) => Out(u)' \/ \E q \in Requests : PassesOver(q, u)]_vars

\* Whoever is out of the room keeps no power over it: a member's or an admin's
\* role goes with the row (rooms.go:959 and 1660), whatever SetRole, TransferRoom
\* and AssignOwner make of it meanwhile.  These steps alone leave a role without
\* a row: a removal that is cut off or passes over a failed query of the role, a
\* SetRole that began while the user was a member, a transfer by an owner who
\* never joined, and the expiry of the room.
LeftOver(u) ==
  /\ ~IsMember(u) /\ role[u] \in {"member", "admin"}
  /\ \A q \in Requests : req[q].stage \in {"demoting", "revoking"} => req[q].user # u
LeavesRole(q, u) ==
  \/ PassesOver(q, u)
  \/ (CutOff(q) \/ WriteRole(q)) /\ req[q].user = u
  \/ CommitTransfer(q) /\ req[q].by = u
RolesGoToo == [][\A u \in Users :
  LeftOver(u)' => LeftOver(u) \/ EvictMembers \/ \E q \in Requests : LeavesRole(q, u)]_vars

=============================================================================
