----------------------------- MODULE HubReconcile -----------------------------
(***************************************************************************)
(* The hubs of one VPN node and the rooms the control plane keeps for it.  *)
(*                                                                         *)
(* A room is created by asking the node for hub_<MAX(id)+1> and inserting  *)
(* the row afterwards; the cleanup worker deletes the hub first and marks  *)
(* the row afterwards; the node's heartbeat lists its hubs, asks which     *)
(* ones the active rooms need, recreates the missing and deletes the       *)
(* others.  The three run concurrently, the node's answers may come too    *)
(* late for the control plane's 10 seconds, and either side may restart.   *)
(*                                                                         *)
(* A hub is set up by several vpncmd calls.  One that exists without all   *)
(* of them is "partial".  Hub h stands for hub_<h> and its subnet          *)
(* 10.10.<h>.0/24.  Which hubs SoftEther keeps over a reboot is not ours   *)
(* to know: any of them may be gone.                                       *)
(***************************************************************************)
EXTENDS Integers, FiniteSets, FiniteSetsExt

CONSTANTS
  MaxId,             \* bound of the model: ids issued to rooms (SERIAL)
  Creators,          \* concurrent CreateRoom and PurchaseRoom requests
  MaxOctet,          \* the last number that fits in a subnet (255)
  CountLockAccepted, \* does the database accept an aggregate FOR UPDATE?
  NoHub,
  NoRoom

Ids == 1..MaxId
Hubs == 1..MaxId

ASSUME ConstantsOK ==
  /\ MaxId \in Nat \ {0}
  /\ IsFiniteSet(Creators)
  /\ MaxOctet \in Nat
  /\ CountLockAccepted \in BOOLEAN
  /\ NoHub \notin Hubs /\ NoRoom \notin Ids

VARIABLES
  hubOf,    \* rooms.hub_name; NoHub: no such row
  active,   \* the rooms with is_active
  seq,      \* the last id issued, by a failed INSERT too
  creating, \* creating[c]: where a request to create a room is
  late,     \* <<stage, hub>>: a creation the control plane gave up waiting for
  cleanup,  \* the room the cleanup worker deactivates
  hub,      \* what the node has of each hub
  beat      \* the node's heartbeat

roomVars == <<hubOf, active, seq>>
vars == <<roomVars, creating, late, cleanup, hub, beat>>

NotCreating == [stage |-> "none", hub |-> NoHub, doomed |-> FALSE]
NoCleanup == [stage |-> "none", room |-> NoRoom]
NoBeat == [stage |-> "idle", listed |-> {}, missing |-> {}, orphans |-> {}, cur |-> NoHub]

Rows == {i \in Ids : hubOf[i] # NoHub}
Expected == {hubOf[i] : i \in active}
Existing == {h \in Hubs : hub[h] # "absent"}

TypeOK ==
  /\ hubOf \in [Ids -> Hubs \cup {NoHub}]
  /\ active \subseteq Rows
  /\ seq \in 0..MaxId
  /\ creating \in [Creators -> [stage : {"none", "asked", "configuring", "created"},
                                hub : Hubs \cup {NoHub}, doomed : BOOLEAN]]
  /\ late \subseteq {"asked", "configuring"} \X Hubs
  /\ cleanup \in [stage : {"none", "deleting", "marking"}, room : Ids \cup {NoRoom}]
  /\ hub \in [Hubs -> {"absent", "partial", "ready"}]
  /\ beat \in [stage : {"idle", "listed", "reconciling"}, listed : SUBSET Hubs,
               missing : SUBSET Hubs, orphans : SUBSET Hubs, cur : Hubs \cup {NoHub}]

Init ==
  /\ hubOf = [i \in Ids |-> NoHub]
  /\ active = {}
  /\ seq = 0
  /\ creating = [c \in Creators |-> NotCreating]
  /\ late = {}
  /\ cleanup = NoCleanup
  /\ hub = [h \in Hubs |-> "absent"]
  /\ beat = NoBeat

-----------------------------------------------------------------------------
(* Creating a room *)

NextNum == Max(Rows \cup {0}) + 1

UnderWay == {c \in Creators : creating[c].stage # "none"}

Ask(c, h, doomed) ==
  /\ creating[c].stage = "none"
  /\ seq + Cardinality(UnderWay) < MaxId
  /\ creating' = [creating EXCEPT ![c] = [stage |-> "asked", hub |-> h, doomed |-> doomed]]
  /\ UNCHANGED <<roomVars, late, cleanup, hub, beat>>

\* AdminHandler.CreateRoom reads MAX(id) and calls the node.  It does not look
\* at the query's error: without an answer the number is 1.
CreateRoom(c) == \E h \in {1, NextNum} : Ask(c, h, FALSE)

\* PurchaseRoom does the same in its transaction.  If the query fails, or the
\* database refuses the lock on MAX(id), the transaction is aborted and the
\* number read is 0; the code goes on to ask for hub_1 and fails at the INSERT.
PurchaseRoom(c) ==
  \E doomed \in {TRUE, ~CountLockAccepted} :
    Ask(c, IF doomed THEN 1 ELSE NextNum, doomed)

\* Handler.HubCreate on the node: the subnet must be valid, and vpncmd refuses
\* a hub that exists.
HubCreated(h) ==
  /\ h <= MaxOctet
  /\ hub[h] = "absent"
  /\ hub' = [hub EXCEPT ![h] = "partial"]

BeginHub(c) ==
  /\ creating[c].stage = "asked"
  /\ HubCreated(creating[c].hub)
  /\ creating' = [creating EXCEPT ![c].stage = "configuring"]
  /\ UNCHANGED <<roomVars, late, cleanup, beat>>

\* The commands after the first; they fail if the hub is gone by then.
ConfigureHub(c) ==
  LET h == creating[c].hub IN
  /\ creating[c].stage = "configuring"
  /\ hub[h] # "absent"
  /\ hub' = [hub EXCEPT ![h] = "ready"]
  /\ creating' = [creating EXCEPT ![c].stage = "created"]
  /\ UNCHANGED <<roomVars, late, cleanup, beat>>

\* Mutant of InsertRoom: hub_name is not UNIQUE.
InsertRoomAgain(c) ==
  /\ creating[c].stage = "created"
  /\ seq' = seq + 1
  /\ IF creating[c].doomed
     THEN UNCHANGED <<hubOf, active>>
     ELSE hubOf' = [hubOf EXCEPT ![seq + 1] = creating[c].hub] /\ active' = active \cup {seq + 1}
  /\ creating' = [creating EXCEPT ![c] = NotCreating]
  /\ UNCHANGED <<late, cleanup, hub, beat>>

\* The INSERT takes an id whatever happens; hub_name is UNIQUE.
InsertRoom(c) ==
  LET i == seq + 1
      h == creating[c].hub
  IN
  /\ creating[c].stage = "created"
  /\ seq' = i
  /\ IF creating[c].doomed \/ \E j \in Rows : hubOf[j] = h
     THEN UNCHANGED <<hubOf, active>>
     ELSE hubOf' = [hubOf EXCEPT ![i] = h] /\ active' = active \cup {i}
  /\ creating' = [creating EXCEPT ![c] = NotCreating]
  /\ UNCHANGED <<late, cleanup, hub, beat>>

\* The node is busy, unreachable, refuses or fails half-way, or a restart: the
\* hub stays as it is, nothing is rolled back on the node.
CreateFails(c) ==
  /\ creating[c].stage # "none"
  /\ creating' = [creating EXCEPT ![c] = NotCreating]
  /\ UNCHANGED <<roomVars, late, cleanup, hub, beat>>

\* The control plane gives up after 10 seconds, the node goes on.
CreateTimesOut(c) ==
  /\ creating[c].stage \in {"asked", "configuring"}
  /\ late' = late \cup {<<creating[c].stage, creating[c].hub>>}
  /\ creating' = [creating EXCEPT ![c] = NotCreating]
  /\ UNCHANGED <<roomVars, cleanup, hub, beat>>

LateBegin(h) ==
  /\ <<"asked", h>> \in late
  /\ HubCreated(h)
  /\ late' = (late \ {<<"asked", h>>}) \cup {<<"configuring", h>>}
  /\ UNCHANGED <<roomVars, creating, cleanup, beat>>

LateConfigure(h) ==
  /\ <<"configuring", h>> \in late
  /\ hub[h] # "absent"
  /\ hub' = [hub EXCEPT ![h] = "ready"]
  /\ late' = late \ {<<"configuring", h>>}
  /\ UNCHANGED <<roomVars, creating, cleanup, beat>>

LateFails(h) ==
  /\ \E stage \in {"asked", "configuring"} :
       <<stage, h>> \in late /\ late' = late \ {<<stage, h>>}
  /\ UNCHANGED <<roomVars, creating, cleanup, hub, beat>>

-----------------------------------------------------------------------------
(* Deactivating, extending and purging a room: see RoomLifecycle *)

BeginCleanup(i) ==
  /\ cleanup.stage = "none"
  /\ i \in active
  /\ cleanup' = [stage |-> "deleting", room |-> i]
  /\ UNCHANGED <<roomVars, creating, late, hub, beat>>

\* DeleteHub is best effort: its failure is logged.
CleanupHub ==
  /\ cleanup.stage = "deleting"
  /\ hub' \in {hub, [hub EXCEPT ![hubOf[cleanup.room]] = "absent"]}
  /\ cleanup' = [cleanup EXCEPT !.stage = "marking"]
  /\ UNCHANGED <<roomVars, creating, late, beat>>

MarkInactive ==
  /\ cleanup.stage = "marking"
  /\ active' = active \ {cleanup.room}
  /\ cleanup' = NoCleanup
  /\ UNCHANGED <<hubOf, seq, creating, late, hub, beat>>

\* The UPDATE fails, or the control plane restarts: the room stays active.
CleanupStops ==
  /\ cleanup.stage # "none"
  /\ cleanup' = NoCleanup
  /\ UNCHANGED <<roomVars, creating, late, hub, beat>>

\* Mutant of PurgeRoom: is_active is not part of the query.
PurgeRoomActive(i) ==
  /\ i \in Rows
  /\ cleanup.stage = "none"
  /\ hubOf' = [hubOf EXCEPT ![i] = NoHub]
  /\ UNCHANGED <<active, seq, creating, late, cleanup, hub, beat>>

PurgeRoom(i) ==
  /\ i \in Rows \ active
  /\ cleanup.stage = "none"     \* the same goroutine
  /\ hubOf' = [hubOf EXCEPT ![i] = NoHub]
  /\ UNCHANGED <<active, seq, creating, late, cleanup, hub, beat>>

\* ExtendRoom: the hub is left to the next heartbeat.
ExtendRoom(i) ==
  /\ i \in Rows \ active
  /\ active' = active \cup {i}
  /\ UNCHANGED <<hubOf, seq, creating, late, cleanup, hub, beat>>

-----------------------------------------------------------------------------
(* The heartbeat *)

\* listHubs; it returns nothing when vpncmd fails.
ListHubs ==
  /\ beat.stage = "idle"
  /\ beat' = [NoBeat EXCEPT !.stage = "listed", !.listed = Existing]
  /\ UNCHANGED <<roomVars, creating, late, cleanup, hub>>

ListFails ==
  /\ beat.stage = "idle"
  /\ beat' = [NoBeat EXCEPT !.stage = "listed"]
  /\ UNCHANGED <<roomVars, creating, late, cleanup, hub>>

\* Mutant of Answer: a node without hubs is left alone.
AnswerUnlessEmpty ==
  /\ beat.stage = "listed"
  /\ beat' = [beat EXCEPT !.stage = "reconciling",
                          !.missing = IF beat.listed = {} THEN {} ELSE Expected \ beat.listed,
                          !.orphans = beat.listed \ Expected]
  /\ UNCHANGED <<roomVars, creating, late, cleanup, hub>>

\* Mutant of Answer: inactive rooms count as well.
AnswerAllRooms ==
  /\ beat.stage = "listed"
  /\ beat' = [beat EXCEPT !.stage = "reconciling",
                          !.missing = Expected \ beat.listed,
                          !.orphans = beat.listed \ {hubOf[i] : i \in Rows}]
  /\ UNCHANGED <<roomVars, creating, late, cleanup, hub>>

\* HeartbeatHandler.Heartbeat answers with the hubs of the active rooms, and
\* reconcileHubs compares them with the list made before the request.
Answer ==
  /\ beat.stage = "listed"
  /\ beat' = [beat EXCEPT !.stage = "reconciling",
                          !.missing = Expected \ beat.listed,
                          !.orphans = beat.listed \ Expected]
  /\ UNCHANGED <<roomVars, creating, late, cleanup, hub>>

\* The list of rooms ends early when a row cannot be read or the connection breaks
\* (control-plane/handler/heartbeat.go:107; rows.Err() is not looked at), and is
\* sent as if it were whole.
AnswerPartly ==
  /\ beat.stage = "listed"
  /\ \E known \in SUBSET Expected \ {Expected} :
       beat' = [beat EXCEPT !.stage = "reconciling",
                            !.missing = known \ beat.listed,
                            !.orphans = beat.listed \ known]
  /\ UNCHANGED <<roomVars, creating, late, cleanup, hub>>

\* recreateHub, first command; it gives the hub up if that fails.
Recreate(h) ==
  /\ beat.stage = "reconciling" /\ beat.cur = NoHub
  /\ h \in beat.missing
  /\ IF hub[h] = "absent" /\ h <= MaxOctet
     THEN /\ hub' = [hub EXCEPT ![h] = "partial"]
          /\ beat' = [beat EXCEPT !.missing = @ \ {h}, !.cur = h]
     ELSE /\ beat' = [beat EXCEPT !.missing = @ \ {h}]
          /\ UNCHANGED hub
  /\ UNCHANGED <<roomVars, creating, late, cleanup>>

\* ... and the others, unless the hub was deleted meanwhile.
FinishRecreate ==
  LET h == beat.cur IN
  /\ beat.stage = "reconciling" /\ h # NoHub
  /\ hub' = [hub EXCEPT ![h] = IF @ = "absent" THEN "absent" ELSE "ready"]
  /\ beat' = [beat EXCEPT !.cur = NoHub]
  /\ UNCHANGED <<roomVars, creating, late, cleanup>>

\* A command fails: recreateHub returns and the loop goes on.
RecreateFails ==
  /\ beat.stage = "reconciling"
  /\ \/ beat.cur # NoHub /\ beat' = [beat EXCEPT !.cur = NoHub]
     \/ beat.cur = NoHub /\ \E h \in beat.missing : beat' = [beat EXCEPT !.missing = @ \ {h}]
  /\ UNCHANGED <<roomVars, creating, late, cleanup, hub>>

DeleteOrphan(h) ==
  /\ beat.stage = "reconciling" /\ beat.cur = NoHub /\ beat.missing = {}
  /\ h \in beat.orphans
  /\ hub' = [hub EXCEPT ![h] = "absent"]
  /\ beat' = [beat EXCEPT !.orphans = @ \ {h}]
  /\ UNCHANGED <<roomVars, creating, late, cleanup>>

DeleteOrphanFails(h) ==
  /\ beat.stage = "reconciling" /\ beat.cur = NoHub /\ beat.missing = {}
  /\ h \in beat.orphans
  /\ beat' = [beat EXCEPT !.orphans = @ \ {h}]
  /\ UNCHANGED <<roomVars, creating, late, cleanup, hub>>

EndBeat ==
  /\ beat.stage = "reconciling" /\ beat.cur = NoHub
  /\ beat.missing = {} /\ beat.orphans = {}
  /\ beat' = NoBeat
  /\ UNCHANGED <<roomVars, creating, late, cleanup, hub>>

\* The control plane is unreachable or answers with an error.
BeatFails ==
  /\ beat.stage = "listed"
  /\ beat' = NoBeat
  /\ UNCHANGED <<roomVars, creating, late, cleanup, hub>>

\* The node reboots: what the agent was doing is cut off, hubs may be gone.
Reboot ==
  /\ \E lost \in SUBSET Existing :
       hub' = [h \in Hubs |-> IF h \in lost THEN "absent" ELSE hub[h]]
  /\ beat' = NoBeat
  /\ late' = {}
  /\ creating' = [c \in Creators |->
                    IF creating[c].stage = "configuring" THEN NotCreating ELSE creating[c]]
  /\ UNCHANGED <<roomVars, cleanup>>

-----------------------------------------------------------------------------

Progress ==
  \/ \E c \in Creators : BeginHub(c) \/ ConfigureHub(c) \/ InsertRoom(c)
  \/ \E i \in Ids : PurgeRoom(i) \/ BeginCleanup(i)
  \/ CleanupHub \/ MarkInactive

Beat ==
  \/ ListHubs \/ Answer \/ FinishRecreate \/ EndBeat
  \/ \E h \in Hubs : Recreate(h) \/ DeleteOrphan(h)

Disturbance ==
  \/ \E c \in Creators :
       CreateRoom(c) \/ PurchaseRoom(c) \/ CreateFails(c) \/ CreateTimesOut(c)
  \/ \E h \in Hubs : LateBegin(h) \/ LateConfigure(h) \/ LateFails(h) \/ DeleteOrphanFails(h)
  \/ \E i \in Ids : ExtendRoom(i)
  \/ CleanupStops \/ ListFails \/ AnswerPartly \/ RecreateFails \/ BeatFails \/ Reboot

Next == Progress \/ Beat \/ Disturbance

Spec == Init /\ [][Next]_vars

\* The heartbeat loop never ends.  Nothing else needs to go on: a request or the
\* worker may stop half-way.
FairSpec == Spec /\ WF_vars(Beat)

-----------------------------------------------------------------------------
(* Properties *)

\* A room is stored only with a subnet the node accepted
\* (node-agent/handler/handler.go:168), and the number in its hub's name is at
\* most its id, so that MAX(id)+1 is the name of no stored room.
NumbersAreFree ==
  /\ \A i \in Rows : hubOf[i] <= MaxOctet /\ hubOf[i] <= i
  /\ \A i, j \in Rows : i # j => hubOf[i] # hubOf[j]

\* From some point on nothing disturbs the node and no room changes hands.
Settled == <>[][Progress \/ Beat]_vars

\* README.md:43 "auto-recovers after reboots": once failures stop, the hubs of
\* all active rooms exist again, whatever was lost, late, half done or deleted on
\* a list of rooms that was cut short.
HubsComeBack == Settled => <>[](Expected \subseteq Existing)

\* node-agent/heartbeat.go:232 "local but not expected -- delete orphans": once
\* failures stop, the hubs that no active room needs are gone, however they
\* came to be there.
OrphansGo == Settled => <>[](Existing \subseteq Expected)

=============================================================================
