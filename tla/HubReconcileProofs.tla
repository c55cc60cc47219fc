-------------------------- MODULE HubReconcileProofs ---------------------------
(***************************************************************************)
(* The numbers of hubs, for any number of rooms and of requests that create *)
(* them at the same time.                                                   *)
(*                                                                          *)
(* MAX(id)+1 is read long before the INSERT that takes an id, and the id    *)
(* need not be that number.  What keeps them apart is that a number in hand *)
(* is never above the next id: ids only grow.                               *)
(*                                                                          *)
(* The end of the module is about the hubs that the heartbeat deletes.      *)
(***************************************************************************)
EXTENDS HubReconcile, FiniteSetTheorems, WellFoundedInduction, TLAPS

RowsBelowSeq == \A i \in Rows : i <= seq

NumbersInHand == \A c \in UnderWay :
  /\ creating[c].hub \in Hubs
  /\ creating[c].hub <= seq + 1
  /\ creating[c].stage # "asked" => creating[c].hub <= MaxOctet

\* Every request under way may still take an id.
IdsSuffice == seq + Cardinality(UnderWay) <= MaxId

Inv == TypeOK /\ NumbersAreFree /\ RowsBelowSeq /\ NumbersInHand /\ IdsSuffice

-----------------------------------------------------------------------------
(* Maxima and counts *)

LEMMA MaxExists ==
  ASSUME NEW S \in SUBSET Nat, S # {}, IsFiniteSet(S)
  PROVE  Max(S) \in S
<1> DEFINE above(x) == {y \in S : y >= x}
           T == {above(x) : x \in S}
<1>1. T \subseteq FiniteSubsetsOf(S) /\ T # {}
  <2>1. \A x \in S : above(x) \subseteq S /\ IsFiniteSet(above(x))
    BY FS_Subset
  <2>2. QED
    BY <2>1 DEF FiniteSubsetsOf
<1>2. PICK A \in T : \A B \in T : <<B, A>> \notin StrictSubsetOrdering(S)
  <2> HIDE DEF T
  <2>1. QED
    BY <1>1, FS_StrictSubsetOrderingWellFounded, WFMin
<1>3. PICK x \in S : A = above(x)
  OBVIOUS
<1>4. ASSUME NEW y \in S PROVE x >= y
  <2> SUFFICES ASSUME y > x PROVE FALSE
    OBVIOUS
  <2>1. above(y) \in T /\ above(y) \subseteq S /\ above(x) \subseteq S
    OBVIOUS
  <2>2. above(y) \subseteq above(x) /\ x \in above(x) /\ x \notin above(y)
    <3>1. S \subseteq Nat /\ x \in Nat /\ y \in Nat
      OBVIOUS
    <3>2. x >= x /\ ~(x >= y)
      BY <3>1
    <3>3. ASSUME NEW z \in S, z >= y PROVE z >= x
      BY <3>1, <3>3
    <3>4. QED
      BY <3>2, <3>3
  <2>3. <<above(y), above(x)>> \in StrictSubsetOrdering(S)
    <3> HIDE DEF above
    <3>1. QED
      BY <2>1, <2>2 DEF StrictSubsetOrdering
  <2>4. QED
    BY <1>2, <1>3, <2>1, <2>3
<1>5. QED
  BY <1>4 DEF Max

LEMMA NextNumFits ==
  ASSUME Inv
  PROVE  NextNum \in 1 .. seq + 1
<1> DEFINE S == Rows \cup {0}
<1>1. S \subseteq 0 .. seq /\ seq \in Nat /\ S # {}
  BY ConstantsOK DEF Inv, TypeOK, RowsBelowSeq, Rows, Ids
<1>2. IsFiniteSet(S) /\ S \in SUBSET Nat
  <2> HIDE DEF S
  <2>1. IsFiniteSet(0 .. seq) /\ 0 .. seq \subseteq Nat
    BY <1>1, FS_Interval
  <2>2. QED
    BY <1>1, <2>1, FS_Subset
<1>3. Max(S) \in S
  BY <1>1, <1>2, MaxExists
<1>4. QED
  BY <1>1, <1>3 DEF NextNum

LEMMA UnderWayIsFinite ==
  IsFiniteSet(UnderWay) /\ Cardinality(UnderWay) \in Nat
BY ConstantsOK, FS_Subset, FS_CardinalityType DEF UnderWay

-----------------------------------------------------------------------------
(* Steps *)

LEMMA InitInv == Init => Inv
<1> SUFFICES ASSUME Init PROVE Inv
  OBVIOUS
<1>1. Rows = {} /\ UnderWay = {}
  BY DEF Init, Rows, UnderWay, NotCreating
<1>2. TypeOK
  BY <1>1, ConstantsOK DEF Init, TypeOK, NotCreating, NoCleanup, NoBeat
<1>3. IdsSuffice
  BY <1>1, ConstantsOK, FS_EmptySet DEF Init, IdsSuffice
<1>4. QED
  BY <1>1, <1>2, <1>3 DEF Inv, NumbersAreFree, RowsBelowSeq, NumbersInHand

\* Steps of the node and the worker leave what the numbers depend on alone, but
\* for rows that are deleted.
LEMMA OtherSteps ==
  ASSUME Inv, TypeOK', UNCHANGED <<seq, creating>>,
         \A i \in Rows' : i \in Rows /\ hubOf'[i] = hubOf[i]
  PROVE  Inv'
<1>1. UnderWay' = UnderWay
  BY DEF UnderWay
<1>2. NumbersAreFree' /\ RowsBelowSeq'
  BY DEF Inv, NumbersAreFree, RowsBelowSeq
<1>3. NumbersInHand' /\ IdsSuffice'
  BY <1>1 DEF Inv, NumbersInHand, IdsSuffice
<1>4. QED
  BY <1>2, <1>3 DEF Inv

\* Requests that go on, or end without a row.
LEMMA RequestSteps ==
  ASSUME Inv, TypeOK', UNCHANGED roomVars,
         \A c \in UnderWay' : /\ c \in UnderWay /\ creating'[c].hub = creating[c].hub
                              /\ creating'[c].stage # "asked" => creating[c].hub <= MaxOctet
  PROVE  Inv'
<1>1. UnderWay' \subseteq UnderWay
  OBVIOUS
<1>2. Cardinality(UnderWay') <= Cardinality(UnderWay) /\ Cardinality(UnderWay') \in Nat
  BY <1>1, UnderWayIsFinite, FS_Subset, FS_CardinalityType
<1>3. NumbersAreFree' /\ RowsBelowSeq'
  BY DEF Inv, NumbersAreFree, RowsBelowSeq, roomVars, Rows
<1>4. NumbersInHand'
  BY DEF Inv, NumbersInHand, roomVars
<1>5. IdsSuffice'
  BY <1>2, UnderWayIsFinite, ConstantsOK DEF Inv, TypeOK, IdsSuffice, roomVars
<1>6. QED
  BY <1>3, <1>4, <1>5 DEF Inv

LEMMA AskInv ==
  ASSUME Inv, NEW c \in Creators, NEW h \in 1 .. seq + 1, NEW doomed \in BOOLEAN,
         Ask(c, h, doomed)
  PROVE  Inv'
<1>1. seq \in Nat /\ MaxId \in Nat /\ seq + Cardinality(UnderWay) < MaxId
  BY ConstantsOK DEF Inv, TypeOK, Ask
<1>2. UnderWay' = UnderWay \cup {c} /\ c \notin UnderWay
  BY DEF Inv, TypeOK, Ask, UnderWay
<1>3. Cardinality(UnderWay') = Cardinality(UnderWay) + 1
  BY <1>2, UnderWayIsFinite, FS_AddElement
<1>4. h \in Hubs
  BY <1>1, UnderWayIsFinite DEF Hubs
<1>5. TypeOK'
  BY <1>4 DEF Inv, TypeOK, Ask, roomVars, Rows
<1>6. NumbersAreFree' /\ RowsBelowSeq'
  BY DEF Inv, NumbersAreFree, RowsBelowSeq, Ask, roomVars, Rows
<1>7. NumbersInHand'
  BY <1>1, <1>2, <1>4 DEF Inv, TypeOK, NumbersInHand, Ask, roomVars, UnderWay
<1>8. IdsSuffice'
  BY <1>1, <1>3, UnderWayIsFinite DEF IdsSuffice, Ask, roomVars
<1>9. QED
  BY <1>5, <1>6, <1>7, <1>8 DEF Inv

LEMMA CreateInv ==
  ASSUME Inv, NEW c \in Creators, CreateRoom(c) \/ PurchaseRoom(c)
  PROVE  Inv'
<1>1. NextNum \in 1 .. seq + 1 /\ 1 \in 1 .. seq + 1
  BY NextNumFits, ConstantsOK DEF Inv, TypeOK
<1>2. \E h \in 1 .. seq + 1, doomed \in BOOLEAN : Ask(c, h, doomed)
  BY <1>1 DEF CreateRoom, PurchaseRoom
<1>3. QED
  BY <1>2, AskInv

\* The id is free, and the number in hand is not above it.
LEMMA InsertRoomInv ==
  ASSUME Inv, NEW c \in Creators, InsertRoom(c)
  PROVE  Inv'
<1> DEFINE i == seq + 1
           h == creating[c].hub
<1>1. c \in UnderWay /\ h \in Hubs /\ h <= i /\ h <= MaxOctet
  BY DEF Inv, TypeOK, InsertRoom, UnderWay, NumbersInHand
<1>2. UnderWay' = UnderWay \ {c}
  BY DEF Inv, TypeOK, InsertRoom, UnderWay, NotCreating
<1>3. Cardinality(UnderWay') = Cardinality(UnderWay) - 1 /\ Cardinality(UnderWay) >= 1
  BY <1>1, <1>2, UnderWayIsFinite, FS_RemoveElement, FS_CardinalityType, FS_EmptySet
<1>4. seq \in Nat /\ MaxId \in Nat /\ MaxOctet \in Nat /\ i \in Ids /\ i \notin Rows /\ seq' = i
  BY <1>3, UnderWayIsFinite, ConstantsOK DEF Inv, TypeOK, IdsSuffice, RowsBelowSeq, InsertRoom, Ids
<1>5. IdsSuffice'
  BY <1>3, <1>4, UnderWayIsFinite DEF Inv, IdsSuffice
<1>6. NumbersInHand'
  BY <1>2, <1>4 DEF Inv, TypeOK, NumbersInHand, InsertRoom, NotCreating, UnderWay, Hubs
<1>7. TypeOK' /\ NumbersAreFree' /\ RowsBelowSeq'
  <2>1. CASE UNCHANGED <<hubOf, active>>
    <3>1. Rows' = Rows
      BY <2>1 DEF Rows
    <3>2. TypeOK'
      BY <2>1, <3>1, <1>4 DEF Inv, TypeOK, InsertRoom, NotCreating, Ids
    <3>3. QED
      BY <2>1, <3>1, <3>2, <1>4 DEF Inv, NumbersAreFree, RowsBelowSeq, Rows, Ids
  <2>2. CASE /\ ~\E j \in Rows : hubOf[j] = h
             /\ hubOf' = [hubOf EXCEPT ![i] = h] /\ active' = active \cup {i}
    <3>1. /\ hubOf' \in [Ids -> Hubs \cup {NoHub}] /\ hubOf'[i] = h
          /\ \A j \in Ids : j # i => hubOf'[j] = hubOf[j]
      BY <2>2, <1>1, <1>4 DEF Inv, TypeOK
    <3>2. Rows' = Rows \cup {i}
      BY <3>1, <1>1, <1>4, ConstantsOK DEF Rows
    <3>3. TypeOK'
      BY <2>2, <3>1, <3>2, <1>4 DEF Inv, TypeOK, InsertRoom, NotCreating, Ids
    <3>4. NumbersAreFree'
      BY <2>2, <3>1, <3>2, <1>1, <1>4 DEF Inv, NumbersAreFree, Rows
    <3>5. RowsBelowSeq'
      BY <3>2, <1>4 DEF Inv, RowsBelowSeq, Rows, Ids
    <3>6. QED
      BY <3>3, <3>4, <3>5
  <2>3. QED
    BY <2>1, <2>2 DEF InsertRoom
<1>8. QED
  BY <1>5, <1>6, <1>7 DEF Inv

\* One more stage of a request, and what the node has of its hub.
LEMMA CreatorTypes ==
  ASSUME TypeOK, NEW c \in Creators, NEW h \in Hubs \cup {NoHub},
         NEW stage \in {"configuring", "created"}, NEW state \in {"partial", "ready"},
         creating' = [creating EXCEPT ![c].stage = stage],
         hub' = [hub EXCEPT ![h] = state],
         UNCHANGED <<roomVars, late, cleanup, beat>>
  PROVE  TypeOK'
<1>1. creating' \in [Creators -> [stage : {"none", "asked", "configuring", "created"},
                                  hub : Hubs \cup {NoHub}, doomed : BOOLEAN]]
  BY DEF TypeOK
<1>2. hub' \in [Hubs -> {"absent", "partial", "ready"}]
  BY DEF TypeOK
<1>3. QED
  BY <1>1, <1>2 DEF TypeOK, roomVars, Rows

LEMMA CreatorInv ==
  ASSUME Inv, NEW c \in Creators,
         BeginHub(c) \/ ConfigureHub(c) \/ CreateFails(c) \/ CreateTimesOut(c)
  PROVE  Inv'
<1>1. CASE BeginHub(c)
  <2>1. TypeOK'
    <3>1. TypeOK /\ creating[c].hub \in Hubs \cup {NoHub}
      BY DEF Inv, TypeOK
    <3>2. QED
      BY <1>1, <3>1, CreatorTypes DEF BeginHub, HubCreated
  <2>2. \A d \in UnderWay' : /\ d \in UnderWay /\ creating'[d].hub = creating[d].hub
                             /\ creating'[d].stage # "asked" => creating[d].hub <= MaxOctet
    BY <1>1 DEF Inv, TypeOK, NumbersInHand, UnderWay, BeginHub, HubCreated
  <2>3. QED
    BY <1>1, <2>1, <2>2, RequestSteps DEF BeginHub
<1>2. CASE ConfigureHub(c)
  <2>1. TypeOK'
    <3>1. TypeOK /\ creating[c].hub \in Hubs \cup {NoHub}
      BY DEF Inv, TypeOK
    <3>2. QED
      BY <1>2, <3>1, CreatorTypes DEF ConfigureHub
  <2>2. \A d \in UnderWay' : /\ d \in UnderWay /\ creating'[d].hub = creating[d].hub
                             /\ creating'[d].stage # "asked" => creating[d].hub <= MaxOctet
    BY <1>2 DEF Inv, TypeOK, NumbersInHand, UnderWay, ConfigureHub
  <2>3. QED
    BY <1>2, <2>1, <2>2, RequestSteps DEF ConfigureHub
<1>3. CASE CreateFails(c) \/ CreateTimesOut(c)
  <2>1. creating' = [creating EXCEPT ![c] = NotCreating] /\ UNCHANGED <<roomVars, cleanup, hub, beat>>
    BY <1>3 DEF CreateFails, CreateTimesOut
  <2>2. late' \subseteq {"asked", "configuring"} \X Hubs
    BY <1>3 DEF Inv, TypeOK, NumbersInHand, UnderWay, CreateFails, CreateTimesOut
  <2>3. TypeOK'
    BY <2>1, <2>2 DEF Inv, TypeOK, NotCreating, roomVars, Rows
  <2>4. \A d \in UnderWay' : /\ d \in UnderWay /\ creating'[d].hub = creating[d].hub
                             /\ creating'[d].stage # "asked" => creating[d].hub <= MaxOctet
    BY <2>1 DEF Inv, TypeOK, NumbersInHand, UnderWay, NotCreating
  <2>5. QED
    BY <2>1, <2>3, <2>4, RequestSteps
<1>4. QED
  BY <1>1, <1>2, <1>3

LEMMA LateInv ==
  ASSUME Inv, NEW h \in Hubs, LateBegin(h) \/ LateConfigure(h) \/ LateFails(h)
  PROVE  Inv'
<1>1. UNCHANGED <<roomVars, creating, cleanup, beat>>
  BY DEF LateBegin, LateConfigure, LateFails
<1>2. late' \subseteq {"asked", "configuring"} \X Hubs /\ hub' \in [Hubs -> {"absent", "partial", "ready"}]
  BY DEF Inv, TypeOK, LateBegin, LateConfigure, LateFails, HubCreated
<1>3. TypeOK'
  BY <1>1, <1>2 DEF Inv, TypeOK, roomVars, Rows
<1>4. QED
  BY <1>1, <1>3, OtherSteps DEF roomVars, Rows

\* The worker, purges and extensions.
LEMMA RoomInv ==
  ASSUME Inv,
         \/ CleanupHub \/ MarkInactive \/ CleanupStops
         \/ \E i \in Ids : BeginCleanup(i) \/ PurgeRoom(i) \/ ExtendRoom(i)
  PROVE  Inv'
<1>1. CASE \/ CleanupHub \/ MarkInactive \/ CleanupStops
           \/ \E i \in Ids : BeginCleanup(i) \/ ExtendRoom(i)
  <2>1. UNCHANGED <<hubOf, seq, creating, late, beat>> /\ active' \subseteq Rows
    BY <1>1 DEF Inv, TypeOK, CleanupHub, MarkInactive, CleanupStops, BeginCleanup, ExtendRoom,
       roomVars
  <2>2. /\ hub' \in [Hubs -> {"absent", "partial", "ready"}]
        /\ cleanup' \in [stage : {"none", "deleting", "marking"}, room : Ids \cup {NoRoom}]
    BY <1>1 DEF Inv, TypeOK, CleanupHub, MarkInactive, CleanupStops, BeginCleanup, ExtendRoom,
       NoCleanup
  <2>3. TypeOK'
    BY <2>1, <2>2 DEF Inv, TypeOK, Rows
  <2>4. QED
    BY <2>1, <2>3, OtherSteps DEF Rows
<1>2. ASSUME NEW i \in Ids, PurgeRoom(i) PROVE Inv'
  <2>1. /\ hubOf' = [hubOf EXCEPT ![i] = NoHub] /\ i \notin active
        /\ UNCHANGED <<active, seq, creating, late, cleanup, hub, beat>>
    BY <1>2 DEF PurgeRoom
  <2>2. Rows' = Rows \ {i} /\ \A j \in Rows' : hubOf'[j] = hubOf[j]
    BY <2>1 DEF Inv, TypeOK, Rows
  <2>3. TypeOK'
    BY <2>1, <2>2 DEF Inv, TypeOK
  <2>4. QED
    BY <2>1, <2>2, <2>3, OtherSteps
<1>3. QED
  BY <1>1, <1>2

Beats == [stage : {"idle", "listed", "reconciling"}, listed : SUBSET Hubs,
          missing : SUBSET Hubs, orphans : SUBSET Hubs, cur : Hubs \cup {NoHub}]

LEMMA BeatsUpdated ==
  ASSUME NEW b \in Beats, NEW some \in SUBSET Hubs, NEW h \in Hubs
  PROVE  /\ [b EXCEPT !.missing = some] \in Beats
         /\ [b EXCEPT !.missing = some, !.cur = h] \in Beats
<1>1. ASSUME NEW c \in Beats PROVE [c EXCEPT !.cur = h] \in Beats
  BY DEF Beats
<1>2. [b EXCEPT !.missing = some] \in Beats
  BY DEF Beats
<1>3. QED
  BY <1>1, <1>2

BeatStep ==
  \/ Beat
  \/ ListFails \/ AnswerPartly \/ RecreateFails \/ BeatFails
  \/ \E h \in Hubs : DeleteOrphanFails(h)

LEMMA BeatInv ==
  ASSUME Inv, BeatStep
  PROVE  Inv'
<1> USE DEF Inv, TypeOK
<1>1. UNCHANGED <<roomVars, creating, late, cleanup>>
  BY DEF BeatStep, Beat, ListHubs, Answer, FinishRecreate, EndBeat, Recreate, DeleteOrphan,
         ListFails, AnswerPartly, RecreateFails, BeatFails, DeleteOrphanFails
<1>2. hub' \in [Hubs -> {"absent", "partial", "ready"}]
  BY DEF BeatStep, Beat, ListHubs, Answer, FinishRecreate, EndBeat, Recreate, DeleteOrphan,
         ListFails, AnswerPartly, RecreateFails, BeatFails, DeleteOrphanFails
<1> USE DEF Beats
<1>3. beat' \in Beats
  <2>1. CASE ListHubs \/ ListFails \/ EndBeat \/ BeatFails
    <3>1. \/ beat' = [NoBeat EXCEPT !.stage = "listed", !.listed = Existing]
          \/ beat' = [NoBeat EXCEPT !.stage = "listed"]
          \/ beat' = NoBeat
      BY <2>1 DEF ListHubs, ListFails, EndBeat, BeatFails
    <3>2. NoBeat \in Beats /\ Existing \subseteq Hubs
      BY DEF NoBeat, Existing
    <3>3. QED
      BY <3>1, <3>2
  <2>2. CASE Answer \/ AnswerPartly
    <3>1. Expected \subseteq Hubs
      BY DEF Expected, Rows
    <3>2. PICK known \in SUBSET Hubs :
            beat' = [beat EXCEPT !.stage = "reconciling", !.missing = known \ beat.listed,
                                 !.orphans = beat.listed \ known]
      BY <2>2, <3>1 DEF Answer, AnswerPartly
    <3>3. beat \in Beats /\ known \ beat.listed \in SUBSET Hubs
      OBVIOUS
    <3>4. QED
      BY <3>2, <3>3
  <2>3. CASE FinishRecreate \/ RecreateFails \/ \E h \in Hubs : DeleteOrphan(h) \/ DeleteOrphanFails(h)
    BY <2>3 DEF FinishRecreate, RecreateFails, DeleteOrphan, DeleteOrphanFails
  <2>4. CASE \E h \in Hubs : Recreate(h)
    <3>1. PICK h \in Hubs : \/ beat' = [beat EXCEPT !.missing = @ \ {h}, !.cur = h]
                           \/ beat' = [beat EXCEPT !.missing = @ \ {h}]
      BY <2>4 DEF Recreate
    <3>2. beat \in Beats /\ beat.missing \ {h} \subseteq Hubs
      OBVIOUS
    <3>3. /\ [beat EXCEPT !.missing = beat.missing \ {h}] \in Beats
          /\ [beat EXCEPT !.missing = beat.missing \ {h}, !.cur = h] \in Beats
      BY <3>2, BeatsUpdated
    <3> HIDE DEF Beats
    <3>4. QED
      BY <3>1, <3>3
  <2>5. QED
    BY <2>1, <2>2, <2>3, <2>4 DEF BeatStep, Beat
<1>4. TypeOK'
  BY <1>1, <1>2, <1>3 DEF roomVars, Rows
<1>5. QED
  BY <1>1, <1>4, OtherSteps DEF roomVars, Rows

\* Requests that were configuring a hub on the node are cut off.
LEMMA RebootInv == Inv /\ Reboot => Inv'
<1> SUFFICES ASSUME Inv, Reboot PROVE Inv'
  OBVIOUS
<1>1. /\ creating' = [c \in Creators |->
                        IF creating[c].stage = "configuring" THEN NotCreating ELSE creating[c]]
      /\ UNCHANGED <<roomVars, cleanup>> /\ beat' = NoBeat /\ late' = {}
  BY DEF Reboot
<1>2. hub' \in [Hubs -> {"absent", "partial", "ready"}]
  BY DEF Inv, TypeOK, Reboot
<1>3. TypeOK'
  BY <1>1, <1>2 DEF Inv, TypeOK, NotCreating, NoBeat, roomVars, Rows
<1>4. \A c \in UnderWay' : /\ c \in UnderWay /\ creating'[c].hub = creating[c].hub
                           /\ creating'[c].stage # "asked" => creating[c].hub <= MaxOctet
  BY <1>1 DEF Inv, NumbersInHand, UnderWay, NotCreating
<1>5. QED
  BY <1>1, <1>3, <1>4, RequestSteps

LEMMA StepInv == Inv /\ [Next]_vars => Inv'
<1> SUFFICES ASSUME Inv, [Next]_vars PROVE Inv'
  OBVIOUS
<1>1. ASSUME NEW c \in Creators,
             \/ CreateRoom(c) \/ PurchaseRoom(c) \/ InsertRoom(c)
             \/ BeginHub(c) \/ ConfigureHub(c) \/ CreateFails(c) \/ CreateTimesOut(c)
      PROVE  Inv'
  BY <1>1, CreateInv, InsertRoomInv, CreatorInv
<1>2. ASSUME NEW h \in Hubs, LateBegin(h) \/ LateConfigure(h) \/ LateFails(h)
      PROVE  Inv'
  BY <1>2, LateInv
<1>3. CASE \/ CleanupHub \/ MarkInactive \/ CleanupStops
           \/ \E i \in Ids : BeginCleanup(i) \/ PurgeRoom(i) \/ ExtendRoom(i)
  BY <1>3, RoomInv
<1>4. CASE BeatStep
  BY <1>4, BeatInv
<1>5. CASE Reboot
  BY <1>5, RebootInv
<1>6. CASE UNCHANGED vars
  BY <1>6 DEF vars, roomVars, Inv, TypeOK, NumbersAreFree, RowsBelowSeq, NumbersInHand, IdsSuffice,
              Rows, UnderWay
<1>7. QED
  BY <1>1, <1>2, <1>3, <1>4, <1>5, <1>6 DEF Next, Progress, Disturbance, BeatStep

LEMMA Invariance == Spec => []Inv
<1>1. QED
  BY InitInv, StepInv, PTL DEF Spec

-----------------------------------------------------------------------------

\* Ids, rows, requests and hubs are what they should be: in particular every
\* number that MAX(id)+1 gives is one of a hub, and active rooms have rows.
THEOREM TypeCorrect == Spec => []TypeOK
<1>1. Inv => TypeOK
  BY DEF Inv
<1>2. QED
  BY <1>1, Invariance, PTL

\* However requests to create rooms overlap, fail and waste ids, no two rooms
\* have the same hub, and MAX(id)+1 is the number of no stored room
\* (handler/rooms.go:1429, node-agent/handler/handler.go:168).
THEOREM NumbersStayFree == Spec => []NumbersAreFree
<1>1. Inv => NumbersAreFree
  BY DEF Inv
<1>2. QED
  BY <1>1, Invariance, PTL

-----------------------------------------------------------------------------
(* What the heartbeat deletes.  The list of hubs is made before the request,   *)
(* the rooms are read when it is answered, and the hubs are deleted one by one *)
(* after that: a room stored in between loses the hub made for it.             *)

\* No room becomes active while the heartbeat is about to delete its hub.
RoomsWait ==
  [][\A i \in Ids : i \in active' \ active => hubOf'[i] \notin beat.orphans]_vars

\* No list of rooms is cut short on its way to the node.
AnswersAreWhole == [][~AnswerPartly]_vars

\* The heartbeat deletes no hub of an active room.
UsedHubsStay == [][\A h \in Hubs : DeleteOrphan(h) => h \notin Expected]_vars

OrphansAreUnused ==
  /\ beat.stage # "reconciling" => beat.orphans = {}
  /\ beat.orphans \cap Expected = {}

\* Only what becomes active can be expected anew: the hub of a row never changes.
LEMMA ExpectedGrows ==
  ASSUME Inv, [Next]_vars, NEW h \in Expected' \ Expected
  PROVE  \E i \in Ids : i \in active' \ active /\ hubOf'[i] = h
<1>1. PICK i \in active' : hubOf'[i] = h
  BY DEF Expected
<1>2. Inv'
  BY StepInv
<1>3. i \in Ids
  BY <1>2 DEF Inv, TypeOK, Rows
<1>4. ASSUME i \in active PROVE hubOf'[i] = hubOf[i]
  <2>1. i \in Rows
    BY <1>4 DEF Inv, TypeOK
  <2>2. CASE \E c \in Creators : InsertRoom(c)
    <3>1. seq + 1 # i
      BY <2>1 DEF Inv, TypeOK, RowsBelowSeq, Rows, Ids
    <3>2. QED
      BY <2>2, <3>1, <1>3 DEF InsertRoom, Inv, TypeOK
  <2>3. CASE \E j \in Ids : PurgeRoom(j)
    BY <2>3, <1>3, <1>4 DEF PurgeRoom, Inv, TypeOK
  <2>4. CASE UNCHANGED hubOf
    BY <2>4
  <2>5. QED
    BY <2>2, <2>3, <2>4 DEF Next, Progress, Beat, Disturbance, CreateRoom, PurchaseRoom, Ask,
      BeginHub, ConfigureHub, CreateFails, CreateTimesOut, LateBegin, LateConfigure, LateFails,
      BeginCleanup, CleanupHub, MarkInactive, ExtendRoom, ListHubs, ListFails, Answer, Recreate,
      FinishRecreate, RecreateFails, DeleteOrphan, DeleteOrphanFails, EndBeat, BeatFails, Reboot,
      AnswerPartly, CleanupStops, roomVars, vars
<1>5. QED
  BY <1>1, <1>3, <1>4 DEF Expected

\* The list of orphans is made by the answer; afterwards it only gets shorter.
LEMMA OrphansShrink ==
  ASSUME Inv, OrphansAreUnused, [Next]_vars, [~AnswerPartly]_vars
  PROVE  /\ beat'.stage # "reconciling" => beat'.orphans = {}
         /\ \/ beat'.orphans \subseteq beat.orphans
            \/ Answer /\ beat'.orphans \cap Expected = {}
<1>1. CASE ListHubs \/ ListFails \/ EndBeat \/ BeatFails \/ Reboot
  <2>1. \/ beat' = [NoBeat EXCEPT !.stage = "listed", !.listed = Existing]
        \/ beat' = [NoBeat EXCEPT !.stage = "listed"]
        \/ beat' = NoBeat
    BY <1>1 DEF ListHubs, ListFails, EndBeat, BeatFails, Reboot
  <2>2. NoBeat \in Beats /\ NoBeat.orphans = {}
    BY DEF NoBeat, Beats
  <2>3. \A b \in Beats : /\ [b EXCEPT !.stage = "listed", !.listed = Existing].orphans = b.orphans
                        /\ [b EXCEPT !.stage = "listed"].orphans = b.orphans
    BY DEF Beats
  <2>4. beat'.orphans = {}
    BY <2>1, <2>2, <2>3
  <2>5. QED
    BY <2>4
<1>2. CASE Answer
  BY <1>2 DEF Answer, Inv, TypeOK
<1>3. CASE \/ FinishRecreate \/ RecreateFails
           \/ \E h \in Hubs : Recreate(h) \/ DeleteOrphan(h) \/ DeleteOrphanFails(h)
  <2>1. beat \in Beats
    BY DEF Inv, TypeOK, Beats
  <2>2. beat.stage = "reconciling"
    BY <1>3 DEF FinishRecreate, RecreateFails, Recreate, DeleteOrphan, DeleteOrphanFails
  <2>3. CASE \E h \in Hubs : DeleteOrphan(h) \/ DeleteOrphanFails(h)
    BY <2>1, <2>2, <2>3 DEF DeleteOrphan, DeleteOrphanFails, Beats
  <2>4. CASE FinishRecreate \/ RecreateFails
    BY <2>1, <2>2, <2>4 DEF FinishRecreate, RecreateFails, Beats
  <2>5. CASE \E h \in Hubs : Recreate(h)
    <3>1. PICK h \in Hubs : \/ beat' = [beat EXCEPT !.missing = @ \ {h}, !.cur = h]
                           \/ beat' = [beat EXCEPT !.missing = @ \ {h}]
      BY <2>5 DEF Recreate
    <3>2. beat'.stage = beat.stage /\ beat'.orphans = beat.orphans
      BY <3>1, <2>1 DEF Beats
    <3>3. QED
      BY <2>2, <3>2
  <2>6. QED
    BY <1>3, <2>3, <2>4, <2>5
<1>4. CASE UNCHANGED beat
  BY <1>4 DEF OrphansAreUnused
<1>5. QED
  BY <1>1, <1>2, <1>3, <1>4 DEF Next, Progress, Beat, Disturbance, CreateRoom, PurchaseRoom, Ask,
    BeginHub, ConfigureHub, InsertRoom, CreateFails, CreateTimesOut, LateBegin, LateConfigure,
    LateFails, BeginCleanup, CleanupHub, MarkInactive, CleanupStops, PurgeRoom,
    ExtendRoom, vars

LEMMA OrphansStayUnused ==
  ASSUME Inv, OrphansAreUnused, [Next]_vars, [~AnswerPartly]_vars,
         [\A i \in Ids : i \in active' \ active => hubOf'[i] \notin beat.orphans]_vars
  PROVE  OrphansAreUnused'
<1>1. beat'.stage # "reconciling" => beat'.orphans = {}
  BY OrphansShrink
<1>2. CASE Answer /\ beat'.orphans \cap Expected = {}
  <2>1. Expected' = Expected
    BY <1>2 DEF Answer, roomVars, Expected
  <2>2. QED
    BY <1>1, <1>2, <2>1 DEF OrphansAreUnused
<1>3. CASE beat'.orphans \subseteq beat.orphans
  <2> SUFFICES ASSUME NEW h \in beat.orphans, h \in Expected' PROVE FALSE
    BY <1>1, <1>3 DEF OrphansAreUnused
  <2>1. h \notin Expected
    BY DEF OrphansAreUnused
  <2>2. PICK i \in Ids : i \in active' \ active /\ hubOf'[i] = h
    BY <2>1, ExpectedGrows
  <2>3. QED
    BY <2>2 DEF vars, roomVars
<1>4. QED
  BY <1>2, <1>3, OrphansShrink

\* The heartbeat takes a hub from an active room in two cases only: the room
\* becomes active between the answer and the deletion (node-agent/heartbeat.go:240),
\* or the answer is a list that was cut short (control-plane/handler/heartbeat.go:107).
\* Reboots, late creations, failed lists of hubs and failed commands do not lead to it.
THEOREM UsedHubsAreKept == Spec /\ RoomsWait /\ AnswersAreWhole => UsedHubsStay
<1>1. Init => OrphansAreUnused
  BY DEF Init, NoBeat, OrphansAreUnused
<1>2. /\ Inv /\ OrphansAreUnused /\ [Next]_vars /\ [~AnswerPartly]_vars
      /\ [\A i \in Ids : i \in active' \ active => hubOf'[i] \notin beat.orphans]_vars
      => OrphansAreUnused'
  BY OrphansStayUnused
<1>3. OrphansAreUnused => \A h \in Hubs : DeleteOrphan(h) => h \notin Expected
  BY DEF OrphansAreUnused, DeleteOrphan
<1>4. Spec /\ RoomsWait /\ AnswersAreWhole => []OrphansAreUnused
  BY <1>1, <1>2, Invariance, PTL DEF Spec, RoomsWait, AnswersAreWhole
<1>5. QED
  BY <1>3, <1>4, PTL DEF UsedHubsStay

=============================================================================
