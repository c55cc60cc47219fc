---------------------------- MODULE AdmissionProofs ----------------------------
(***************************************************************************)
(* How many people and uses of an invite the checks of Join and JoinInvite  *)
(* let through, for any capacity, any number of users and any number of     *)
(* requests served at once.                                                 *)
(*                                                                         *)
(* A join that counted few rows may add a member long after the room has    *)
(* filled up.  The invariant bounds those who may still do so: the more     *)
(* people are inside, the fewer requests have counted less than the         *)
(* capacity.  As people leave, counts that were too high come down, so the  *)
(* bound is kept for every number of rows above the capacity.               *)
(***************************************************************************)
EXTENDS Admission, FiniteSetTheorems, TLAPS

N == Cardinality(Requests)

\* Requests that have a snapshot, and those that have j rows too many, or fewer.
Counting == {q \in Requests : req[q].stage \in {"begun", "counted", "creating"}}
Below(j) == {q \in Counting : Cardinality(req[q].rows) < MaxPlayers + j}

\* Uses of the invite that are still to be recorded.
Pending == {q \in Requests :
  req[q].invite /\ req[q].stage \in {"checked", "begun", "counted", "creating"}}

Seen == \A q \in Counting : req[q].rows \subseteq member
LocksFit == \A q \in Locking : Cardinality(req[q].rows) < MaxPlayers
Crowd == \A j \in Nat :
  Cardinality(member) + Cardinality(Below(j)) <= MaxPlayers + j - 1 + N
Uses == MaxUses > 0 => used + Cardinality(Pending) <= MaxUses + N - 1

Inv == TypeOK /\ Seen /\ LocksFit /\ Crowd /\ Uses

-----------------------------------------------------------------------------
(* Types *)

LEMMA InitType == Init => TypeOK
  BY ConstantsOK DEF Init, TypeOK, Stages, Idle

LEMMA JoinTypes ==
  ASSUME TypeOK, NEW q \in Requests, NEW u \in Users,
         Check(q, u) \/ CheckInvite(q, u) \/ Leave(q, u)
  PROVE  TypeOK'
<1>1. CASE Check(q, u)
  BY <1>1, ConstantsOK DEF TypeOK, Check, Stages, Idle
<1>2. CASE CheckInvite(q, u)
  BY <1>2, ConstantsOK DEF TypeOK, CheckInvite, Stages, Idle
<1>3. CASE Leave(q, u)
  BY <1>3, ConstantsOK DEF TypeOK, Leave, Stages, Idle
<1>4. QED
  BY <1>1, <1>2, <1>3

LEMMA EndType ==
  ASSUME TypeOK, NEW q \in Requests, End(q), member' \subseteq Users, used' \in Nat
  PROVE  TypeOK'
  BY DEF TypeOK, End, Stages, Idle

LEMMA ServedTypes ==
  ASSUME TypeOK, NEW q \in Requests, Served(q) \/ Fail(q)
  PROVE  TypeOK'
<1>1. member \subseteq Users /\ used \in Nat /\ used + 1 \in Nat
  BY DEF TypeOK
<1>2. CASE Begin(q)
  BY <1>2 DEF TypeOK, Begin, Stages
<1>3. CASE AlreadyMember(q)
  BY <1>3, <1>1 DEF TypeOK, AlreadyMember, CountReturns, Stages
<1>4. CASE HasSpace(q)
  BY <1>4 DEF TypeOK, HasSpace, CountReturns, Stages
<1>5. CASE GetNode(q)
  BY <1>5 DEF TypeOK, GetNode, Stages
<1>6. CASE Refuse(q) \/ GetNodeAgain(q) \/ Fail(q)
  BY <1>6, <1>1, EndType DEF Refuse, GetNodeAgain, Fail
<1>7. CASE Admit(q)
  <2>1. req[q].user \in Users
    BY <1>7 DEF TypeOK, Admit
  <2>2. QED
    BY <1>7, <1>1, <2>1, EndType DEF Admit
<1>8. CASE Duplicate(q)
  <2>1. CASE req[q].invite
    BY <1>8, <1>1, <2>1, EndType DEF Duplicate
  <2>2. CASE ~req[q].invite
    BY <1>8, <2>2 DEF TypeOK, Duplicate, Stages
  <2>3. QED
    BY <2>1, <2>2
<1>9. CASE Delete(q)
  BY <1>9 DEF TypeOK, Delete, Without, Stages, Idle
<1>10. QED
  BY <1>2, <1>3, <1>4, <1>5, <1>6, <1>7, <1>8, <1>9 DEF Served

LEMMA NextType == TypeOK /\ [Next]_vars => TypeOK'
<1>1. TypeOK /\ UNCHANGED vars => TypeOK'
  BY DEF TypeOK, vars
<1>2. QED
  BY <1>1, JoinTypes, ServedTypes DEF Next

-----------------------------------------------------------------------------
(* Counting *)

LEMMA RequestSets ==
  /\ N \in Nat
  /\ \A S \in SUBSET Requests : IsFiniteSet(S) /\ Cardinality(S) \in 0 .. N
<1>1. N \in Nat
  BY ConstantsOK, FS_CardinalityType DEF N
<1>2. ASSUME NEW S \in SUBSET Requests
      PROVE  IsFiniteSet(S) /\ Cardinality(S) \in 0 .. N
  <2>1. IsFiniteSet(S) /\ Cardinality(S) <= N
    BY ConstantsOK, FS_Subset DEF N
  <2>2. Cardinality(S) \in Nat
    BY <2>1, FS_CardinalityType
  <2>3. QED
    BY <2>1, <2>2, <1>1
<1>3. QED
  BY <1>1, <1>2

LEMMA Sizes ==
  ASSUME TypeOK
  PROVE  /\ IsFiniteSet(member) /\ Cardinality(member) \in Nat
         /\ N \in Nat
         /\ IsFiniteSet(Pending) /\ Cardinality(Pending) \in 0 .. N
         /\ \A q \in Requests : IsFiniteSet(req[q].rows) /\ Cardinality(req[q].rows) \in Nat
         /\ \A j \in Nat : IsFiniteSet(Below(j)) /\ Cardinality(Below(j)) \in 0 .. N
<1>1. \A S \in SUBSET Users : IsFiniteSet(S) /\ Cardinality(S) \in Nat
  BY ConstantsOK, FS_Subset, FS_CardinalityType
<1>2. member \in SUBSET Users /\ \A q \in Requests : req[q].rows \in SUBSET Users
  BY DEF TypeOK
<1>3. Pending \in SUBSET Requests /\ \A j \in Nat : Below(j) \in SUBSET Requests
  BY DEF Pending, Below, Counting
<1>4. QED
  BY <1>1, <1>2, <1>3, RequestSets

\* A step that only takes requests out keeps the bound on the members.
LEMMA CrowdKept ==
  ASSUME Inv, TypeOK', member' = member,
         \A j \in Nat : Below(j)' \subseteq Below(j)
  PROVE  Crowd'
<1> SUFFICES ASSUME NEW j \in Nat
             PROVE  Cardinality(member) + Cardinality(Below(j)') <= MaxPlayers + j - 1 + N
  BY DEF Crowd
<1>1. Cardinality(Below(j)') <= Cardinality(Below(j))
  BY Sizes, FS_Subset DEF Inv
<1>2. Cardinality(Below(j)') \in Nat
  BY RequestSets DEF Below, Counting
<1>3. QED
  BY <1>1, <1>2, Sizes, ConstantsOK DEF Inv, Crowd

LEMMA UsesKept ==
  ASSUME Inv, TypeOK', used' = used, Pending' \subseteq Pending
  PROVE  Uses'
<1>1. Cardinality(Pending') <= Cardinality(Pending)
  BY Sizes, FS_Subset DEF Inv
<1>2. Cardinality(Pending') \in Nat
  BY RequestSets DEF Pending
<1>3. QED
  BY <1>1, <1>2, Sizes, ConstantsOK DEF Inv, TypeOK, Uses

\* A recorded use is no longer pending.
LEMMA UseRecorded ==
  ASSUME Inv, TypeOK', NEW q \in Requests,
         req[q].stage \in {"begun", "creating"},
         used' = IF req[q].invite THEN used + 1 ELSE used,
         Pending' = Pending \ {q}
  PROVE  Uses'
<1>1. CASE ~req[q].invite
  BY <1>1, UsesKept
<1>2. CASE req[q].invite
  <2>1. q \in Pending
    BY <1>2 DEF Pending
  <2>2. Cardinality(Pending') = Cardinality(Pending) - 1
    BY <2>1, Sizes, FS_RemoveElement DEF Inv
  <2>3. QED
    BY <1>2, <2>2, Sizes, ConstantsOK DEF Inv, Uses, TypeOK
<1>3. QED
  BY <1>1, <1>2

-----------------------------------------------------------------------------
(* The steps *)

LEMMA InitInv == Init => Inv
<1> SUFFICES ASSUME Init
             PROVE  Inv
  OBVIOUS
<1>1. TypeOK
  BY InitType
<1>2. Counting = {} /\ Pending = {} /\ Locking = {}
  BY DEF Init, Counting, Pending, Locking, Idle
<1>3. \A j \in Nat : Below(j) = {}
  BY <1>2 DEF Below
<1>4. Crowd
  BY <1>1, <1>3, Sizes, FS_EmptySet, ConstantsOK DEF Crowd, Init
<1>5. Uses
  BY <1>1, <1>2, Sizes, FS_EmptySet, ConstantsOK DEF Uses, Init
<1>6. QED
  BY <1>1, <1>2, <1>4, <1>5 DEF Inv, LocksFit, Seen

\* A request that begins has neither counted nor a use to record, but for the
\* joins by invite, whose use is still allowed when they are checked.
LEMMA JoinInv ==
  ASSUME Inv, NEW q \in Requests, NEW u \in Users,
         Check(q, u) \/ CheckInvite(q, u) \/ Leave(q, u)
  PROVE  Inv'
<1>1. TypeOK'
  BY JoinTypes DEF Inv
<1>2. /\ \A p \in Requests \ {q} : req'[p] = req[p]
      /\ req'[q].stage \in {"checked", "leaving"}
      /\ UNCHANGED <<member, used>>
  BY DEF Check, CheckInvite, Leave, Inv, TypeOK, Idle
<1>3. \A j \in Nat : Below(j)' \subseteq Below(j)
  BY <1>2 DEF Below, Counting
<1>4. LocksFit' /\ Seen'
  BY <1>2 DEF Inv, LocksFit, Locking, Seen, Counting
<1>5. Uses'
  <2>1. CASE CheckInvite(q, u)
    <3>1. MaxUses > 0 => used < MaxUses
      BY <2>1 DEF CheckInvite
    <3>2. Cardinality(Pending') \in 0 .. N
      BY RequestSets DEF Pending
    <3>3. QED
      BY <1>2, <3>1, <3>2, RequestSets, ConstantsOK DEF Uses, Inv, TypeOK
  <2>2. CASE Check(q, u) \/ Leave(q, u)
    <3>1. ~(req'[q].invite /\ req'[q].stage = "checked") /\ req'[q].stage \in {"checked", "leaving"}
      BY <2>2 DEF Check, Leave, Inv, TypeOK, Idle
    <3>2. Pending' \subseteq Pending
      BY <3>1, <1>2 DEF Pending
    <3>3. QED
      BY <1>1, <1>2, <3>2, UsesKept
  <2>3. QED
    BY <2>1, <2>2
<1>6. QED
  BY <1>1, <1>2, <1>3, <1>4, <1>5, CrowdKept DEF Inv

\* A snapshot of a room that is not over-full by j rows leaves space for all
\* requests; any other snapshot is not among those with so few rows.
LEMMA BeginInv ==
  ASSUME Inv, NEW q \in Requests, Begin(q)
  PROVE  Inv'
<1>1. TypeOK'
  BY ServedTypes DEF Inv, Served
<1>2. /\ \A p \in Requests \ {q} : req'[p] = req[p]
      /\ req[q].stage = "checked" /\ req'[q].stage = "begun"
      /\ req'[q].invite = req[q].invite
      /\ req'[q].rows = member
      /\ UNCHANGED <<member, used>>
  BY DEF Begin, Inv, TypeOK
<1>3. LocksFit' /\ Seen'
  BY <1>2 DEF Inv, LocksFit, Locking, Seen, Counting
<1>4. Pending' \subseteq Pending
  BY <1>2 DEF Pending
<1>5. ASSUME NEW j \in Nat
      PROVE  Cardinality(member) + Cardinality(Below(j)') <= MaxPlayers + j - 1 + N
  <2>1. CASE Cardinality(member) < MaxPlayers + j
    <3>1. Cardinality(Below(j)') \in 0 .. N
      BY RequestSets DEF Below, Counting
    <3>2. QED
      BY <2>1, <3>1, Sizes, ConstantsOK DEF Inv
  <2>2. CASE ~(Cardinality(member) < MaxPlayers + j)
    <3>1. Below(j)' \subseteq Below(j)
      BY <1>2, <2>2 DEF Below, Counting
    <3>2. Cardinality(Below(j)') <= Cardinality(Below(j))
      BY <3>1, Sizes, FS_Subset DEF Inv
    <3>3. Cardinality(Below(j)') \in 0 .. N
      BY RequestSets DEF Below, Counting
    <3>4. QED
      BY <3>2, <3>3, Sizes, ConstantsOK DEF Inv, Crowd
  <2>3. QED
    BY <2>1, <2>2
<1>6. Crowd'
  BY <1>2, <1>5 DEF Crowd
<1>7. QED
  BY <1>1, <1>2, <1>3, <1>4, <1>6, UsesKept DEF Inv

\* A request that goes on, or ends, without a new member.
LEMMA ProceedInv ==
  ASSUME Inv, TypeOK', NEW q \in Requests, member' = member,
         \A p \in Requests \ {q} : req'[p] = req[p],
         \/ req'[q].stage \in {"idle", "again"}
         \/ /\ req[q].stage \in {"begun", "counted"}
            /\ req'[q] = [req[q] EXCEPT !.stage = req'[q].stage]
            /\ req'[q].stage \in {"counted", "creating"}
            /\ Cardinality(req[q].rows) < MaxPlayers,
         Uses'
  PROVE  Inv'
<1>1. /\ req'[q].stage \in {"begun", "counted", "creating"}
           => req[q].stage \in {"begun", "counted", "creating"} /\ req'[q].rows = req[q].rows
      /\ req'[q].stage \in {"counted", "creating"} => Cardinality(req'[q].rows) < MaxPlayers
  BY DEF Inv, TypeOK
<1>2. \A j \in Nat : Below(j)' \subseteq Below(j)
  BY <1>1 DEF Below, Counting
<1>3. LocksFit' /\ Seen'
  BY <1>1 DEF Inv, LocksFit, Locking, Seen, Counting
<1>4. QED
  BY <1>2, <1>3, CrowdKept DEF Inv

\* A new member: one request less has counted less than the capacity.
LEMMA AdmitInv ==
  ASSUME Inv, NEW q \in Requests, Admit(q)
  PROVE  Inv'
<1>1. TypeOK'
  BY ServedTypes DEF Inv, Served
<1>2. /\ \A p \in Requests \ {q} : req'[p] = req[p]
      /\ req[q].stage = "creating" /\ req'[q].stage = "idle"
      /\ ~req'[q].invite
  BY DEF Admit, End, Inv, TypeOK, Idle
<1>3. LocksFit' /\ Seen'
  BY <1>2 DEF Inv, LocksFit, Locking, Seen, Counting, Admit
<1>4. Pending' = Pending \ {q}
  BY <1>2 DEF Pending
<1>5. Uses'
  BY <1>1, <1>2, <1>4, UseRecorded DEF Admit
<1>6. Cardinality(req[q].rows) < MaxPlayers /\ Cardinality(req[q].rows) \in Nat
  BY <1>2, Sizes DEF Inv, LocksFit, Locking
<1>7. Cardinality(member') = Cardinality(member) + 1
  BY Sizes, FS_AddElement DEF Inv, Admit
<1>8. ASSUME NEW j \in Nat
      PROVE  Cardinality(member') + Cardinality(Below(j)') <= MaxPlayers + j - 1 + N
  <2>1. q \in Below(j)
    BY <1>2, <1>6, ConstantsOK DEF Below, Counting
  <2>2. Below(j)' = Below(j) \ {q}
    BY <1>2 DEF Below, Counting
  <2>3. Cardinality(Below(j)') = Cardinality(Below(j)) - 1
    BY <2>1, <2>2, Sizes, FS_RemoveElement DEF Inv
  <2>4. QED
    BY <1>7, <2>3, Sizes, ConstantsOK DEF Inv, Crowd
<1>9. QED
  BY <1>1, <1>3, <1>5, <1>8 DEF Inv, Crowd

\* Somebody leaves: all counts fall by one at most, so those below one bound
\* were below the next.
LEMMA DeleteInv ==
  ASSUME Inv, NEW q \in Requests, Delete(q)
  PROVE  Inv'
<1> DEFINE u == req[q].user
<1>1. TypeOK'
  BY ServedTypes DEF Inv, Served
<1>2. /\ \A p \in Requests \ {q} : /\ req'[p].stage = req[p].stage
                                   /\ req'[p].invite = req[p].invite
                                   /\ req'[p].rows = req[p].rows \ {u}
      /\ req[q].stage = "leaving" /\ req'[q].stage = "idle"
      /\ member' = member \ {u} /\ used' = used
  BY DEF Delete, Without, Inv, TypeOK, Idle
<1>3. \A p \in Requests : IsFiniteSet(req[p].rows) /\ Cardinality(req[p].rows) \in Nat
  BY Sizes DEF Inv
<1>4. \A p \in Requests : Cardinality(req[p].rows \ {u}) \in
        {Cardinality(req[p].rows), Cardinality(req[p].rows) - 1}
  BY <1>3, FS_RemoveElement
<1>5. LocksFit'
  <2> SUFFICES ASSUME NEW p \in Locking'
               PROVE  Cardinality(req'[p].rows) < MaxPlayers
    BY DEF LocksFit
  <2>1. p \in Requests \ {q} /\ p \in Locking
    BY <1>2 DEF Locking
  <2>2. Cardinality(req[p].rows) < MaxPlayers
    BY <2>1 DEF Inv, LocksFit
  <2>3. QED
    BY <1>2, <1>3, <1>4, <2>1, <2>2, ConstantsOK
<1>6. Pending' \subseteq Pending /\ Seen'
  BY <1>2 DEF Pending, Inv, Seen, Counting
<1>7. ASSUME NEW j \in Nat
      PROVE  Cardinality(member') + Cardinality(Below(j)') <= MaxPlayers + j - 1 + N
  <2>1. CASE u \in member
    <3>1. Below(j)' \subseteq Below(j + 1)
      <4> SUFFICES ASSUME NEW p \in Below(j)'
                   PROVE  p \in Below(j + 1)
        OBVIOUS
      <4>1. p \in Requests \ {q} /\ p \in Counting
        BY <1>2 DEF Below, Counting
      <4>2. Cardinality(req[p].rows \ {u}) < MaxPlayers + j
        BY <1>2, <4>1 DEF Below
      <4>3. Cardinality(req[p].rows) < MaxPlayers + (j + 1)
        BY <1>3, <1>4, <4>1, <4>2, ConstantsOK
      <4>4. QED
        BY <4>1, <4>3 DEF Below
    <3>2. Cardinality(Below(j)') <= Cardinality(Below(j + 1))
      BY <3>1, Sizes, FS_Subset DEF Inv
    <3>3. Cardinality(member') = Cardinality(member) - 1
      BY <1>2, <2>1, Sizes, FS_RemoveElement DEF Inv
    <3>4. Cardinality(member) + Cardinality(Below(j + 1)) <= MaxPlayers + (j + 1) - 1 + N
      BY DEF Inv, Crowd
    <3>5. /\ Cardinality(member) \in Nat /\ N \in Nat
          /\ Cardinality(Below(j + 1)) \in Nat
      BY Sizes DEF Inv
    <3>6. Cardinality(Below(j)') \in Nat
      BY RequestSets DEF Below, Counting
    <3>7. QED
      BY <3>2, <3>3, <3>4, <3>5, <3>6, ConstantsOK
  <2>2. CASE u \notin member
    <3>1. Below(j)' \subseteq Below(j)
      <4> SUFFICES ASSUME NEW p \in Below(j)'
                   PROVE  p \in Below(j)
        OBVIOUS
      <4>1. p \in Requests \ {q} /\ p \in Counting
        BY <1>2 DEF Below, Counting
      <4>2. req'[p].rows = req[p].rows
        <5>1. u \notin req[p].rows
          BY <2>2, <4>1 DEF Inv, Seen
        <5>2. req[p].rows \ {u} = req[p].rows
          BY <5>1
        <5>3. QED
          BY <1>2, <4>1, <5>2
      <4>3. QED
        BY <4>1, <4>2 DEF Below
    <3>2. Cardinality(Below(j)') <= Cardinality(Below(j))
      BY <3>1, Sizes, FS_Subset DEF Inv
    <3>3. Cardinality(Below(j)') \in Nat
      BY RequestSets DEF Below, Counting
    <3>4. member' = member
      BY <1>2, <2>2
    <3>5. QED
      BY <3>2, <3>3, <3>4, Sizes, ConstantsOK DEF Inv, Crowd
  <2>3. QED
    BY <2>1, <2>2
<1>8. QED
  BY <1>1, <1>2, <1>5, <1>6, <1>7, UsesKept DEF Inv, Crowd

LEMMA NextInv == Inv /\ [Next]_vars => Inv'
<1> SUFFICES ASSUME Inv, [Next]_vars
             PROVE  Inv'
  OBVIOUS
<1>1. TypeOK'
  BY NextType DEF Inv
<1>2. ASSUME NEW q \in Requests, AlreadyMember(q)
      PROVE  Inv'
  <2>1. /\ \A p \in Requests \ {q} : req'[p] = req[p]
        /\ req'[q].stage = "again" /\ req[q].stage = "begun"
    BY <1>2 DEF AlreadyMember, CountReturns, Inv, TypeOK
  <2>2. Pending' = Pending \ {q}
    BY <2>1 DEF Pending
  <2>3. Uses'
    BY <1>1, <1>2, <2>1, <2>2, UseRecorded DEF AlreadyMember
  <2>4. QED
    BY <1>1, <1>2, <2>1, <2>3, ProceedInv DEF AlreadyMember
<1>3. ASSUME NEW q \in Requests,
             Refuse(q) \/ GetNodeAgain(q) \/ Fail(q) \/ Duplicate(q)
      PROVE  Inv'
  <2>1. /\ \A p \in Requests \ {q} : req'[p] = req[p]
        /\ req'[q].stage \in {"idle", "again"}
        /\ member' = member /\ used' = used
    BY <1>3 DEF Refuse, GetNodeAgain, Fail, Duplicate, End, Idle, Inv, TypeOK
  <2>2. Pending' \subseteq Pending
    BY <2>1 DEF Pending
  <2>3. Uses'
    BY <1>1, <2>1, <2>2, UsesKept
  <2>4. QED
    BY <1>1, <2>1, <2>3, ProceedInv
<1>4. ASSUME NEW q \in Requests, HasSpace(q) \/ GetNode(q)
      PROVE  Inv'
  <2>1. /\ \A p \in Requests \ {q} : req'[p] = req[p]
        /\ req'[q] = [req[q] EXCEPT !.stage = req'[q].stage]
        /\ req[q].stage \in {"begun", "counted"}
        /\ req'[q].stage \in {"counted", "creating"}
        /\ req'[q].invite = req[q].invite
        /\ member' = member /\ used' = used
    BY <1>4 DEF HasSpace, CountReturns, GetNode, Inv, TypeOK
  <2>2. Cardinality(req[q].rows) < MaxPlayers
    BY <1>4 DEF HasSpace, GetNode, Inv, LocksFit, Locking
  <2>3. Pending' \subseteq Pending
    BY <2>1 DEF Pending
  <2>4. Uses'
    BY <1>1, <2>1, <2>3, UsesKept
  <2>5. QED
    BY <1>1, <2>1, <2>2, <2>4, ProceedInv
<1>5. CASE UNCHANGED vars
  BY <1>5 DEF Inv, TypeOK, Seen, LocksFit, Crowd, Uses, Locking, Counting, Below, Pending, vars
<1>6. QED
  BY <1>2, <1>3, <1>4, <1>5, JoinInv, BeginInv, AdmitInv, DeleteInv DEF Next, Served

-----------------------------------------------------------------------------

\* The state is well typed for any users, requests and limits.
THEOREM TypeCorrect == Spec => []TypeOK
  BY InitType, NextType, PTL DEF Spec

\* An invite is used at most once more than it allows for every request but one
\* that is served at the same time.
THEOREM InvitesAreBounded == Spec => []UsesAreBounded
<1>1. Inv => UsesAreBounded
  BY Sizes, ConstantsOK DEF Inv, Uses, UsesAreBounded, TypeOK, N
<1>2. QED
  BY <1>1, InitInv, NextInv, PTL DEF Spec

\* Nothing takes away the rows that a join has counted before it has used the
\* count.
THEOREM CountsStayTrue == Spec => CountedRowsStay
<1>1. ASSUME TypeOK, [Next]_vars, NEW q \in Locking, q \in Locking'
      PROVE  req'[q].rows = req[q].rows
  <2>1. q \in Requests
    BY DEF Locking
  <2>2. ASSUME NEW p \in Requests, NEW u \in Users,
               Check(p, u) \/ CheckInvite(p, u) \/ Leave(p, u)
        PROVE  req'[q].rows = req[q].rows
    BY <1>1, <2>1, <2>2 DEF Check, CheckInvite, Leave, Locking, TypeOK, Idle
  <2>3. ASSUME NEW p \in Requests, (Served(p) /\ ~Delete(p)) \/ Fail(p)
        PROVE  req'[q].rows = req[q].rows
    BY <1>1, <2>1, <2>3 DEF Served, Fail, Begin, AlreadyMember, Refuse, HasSpace,
       GetNode, GetNodeAgain, Admit, Duplicate, CountReturns, End, Locking, TypeOK, Idle
  <2>4. ASSUME NEW p \in Requests, Delete(p)
        PROVE  req'[q].rows = req[q].rows
    <3>1. q # p
      BY <1>1, <2>4 DEF Delete, Locking
    <3>2. req[p].user \notin req[q].rows
      BY <1>1, <2>4, <3>1 DEF Delete, LockedByOthers
    <3>3. req'[q].rows = req[q].rows \ {req[p].user}
      BY <1>1, <2>1, <2>4, <3>1 DEF Delete, Without, TypeOK
    <3>4. QED
      BY <3>2, <3>3
  <2>5. CASE UNCHANGED vars
    BY <2>5 DEF vars
  <2>6. QED
    BY <1>1, <2>2, <2>3, <2>4, <2>5 DEF Next
<1>2. TypeOK /\ [Next]_vars
        => [\A q \in Locking : q \in Locking' => req'[q].rows = req[q].rows]_vars
  BY <1>1
<1>3. QED
  BY <1>2, TypeCorrect, PTL DEF Spec, CountedRowsStay

-----------------------------------------------------------------------------
(* Waiting: rows wait for connections and connections for rows, but only the *)
(* pool can bring everybody to a halt.                                       *)

\* The requests that need to wait for nobody: exactly those that Served takes a
\* step of.
Ready(q) ==
  \/ req[q].stage \in {"checked", "counted", "again"} /\ FreeConnection
  \/ req[q].stage = "creating"
  \/ /\ req[q].stage = "begun"
     /\ CountLockAccepted => req[q].rows \cap LockedByOthers(q) = {}
  \/ req[q].stage = "leaving" /\ req[q].user \notin LockedByOthers(q)

\* While the pool is not exhausted somebody can go on (rooms.go:764, 813, 950).
SomebodyGoesOn ==
  (\E q \in Requests : req[q].stage # "idle") /\ ~Exhausted => \E q \in Requests : Ready(q)

LEMMA ServedAreReady ==
  ASSUME NEW q \in Requests, Served(q)
  PROVE  Ready(q)
<1>1. CASE Begin(q) \/ GetNode(q) \/ GetNodeAgain(q)
  BY <1>1 DEF Begin, GetNode, GetNodeAgain, Ready
<1>2. CASE AlreadyMember(q) \/ Refuse(q) \/ HasSpace(q)
  BY <1>2 DEF AlreadyMember, Refuse, HasSpace, CountReturns, Ready
<1>3. CASE Admit(q) \/ Duplicate(q) \/ Delete(q)
  BY <1>3 DEF Admit, Duplicate, Delete, Ready
<1>4. QED
  BY <1>1, <1>2, <1>3 DEF Served

\* Somebody who locks rows can go on as soon as there is a connection, and
\* without one those who hold all of them include somebody who is not stuck.
LEMMA NotAllWait == TypeOK => SomebodyGoesOn
<1> SUFFICES ASSUME TypeOK, NEW q \in Requests, req[q].stage # "idle", ~Exhausted,
                    \A p \in Requests : ~Ready(p)
             PROVE  FALSE
  BY DEF SomebodyGoesOn
<1>1. CASE FreeConnection
  <2>1. Locking = {}
    BY <1>1 DEF Locking, Ready
  <2>2. \A p \in Requests : LockedByOthers(p) = {}
    BY <2>1 DEF LockedByOthers
  <2>3. \A p \in Requests : req[p].stage = "idle"
    BY <1>1, <2>2 DEF TypeOK, Stages, Ready
  <2>4. QED
    BY <2>3
<1>2. CASE ~FreeConnection
  <2>1. PICK p \in Holding : ~Stuck(p)
    BY <1>2 DEF Exhausted
  <2>2. /\ p \in Requests /\ ~Ready(p)
        /\ req[p].stage \in {"begun", "counted", "creating", "leaving"}
    BY <2>1 DEF Holding
  <2>3. req[p].stage \in {"begun", "leaving"}
        /\ LockedByOthers(p) \cap (req[p].rows \cup {req[p].user}) # {}
    BY <2>1, <2>2 DEF Stuck, Ready
  <2>4. QED
    BY <2>1, <2>3 DEF Stuck
<1>3. QED
  BY <1>1, <1>2

\* However joins and leaves wait for each other's rows, they never all wait: a
\* standstill takes a pool all of whose connections are held by requests that
\* ask for another (rooms.go:813 within the transaction of rooms.go:749).
THEOREM OnlyThePoolStalls == Spec => []SomebodyGoesOn
  BY TypeCorrect, NotAllWait, PTL

\* With more connections than requests at a time nothing ever stands still;
\* nothing in the code keeps the requests fewer (db.go).
THEOREM LargePoolSuffices ==
  ASSUME N < PoolSize
  PROVE  Spec => []((\E q \in Requests : req[q].stage # "idle")
                      => \E q \in Requests : Ready(q))
<1>1. ~Exhausted
  <2>1. Holding \subseteq Requests
    BY DEF Holding
  <2>2. Cardinality(Holding) <= N /\ Cardinality(Holding) \in Nat /\ N \in Nat
    BY <2>1, ConstantsOK, FS_Subset, FS_CardinalityType DEF N
  <2>3. QED
    BY <2>2, ConstantsOK DEF Exhausted, FreeConnection
<1>2. SomebodyGoesOn => ((\E q \in Requests : req[q].stage # "idle")
                            => \E q \in Requests : Ready(q))
  BY <1>1 DEF SomebodyGoesOn
<1>3. QED
  BY <1>2, OnlyThePoolStalls, PTL

-----------------------------------------------------------------------------

\* The operator of FiniteSets that the turnstile has imported.
LEMMA SameCardinality == \A S : T!Cardinality(S) = Cardinality(S)
  BY DEF T!Cardinality, Cardinality, T!IsFiniteSet, IsFiniteSet

\* Joins and leaves, with their counts, locks and failures, implement the
\* turnstile, whose capacity is the room's and one more for every request but
\* one that is served at the same time.
THEOREM ImplementsTurnstile == Spec => TurnstileSpec
<1>1. Init => T!Init
  BY DEF Init, T!Init
<1>2. ASSUME Inv, [Next]_vars
      PROVE  [T!Next]_member
  <2>1. ASSUME NEW q \in Requests, Admit(q)
        PROVE  T!Enter(req[q].user)
    <3>1. Cardinality(req[q].rows) < MaxPlayers
      BY <1>2, <2>1 DEF Admit, Inv, LocksFit, Locking
    <3>2. q \in Below(0)
      BY <2>1, <1>2, <3>1, ConstantsOK DEF Admit, Below, Counting
    <3>3. Cardinality(Below(0)) # 0
      BY <1>2, <3>2, Sizes, FS_EmptySet DEF Inv
    <3>4. Cardinality(member) < MaxPlayers + N - 1
      <4>1. Cardinality(member) + Cardinality(Below(0)) <= MaxPlayers + 0 - 1 + N
        BY <1>2 DEF Inv, Crowd
      <4>2. Cardinality(member) \in Nat /\ Cardinality(Below(0)) \in Nat /\ N \in Nat
        BY <1>2, Sizes DEF Inv
      <4>3. QED
        BY <3>3, <4>1, <4>2, ConstantsOK
    <3>5. QED
      BY <2>1, <3>4, SameCardinality DEF Admit, T!Enter, N
  <2>2. ASSUME NEW q \in Requests, Delete(q)
        PROVE  T!Leave(req[q].user) \/ member' = member
    BY <2>2 DEF Delete, T!Leave
  <2>3. ASSUME NEW q \in Requests, Admit(q) \/ Delete(q)
        PROVE  req[q].user \in Users
    BY <1>2, <2>3 DEF Admit, Delete, Inv, TypeOK
  <2>4. ASSUME NEW q \in Requests, NEW u \in Users,
               Check(q, u) \/ CheckInvite(q, u) \/ Leave(q, u)
        PROVE  member' = member
    BY <2>4 DEF Check, CheckInvite, Leave
  <2>5. ASSUME NEW q \in Requests, Served(q) \/ Fail(q), ~Admit(q), ~Delete(q)
        PROVE  member' = member
    BY <2>5 DEF Served, Fail, Begin, AlreadyMember, Refuse, HasSpace, GetNode,
       GetNodeAgain, Duplicate
  <2>6. CASE UNCHANGED vars
    BY <2>6 DEF vars
  <2>7. QED
    BY <1>2, <2>1, <2>2, <2>3, <2>4, <2>5, <2>6 DEF Next, T!Next
<1>3. QED
  BY <1>1, <1>2, InitInv, NextInv, PTL DEF Spec, TurnstileSpec, T!Spec

=============================================================================
