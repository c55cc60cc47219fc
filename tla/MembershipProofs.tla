--------------------------- MODULE MembershipProofs ---------------------------
(***************************************************************************)
(* What the handlers keep of a room's members, bans and roles though they   *)
(* read before they write, for any number of users and requests.            *)
(*                                                                         *)
(* A member's row and the VPN user it names come from different steps, and  *)
(* requests of the same user may have other VPN users in hand.  So the      *)
(* invariant says more than MembersCanConnect: the VPN user that a join has *)
(* made is on the node, or was lost with its hub, and no row and no other   *)
(* request has its name.                                                    *)
(***************************************************************************)
EXTENDS Membership, FiniteSetTheorems, TLAPS

ReqType == [stage : Stages, user : Users \cup {NoUser}, name : Numbers \cup {0},
            by : Users \cup {NoUser, SiteAdmin}, grant : Roles, ban : BOOLEAN, failed : BOOLEAN]

\* A request has a user, and a name from the step that sets it to the one that
\* needs it last; a query that failed is passed over at the start of a join or at
\* the end of a removal.
Holds(r) == r.stage \in {"created", "removing", "deleting"}
Shape(r) ==
  /\ r.stage = "idle" <=> r.user = NoUser
  /\ r.name # 0 <=> Holds(r)
  /\ r.failed => r.stage \in {"joining", "created", "closing"}

\* What a join has made is nobody else's, and still there.
Fresh(q) ==
  /\ name[req[q].user] # req[q].name
  /\ \A p \in Requests \ {q} : req[p].user = req[q].user => req[p].name # req[q].name
Made(q) == Fresh(q) /\ <<req[q].user, req[q].name>> \in onNode \cup lost

Inv ==
  /\ TypeOK
  /\ \A q \in Requests : Shape(req[q])
  /\ \A q \in Requests : req[q].stage = "created" => Made(q)
  /\ MembersCanConnect

-----------------------------------------------------------------------------
(* Names *)

LEMMA NumbersFacts ==
  /\ Numbers \subseteq Nat \ {0} /\ 0 \notin Numbers
  /\ IsFiniteSet(Numbers) /\ Cardinality(Numbers) = Cardinality(Requests) + 1
<1>1. Cardinality(Requests) \in Nat
  BY ConstantsOK, FS_CardinalityType
<1> DEFINE c == Cardinality(Requests) + 1
<1>2. c \in Nat \ {0}
  BY <1>1
<1> HIDE DEF c
<1>3. IsFiniteSet(1 .. c) /\ Cardinality(1 .. c) = c
  BY <1>2, FS_Interval
<1>4. 1 .. c \subseteq Nat \ {0} /\ 0 \notin 1 .. c
  BY <1>2
<1>5. QED
  BY <1>3, <1>4 DEF Numbers, c

\* A user who is no member always finds a name: there is one number more than
\* there are requests.
LEMMA FreshNameExists ==
  ASSUME TypeOK, NEW u \in Users, name[u] = 0
  PROVE  FreshName(u) \in Numbers /\ FreshName(u) \notin InUse(u)
<1> DEFINE S == {q \in Requests : req[q].user = u}
           Names == {req[q].name : q \in S}
           f == [q \in S |-> req[q].name]
<1>1. IsFiniteSet(S) /\ Cardinality(S) <= Cardinality(Requests) /\ Cardinality(S) \in Nat
  BY ConstantsOK, FS_Subset, FS_CardinalityType
<1>2. f \in Surjection(S, Names)
  BY DEF Surjection
<1>3. IsFiniteSet(Names) /\ Cardinality(Names) <= Cardinality(S)
  BY <1>1, <1>2, FS_Surjection
<1>4. Cardinality(Requests) \in Nat /\ Cardinality(Names) \in Nat
  BY <1>3, ConstantsOK, FS_CardinalityType
<1>5. ~(Numbers \subseteq Names)
  <2> SUFFICES ASSUME Numbers \subseteq Names
               PROVE  FALSE
    OBVIOUS
  <2>1. Cardinality(Numbers) <= Cardinality(Names)
    BY <1>3, FS_Subset
  <2>2. QED
    BY <2>1, <1>1, <1>3, <1>4, NumbersFacts
<1>6. InUse(u) = {0} \cup Names
  BY DEF InUse
<1>7. \E n \in Numbers : n \notin InUse(u)
  BY <1>5, <1>6, NumbersFacts
<1>8. QED
  BY <1>7 DEF FreshName

\* What a row or a request names is kept.
LEMMA NodeFacts ==
  ASSUME NEW has, NEW hasLost, Node(has, hasLost)
  PROVE  /\ onNode' \subseteq Users \X Numbers /\ lost' \subseteq Users \X Numbers
         /\ \A u \in Users, n \in Numbers :
              /\ <<u, n>> \in has \cup hasLost
              /\ name'[u] = n \/ \E q \in Requests : req'[q].user = u /\ req'[q].name = n
              => <<u, n>> \in onNode' \cup lost'
<1>1. Named \subseteq Users \X Numbers
  BY DEF Named
<1>2. onNode' = has \cap Named /\ lost' = hasLost \cap Named
  BY DEF Node
<1>3. \A u \in Users, n \in Numbers :
        name'[u] = n \/ (\E q \in Requests : req'[q].user = u /\ req'[q].name = n)
          => <<u, n>> \in Named
  BY DEF Named
<1>4. QED
  BY <1>1, <1>2, <1>3

LEMMA InitInv == Init => Inv
<1> SUFFICES ASSUME Init
             PROVE  Inv
  OBVIOUS
<1>1. TypeOK
  BY ConstantsOK DEF Init, TypeOK, Idle, Stages, Roles
<1>2. QED
  BY <1>1, ConstantsOK DEF Init, Inv, Shape, Holds, Idle, MembersCanConnect, IsMember

-----------------------------------------------------------------------------
(* The steps *)

\* What a join has made survives the steps of others that neither take it from
\* the node nor use its name.
LEMMA OthersMade ==
  ASSUME Inv, NEW q \in Requests, NEW p \in Requests \ {q},
         \A o \in Requests \ {q} : req'[o] = req[o],
         NEW has, NEW hasLost, Node(has, hasLost),
         req[p].stage = "created",
         <<req[p].user, req[p].name>> \in has \cup hasLost,
         name'[req[p].user] # req[p].name,
         req'[q].user = req[p].user => req'[q].name # req[p].name
  PROVE  Made(p)'
<1>1. req'[p] = req[p] /\ Made(p)
  BY DEF Inv
<1>2. req[p].user \in Users /\ req[p].name \in Numbers
  BY DEF Inv, TypeOK, Shape, Holds
<1>3. <<req[p].user, req[p].name>> \in onNode' \cup lost'
  BY <1>1, <1>2, NodeFacts
<1>4. ASSUME NEW o \in Requests \ {p}, req'[o].user = req[p].user
      PROVE  req'[o].name # req[p].name
  <2>1. CASE o = q
    BY <1>4, <2>1
  <2>2. CASE o # q
    <3>1. req'[o] = req[o]
      BY <2>2
    <3>2. QED
      BY <1>1, <1>4, <3>1 DEF Made, Fresh
  <2>3. QED
    BY <2>1, <2>2
<1>5. Fresh(p)'
  BY <1>1, <1>4 DEF Fresh
<1>6. QED
  BY <1>1, <1>3, <1>5 DEF Made

\* The credentials of a member survive them, too.
LEMMA OthersConnect ==
  ASSUME Inv, NEW q \in Requests,
         \A o \in Requests \ {q} : req'[o] = req[o],
         NEW has, NEW hasLost, Node(has, hasLost), NEW u \in Users,
         name'[u] = name[u], name[u] # 0,
         \/ <<u, name[u]>> \in has \cup hasLost
         \/ Removing(u) /\ req[q].stage # "deleting"
  PROVE  <<u, name'[u]>> \in onNode' \cup lost' \/ Removing(u)'
<1>1. name[u] \in Numbers
  BY DEF Inv, TypeOK
<1>2. CASE <<u, name[u]>> \in has \cup hasLost
  BY <1>1, <1>2, NodeFacts
<1>3. CASE Removing(u) /\ req[q].stage # "deleting"
  <2>1. PICK p \in Requests :
          req[p].stage = "deleting" /\ req[p].user = u /\ req[p].name = name[u]
    BY <1>3 DEF Removing
  <2>2. req'[p] = req[p]
    BY <1>3, <2>1
  <2>3. QED
    BY <2>1, <2>2 DEF Removing
<1>4. QED
  BY <1>2, <1>3

\* A step of a request that has no name in hand afterwards, and changes no name.
LEMMA PlainStep ==
  ASSUME Inv, NEW q \in Requests, NEW r \in ReqType, NEW hasLost,
         req' = [req EXCEPT ![q] = r],
         r.name = 0, Shape(r), r.stage = "idle" => r = Idle,
         name' = name, banned' \subseteq Users, role' \in [Users -> Roles],
         Node(onNode, hasLost), lost \subseteq hasLost,
         req[q].stage = "deleting" => <<req[q].user, req[q].name>> \in hasLost
  PROVE  Inv'
<1>1. TypeOK'
  BY NodeFacts DEF Inv, TypeOK, ReqType
<1>2. \A p \in Requests \ {q} : req'[p] = req[p]
  BY DEF Inv, TypeOK
<1>3. req'[q] = r
  BY DEF Inv, TypeOK
<1>4. \A p \in Requests : Shape(req'[p])
  BY <1>2, <1>3 DEF Inv
<1>5. ASSUME NEW p \in Requests, req'[p].stage = "created"
      PROVE  Made(p)'
  <2>1. p # q /\ req[p].stage = "created"
    BY <1>2, <1>3, <1>5 DEF Shape, Holds
  <2>2. Made(p) /\ req[p].name # 0
    BY <2>1 DEF Inv, Shape, Holds
  <2>3. QED
    BY <1>2, <1>3, <2>1, <2>2, OthersMade DEF Made, Fresh
<1>6. ASSUME NEW u \in Users, name'[u] # 0
      PROVE  <<u, name'[u]>> \in onNode' \cup lost' \/ Removing(u)'
  <2>1. CASE <<u, name[u]>> \in onNode \cup hasLost
    BY <1>2, <1>6, <2>1, OthersConnect
  <2>2. CASE <<u, name[u]>> \notin onNode \cup hasLost
    <3>1. PICK p \in Requests :
            req[p].stage = "deleting" /\ req[p].user = u /\ req[p].name = name[u]
      BY <1>6, <2>2 DEF Inv, MembersCanConnect, IsMember, Removing
    <3>2. p # q
      BY <2>2, <3>1
    <3>3. QED
      BY <1>2, <3>1, <3>2 DEF Removing
  <2>3. QED
    BY <2>1, <2>2
<1>7. MembersCanConnect'
  BY <1>6 DEF MembersCanConnect, IsMember
<1>8. QED
  BY <1>1, <1>4, <1>5, <1>7 DEF Inv

LEMMA CreateInv ==
  ASSUME Inv, NEW q \in Requests, CreateVPNUser(q)
  PROVE  Inv'
<1> DEFINE u == req[q].user
           n == FreshName(u)
<1>1. u \in Users /\ name[u] = 0
  BY DEF CreateVPNUser, IsMember, Inv, TypeOK, Shape
<1>2. n \in Numbers /\ n \notin InUse(u)
  BY <1>1, FreshNameExists DEF Inv
<1>3. /\ \A p \in Requests \ {q} : req'[p] = req[p]
      /\ req'[q] = [req[q] EXCEPT !.stage = "created", !.name = n]
      /\ req' = [req EXCEPT ![q] = req'[q]]
      /\ name' = name /\ banned' = banned /\ role' = role
      /\ Node(onNode \cup {<<u, n>>}, lost)
      /\ u = req[q].user
  BY DEF CreateVPNUser, rowVars, Inv, TypeOK
<1> HIDE DEF n, u
<1>4. name[u] # n /\ \A p \in Requests : req[p].user = u => req[p].name # n
  BY <1>2 DEF InUse
<1>5. /\ req'[q].stage = "created" /\ req'[q].user = u /\ req'[q].name = n
      /\ req'[q] \in ReqType
  BY <1>2, <1>3 DEF Inv, TypeOK, Stages, ReqType
<1>6. \A p \in Requests : Shape(req'[p])
  <2>1. \A p \in Requests \ {q} : Shape(req'[p])
    BY <1>3 DEF Inv
  <2>2. Shape(req'[q])
    BY <1>1, <1>2, <1>5, NumbersFacts, ConstantsOK DEF Shape, Holds
  <2>3. QED
    BY <2>1, <2>2
<1>7. ASSUME NEW p \in Requests, req'[p].stage = "created"
      PROVE  Made(p)'
  <2>1. CASE p = q
    <3>1. <<u, n>> \in onNode' \cup lost'
      <4>1. <<u, n>> \in (onNode \cup {<<u, n>>}) \cup lost
        OBVIOUS
      <4>2. QED
        BY <1>1, <1>2, <1>3, <1>5, <4>1, NodeFacts
    <3>2. Fresh(q)'
      BY <1>3, <1>4, <1>5 DEF Fresh
    <3>3. QED
      BY <2>1, <3>1, <3>2, <1>5 DEF Made
  <2>2. CASE p # q
    <3>1. req[p].stage = "created" /\ Made(p)
      BY <1>3, <1>7, <2>2 DEF Inv
    <3>2. QED
      BY <1>3, <1>4, <1>5, <2>2, <3>1, OthersMade DEF Made, Fresh
  <2>3. QED
    BY <2>1, <2>2
<1>8. MembersCanConnect'
  <2> SUFFICES ASSUME NEW v \in Users, name'[v] # 0
               PROVE  <<v, name'[v]>> \in onNode' \cup lost' \/ Removing(v)'
    BY DEF MembersCanConnect, IsMember
  <2>1. <<v, name[v]>> \in onNode \cup lost \/ Removing(v)
    BY <1>3 DEF Inv, MembersCanConnect, IsMember
  <2>2. req[q].stage # "deleting"
    BY DEF CreateVPNUser
  <2>3. QED
    BY <1>3, <2>1, <2>2, OthersConnect
<1>9. TypeOK'
  <2>1. req' \in [Requests -> ReqType]
    <3>1. req \in [Requests -> ReqType]
      BY DEF Inv, TypeOK, ReqType
    <3>2. QED
      BY <1>3, <1>5, <3>1
  <2>2. onNode' \subseteq Users \X Numbers /\ lost' \subseteq Users \X Numbers
    BY <1>3, NodeFacts
  <2>3. QED
    BY <1>3, <1>5, <2>1, <2>2 DEF Inv, TypeOK, ReqType
<1>10. QED
  BY <1>6, <1>7, <1>8, <1>9 DEF Inv

\* The row takes the name of the request, which nobody else has.
LEMMA InsertInv ==
  ASSUME Inv, NEW q \in Requests, InsertMember(q)
  PROVE  Inv'
<1> DEFINE u == req[q].user
           n == req[q].name
<1>1. /\ u \in Users /\ n \in Numbers /\ Made(q)
      /\ req[q].stage = "created" /\ name[u] = 0
  BY DEF InsertMember, IsMember, Inv, TypeOK, Shape, Holds
<1>2. /\ \A p \in Requests \ {q} : req'[p] = req[p]
      /\ req'[q] = Idle
      /\ name' = [name EXCEPT ![u] = n]
      /\ Node(onNode, lost) /\ banned' = banned
      /\ u = req[q].user /\ n = req[q].name
  BY DEF InsertMember, End, Inv, TypeOK
<1>3. TypeOK'
  <2>1. role' \in [Users -> Roles]
    BY DEF InsertMember, Inv, TypeOK, Roles
  <2>2. req' \in [Requests -> ReqType] /\ (\A p \in Requests : req'[p].stage = "idle" => req'[p] = Idle)
    BY DEF InsertMember, End, Inv, TypeOK, ReqType, Idle, Stages, Roles
  <2>3. name' \in [Users -> Numbers \cup {0}]
    BY <1>1, <1>2 DEF Inv, TypeOK
  <2>4. QED
    BY <1>2, <2>1, <2>2, <2>3, NodeFacts DEF Inv, TypeOK, ReqType
<1> HIDE DEF u, n
<1>4. /\ name'[u] = n /\ \A v \in Users \ {u} : name'[v] = name[v]
  BY <1>1, <1>2 DEF Inv, TypeOK
<1>5. \A p \in Requests : Shape(req'[p])
  <2>1. Shape(Idle)
    BY DEF Shape, Holds, Idle
  <2>2. QED
    BY <1>2, <2>1 DEF Inv
<1>6. ASSUME NEW p \in Requests, req'[p].stage = "created"
      PROVE  Made(p)'
  <2>1. p # q
    BY <1>2, <1>6 DEF Idle
  <2>2. req[p].stage = "created" /\ Made(p) /\ req[p].user \in Users
    BY <1>2, <1>6, <2>1 DEF Inv, TypeOK, Shape
  <2>3. name'[req[p].user] # req[p].name
    BY <1>1, <1>2, <1>4, <2>1, <2>2 DEF Made, Fresh
  <2>4. req'[q].user # req[p].user
    BY <1>2, <2>2, ConstantsOK DEF Idle
  <2>5. QED
    BY <1>2, <2>1, <2>2, <2>3, <2>4, OthersMade DEF Made
<1>7. ASSUME NEW v \in Users, name'[v] # 0
      PROVE  <<v, name'[v]>> \in onNode' \cup lost' \/ Removing(v)'
  <2>1. CASE v = u
    <3>1. <<u, n>> \in onNode \cup lost
      BY <1>1, <1>2 DEF Made
    <3>2. QED
      BY <1>1, <1>2, <1>4, <2>1, <3>1, NodeFacts
  <2>2. CASE v # u
    <3>1. name'[v] = name[v]
      BY <1>4, <2>2
    <3>2. <<v, name[v]>> \in onNode \cup lost \/ Removing(v)
      BY <1>7, <3>1 DEF Inv, MembersCanConnect, IsMember
    <3>3. QED
      BY <1>1, <1>2, <1>7, <3>1, <3>2, OthersConnect
  <2>3. QED
    BY <2>1, <2>2
<1>8. QED
  BY <1>3, <1>5, <1>6, <1>7 DEF Inv, MembersCanConnect, IsMember

\* A removal holds the name of the row, which no join has made.
LEMMA RemoveInv ==
  ASSUME Inv, NEW q \in Requests, NEW u \in Users, NEW ban \in BOOLEAN, Remove(q, u, ban)
  PROVE  Inv'
<1> DEFINE r == [Idle EXCEPT !.stage = "removing", !.user = u, !.name = name[u], !.ban = ban]
<1>1. /\ \A p \in Requests \ {q} : req'[p] = req[p]
      /\ req'[q] = r /\ req[q] = Idle
      /\ name' = name /\ banned' = banned /\ role' = role
      /\ Node(onNode, lost)
      /\ name[u] \in Numbers
  BY DEF Remove, Start, IsMember, rowVars, Inv, TypeOK
<1>2. r \in ReqType /\ r.user = u /\ r.name = name[u] /\ r.stage = "removing" /\ ~r.failed
  BY <1>1 DEF ReqType, Idle, Stages, Roles
<1> HIDE DEF r
<1>3. TypeOK'
  <2>1. req' \in [Requests -> ReqType]
    BY <1>1, <1>2 DEF Remove, Start, Inv, TypeOK, ReqType
  <2>2. \A p \in Requests : req'[p].stage = "idle" => req'[p] = Idle
    BY <1>1, <1>2 DEF Inv, TypeOK
  <2>3. QED
    BY <1>1, <2>1, <2>2, NodeFacts DEF Inv, TypeOK, ReqType
<1>4. \A p \in Requests : Shape(req'[p])
  <2>1. Shape(r)
    BY <1>1, <1>2, NumbersFacts, ConstantsOK DEF Shape, Holds
  <2>2. QED
    BY <1>1, <2>1 DEF Inv
<1>5. ASSUME NEW p \in Requests, req'[p].stage = "created"
      PROVE  Made(p)'
  <2>1. p # q
    BY <1>1, <1>2, <1>5
  <2>2. req[p].stage = "created" /\ Made(p)
    BY <1>1, <1>5, <2>1 DEF Inv
  <2>3. QED
    BY <1>1, <1>2, <2>1, <2>2, OthersMade DEF Made, Fresh
<1>6. ASSUME NEW v \in Users, name'[v] # 0
      PROVE  <<v, name'[v]>> \in onNode' \cup lost' \/ Removing(v)'
  <2>1. <<v, name[v]>> \in onNode \cup lost \/ Removing(v)
    BY <1>1, <1>6 DEF Inv, MembersCanConnect, IsMember
  <2>2. req[q].stage # "deleting"
    BY <1>1 DEF Idle
  <2>3. QED
    BY <1>1, <1>6, <2>1, <2>2, OthersConnect
<1>7. QED
  BY <1>3, <1>4, <1>5, <1>6 DEF Inv, MembersCanConnect, IsMember

\* The node may lose the name that the removal holds, and then the removal goes
\* on to the row.
LEMMA DeleteVPNUserInv ==
  ASSUME Inv, NEW q \in Requests, DeleteVPNUser(q)
  PROVE  Inv'
<1>1. PICK gone \in {{}, {<<req[q].user, req[q].name>>}} : Node(onNode \ gone, lost)
  BY DEF DeleteVPNUser
<1>2. /\ \A p \in Requests \ {q} : req'[p] = req[p]
      /\ req'[q] = [req[q] EXCEPT !.stage = "deleting"]
      /\ req[q].stage = "removing"
      /\ req'[q].stage = "deleting" /\ req'[q].user = req[q].user /\ req'[q].name = req[q].name
      /\ name' = name /\ banned' = banned /\ role' = role
  BY DEF DeleteVPNUser, Goto, rowVars, Inv, TypeOK
<1>3. TypeOK'
  <2>1. req' \in [Requests -> ReqType]
    BY DEF DeleteVPNUser, Goto, Inv, TypeOK, ReqType, Stages
  <2>2. QED
    BY <1>1, <1>2, <2>1, NodeFacts DEF Inv, TypeOK, ReqType
<1>4. \A p \in Requests : Shape(req'[p])
  <2>1. Shape(req'[q])
    BY <1>2 DEF Inv, Shape, Holds
  <2>2. QED
    BY <1>2, <2>1 DEF Inv
<1>5. ASSUME NEW p \in Requests, req'[p].stage = "created"
      PROVE  Made(p)'
  <2>1. p # q
    BY <1>2, <1>5
  <2>2. req[p].stage = "created" /\ Made(p)
    BY <1>2, <1>5, <2>1 DEF Inv
  <2>3. req[q].user = req[p].user => req[q].name # req[p].name
    BY <2>1, <2>2 DEF Made, Fresh
  <2>4. <<req[p].user, req[p].name>> \in (onNode \ gone) \cup lost
    BY <2>2, <2>3, <1>1 DEF Made
  <2>5. QED
    BY <1>1, <1>2, <2>1, <2>2, <2>3, <2>4, OthersMade DEF Made, Fresh
<1>6. ASSUME NEW v \in Users, name'[v] # 0
      PROVE  <<v, name'[v]>> \in onNode' \cup lost' \/ Removing(v)'
  <2>1. CASE req[q].user = v /\ req[q].name = name[v]
    BY <1>2, <2>1 DEF Removing
  <2>2. CASE ~(req[q].user = v /\ req[q].name = name[v])
    <3>1. <<v, name[v]>> \in onNode \cup lost \/ Removing(v)
      BY <1>2, <1>6 DEF Inv, MembersCanConnect, IsMember
    <3>2. <<v, name[v]>> \in (onNode \ gone) \cup lost \/ Removing(v)
      BY <1>1, <2>2, <3>1
    <3>3. QED
      BY <1>1, <1>2, <1>6, <3>2, OthersConnect
  <2>3. QED
    BY <2>1, <2>2
<1>7. QED
  BY <1>3, <1>4, <1>5, <1>6 DEF Inv, MembersCanConnect, IsMember

\* The row goes with whatever name it has.
LEMMA DeleteMemberInv ==
  ASSUME Inv, NEW q \in Requests, DeleteMember(q)
  PROVE  Inv'
<1> DEFINE u == req[q].user
<1>1. /\ \A p \in Requests \ {q} : req'[p] = req[p]
      /\ req'[q] = [req[q] EXCEPT !.stage = "demoting", !.name = 0]
      /\ req[q].stage = "deleting" /\ u \in Users
      /\ req'[q].stage = "demoting" /\ req'[q].user = u /\ req'[q].name = 0
      /\ ~req'[q].failed
      /\ name' = [name EXCEPT ![u] = 0] /\ banned' = banned /\ role' = role
      /\ Node(onNode, lost)
      /\ u = req[q].user
  BY DEF DeleteMember, Inv, TypeOK, Shape, Holds
<1>2. TypeOK'
  <2>1. req' \in [Requests -> ReqType]
    <3>1. req \in [Requests -> ReqType] /\ "demoting" \in Stages
      BY DEF Inv, TypeOK, ReqType, Stages
    <3>2. req'[q] \in ReqType
      <4>1. req[q] \in ReqType
        BY <3>1
      <4>2. [req[q] EXCEPT !.stage = "demoting", !.name = 0] \in ReqType
        BY <3>1, <4>1 DEF ReqType
      <4>3. QED
        BY <1>1, <4>2
    <3>3. QED
      BY <3>1, <3>2 DEF DeleteMember
  <2>2. QED
    BY <1>1, <2>1, NodeFacts DEF Inv, TypeOK, ReqType
<1> HIDE DEF u
<1>3. name'[u] = 0 /\ \A v \in Users \ {u} : name'[v] = name[v]
  BY <1>1 DEF Inv, TypeOK
<1>4. \A p \in Requests : Shape(req'[p])
  <2>1. Shape(req'[q])
    BY <1>1, ConstantsOK DEF Shape, Holds
  <2>2. QED
    BY <1>1, <2>1 DEF Inv
<1>5. ASSUME NEW p \in Requests, req'[p].stage = "created"
      PROVE  Made(p)'
  <2>1. p # q
    BY <1>1, <1>5
  <2>2. /\ req[p].stage = "created" /\ Made(p)
        /\ req[p].user \in Users /\ req[p].name # 0
    BY <1>1, <1>5, <2>1 DEF Inv, TypeOK, Shape, Holds
  <2>3. name'[req[p].user] # req[p].name
    BY <1>1, <1>3, <2>2 DEF Made, Fresh
  <2>4. QED
    BY <1>1, <2>1, <2>2, <2>3, OthersMade DEF Made
<1>6. ASSUME NEW v \in Users, name'[v] # 0
      PROVE  <<v, name'[v]>> \in onNode' \cup lost' \/ Removing(v)'
  <2>1. v # u /\ name'[v] = name[v]
    BY <1>3, <1>6
  <2>2. <<v, name[v]>> \in onNode \cup lost \/ Removing(v)
    BY <1>6, <2>1 DEF Inv, MembersCanConnect, IsMember
  <2>3. CASE <<v, name[v]>> \in onNode \cup lost
    BY <1>1, <1>6, <2>1, <2>3, OthersConnect
  <2>4. CASE Removing(v)
    <3>1. PICK p \in Requests :
            req[p].stage = "deleting" /\ req[p].user = v /\ req[p].name = name[v]
      BY <2>4 DEF Removing
    <3>2. p # q
      BY <1>1, <2>1, <3>1
    <3>3. QED
      BY <1>1, <2>1, <3>1, <3>2 DEF Removing
  <2>5. QED
    BY <2>2, <2>3, <2>4
<1>7. QED
  BY <1>2, <1>4, <1>5, <1>6 DEF Inv, MembersCanConnect, IsMember

\* The node loses everybody's VPN user at once.
LEMMA HubLostInv ==
  ASSUME Inv, HubLost
  PROVE  Inv'
  BY DEF Inv, TypeOK, HubLost, rowVars, Shape, Holds, Made, Fresh, MembersCanConnect,
     IsMember, Removing

\* The expiry of the room takes one VPN user, and that is recorded.
LEMMA EvictVPNUserInv ==
  ASSUME Inv, NEW u \in Users, EvictVPNUser(u)
  PROVE  Inv'
<1>1. /\ name' = name /\ banned' = banned /\ role' = role /\ req' = req
      /\ onNode' \cup lost' = onNode \cup lost \cup {<<u, name[u]>>}
      /\ onNode' \subseteq onNode /\ lost' = lost \cup {<<u, name[u]>>}
  BY DEF EvictVPNUser, rowVars
<1>2. <<u, name[u]>> \in Users \X Numbers
  BY DEF EvictVPNUser, IsMember, Inv, TypeOK
<1>3. TypeOK'
  BY <1>1, <1>2 DEF Inv, TypeOK
<1>4. \A q \in Requests : req'[q].stage = "created" => Made(q)'
  BY <1>1 DEF Inv, Made, Fresh
<1>5. MembersCanConnect'
  BY <1>1 DEF Inv, MembersCanConnect, IsMember, Removing
<1>6. QED
  BY <1>1, <1>3, <1>4, <1>5 DEF Inv, Shape, Holds

\* Then it takes all rows, and what joins have in hand stays.
LEMMA EvictMembersInv ==
  ASSUME Inv, EvictMembers
  PROVE  Inv'
<1>1. /\ name' = [u \in Users |-> 0] /\ banned' = banned /\ role' = role /\ req' = req
      /\ Node(onNode, lost)
  BY DEF EvictMembers
<1>2. TypeOK'
  BY <1>1, NodeFacts DEF Inv, TypeOK
<1>3. ASSUME NEW q \in Requests, req[q].stage = "created"
      PROVE  Made(q)'
  <2>1. Made(q) /\ req[q].user \in Users /\ req[q].name \in Numbers
    BY <1>3 DEF Inv, TypeOK, Shape, Holds
  <2>2. <<req[q].user, req[q].name>> \in onNode' \cup lost'
    BY <1>1, <2>1, NodeFacts DEF Made
  <2>3. Fresh(q)'
    BY <1>1, <2>1, NumbersFacts DEF Made, Fresh
  <2>4. QED
    BY <1>1, <2>2, <2>3 DEF Made
<1>4. MembersCanConnect'
  BY <1>1 DEF MembersCanConnect, IsMember
<1>5. QED
  BY <1>1, <1>2, <1>3, <1>4 DEF Inv, Shape, Holds

\* Bans and roles are no part of what is kept.
LEMMA RowStep ==
  ASSUME Inv, UNCHANGED <<name, onNode, lost, req>>,
         banned' \subseteq Users, role' \in [Users -> Roles]
  PROVE  Inv'
  BY DEF Inv, TypeOK, Shape, Holds, Made, Fresh, MembersCanConnect, IsMember, Removing

\* The steps that begin a request without a name.
LEMMA BeginsInv ==
  ASSUME Inv, NEW q \in Requests, Begins(q)
  PROVE  Inv'
<1>0. banned \subseteq Users /\ role \in [Users -> Roles]
  BY DEF Inv, TypeOK
<1>1. ASSUME NEW u \in Users, Join(q, u)
      PROVE  Inv'
  <2>1. /\ Joining(u) \in ReqType /\ Joining(u).name = 0
        /\ Joining(u).stage = "joining" /\ Joining(u).user = u
    BY DEF Joining, Idle, ReqType, Stages, Roles
  <2>2. Shape(Joining(u))
    BY <2>1, ConstantsOK DEF Shape, Holds
  <2>3. req[q].stage # "deleting"
    BY <1>1 DEF Join, Start, Idle
  <2>4. QED
    BY <1>0, <1>1, <2>1, <2>2, <2>3, PlainStep DEF Join, Start, rowVars
<1>7. ASSUME NEW u \in Users, JoinUnread(q, u)
      PROVE  Inv'
  <2> DEFINE r == [Joining(u) EXCEPT !.failed = TRUE]
  <2>1. r \in ReqType /\ r.name = 0 /\ r.stage = "joining" /\ r.user = u
    BY DEF Joining, Idle, ReqType, Stages, Roles
  <2>2. req' = [req EXCEPT ![q] = r] /\ req[q].stage # "deleting"
    BY <1>7 DEF JoinUnread, Start, Idle
  <2> HIDE DEF r
  <2>3. Shape(r)
    BY <2>1, ConstantsOK DEF Shape, Holds
  <2>4. QED
    BY <1>0, <1>7, <2>1, <2>2, <2>3, PlainStep DEF JoinUnread, rowVars
<1>8. ASSUME NEW u \in Users, KickOutsider(q, u)
      PROVE  Inv'
  <2> DEFINE r == [Idle EXCEPT !.stage = "demoting", !.user = u]
  <2>1. r \in ReqType /\ r.name = 0 /\ r.stage = "demoting" /\ r.user = u /\ ~r.failed
    BY DEF Idle, ReqType, Stages, Roles
  <2>2. req' = [req EXCEPT ![q] = r] /\ req[q].stage # "deleting"
    BY <1>8 DEF KickOutsider, Start, Idle
  <2> HIDE DEF r
  <2>3. Shape(r)
    BY <2>1, ConstantsOK DEF Shape, Holds
  <2>4. QED
    BY <1>0, <1>8, <2>1, <2>2, <2>3, PlainStep DEF KickOutsider, rowVars
<1>2. ASSUME NEW u \in Users, Leave(q, u) \/ \E a \in Callers : Kick(q, a, u) \/ Ban(q, a, u)
      PROVE  Inv'
  BY <1>2, RemoveInv DEF Leave, Kick, Ban
<1>3. ASSUME NEW u \in Users, NEW a \in Callers, BanOutsider(q, a, u)
      PROVE  Inv'
  <2> DEFINE r == [Idle EXCEPT !.stage = "closing", !.user = u, !.ban = TRUE]
  <2>1. r \in ReqType /\ r.name = 0 /\ r.stage = "closing" /\ r.user = u
    BY DEF Idle, ReqType, Stages, Roles
  <2>2. req' = [req EXCEPT ![q] = r] /\ req[q].stage # "deleting"
    BY <1>3 DEF BanOutsider, Start, Idle
  <2> HIDE DEF r
  <2>3. Shape(r)
    BY <2>1, ConstantsOK DEF Shape, Holds
  <2>4. QED
    BY <1>0, <1>3, <2>1, <2>2, <2>3, PlainStep DEF BanOutsider, rowVars
<1>4. ASSUME NEW u \in Users, NEW a \in Callers, TransferRoom(q, a, u)
      PROVE  Inv'
  <2> DEFINE r == [Idle EXCEPT !.stage = "transferring", !.user = u, !.by = a]
  <2>1. r \in ReqType /\ r.name = 0 /\ r.stage = "transferring" /\ r.user = u /\ ~r.failed
    BY DEF Idle, ReqType, Stages, Roles, Callers
  <2>2. req' = [req EXCEPT ![q] = r] /\ req[q].stage # "deleting"
    BY <1>4 DEF TransferRoom, Start, Idle
  <2> HIDE DEF r
  <2>3. Shape(r)
    BY <2>1, ConstantsOK DEF Shape, Holds
  <2>4. QED
    BY <1>0, <1>4, <2>1, <2>2, <2>3, PlainStep DEF TransferRoom, rowVars
<1>5. ASSUME NEW u \in Users, NEW a \in Callers, NEW g \in {"member", "admin"}, SetRole(q, a, u, g)
      PROVE  Inv'
  <2> DEFINE r == [Idle EXCEPT !.stage = "granting", !.user = u, !.grant = g]
  <2>1. r \in ReqType /\ r.name = 0 /\ r.stage = "granting" /\ r.user = u /\ ~r.failed
    BY DEF Idle, ReqType, Stages, Roles
  <2>2. req' = [req EXCEPT ![q] = r] /\ req[q].stage # "deleting"
    BY <1>5 DEF SetRole, Start, Idle
  <2> HIDE DEF r
  <2>3. Shape(r)
    BY <2>1, ConstantsOK DEF Shape, Holds
  <2>4. QED
    BY <1>0, <1>5, <2>1, <2>2, <2>3, PlainStep DEF SetRole, rowVars
<1>6. QED
  BY <1>1, <1>2, <1>3, <1>4, <1>5, <1>7, <1>8 DEF Begins

\* A request that ends, with or without a failure.
LEMMA EndsInv ==
  ASSUME Inv, NEW q \in Requests, NEW hasLost, End(q), Node(onNode, hasLost),
         name' = name, banned' \subseteq Users, role' \in [Users -> Roles],
         lost \subseteq hasLost,
         req[q].stage = "deleting" => <<req[q].user, req[q].name>> \in hasLost
  PROVE  Inv'
<1>1. Idle \in ReqType /\ Idle.name = 0 /\ Shape(Idle)
  BY ConstantsOK DEF Idle, ReqType, Stages, Roles, Shape, Holds
<1>2. QED
  BY <1>1, PlainStep DEF End

\* A request that goes on to a step that needs no name.
LEMMA GoesOnInv ==
  ASSUME Inv, NEW q \in Requests, NEW hasLost,
         NEW stage \in {"demoting", "revoking", "closing"},
         req' = [req EXCEPT ![q].stage = stage, ![q].name = 0],
         req[q].stage \in {"removing", "deleting", "demoting", "revoking"},
         Node(onNode, hasLost),
         name' = name, banned' \subseteq Users, role' \in [Users -> Roles],
         lost \subseteq hasLost,
         req[q].stage = "deleting" => <<req[q].user, req[q].name>> \in hasLost
  PROVE  Inv'
<1> DEFINE r == [req[q] EXCEPT !.stage = stage, !.name = 0]
<1>1. /\ req[q] \in ReqType /\ stage \in Stages /\ req[q].user # NoUser
      /\ ~req[q].failed
  BY DEF Inv, TypeOK, ReqType, Stages, Shape
<1>2. /\ r \in ReqType /\ r.name = 0 /\ r.stage = stage /\ r.user = req[q].user
      /\ ~r.failed
  BY <1>1 DEF ReqType
<1>3. req' = [req EXCEPT ![q] = r]
  BY <1>1 DEF Inv, TypeOK
<1> HIDE DEF r
<1>4. Shape(r)
  BY <1>1, <1>2 DEF Shape, Holds
<1>5. QED
  BY <1>2, <1>3, <1>4, PlainStep

LEMMA GotoInv ==
  ASSUME Inv, NEW q \in Requests,
         NEW stage \in {"demoting", "revoking", "closing"},
         Goto(q, stage), req[q].stage \in {"demoting", "revoking"},
         name' = name, banned' \subseteq Users, role' \in [Users -> Roles],
         Node(onNode, lost)
  PROVE  Inv'
<1>1. req[q].name = 0
  BY DEF Inv, Shape, Holds
<1>2. req' = [req EXCEPT ![q].stage = stage, ![q].name = 0]
  BY <1>1 DEF Goto, Inv, TypeOK
<1>3. QED
  BY <1>2, GoesOnInv

LEMMA ProceedsInv ==
  ASSUME Inv, NEW q \in Requests, Proceeds(q) \/ CutOff(q)
  PROVE  Inv'
<1>1. /\ banned \subseteq Users /\ role \in [Users -> Roles]
      /\ req[q].stage # "idle" => req[q].user \in Users
      /\ req[q].grant \in Roles
  BY DEF Inv, TypeOK, Shape
<1>2. CASE AlreadyMember(q) \/ CreateFails(q) \/ Duplicate(q) \/ Close(q)
  BY <1>1, <1>2, EndsInv DEF AlreadyMember, CreateFails, Duplicate, Close, rowVars
<1>3. CASE NodeNotFound(q)
  BY <1>1, <1>3, GoesOnInv DEF NodeNotFound, rowVars
<1>4. CASE DeleteFails(q)
  <2>1. lost \subseteq lost \cup {<<req[q].user, req[q].name>>}
    OBVIOUS
  <2>2. <<req[q].user, req[q].name>> \in lost \cup {<<req[q].user, req[q].name>>}
    OBVIOUS
  <2>3. QED
    BY <1>1, <1>4, <2>1, <2>2, GoesOnInv DEF DeleteFails, rowVars
<1>5. CASE ReadRole(q)
  BY <1>1, <1>5, GotoInv DEF ReadRole, rowVars
<1>6. CASE DeleteRole(q)
  <2>1. role' \in [Users -> Roles]
    BY <1>1, <1>6 DEF DeleteRole, Roles
  <2>2. QED
    BY <1>1, <1>6, <2>1, GotoInv DEF DeleteRole
<1>7. CASE InsertBan(q)
  <2>1. banned' \subseteq Users
    BY <1>1, <1>7 DEF InsertBan
  <2>2. QED
    BY <1>1, <1>7, <2>1, EndsInv DEF InsertBan
<1>8. CASE WriteRole(q)
  <2>1. role' \in [Users -> Roles]
    BY <1>1, <1>8 DEF WriteRole, Roles
  <2>2. QED
    BY <1>1, <1>8, <2>1, EndsInv DEF WriteRole
<1>9. CASE CommitTransfer(q)
  <2>1. role' \in [Users -> Roles]
    BY <1>1, <1>9 DEF CommitTransfer, Roles
  <2>2. QED
    BY <1>1, <1>9, <2>1, EndsInv DEF CommitTransfer
<1>10. CASE CutOff(q)
  <2> DEFINE hasLost == IF req[q].stage = "deleting"
                        THEN lost \cup {<<req[q].user, req[q].name>>} ELSE lost
  <2>1. /\ lost \subseteq hasLost
        /\ req[q].stage = "deleting" => <<req[q].user, req[q].name>> \in hasLost
    OBVIOUS
  <2>2. Node(onNode, hasLost) /\ End(q) /\ UNCHANGED rowVars
    BY <1>10 DEF CutOff
  <2> HIDE DEF hasLost
  <2>3. QED
    BY <1>1, <2>1, <2>2, EndsInv DEF rowVars
<1>11. CASE KeepRole(q)
  <2> DEFINE r == [req[q] EXCEPT !.stage = "closing", !.failed = TRUE]
  <2>1. req[q] \in ReqType /\ req[q].user # NoUser /\ req[q].name = 0
    BY <1>11 DEF KeepRole, Inv, TypeOK, ReqType, Shape, Holds
  <2>2. r \in ReqType /\ r.name = 0 /\ r.stage = "closing" /\ r.user = req[q].user
    BY <2>1 DEF ReqType, Stages
  <2>3. req' = [req EXCEPT ![q] = r] /\ req[q].stage # "deleting"
    BY <1>11, <2>1 DEF KeepRole, Inv, TypeOK
  <2> HIDE DEF r
  <2>4. Shape(r)
    BY <2>1, <2>2 DEF Shape, Holds
  <2>5. QED
    BY <1>1, <1>11, <2>2, <2>3, <2>4, PlainStep DEF KeepRole, rowVars
<1>12. QED
  BY <1>2, <1>3, <1>4, <1>5, <1>6, <1>7, <1>8, <1>9, <1>10, <1>11,
     CreateInv, InsertInv, DeleteVPNUserInv, DeleteMemberInv DEF Proceeds

LEMMA NextInv == Inv /\ [Next]_vars => Inv'
<1> SUFFICES ASSUME Inv, [Next]_vars
             PROVE  Inv'
  OBVIOUS
<1>1. banned \subseteq Users /\ role \in [Users -> Roles]
  BY DEF Inv, TypeOK
<1>2. ASSUME NEW a \in Callers, NEW u \in Users, Unban(a, u)
      PROVE  Inv'
  BY <1>1, <1>2, RowStep DEF Unban
<1>3. ASSUME NEW u \in Users, AssignOwner(u)
      PROVE  Inv'
  <2>1. role' \in [Users -> Roles]
    BY <1>1, <1>3 DEF AssignOwner, Roles
  <2>2. QED
    BY <1>1, <1>3, <2>1, RowStep DEF AssignOwner
<1>4. CASE UNCHANGED vars
  BY <1>1, <1>4, RowStep DEF vars, rowVars
<1>5. QED
  BY <1>2, <1>3, <1>4, BeginsInv, ProceedsInv, HubLostInv,
     EvictVPNUserInv, EvictMembersInv DEF Next

-----------------------------------------------------------------------------

\* The rows, roles, bans and requests are well typed for any users and requests.
THEOREM TypeCorrect == Spec => []TypeOK
<1>1. Inv => TypeOK
  BY DEF Inv
<1>2. QED
  BY <1>1, InitInv, NextInv, PTL DEF Spec

\* However joins, leaves, kicks, bans, failures and lost hubs interleave, the
\* node has the VPN user that a member's row names, but for what a removal has
\* taken on its way or a lost hub.
THEOREM CredentialsWork == Spec => []MembersCanConnect
<1>1. Inv => MembersCanConnect
  BY DEF Inv
<1>2. QED
  BY <1>1, InitInv, NextInv, PTL DEF Spec

\* A user who is banned, out, and has no join under way stays out, unless the
\* query for the ban fails.
THEOREM BansAreKept == Spec => BansHold
<1>1. ASSUME Inv, [Next]_vars, NEW u \in banned \cap banned', Out(u),
             \A q \in Requests : ~PassesOver(q, u)
      PROVE  Out(u)'
  <2>1. u \in Users /\ name[u] = 0
    BY <1>1 DEF Inv, TypeOK, Out, IsMember
  <2>2. \A q \in Requests : req[q].stage \in {"joining", "created"} => req[q].user # u
    BY <1>1 DEF Out
  <2>3. ASSUME NEW q \in Requests, Begins(q)
        PROVE  Out(u)'
    <3>1. name' = name /\ \A p \in Requests \ {q} : req'[p] = req[p]
      BY <1>1, <2>3 DEF Begins, Join, JoinUnread, Leave, Kick, KickOutsider, Ban, BanOutsider,
         TransferRoom, SetRole, Remove, Start, rowVars, Inv, TypeOK
    <3>2. req'[q].stage \in {"joining", "created"} => req'[q].user # u
      <4>1. ASSUME NEW v \in Users, Join(q, v)
            PROVE  req'[q].user # u
        BY <1>1, <4>1 DEF Join, Joining, Start, Idle, Inv, TypeOK
      <4>2. ASSUME NEW v \in Users, JoinUnread(q, v)
            PROVE  req'[q].user # u
        <5>1. req'[q].failed /\ req'[q].user = v /\ ~req[q].failed
          BY <1>1, <4>2 DEF JoinUnread, Joining, Start, Idle, Inv, TypeOK
        <5>2. QED
          BY <1>1, <5>1 DEF PassesOver
      <4>3. ASSUME ~\E v \in Users : Join(q, v) \/ JoinUnread(q, v)
            PROVE  req'[q].stage \notin {"joining", "created"}
        <5>1. ASSUME NEW v \in Users, NEW ban \in BOOLEAN, Remove(q, v, ban)
              PROVE  req'[q].stage = "removing"
          BY <1>1, <5>1 DEF Remove, Start, Idle, Inv, TypeOK
        <5>2. ASSUME NEW v \in Users, NEW a \in Callers, BanOutsider(q, a, v)
              PROVE  req'[q].stage = "closing"
          BY <1>1, <5>2 DEF BanOutsider, Start, Idle, Inv, TypeOK
        <5>3. ASSUME NEW v \in Users, NEW a \in Callers, TransferRoom(q, a, v)
              PROVE  req'[q].stage = "transferring"
          BY <1>1, <5>3 DEF TransferRoom, Start, Idle, Inv, TypeOK
        <5>4. ASSUME NEW v \in Users, NEW a \in Callers, NEW r \in {"member", "admin"},
                     SetRole(q, a, v, r)
              PROVE  req'[q].stage = "granting"
          BY <1>1, <5>4 DEF SetRole, Start, Idle, Inv, TypeOK
        <5>5. ASSUME NEW v \in Users, KickOutsider(q, v)
              PROVE  req'[q].stage = "demoting"
          BY <1>1, <5>5 DEF KickOutsider, Start, Idle, Inv, TypeOK
        <5>6. QED
          BY <2>3, <4>3, <5>1, <5>2, <5>3, <5>4, <5>5 DEF Begins, Leave, Kick, Ban
      <4>4. QED
        BY <4>1, <4>2, <4>3
    <3>3. QED
      BY <2>1, <2>2, <3>1, <3>2 DEF Out, IsMember
  <2>4. ASSUME NEW q \in Requests, CreateVPNUser(q) \/ InsertMember(q)
        PROVE  Out(u)'
    <3>1. req[q].user # u /\ req[q].user \in Users
      BY <1>1, <2>2, <2>4 DEF CreateVPNUser, InsertMember, Inv, TypeOK, Shape
    <3>2. name'[u] = 0
      BY <1>1, <2>1, <2>4, <3>1 DEF CreateVPNUser, InsertMember, rowVars, Inv, TypeOK
    <3>3. \A p \in Requests : req'[p].stage \in {"joining", "created"} => req'[p].user # u
      BY <1>1, <2>1, <2>2, <2>4, <3>1, ConstantsOK
         DEF CreateVPNUser, InsertMember, End, Idle, Inv, TypeOK
    <3>4. QED
      BY <3>2, <3>3 DEF Out, IsMember
  <2>5. ASSUME NEW q \in Requests, Proceeds(q) \/ CutOff(q),
               ~CreateVPNUser(q), ~InsertMember(q)
        PROVE  Out(u)'
    <3>1. name'[u] = 0
      BY <1>1, <2>1, <2>5 DEF Proceeds, CutOff, AlreadyMember, CreateFails, Duplicate,
         NodeNotFound, DeleteVPNUser, DeleteMember, DeleteFails, ReadRole, DeleteRole,
         KeepRole, Close, InsertBan, WriteRole, CommitTransfer, rowVars, Inv, TypeOK
    <3>2. /\ \A p \in Requests \ {q} : req'[p] = req[p]
          /\ req'[q].stage \notin {"joining", "created"}
      BY <1>1, <2>5 DEF Proceeds, CutOff, AlreadyMember, CreateFails, Duplicate,
         NodeNotFound, DeleteVPNUser, DeleteMember, DeleteFails, ReadRole, DeleteRole,
         KeepRole, Close, Goto, InsertBan, WriteRole, CommitTransfer, End, Idle, Inv, TypeOK
    <3>3. QED
      BY <2>2, <3>1, <3>2 DEF Out, IsMember
  <2>6. ASSUME UNCHANGED req, name' = name \/ EvictMembers
        PROVE  Out(u)'
    <3>1. name'[u] = 0
      BY <2>1, <2>6 DEF EvictMembers
    <3>2. QED
      BY <2>2, <2>6, <3>1 DEF Out, IsMember
  <2>7. QED
    BY <1>1, <2>3, <2>4, <2>5, <2>6
       DEF Next, Unban, AssignOwner, HubLost, EvictVPNUser, EvictMembers, vars, rowVars
<1>2. Inv /\ [Next]_vars =>
        [\A u \in banned \cap banned' :
           Out(u) => Out(u)' \/ \E q \in Requests : PassesOver(q, u)]_vars
  BY <1>1
<1>3. QED
  BY <1>2, InitInv, NextInv, PTL DEF Spec, BansHold

-----------------------------------------------------------------------------
(* Roles *)

\* The row goes before the role, and until the removal has dealt with the role
\* it is not left over.
LEMMA MembersRolesGo ==
  ASSUME Inv, [Next]_vars, NEW u \in Users, name[u] # 0, name'[u] = 0
  PROVE  EvictMembers \/ ~LeftOver(u)'
<1>1. CASE \E q \in Requests : DeleteMember(q)
  <2>1. PICK q \in Requests : DeleteMember(q)
    BY <1>1
  <2>2. req[q].user = u
    BY <2>1 DEF DeleteMember, Inv, TypeOK
  <2>3. req'[q].stage = "demoting" /\ req'[q].user = u
    BY <2>1, <2>2 DEF DeleteMember, Inv, TypeOK
  <2>4. QED
    BY <2>3 DEF LeftOver
<1>2. CASE \E q \in Requests : InsertMember(q)
  <2>1. PICK q \in Requests : InsertMember(q)
    BY <1>2
  <2>2. name[req[q].user] = 0
    BY <2>1 DEF InsertMember, IsMember
  <2>3. name'[u] = name[u]
    BY <2>1, <2>2 DEF InsertMember, Inv, TypeOK
  <2>4. QED
    BY <2>3
<1>3. ASSUME ~\E q \in Requests : DeleteMember(q) \/ InsertMember(q), ~EvictMembers
      PROVE  name' = name
  <2>1. ASSUME NEW q \in Requests, Begins(q)
        PROVE  name' = name
    BY <2>1 DEF Begins, Join, JoinUnread, Leave, Kick, KickOutsider, Ban, BanOutsider,
       TransferRoom, SetRole, Remove, rowVars
  <2>2. ASSUME NEW q \in Requests, Proceeds(q) \/ CutOff(q)
        PROVE  name' = name
    BY <1>3, <2>2 DEF Proceeds, CutOff, AlreadyMember, CreateVPNUser, CreateFails, Duplicate,
       NodeNotFound, DeleteVPNUser, DeleteFails, ReadRole, DeleteRole, KeepRole, Close,
       InsertBan, WriteRole, CommitTransfer, rowVars
  <2>3. QED
    BY <1>3, <2>1, <2>2 DEF Next, Unban, AssignOwner, HubLost, EvictVPNUser, vars, rowVars
<1>4. QED
  BY <1>1, <1>2, <1>3

\* Who has no role to lose gets one without a row by a late grant or a transfer.
LEMMA NewRoles ==
  ASSUME Inv, [Next]_vars, NEW u \in Users, name'[u] = 0,
         role[u] \notin {"member", "admin"}, role'[u] \in {"member", "admin"}
  PROVE  \E q \in Requests : LeavesRole(q, u)
<1>1. ASSUME NEW q \in Requests, InsertMember(q)
      PROVE  FALSE
  <2>1. req[q].user \in Users /\ req[q].name # 0
    BY <1>1 DEF InsertMember, Inv, TypeOK, Shape, Holds
  <2>2. u # req[q].user
    BY <1>1, <2>1 DEF InsertMember, Inv, TypeOK
  <2>3. role'[u] = role[u]
    BY <1>1, <2>2 DEF InsertMember, Inv, TypeOK
  <2>4. QED
    BY <2>3
<1>2. ASSUME NEW q \in Requests, WriteRole(q)
      PROVE  LeavesRole(q, u)
  <2>1. req[q].user = u
    BY <1>2 DEF WriteRole, Inv, TypeOK
  <2>2. QED
    BY <1>2, <2>1 DEF LeavesRole
<1>3. ASSUME NEW q \in Requests, CommitTransfer(q)
      PROVE  LeavesRole(q, u)
  <2>1. role' = [[v \in Users |-> IF v = req[q].by THEN "admin" ELSE role[v]]
                  EXCEPT ![req[q].user] = "owner"]
    BY <1>3 DEF CommitTransfer
  <2>2. req[q].by = u
    BY <2>1
  <2>3. QED
    BY <1>3, <2>2 DEF LeavesRole
<1>4. ASSUME NEW q \in Requests, DeleteRole(q)
      PROVE  FALSE
  BY <1>4 DEF DeleteRole, Inv, TypeOK
<1>5. ASSUME NEW v \in Users, AssignOwner(v)
      PROVE  FALSE
  BY <1>5 DEF AssignOwner, Inv, TypeOK
<1>6. ASSUME ~\E q \in Requests : InsertMember(q) \/ WriteRole(q) \/ CommitTransfer(q)
                                    \/ DeleteRole(q),
             ~\E v \in Users : AssignOwner(v)
      PROVE  role' = role
  <2>1. ASSUME NEW q \in Requests, Begins(q)
        PROVE  role' = role
    BY <2>1 DEF Begins, Join, JoinUnread, Leave, Kick, KickOutsider, Ban, BanOutsider,
       TransferRoom, SetRole, Remove, rowVars
  <2>2. ASSUME NEW q \in Requests, Proceeds(q) \/ CutOff(q)
        PROVE  role' = role
    BY <1>6, <2>2 DEF Proceeds, CutOff, AlreadyMember, CreateVPNUser, CreateFails, Duplicate,
       NodeNotFound, DeleteVPNUser, DeleteMember, DeleteFails, ReadRole, KeepRole, Close,
       InsertBan, rowVars
  <2>3. QED
    BY <1>6, <2>1, <2>2 DEF Next, Unban, HubLost, EvictVPNUser, EvictMembers, vars, rowVars
<1>7. QED
  BY <1>1, <1>2, <1>3, <1>4, <1>5, <1>6

\* A removal that has come to the role deals with it or passes over a failure.
LEMMA RemovalsDealWithRoles ==
  ASSUME Inv, [Next]_vars, NEW u \in Users, NEW q \in Requests,
         req[q].stage \in {"demoting", "revoking"}, req[q].user = u,
         role[u] \in {"member", "admin"}, LeftOver(u)'
  PROVE  LeavesRole(q, u)
<1>1. ~(req'[q].stage \in {"demoting", "revoking"} /\ req'[q].user = u)
  BY DEF LeftOver
<1>2. req'[q] # req[q]
  BY <1>1
<1>3. ~req[q].failed /\ req[q] # Idle
  BY DEF Inv, Shape, Idle
<1>4. CASE CutOff(q)
  BY <1>4 DEF LeavesRole
<1>5. CASE KeepRole(q)
  <2>1. req'[q].failed /\ req'[q].user = u
    BY <1>5 DEF KeepRole, Inv, TypeOK
  <2>2. QED
    BY <1>3, <2>1 DEF LeavesRole, PassesOver
<1>6. CASE ReadRole(q)
  <2>1. req'[q].stage = "revoking" /\ req'[q].user = u
    BY <1>6 DEF ReadRole, Goto, Inv, TypeOK
  <2>2. QED
    BY <1>1, <2>1
<1>7. CASE DeleteRole(q)
  <2>1. role'[u] = "none"
    BY <1>7 DEF DeleteRole, Inv, TypeOK
  <2>2. QED
    BY <2>1 DEF LeftOver
<1>8. ASSUME NEW p \in Requests, p # q, Begins(p) \/ Proceeds(p) \/ CutOff(p)
      PROVE  req'[q] = req[q]
  <2>1. CASE Begins(p)
    BY <1>8, <2>1 DEF Begins, Join, JoinUnread, Leave, Kick, KickOutsider, Ban, BanOutsider,
       TransferRoom, SetRole, Remove, Start, Inv, TypeOK
  <2>2. CASE Proceeds(p) \/ CutOff(p)
    BY <1>8, <2>2 DEF Proceeds, CutOff, AlreadyMember, CreateVPNUser, CreateFails,
       InsertMember, Duplicate, NodeNotFound, DeleteVPNUser, DeleteMember, DeleteFails,
       ReadRole, DeleteRole, KeepRole, Close, InsertBan, WriteRole, CommitTransfer,
       End, Goto, Inv, TypeOK
  <2>3. QED
    BY <1>8, <2>1, <2>2
<1>9. ~Begins(q)
  BY <1>3 DEF Begins, Join, JoinUnread, Leave, Kick, KickOutsider, Ban, BanOutsider,
     TransferRoom, SetRole, Remove, Start
<1>10. Proceeds(q) => ReadRole(q) \/ DeleteRole(q) \/ KeepRole(q)
  BY DEF Proceeds, AlreadyMember, CreateVPNUser, CreateFails, InsertMember, Duplicate,
     NodeNotFound, DeleteVPNUser, DeleteMember, DeleteFails, Close, InsertBan, WriteRole,
     CommitTransfer
<1>11. QED
  BY <1>2, <1>4, <1>5, <1>6, <1>7, <1>8, <1>9, <1>10
     DEF Next, Unban, AssignOwner, HubLost, EvictVPNUser, EvictMembers, vars

\* Nobody is left with a member's or an admin's role without being a member, but
\* by the failures and races that RolesGoToo names.
THEOREM RemovalsTakeRoles == Spec => RolesGoToo
<1>1. ASSUME Inv, [Next]_vars, NEW u \in Users, LeftOver(u)', ~LeftOver(u), ~EvictMembers
      PROVE  \E q \in Requests : LeavesRole(q, u)
  <2>1. name'[u] = 0 /\ role'[u] \in {"member", "admin"}
    BY <1>1 DEF LeftOver, IsMember
  <2>2. name[u] = 0
    BY <1>1, <2>1, MembersRolesGo
  <2>3. CASE role[u] \notin {"member", "admin"}
    BY <1>1, <2>1, <2>3, NewRoles
  <2>4. CASE role[u] \in {"member", "admin"}
    <3>1. PICK q \in Requests : req[q].stage \in {"demoting", "revoking"} /\ req[q].user = u
      BY <1>1, <2>2, <2>4 DEF LeftOver, IsMember
    <3>2. QED
      BY <1>1, <2>4, <3>1, RemovalsDealWithRoles
  <2>5. QED
    BY <2>3, <2>4
<1>2. Inv /\ [Next]_vars =>
        [\A u \in Users : LeftOver(u)' =>
           LeftOver(u) \/ EvictMembers \/ \E q \in Requests : LeavesRole(q, u)]_vars
  BY <1>1
<1>3. QED
  BY <1>2, InitInv, NextInv, PTL DEF Spec, RolesGoToo

=============================================================================
