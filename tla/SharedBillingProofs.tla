-------------------------- MODULE SharedBillingProofs ---------------------------
(***************************************************************************)
(* What is certain of the charges for shared rooms though the worker and    *)
(* Leave compute them from what they read before, for any number of         *)
(* sessions and requests and any prices.                                    *)
(*                                                                         *)
(* The invariant says how old the numbers in hand may be.  An entry of the  *)
(* worker's list is exact while its session is open, because nobody else    *)
(* charges an open session and leaves it open; what Leave has read is never *)
(* more than what has been paid.                                            *)
(***************************************************************************)
EXTENDS SharedBilling, FiniteSetTheorems, TLAPS

WorkerType == worker \in [todo : SUBSET Entry, deleting : BOOLEAN]

\* The list is of sessions that were open, one entry for each.
Listed == \A e \in worker.todo :
  /\ session[e.session].state # "none"
  /\ session[e.session].state = "open" => e.charged = session[e.session].charged
  /\ \A f \in worker.todo : f.session = e.session => f = e

Closing == \A q \in Requests :
  req[q].stage = "closing" =>
    LET s == req[q].session IN
    s \in Sessions /\ session[s].state # "none" /\ req[q].charged <= paid[s]

FreshSessions == \A s \in Unused : session[s].charged = 0

Inv == TypeOK /\ WorkerType /\ FreshSessions /\ ColumnIsPaid /\ Listed /\ Closing

-----------------------------------------------------------------------------
(* Arithmetic *)

LEMMA CeilDivIsNat ==
  ASSUME NEW a \in Nat, NEW b \in Nat \ {0}
  PROVE  CeilDiv(a, b) \in Nat
  BY DEF CeilDiv

LEMMA PricesAreNat ==
  ASSUME NEW age \in Nat
  PROVE  Expected(age) \in Nat /\ Begun(age) \in Nat
<1>1. age * HourlyCost \in Nat
  BY ConstantsOK
<1>2. Expected(age) \in Nat
  BY <1>1, ConstantsOK, CeilDivIsNat DEF Expected
<1>3. age \div HourTicks + 1 \in Nat
  BY ConstantsOK
<1>4. Begun(age) \in Nat
  BY <1>3, ConstantsOK DEF Begun
<1>5. QED
  BY <1>2, <1>4

LEMMA PayableFits ==
  ASSUME balance \in Nat, NEW amount \in Int
  PROVE  Payable(amount) \in 0 .. balance
  BY DEF Payable

LEMMA Ages ==
  ASSUME TypeOK, NEW s \in Sessions
  PROVE  session[s].age \in Nat
  BY ConstantsOK DEF TypeOK

-----------------------------------------------------------------------------
(* Steps *)

LEMMA InitInv == Init => Inv
<1> SUFFICES ASSUME Init PROVE Inv
  OBVIOUS
<1>1. TypeOK
  <2>1. 0 \in 0 .. MaxAge
    BY ConstantsOK
  <2>2. session \in [Sessions -> [state : {"none", "open", "ended"}, age : 0 .. MaxAge, charged : Nat]]
    BY <2>1 DEF Init
  <2>3. worker.todo \subseteq Entry /\ worker.deleting \in BOOLEAN
    BY DEF Init, NoWork
  <2>4. req \in [Requests -> [stage : {"idle", "joining", "leaving", "reading", "closing"},
                             session : Sessions \cup {0}, charged : Nat]]
    BY DEF Init, Idle
  <2>5. balance \in Nat /\ member \in BOOLEAN /\ paid \in [Sessions -> Nat]
    BY ConstantsOK DEF Init
  <2>6. \A s \in Unused : paid[s] = 0
    BY DEF Init, Unused
  <2>7. QED
    BY <2>2, <2>3, <2>4, <2>5, <2>6 DEF TypeOK
<1>2. WorkerType
  BY DEF Init, WorkerType, NoWork
<1>3. QED
  BY <1>1, <1>2 DEF Init, Inv, FreshSessions, ColumnIsPaid, Listed, Closing, Unused, Open, NoWork, Idle

\* Steps that charge nothing and list nothing.
LEMMA QuietSteps ==
  ASSUME Inv, UNCHANGED <<session, paid>>,
         TypeOK', WorkerType', worker'.todo \subseteq worker.todo,
         \A q \in Requests : req'[q].stage = "closing" => req'[q] = req[q]
  PROVE  Inv'
<1>1. Open' = Open /\ Unused' = Unused
  BY DEF Open, Unused
<1>2. FreshSessions' /\ ColumnIsPaid'
  BY <1>1 DEF Inv, FreshSessions, ColumnIsPaid
<1>3. Listed'
  BY DEF Inv, Listed
<1>4. Closing'
  BY DEF Inv, Closing
<1>5. QED
  BY <1>2, <1>3, <1>4 DEF Inv

LEMMA RequestSteps ==
  ASSUME Inv, NEW q \in Requests,
         Join(q) \/ Leave(q) \/ DeleteMember(q) \/ NoOpenSession(q) \/ Fail(q)
  PROVE  Inv'
<1>1. UNCHANGED <<session, paid, worker>>
  BY DEF Join, Leave, DeleteMember, NoOpenSession, Fail
<1>2. \E r \in [stage : {"idle", "joining", "leaving", "reading", "closing"},
                session : Sessions \cup {0}, charged : Nat] :
        r.stage # "closing" /\ req' = [req EXCEPT ![q] = r]
  <2> DEFINE R == [stage : {"idle", "joining", "leaving", "reading", "closing"},
                   session : Sessions \cup {0}, charged : Nat]
  <2>1. Idle \in R /\ Idle.stage # "closing"
    BY DEF Idle
  <2>2. CASE Fail(q) \/ NoOpenSession(q)
    BY <2>1, <2>2 DEF Fail, NoOpenSession
  <2>3. ASSUME NEW stage \in {"joining", "leaving", "reading"},
               req' = [req EXCEPT ![q].stage = stage]
        PROVE  \E r \in R : r.stage # "closing" /\ req' = [req EXCEPT ![q] = r]
    <3>1. [req[q] EXCEPT !.stage = stage] \in R /\ [req[q] EXCEPT !.stage = stage].stage # "closing"
      BY DEF Inv, TypeOK
    <3>2. req' = [req EXCEPT ![q] = [req[q] EXCEPT !.stage = stage]]
      BY <2>3
    <3>3. QED
      BY <3>1, <3>2
  <2>4. CASE Join(q) \/ Leave(q) \/ DeleteMember(q)
    BY <2>3, <2>4 DEF Join, Leave, DeleteMember
  <2>5. QED
    BY <2>2, <2>4
<1>3. balance' = balance /\ member' \in BOOLEAN
  BY DEF Inv, TypeOK, Join, Leave, DeleteMember, NoOpenSession, Fail
<1>5. TypeOK'
  BY <1>1, <1>2, <1>3 DEF Inv, TypeOK, Unused
<1>6. \A p \in Requests : req'[p].stage = "closing" => req'[p] = req[p]
  BY <1>2 DEF Inv, TypeOK
<1>4. WorkerType' /\ worker'.todo \subseteq worker.todo
  BY <1>1 DEF Inv, WorkerType
<1>7. QED
  BY <1>1, <1>4, <1>5, <1>6, QuietSteps

LEMMA WorkerKicksInv == Inv /\ WorkerKicks => Inv'
<1> SUFFICES ASSUME Inv, WorkerKicks PROVE Inv'
  OBVIOUS
<1>1. WorkerType' /\ worker'.todo = worker.todo
  BY DEF Inv, WorkerType, WorkerKicks
<1>2. TypeOK'
  BY <1>1 DEF Inv, TypeOK, WorkerType, Unused, WorkerKicks
<1>3. QED
  BY <1>1, <1>2, QuietSteps DEF WorkerKicks

LEMMA CrashInv == Inv /\ Crash => Inv'
<1> SUFFICES ASSUME Inv, Crash PROVE Inv'
  OBVIOUS
<1>1. WorkerType' /\ worker'.todo = {}
  BY DEF WorkerType, Crash, NoWork
<1>2. TypeOK'
  BY <1>1 DEF Inv, TypeOK, WorkerType, Unused, Crash, Idle
<1>3. QED
  BY <1>1, <1>2, QuietSteps DEF Crash, Idle

LEMMA JoinedInv ==
  ASSUME Inv, NEW q \in Requests, Joined(q)
  PROVE  Inv'
<1>1. CASE member
  <2>1. UNCHANGED <<session, paid, worker>>
    BY <1>1 DEF Joined
  <2>2. TypeOK' /\ WorkerType'
    BY <2>1 DEF Inv, TypeOK, WorkerType, Unused, Idle, Joined
  <2>3. \A p \in Requests : req'[p].stage = "closing" => req'[p] = req[p]
    BY DEF Inv, TypeOK, Idle, Joined
  <2>4. QED
    BY <2>1, <2>2, <2>3, QuietSteps
<1>2. CASE ~member
  <2>1. PICK s \in Unused : session' = [session EXCEPT ![s].state = "open"]
    BY <1>2 DEF Joined
  <2>2. s \in Sessions /\ session[s].charged = 0 /\ paid[s] = 0
    BY DEF Inv, TypeOK, FreshSessions, Unused
  <2>3. TypeOK' /\ WorkerType'
    BY <2>1, <2>2 DEF Inv, TypeOK, WorkerType, Unused, Idle, Joined
  <2>4. FreshSessions' /\ ColumnIsPaid'
    BY <2>1, <2>2 DEF Inv, TypeOK, FreshSessions, ColumnIsPaid, Unused, Open, Joined
  <2>5. Listed'
    BY <2>1, <2>2 DEF Inv, TypeOK, Listed, Entry, Unused, Joined
  <2>6. Closing'
    BY <2>1, <2>2 DEF Inv, TypeOK, Closing, Idle, Unused, Joined
  <2>7. QED
    BY <2>3, <2>4, <2>5, <2>6 DEF Inv
<1>3. QED
  BY <1>1, <1>2

\* What is read of an open session is what has been paid for it.
LEMMA ReadSessionInv ==
  ASSUME Inv, NEW q \in Requests, ReadSession(q)
  PROVE  Inv'
<1>1. PICK s \in Open : req' = [req EXCEPT ![q] = [stage |-> "closing", session |-> s,
                                                  charged |-> session[s].charged]]
  BY DEF ReadSession
<1>2. s \in Sessions /\ session[s].charged = paid[s] /\ session[s].charged \in Nat
      /\ session[s].state = "open"
  BY DEF Inv, TypeOK, ColumnIsPaid, Open
<1>3. TypeOK' /\ WorkerType'
  BY <1>1, <1>2 DEF Inv, TypeOK, WorkerType, Unused, ReadSession
<1>4. FreshSessions' /\ ColumnIsPaid' /\ Listed'
  BY DEF Inv, FreshSessions, ColumnIsPaid, Listed, Unused, Open, ReadSession
<1>5. Closing'
  BY <1>1, <1>2 DEF Inv, TypeOK, Closing, ReadSession
<1>6. QED
  BY <1>3, <1>4, <1>5 DEF Inv

\* The rest of the bill: what is taken is there, and covers it unless all is taken.
LEMMA Settles ==
  ASSUME Inv, NEW q \in Requests, CloseSession(q)
  PROVE  LET s == req[q].session IN
         /\ s \in Sessions /\ session[s].state # "none"
         /\ session[s].age \in Nat /\ Begun(session[s].age) \in Nat
         /\ balance' \in Nat /\ paid'[s] \in Nat /\ paid'[s] >= paid[s]
         /\ paid' = [paid EXCEPT ![s] = paid'[s]]
         /\ balance' = 0 \/ paid'[s] >= Begun(session[s].age)
<1> DEFINE s == req[q].session
           bill == Begun(session[s].age)
           rest == bill - req[q].charged
<1>1. s \in Sessions /\ session[s].state # "none" /\ req[q].charged <= paid[s]
  BY DEF Inv, Closing, CloseSession
<1>2. session[s].age \in Nat /\ bill \in Nat
  BY <1>1, Ages, PricesAreNat DEF Inv
<1>3. req[q].charged \in Nat /\ balance \in Nat /\ paid \in [Sessions -> Nat] /\ rest \in Int
  BY <1>2 DEF Inv, TypeOK
<1>4. /\ balance' = balance - Payable(rest)
      /\ paid' = [paid EXCEPT ![s] = @ + Payable(rest)]
  BY DEF CloseSession, Take
<1>5. Payable(rest) \in 0 .. balance
  BY <1>3, PayableFits
<1>6. paid'[s] = paid[s] + Payable(rest)
  BY <1>1, <1>3, <1>4
<1>7. balance' = 0 \/ paid'[s] >= bill
  <2> HIDE DEF s, rest
  <2>1. CASE rest <= 0
    <3>1. bill <= req[q].charged
      BY <2>1, <1>2, <1>3 DEF rest
    <3>2. QED
      BY <3>1, <1>1, <1>2, <1>3, <1>5, <1>6
  <2>2. CASE rest > 0 /\ rest <= balance
    <3>1. Payable(rest) = rest
      BY <2>2, <1>3 DEF Payable
    <3>2. QED
      BY <3>1, <1>1, <1>2, <1>3, <1>6 DEF rest
  <2>3. CASE rest > 0 /\ ~(rest <= balance)
    <3>1. Payable(rest) = balance
      BY <2>3, <1>3 DEF Payable
    <3>2. QED
      BY <3>1, <1>3, <1>4
  <2>4. QED
    BY <1>3, <2>1, <2>2, <2>3
<1>8. balance' \in Nat /\ paid'[s] \in Nat /\ paid'[s] >= paid[s]
  <2> HIDE DEF s, rest
  <2>1. QED
    BY <1>1, <1>3, <1>4, <1>5, <1>6
<1>9. paid' = [paid EXCEPT ![s] = paid'[s]]
  <2> HIDE DEF s, rest
  <2>1. QED
    BY <1>1, <1>3, <1>4, <1>6
<1>10. QED
  BY <1>1, <1>2, <1>7, <1>8, <1>9

\* A session that is not open is left out of all that is said of open ones.
LEMMA CloseSessionInv ==
  ASSUME Inv, NEW q \in Requests, CloseSession(q)
  PROVE  Inv'
<1> DEFINE s == req[q].session
<1>1. /\ s \in Sessions /\ session[s].state # "none"
      /\ Begun(session[s].age) \in Nat
      /\ balance' \in Nat /\ paid'[s] \in Nat /\ paid'[s] >= paid[s]
      /\ paid' = [paid EXCEPT ![s] = paid'[s]]
  BY Settles
<1>2. /\ session' = [session EXCEPT ![s].state = "ended", ![s].charged = Begun(session[s].age)]
      /\ req' = [req EXCEPT ![q] = Idle]
      /\ UNCHANGED <<member, worker>>
  BY DEF CloseSession
<1> HIDE DEF s
<1>3. Unused' = Unused /\ s \notin Unused /\ Open' = Open \ {s}
  BY <1>1, <1>2 DEF Inv, TypeOK, Unused, Open
<1>4. TypeOK' /\ WorkerType'
  <2>1. paid' \in [Sessions -> Nat] /\ \A t \in Unused' : paid'[t] = 0
    BY <1>1, <1>3 DEF Inv, TypeOK, Unused
  <2>2. session' \in [Sessions -> [state : {"none", "open", "ended"}, age : 0 .. MaxAge, charged : Nat]]
    <3> DEFINE bill == Begun(session[s].age)
    <3>1. session' = [session EXCEPT ![s].state = "ended", ![s].charged = bill] /\ bill \in Nat
      BY <1>1, <1>2
    <3> HIDE DEF bill
    <3>2. session \in [Sessions -> [state : {"none", "open", "ended"}, age : 0 .. MaxAge, charged : Nat]]
      BY DEF Inv, TypeOK
    <3>3. QED
      BY <3>1, <3>2, <1>1
  <2>3. QED
    BY <1>1, <1>2, <2>1, <2>2 DEF Inv, TypeOK, WorkerType, Idle
<1>5. FreshSessions' /\ ColumnIsPaid'
  BY <1>1, <1>2, <1>3 DEF Inv, TypeOK, FreshSessions, ColumnIsPaid, Unused, Open
<1>6. Listed'
  BY <1>1, <1>2 DEF Inv, TypeOK, Listed, Entry
<1>7. Closing'
  BY <1>1, <1>2 DEF Inv, TypeOK, Closing, Idle
<1>8. QED
  BY <1>4, <1>5, <1>6, <1>7 DEF Inv

LEMMA WorkerListsInv == Inv /\ WorkerLists => Inv'
<1> SUFFICES ASSUME Inv, WorkerLists PROVE Inv'
  OBVIOUS
<1>1. /\ worker'.todo = {[session |-> s, charged |-> session[s].charged] : s \in Open}
      /\ worker' \in [todo : SUBSET Entry, deleting : BOOLEAN]
  <2> DEFINE list == {[session |-> s, charged |-> session[s].charged] : s \in Open}
  <2>1. list \subseteq Entry
    BY DEF Inv, TypeOK, Entry, Open
  <2>2. worker' = [NoWork EXCEPT !.todo = list]
    BY DEF WorkerLists
  <2> HIDE DEF list
  <2>3. worker'.todo = list /\ worker' \in [todo : SUBSET Entry, deleting : BOOLEAN]
    BY <2>1, <2>2 DEF NoWork
  <2>4. QED
    BY <2>3 DEF list
<1>2. TypeOK' /\ WorkerType'
  BY <1>1 DEF Inv, TypeOK, WorkerType, Unused, WorkerLists
<1>3. FreshSessions' /\ ColumnIsPaid' /\ Closing'
  BY DEF Inv, FreshSessions, ColumnIsPaid, Closing, Unused, Open, WorkerLists
<1>4. Listed'
  BY <1>1 DEF Listed, Open, WorkerLists
<1>5. QED
  BY <1>2, <1>3, <1>4 DEF Inv

LEMMA WorkerSkipsInv ==
  ASSUME Inv, NEW e \in worker.todo, WorkerSkips(e)
  PROVE  Inv'
<1>1. WorkerType' /\ worker'.todo \subseteq worker.todo
  BY DEF Inv, WorkerType, WorkerSkips, Done
<1>2. TypeOK'
  BY <1>1 DEF Inv, TypeOK, WorkerType, Unused, WorkerSkips
<1>3. QED
  BY <1>1, <1>2, QuietSteps DEF WorkerSkips

\* The two ways of charging for an entry: it takes `amount', which is there, and
\* leaves the session ended or with the column in step.
LEMMA ChargeInv ==
  ASSUME Inv, NEW e \in worker.todo, NEW amount \in Nat, amount <= balance,
         Take(e.session, amount), NEW state \in {"open", "ended"}, NEW charged \in Nat,
         session' = [session EXCEPT ![e.session].state = state, ![e.session].charged = charged],
         state = "open" => session[e.session].state = "open"
                           /\ charged = session[e.session].charged + amount,
         worker' \in [todo : SUBSET Entry, deleting : BOOLEAN],
         worker'.todo = worker.todo \ {e},
         UNCHANGED <<member, req>>
  PROVE  Inv'
<1> DEFINE s == e.session
<1>1. s \in Sessions /\ session[s].state # "none" /\ e.charged \in Nat
  BY DEF Inv, WorkerType, Listed, Entry
<1>2. /\ paid \in [Sessions -> Nat] /\ balance \in Nat
      /\ balance' = balance - amount /\ paid' = [paid EXCEPT ![s] = @ + amount]
  BY DEF Inv, TypeOK, Take
<1>3. /\ paid' \in [Sessions -> Nat] /\ balance' \in Nat
      /\ paid'[s] = paid[s] + amount
      /\ \A t \in Sessions : paid'[t] >= paid[t] /\ (t # s => paid'[t] = paid[t])
  <2> HIDE DEF s
  <2>1. QED
    BY <1>1, <1>2
<1>4. /\ session' \in [Sessions -> [state : {"none", "open", "ended"}, age : 0 .. MaxAge, charged : Nat]]
      /\ session'[s].state = state /\ session'[s].charged = charged
      /\ \A t \in Sessions : t # s => session'[t] = session[t]
  BY <1>1, SMTT(20) DEF Inv, TypeOK
<1> HIDE DEF s
<1>5. Unused' = Unused /\ s \notin Unused
  BY <1>1, <1>4 DEF Unused
<1>6. TypeOK' /\ WorkerType'
  BY <1>3, <1>4, <1>5 DEF Inv, TypeOK, WorkerType, Unused
<1>7. FreshSessions'
  BY <1>4, <1>5 DEF Inv, FreshSessions, Unused
<1>8. ColumnIsPaid'
  BY <1>1, <1>3, <1>4 DEF Inv, ColumnIsPaid, Open, s
<1>9. Listed'
  <2> SUFFICES ASSUME NEW f \in worker'.todo
               PROVE  /\ session'[f.session].state # "none"
                      /\ session'[f.session].state = "open"
                           => f.charged = session'[f.session].charged
                      /\ \A g \in worker'.todo : g.session = f.session => g = f
    BY DEF Listed
  <2>1. f \in worker.todo /\ f # e /\ f.session \in Sessions
    BY DEF Inv, WorkerType, Entry
  <2>2. f.session # s
    BY <2>1 DEF Inv, Listed, s
  <2>3. QED
    BY <1>4, <2>1, <2>2 DEF Inv, Listed
<1>10. Closing'
  BY <1>3, <1>4, <1>1 DEF Inv, TypeOK, Closing
<1>11. QED
  BY <1>6, <1>7, <1>8, <1>9, <1>10 DEF Inv

LEMMA WorkerChargesInv ==
  ASSUME Inv, NEW e \in worker.todo, WorkerCharges(e)
  PROVE  Inv'
<1> DEFINE s == e.session
           due == Expected(session[s].age)
           owed == due - e.charged
<1>1. /\ s \in Sessions /\ e.charged \in Nat
      /\ session[s].state \in {"open", "ended"}
      /\ session[s].state = "open" => e.charged = session[s].charged
  BY DEF Inv, TypeOK, WorkerType, Listed, Entry
<1>2. due \in Nat
  BY <1>1, Ages, PricesAreNat DEF Inv
<1>3. owed > 0 /\ owed <= balance /\ balance \in Nat
  BY DEF Inv, TypeOK, WorkerCharges, Owed
<1>4. Take(s, owed)
  BY DEF WorkerCharges, Owed
<1>5. owed \in Nat /\ due = e.charged + owed
  BY <1>1, <1>2, <1>3
<1>6. session' = [session EXCEPT ![s].state = session[s].state, ![s].charged = due]
  BY <1>1 DEF Inv, TypeOK, WorkerCharges
<1>7. worker' \in [todo : SUBSET Entry, deleting : BOOLEAN] /\ worker'.todo = worker.todo \ {e}
  BY DEF Inv, WorkerType, WorkerCharges, Done
<1>8. UNCHANGED <<member, req>>
  BY DEF WorkerCharges
<1> HIDE DEF due, owed
<1>9. QED
  BY <1>1, <1>2, <1>3, <1>4, <1>5, <1>6, <1>7, <1>8, ChargeInv

LEMMA WorkerEndsInv ==
  ASSUME Inv, NEW e \in worker.todo, WorkerEnds(e)
  PROVE  Inv'
<1>1. /\ balance \in Nat /\ balance <= balance /\ e.session \in Sessions
      /\ session[e.session].charged + balance \in Nat
  BY DEF Inv, TypeOK, WorkerType, Entry
<1>2. /\ Take(e.session, balance)
      /\ session' = [session EXCEPT ![e.session].state = "ended",
                                    ![e.session].charged = session[e.session].charged + balance]
      /\ UNCHANGED <<member, req>>
  BY DEF WorkerEnds
<1>3. worker' \in [todo : SUBSET Entry, deleting : BOOLEAN] /\ worker'.todo = worker.todo \ {e}
  BY DEF Inv, TypeOK, WorkerType, WorkerEnds
<1>4. QED
  BY <1>1, <1>2, <1>3, ChargeInv

\* Only ages change.
LEMMA TickInv == Inv /\ Tick => Inv'
<1> SUFFICES ASSUME Inv, Tick PROVE Inv'
  OBVIOUS
<1>1. /\ session' \in [Sessions -> [state : {"none", "open", "ended"}, age : 0 .. MaxAge, charged : Nat]]
      /\ \A s \in Sessions : /\ session'[s].state = session[s].state
                             /\ session'[s].charged = session[s].charged
  BY ConstantsOK DEF Inv, TypeOK, Tick
<1>2. UNCHANGED <<balance, member, worker, req, paid>>
  BY DEF Tick
<1>3. Unused' = Unused /\ Open' = Open
  BY <1>1 DEF Unused, Open
<1>4. TypeOK' /\ WorkerType'
  BY <1>1, <1>2, <1>3 DEF Inv, TypeOK, WorkerType
<1>5. FreshSessions' /\ ColumnIsPaid'
  BY <1>1, <1>2, <1>3 DEF Inv, FreshSessions, ColumnIsPaid, Unused, Open
<1>6. Listed'
  BY <1>1, <1>2 DEF Inv, WorkerType, Listed, Entry
<1>7. Closing'
  BY <1>1, <1>2 DEF Inv, Closing
<1>8. QED
  BY <1>4, <1>5, <1>6, <1>7 DEF Inv

LEMMA StepInv == Inv /\ [Next]_vars => Inv'
<1> SUFFICES ASSUME Inv, [Next]_vars PROVE Inv'
  OBVIOUS
<1>1. ASSUME NEW q \in Requests,
             Join(q) \/ Leave(q) \/ DeleteMember(q) \/ NoOpenSession(q) \/ Fail(q)
      PROVE  Inv'
  BY <1>1, RequestSteps
<1>2. ASSUME NEW q \in Requests, Joined(q) \/ ReadSession(q) \/ CloseSession(q)
      PROVE  Inv'
  BY <1>2, JoinedInv, ReadSessionInv, CloseSessionInv
<1>3. ASSUME NEW e \in worker.todo, WorkerHandles(e)
      PROVE  Inv'
  BY <1>3, WorkerSkipsInv, WorkerChargesInv, WorkerEndsInv DEF WorkerHandles
<1>4. CASE WorkerLists \/ WorkerKicks \/ Tick \/ Crash
  BY <1>4, WorkerListsInv, WorkerKicksInv, TickInv, CrashInv
<1>5. CASE UNCHANGED vars
  BY <1>5 DEF vars, Inv, TypeOK, WorkerType, FreshSessions, ColumnIsPaid, Listed, Closing,
              Unused, Open
<1>6. QED
  BY <1>1, <1>2, <1>3, <1>4, <1>5 DEF Next

LEMMA Invariance == Spec => []Inv
<1>1. QED
  BY InitInv, StepInv, PTL DEF Spec

-----------------------------------------------------------------------------

\* No balance is ever negative, and numbers are what they should be, whatever
\* the worker and the requests do to each other.
THEOREM TypeCorrect == Spec => []TypeOK
<1>1. Inv => TypeOK
  BY DEF Inv
<1>2. QED
  BY <1>1, Invariance, PTL

\* shards_charged of an open session is what the user has paid for it, though
\* the worker writes it from what it has read before the lock (cleanup.go:447).
THEOREM ColumnsAreTrue == Spec => []ColumnIsPaid
<1>1. Inv => ColumnIsPaid
  BY DEF Inv
<1>2. QED
  BY <1>1, Invariance, PTL

\* Who leaves has paid every hour begun or has nothing left (rooms.go:1738).
THEOREM LeaversHavePaid == Spec => LeavingIsPaid
<1>1. Inv /\ [Next]_vars => [\A q \in Requests :
        CloseSession(q) => LET s == req[q].session IN
                           balance' = 0 \/ paid'[s] >= Begun(session[s].age)]_vars
  BY Settles
<1>2. QED
  BY <1>1, Invariance, PTL DEF Spec, LeavingIsPaid

-----------------------------------------------------------------------------
(* How much too much.  HourlyRate is false: a Leave that read the session    *)
(* charges it again after another has closed it, and so does the worker from *)
(* its list.  Each request may close a session once more than is right, and  *)
(* the worker may charge once what its list says is missing.                 *)

\* All hours begun of a session.
Bill(s) == Begun(session[s].age)

\* The requests that are not about to close the session.
Others(s) == {q \in Requests : ~(req[q].stage = "closing" /\ req[q].session = s)}

\* An open session has cost at most its bill, and the list says no more.
OpenInBounds == \A s \in Open : paid[s] <= Bill(s)
ListInBounds == \A e \in worker.todo : e.charged <= Bill(e.session)

\* An ended session has cost its bill once for each request that is not about
\* to close it, besides what the list says, or the bill, if the list says nothing.
EndedInBounds == \A s \in Sessions :
  session[s].state = "ended" =>
    /\ paid[s] <= Cardinality(Others(s)) * Bill(s) + Bill(s)
    /\ \A e \in worker.todo :
         e.session = s => paid[s] <= Cardinality(Others(s)) * Bill(s) + e.charged

BillInv == OpenInBounds /\ ListInBounds /\ EndedInBounds

\* No session costs more than its bill for each request at a time and for the
\* worker (rooms.go:1721, cleanup.go:357).
OverchargeIsBounded ==
  \A s \in Sessions \ Unused : paid[s] <= (Cardinality(Requests) + 1) * Bill(s)

LEMMA Quotient ==
  ASSUME NEW a \in Nat, NEW b \in Nat \ {0}
  PROVE  LET d == a \div b IN d \in Nat /\ b * d <= a /\ a < b * d + b
<1>1. a \div b \in Nat /\ a % b \in 0 .. b - 1 /\ a = b * (a \div b) + (a % b)
  OBVIOUS
<1>2. QED
  BY <1>1, SMT

LEMMA Times ==
  ASSUME NEW a \in Nat, NEW b \in Nat, NEW c \in Nat, a <= b
  PROVE  a * c \in Nat /\ b * c \in Nat /\ a * c <= b * c
  BY SMT

LEMMA TimesStrict ==
  ASSUME NEW a \in Nat, NEW b \in Nat, NEW c \in Nat, c * a < c * b
  PROVE  a < b
  BY SMT

LEMMA PricesGrow ==
  ASSUME NEW a \in Nat, NEW b \in Nat, a <= b
  PROVE  Begun(a) <= Begun(b)
<1> DEFINE m == a \div HourTicks
           n == b \div HourTicks
<1>1. /\ m \in Nat /\ HourTicks * m <= a
      /\ n \in Nat /\ b < HourTicks * n + HourTicks
  BY Quotient, ConstantsOK
<1> HIDE DEF m, n
<1>2. HourTicks * m < HourTicks * (n + 1)
  <2>1. HourTicks * (n + 1) = HourTicks * n + HourTicks /\ HourTicks * n \in Nat /\ HourTicks * m \in Nat
    BY <1>1, ConstantsOK
  <2>2. QED
    BY <1>1, <2>1, ConstantsOK
<1>3. m + 1 <= n + 1
  BY <1>1, <1>2, TimesStrict, ConstantsOK
<1>4. (m + 1) * HourlyCost <= (n + 1) * HourlyCost
  BY <1>1, <1>3, Times, ConstantsOK
<1>5. QED
  BY <1>4 DEF Begun, m, n

\* The hours begun cover the minutes played.
LEMMA HoursCoverMinutes ==
  ASSUME NEW age \in Nat
  PROVE  Expected(age) <= Begun(age)
<1> DEFINE k == age \div HourTicks
           x == (k + 1) * HourlyCost
           due == age * HourlyCost
           c == CeilDiv(due, HourTicks)
<1>1. k \in Nat /\ age < HourTicks * k + HourTicks
  BY Quotient, ConstantsOK
<1>2. due \in Nat /\ x \in Nat /\ due <= HourTicks * x
  <2> HIDE DEF k
  <2>1. HourTicks * (k + 1) = HourTicks * k + HourTicks /\ HourTicks * k \in Nat
    BY <1>1, ConstantsOK
  <2>2. age <= HourTicks * (k + 1) /\ HourTicks * (k + 1) \in Nat
    BY <1>1, <2>1, ConstantsOK
  <2>3. due \in Nat /\ due <= (HourTicks * (k + 1)) * HourlyCost
    BY <2>2, Times, ConstantsOK
  <2>4. (HourTicks * (k + 1)) * HourlyCost = HourTicks * x /\ x \in Nat
    BY <1>1, ConstantsOK
  <2>5. QED
    BY <2>3, <2>4
<1>3. c \in Nat /\ HourTicks * c <= due + HourTicks - 1
  <2> HIDE DEF due
  <2>1. due + HourTicks - 1 \in Nat
    BY <1>2, ConstantsOK
  <2>2. QED
    BY <2>1, Quotient, ConstantsOK DEF CeilDiv
<1>4. HourTicks * c < HourTicks * (x + 1)
  <2> HIDE DEF c, x, due
  <2>1. HourTicks * (x + 1) = HourTicks * x + HourTicks /\ HourTicks * x \in Nat /\ HourTicks * c \in Nat
    BY <1>2, <1>3, ConstantsOK
  <2>2. QED
    BY <1>2, <1>3, <2>1, ConstantsOK
<1>5. c < x + 1
  <2> HIDE DEF c, x
  <2>1. QED
    BY <1>2, <1>3, <1>4, TimesStrict, ConstantsOK
<1>6. QED
  <2>1. c <= x
    <3> HIDE DEF c, x
    <3>1. QED
      BY <1>2, <1>3, <1>5
  <2>2. QED
    BY <2>1 DEF Expected, Begun

LEMMA ProductsGrow ==
  ASSUME NEW a \in Nat, NEW b \in Nat, NEW c \in Nat, NEW d \in Nat, a <= b, c <= d
  PROVE  a * c \in Nat /\ b * d \in Nat /\ a * c <= b * d
<1>1. a * c \in Nat /\ b * c \in Nat /\ a * c <= b * c
  BY Times
<1>2. c * b \in Nat /\ d * b \in Nat /\ c * b <= d * b
  BY Times
<1>3. c * b = b * c /\ d * b = b * d
  OBVIOUS
<1>4. QED
  BY <1>1, <1>2, <1>3

LEMMA OneMore ==
  ASSUME NEW a \in Nat, NEW b \in Nat
  PROVE  a * b \in Nat /\ (a + 1) * b = a * b + b
  BY SMT

LEMMA Counts ==
  ASSUME NEW s
  PROVE  /\ IsFiniteSet(Others(s)) /\ Cardinality(Others(s)) \in Nat
         /\ IsFiniteSet(Others(s)') /\ Cardinality(Others(s)') \in Nat
         /\ Cardinality(Others(s)) <= Cardinality(Requests)
<1>1. Others(s) \subseteq Requests /\ Others(s)' \subseteq Requests
  BY DEF Others
<1>2. IsFiniteSet(Requests)
  BY ConstantsOK
<1>3. QED
  BY <1>1, <1>2, FS_Subset, FS_CardinalityType

LEMMA Bills ==
  ASSUME TypeOK, NEW s \in Sessions
  PROVE  Bill(s) \in Nat /\ paid[s] \in Nat
  BY Ages, PricesAreNat DEF TypeOK, Bill

\* Steps that charge nothing: sessions are opened and grow older, entries are
\* made of open sessions, and who is about to close a session may give up.
LEMMA BoundKept ==
  ASSUME Inv, Inv', BillInv, UNCHANGED paid,
         \A s \in Sessions :
           /\ session'[s].age >= session[s].age
           /\ \/ session'[s].state = session[s].state
              \/ session'[s].state = "open" /\ paid[s] = 0
           /\ session[s].state = "ended" => Others(s) \subseteq Others(s)',
         \A e \in worker'.todo : \/ e \in worker.todo
                                 \/ e.session \in Open /\ e.charged = paid[e.session]
  PROVE  BillInv'
<1>1. ASSUME NEW s \in Sessions
      PROVE  Bill(s) \in Nat /\ Bill(s)' \in Nat /\ Bill(s) <= Bill(s)' /\ paid[s] \in Nat
  <2>1. session[s].age \in Nat /\ session'[s].age \in Nat /\ session[s].age <= session'[s].age
    BY ConstantsOK DEF Inv, TypeOK
  <2>2. QED
    BY <2>1, PricesAreNat, PricesGrow DEF Inv, TypeOK, Bill
<1>2. OpenInBounds'
  <2> SUFFICES ASSUME NEW s \in Sessions, session'[s].state = "open"
               PROVE  paid[s] <= Bill(s)'
    BY DEF OpenInBounds, Open
  <2>1. paid[s] <= Bill(s) \/ paid[s] = 0
    BY DEF BillInv, OpenInBounds, Open
  <2>2. QED
    BY <1>1, <2>1
<1>3. ListInBounds'
  <2> SUFFICES ASSUME NEW e \in worker'.todo
               PROVE  e.charged <= Bill(e.session)'
    BY DEF ListInBounds
  <2>1. e.session \in Sessions /\ e.charged \in Nat
    BY DEF Inv, WorkerType, Entry
  <2>2. e.charged <= Bill(e.session)
    BY DEF BillInv, OpenInBounds, ListInBounds
  <2>3. QED
    BY <1>1, <2>1, <2>2
<1>4. EndedInBounds'
  <2> SUFFICES ASSUME NEW s \in Sessions, session'[s].state = "ended"
               PROVE  /\ paid[s] <= Cardinality(Others(s)') * Bill(s)' + Bill(s)'
                      /\ \A e \in worker'.todo :
                           e.session = s => paid[s] <= Cardinality(Others(s)') * Bill(s)' + e.charged
    BY DEF EndedInBounds
  <2> DEFINE c == Cardinality(Others(s))
             d == Cardinality(Others(s)')
  <2>1. session[s].state = "ended" /\ Others(s) \subseteq Others(s)'
    OBVIOUS
  <2>2. c \in Nat /\ d \in Nat /\ c <= d
    BY <2>1, Counts, FS_Subset
  <2>3. c * Bill(s) \in Nat /\ d * Bill(s)' \in Nat /\ c * Bill(s) <= d * Bill(s)'
    <3> HIDE DEF c, d
    <3>1. QED
      BY <1>1, <2>2, ProductsGrow
  <2>4. paid[s] <= c * Bill(s) + Bill(s)
    BY <2>1 DEF BillInv, EndedInBounds
  <2>5. paid[s] <= d * Bill(s)' + Bill(s)'
    <3> HIDE DEF c, d
    <3>1. QED
      BY <1>1, <2>3, <2>4
  <2>6. ASSUME NEW e \in worker'.todo, e.session = s
        PROVE  paid[s] <= d * Bill(s)' + e.charged
    <3>1. e \in worker.todo /\ e.charged \in Nat
      BY <2>1, <2>6 DEF Inv, WorkerType, Entry, Open
    <3>2. paid[s] <= c * Bill(s) + e.charged
      BY <2>1, <2>6, <3>1 DEF BillInv, EndedInBounds
    <3> HIDE DEF c, d
    <3>3. QED
      BY <1>1, <2>3, <3>1, <3>2
  <2>7. QED
    BY <2>5, <2>6
<1>5. QED
  BY <1>2, <1>3, <1>4 DEF BillInv

\* A charge of one session leaves the bounds of the others alone.
LEMMA BoundElsewhere ==
  ASSUME Inv, Inv', BillInv, NEW s \in Sessions,
         \A t \in Sessions : /\ session'[t].age = session[t].age
                             /\ t # s => session'[t] = session[t] /\ paid'[t] = paid[t]
                                         /\ Others(t)' = Others(t),
         worker'.todo \subseteq worker.todo,
         session'[s].state = "open" => paid'[s] <= Bill(s),
         session'[s].state = "ended" =>
           /\ paid'[s] <= Cardinality(Others(s)') * Bill(s) + Bill(s)
           /\ \A e \in worker'.todo :
                e.session = s => paid'[s] <= Cardinality(Others(s)') * Bill(s) + e.charged
  PROVE  BillInv'
<1>1. \A t \in Sessions : Bill(t)' = Bill(t)
  BY DEF Bill
<1>2. OpenInBounds'
  BY <1>1 DEF BillInv, OpenInBounds, Open
<1>3. ListInBounds'
  BY <1>1 DEF Inv, WorkerType, Entry, BillInv, ListInBounds
<1>4. EndedInBounds'
  <2> SUFFICES ASSUME NEW t \in Sessions, session'[t].state = "ended"
               PROVE  /\ paid'[t] <= Cardinality(Others(t)') * Bill(t) + Bill(t)
                      /\ \A e \in worker'.todo :
                           e.session = t => paid'[t] <= Cardinality(Others(t)') * Bill(t) + e.charged
    BY <1>1 DEF EndedInBounds
  <2>1. CASE t = s
    BY <2>1
  <2>2. CASE t # s
    BY <2>2 DEF BillInv, EndedInBounds
  <2>3. QED
    BY <2>1, <2>2
<1>5. QED
  BY <1>2, <1>3, <1>4 DEF BillInv

\* Leave charges at most the bill, and cannot close the session once more.
LEMMA CloseSessionBound ==
  ASSUME Inv, Inv', BillInv, NEW q \in Requests, CloseSession(q)
  PROVE  BillInv'
<1>0. PICK s \in Sessions : s = req[q].session
  BY DEF Inv, Closing, CloseSession
<1> DEFINE rest == Bill(s) - req[q].charged
           c == Cardinality(Others(s))
<1>1. s \in Sessions /\ session[s].state \in {"open", "ended"} /\ req[q].charged \in Nat
  BY <1>0 DEF Inv, TypeOK, Closing, CloseSession
<1>2. /\ session' = [session EXCEPT ![s].state = "ended", ![s].charged = Bill(s)]
      /\ paid' = [paid EXCEPT ![s] = @ + Payable(rest)]
      /\ req' = [req EXCEPT ![q] = Idle] /\ worker' = worker
      /\ req[q].stage = "closing"
  BY <1>0 DEF CloseSession, Take, Bill
<1>3. Bill(s) \in Nat /\ paid[s] \in Nat /\ Payable(rest) \in 0 .. Bill(s)
  <2>1. Bill(s) \in Nat /\ paid[s] \in Nat /\ balance \in Nat
    BY <1>1, Bills DEF Inv, TypeOK
  <2>2. QED
    BY <2>1, <1>1 DEF Payable
<1>4. paid'[s] = paid[s] + Payable(rest) /\ \A t \in Sessions : t # s => paid'[t] = paid[t]
  <2> HIDE DEF rest
  <2>1. QED
    BY <1>1, <1>2 DEF Inv, TypeOK
<1>5. \A t \in Sessions : /\ session'[t].age = session[t].age
                          /\ t # s => session'[t] = session[t]
  <2>1. QED
    BY <1>1, <1>2 DEF Inv, TypeOK
<1>6. /\ Others(s)' = Others(s) \cup {q} /\ q \notin Others(s)
      /\ \A t \in Sessions : t # s => Others(t)' = Others(t)
  <2>1. \A p \in Requests : req'[p] = IF p = q THEN Idle ELSE req[p]
    BY <1>2 DEF Inv, TypeOK
  <2>2. Idle.stage # "closing" /\ req[q].stage = "closing"
    BY <1>2 DEF Idle
  <2>3. ASSUME NEW t, NEW p \in Requests
        PROVE  p \in Others(t)' <=> (p \in Others(t) \/ (p = q /\ t = s))
    BY <1>0, <2>1, <2>2 DEF Others
  <2>4. \A t : Others(t) \subseteq Requests /\ Others(t)' \subseteq Requests
    BY DEF Others
  <2>5. q \notin Others(s)
    BY <1>0, <2>2 DEF Others
  <2>6. Others(s)' = Others(s) \cup {q}
    BY <2>3, <2>4
  <2>7. ASSUME NEW t \in Sessions, t # s PROVE Others(t)' = Others(t)
    BY <2>3, <2>4, <2>7
  <2>8. QED
    BY <2>5, <2>6, <2>7
<1>7. c \in Nat /\ Cardinality(Others(s)') = c + 1
  BY <1>6, Counts, FS_AddElement
<1>8. c * Bill(s) \in Nat /\ (c + 1) * Bill(s) = c * Bill(s) + Bill(s)
  <2> HIDE DEF c
  <2>1. QED
    BY <1>3, <1>7, OneMore
<1>9. paid'[s] <= (c + 1) * Bill(s) + Bill(s)
  <2>1. paid[s] <= c * Bill(s) + Bill(s)
    <3>1. CASE session[s].state = "open"
      <4>1. paid[s] <= Bill(s)
        BY <3>1, <1>1 DEF BillInv, OpenInBounds, Open
      <4> HIDE DEF c
      <4>2. QED
        BY <4>1, <1>3, <1>8
    <3>2. CASE session[s].state = "ended"
      BY <3>2, <1>1 DEF BillInv, EndedInBounds
    <3>3. QED
      BY <1>1, <3>1, <3>2
  <2> HIDE DEF c, rest
  <2>2. QED
    BY <2>1, <1>3, <1>4, <1>8
<1>10. ASSUME NEW e \in worker.todo, e.session = s
       PROVE  paid'[s] <= (c + 1) * Bill(s) + e.charged
  <2>1. e.charged \in Nat
    BY DEF Inv, WorkerType, Entry
  <2>2. paid[s] <= c * Bill(s) + e.charged
    <3>1. CASE session[s].state = "open"
      <4>1. paid[s] = e.charged
        BY <3>1, <1>1, <1>10 DEF Inv, Listed, ColumnIsPaid, Open
      <4> HIDE DEF c
      <4>2. QED
        BY <4>1, <2>1, <1>8
    <3>2. CASE session[s].state = "ended"
      BY <3>2, <1>1, <1>10 DEF BillInv, EndedInBounds
    <3>3. QED
      BY <1>1, <3>1, <3>2
  <2> HIDE DEF c, rest
  <2>3. QED
    BY <2>1, <2>2, <1>3, <1>4, <1>8
<1>11. session'[s].state = "ended"
  <2>1. QED
    BY <1>1, <1>2 DEF Inv, TypeOK
<1>12. worker'.todo \subseteq worker.todo
  BY <1>2
<1> HIDE DEF c, rest
<1>13. /\ paid'[s] <= Cardinality(Others(s)') * Bill(s) + Bill(s)
       /\ \A e \in worker'.todo :
            e.session = s => paid'[s] <= Cardinality(Others(s)') * Bill(s) + e.charged
  BY <1>7, <1>9, <1>10, <1>12
<1>14. \A t \in Sessions : /\ session'[t].age = session[t].age
                           /\ t # s => session'[t] = session[t] /\ paid'[t] = paid[t]
                                       /\ Others(t)' = Others(t)
  BY <1>4, <1>5, <1>6
<1>15. session'[s].state # "open"
  BY <1>11
<1>16. s \in Sessions
  BY <1>1
<1>17. QED
  BY <1>12, <1>13, <1>14, <1>15, <1>16, BoundElsewhere

\* The worker charges at most what its list says is missing, and takes the
\* session off the list.
LEMMA WorkerBound ==
  ASSUME Inv, Inv', BillInv, NEW e \in worker.todo, WorkerCharges(e) \/ WorkerEnds(e)
  PROVE  BillInv'
<1> DEFINE s == e.session
           due == Expected(session[s].age)
           c == Cardinality(Others(s))
<1>1. /\ s \in Sessions /\ e.charged \in Nat /\ balance \in Nat
      /\ session[s].state \in {"open", "ended"}
  BY DEF Inv, TypeOK, WorkerType, Listed, Entry
<1>2. due \in Nat /\ due <= Bill(s) /\ Bill(s) \in Nat /\ paid[s] \in Nat
  <2>1. session[s].age \in Nat
    BY <1>1, Ages DEF Inv
  <2>2. QED
    BY <2>1, <1>1, Bills, PricesAreNat, HoursCoverMinutes DEF Inv, Bill
<1>3. PICK amount \in Nat : amount <= due - e.charged /\ Take(s, amount)
  <2>1. CASE WorkerCharges(e)
    <3>1. due - e.charged > 0 /\ Take(s, due - e.charged)
      BY <2>1 DEF WorkerCharges, Owed
    <3> HIDE DEF s, due
    <3>2. due - e.charged \in Nat
      BY <3>1, <1>1, <1>2
    <3>3. QED
      BY <3>1, <3>2
  <2>2. CASE WorkerEnds(e)
    <3>1. balance < due - e.charged /\ Take(s, balance)
      BY <2>2 DEF WorkerEnds, Owed
    <3> HIDE DEF s, due
    <3>2. QED
      BY <3>1, <1>1, <1>2
  <2>3. QED
    BY <2>1, <2>2
<1>4. paid'[s] = paid[s] + amount /\ \A t \in Sessions : t # s => paid'[t] = paid[t]
  <2> HIDE DEF s
  <2>1. QED
    BY <1>1, <1>3 DEF Inv, TypeOK, Take
<1>5. /\ \A t \in Sessions : /\ session'[t].age = session[t].age
                             /\ t # s => session'[t] = session[t]
      /\ session'[s].state = session[s].state \/ session'[s].state = "ended"
      /\ req' = req /\ worker'.todo = worker.todo \ {e}
  <2>1. req' = req /\ worker'.todo = worker.todo \ {e}
    BY DEF Inv, WorkerType, WorkerCharges, WorkerEnds, Done
  <2>2. \/ session' = [session EXCEPT ![s].charged = due]
        \/ session' = [session EXCEPT ![s].state = "ended", ![s].charged = session[s].charged + balance]
    BY DEF WorkerCharges, WorkerEnds
  <2> HIDE DEF s, due
  <2>3. QED
    BY <1>1, <2>1, <2>2 DEF Inv, TypeOK
<1>6. \A t \in Sessions : Others(t)' = Others(t)
  BY <1>5 DEF Others
<1>7. \A f \in worker'.todo : f.session # s
  BY <1>5 DEF Inv, Listed
<1>8. c \in Nat /\ c * Bill(s) \in Nat
  <2>1. c \in Nat
    BY Counts
  <2> HIDE DEF c, s
  <2>2. QED
    BY <2>1, <1>2
<1>9. CASE session[s].state = "open"
  <2>1. paid[s] = e.charged
    BY <1>1, <1>9 DEF Inv, Listed, ColumnIsPaid, Open
  <2> HIDE DEF s, due, c
  <2>2. paid'[s] <= Bill(s) /\ paid'[s] <= c * Bill(s) + Bill(s)
    BY <2>1, <1>1, <1>2, <1>3, <1>4, <1>8
  <2>3. QED
    BY <2>2, <1>1, <1>4, <1>5, <1>6, <1>7, BoundElsewhere DEF c
<1>10. CASE session[s].state = "ended"
  <2>1. paid[s] <= c * Bill(s) + e.charged
    BY <1>1, <1>10 DEF BillInv, EndedInBounds
  <2> HIDE DEF s, due, c
  <2>2. paid'[s] <= c * Bill(s) + Bill(s)
    BY <2>1, <1>1, <1>2, <1>3, <1>4, <1>8
  <2>3. QED
    BY <2>2, <1>1, <1>10, <1>4, <1>5, <1>6, <1>7, BoundElsewhere DEF c
<1>11. QED
  BY <1>1, <1>9, <1>10

LEMMA InitBound == Init => BillInv
  BY DEF Init, BillInv, OpenInBounds, ListInBounds, EndedInBounds, Open, NoWork

\* What the steps that charge nothing do to sessions, requests and the list.
LEMMA RequestSessions ==
  ASSUME Inv, NEW q \in Requests,
         \/ Join(q) \/ Joined(q)
         \/ Leave(q) \/ DeleteMember(q) \/ NoOpenSession(q) \/ ReadSession(q)
         \/ Fail(q)
  PROVE  \A s \in Sessions :
           /\ session'[s].age >= session[s].age
           /\ \/ session'[s].state = session[s].state
              \/ session'[s].state = "open" /\ paid[s] = 0
<1> DEFINE Goal == \A s \in Sessions :
             /\ session'[s].age >= session[s].age
             /\ \/ session'[s].state = session[s].state
                \/ session'[s].state = "open" /\ paid[s] = 0
<1>1. CASE UNCHANGED session
  BY <1>1, Ages DEF Inv
<1>2. ASSUME NEW s \in Unused, session' = [session EXCEPT ![s].state = "open"]
      PROVE  Goal
  BY <1>2, Ages DEF Inv, TypeOK, Unused
<1>3. QED
  BY <1>1, <1>2 DEF Join, Joined, Leave, DeleteMember, NoOpenSession, ReadSession, Fail

LEMMA RequestsGiveUp ==
  ASSUME Inv, NEW q \in Requests,
         Join(q) \/ Joined(q) \/ Leave(q) \/ DeleteMember(q) \/ NoOpenSession(q) \/ Fail(q)
  PROVE  \A p \in Requests : req'[p] = req[p] \/ req'[p].stage # "closing"
<1> SUFFICES ASSUME NEW p \in Requests
             PROVE  req'[p] = req[p] \/ req'[p].stage # "closing"
  OBVIOUS
<1>1. CASE req' = [req EXCEPT ![q] = Idle]
  BY <1>1 DEF Inv, TypeOK, Idle
<1>2. ASSUME NEW stage \in {"joining", "leaving", "reading"},
             req' = [req EXCEPT ![q].stage = stage]
      PROVE  req'[p] = req[p] \/ req'[p].stage # "closing"
  BY <1>2 DEF Inv, TypeOK
<1>3. QED
  BY <1>1, <1>2 DEF Join, Joined, Leave, DeleteMember, NoOpenSession, Fail

LEMMA OtherSessions ==
  ASSUME Inv,
         \/ WorkerLists \/ WorkerKicks \/ (\E e \in worker.todo : WorkerSkips(e))
         \/ Tick \/ Crash \/ UNCHANGED vars
  PROVE  \A s \in Sessions :
           session'[s].age >= session[s].age /\ session'[s].state = session[s].state
<1>1. CASE UNCHANGED session
  BY <1>1, Ages DEF Inv
<1>2. CASE Tick
  BY <1>2, Ages DEF Inv, TypeOK, Tick
<1>3. QED
  BY <1>1, <1>2 DEF WorkerLists, WorkerKicks, WorkerSkips, Crash, vars

LEMMA OtherLists ==
  ASSUME Inv,
         \/ WorkerLists \/ WorkerKicks \/ (\E e \in worker.todo : WorkerSkips(e))
         \/ Tick \/ Crash \/ UNCHANGED vars
  PROVE  \A e \in worker'.todo : \/ e \in worker.todo
                                 \/ e.session \in Open /\ e.charged = paid[e.session]
<1>1. CASE WorkerLists
  <2>1. worker'.todo = {[session |-> s, charged |-> session[s].charged] : s \in Open}
    BY <1>1 DEF WorkerLists, NoWork
  <2>2. QED
    BY <2>1 DEF Inv, ColumnIsPaid
<1>2. CASE ~WorkerLists
  <2>1. worker'.todo \subseteq worker.todo
    <3>1. worker \in [todo : SUBSET Entry, deleting : BOOLEAN]
      BY DEF Inv, WorkerType
    <3>2. CASE UNCHANGED worker
      BY <3>2
    <3>3. CASE Crash
      BY <3>3 DEF Crash, NoWork
    <3>4. CASE WorkerKicks
      BY <3>1, <3>4 DEF WorkerKicks
    <3>5. CASE \E e \in worker.todo : WorkerSkips(e)
      BY <3>1, <3>5 DEF WorkerSkips, Done
    <3>6. QED
      BY <1>2, <3>2, <3>3, <3>4, <3>5 DEF Tick, vars
  <2>2. QED
    BY <2>1
<1>3. QED
  BY <1>1, <1>2

LEMMA RequestBounds ==
  ASSUME Inv, Inv', BillInv, NEW q \in Requests,
         \/ Join(q) \/ Joined(q)
         \/ Leave(q) \/ DeleteMember(q) \/ NoOpenSession(q) \/ ReadSession(q)
         \/ Fail(q)
  PROVE  BillInv'
<1>1. UNCHANGED <<paid, worker>>
  BY DEF Join, Joined, Leave, DeleteMember, NoOpenSession, ReadSession, Fail
<1>2. \A s \in Sessions :
        /\ session'[s].age >= session[s].age
        /\ \/ session'[s].state = session[s].state
           \/ session'[s].state = "open" /\ paid[s] = 0
  BY RequestSessions
<1>3. \A s \in Sessions : session[s].state = "ended" => Others(s) \subseteq Others(s)'
  <2> SUFFICES ASSUME NEW s \in Sessions, session[s].state = "ended", NEW p \in Requests,
                      ~(req[p].stage = "closing" /\ req[p].session = s)
               PROVE  ~(req'[p].stage = "closing" /\ req'[p].session = s)
    BY DEF Others
  <2>1. CASE ReadSession(q)
    <3>1. PICK t \in Open : req' = [req EXCEPT ![q] = [stage |-> "closing", session |-> t,
                                                      charged |-> session[t].charged]]
      BY <2>1 DEF ReadSession
    <3>2. t # s
      BY DEF Open
    <3>3. QED
      BY <3>1, <3>2 DEF Inv, TypeOK
  <2>2. CASE ~ReadSession(q)
    <3>1. req'[p] = req[p] \/ req'[p].stage # "closing"
      BY <2>2, RequestsGiveUp
    <3>2. QED
      BY <3>1
  <2>3. QED
    BY <2>1, <2>2
<1>4. QED
  BY <1>1, <1>2, <1>3, BoundKept

LEMMA OtherBounds ==
  ASSUME Inv, Inv', BillInv,
         \/ WorkerLists \/ WorkerKicks \/ (\E e \in worker.todo : WorkerSkips(e))
         \/ Tick \/ Crash \/ UNCHANGED vars
  PROVE  BillInv'
<1>1. UNCHANGED paid
  BY DEF WorkerLists, WorkerKicks, WorkerSkips, Tick, Crash, vars
<1>2. \A s \in Sessions :
        session'[s].age >= session[s].age /\ session'[s].state = session[s].state
  BY OtherSessions
<1>3. \A s \in Sessions : Others(s) \subseteq Others(s)'
  <2>1. CASE UNCHANGED req
    BY <2>1 DEF Others
  <2>2. CASE Crash
    BY <2>2 DEF Others, Idle, Crash
  <2>3. QED
    BY <2>1, <2>2 DEF WorkerLists, WorkerKicks, WorkerSkips, Tick, vars
<1>4. \A e \in worker'.todo : \/ e \in worker.todo
                              \/ e.session \in Open /\ e.charged = paid[e.session]
  BY OtherLists
<1>5. QED
  BY <1>1, <1>2, <1>3, <1>4, BoundKept

LEMMA StepBound == Inv /\ Inv' /\ BillInv /\ [Next]_vars => BillInv'
<1> SUFFICES ASSUME Inv, Inv', BillInv, [Next]_vars PROVE BillInv'
  OBVIOUS
<1>1. ASSUME NEW q \in Requests,
             \/ Join(q) \/ Joined(q) \/ Leave(q) \/ DeleteMember(q) \/ NoOpenSession(q)
             \/ ReadSession(q) \/ CloseSession(q) \/ Fail(q)
      PROVE  BillInv'
  BY <1>1, RequestBounds, CloseSessionBound
<1>2. ASSUME NEW e \in worker.todo, WorkerHandles(e)
      PROVE  BillInv'
  BY <1>2, OtherBounds, WorkerBound DEF WorkerHandles
<1>3. CASE WorkerLists \/ WorkerKicks \/ Tick \/ Crash \/ UNCHANGED vars
  BY <1>3, OtherBounds
<1>4. QED
  BY <1>1, <1>2, <1>3 DEF Next

LEMMA InBounds ==
  ASSUME Inv, BillInv
  PROVE  OverchargeIsBounded
<1> SUFFICES ASSUME NEW s \in Sessions, session[s].state \in {"open", "ended"}
             PROVE  paid[s] <= (Cardinality(Requests) + 1) * Bill(s)
  BY DEF Inv, TypeOK, OverchargeIsBounded, Unused
<1> DEFINE c == Cardinality(Others(s))
           n == Cardinality(Requests)
<1>1. c \in Nat /\ n \in Nat /\ c <= n
  BY Counts, ConstantsOK, FS_CardinalityType
<1>2. Bill(s) \in Nat /\ paid[s] \in Nat
  BY Bills DEF Inv
<1>3. paid[s] <= Bill(s) \/ paid[s] <= c * Bill(s) + Bill(s)
  BY DEF BillInv, OpenInBounds, EndedInBounds, Open
<1> HIDE DEF c, n
<1>4. c * Bill(s) \in Nat /\ n * Bill(s) \in Nat /\ c * Bill(s) <= n * Bill(s)
  BY <1>1, <1>2, Times
<1>5. (n + 1) * Bill(s) = n * Bill(s) + Bill(s)
  BY <1>1, <1>2
<1>6. paid[s] <= (n + 1) * Bill(s)
  BY <1>2, <1>3, <1>4, <1>5
<1>7. QED
  BY <1>6 DEF n

\* A session may cost more than the hours begun (HourlyRate fails), because
\* Leave computes its charge from what it read before it locks the user
\* (rooms.go:1721) and the worker from its list (cleanup.go:357); but N requests
\* at a time and the worker never charge it more than N + 1 times.  The bound is
\* reached: N Leaves that read the session at once, and the worker after them.
THEOREM OverchargesAreBounded == Spec => []OverchargeIsBounded
<1>1. Spec => []BillInv
  BY InitBound, StepBound, Invariance, PTL DEF Spec
<1>2. QED
  BY <1>1, InBounds, Invariance, PTL

-----------------------------------------------------------------------------
(* Why too much: HourlyRate is true as long as nobody is about to charge a   *)
(* session that somebody else is about to close.                             *)

Closes(q, s) == req[q].stage = "closing" /\ req[q].session = s

\* Who is about to close a session is the only one to charge it: what would be
\* the case if rooms.go:1721 and the worker read the session under the lock.
Alone == \A s \in Sessions, q \in Requests :
  Closes(q, s) => /\ \A e \in worker.todo : e.session # s
                  /\ \A p \in Requests : Closes(p, s) => p = q

\* Then what Leave has read stays true, and nobody has a session that is over.
SoloInv ==
  /\ HourlyRate
  /\ \A e \in worker.todo : session[e.session].state = "open"
  /\ \A q \in Requests, s \in Sessions :
       Closes(q, s) => session[s].state = "open" /\ req[q].charged = paid[s]

LEMMA SoloKept ==
  ASSUME Inv, Inv', SoloInv, UNCHANGED paid,
         \A s \in Sessions :
           /\ session'[s].age >= session[s].age
           /\ \/ session'[s].state = session[s].state
              \/ session'[s].state = "open" /\ paid[s] = 0,
         \A e \in worker'.todo : e \in worker.todo \/ e.session \in Open,
         \A q \in Requests, s \in Sessions :
           Closes(q, s)' => \/ Closes(q, s) /\ req'[q].charged = req[q].charged
                            \/ s \in Open /\ req'[q].charged = paid[s]
  PROVE  SoloInv'
<1>1. ASSUME NEW s \in Sessions, session'[s].state # "none"
      PROVE  paid[s] <= Begun(session'[s].age)
  <2>1. session[s].age \in Nat /\ session'[s].age \in Nat /\ session[s].age <= session'[s].age
    BY ConstantsOK DEF Inv, TypeOK
  <2>2. /\ Begun(session[s].age) \in Nat /\ Begun(session'[s].age) \in Nat
        /\ Begun(session[s].age) <= Begun(session'[s].age) /\ paid[s] \in Nat
    BY <2>1, PricesAreNat, PricesGrow DEF Inv, TypeOK
  <2>3. paid[s] = 0 \/ paid[s] <= Begun(session[s].age)
    BY <1>1 DEF SoloInv, HourlyRate, Unused
  <2>4. QED
    BY <2>2, <2>3
<1>2. HourlyRate'
  BY <1>1 DEF HourlyRate, Unused
<1>3. \A e \in worker'.todo : session'[e.session].state = "open"
  <2>1. \A e \in worker'.todo : e.session \in Sessions /\ session[e.session].state = "open"
    BY DEF Inv, WorkerType, Entry, SoloInv, Open
  <2>2. QED
    BY <2>1
<1>4. \A q \in Requests, s \in Sessions :
        Closes(q, s)' => session'[s].state = "open" /\ req'[q].charged = paid[s]
  BY DEF SoloInv, Open
<1>5. QED
  BY <1>2, <1>3, <1>4 DEF SoloInv

\* A charge of one session that nobody is about to close afterwards.
LEMMA SoloCharge ==
  ASSUME Inv, Inv', SoloInv, NEW s \in Sessions,
         \A t \in Sessions : /\ session'[t].age = session[t].age
                             /\ t # s => session'[t] = session[t] /\ paid'[t] = paid[t],
         paid'[s] <= Bill(s),
         worker'.todo \subseteq worker.todo,
         \A e \in worker'.todo : e.session # s,
         \A q \in Requests, t \in Sessions :
           Closes(q, t)' => t # s /\ Closes(q, t) /\ req'[q] = req[q]
  PROVE  SoloInv'
<1>1. HourlyRate'
  BY DEF SoloInv, HourlyRate, Unused, Bill
<1>2. \A e \in worker'.todo : session'[e.session].state = "open"
  BY DEF Inv, WorkerType, Entry, SoloInv
<1>3. \A q \in Requests, t \in Sessions :
        Closes(q, t)' => session'[t].state = "open" /\ req'[q].charged = paid'[t]
  BY DEF SoloInv
<1>4. QED
  BY <1>1, <1>2, <1>3 DEF SoloInv

LEMMA SoloClose ==
  ASSUME Inv, Inv', SoloInv, Alone, NEW q \in Requests, CloseSession(q)
  PROVE  SoloInv'
<1>1. PICK s \in Sessions : s = req[q].session
  BY DEF Inv, Closing, CloseSession
<1> DEFINE rest == Bill(s) - req[q].charged
<1>2. /\ session' = [session EXCEPT ![s].state = "ended", ![s].charged = Bill(s)]
      /\ paid' = [paid EXCEPT ![s] = @ + Payable(rest)]
      /\ req' = [req EXCEPT ![q] = Idle] /\ worker' = worker
      /\ Closes(q, s)
  BY <1>1 DEF CloseSession, Take, Bill, Closes
<1>3. req[q].charged = paid[s] /\ paid[s] <= Bill(s)
  BY <1>2 DEF SoloInv, HourlyRate, Unused, Bill
<1>4. Bill(s) \in Nat /\ paid[s] \in Nat /\ balance \in Nat
  BY Bills DEF Inv, TypeOK
<1>5. Payable(rest) \in Nat /\ Payable(rest) <= Bill(s) - paid[s]
  BY <1>3, <1>4 DEF Payable
<1> HIDE DEF rest
<1>6. paid'[s] <= Bill(s)
  <2>1. paid'[s] = paid[s] + Payable(rest)
    BY <1>2 DEF Inv, TypeOK
  <2>2. QED
    BY <2>1, <1>4, <1>5
<1>7. \A t \in Sessions : /\ session'[t].age = session[t].age
                          /\ t # s => session'[t] = session[t] /\ paid'[t] = paid[t]
  BY <1>2 DEF Inv, TypeOK
<1>8. worker'.todo \subseteq worker.todo /\ \A e \in worker'.todo : e.session # s
  BY <1>2 DEF Alone
<1>9. \A p \in Requests, t \in Sessions :
        Closes(p, t)' => t # s /\ Closes(p, t) /\ req'[p] = req[p]
  <2>1. \A p \in Requests : req'[p] = IF p = q THEN Idle ELSE req[p]
    BY <1>2 DEF Inv, TypeOK
  <2>2. \A p \in Requests, t \in Sessions :
          Closes(p, t)' => p # q /\ Closes(p, t) /\ req'[p] = req[p]
    BY <2>1 DEF Closes, Idle
  <2>3. QED
    BY <1>2, <2>2 DEF Alone
<1>10. QED
  BY <1>6, <1>7, <1>8, <1>9, SoloCharge

LEMMA SoloWorker ==
  ASSUME Inv, Inv', SoloInv, Alone, NEW e \in worker.todo, WorkerCharges(e) \/ WorkerEnds(e)
  PROVE  SoloInv'
<1> DEFINE s == e.session
           due == Expected(session[s].age)
<1>1. s \in Sessions /\ session[s].state = "open" /\ e.charged \in Nat /\ balance \in Nat
  BY DEF Inv, TypeOK, WorkerType, Entry, SoloInv
<1>2. e.charged = paid[s] /\ due \in Nat /\ due <= Bill(s) /\ Bill(s) \in Nat
  <2>1. session[s].age \in Nat
    BY <1>1, Ages DEF Inv
  <2>2. e.charged = paid[s]
    BY <1>1 DEF Inv, Listed, ColumnIsPaid, Open
  <2>3. QED
    BY <2>1, <2>2, <1>1, Bills, PricesAreNat, HoursCoverMinutes DEF Inv, Bill
<1>3. \/ Take(s, due - e.charged)
      \/ balance < due - e.charged /\ Take(s, balance)
  BY DEF WorkerCharges, WorkerEnds, Owed
<1>4. /\ req' = req /\ worker'.todo = worker.todo \ {e}
      /\ \/ session' = [session EXCEPT ![s].charged = due]
         \/ session' = [session EXCEPT ![s].state = "ended", ![s].charged = session[s].charged + balance]
  BY DEF Inv, WorkerType, WorkerCharges, WorkerEnds, Done
<1>5. worker'.todo \subseteq worker.todo /\ \A f \in worker'.todo : f.session # s
  BY <1>4 DEF Inv, Listed
<1>6. \A q \in Requests, t \in Sessions :
        Closes(q, t)' => t # s /\ Closes(q, t) /\ req'[q] = req[q]
  BY <1>4 DEF Alone, Closes
<1> HIDE DEF s, due
<1>7. paid'[s] <= Bill(s) /\ \A t \in Sessions : t # s => paid'[t] = paid[t]
  <2>1. paid \in [Sessions -> Nat] /\ paid[s] \in Nat
    BY <1>1 DEF Inv, TypeOK
  <2>2. CASE Take(s, due - e.charged)
    BY <2>1, <2>2, <1>1, <1>2 DEF Take
  <2>3. CASE balance < due - e.charged /\ Take(s, balance)
    BY <2>1, <2>3, <1>1, <1>2 DEF Take
  <2>4. QED
    BY <1>3, <2>2, <2>3
<1>8. \A t \in Sessions : session'[t].age = session[t].age /\ (t # s => session'[t] = session[t])
  BY <1>1, <1>4 DEF Inv, TypeOK
<1>9. QED
  BY <1>1, <1>5, <1>6, <1>7, <1>8, SoloCharge

LEMMA SoloRequests ==
  ASSUME Inv, Inv', SoloInv, NEW q \in Requests,
         \/ Join(q) \/ Joined(q)
         \/ Leave(q) \/ DeleteMember(q) \/ NoOpenSession(q) \/ ReadSession(q)
         \/ Fail(q)
  PROVE  SoloInv'
<1>1. UNCHANGED <<paid, worker>>
  BY DEF Join, Joined, Leave, DeleteMember, NoOpenSession, ReadSession, Fail
<1>2. \A s \in Sessions :
        /\ session'[s].age >= session[s].age
        /\ \/ session'[s].state = session[s].state
           \/ session'[s].state = "open" /\ paid[s] = 0
  BY RequestSessions
<1>3. \A p \in Requests, s \in Sessions :
        Closes(p, s)' => \/ Closes(p, s) /\ req'[p].charged = req[p].charged
                         \/ s \in Open /\ req'[p].charged = paid[s]
  <2> SUFFICES ASSUME NEW p \in Requests, NEW s \in Sessions, Closes(p, s)'
               PROVE  \/ Closes(p, s) /\ req'[p].charged = req[p].charged
                      \/ s \in Open /\ req'[p].charged = paid[s]
    OBVIOUS
  <2>1. CASE ReadSession(q)
    <3>1. PICK t \in Open : req' = [req EXCEPT ![q] = [stage |-> "closing", session |-> t,
                                                      charged |-> session[t].charged]]
      BY <2>1 DEF ReadSession
    <3>2. session[t].charged = paid[t]
      BY DEF Inv, ColumnIsPaid
    <3>3. QED
      BY <3>1, <3>2 DEF Closes, Inv, TypeOK
  <2>2. CASE ~ReadSession(q)
    <3>1. req'[p] = req[p] \/ req'[p].stage # "closing"
      BY <2>2, RequestsGiveUp
    <3>2. QED
      BY <3>1 DEF Closes
  <2>3. QED
    BY <2>1, <2>2
<1>4. QED
  BY <1>1, <1>2, <1>3, SoloKept

LEMMA SoloOthers ==
  ASSUME Inv, Inv', SoloInv,
         \/ WorkerLists \/ WorkerKicks \/ (\E e \in worker.todo : WorkerSkips(e))
         \/ Tick \/ Crash \/ UNCHANGED vars
  PROVE  SoloInv'
<1>1. UNCHANGED paid
  BY DEF WorkerLists, WorkerKicks, WorkerSkips, Tick, Crash, vars
<1>2. \A s \in Sessions :
        session'[s].age >= session[s].age /\ session'[s].state = session[s].state
  BY OtherSessions
<1>3. \A e \in worker'.todo : e \in worker.todo \/ e.session \in Open
  BY OtherLists
<1>4. \A q \in Requests : req'[q] = req[q] \/ req'[q].stage # "closing"
  <2>1. CASE Crash
    BY <2>1 DEF Crash, Idle
  <2>2. CASE UNCHANGED req
    BY <2>2
  <2>3. QED
    BY <2>1, <2>2 DEF WorkerLists, WorkerKicks, WorkerSkips, Tick, vars
<1>5. \A q \in Requests, s \in Sessions :
        Closes(q, s)' => Closes(q, s) /\ req'[q].charged = req[q].charged
  BY <1>4 DEF Closes
<1>6. QED
  BY <1>1, <1>2, <1>3, <1>5, SoloKept

LEMMA StepSolo == Inv /\ Inv' /\ SoloInv /\ Alone /\ [Next]_vars => SoloInv'
<1> SUFFICES ASSUME Inv, Inv', SoloInv, Alone, [Next]_vars PROVE SoloInv'
  OBVIOUS
<1>1. ASSUME NEW q \in Requests,
             \/ Join(q) \/ Joined(q) \/ Leave(q) \/ DeleteMember(q) \/ NoOpenSession(q)
             \/ ReadSession(q) \/ CloseSession(q) \/ Fail(q)
      PROVE  SoloInv'
  BY <1>1, SoloRequests, SoloClose
<1>2. ASSUME NEW e \in worker.todo, WorkerHandles(e)
      PROVE  SoloInv'
  BY <1>2, SoloOthers, SoloWorker DEF WorkerHandles
<1>3. CASE WorkerLists \/ WorkerKicks \/ Tick \/ Crash \/ UNCHANGED vars
  BY <1>3, SoloOthers
<1>4. QED
  BY <1>1, <1>2, <1>3 DEF Next

\* As long as nobody charges a session that another is about to close, no
\* session costs more than 2,000 shards for each hour begun (README.md:73): the
\* overlap that rooms.go:1721 and cleanup.go:357 allow is all that breaks it.
THEOREM AloneIsExact == Spec /\ []Alone => []HourlyRate
<1>1. Init => SoloInv
  BY DEF Init, SoloInv, HourlyRate, Unused, Closes, NoWork, Idle
<1>2. Spec /\ []Alone => []SoloInv
  BY <1>1, StepSolo, Invariance, PTL DEF Spec
<1>3. SoloInv => HourlyRate
  BY DEF SoloInv
<1>4. QED
  BY <1>2, <1>3, PTL

=============================================================================
