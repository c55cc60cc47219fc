--------------------------- MODULE ShardLedgerProofs --------------------------
(***************************************************************************)
(* The shard transactions implement the abstract accounts, so the balances *)
(* and the histories are right for any number of users, codes, goroutines  *)
(* and rows.                                                               *)
(*                                                                         *)
(* The inductive invariant is the type of the state together with what a   *)
(* row lock buys: between SELECT ... FOR UPDATE and COMMIT the value that  *)
(* was read is the value that is there (LockDiscipline).                   *)
(***************************************************************************)
EXTENDS ShardLedger, FiniteSetTheorems, TLAPS

IInv ==
  /\ TypeOK
  /\ BalanceMatchesLedger
  /\ HistoryIsHonest
  /\ TxOK
  /\ LockDiscipline

USE ConstantsOK

LEMMA InitIInv == Init => IInv
<1> SUFFICES ASSUME Init PROVE IInv
  OBVIOUS
<1>1. Accts!TypeOK
  BY DEF Init, Accts!Init, Accts!TypeOK
<1>2. TypeOK
  BY <1>1 DEF Init, TypeOK, Stages
<1>3. TxOK /\ LockDiscipline
  BY DEF Init, TxOK, LockDiscipline, Busy
<1>4. BalanceMatchesLedger /\ HistoryIsHonest
  BY DEF Init, Accts!Init, BalanceMatchesLedger, HistoryIsHonest,
     Accts!BalanceMatchesLedger, Accts!HistoryIsHonest
<1>5. QED
  BY <1>2, <1>3, <1>4 DEF IInv

\* The fields of a request that is under way.
LEMMA RequestTypes ==
  ASSUME IInv, NEW p \in Procs, pc[p] # "idle"
  PROVE  /\ req[p] \in Requests
         /\ req[p].user \in Users
         /\ req[p].amount \in Nat
         /\ req[p].kind \in AllKinds
         /\ req[p].kind = "redeem" => req[p].ref \in Codes
         /\ req[p].kind = "referral" =>
              req[p].ref \in Users /\ req[p].amount = ReferralAmount
<1>1. req[p] \in Requests /\ (req[p].kind = "redeem" => req[p].ref \in Codes)
  BY DEF IInv, TxOK, Busy
<1>2. QED
  BY <1>1 DEF Requests, AllKinds

\* A row beyond the limit is a referral bonus, a bonus pays what its transaction
\* was begun for, and a redemption is recorded with its row.
RowAgrees(p, e) ==
  LET r == <<req[p].ref, req[p].user>> IN
  /\ IF e.type = "referral_bonus"
     THEN /\ req[p].kind = "referral"
          /\ e.ref = req[p].ref
          /\ e.after = seen[p] + ReferralAmount
     ELSE e.after <= seen[p] \/ e.after <= MaxShardBalance
  /\ IF e.type = "promo_redeem"
     THEN e.ref = req[p].ref /\ r \notin redeemed /\ redeemed' = redeemed \cup {r}
     ELSE redeemed' = redeemed

\* One row, announcing the new balance, honest about the old one.
Posted(p) ==
  \E e \in Accts!Entry :
    /\ pc[p] = "hold"
    /\ Accts!Honest(balance[req[p].user], e)
    /\ balance' = [balance EXCEPT ![req[p].user] = e.after]
    /\ ledger' = [ledger EXCEPT ![req[p].user] = Append(@, e)]
    /\ Finish(p)
    /\ UNCHANGED account
    /\ RowAgrees(p, e)

LEMMA PostIsHonest ==
  ASSUME IInv, NEW p \in Procs, pc[p] = "hold",
         NEW type \in Accts!TxTypes, NEW amount \in Int, NEW after \in Nat, NEW ref \in Refs,
         \/ after = seen[p] + amount
         \/ type = "shared_hourly" /\ after = 0 /\ seen[p] + amount < 0,
         Post(p, type, amount, after, ref),
         RowAgrees(p, [type |-> type, amount |-> amount, after |-> after, ref |-> ref])
  PROVE  Posted(p)
<1> DEFINE e == [type |-> type, amount |-> amount, after |-> after, ref |-> ref]
<1>1. e \in Accts!Entry
  BY DEF Accts!Entry
<1>2. seen[p] = balance[req[p].user]
  BY DEF IInv, LockDiscipline
<1>3. Accts!Honest(balance[req[p].user], e)
  BY <1>2 DEF Accts!Honest
<1>4. QED
  BY <1>1, <1>3 DEF Posted, Post

LEMMA PostingSteps ==
  ASSUME IInv, NEW p \in Procs,
         \/ AddShards(p) \/ RemoveShards(p) \/ Redeem(p) \/ PayReferrer(p)
         \/ PurchaseRoom(p) \/ ExtendRoom(p) \/ CloseSharedSession(p)
         \/ ChargeSharedSession(p) \/ ChargeRemainder(p)
  PROVE  Posted(p) \/ (Finish(p) /\ UNCHANGED accountVars)
<1> DEFINE n == req[p].amount
           s == seen[p]
<1>1. pc[p] = "hold" /\ n \in Nat /\ s \in Nat
  BY RequestTypes DEF AddShards, RemoveShards, Redeem, PayReferrer, PurchaseRoom,
     ExtendRoom, CloseSharedSession, ChargeSharedSession, ChargeRemainder, Holding,
     IInv, TypeOK
<1>2. NoRef \in Refs
  BY DEF Refs
<1>3. CASE AddShards(p)
  <2>1. Post(p, "admin_topup", n, s + n, NoRef)
    BY <1>3 DEF AddShards
  <2>2. n \in Int /\ s + n \in Nat /\ "admin_topup" \in Accts!TxTypes
    BY <1>1 DEF Accts!TxTypes
  <2>3. RowAgrees(p, [type |-> "admin_topup", amount |-> n, after |-> s + n, ref |-> NoRef])
    BY <1>3 DEF AddShards, RowAgrees, promoVars
  <2>4. QED
    BY <1>1, <1>2, <2>1, <2>2, <2>3, PostIsHonest
<1>4. CASE RemoveShards(p)
  <2> DEFINE after == Monus(s, n)
  <2>1. Post(p, "refund", after - s, after, NoRef)
    BY <1>4 DEF RemoveShards
  <2>2. after \in Nat
    BY <1>1 DEF Monus
  <2> HIDE DEF after
  <2>3. after - s \in Int /\ after = s + (after - s) /\ "refund" \in Accts!TxTypes
    BY <1>1, <2>2 DEF Accts!TxTypes
  <2>4. RowAgrees(p, [type |-> "refund", amount |-> after - s, after |-> after, ref |-> NoRef])
    BY <1>1, <1>4 DEF RemoveShards, RowAgrees, Monus, promoVars, after
  <2>5. QED
    BY <1>1, <1>2, <2>1, <2>2, <2>3, <2>4, PostIsHonest
<1>5. CASE Redeem(p)
  <2>1. req[p].ref \in Refs
    BY <1>1, <1>5, RequestTypes DEF Redeem, Holding, Refs
  <2>2. Post(p, "promo_redeem", n, s + n, req[p].ref)
    BY <1>5 DEF Redeem
  <2>3. n \in Int /\ s + n \in Nat /\ "promo_redeem" \in Accts!TxTypes
    BY <1>1 DEF Accts!TxTypes
  <2>4. RowAgrees(p, [type |-> "promo_redeem", amount |-> n, after |-> s + n, ref |-> req[p].ref])
    BY <1>5 DEF Redeem, RowAgrees
  <2>5. QED
    BY <1>1, <2>1, <2>2, <2>3, <2>4, PostIsHonest
<1>6. CASE PayReferrer(p)
  <2>1. req[p].ref \in Refs
    BY <1>1, <1>6, RequestTypes DEF PayReferrer, Holding, Refs
  <2>2. Post(p, "referral_bonus", n, s + n, req[p].ref)
    BY <1>6 DEF PayReferrer
  <2>3. n \in Int /\ s + n \in Nat /\ "referral_bonus" \in Accts!TxTypes
    BY <1>1 DEF Accts!TxTypes
  <2>4. RowAgrees(p, [type |-> "referral_bonus", amount |-> n, after |-> s + n, ref |-> req[p].ref])
    BY <1>1, <1>6, RequestTypes DEF PayReferrer, Holding, RowAgrees, promoVars
  <2>5. QED
    BY <1>1, <2>1, <2>2, <2>3, <2>4, PostIsHonest
<1>7. CASE PurchaseRoom(p)
  <2>1. Post(p, "room_purchase", -n, s - n, NoRef) /\ s >= n
    BY <1>7 DEF PurchaseRoom
  <2>2. -n \in Int /\ s - n \in Nat /\ s - n = s + (-n) /\ "room_purchase" \in Accts!TxTypes
    BY <1>1, <2>1 DEF Accts!TxTypes
  <2>3. RowAgrees(p, [type |-> "room_purchase", amount |-> -n, after |-> s - n, ref |-> NoRef])
    BY <1>1, <1>7 DEF PurchaseRoom, RowAgrees, promoVars
  <2>4. QED
    BY <1>1, <1>2, <2>1, <2>2, <2>3, PostIsHonest
<1>8. CASE ExtendRoom(p)
  <2>1. Post(p, "room_extend", -n, s - n, NoRef) /\ s >= n
    BY <1>8 DEF ExtendRoom
  <2>2. -n \in Int /\ s - n \in Nat /\ s - n = s + (-n) /\ "room_extend" \in Accts!TxTypes
    BY <1>1, <2>1 DEF Accts!TxTypes
  <2>3. RowAgrees(p, [type |-> "room_extend", amount |-> -n, after |-> s - n, ref |-> NoRef])
    BY <1>1, <1>8 DEF ExtendRoom, RowAgrees, promoVars
  <2>4. QED
    BY <1>1, <1>2, <2>1, <2>2, <2>3, PostIsHonest
<1>9. CASE CloseSharedSession(p)
  <2> DEFINE after == Monus(s, n)
  <2>1. Post(p, "shared_hourly", -n, after, NoRef)
    BY <1>9 DEF CloseSharedSession
  <2>2. /\ after \in Nat
        /\ after = s + (-n) \/ (after = 0 /\ s + (-n) < 0)
    BY <1>1 DEF Monus
  <2> HIDE DEF after
  <2>3. -n \in Int /\ "shared_hourly" \in Accts!TxTypes
    BY <1>1 DEF Accts!TxTypes
  <2>4. RowAgrees(p, [type |-> "shared_hourly", amount |-> -n, after |-> after, ref |-> NoRef])
    BY <1>1, <1>9 DEF CloseSharedSession, RowAgrees, Monus, promoVars, after
  <2>5. QED
    BY <1>1, <1>2, <2>1, <2>2, <2>3, <2>4, PostIsHonest
<1>10. CASE ChargeSharedSession(p)
  <2>1. Post(p, "shared_hourly", -n, s - n, NoRef) /\ s >= n
    BY <1>10 DEF ChargeSharedSession
  <2>2. -n \in Int /\ s - n \in Nat /\ s - n = s + (-n) /\ "shared_hourly" \in Accts!TxTypes
    BY <1>1, <2>1 DEF Accts!TxTypes
  <2>3. RowAgrees(p, [type |-> "shared_hourly", amount |-> -n, after |-> s - n, ref |-> NoRef])
    BY <1>1, <1>10 DEF ChargeSharedSession, RowAgrees, promoVars
  <2>4. QED
    BY <1>1, <1>2, <2>1, <2>2, <2>3, PostIsHonest
<1>11. CASE ChargeRemainder(p)
  <2>1. \/ Post(p, "shared_hourly", -s, 0, NoRef)
        \/ Finish(p) /\ UNCHANGED accountVars
    BY <1>11 DEF ChargeRemainder
  <2>2. CASE Post(p, "shared_hourly", -s, 0, NoRef)
    <3>1. -s \in Int /\ 0 \in Nat /\ 0 = s + (-s) /\ "shared_hourly" \in Accts!TxTypes
      BY <1>1 DEF Accts!TxTypes
    <3>2. RowAgrees(p, [type |-> "shared_hourly", amount |-> -s, after |-> 0, ref |-> NoRef])
      BY <1>1, <1>11 DEF ChargeRemainder, RowAgrees, promoVars
    <3>3. QED
      BY <1>1, <1>2, <2>2, <3>1, <3>2, PostIsHonest
  <2>3. QED
    BY <2>1, <2>2
<1>12. QED
  BY <1>3, <1>4, <1>5, <1>6, <1>7, <1>8, <1>9, <1>10, <1>11

-----------------------------------------------------------------------------
(* The effect of a step on the accounts, as the abstract specification sees it *)

LEMMA PostedMaps ==
  ASSUME IInv, NEW p \in Procs, Posted(p)
  PROVE  Accts!Post(req[p].user)
<1> DEFINE u == req[p].user
<1>1. PICK e \in Accts!Entry :
        /\ pc[p] = "hold"
        /\ Accts!Honest(balance[u], e)
        /\ balance' = [balance EXCEPT ![u] = e.after]
        /\ ledger' = [ledger EXCEPT ![u] = Append(@, e)]
        /\ UNCHANGED account
  BY DEF Posted
<1>2. u \in Users /\ account[u] = "open"
  BY <1>1, RequestTypes DEF IInv, LockDiscipline
<1> HIDE DEF u
<1>3. ledger[u] \in Seq(Accts!Entry) /\ ledger'[u] = Append(ledger[u], e)
  BY <1>1, <1>2 DEF IInv, TypeOK, Accts!TypeOK
<1>4. /\ Len(ledger'[u]) = Len(ledger[u]) + 1
      /\ ledger'[u][Len(ledger[u]) + 1] = e
  BY <1>1, <1>3
<1>5. Accts!Post(u)
  BY <1>1, <1>2, <1>4 DEF Accts!Post
<1>6. QED
  BY <1>5 DEF u

LEMMA NextMaps ==
  ASSUME IInv, [Next]_vars
  PROVE  [Accts!Next]_(Accts!vars)
<1>1. CASE UNCHANGED vars
  BY <1>1 DEF vars, accountVars, Accts!vars
<1>2. ASSUME NEW u \in Users, NEW referrer \in Users \cup {NoUser}, Register(u, referrer)
      PROVE  Accts!Next
  BY <1>2 DEF Register, Accts!Next, Accts!Open
<1>3. ASSUME NEW p \in Procs, NEW r \in ClientRequests, BeginRequest(p, r)
      PROVE  UNCHANGED accountVars
  BY <1>3 DEF BeginRequest, Begin
<1>4. ASSUME NEW p \in Procs, NEW u \in Users, NEW referrer \in Users,
             BeginReferral(p, u, referrer)
      PROVE  UNCHANGED accountVars
  BY <1>4 DEF BeginReferral, Begin
<1>5. ASSUME NEW p \in Procs, Step(p)
      PROVE  UNCHANGED accountVars \/ Accts!Next
  <2>1. CASE LockCode(p) \/ LockUser(p) \/ DeleteDependants(p)
    BY <2>1 DEF LockCode, LockUser, DeleteDependants
  <2>2. CASE RefuseCode(p) \/ NoSuchUser(p) \/ Rollback(p)
    BY <2>2 DEF RefuseCode, NoSuchUser, Rollback, Abort
  <2>3. CASE \/ AddShards(p) \/ RemoveShards(p) \/ Redeem(p) \/ PayReferrer(p)
             \/ PurchaseRoom(p) \/ ExtendRoom(p) \/ CloseSharedSession(p)
             \/ ChargeSharedSession(p) \/ ChargeRemainder(p)
    <3>1. CASE Posted(p)
      <4>1. req[p].user \in Users
        BY <3>1, RequestTypes DEF Posted
      <4>2. QED
        BY <3>1, <4>1, PostedMaps DEF Accts!Next
    <3>2. QED
      BY <2>3, <3>1, PostingSteps
  <2>4. CASE DeleteUser(p)
    <3>1. req[p].user \in Users
      BY <2>4, RequestTypes DEF DeleteUser
    <3>2. QED
      BY <2>4, <3>1 DEF DeleteUser, Accts!Next, Accts!Close
  <2>5. QED
    BY <1>5, <2>1, <2>2, <2>3, <2>4 DEF Step
<1>6. ASSUME Crash \/ Quiescent
      PROVE  UNCHANGED accountVars
  BY <1>6 DEF Crash, Quiescent, vars
<1>7. UNCHANGED accountVars => UNCHANGED Accts!vars
  BY DEF accountVars, Accts!vars
<1>8. Next => UNCHANGED accountVars \/ Accts!Next
  BY <1>2, <1>3, <1>4, <1>5, <1>6 DEF Next
<1>9. QED
  BY <1>1, <1>7, <1>8

-----------------------------------------------------------------------------
(* The abstract invariant, step by step *)

\* What a history keeps: it announces the balance and every row is honest.
AccountsInv == Accts!TypeOK /\ BalanceMatchesLedger /\ HistoryIsHonest

LEMMA PostKeepsAccounts ==
  ASSUME AccountsInv, NEW u \in Users, Accts!Post(u)
  PROVE  AccountsInv'
<1> DEFINE e == ledger'[u][Len(ledger[u]) + 1]
<1>1. /\ e \in Accts!Entry
      /\ Accts!Honest(balance[u], e)
      /\ balance' = [balance EXCEPT ![u] = e.after]
      /\ ledger' = [ledger EXCEPT ![u] = Append(@, e)]
      /\ UNCHANGED account
  BY DEF Accts!Post
<1> HIDE DEF e
<1>2. e.after \in Nat /\ e.amount \in Int
  BY <1>1 DEF Accts!Entry
<1>3. Accts!TypeOK'
  BY <1>1, <1>2 DEF AccountsInv, Accts!TypeOK
<1>4. ledger[u] \in Seq(Accts!Entry) /\ ledger'[u] = Append(ledger[u], e)
  BY <1>1 DEF AccountsInv, Accts!TypeOK
<1>5. /\ Len(ledger'[u]) = Len(ledger[u]) + 1
      /\ ledger'[u][Len(ledger[u]) + 1] = e
      /\ \A i \in 1..Len(ledger[u]) : ledger'[u][i] = ledger[u][i]
      /\ ledger'[u] # <<>>
  BY <1>1, <1>4
<1>6. \A v \in Users \ {u} : ledger'[v] = ledger[v] /\ balance'[v] = balance[v]
  BY <1>1 DEF AccountsInv, Accts!TypeOK
<1>7. balance'[u] = e.after
  BY <1>1 DEF AccountsInv, Accts!TypeOK
<1>8. BalanceMatchesLedger'
  BY <1>5, <1>6, <1>7 DEF AccountsInv, BalanceMatchesLedger, Accts!BalanceMatchesLedger
<1>9. ASSUME NEW v \in Users, NEW i \in 1..Len(ledger'[v])
      PROVE  Accts!Honest(Accts!Before(v, i)', ledger'[v][i])
  <2>1. CASE v # u
    BY <2>1, <1>6 DEF AccountsInv, HistoryIsHonest, Accts!HistoryIsHonest, Accts!Before
  <2>2. CASE v = u /\ i \in 1..Len(ledger[u])
    BY <2>2, <1>4, <1>5 DEF AccountsInv, HistoryIsHonest, Accts!HistoryIsHonest, Accts!Before
  <2>3. CASE v = u /\ i = Len(ledger[u]) + 1
    <3>1. Accts!Before(v, i)' = balance[u]
      BY <2>3, <1>4, <1>5
      DEF AccountsInv, BalanceMatchesLedger, Accts!BalanceMatchesLedger, Accts!Before
    <3>2. QED
      BY <3>1, <2>3, <1>1, <1>5
  <2>4. QED
    BY <2>1, <2>2, <2>3, <1>4, <1>5
<1>10. QED
  BY <1>3, <1>8, <1>9 DEF AccountsInv, HistoryIsHonest, Accts!HistoryIsHonest

LEMMA AccountsInvStep ==
  ASSUME AccountsInv, [Accts!Next]_(Accts!vars)
  PROVE  AccountsInv'
<1> USE DEF AccountsInv, BalanceMatchesLedger, HistoryIsHonest
<1>1. ASSUME NEW u \in Users, Accts!Open(u)
      PROVE  AccountsInv'
  BY <1>1 DEF Accts!Open, Accts!TypeOK, Accts!BalanceMatchesLedger, Accts!HistoryIsHonest,
     Accts!Before
<1>2. ASSUME NEW u \in Users, Accts!Post(u)
      PROVE  AccountsInv'
  BY <1>2, PostKeepsAccounts
<1>3. ASSUME NEW u \in Users, Accts!Close(u)
      PROVE  AccountsInv'
  <2>1. Accts!TypeOK'
    BY <1>3 DEF Accts!Close, Accts!TypeOK
  <2>2. BalanceMatchesLedger'
    BY <1>3 DEF Accts!Close, Accts!TypeOK, Accts!BalanceMatchesLedger
  <2>3. HistoryIsHonest'
    BY <1>3 DEF Accts!Close, Accts!TypeOK, Accts!HistoryIsHonest, Accts!Before
  <2>4. QED
    BY <2>1, <2>2, <2>3
<1>4. CASE UNCHANGED Accts!vars
  BY <1>4 DEF Accts!vars, Accts!TypeOK, Accts!BalanceMatchesLedger, Accts!HistoryIsHonest,
     Accts!Before
<1>5. QED
  BY <1>1, <1>2, <1>3, <1>4 DEF Accts!Next

\* The abstract accounts keep balances and histories in agreement: every history
\* announces the balance and every row in it is honest.
THEOREM AccountsAreHonest == Accts!Spec => []AccountsInv
<1>1. Accts!Init => AccountsInv
  BY DEF Accts!Init, AccountsInv, Accts!TypeOK, BalanceMatchesLedger, HistoryIsHonest,
     Accts!BalanceMatchesLedger, Accts!HistoryIsHonest
<1>2. AccountsInv /\ [Accts!Next]_(Accts!vars) => AccountsInv'
  BY AccountsInvStep
<1>3. QED
  BY <1>1, <1>2, PTL DEF Accts!Spec

LEMMA AccountsStep ==
  ASSUME IInv, [Next]_vars
  PROVE  Accts!TypeOK' /\ BalanceMatchesLedger' /\ HistoryIsHonest'
<1>1. AccountsInv
  BY DEF AccountsInv, IInv, TypeOK
<1>2. AccountsInv'
  BY <1>1, NextMaps, AccountsInvStep
<1>3. QED
  BY <1>2 DEF AccountsInv

-----------------------------------------------------------------------------
(* Steps that start a transaction or take a row *)

LEMMA BeginTypes ==
  ASSUME IInv, NEW p \in Procs, NEW r \in Requests, r.kind = "redeem" => r.ref \in Codes,
         Begin(p, r)
  PROVE  /\ pc' \in [Procs -> Stages]
         /\ req' \in [Procs -> Requests \cup {NoRequest}]
         /\ seen' \in [Procs -> Nat]
         /\ TxOK'
         /\ LockDiscipline'
<1>1. /\ pc'[p] \in {"code", "user", "dep"}
      /\ pc'[p] = "code" => r.kind = "redeem"
      /\ pc'[p] = "user" => r.kind # "redeem"
      /\ req'[p] = r
      /\ pc' \in [Procs -> Stages]
      /\ req' \in [Procs -> Requests \cup {NoRequest}]
      /\ seen' \in [Procs -> Nat]
  BY DEF Begin, FirstStage, IInv, TypeOK, Stages
<1>2. \A q \in Procs \ {p} : pc'[q] = pc[q] /\ req'[q] = req[q] /\ seen'[q] = seen[q]
  BY DEF Begin, IInv, TypeOK
<1>3. TxOK'
  BY <1>1, <1>2 DEF IInv, TxOK, Busy
<1>4. UNCHANGED <<account, balance, uses, redeemed, userLock, codeLock>>
  BY DEF Begin, accountVars, promoVars, lockVars
<1>5. LockDiscipline'
  BY <1>1, <1>2, <1>4 DEF IInv, LockDiscipline
<1>6. QED
  BY <1>1, <1>3, <1>5

LEMMA LockSteps ==
  ASSUME IInv, NEW p \in Procs, LockCode(p) \/ LockUser(p) \/ DeleteDependants(p)
  PROVE  TypeOK' /\ TxOK' /\ LockDiscipline'
<1>1. CASE LockCode(p)
  <2>1. req[p].ref \in Codes /\ req[p] \in Requests
    BY <1>1, RequestTypes DEF LockCode, IInv, TxOK, Busy
  <2>2. TypeOK'
    BY <1>1, <2>1 DEF LockCode, IInv, TypeOK, Stages, accountVars, promoVars, referralVars,
       Accts!TypeOK
  <2>3. TxOK'
    BY <1>1 DEF LockCode, IInv, TypeOK, TxOK, Busy
  <2>4. LockDiscipline'
    BY <1>1, <2>1 DEF LockCode, IInv, TypeOK, LockDiscipline, accountVars, promoVars
  <2>5. QED
    BY <2>2, <2>3, <2>4
<1>2. CASE LockUser(p)
  <2>1. req[p].user \in Users
    BY <1>2, RequestTypes DEF LockUser
  <2>2. TypeOK'
    BY <1>2, <2>1 DEF LockUser, IInv, TypeOK, Stages, accountVars, promoVars, referralVars,
       Accts!TypeOK
  <2>3. TxOK'
    BY <1>2 DEF LockUser, IInv, TypeOK, TxOK, Busy
  <2>4. LockDiscipline'
    BY <1>2, <2>1 DEF LockUser, IInv, TypeOK, LockDiscipline, accountVars, promoVars
  <2>5. QED
    BY <2>2, <2>3, <2>4
<1>3. CASE DeleteDependants(p)
  <2>1. Len(ledger[req[p].user]) \in Nat
    BY <1>3, RequestTypes DEF DeleteDependants, IInv, TypeOK, Accts!TypeOK
  <2>2. TypeOK'
    BY <1>3, <2>1 DEF DeleteDependants, IInv, TypeOK, Stages, accountVars, promoVars,
       referralVars, lockVars, Accts!TypeOK
  <2>3. TxOK'
    BY <1>3 DEF DeleteDependants, IInv, TypeOK, TxOK, Busy
  <2>4. LockDiscipline'
    BY <1>3 DEF DeleteDependants, IInv, TypeOK, LockDiscipline, accountVars, promoVars, lockVars
  <2>5. QED
    BY <2>2, <2>3, <2>4
<1>4. QED
  BY <1>1, <1>2, <1>3

-----------------------------------------------------------------------------
(* Steps that end a transaction *)

LEMMA FinishTypes ==
  ASSUME IInv, NEW p \in Procs, Finish(p)
  PROVE  /\ userLock' \in [Users -> Procs \cup {NoProc}]
         /\ codeLock' \in [Codes -> Procs \cup {NoProc}]
         /\ pc' \in [Procs -> Stages]
         /\ req' \in [Procs -> Requests \cup {NoRequest}]
         /\ seen' \in [Procs -> Nat]
  BY DEF Finish, IInv, TypeOK, Stages

\* What a transaction may change when it ends without disturbing the others:
\* accounts nobody else holds and codes nobody else holds.
LEMMA FinishKeepsLocks ==
  ASSUME IInv, NEW p \in Procs, Finish(p),
         \A u \in Users : userLock[u] \in Procs \ {p} =>
            account'[u] = account[u] /\ balance'[u] = balance[u],
         \A c \in Codes : codeLock[c] \in Procs \ {p} =>
            /\ uses'[c] = uses[c]
            /\ \A u \in Users : <<c, u>> \in redeemed' => <<c, u>> \in redeemed
  PROVE  TxOK' /\ LockDiscipline'
<1>1. /\ pc'[p] = "idle"
      /\ \A q \in Procs \ {p} : pc'[q] = pc[q] /\ req'[q] = req[q] /\ seen'[q] = seen[q]
      /\ \A u \in Users : userLock[u] \in Procs \ {p} => userLock'[u] = userLock[u]
      /\ \A c \in Codes : codeLock[c] \in Procs \ {p} => codeLock'[c] = codeLock[c]
  BY DEF Finish, IInv, TypeOK
<1>2. TxOK'
  BY <1>1 DEF IInv, TxOK, Busy
<1>3. ASSUME NEW q \in Procs, pc'[q] # "idle"
      PROVE  /\ q \in Procs \ {p}
             /\ pc[q] # "idle"
             /\ pc'[q] = pc[q] /\ req'[q] = req[q] /\ seen'[q] = seen[q]
             /\ req[q].user \in Users
             /\ req[q].kind = "redeem" => req[q].ref \in Codes
  <2>1. q # p
    BY <1>1, <1>3
  <2>2. pc[q] # "idle"
    BY <1>1, <1>3, <2>1
  <2>3. QED
    BY <1>1, <2>1, <2>2, RequestTypes
<1>4. ASSUME NEW q \in Procs, pc'[q] = "hold"
      PROVE  /\ userLock'[req'[q].user] = q
             /\ account'[req'[q].user] = "open"
             /\ seen'[q] = balance'[req'[q].user]
  <2> DEFINE u == req[q].user
  <2>1. q \in Procs \ {p} /\ pc[q] = "hold" /\ req'[q] = req[q] /\ seen'[q] = seen[q] /\ u \in Users
    BY <1>3, <1>4
  <2>2. userLock[u] = q /\ account[u] = "open" /\ seen[q] = balance[u]
    BY <2>1 DEF IInv, LockDiscipline
  <2>3. userLock'[u] = q /\ account'[u] = account[u] /\ balance'[u] = balance[u]
    BY <1>1, <2>1, <2>2
  <2>4. QED
    BY <2>1, <2>2, <2>3
<1>5. ASSUME NEW q \in Procs, pc'[q] \in {"user", "hold"}, req'[q].kind = "redeem"
      PROVE  /\ codeLock'[req'[q].ref] = q
             /\ uses'[req'[q].ref] < MaxUses
             /\ <<req'[q].ref, req'[q].user>> \notin redeemed'
  BY <1>1, <1>3, <1>5 DEF IInv, LockDiscipline
<1>6. LockDiscipline'
  BY <1>4, <1>5 DEF LockDiscipline
<1>7. QED
  BY <1>2, <1>6

LEMMA FinishSteps ==
  ASSUME IInv, NEW p \in Procs, Accts!TypeOK',
         \/ RefuseCode(p) \/ NoSuchUser(p) \/ Rollback(p) \/ DeleteUser(p)
         \/ AddShards(p) \/ RemoveShards(p) \/ Redeem(p) \/ PayReferrer(p)
         \/ PurchaseRoom(p) \/ ExtendRoom(p) \/ CloseSharedSession(p)
         \/ ChargeSharedSession(p) \/ ChargeRemainder(p)
  PROVE  TypeOK' /\ TxOK' /\ LockDiscipline'
<1>1. CASE RefuseCode(p) \/ NoSuchUser(p) \/ Rollback(p)
  <2>1. Finish(p) /\ UNCHANGED <<accountVars, promoVars, referralVars>>
    BY <1>1 DEF RefuseCode, NoSuchUser, Rollback, Abort
  <2>2. TypeOK'
    BY <2>1, FinishTypes DEF IInv, TypeOK, promoVars, referralVars
  <2>3. QED
    BY <2>1, <2>2, FinishKeepsLocks DEF accountVars, promoVars
<1>2. CASE DeleteUser(p)
  <2>1. Finish(p) /\ req[p].user \in Users
    BY <1>2, RequestTypes DEF DeleteUser
  <2>2. TypeOK'
    BY <1>2, <2>1, FinishTypes DEF DeleteUser, IInv, TypeOK
  <2>3. \A u \in Users : userLock[u] \in Procs \ {p} =>
            account'[u] = account[u] /\ balance'[u] = balance[u]
    BY <1>2, <2>1 DEF DeleteUser, IInv, TypeOK, Accts!TypeOK
  <2>4. UNCHANGED uses /\ redeemed' \subseteq redeemed
    BY <1>2 DEF DeleteUser
  <2>5. QED
    BY <2>1, <2>2, <2>3, <2>4, FinishKeepsLocks
<1>3. CASE \/ AddShards(p) \/ RemoveShards(p) \/ Redeem(p) \/ PayReferrer(p)
           \/ PurchaseRoom(p) \/ ExtendRoom(p) \/ CloseSharedSession(p)
           \/ ChargeSharedSession(p) \/ ChargeRemainder(p)
  <2>1. /\ pc[p] = "hold"
        /\ UNCHANGED referralVars
        /\ Redeem(p) \/ UNCHANGED promoVars
    BY <1>3 DEF AddShards, RemoveShards, Redeem, PayReferrer, PurchaseRoom, ExtendRoom,
       CloseSharedSession, ChargeSharedSession, ChargeRemainder, Holding
  <2>2. Finish(p)
    BY <1>3, PostingSteps DEF Posted
  <2>3. \A u \in Users : userLock[u] \in Procs \ {p} =>
            account'[u] = account[u] /\ balance'[u] = balance[u]
    <3>1. userLock[req[p].user] = p /\ req[p].user \in Users
      BY <2>1, RequestTypes DEF IInv, LockDiscipline
    <3>2. Posted(p) \/ UNCHANGED accountVars
      BY <1>3, PostingSteps
    <3>3. QED
      BY <3>1, <3>2 DEF Posted, accountVars, IInv, TypeOK, Accts!TypeOK
  <2>4. CASE Redeem(p)
    <3>1. /\ req[p].ref \in Codes /\ req[p].user \in Users
          /\ codeLock[req[p].ref] = p
      BY <2>1, <2>4, RequestTypes DEF Redeem, Holding, IInv, LockDiscipline
    <3>2. TypeOK'
      BY <2>1, <2>2, <2>4, <3>1, FinishTypes DEF Redeem, IInv, TypeOK, referralVars
    <3>3. \A c \in Codes : codeLock[c] \in Procs \ {p} =>
            /\ uses'[c] = uses[c]
            /\ \A u \in Users : <<c, u>> \in redeemed' => <<c, u>> \in redeemed
      BY <2>4, <3>1 DEF Redeem, IInv, TypeOK
    <3>4. QED
      BY <2>2, <2>3, <3>2, <3>3, FinishKeepsLocks
  <2>5. CASE UNCHANGED promoVars
    <3>1. TypeOK'
      BY <2>1, <2>2, <2>5, FinishTypes DEF IInv, TypeOK, promoVars, referralVars
    <3>2. QED
      BY <2>2, <2>3, <2>5, <3>1, FinishKeepsLocks DEF promoVars
  <2>6. QED
    BY <2>1, <2>4, <2>5
<1>4. QED
  BY <1>1, <1>2, <1>3

LEMMA NextIInv ==
  ASSUME IInv, [Next]_vars
  PROVE  IInv'
<1>1. Accts!TypeOK' /\ BalanceMatchesLedger' /\ HistoryIsHonest'
  BY AccountsStep
<1>2. SUFFICES TypeOK' /\ TxOK' /\ LockDiscipline'
  BY <1>1 DEF IInv
<1>3. CASE UNCHANGED vars
  BY <1>1, <1>3 DEF vars, accountVars, promoVars, referralVars, lockVars, txVars,
     IInv, TypeOK, TxOK, Busy, LockDiscipline
<1>4. ASSUME NEW u \in Users, NEW referrer \in Users \cup {NoUser}, Register(u, referrer)
      PROVE  TypeOK' /\ TxOK' /\ LockDiscipline'
  <2>1. TypeOK'
    BY <1>1, <1>4 DEF Register, IInv, TypeOK, promoVars, lockVars, txVars
  <2>2. TxOK'
    BY <1>4 DEF Register, IInv, TxOK, Busy, txVars
  <2>3. LockDiscipline'
    BY <1>4 DEF Register, IInv, TypeOK, Accts!TypeOK, LockDiscipline, promoVars, lockVars, txVars
  <2>4. QED
    BY <2>1, <2>2, <2>3
<1>5. ASSUME NEW p \in Procs, NEW r \in ClientRequests, BeginRequest(p, r)
      PROVE  TypeOK' /\ TxOK' /\ LockDiscipline'
  <2>1. r \in Requests /\ (r.kind = "redeem" => r.ref \in Codes)
    BY DEF ClientRequests, Requests
  <2>2. Begin(p, r) /\ UNCHANGED referralVars
    BY <1>5 DEF BeginRequest
  <2>3. QED
    BY <1>1, <2>1, <2>2, BeginTypes DEF Begin, IInv, TypeOK, promoVars, lockVars, referralVars
<1>6. ASSUME NEW p \in Procs, NEW u \in Users, NEW referrer \in Users,
             BeginReferral(p, u, referrer)
      PROVE  TypeOK' /\ TxOK' /\ LockDiscipline'
  <2> DEFINE r == [kind |-> "referral", user |-> referrer, amount |-> ReferralAmount, ref |-> u]
  <2>1. r \in Requests /\ r.kind # "redeem"
    BY DEF Requests
  <2>2. Begin(p, r) /\ bonusDue' \subseteq bonusDue /\ UNCHANGED referredBy
    BY <1>6 DEF BeginReferral
  <2> HIDE DEF r
  <2>3. QED
    BY <1>1, <2>1, <2>2, BeginTypes DEF Begin, IInv, TypeOK, promoVars, lockVars
<1>7. ASSUME NEW p \in Procs, Step(p)
      PROVE  TypeOK' /\ TxOK' /\ LockDiscipline'
  BY <1>1, <1>7, LockSteps, FinishSteps DEF Step
<1>8. CASE Crash
  <2>1. TypeOK'
    BY <1>1, <1>8 DEF Crash, IInv, TypeOK, Stages, promoVars
  <2>2. TxOK' /\ LockDiscipline'
    BY <1>8 DEF Crash, TxOK, LockDiscipline, Busy
  <2>3. QED
    BY <2>1, <2>2
<1>9. QED
  BY <1>3, <1>4, <1>5, <1>6, <1>7, <1>8 DEF Next, Quiescent

-----------------------------------------------------------------------------

\* The invariant holds in every reachable state, for any users, codes,
\* goroutines and amounts.
THEOREM Invariance == Spec => []IInv
  BY InitIInv, NextIInv, PTL DEF Spec

\* The state is well typed; in particular no balance is ever negative.
THEOREM TypeCorrect == Spec => []TypeOK
<1>1. IInv => TypeOK
  BY DEF IInv
<1>2. QED
  BY <1>1, Invariance, PTL

\* No update of a balance is lost: every committed row is honest about the
\* balance before and after it.
THEOREM Honesty == Spec => []HistoryIsHonest
<1>1. IInv => HistoryIsHonest
  BY DEF IInv
<1>2. QED
  BY <1>1, Invariance, PTL

\* What a transaction read under its row locks is still true when it commits.
THEOREM LocksHold == Spec => []LockDiscipline
<1>1. IInv => LockDiscipline
  BY DEF IInv
<1>2. QED
  BY <1>1, Invariance, PTL

\* Interleaved transactions look like single postings to the accounts.
THEOREM ImplementsAccounts == Spec => AccountsSpec
<1>1. Init => Accts!Init
  BY DEF Init
<1>2. IInv /\ [Next]_vars => [Accts!Next]_(Accts!vars)
  BY NextMaps
<1>3. QED
  BY <1>1, <1>2, Invariance, PTL DEF Spec, AccountsSpec, Accts!Spec

-----------------------------------------------------------------------------
(* Promo codes *)

PromoInv == PromoWithinLimit /\ \A c \in Codes : IsFiniteSet(Redemptions(c))

LEMMA PromoStep ==
  ASSUME IInv, PromoInv, [Next]_vars
  PROVE  PromoInv'
<1>1. CASE UNCHANGED promoVars
  BY <1>1 DEF PromoInv, PromoWithinLimit, Redemptions, promoVars
<1>2. ASSUME NEW p \in Procs, Redeem(p)
      PROVE  PromoInv'
  <2>1. pc[p] = "hold" /\ req[p].kind = "redeem" /\ req[p].ref \in Codes
    BY <1>2, RequestTypes DEF Redeem, Holding
  <2> PICK c \in Codes : c = req[p].ref
    BY <2>1
  <2> PICK v : v = req[p].user
    OBVIOUS
  <2> DEFINE r == <<c, v>>
  <2>2. uses[c] < MaxUses /\ uses[c] \in Nat /\ r \notin redeemed
    BY <2>1 DEF IInv, LockDiscipline, TypeOK
  <2>3. uses' = [uses EXCEPT ![c] = @ + 1] /\ redeemed' = redeemed \cup {r}
    BY <1>2 DEF Redeem
  <2>4. Redemptions(c)' = Redemptions(c) \cup {r} /\ r \notin Redemptions(c)
    BY <2>2, <2>3 DEF Redemptions
  <2>5. /\ IsFiniteSet(Redemptions(c)')
        /\ Cardinality(Redemptions(c)') = Cardinality(Redemptions(c)) + 1
    <3>1. IsFiniteSet(Redemptions(c))
      BY DEF PromoInv
    <3> DEFINE S == Redemptions(c)
               T == S \cup {r}
    <3>2. IsFiniteSet(T) /\ Cardinality(T) = Cardinality(S) + 1
      BY <2>4, <3>1, FS_AddElement
    <3>3. Redemptions(c)' = T
      BY <2>4
    <3> HIDE DEF T, S
    <3>4. IsFiniteSet(Redemptions(c)') /\ Cardinality(Redemptions(c)') = Cardinality(S) + 1
      BY <3>2, <3>3
    <3>5. QED
      BY <3>4 DEF S
  <2>6. uses'[c] = uses[c] + 1 /\ \A d \in Codes \ {c} : uses'[d] = uses[d]
    BY <2>1, <2>3 DEF IInv, TypeOK
  <2>7. \A d \in Codes \ {c} : Redemptions(d)' = Redemptions(d)
    BY <2>3 DEF Redemptions
  <2>8. Cardinality(Redemptions(c)) \in Nat /\ Cardinality(Redemptions(c)) <= uses[c]
    BY <2>1, FS_CardinalityType DEF PromoInv, PromoWithinLimit
  <2>9. uses'[c] <= MaxUses /\ Cardinality(Redemptions(c)') <= uses'[c]
    BY <2>2, <2>5, <2>6, <2>8, ConstantsOK
  <2>10. \A d \in Codes :
           /\ IsFiniteSet(Redemptions(d)')
           /\ uses'[d] <= MaxUses
           /\ Cardinality(Redemptions(d)') <= uses'[d]
    <3>1. ASSUME NEW d \in Codes, d # c
          PROVE  /\ IsFiniteSet(Redemptions(d)')
                 /\ uses'[d] <= MaxUses
                 /\ Cardinality(Redemptions(d)') <= uses'[d]
      <4>1. Redemptions(d)' = Redemptions(d) /\ uses'[d] = uses[d]
        BY <3>1, <2>6, <2>7
      <4>2. QED
        BY <4>1 DEF PromoInv, PromoWithinLimit
    <3>2. QED
      BY <3>1, <2>5, <2>9
  <2>11. QED
    BY <2>10 DEF PromoInv, PromoWithinLimit
<1>3. ASSUME NEW p \in Procs, DeleteUser(p)
      PROVE  PromoInv'
  <2>1. UNCHANGED uses /\ redeemed' \subseteq redeemed
    BY <1>3 DEF DeleteUser
  <2>2. ASSUME NEW d \in Codes
        PROVE  /\ IsFiniteSet(Redemptions(d)')
               /\ uses'[d] <= MaxUses
               /\ Cardinality(Redemptions(d)') <= uses'[d]
    <3>1. Redemptions(d)' \subseteq Redemptions(d)
      BY <2>1 DEF Redemptions
    <3>2. IsFiniteSet(Redemptions(d))
      BY DEF PromoInv
    <3>3. /\ IsFiniteSet(Redemptions(d)')
          /\ Cardinality(Redemptions(d)') <= Cardinality(Redemptions(d))
      BY <3>1, <3>2, FS_Subset
    <3>4. Cardinality(Redemptions(d)) \in Nat /\ Cardinality(Redemptions(d)') \in Nat
      BY <3>2, <3>3, FS_CardinalityType
    <3>5. uses[d] \in Nat /\ uses[d] <= MaxUses /\ Cardinality(Redemptions(d)) <= uses[d]
      BY DEF PromoInv, PromoWithinLimit, IInv, TypeOK
    <3>6. QED
      BY <2>1, <3>3, <3>4, <3>5
  <2>3. QED
    BY <2>2 DEF PromoInv, PromoWithinLimit
<1>4. ASSUME NEW p \in Procs, Step(p), ~Redeem(p), ~DeleteUser(p)
      PROVE  UNCHANGED promoVars
  BY <1>4 DEF Step, LockCode, RefuseCode, LockUser, NoSuchUser, Rollback, Abort, AddShards,
     RemoveShards, PayReferrer, PurchaseRoom, ExtendRoom, CloseSharedSession,
     ChargeSharedSession, ChargeRemainder, DeleteDependants
<1>5. (\E p \in Procs : Redeem(p) \/ DeleteUser(p)) \/ UNCHANGED promoVars
  BY <1>4 DEF Next, Register, BeginRequest, BeginReferral, Begin, Crash, Quiescent, vars
<1>6. QED
  BY <1>1, <1>2, <1>3, <1>5

\* No promo code is redeemed more often than max_uses, for any number of users
\* redeeming it at the same time.
THEOREM CodesAreLimited == Spec => []PromoWithinLimit
<1>1. Init => PromoInv
  <2> SUFFICES ASSUME Init PROVE PromoInv
    OBVIOUS
  <2>1. \A c \in Codes : Redemptions(c) = {} /\ uses[c] = 0
    BY DEF Init, Redemptions
  <2>2. QED
    BY <2>1, FS_EmptySet DEF PromoInv, PromoWithinLimit
<1>2. IInv /\ PromoInv /\ [Next]_vars => PromoInv'
  BY PromoStep
<1>3. PromoInv => PromoWithinLimit
  BY DEF PromoInv
<1>4. QED
  BY <1>1, <1>2, <1>3, Invariance, PTL DEF Spec


-----------------------------------------------------------------------------
(* The limit on balances *)

LEMMA BalanceChanges ==
  ASSUME IInv, [Next]_vars
  PROVE  \/ UNCHANGED <<balance, ledger>>
         \/ \E p \in Procs : Posted(p) \/ DeleteUser(p)
<1>1. ASSUME NEW p \in Procs, Step(p)
      PROVE  UNCHANGED accountVars \/ Posted(p) \/ DeleteUser(p)
  <2>1. CASE LockCode(p) \/ LockUser(p) \/ DeleteDependants(p)
    BY <2>1 DEF LockCode, LockUser, DeleteDependants
  <2>2. CASE RefuseCode(p) \/ NoSuchUser(p) \/ Rollback(p)
    BY <2>2 DEF RefuseCode, NoSuchUser, Rollback, Abort
  <2>3. QED
    BY <1>1, <2>1, <2>2, PostingSteps DEF Step
<1>2. CASE Next
  BY <1>1, <1>2 DEF Next, Register, BeginRequest, BeginReferral, Begin, Crash, Quiescent,
     accountVars, vars
<1>3. QED
  BY <1>2 DEF vars, accountVars

LEMMA CountReferralRows ==
  ASSUME IInv, NEW u \in Users
  PROVE  IsFiniteSet(ReferralRows(u)) /\ Cardinality(ReferralRows(u)) \in Nat
<1>1. Len(ledger[u]) \in Nat
  BY DEF IInv, TypeOK, Accts!TypeOK
<1>2. IsFiniteSet(1..Len(ledger[u]))
  BY <1>1, FS_Interval
<1>3. ReferralRows(u) \subseteq 1..Len(ledger[u])
  BY DEF ReferralRows
<1>4. QED
  BY <1>2, <1>3, FS_Subset, FS_CardinalityType

LEMMA Products ==
  ASSUME NEW a \in Nat, NEW k \in Nat
  PROVE  a * k \in Nat /\ a * (k + 1) = a * k + a
  OBVIOUS

LEMMA CapStep ==
  ASSUME IInv, CappedExceptReferrals, [Next]_vars
  PROVE  CappedExceptReferrals'
<1> DEFINE Rows(u) == ReferralRows(u)
           Cap(u) == MaxShardBalance + ReferralAmount * Cardinality(Rows(u))
<1>1. SUFFICES ASSUME NEW v \in Users
               PROVE  balance'[v] <= MaxShardBalance + ReferralAmount * Cardinality(Rows(v)')
  BY DEF CappedExceptReferrals
<1>2. /\ IsFiniteSet(Rows(v)) /\ Cardinality(Rows(v)) \in Nat
      /\ balance[v] \in Nat /\ balance[v] <= Cap(v)
      /\ ReferralAmount * Cardinality(Rows(v)) \in Nat
  BY CountReferralRows, Products DEF CappedExceptReferrals, IInv, TypeOK, Accts!TypeOK
<1>3. ASSUME balance'[v] = balance[v], ledger'[v] = ledger[v]
      PROVE  balance'[v] <= MaxShardBalance + ReferralAmount * Cardinality(Rows(v)')
  <2>1. Rows(v)' = Rows(v)
    BY <1>3 DEF ReferralRows
  <2>2. QED
    BY <1>2, <1>3, <2>1
<1>4. ASSUME NEW p \in Procs, Posted(p)
      PROVE  balance'[v] <= MaxShardBalance + ReferralAmount * Cardinality(Rows(v)')
  <2> DEFINE u == req[p].user
             n == Len(ledger[u])
  <2>1. PICK e \in Accts!Entry :
          /\ pc[p] = "hold"
          /\ balance' = [balance EXCEPT ![u] = e.after]
          /\ ledger' = [ledger EXCEPT ![u] = Append(@, e)]
          /\ RowAgrees(p, e)
    BY <1>4 DEF Posted
  <2>2. u \in Users /\ seen[p] = balance[u]
    BY <2>1, RequestTypes DEF IInv, LockDiscipline
  <2>3. CASE v # u
    BY <2>1, <2>3, <1>3 DEF IInv, TypeOK, Accts!TypeOK
  <2>4. CASE v = u
    <3>1. /\ balance'[v] = e.after /\ e.after \in Nat
          /\ ledger[v] \in Seq(Accts!Entry)
          /\ ledger'[v] = Append(ledger[v], e)
      BY <2>1, <2>2, <2>4 DEF IInv, TypeOK, Accts!TypeOK, Accts!Entry
    <3>2. CASE e.type = "referral_bonus"
      <4> DEFINE T == Rows(v) \cup {Len(ledger[v]) + 1}
      <4>1. Rows(v)' = T
        BY <3>1, <3>2 DEF ReferralRows
      <4>2. Len(ledger[v]) + 1 \notin Rows(v)
        BY <3>1 DEF ReferralRows
      <4>3. Cardinality(T) = Cardinality(Rows(v)) + 1
        BY <1>2, <4>2, FS_AddElement
      <4> HIDE DEF T
      <4>4. Cardinality(Rows(v)') = Cardinality(Rows(v)) + 1
        BY <4>1, <4>3
      <4>5. e.after = balance[v] + ReferralAmount
        BY <2>1, <2>2, <2>4, <3>2 DEF RowAgrees
      <4> DEFINE k == Cardinality(Rows(v))
      <4>6. ReferralAmount * (k + 1) = ReferralAmount * k + ReferralAmount
        BY <1>2, Products
      <4>7. balance[v] <= MaxShardBalance + ReferralAmount * k
        BY <1>2
      <4>8. k \in Nat /\ ReferralAmount * k \in Nat /\ balance[v] \in Nat
        BY <1>2
      <4>9. Cardinality(Rows(v)') = k + 1
        BY <4>4
      <4> HIDE DEF k, Rows
      <4>10. QED
        BY <3>1, <4>5, <4>6, <4>7, <4>8, <4>9
    <3>3. CASE e.type # "referral_bonus"
      <4>1. Rows(v)' = Rows(v)
        BY <3>1, <3>3 DEF ReferralRows
      <4>2. e.after <= balance[v] \/ e.after <= MaxShardBalance
        BY <2>1, <2>2, <2>4, <3>3 DEF RowAgrees
      <4>3. QED
        BY <1>2, <3>1, <4>1, <4>2
    <3>4. QED
      BY <3>2, <3>3
  <2>5. QED
    BY <2>3, <2>4
<1>5. ASSUME NEW p \in Procs, DeleteUser(p)
      PROVE  balance'[v] <= MaxShardBalance + ReferralAmount * Cardinality(Rows(v)')
  <2>1. CASE v # req[p].user
    BY <1>3, <1>5, <2>1 DEF DeleteUser, IInv, TypeOK, Accts!TypeOK
  <2>2. CASE v = req[p].user
    <3>1. balance'[v] = 0 /\ ledger'[v] = <<>>
      BY <1>5, <2>2 DEF DeleteUser, IInv, TypeOK, Accts!TypeOK
    <3>2. Rows(v)' = {}
      BY <3>1 DEF ReferralRows
    <3>3. Cardinality(Rows(v)') = 0
      BY <3>2, FS_EmptySet
    <3>4. QED
      BY <3>1, <3>3
  <2>3. QED
    BY <2>1, <2>2
<1>6. QED
  BY <1>3, <1>4, <1>5, BalanceChanges

\* Only referral bonuses take a balance beyond the limit, each by its amount,
\* however many transactions add to it at the same time.
THEOREM BalancesAreCapped == Spec => []CappedExceptReferrals
<1>1. Init => CappedExceptReferrals
  <2> SUFFICES ASSUME Init, NEW u \in Users
               PROVE  balance[u] <= MaxShardBalance + ReferralAmount * Cardinality(ReferralRows(u))
    BY DEF CappedExceptReferrals
  <2>1. balance[u] = 0 /\ ReferralRows(u) = {}
    BY DEF Init, Accts!Init, ReferralRows
  <2>2. Cardinality(ReferralRows(u)) = 0
    BY <2>1, FS_EmptySet
  <2>3. QED
    BY <2>1, <2>2
<1>2. IInv /\ CappedExceptReferrals /\ [Next]_vars => CappedExceptReferrals'
  BY CapStep
<1>3. QED
  BY <1>1, <1>2, Invariance, PTL DEF Spec

-----------------------------------------------------------------------------
(* Rewards *)

\* A bonus is on its way from the registration of v to its referrer u in one of
\* three forms, one after the other: the goroutine has not begun, a transaction
\* is paying it, the row is committed.
Owed(v, u) == <<v, u>> \in bonusDue
Paying(p, v, u) ==
  pc[p] # "idle" /\ req[p].kind = "referral" /\ req[p].ref = v /\ req[p].user = u
PaidRow(v, u) ==
  \E i \in 1..Len(ledger[u]) :
    ledger[u][i].type = "referral_bonus" /\ ledger[u][i].ref = v

OneBonus(v, u) ==
  /\ account[v] = "absent" =>
       ~Owed(v, u) /\ ~PaidRow(v, u) /\ \A p \in Procs : ~Paying(p, v, u)
  /\ Owed(v, u) => ~PaidRow(v, u) /\ \A p \in Procs : ~Paying(p, v, u)
  /\ \A p, q \in Procs : Paying(p, v, u) =>
       ~PaidRow(v, u) /\ (Paying(q, v, u) => q = p)

\* A redemption is recorded as long as the history that shows it.
PromoRecorded ==
  \A u \in Users : \A i \in 1..Len(ledger[u]) :
    ledger[u][i].type = "promo_redeem" => <<ledger[u][i].ref, u>> \in redeemed

BonusInv ==
  /\ BonusPaidOnce
  /\ PromoRecorded
  /\ \A v, u \in Users : OneBonus(v, u)

\* Steps that write no row: bonuses only move along, or are dropped.
LEMMA KeepsBonus ==
  ASSUME BonusInv,
         \A v \in Users : account'[v] = "absent" => account[v] = "absent",
         \A v \in Users : ledger'[v] = ledger[v] \/ ledger'[v] = <<>>,
         bonusDue' \subseteq bonusDue,
         \A v, u \in Users, p \in Procs : Paying(p, v, u)' => Paying(p, v, u),
         \A c, u : <<c, u>> \in redeemed /\ ledger'[u] # <<>> => <<c, u>> \in redeemed'
  PROVE  BonusInv'
<1>1. BonusPaidOnce'
  BY DEF BonusInv, BonusPaidOnce
<1>2. PromoRecorded'
  BY DEF BonusInv, PromoRecorded
<1>3. ASSUME NEW v \in Users, NEW u \in Users
      PROVE  OneBonus(v, u)'
  <2>1. PaidRow(v, u)' => PaidRow(v, u)
    BY DEF PaidRow
  <2>2. Owed(v, u)' => Owed(v, u)
    BY DEF Owed
  <2>3. \A p \in Procs : Paying(p, v, u)' => Paying(p, v, u)
    OBVIOUS
  <2>4. account'[v] = "absent" => account[v] = "absent"
    OBVIOUS
  <2>5. QED
    BY <2>1, <2>2, <2>3, <2>4 DEF BonusInv, OneBonus
<1>4. QED
  BY <1>1, <1>2, <1>3 DEF BonusInv

\* A row is written: the bonus that was being paid is paid, and no other.
LEMMA PostKeepsBonus ==
  ASSUME IInv, BonusInv, NEW p \in Procs, Posted(p), UNCHANGED bonusDue
  PROVE  BonusInv'
<1> DEFINE u == req[p].user
           n == Len(ledger[u])
<1>1. PICK e \in Accts!Entry :
        /\ pc[p] = "hold"
        /\ ledger' = [ledger EXCEPT ![u] = Append(@, e)]
        /\ Finish(p)
        /\ UNCHANGED account
        /\ RowAgrees(p, e)
  BY DEF Posted
<1>2. u \in Users /\ ledger[u] \in Seq(Accts!Entry) /\ n \in Nat
  <2>1. u \in Users
    BY <1>1, RequestTypes
  <2>2. ledger[u] \in Seq(Accts!Entry)
    BY <2>1 DEF IInv, TypeOK, Accts!TypeOK
  <2>3. QED
    BY <2>1, <2>2
<1>3. /\ Len(ledger'[u]) = n + 1
      /\ ledger'[u][n + 1] = e
      /\ \A i \in 1..n : ledger'[u][i] = ledger[u][i]
      /\ \A w \in Users \ {u} : ledger'[w] = ledger[w]
  <2>1. ledger'[u] = Append(ledger[u], e) /\ \A w \in Users \ {u} : ledger'[w] = ledger[w]
    BY <1>1, <1>2 DEF IInv, TypeOK, Accts!TypeOK
  <2>2. QED
    BY <1>2, <2>1
<1>4. e.type = "referral_bonus" => e.ref \in Users /\ Paying(p, e.ref, u)
  BY <1>1, RequestTypes DEF RowAgrees, Paying
<1>5. /\ redeemed \subseteq redeemed'
      /\ e.type = "promo_redeem" => <<e.ref, u>> \notin redeemed /\ <<e.ref, u>> \in redeemed'
  BY <1>1 DEF RowAgrees
<1>6. e.type = "referral_bonus" => ~PaidRow(e.ref, u)
  BY <1>2, <1>4 DEF BonusInv, OneBonus
<1>7. ASSUME NEW i \in 1..n, e.type \in {"promo_redeem", "referral_bonus"},
             ledger[u][i].type = e.type
      PROVE  ledger[u][i].ref # e.ref
  <2>1. CASE e.type = "promo_redeem"
    BY <1>2, <1>5, <1>7, <2>1 DEF BonusInv, PromoRecorded
  <2>2. CASE e.type = "referral_bonus"
    BY <1>6, <1>7, <2>2 DEF PaidRow
  <2>3. QED
    BY <1>7, <2>1, <2>2
<1> HIDE DEF n
<1>8. BonusPaidOnce'
  <2>1. ASSUME NEW w \in Users, NEW i \in 1..Len(ledger'[w]), NEW j \in 1..Len(ledger'[w]),
               i # j,
               ledger'[w][i].type \in {"promo_redeem", "referral_bonus"},
               ledger'[w][j].type = ledger'[w][i].type
        PROVE  ledger'[w][i].ref # ledger'[w][j].ref
    <3>1. CASE w # u
      BY <2>1, <3>1, <1>3 DEF BonusInv, BonusPaidOnce
    <3>2. CASE w = u /\ i \in 1..n /\ j \in 1..n
      <4>1. ledger'[w][i] = ledger[w][i] /\ ledger'[w][j] = ledger[w][j]
        BY <3>2, <1>3
      <4>2. i \in 1..Len(ledger[w]) /\ j \in 1..Len(ledger[w])
        BY <3>2 DEF n
      <4>3. QED
        BY <2>1, <4>1, <4>2 DEF BonusInv, BonusPaidOnce
    <3>3. CASE w = u /\ i = n + 1 /\ j \in 1..n
      BY <2>1, <3>3, <1>3, <1>7
    <3>4. CASE w = u /\ j = n + 1 /\ i \in 1..n
      BY <2>1, <3>4, <1>3, <1>7
    <3>5. w = u => i \in 1..n \cup {n + 1} /\ j \in 1..n \cup {n + 1}
      BY <1>2, <1>3
    <3>6. QED
      BY <2>1, <3>1, <3>2, <3>3, <3>4, <3>5
  <2>2. QED
    BY <2>1 DEF BonusPaidOnce
<1>9. PromoRecorded'
  <2>1. ASSUME NEW w \in Users, NEW i \in 1..Len(ledger'[w]),
               ledger'[w][i].type = "promo_redeem"
        PROVE  <<ledger'[w][i].ref, w>> \in redeemed'
    <3>1. CASE w # u
      BY <2>1, <3>1, <1>3, <1>5 DEF BonusInv, PromoRecorded
    <3>2. CASE w = u /\ i \in 1..n
      BY <2>1, <3>2, <1>3, <1>5 DEF BonusInv, PromoRecorded, n
    <3>3. CASE w = u /\ i = n + 1
      BY <2>1, <3>3, <1>3, <1>5
    <3>4. w = u => i \in 1..n \cup {n + 1}
      BY <1>2, <1>3
    <3>5. QED
      BY <3>1, <3>2, <3>3, <3>4
  <2>2. QED
    BY <2>1 DEF PromoRecorded
<1>10. ASSUME NEW v \in Users, NEW w \in Users
       PROVE  OneBonus(v, w)'
  <2>1. \A q \in Procs : Paying(q, v, w)' => Paying(q, v, w) /\ q # p
    BY <1>1 DEF Finish, Paying, IInv, TypeOK
  <2>2. Owed(v, w)' <=> Owed(v, w)
    BY DEF Owed
  <2>3. PaidRow(v, w)' => PaidRow(v, w) \/ Paying(p, v, w)
    <3>1. ASSUME NEW i \in 1..Len(ledger'[w]),
                 ledger'[w][i].type = "referral_bonus", ledger'[w][i].ref = v
          PROVE  PaidRow(v, w) \/ Paying(p, v, w)
      <4>1. CASE w # u
        BY <3>1, <4>1, <1>3 DEF PaidRow
      <4>2. CASE w = u /\ i \in 1..n
        BY <3>1, <4>2, <1>3 DEF PaidRow, n
      <4>3. CASE w = u /\ i = n + 1
        BY <3>1, <4>3, <1>3, <1>4
      <4>4. w = u => i \in 1..n \cup {n + 1}
        BY <1>2, <1>3
      <4>5. QED
        BY <4>1, <4>2, <4>3, <4>4
    <3>2. QED
      BY <3>1 DEF PaidRow
  <2>4. OneBonus(v, w) /\ UNCHANGED account
    BY <1>1 DEF BonusInv
  <2>5. QED
    BY <2>1, <2>2, <2>3, <2>4 DEF OneBonus
<1>11. QED
  BY <1>8, <1>9, <1>10 DEF BonusInv

LEMMA RegisterKeepsBonus ==
  ASSUME IInv, BonusInv,
         NEW x \in Users, NEW referrer \in Users \cup {NoUser}, Register(x, referrer)
  PROVE  BonusInv'
<1>1. BonusPaidOnce' /\ PromoRecorded'
  BY DEF Register, promoVars, BonusInv, BonusPaidOnce, PromoRecorded
<1>2. ASSUME NEW v \in Users, NEW u \in Users
      PROVE  OneBonus(v, u)'
  <2>1. OneBonus(v, u)
    BY DEF BonusInv
  <2>2. /\ PaidRow(v, u)' <=> PaidRow(v, u)
        /\ \A p \in Procs : Paying(p, v, u)' <=> Paying(p, v, u)
    BY DEF Register, txVars, PaidRow, Paying
  <2>3. Owed(v, u)' => Owed(v, u) \/ v = x
    BY DEF Register, Owed
  <2>4. /\ account[x] = "absent"
        /\ account'[v] = IF v = x THEN "open" ELSE account[v]
    BY DEF Register, IInv, TypeOK, Accts!TypeOK
  <2>5. QED
    BY <2>1, <2>2, <2>3, <2>4 DEF OneBonus
<1>3. QED
  BY <1>1, <1>2 DEF BonusInv

LEMMA ReferralKeepsBonus ==
  ASSUME IInv, BonusInv, NEW p \in Procs, NEW x \in Users, NEW referrer \in Users,
         BeginReferral(p, x, referrer)
  PROVE  BonusInv'
<1>1. UNCHANGED <<accountVars, promoVars>>
  BY DEF BeginReferral, Begin
<1>2. BonusPaidOnce' /\ PromoRecorded'
  BY <1>1 DEF accountVars, promoVars, BonusInv, BonusPaidOnce, PromoRecorded
<1>3. ASSUME NEW v \in Users, NEW u \in Users
      PROVE  OneBonus(v, u)'
  <2>1. OneBonus(v, u)
    BY DEF BonusInv
  <2>2. PaidRow(v, u)' <=> PaidRow(v, u)
    BY <1>1 DEF accountVars, PaidRow
  <2>3. /\ \A q \in Procs \ {p} : Paying(q, v, u)' <=> Paying(q, v, u)
        /\ Paying(p, v, u)' => v = x /\ u = referrer
        /\ ~Paying(p, v, u)
    BY DEF BeginReferral, Begin, Paying, IInv, TypeOK
  <2>4. /\ Owed(x, referrer)
        /\ Owed(v, u)' => Owed(v, u) /\ ~(v = x /\ u = referrer)
    BY DEF BeginReferral, Owed
  <2>5. account' = account
    BY <1>1 DEF accountVars
  <2>6. CASE v = x /\ u = referrer
    BY <2>1, <2>2, <2>3, <2>4, <2>5, <2>6 DEF OneBonus
  <2>7. CASE ~(v = x /\ u = referrer)
    BY <2>1, <2>2, <2>3, <2>4, <2>5, <2>7 DEF OneBonus
  <2>8. QED
    BY <2>6, <2>7
<1>4. QED
  BY <1>2, <1>3 DEF BonusInv

LEMMA BonusStep ==
  ASSUME IInv, BonusInv, [Next]_vars
  PROVE  BonusInv'
<1>1. CASE UNCHANGED vars
  BY <1>1, KeepsBonus DEF vars, accountVars, promoVars, referralVars, txVars, Paying
<1>2. ASSUME NEW p \in Procs, NEW r \in ClientRequests, BeginRequest(p, r)
      PROVE  BonusInv'
  <2>1. r.kind # "referral"
    BY DEF ClientRequests
  <2>2. \A v, u \in Users, q \in Procs : Paying(q, v, u)' => Paying(q, v, u)
    BY <1>2, <2>1 DEF BeginRequest, Begin, Paying, IInv, TypeOK
  <2>3. UNCHANGED <<accountVars, promoVars, referralVars>>
    BY <1>2 DEF BeginRequest, Begin
  <2>4. QED
    BY <2>2, <2>3, KeepsBonus DEF accountVars, promoVars, referralVars
<1>3. ASSUME NEW p \in Procs, Finish(p)
      PROVE  \A v, u \in Users, q \in Procs : Paying(q, v, u)' => Paying(q, v, u)
  BY <1>3 DEF Finish, Paying, IInv, TypeOK
<1>4. ASSUME NEW p \in Procs, Step(p)
      PROVE  BonusInv'
  <2>1. CASE LockCode(p) \/ LockUser(p) \/ DeleteDependants(p)
    <3>1. \A v, u \in Users, q \in Procs : Paying(q, v, u)' => Paying(q, v, u)
      BY <2>1 DEF LockCode, LockUser, DeleteDependants, Paying, IInv, TypeOK
    <3>2. UNCHANGED <<accountVars, promoVars, referralVars>>
      BY <2>1 DEF LockCode, LockUser, DeleteDependants
    <3>3. QED
      BY <3>1, <3>2, KeepsBonus DEF accountVars, promoVars, referralVars
  <2>2. CASE RefuseCode(p) \/ NoSuchUser(p) \/ Rollback(p)
    <3>1. Finish(p) /\ UNCHANGED <<accountVars, promoVars, referralVars>>
      BY <2>2 DEF RefuseCode, NoSuchUser, Rollback, Abort
    <3>2. QED
      BY <3>1, <1>3, KeepsBonus DEF accountVars, promoVars, referralVars
  <2>3. CASE \/ AddShards(p) \/ RemoveShards(p) \/ Redeem(p) \/ PayReferrer(p)
             \/ PurchaseRoom(p) \/ ExtendRoom(p) \/ CloseSharedSession(p)
             \/ ChargeSharedSession(p) \/ ChargeRemainder(p)
    <3>1. UNCHANGED referralVars /\ (Redeem(p) \/ UNCHANGED promoVars)
      BY <2>3 DEF AddShards, RemoveShards, Redeem, PayReferrer, PurchaseRoom, ExtendRoom,
         CloseSharedSession, ChargeSharedSession, ChargeRemainder
    <3>2. redeemed \subseteq redeemed'
      BY <3>1 DEF Redeem, promoVars
    <3>3. CASE Posted(p)
      BY <3>1, <3>3, PostKeepsBonus DEF referralVars
    <3>4. CASE Finish(p) /\ UNCHANGED accountVars
      BY <3>1, <3>2, <3>4, <1>3, KeepsBonus DEF accountVars, referralVars
    <3>5. QED
      BY <2>3, <3>3, <3>4, PostingSteps
  <2>4. CASE DeleteUser(p)
    <3> DEFINE x == req[p].user
    <3>1. /\ Finish(p)
          /\ x \in Users
          /\ account' = [account EXCEPT ![x] = "deleted"]
          /\ ledger' = [ledger EXCEPT ![x] = <<>>]
          /\ redeemed' = {r \in redeemed : r[2] # x}
          /\ UNCHANGED bonusDue
      BY <2>4, RequestTypes DEF DeleteUser
    <3> HIDE DEF x
    <3>2. \A v \in Users : account'[v] = "absent" => account[v] = "absent"
      BY <3>1 DEF IInv, TypeOK, Accts!TypeOK
    <3>3. \A v \in Users : ledger'[v] = ledger[v] \/ ledger'[v] = <<>>
      BY <3>1 DEF IInv, TypeOK, Accts!TypeOK
    <3>4. \A c, u : <<c, u>> \in redeemed /\ ledger'[u] # <<>> => <<c, u>> \in redeemed'
      BY <3>1 DEF IInv, TypeOK, Accts!TypeOK
    <3>5. QED
      BY <3>1, <3>2, <3>3, <3>4, <1>3, KeepsBonus
  <2>5. QED
    BY <1>4, <2>1, <2>2, <2>3, <2>4 DEF Step
<1>5. CASE Crash
  <2>1. \A v, u \in Users, q \in Procs : ~Paying(q, v, u)'
    BY <1>5 DEF Crash, Paying
  <2>2. QED
    BY <1>5, <2>1, KeepsBonus DEF Crash, accountVars, promoVars
<1>6. QED
  BY <1>1, <1>2, <1>4, <1>5, RegisterKeepsBonus, ReferralKeepsBonus DEF Next, Quiescent

\* No code pays a user twice and no registration pays its referrer twice,
\* whatever transactions run, fail or are cut off by a restart.
THEOREM RewardsArePaidOnce == Spec => []BonusPaidOnce
<1>1. Init => BonusInv
  <2> SUFFICES ASSUME Init PROVE BonusInv
    OBVIOUS
  <2>1. \A u \in Users : ledger[u] = <<>>
    BY DEF Init, Accts!Init
  <2>2. BonusPaidOnce /\ PromoRecorded
    BY <2>1 DEF BonusPaidOnce, PromoRecorded
  <2>3. \A v, u \in Users : OneBonus(v, u)
    BY <2>1 DEF Init, OneBonus, Owed, Paying, PaidRow
  <2>4. QED
    BY <2>2, <2>3 DEF BonusInv
<1>2. IInv /\ BonusInv /\ [Next]_vars => BonusInv'
  BY BonusStep
<1>3. BonusInv => BonusPaidOnce
  BY DEF BonusInv
<1>4. QED
  BY <1>1, <1>2, <1>3, Invariance, PTL DEF Spec

-----------------------------------------------------------------------------
(* Waiting *)

\* p waits for a row that q has locked.
WaitsFor(p, q) ==
  \/ pc[p] = "code" /\ codeLock[req[p].ref] = q
  \/ pc[p] \in {"user", "clean"} /\ userLock[req[p].user] = q

\* How far a transaction is along the order in which rows are locked.
Rank(p) ==
  CASE pc[p] = "code" -> 0
    [] pc[p] \in {"user", "clean"} -> 1
    [] OTHER -> 2

\* A locked row has a holder that is still at work on it: no lock outlives its
\* transaction.
LocksHaveHolders ==
  /\ \A u \in Users : userLock[u] # NoProc =>
       pc[userLock[u]] = "hold" /\ req[userLock[u]].user = u
  /\ \A c \in Codes : codeLock[c] # NoProc =>
       /\ pc[codeLock[c]] \in {"user", "hold"}
       /\ req[codeLock[c]].kind = "redeem"
       /\ req[codeLock[c]].ref = c

\* Whoever is waited for is further along than whoever waits, and whoever is
\* furthest along waits for nobody: transactions never wait in a circle.
WaitsAreOrdered ==
  \A p, q \in Procs : WaitsFor(p, q) => Rank(p) < Rank(q)

LEMMA LocksStep ==
  ASSUME IInv, LocksHaveHolders, [Next]_vars
  PROVE  LocksHaveHolders'
<1>1. \A p \in Procs : p # NoProc
  BY ConstantsOK
<1>2. CASE UNCHANGED vars
  BY <1>2 DEF vars, lockVars, txVars, LocksHaveHolders
<1>3. ASSUME NEW p \in Procs, NEW r, Begin(p, r)
      PROVE  LocksHaveHolders'
  BY <1>3 DEF Begin, lockVars, LocksHaveHolders, IInv, TypeOK
<1>4. ASSUME NEW p \in Procs, Finish(p)
      PROVE  LocksHaveHolders'
  BY <1>4 DEF Finish, LocksHaveHolders, IInv, TypeOK
<1>5. ASSUME NEW p \in Procs, LockCode(p)
      PROVE  LocksHaveHolders'
  <2>1. req[p].kind = "redeem"
    BY <1>5 DEF LockCode, IInv, TxOK, Busy
  <2>2. QED
    BY <1>1, <1>5, <2>1 DEF LockCode, LocksHaveHolders, IInv, TypeOK
<1>6. ASSUME NEW p \in Procs, LockUser(p)
      PROVE  LocksHaveHolders'
  BY <1>1, <1>6 DEF LockUser, LocksHaveHolders, IInv, TypeOK
<1>7. ASSUME NEW p \in Procs, DeleteDependants(p)
      PROVE  LocksHaveHolders'
  BY <1>7 DEF DeleteDependants, lockVars, LocksHaveHolders, IInv, TypeOK
<1>8. ASSUME NEW p \in Procs, Step(p)
      PROVE  LocksHaveHolders'
  <2>1. CASE RefuseCode(p) \/ NoSuchUser(p) \/ Rollback(p) \/ DeleteUser(p)
    BY <2>1, <1>4 DEF RefuseCode, NoSuchUser, Rollback, Abort, DeleteUser
  <2>2. CASE \/ AddShards(p) \/ RemoveShards(p) \/ Redeem(p) \/ PayReferrer(p)
             \/ PurchaseRoom(p) \/ ExtendRoom(p) \/ CloseSharedSession(p)
             \/ ChargeSharedSession(p) \/ ChargeRemainder(p)
    BY <2>2, <1>4, PostingSteps DEF Posted
  <2>3. QED
    BY <1>5, <1>6, <1>7, <1>8, <2>1, <2>2 DEF Step
<1>9. CASE Crash
  BY <1>9 DEF Crash, LocksHaveHolders
<1>10. ASSUME NEW u \in Users, NEW referrer \in Users \cup {NoUser}, Register(u, referrer)
       PROVE  LocksHaveHolders'
  BY <1>10 DEF Register, lockVars, txVars, LocksHaveHolders
<1>11. QED
  BY <1>2, <1>3, <1>8, <1>9, <1>10 DEF Next, BeginRequest, BeginReferral, Quiescent

LEMMA OrderedWaits ==
  ASSUME IInv, LocksHaveHolders
  PROVE  WaitsAreOrdered
<1> SUFFICES ASSUME NEW p \in Procs, NEW q \in Procs, WaitsFor(p, q)
             PROVE  Rank(p) < Rank(q)
  BY DEF WaitsAreOrdered
<1>1. q # NoProc
  BY ConstantsOK
<1>2. CASE pc[p] = "code" /\ codeLock[req[p].ref] = q
  <2>1. req[p].ref \in Codes
    BY <1>2, RequestTypes DEF IInv, TxOK, Busy
  <2>2. pc[q] \in {"user", "hold"}
    BY <1>1, <1>2, <2>1 DEF LocksHaveHolders
  <2>3. QED
    BY <1>2, <2>2 DEF Rank
<1>3. CASE pc[p] \in {"user", "clean"} /\ userLock[req[p].user] = q
  <2>1. req[p].user \in Users
    BY <1>3, RequestTypes
  <2>2. pc[q] = "hold"
    BY <1>1, <1>3, <2>1 DEF LocksHaveHolders
  <2>3. QED
    BY <1>3, <2>2 DEF Rank
<1>4. QED
  BY <1>2, <1>3 DEF WaitsFor

\* A locked row always has a transaction at work on it, and whoever waits for a
\* row waits for a transaction that is further along: no deadlock between the
\* two kinds of row locks, for any number of transactions.  RequestsFinish rests
\* on it.
THEOREM NoCircularWait == Spec => [](LocksHaveHolders /\ WaitsAreOrdered)
<1>1. Init => LocksHaveHolders
  BY DEF Init, LocksHaveHolders
<1>2. IInv /\ LocksHaveHolders /\ [Next]_vars => LocksHaveHolders'
  BY LocksStep
<1>3. IInv /\ LocksHaveHolders => WaitsAreOrdered
  BY OrderedWaits
<1>4. QED
  BY <1>1, <1>2, <1>3, Invariance, PTL DEF Spec

=============================================================================
