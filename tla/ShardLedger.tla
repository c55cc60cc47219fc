----------------------------- MODULE ShardLedger ------------------------------
(***************************************************************************)
(* The shard economy of the control plane: every handler and goroutine     *)
(* that changes users.shard_balance, as the PostgreSQL transaction it      *)
(* runs.                                                                   *)
(*                                                                         *)
(* All of them have the same shape: BEGIN, SELECT shard_balance ... FOR    *)
(* UPDATE (waits for the row lock, then reads the committed value), some   *)
(* checks, UPDATE users, INSERT INTO shard_transactions, COMMIT.  What a   *)
(* transaction wrote is invisible to the others until it commits, so the   *)
(* writes and the commit are one action here; the lock and the value read  *)
(* under it are a step of their own.  Redeem locks the promo_codes row     *)
(* before the users row.  DeleteUser deletes the user's rows table by      *)
(* table and only touches the users row last.                              *)
(*                                                                         *)
(* A process p stands for one transaction's goroutine; a request is what   *)
(* it was asked to do.  Prices and charges are any of Amounts: what sets   *)
(* them (slots, hours) is not the ledger's business.                       *)
(***************************************************************************)
EXTENDS Integers, Sequences, FiniteSets

CONSTANTS
  Users,            \* ids of users, issued once (SERIAL)
  Codes,            \* promo codes created by the administrator
  Procs,            \* goroutines running a transaction
  NoUser,           \* referred_by IS NULL
  NoProc,           \* the row is not locked
  NoRef,            \* the shard_transactions row names nobody
  NoRequest,        \* an idle goroutine
  Kinds,            \* the requests that are made, a subset of AllKinds
  Amounts,          \* amounts, prices and charges
  MaxUses,          \* promo_codes.max_uses
  MaxShardBalance,  \* the limit of AddShards and Redeem (999_999_999)
  ReferralAmount,   \* the referral bonus (10000)
  MaxRows           \* bound of the model: rows of one user, written or begun

AllKinds == {"topup", "removal", "redeem", "referral", "purchase", "extend",
             "leave", "billing", "delete"}

Refs == Users \cup Codes \cup {NoRef}

Requests == [kind : Kinds \ {"referral"}, user : Users,
             amount : Amounts, ref : Codes \cup {NoRef}]
            \cup [kind : {"referral"}, user : Users,
                  amount : {ReferralAmount}, ref : Users]

\* The requests a client can make: only Redeem names a code.
ClientRequests ==
  {r \in Requests : r.kind # "referral" /\ (r.kind = "redeem" <=> r.ref # NoRef)}

ASSUME ConstantsOK ==
  /\ NoProc \notin Procs
  /\ NoUser \notin Users
  /\ NoRequest \notin Requests
  /\ Kinds \subseteq AllKinds
  /\ Amounts \subseteq Nat \ {0}
  /\ MaxUses \in Nat \ {0}
  /\ MaxShardBalance \in Nat
  /\ ReferralAmount \in Nat
  /\ MaxRows \in Nat

VARIABLES
  account, balance, ledger,   \* see Accounts
  referredBy,   \* users.referred_by
  bonusDue,     \* <<new user, referrer>>: the bonus goroutine has not begun
  uses,         \* promo_codes.used_count
  redeemed,     \* promo_redemptions: set of <<code, user>>
  userLock,     \* holder of the users row lock
  codeLock,     \* holder of the promo_codes row lock
  pc,           \* where each transaction is
  req,          \* what it was asked to do
  seen          \* what it read: the balance, or how many rows it deleted

accountVars == <<account, balance, ledger>>
promoVars == <<uses, redeemed>>
referralVars == <<referredBy, bonusDue>>
lockVars == <<userLock, codeLock>>
txVars == <<pc, req, seen>>
vars == <<accountVars, promoVars, referralVars, lockVars, txVars>>

Accts == INSTANCE Accounts

\* "idle": no transaction.  "code": Redeem before it has the promo row.
\* "user": before SELECT ... FOR UPDATE on users.  "hold": holds the users row.
\* "dep": DeleteUser before its DELETEs.  "clean": before DELETE FROM users.
Stages == {"idle", "code", "user", "hold", "dep", "clean"}

FirstStage(kind) ==
  CASE kind = "redeem" -> "code"
    [] kind = "delete" -> "dep"
    [] OTHER -> "user"

Busy == {p \in Procs : pc[p] # "idle"}

TypeOK ==
  /\ Accts!TypeOK
  /\ referredBy \in [Users -> Users \cup {NoUser}]
  /\ bonusDue \subseteq Users \X Users
  /\ uses \in [Codes -> Nat]
  /\ redeemed \subseteq Codes \X Users
  /\ userLock \in [Users -> Procs \cup {NoProc}]
  /\ codeLock \in [Codes -> Procs \cup {NoProc}]
  /\ pc \in [Procs -> Stages]
  /\ req \in [Procs -> Requests \cup {NoRequest}]
  /\ seen \in [Procs -> Nat]

Init ==
  /\ Accts!Init
  /\ referredBy = [u \in Users |-> NoUser]
  /\ bonusDue = {}
  /\ uses = [c \in Codes |-> 0]
  /\ redeemed = {}
  /\ userLock = [u \in Users |-> NoProc]
  /\ codeLock = [c \in Codes |-> NoProc]
  /\ pc = [p \in Procs |-> "idle"]
  /\ req = [p \in Procs |-> NoRequest]
  /\ seen = [p \in Procs |-> 0]

-----------------------------------------------------------------------------
(* Registration and the start of a transaction *)

\* Register: the row is inserted in one autocommitted statement; a valid
\* referral code then spawns the goroutine that pays the referrer.
Register(u, referrer) ==
  /\ account[u] = "absent"
  /\ referrer # NoUser =>    \* the foreign key: the row exists and is not locked
       account[referrer] = "open" /\ userLock[referrer] = NoProc
  /\ account' = [account EXCEPT ![u] = "open"]
  /\ referredBy' = [referredBy EXCEPT ![u] = referrer]
  /\ bonusDue' = IF referrer = NoUser THEN bonusDue ELSE bonusDue \cup {<<u, referrer>>}
  /\ UNCHANGED <<balance, ledger, promoVars, lockVars, txVars>>

HasRoom(u) == Len(ledger[u]) + Cardinality({p \in Busy : req[p].user = u}) < MaxRows

Begin(p, r) ==
  /\ pc[p] = "idle"
  /\ HasRoom(r.user)
  /\ pc' = [pc EXCEPT ![p] = FirstStage(r.kind)]
  /\ req' = [req EXCEPT ![p] = r]
  /\ seen' = [seen EXCEPT ![p] = 0]
  /\ UNCHANGED <<accountVars, promoVars, lockVars>>

\* A request arrives.  The billing worker is one loop: it has one transaction
\* at a time.
BeginRequest(p, r) ==
  /\ r.kind = "billing" => \A q \in Busy : req[q].kind # "billing"
  /\ Begin(p, r)
  /\ UNCHANGED referralVars

\* Mutant of BeginReferral: a registration can be rewarded again.
BeginReferralAgain(p, u, referrer) ==
  /\ "referral" \in Kinds
  /\ <<u, referrer>> \in bonusDue
  /\ Begin(p, [kind |-> "referral", user |-> referrer,
                amount |-> ReferralAmount, ref |-> u])
  /\ UNCHANGED referralVars

\* The goroutine that Register spawned for the new user u opens its transaction.
BeginReferral(p, u, referrer) ==
  /\ "referral" \in Kinds
  /\ <<u, referrer>> \in bonusDue
  /\ bonusDue' = bonusDue \ {<<u, referrer>>}
  /\ Begin(p, [kind |-> "referral", user |-> referrer,
                amount |-> ReferralAmount, ref |-> u])
  /\ UNCHANGED referredBy


\* The transaction ends, in whatever way: its locks are released.
Finish(p) ==
  /\ pc' = [pc EXCEPT ![p] = "idle"]
  /\ req' = [req EXCEPT ![p] = NoRequest]
  /\ seen' = [seen EXCEPT ![p] = 0]
  /\ userLock' = [u \in Users |-> IF userLock[u] = p THEN NoProc ELSE userLock[u]]
  /\ codeLock' = [c \in Codes |-> IF codeLock[c] = p THEN NoProc ELSE codeLock[c]]

\* ROLLBACK, and the end of a transaction that has nothing to do.
Abort(p) ==
  /\ Finish(p)
  /\ UNCHANGED <<accountVars, promoVars, referralVars>>

-----------------------------------------------------------------------------
(* Row locks and failures *)

\* Mutant of LockCode: SELECT without FOR UPDATE.
LockCodeUnlocked(p) ==
  LET c == req[p].ref IN
  /\ pc[p] = "code"
  /\ uses[c] < MaxUses
  /\ <<c, req[p].user>> \notin redeemed
  /\ codeLock' = [codeLock EXCEPT ![c] = p]
  /\ pc' = [pc EXCEPT ![p] = "user"]
  /\ UNCHANGED <<accountVars, promoVars, referralVars, userLock, req, seen>>

\* SELECT ... FROM promo_codes ... FOR UPDATE and the checks made under it.
LockCode(p) ==
  LET c == req[p].ref IN
  /\ pc[p] = "code"
  /\ codeLock[c] = NoProc
  /\ uses[c] < MaxUses
  /\ <<c, req[p].user>> \notin redeemed
  /\ codeLock' = [codeLock EXCEPT ![c] = p]
  /\ pc' = [pc EXCEPT ![p] = "user"]
  /\ UNCHANGED <<accountVars, promoVars, referralVars, userLock, req, seen>>

\* The code is used up, already redeemed, or past its expiry (any time).
RefuseCode(p) ==
  /\ pc[p] = "code"
  /\ codeLock[req[p].ref] = NoProc
  /\ Abort(p)

\* Mutant of LockUser: SELECT without FOR UPDATE.
LockUserUnlocked(p) ==
  LET u == req[p].user IN
  /\ pc[p] = "user"
  /\ account[u] = "open"
  /\ userLock' = [userLock EXCEPT ![u] = p]
  /\ seen' = [seen EXCEPT ![p] = balance[u]]
  /\ pc' = [pc EXCEPT ![p] = "hold"]
  /\ UNCHANGED <<accountVars, promoVars, referralVars, codeLock, req>>

\* SELECT shard_balance FROM users WHERE id = $1 FOR UPDATE.
LockUser(p) ==
  LET u == req[p].user IN
  /\ pc[p] = "user"
  /\ account[u] = "open"
  /\ userLock[u] = NoProc
  /\ userLock' = [userLock EXCEPT ![u] = p]
  /\ seen' = [seen EXCEPT ![p] = balance[u]]
  /\ pc' = [pc EXCEPT ![p] = "hold"]
  /\ UNCHANGED <<accountVars, promoVars, referralVars, codeLock, req>>

\* No such row: a token outlives its account, a session its user.
NoSuchUser(p) ==
  /\ pc[p] \in {"user", "dep"}
  /\ account[req[p].user] # "open"
  /\ Abort(p)

\* A check, a statement, the node or the commit fails.  A statement that fails
\* in PostgreSQL fails the whole transaction, even where the code ignores it.
Rollback(p) ==
  /\ pc[p] \in {"hold", "clean"}
  /\ Abort(p)

\* The control plane restarts: open transactions roll back, goroutines are gone.
Crash ==
  /\ Busy # {} \/ bonusDue # {}
  /\ pc' = [p \in Procs |-> "idle"]
  /\ req' = [p \in Procs |-> NoRequest]
  /\ seen' = [p \in Procs |-> 0]
  /\ userLock' = [u \in Users |-> NoProc]
  /\ codeLock' = [c \in Codes |-> NoProc]
  /\ bonusDue' = {}
  /\ UNCHANGED <<accountVars, promoVars, referredBy>>

-----------------------------------------------------------------------------
(* The writes and the commit of each operation *)

Monus(a, b) == IF a < b THEN 0 ELSE a - b

\* UPDATE users SET shard_balance = after; INSERT INTO shard_transactions; COMMIT.
Post(p, type, amount, after, ref) ==
  LET u == req[p].user IN
  /\ balance' = [balance EXCEPT ![u] = after]
  /\ ledger' = [ledger EXCEPT ![u] =
                  Append(@, [type |-> type, amount |-> amount, after |-> after, ref |-> ref])]
  /\ Finish(p)
  /\ UNCHANGED account

Holding(p, kind) == pc[p] = "hold" /\ req[p].kind = kind

\* Mutant of AddShards: no upper limit.
AddShardsUnlimited(p) ==
  /\ Holding(p, "topup")
  /\ Post(p, "admin_topup", req[p].amount, seen[p] + req[p].amount, NoRef)
  /\ UNCHANGED <<promoVars, referralVars>>

AddShards(p) ==
  LET after == seen[p] + req[p].amount IN
  /\ Holding(p, "topup")
  /\ after <= MaxShardBalance
  /\ Post(p, "admin_topup", req[p].amount, after, NoRef)
  /\ UNCHANGED <<promoVars, referralVars>>

\* Mutant of RemoveShards: the row is not written.
RemoveShardsUnrecorded(p) ==
  /\ Holding(p, "removal")
  /\ balance' = [balance EXCEPT ![req[p].user] = Monus(seen[p], req[p].amount)]
  /\ Finish(p)
  /\ UNCHANGED <<account, ledger, promoVars, referralVars>>

RemoveShards(p) ==
  LET after == Monus(seen[p], req[p].amount) IN
  /\ Holding(p, "removal")
  /\ Post(p, "refund", after - seen[p], after, NoRef)
  /\ UNCHANGED <<promoVars, referralVars>>

Redeem(p) ==
  LET after == seen[p] + req[p].amount
      c == req[p].ref
  IN
  /\ Holding(p, "redeem")
  /\ after <= MaxShardBalance
  /\ <<c, req[p].user>> \notin redeemed     \* UNIQUE(code_id, user_id)
  /\ Post(p, "promo_redeem", req[p].amount, after, c)
  /\ redeemed' = redeemed \cup {<<c, req[p].user>>}
  /\ uses' = [uses EXCEPT ![c] = @ + 1]
  /\ UNCHANGED referralVars

\* The goroutine of Register: no limit is checked.
PayReferrer(p) ==
  /\ Holding(p, "referral")
  /\ Post(p, "referral_bonus", req[p].amount, seen[p] + req[p].amount, req[p].ref)
  /\ UNCHANGED <<promoVars, referralVars>>

\* Mutant of PurchaseRoom: the balance is not checked.
PurchaseRoomUnchecked(p) ==
  /\ Holding(p, "purchase")
  /\ Post(p, "room_purchase", -req[p].amount, seen[p] - req[p].amount, NoRef)
  /\ UNCHANGED <<promoVars, referralVars>>

PurchaseRoom(p) ==
  /\ Holding(p, "purchase")
  /\ seen[p] >= req[p].amount
  /\ Post(p, "room_purchase", -req[p].amount, seen[p] - req[p].amount, NoRef)
  /\ UNCHANGED <<promoVars, referralVars>>

ExtendRoom(p) ==
  /\ Holding(p, "extend")
  /\ seen[p] >= req[p].amount
  /\ Post(p, "room_extend", -req[p].amount, seen[p] - req[p].amount, NoRef)
  /\ UNCHANGED <<promoVars, referralVars>>

\* Leave and Kick: the balance is clamped at 0, the row is not.
CloseSharedSession(p) ==
  /\ Holding(p, "leave")
  /\ Post(p, "shared_hourly", -req[p].amount, Monus(seen[p], req[p].amount), NoRef)
  /\ UNCHANGED <<promoVars, referralVars>>

\* The billing worker: the user can pay.
ChargeSharedSession(p) ==
  /\ Holding(p, "billing")
  /\ seen[p] >= req[p].amount
  /\ Post(p, "shared_hourly", -req[p].amount, seen[p] - req[p].amount, NoRef)
  /\ UNCHANGED <<promoVars, referralVars>>

\* The billing worker: the user cannot, and is charged what is left, if anything.
ChargeRemainder(p) ==
  /\ Holding(p, "billing")
  /\ seen[p] < req[p].amount
  /\ IF seen[p] > 0
     THEN Post(p, "shared_hourly", -seen[p], 0, NoRef)
     ELSE Finish(p) /\ UNCHANGED accountVars
  /\ UNCHANGED <<promoVars, referralVars>>

\* DeleteUser finds the user and deletes the rows that reference it.
DeleteDependants(p) ==
  /\ pc[p] = "dep"
  /\ account[req[p].user] = "open"
  /\ seen' = [seen EXCEPT ![p] = Len(ledger[req[p].user])]
  /\ pc' = [pc EXCEPT ![p] = "clean"]
  /\ UNCHANGED <<accountVars, promoVars, referralVars, lockVars, req>>

\* DELETE FROM users waits for the row, and the foreign keys refuse it if rows
\* were committed since (a redemption commits with a ledger row) or if some
\* user was referred by this one; then the commit.
DeleteUser(p) ==
  LET u == req[p].user IN
  /\ pc[p] = "clean"
  /\ account[u] = "open"
  /\ userLock[u] = NoProc
  /\ Len(ledger[u]) = seen[p]
  /\ \A v \in Users : referredBy[v] # u
  /\ account' = [account EXCEPT ![u] = "deleted"]
  /\ balance' = [balance EXCEPT ![u] = 0]
  /\ ledger' = [ledger EXCEPT ![u] = <<>>]
  /\ redeemed' = {r \in redeemed : r[2] # u}
  /\ referredBy' = [referredBy EXCEPT ![u] = NoUser]
  /\ Finish(p)
  /\ UNCHANGED <<uses, bonusDue>>

-----------------------------------------------------------------------------

Step(p) ==
  \/ LockCode(p)     \/ RefuseCode(p)   \/ LockUser(p)
  \/ NoSuchUser(p)   \/ Rollback(p)
  \/ AddShards(p)    \/ RemoveShards(p) \/ Redeem(p)      \/ PayReferrer(p)
  \/ PurchaseRoom(p) \/ ExtendRoom(p)   \/ CloseSharedSession(p)
  \/ ChargeSharedSession(p)             \/ ChargeRemainder(p)
  \/ DeleteDependants(p)                \/ DeleteUser(p)

\* Every user is registered and MaxRows lets nobody begin: the model, not the
\* program, stops here.
Quiescent ==
  /\ Busy = {}
  /\ \A u \in Users : account[u] # "absent" /\ ~HasRoom(u)
  /\ UNCHANGED vars

Next ==
  \/ \E u \in Users, referrer \in Users \cup {NoUser} : Register(u, referrer)
  \/ \E p \in Procs, r \in ClientRequests : BeginRequest(p, r)
  \/ \E p \in Procs, u, referrer \in Users : BeginReferral(p, u, referrer)
  \/ \E p \in Procs : Step(p)
  \/ Crash
  \/ Quiescent

Spec == Init /\ [][Next]_vars

\* PostgreSQL queues the waiters of a row lock, so a waiter that the lock keeps
\* passing over is served in the end (strong fairness); a goroutine that holds
\* its rows goes on (every call it makes has a timeout).
Fairness ==
  \A p \in Procs :
    /\ WF_vars(Step(p) /\ pc[p] \in {"hold", "dep", "clean"})
    /\ SF_vars(Step(p) /\ pc[p] \in {"code", "user"})

FairSpec == Spec /\ Fairness

-----------------------------------------------------------------------------
(* Properties *)

\* A part of the invariant: each transaction that writes a balance also writes
\* the row that announces it.  A lost update would not break it; that is what
\* HistoryIsHonest shows.
BalanceMatchesLedger == Accts!BalanceMatchesLedger

\* No update is lost, whatever transactions interleave: every row accounts for
\* the step from the previous row's balance to its own; only a shared-room charge
\* may announce 0 for a charge beyond the balance.
HistoryIsHonest == Accts!HistoryIsHonest

\* A transaction that is under way was asked something; one that is about to
\* lock a code names it.
TxOK ==
  \A p \in Busy :
    /\ req[p] \in Requests
    /\ pc[p] = "code" => req[p].kind = "redeem"
    /\ req[p].kind = "redeem" => req[p].ref \in Codes

\* What a transaction read stays true until it commits: it holds the users row,
\* the balance is the one it read, and a code that passed Redeem's checks
\* passes them still.
LockDiscipline ==
  \A p \in Procs :
    /\ pc[p] = "hold" =>
         /\ userLock[req[p].user] = p
         /\ account[req[p].user] = "open"
         /\ seen[p] = balance[req[p].user]
    /\ pc[p] \in {"user", "hold"} /\ req[p].kind = "redeem" =>
         /\ codeLock[req[p].ref] = p
         /\ uses[req[p].ref] < MaxUses
         /\ <<req[p].ref, req[p].user>> \notin redeemed

Redemptions(c) == {r \in redeemed : r[1] = c}

\* A code is redeemed at most max_uses times, and used_count counts at least
\* the redemptions that are left once users are deleted.
PromoWithinLimit ==
  \A c \in Codes :
    /\ uses[c] <= MaxUses
    /\ Cardinality(Redemptions(c)) <= uses[c]

\* No code pays one user twice, and no registration pays its referrer twice,
\* however requests repeat, roll back or are cut off by a restart.
BonusPaidOnce ==
  \A u \in Users : \A i, j \in 1..Len(ledger[u]) :
    /\ i # j
    /\ ledger[u][i].type \in {"promo_redeem", "referral_bonus"}
    /\ ledger[u][j].type = ledger[u][i].type
    => ledger[u][i].ref # ledger[u][j].ref

ReferralRows(u) == {i \in 1..Len(ledger[u]) : ledger[u][i].type = "referral_bonus"}

\* The limit of AddShards and Redeem is only ever exceeded by what referral
\* bonuses added.
CappedExceptReferrals ==
  \A u \in Users :
    balance[u] <= MaxShardBalance + ReferralAmount * Cardinality(ReferralRows(u))

\* The accounts keep their promise: transactions look atomic from outside.
AccountsSpec == Accts!Spec


=============================================================================
