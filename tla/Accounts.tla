------------------------------- MODULE Accounts -------------------------------
(***************************************************************************)
(* What the shard accounts promise, whatever runs concurrently.            *)
(*                                                                         *)
(* A user has an account (a row of "users"), an integer balance            *)
(* (users.shard_balance) and a history of the changes to it (the rows of   *)
(* "shard_transactions" that carry the user's id).  An account only ever   *)
(* changes by being opened, by posting exactly one row together with the   *)
(* balance that row announces, or by being deleted with its whole history. *)
(***************************************************************************)
EXTENDS Integers, Sequences

CONSTANTS
  Users,      \* the user ids that may ever be issued (SERIAL: never reused)
  Refs        \* what a row refers to: a promo code, a referred user, nothing

VARIABLES
  account,    \* account[u]: "absent", "open" or "deleted"
  balance,    \* balance[u]: users.shard_balance
  ledger      \* ledger[u]: shard_transactions of u, in commit order

vars == <<account, balance, ledger>>

\* The values of shard_transactions.tx_type that the control plane writes.
TxTypes == {"admin_topup", "refund", "promo_redeem", "referral_bonus",
            "room_purchase", "room_extend", "shared_hourly"}

Entry == [type : TxTypes, amount : Int, after : Nat, ref : Refs]

TypeOK ==
  /\ account \in [Users -> {"absent", "open", "deleted"}]
  /\ balance \in [Users -> Nat]
  /\ ledger \in [Users -> Seq(Entry)]

-----------------------------------------------------------------------------

Init ==
  /\ account = [u \in Users |-> "absent"]
  /\ balance = [u \in Users |-> 0]
  /\ ledger = [u \in Users |-> <<>>]

Open(u) ==
  /\ account[u] = "absent"
  /\ account' = [account EXCEPT ![u] = "open"]
  /\ UNCHANGED <<balance, ledger>>

\* A row is honest when the balance it announces is the previous balance plus
\* its amount.  Hourly billing may announce 0 for a charge that exceeds the
\* balance: the row then carries the whole charge (closeSharedSession).
Honest(before, e) ==
  \/ e.after = before + e.amount
  \/ e.type = "shared_hourly" /\ e.after = 0 /\ before + e.amount < 0

\* The new row is the last one of the next state's history.
Post(u) ==
  /\ account[u] = "open"
  /\ Len(ledger'[u]) = Len(ledger[u]) + 1
  /\ LET e == ledger'[u][Len(ledger[u]) + 1] IN
       /\ e \in Entry
       /\ Honest(balance[u], e)
       /\ balance' = [balance EXCEPT ![u] = e.after]
       /\ ledger' = [ledger EXCEPT ![u] = Append(@, e)]
  /\ UNCHANGED account

Close(u) ==
  /\ account[u] = "open"
  /\ account' = [account EXCEPT ![u] = "deleted"]
  /\ balance' = [balance EXCEPT ![u] = 0]
  /\ ledger' = [ledger EXCEPT ![u] = <<>>]

Next ==
  \E u \in Users :
    \/ Open(u)
    \/ Post(u)
    \/ Close(u)

Spec == Init /\ [][Next]_vars

-----------------------------------------------------------------------------

\* The balance is the one that the last row announces.
BalanceMatchesLedger ==
  \A u \in Users :
    balance[u] = IF ledger[u] = <<>> THEN 0 ELSE ledger[u][Len(ledger[u])].after

Before(u, i) == IF i = 1 THEN 0 ELSE ledger[u][i - 1].after

\* Every row accounts for the step from the previous row's balance to its own.
HistoryIsHonest ==
  \A u \in Users : \A i \in 1..Len(ledger[u]) :
    Honest(Before(u, i), ledger[u][i])

=============================================================================
