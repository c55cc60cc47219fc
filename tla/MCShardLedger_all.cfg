\* Every kind of transaction by two users who may refer each other and share a
\* promo code, two transactions at a time, with deletion and restarts.
SPECIFICATION FairSpec
CONSTANTS
  Users = {u1, u2}
  Codes = {c1}
  Procs = {p1, p2}
  NoUser = NoUser
  NoProc = NoProc
  NoRef = NoRef
  NoRequest = NoRequest
  Kinds = {"topup", "removal", "redeem", "purchase", "extend", "leave", "billing", "referral", "delete"}
  Amounts = {2}
  MaxUses = 1
  MaxShardBalance = 2
  ReferralAmount = 1
  MaxRows = 2
INVARIANTS
  TypeOK
  LockDiscipline
  HistoryIsHonest
  PromoWithinLimit
  BonusPaidOnce
  CappedExceptReferrals
PROPERTIES
  AccountsSpec
  
