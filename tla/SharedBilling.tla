---------------------------- MODULE SharedBilling -----------------------------
(***************************************************************************)
(* What one user pays for the time in one shared room.  A row of            *)
(* shared_sessions is made with the membership and says what has been       *)
(* charged; the billing worker charges open sessions every minute, Leave    *)
(* and Kick charge the rest and close the session.  The worker has the      *)
(* column from a list it made before, Leave from a SELECT that locks        *)
(* nothing; only the balance is locked.                                     *)
(*                                                                          *)
(* Time is counted in ticks.  `paid' is history: what the balance really    *)
(* lost for a session.  The rows of shard_transactions are ShardLedger's    *)
(* business, the VPN user and the role Membership's; that the room itself   *)
(* comes to an end is left out.                                             *)
(***************************************************************************)
EXTENDS Integers, FiniteSets

CONSTANTS
  MaxSessions,    \* bound: sessions that the user ever opens
  MaxAge,         \* bound: ticks after which a session grows no older
  Requests,       \* Join, Leave and Kick requests served at the same time
  InitialBalance,
  HourlyCost,     \* rooms.hourly_cost
  HourTicks       \* ticks of an hour

ASSUME ConstantsOK ==
  /\ MaxSessions \in Nat \ {0} /\ MaxAge \in Nat
  /\ IsFiniteSet(Requests)
  /\ InitialBalance \in Nat
  /\ HourlyCost \in Nat \ {0}
  /\ HourTicks \in Nat \ {0}

VARIABLES
  balance,  \* users.shard_balance
  member,   \* is there a row in room_members?
  session,  \* shared_sessions: state, age in ticks, shards_charged
  worker,   \* chargeSharedSessions: what is left of its list; deleting a member?
  req,      \* req[q]: the request under way
  paid      \* history

vars == <<balance, member, session, worker, req, paid>>

Sessions == 1 .. MaxSessions
Open == {s \in Sessions : session[s].state = "open"}
Unused == {s \in Sessions : session[s].state = "none"}

Entry == [session : Sessions, charged : Nat]
Idle == [stage |-> "idle", session |-> 0, charged |-> 0]
NoWork == [todo |-> {}, deleting |-> FALSE]

TypeOK ==
  /\ balance \in Nat
  /\ member \in BOOLEAN
  /\ session \in [Sessions -> [state : {"none", "open", "ended"},
                               age : 0 .. MaxAge, charged : Nat]]
  /\ worker.todo \subseteq Entry /\ worker.deleting \in BOOLEAN
  /\ req \in [Requests -> [stage : {"idle", "joining", "leaving", "reading", "closing"},
                           session : Sessions \cup {0}, charged : Nat]]
  /\ paid \in [Sessions -> Nat]
  /\ \A s \in Unused : paid[s] = 0

Init ==
  /\ balance = InitialBalance
  /\ member = FALSE
  /\ session = [s \in Sessions |-> [state |-> "none", age |-> 0, charged |-> 0]]
  /\ worker = NoWork
  /\ req = [q \in Requests |-> Idle]
  /\ paid = [s \in Sessions |-> 0]

-----------------------------------------------------------------------------
(* Prices *)

CeilDiv(a, b) == (a + b - 1) \div b

\* The worker charges whole minutes in proportion, rounded up.
Expected(age) == CeilDiv(age * HourlyCost, HourTicks)

\* Leave charges every hour begun, at least one: math.Ceil of an elapsed time
\* that is never a whole number of hours to the nanosecond.
Begun(age) == (age \div HourTicks + 1) * HourlyCost

-----------------------------------------------------------------------------
(* Joining *)

\* Join asks for the price of an hour before its transaction.
Join(q) ==
  /\ req[q] = Idle
  /\ balance >= HourlyCost
  /\ req' = [req EXCEPT ![q].stage = "joining"]
  /\ UNCHANGED <<balance, member, session, worker, paid>>

\* Somebody who is a member already gets no second session.
Joined(q) ==
  /\ req[q].stage = "joining"
  /\ member' = TRUE
  /\ IF member THEN UNCHANGED session
     ELSE \E s \in Unused : /\ \A t \in Unused : s <= t
                           /\ session' = [session EXCEPT ![s].state = "open"]
  /\ req' = [req EXCEPT ![q] = Idle]
  /\ UNCHANGED <<balance, worker, paid>>

-----------------------------------------------------------------------------
(* Leaving *)

\* Leave, Kick or Ban find the member's row and call the node ...
Leave(q) ==
  /\ req[q] = Idle
  /\ member
  /\ req' = [req EXCEPT ![q].stage = "leaving"]
  /\ UNCHANGED <<balance, member, session, worker, paid>>

\* ... delete it, or log that they could not ...
DeleteMember(q) ==
  /\ req[q].stage = "leaving"
  /\ member' \in {FALSE, member}
  /\ req' = [req EXCEPT ![q].stage = "reading"]
  /\ UNCHANGED <<balance, session, worker, paid>>

NoOpenSession(q) ==
  /\ req[q].stage = "reading"
  /\ Open = {}
  /\ req' = [req EXCEPT ![q] = Idle]
  /\ UNCHANGED <<balance, member, session, worker, paid>>

\* ... read the latest open session ...
ReadSession(q) ==
  /\ req[q].stage = "reading"
  /\ \E s \in Open :
       /\ \A t \in Open : t <= s
       /\ req' = [req EXCEPT ![q] = [stage |-> "closing", session |-> s,
                                     charged |-> session[s].charged]]
  /\ UNCHANGED <<balance, member, session, worker, paid>>

\* Nothing if too much has been charged already, and never more than there is.
Payable(amount) ==
  IF amount <= 0 THEN 0 ELSE IF amount <= balance THEN amount ELSE balance

\* Mutant of Take: the balance is written without a look at what is there.
TakeTooMuch(s, amount) ==
  /\ balance' = balance - amount - 1
  /\ paid' = [paid EXCEPT ![s] = @ + amount]

Take(s, amount) ==
  /\ balance' = balance - amount
  /\ paid' = [paid EXCEPT ![s] = @ + amount]

\* Mutant of CloseSession: what others have charged since is not charged again,
\* but what the request itself has read is subtracted as well.
CloseSessionTwiceReduced(q) ==
  LET s == req[q].session
      rest == Begun(session[s].age) - req[q].charged - session[s].charged
  IN /\ req[q].stage = "closing"
     /\ Take(s, Payable(rest))
     /\ session' = [session EXCEPT ![s].state = "ended", ![s].charged = Begun(session[s].age)]
     /\ req' = [req EXCEPT ![q] = Idle]
     /\ UNCHANGED <<member, worker>>

\* ... and charge what is missing, or all there is, under the lock of the user.
CloseSession(q) ==
  LET s == req[q].session
      rest == Begun(session[s].age) - req[q].charged
  IN /\ req[q].stage = "closing"
     /\ Take(s, Payable(rest))
     /\ session' = [session EXCEPT ![s].state = "ended", ![s].charged = Begun(session[s].age)]
     /\ req' = [req EXCEPT ![q] = Idle]
     /\ UNCHANGED <<member, worker>>

-----------------------------------------------------------------------------
(* The billing worker *)

\* One SELECT for all open sessions, once the last list is done.
WorkerLists ==
  /\ worker = NoWork
  /\ Open # {}
  /\ worker' = [NoWork EXCEPT !.todo =
                  {[session |-> s, charged |-> session[s].charged] : s \in Open}]
  /\ UNCHANGED <<balance, member, session, req, paid>>

Takes(e) == e \in worker.todo /\ ~worker.deleting
Owed(e) == Expected(session[e.session].age) - e.charged
Done(e) == worker' = [worker EXCEPT !.todo = @ \ {e}]

\* Nothing is owed yet, or the transaction fails and the next round retries.
WorkerSkips(e) ==
  /\ Takes(e)
  /\ Done(e)
  /\ UNCHANGED <<balance, member, session, req, paid>>

\* Mutant of WorkerCharges: the charge is not noted in the session.
WorkerChargesUnnoted(e) ==
  /\ Takes(e)
  /\ Owed(e) > 0
  /\ balance >= Owed(e)
  /\ Take(e.session, Owed(e))
  /\ Done(e)
  /\ UNCHANGED <<member, session, req>>

\* The session may have been closed since it was listed.
WorkerCharges(e) ==
  /\ Takes(e)
  /\ Owed(e) > 0
  /\ balance >= Owed(e)
  /\ Take(e.session, Owed(e))
  /\ session' = [session EXCEPT ![e.session].charged = Expected(session[e.session].age)]
  /\ Done(e)
  /\ UNCHANGED <<member, req>>

\* Mutant of WorkerEnds: the session of somebody without shards stays open.
WorkerEndsNothing(e) ==
  /\ Takes(e)
  /\ Owed(e) > 0
  /\ balance < Owed(e)
  /\ Take(e.session, balance)
  /\ worker' = [todo |-> worker.todo \ {e}, deleting |-> member]
  /\ UNCHANGED <<member, session, req>>

\* Too few shards: all of them are taken and the session is closed.  After the
\* commit the worker looks for the member's row and calls the node ...
WorkerEnds(e) ==
  /\ Takes(e)
  /\ Owed(e) > 0
  /\ balance < Owed(e)
  /\ Take(e.session, balance)
  /\ session' = [session EXCEPT ![e.session].state = "ended",
                                ![e.session].charged = @ + balance]
  /\ worker' = [todo |-> worker.todo \ {e}, deleting |-> member]
  /\ UNCHANGED <<member, req>>

\* ... and deletes it; an error is ignored.
WorkerKicks ==
  /\ worker.deleting
  /\ member' \in {FALSE, member}
  /\ worker' = [worker EXCEPT !.deleting = FALSE]
  /\ UNCHANGED <<balance, session, req, paid>>

-----------------------------------------------------------------------------
(* Time and failures *)

\* Sessions that are open or on the worker's list grow older; no time passes
\* within a transaction.
Tick ==
  LET growing == {s \in Open \cup {e.session : e \in worker.todo} : session[s].age < MaxAge} IN
  /\ growing # {}
  /\ session' = [s \in Sessions |->
       IF s \in growing THEN [session[s] EXCEPT !.age = @ + 1] ELSE session[s]]
  /\ UNCHANGED <<balance, member, worker, req, paid>>

\* A request fails; the deferred Rollback undoes what is not committed.
Fail(q) ==
  /\ req[q] # Idle
  /\ req' = [req EXCEPT ![q] = Idle]
  /\ UNCHANGED <<balance, member, session, worker, paid>>

\* The control plane restarts.
Crash ==
  /\ worker' = NoWork
  /\ req' = [q \in Requests |-> Idle]
  /\ UNCHANGED <<balance, member, session, paid>>

-----------------------------------------------------------------------------

WorkerHandles(e) == WorkerSkips(e) \/ WorkerCharges(e) \/ WorkerEnds(e)

Next ==
  \/ \E q \in Requests :
       \/ Join(q) \/ Joined(q)
       \/ Leave(q) \/ DeleteMember(q) \/ NoOpenSession(q) \/ ReadSession(q) \/ CloseSession(q)
       \/ Fail(q)
  \/ WorkerLists \/ WorkerKicks
  \/ \E e \in worker.todo : WorkerHandles(e)
  \/ Tick
  \/ Crash

Spec == Init /\ [][Next]_vars

\* Time passes.  The worker wakes every minute; it may be restarted and its
\* transactions may fail again and again, but now and then it gets to charge.
WorkerBills == \E e \in worker.todo : WorkerCharges(e) \/ WorkerEnds(e)
FairSpec ==
  /\ Spec
  /\ WF_vars(Tick)
  /\ WF_vars(WorkerLists) /\ WF_vars(WorkerKicks)
  /\ WF_vars(\E e \in worker.todo : WorkerHandles(e))
  /\ SF_vars(WorkerBills)

-----------------------------------------------------------------------------
(* Properties *)

\* Nobody plays for less: a session that is closed because the member leaves
\* has cost all hours begun (rooms.go:1738), whatever the worker and others who
\* close it have done, unless the balance is used up.
LeavingIsPaid == [][\A q \in Requests :
  CloseSession(q) =>
    LET s == req[q].session IN balance' = 0 \/ paid'[s] >= Begun(session[s].age)]_vars

\* While a session is open, shards_charged is what the user has paid for it:
\* the worker and Leave subtract exactly that from the bill (cleanup.go:447).
ColumnIsPaid == \A s \in Open : session[s].charged = paid[s]

\* README.md:73 "charged at 2,000 shards/hour while connected".
HourlyRate == \A s \in Sessions \ Unused : paid[s] <= Begun(session[s].age)

\* Also a session that nobody closes, as its member's row has gone without it,
\* comes to an end: the worker charges it until the shards run out.
SessionsEnd == []<>(Open = {})

=============================================================================
