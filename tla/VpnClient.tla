------------------------------ MODULE VpnClient -------------------------------
(***************************************************************************)
(* The desktop client's VPN connection (client/app.go).  The frontend      *)
(* calls ConnectVPN and StopVPN, each in a goroutine of its own, whenever  *)
(* the user asks: the Disconnect button shows while a connection is being  *)
(* set up, and the Connect button as soon as StopVPN has returned.  Every  *)
(* ConnectVPN that succeeds starts a health monitor.                       *)
(*                                                                         *)
(* App's fields are read and written under one mutex, but vpncmd runs      *)
(* outside it, on the one SoftEther account that all of them share.  A     *)
(* connection g is a call of ConnectVPN, numbered in the order in which    *)
(* the calls took the mutex; its stopMonitor channel and its monitor have  *)
(* its number.  The ping monitor only measures; it is left out.            *)
(***************************************************************************)
EXTENDS Integers, FiniteSets

CONSTANTS
  MaxConnects,  \* bound of the model: calls of ConnectVPN
  Patient       \* does the user wait for a call to return before the next one?

ASSUME ConstantsOK == MaxConnects \in Nat \ {0} /\ Patient \in BOOLEAN

Conns == 1..MaxConnects
NoConn == 0

VARIABLES
  want,      \* wantConnected
  status,    \* vpnStatus
  current,   \* the connection whose channel is in stopMonitor
  closed,    \* the channels that are closed
  connect,   \* connect[g]: where ConnectVPN is
  monitor,   \* monitor[g]: where its vpnHealthMonitor is
  stopping,  \* a StopVPN is between its two critical sections
  account    \* SoftEther's account: "none", "off", "trying" or "up"

appVars == <<want, status, current, closed>>
vars == <<appVars, connect, monitor, stopping, account>>

Begun == {g \in Conns : connect[g] # "new"}
UnderWay == {g \in Begun : connect[g] # "done"}
Monitors == {g \in Conns : monitor[g] # "none"}

TypeOK ==
  /\ want \in BOOLEAN
  /\ status \in {"disconnected", "connecting", "connected", "reconnecting"}
  /\ current \in Conns \cup {NoConn}
  /\ closed \subseteq Conns
  /\ connect \in [Conns -> {"new", "clean", "setup", "dial", "wait", "failed", "done"}]
  /\ monitor \in [Conns -> {"none", "sleep", "awake", "check", "up", "down", "dial", "backoff"}]
  /\ stopping \in BOOLEAN
  /\ account \in {"none", "off", "trying", "up"}

Init ==
  /\ want = FALSE
  /\ status = "disconnected"
  /\ current = NoConn
  /\ closed = {}
  /\ connect = [g \in Conns |-> "new"]
  /\ monitor = [g \in Conns |-> "none"]
  /\ stopping = FALSE
  /\ account = "none"

Free == Patient => UnderWay = {} /\ ~stopping

-----------------------------------------------------------------------------
(* ConnectVPN *)

\* Mutant of ConnectVPN: stopMonitor is closed without asking whether it is nil.
ConnectVPNClosesNil(g) ==
  /\ Free
  /\ connect[g] = "new" /\ \A h \in 1..(g - 1) : connect[h] # "new"
  /\ want' = TRUE
  /\ status' = "connecting"
  /\ closed' = closed \cup {current}
  /\ current' = g
  /\ connect' = [connect EXCEPT ![g] = "clean"]
  /\ UNCHANGED <<monitor, stopping, account>>

\* Mutant of ConnectVPN: existing monitors are not stopped.
ConnectVPNLeavesMonitor(g) ==
  /\ Free
  /\ connect[g] = "new" /\ \A h \in 1..(g - 1) : connect[h] # "new"
  /\ want' = TRUE
  /\ status' = "connecting"
  /\ current' = g
  /\ connect' = [connect EXCEPT ![g] = "clean"]
  /\ UNCHANGED <<closed, monitor, stopping, account>>

\* The first critical section: it replaces the stop channels.
ConnectVPN(g) ==
  /\ Free
  /\ connect[g] = "new" /\ \A h \in 1..(g - 1) : connect[h] # "new"
  /\ want' = TRUE
  /\ status' = "connecting"
  /\ closed' = closed \cup ({current} \ {NoConn})
  /\ current' = g
  /\ connect' = [connect EXCEPT ![g] = "clean"]
  /\ UNCHANGED <<monitor, stopping, account>>

\* establishVPN: AccountDisconnect and AccountDelete, errors ignored.  The second
\* is refused if a monitor connects the account again in between ...
DeleteAccount(g) ==
  /\ connect[g] = "clean"
  /\ account' \in {"none", account}
  /\ connect' = [connect EXCEPT ![g] = "setup"]
  /\ UNCHANGED <<appVars, monitor, stopping>>

\* ... AccountCreate and the settings ...
CreateAccount(g) ==
  /\ connect[g] = "setup"
  /\ account = "none"
  /\ account' = "off"
  /\ connect' = [connect EXCEPT ![g] = "dial"]
  /\ UNCHANGED <<appVars, monitor, stopping>>

\* ... which fail if another call has created the account, or half-way ...
CreateAccountFails(g) ==
  /\ connect[g] = "setup"
  /\ account' \in {account, IF account = "none" THEN "off" ELSE account}
  /\ connect' = [connect EXCEPT ![g] = "failed"]
  /\ UNCHANGED <<appVars, monitor, stopping>>

\* ... and AccountConnect, after which SoftEther goes on by itself.
Dialled == IF account = "off" THEN "trying" ELSE account

ConnectAccount(g) ==
  /\ connect[g] = "dial"
  /\ account # "none"
  /\ account' = Dialled
  /\ connect' = [connect EXCEPT ![g] = "wait"]
  /\ UNCHANGED <<appVars, monitor, stopping>>

ConnectAccountFails(g) ==
  /\ connect[g] = "dial"
  /\ connect' = [connect EXCEPT ![g] = "failed"]
  /\ UNCHANGED <<appVars, monitor, stopping, account>>

\* After 15 seconds at most, connected or not, the status is "connected" and
\* the monitor starts on the channel of this call.
ConnectReturns(g) ==
  /\ connect[g] = "wait"
  /\ status' = "connected"
  /\ connect' = [connect EXCEPT ![g] = "done"]
  /\ monitor' = [monitor EXCEPT ![g] = "sleep"]
  /\ UNCHANGED <<want, current, closed, stopping, account>>

ConnectFails(g) ==
  /\ connect[g] = "failed"
  /\ status' = "disconnected"
  /\ want' = FALSE
  /\ connect' = [connect EXCEPT ![g] = "done"]
  /\ UNCHANGED <<current, closed, monitor, stopping, account>>

-----------------------------------------------------------------------------
(* StopVPN *)

\* Mutant of StopVPN: stopMonitor is not set to nil.
StopVPNKeepsChannel ==
  /\ Free
  /\ ~stopping
  /\ want' = FALSE
  /\ closed' = closed \cup ({current} \ {NoConn})
  /\ stopping' = TRUE
  /\ UNCHANGED <<status, current, connect, monitor, account>>

StopVPN ==
  /\ Free
  /\ ~stopping
  /\ want' = FALSE
  /\ closed' = closed \cup ({current} \ {NoConn})
  /\ current' = NoConn
  /\ stopping' = TRUE
  /\ UNCHANGED <<status, connect, monitor, account>>

\* DisconnectVPN, called last, runs vpncmd with the mutex held.
DisconnectVPN ==
  /\ stopping
  /\ stopping' = FALSE
  /\ status' = "disconnected"
  /\ account' = IF status = "disconnected" \/ account = "none" THEN account ELSE "off"
  /\ UNCHANGED <<want, current, closed, connect, monitor>>

-----------------------------------------------------------------------------
(* vpnHealthMonitor *)

Goto(g, stage) == monitor' = [monitor EXCEPT ![g] = stage]

\* Mutant of Wake: the monitor does not look at its channel.
WakeDeaf(g) ==
  /\ \/ monitor[g] = "sleep" /\ Goto(g, "awake")
     \/ monitor[g] = "backoff" /\ Goto(g, "sleep")
  /\ UNCHANGED <<appVars, connect, stopping, account>>

\* The timer of 3 seconds, or the backoff, is over or the channel is closed.
Wake(g) ==
  /\ \/ monitor[g] = "sleep" /\ Goto(g, IF g \in closed THEN "none" ELSE "awake")
     \/ monitor[g] = "backoff" /\ Goto(g, IF g \in closed THEN "none" ELSE "sleep")
  /\ UNCHANGED <<appVars, connect, stopping, account>>

\* The critical section that reads wantConnected and vpnCreds.
AskWanted(g) ==
  /\ monitor[g] = "awake"
  /\ Goto(g, IF want THEN "check" ELSE "none")
  /\ UNCHANGED <<appVars, connect, stopping, account>>

\* AccountStatusGet, outside the mutex.
CheckStatus(g) ==
  /\ monitor[g] = "check"
  /\ Goto(g, IF account = "up" THEN "up" ELSE "down")
  /\ UNCHANGED <<appVars, connect, stopping, account>>

\* Mutant of ReportStatus: it only reports.
ReportStatusOnly(g) ==
  /\ \/ monitor[g] = "up" /\ status' = "connected" /\ Goto(g, "sleep")
     \/ monitor[g] = "down" /\ status' = "reconnecting" /\ Goto(g, "sleep")
  /\ UNCHANGED <<want, current, closed, connect, stopping, account>>

\* The second critical section believes the answer.
ReportStatus(g) ==
  /\ \/ monitor[g] = "up" /\ status' = "connected" /\ Goto(g, "sleep")
     \/ monitor[g] = "down" /\ status' = "reconnecting" /\ Goto(g, "dial")
  /\ UNCHANGED <<want, current, closed, connect, stopping, account>>

Reconnect(g) ==
  /\ monitor[g] = "dial"
  /\ account' = Dialled
  /\ Goto(g, "backoff")
  /\ UNCHANGED <<appVars, connect, stopping>>

-----------------------------------------------------------------------------

\* SoftEther: a session is established; a session is lost and SoftEther tries
\* again or does not.
NetworkUp ==
  /\ account = "trying"
  /\ account' = "up"
  /\ UNCHANGED <<appVars, connect, monitor, stopping>>

NetworkDown ==
  /\ account \in {"trying", "up"}
  /\ account' \in {"trying", "off"}
  /\ UNCHANGED <<appVars, connect, monitor, stopping>>

ConnectStep(g) ==
  \/ DeleteAccount(g) \/ CreateAccount(g) \/ CreateAccountFails(g)
  \/ ConnectAccount(g) \/ ConnectAccountFails(g)
  \/ ConnectReturns(g) \/ ConnectFails(g)

MonitorStep(g) ==
  Wake(g) \/ AskWanted(g) \/ CheckStatus(g) \/ ReportStatus(g) \/ Reconnect(g)

\* No more calls, nothing to do: the user has left.
Finished ==
  /\ UnderWay = {} /\ ~stopping /\ Monitors = {} /\ Begun = Conns
  /\ UNCHANGED vars

Next ==
  \/ \E g \in Conns : ConnectVPN(g) \/ ConnectStep(g) \/ MonitorStep(g)
  \/ StopVPN \/ DisconnectVPN
  \/ NetworkUp \/ NetworkDown
  \/ Finished

Spec == Init /\ [][Next]_vars

\* Goroutines are scheduled and vpncmd returns; the network owes nothing.
FairSpec ==
  /\ Spec
  /\ \A g \in Conns : WF_vars(ConnectStep(g)) /\ WF_vars(MonitorStep(g))
  /\ WF_vars(DisconnectVPN)

-----------------------------------------------------------------------------
(* Properties *)

\* However calls overlap, at most one monitor would go on for ever: the others'
\* channels are closed, and the open one is the channel StopVPN would close.
OneMonitorListens == \A g \in Monitors : g \in closed \/ g = current

\* Every channel is closed once: a second close() would panic.
ChannelsCloseOnce == current \notin closed

\* app.go:662 "stops monitors": a monitor whose channel is closed ends.
MonitorsStop == \A g \in Conns : (g \in closed /\ g \in Monitors) ~> g \notin Monitors

\* app.go:379 "if disconnected: auto-reconnect": while the user wants to be
\* connected, a lost connection is dialled again.
LostConnectionIsDialled ==
  (want /\ account = "off") ~> (~want \/ account # "off")

AtRest == UnderWay = {} /\ ~stopping /\ Monitors = {}

\* app.go:662 "StopVPN cleanly disconnects the VPN": when the user does not
\* want to be connected and everything has come to rest, there is no tunnel.
StopDisconnects == AtRest /\ ~want => account \notin {"trying", "up"}

=============================================================================
