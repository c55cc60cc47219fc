---------------------------- MODULE VpnClientProofs ----------------------------
(***************************************************************************)
(* However many calls of ConnectVPN and StopVPN overlap, the stop channels *)
(* of the client are closed once each, and at most one health monitor      *)
(* would go on for ever.                                                   *)
(***************************************************************************)
EXTENDS VpnClient, TLAPS

USE ConstantsOK

\* The channel of a call that has begun is closed or is the one in stopMonitor;
\* the others have not been made.
ChannelsOK ==
  /\ current # NoConn => current \in Begun
  /\ closed \subseteq Begun
  /\ \A g \in Begun : g \in closed \/ g = current

MonitorsBegun == Monitors \subseteq Begun

IInv == TypeOK /\ ChannelsOK /\ ChannelsCloseOnce /\ MonitorsBegun

LEMMA InitIInv == Init => IInv
  BY DEF Init, IInv, TypeOK, ChannelsOK, ChannelsCloseOnce, MonitorsBegun, Begun,
     Monitors, Conns, NoConn

LEMMA NoConnIsNone == NoConn \notin Conns
  BY DEF NoConn, Conns

\* A step of a call that is under way changes neither the channels nor which
\* calls have begun.
LEMMA ConnectSteps ==
  ASSUME IInv, NEW g \in Conns, ConnectStep(g)
  PROVE  IInv'
<1>1. connect[g] # "new"
  BY DEF ConnectStep, DeleteAccount, CreateAccount, CreateAccountFails, ConnectAccount,
     ConnectAccountFails, ConnectReturns, ConnectFails
<1>2. /\ UNCHANGED <<current, closed>>
      /\ \E stage \in {"setup", "dial", "wait", "failed", "done"} :
           connect' = [connect EXCEPT ![g] = stage]
      /\ monitor' \in {monitor, [monitor EXCEPT ![g] = "sleep"]}
  BY DEF ConnectStep, DeleteAccount, CreateAccount, CreateAccountFails, ConnectAccount,
     ConnectAccountFails, ConnectReturns, ConnectFails, appVars
<1>3. TypeOK'
  BY DEF IInv, TypeOK, ConnectStep, DeleteAccount, CreateAccount, CreateAccountFails,
     ConnectAccount, ConnectAccountFails, ConnectReturns, ConnectFails, appVars, Dialled
<1>4. Begun' = Begun /\ g \in Begun
  BY <1>1, <1>2 DEF Begun, IInv, TypeOK
<1>5. Monitors' \subseteq Monitors \cup {g}
  BY <1>2 DEF Monitors, IInv, TypeOK
<1>6. QED
  BY <1>2, <1>3, <1>4, <1>5 DEF IInv, ChannelsOK, ChannelsCloseOnce, MonitorsBegun

\* A monitor's step starts no monitor.
LEMMA MonitorSteps ==
  ASSUME IInv, NEW g \in Conns, MonitorStep(g)
  PROVE  IInv'
<1>1. monitor[g] # "none"
  BY DEF MonitorStep, Wake, AskWanted, CheckStatus, ReportStatus, Reconnect
<1>2. /\ UNCHANGED <<current, closed, connect>>
      /\ \E stage \in {"none", "sleep", "awake", "check", "up", "down", "dial", "backoff"} :
           monitor' = [monitor EXCEPT ![g] = stage]
  BY DEF MonitorStep, Wake, AskWanted, CheckStatus, ReportStatus, Reconnect, Goto, appVars
<1>3. TypeOK'
  BY <1>2 DEF IInv, TypeOK, MonitorStep, Wake, AskWanted, CheckStatus, ReportStatus,
     Reconnect, appVars, Dialled
<1>4. Begun' = Begun
  BY <1>2 DEF Begun
<1>5. Monitors' \subseteq Monitors
  BY <1>1, <1>2 DEF Monitors, IInv, TypeOK
<1>6. QED
  BY <1>2, <1>3, <1>4, <1>5 DEF IInv, ChannelsOK, ChannelsCloseOnce, MonitorsBegun

\* The call takes over stopMonitor and closes what was there.
LEMMA ConnectKeeps ==
  ASSUME IInv, NEW g \in Conns, ConnectVPN(g)
  PROVE  IInv'
<1>1. TypeOK'
  BY DEF IInv, TypeOK, ConnectVPN
<1>2. Begun' = Begun \cup {g} /\ g \notin Begun
  BY DEF ConnectVPN, Begun, IInv, TypeOK
<1>3. Monitors' = Monitors
  BY DEF ConnectVPN, Monitors
<1>4. closed' = closed \cup ({current} \ {NoConn}) /\ current' = g
  BY DEF ConnectVPN
<1>5. closed' \subseteq Begun
  BY <1>4 DEF IInv, ChannelsOK
<1>6. QED
  BY <1>1, <1>2, <1>3, <1>4, <1>5, NoConnIsNone DEF IInv, ChannelsOK, ChannelsCloseOnce,
     MonitorsBegun, Begun

LEMMA StopKeeps ==
  ASSUME IInv, StopVPN
  PROVE  IInv'
<1>1. TypeOK'
  BY DEF IInv, TypeOK, StopVPN
<1>2. Begun' = Begun /\ Monitors' = Monitors
  BY DEF StopVPN, Begun, Monitors
<1>3. closed' = closed \cup ({current} \ {NoConn}) /\ current' = NoConn
  BY DEF StopVPN
<1>4. NoConn \notin closed'
  BY <1>1, NoConnIsNone DEF TypeOK
<1>5. \A g \in Begun : g # NoConn
  BY NoConnIsNone DEF Begun
<1>6. QED
  BY <1>1, <1>2, <1>3, <1>4, <1>5 DEF IInv, ChannelsOK, ChannelsCloseOnce, MonitorsBegun

LEMMA NextIInv == IInv /\ [Next]_vars => IInv'
<1> SUFFICES ASSUME IInv, [Next]_vars PROVE IInv'
  OBVIOUS
<1>1. ASSUME NEW g \in Conns, ConnectVPN(g) \/ ConnectStep(g) \/ MonitorStep(g)
      PROVE  IInv'
  BY <1>1, ConnectKeeps, ConnectSteps, MonitorSteps
<1>2. CASE StopVPN
  BY <1>2, StopKeeps
<1>3. CASE DisconnectVPN \/ NetworkUp \/ NetworkDown
  <2>1. TypeOK'
    BY <1>3 DEF IInv, TypeOK, DisconnectVPN, NetworkUp, NetworkDown, appVars
  <2>2. UNCHANGED <<current, closed, connect, monitor>>
    BY <1>3 DEF DisconnectVPN, NetworkUp, NetworkDown, appVars
  <2>3. QED
    BY <2>1, <2>2 DEF IInv, ChannelsOK, ChannelsCloseOnce, MonitorsBegun, Begun, Monitors
<1>4. CASE UNCHANGED vars
  BY <1>4 DEF vars, appVars, IInv, TypeOK, ChannelsOK, ChannelsCloseOnce, MonitorsBegun,
     Begun, Monitors
<1>5. QED
  BY <1>1, <1>2, <1>3, <1>4 DEF Next, Finished

\* The invariant holds for any number of calls, overlapping in any way.
THEOREM Invariance == Spec => []IInv
  BY InitIInv, NextIInv, PTL DEF Spec

\* The state of the client is well typed.
THEOREM TypeCorrect == Spec => []TypeOK
<1>1. IInv => TypeOK
  BY DEF IInv
<1>2. QED
  BY <1>1, Invariance, PTL

\* stopMonitor never holds a closed channel, so no close() panics.
THEOREM NoDoubleClose == Spec => []ChannelsCloseOnce
<1>1. IInv => ChannelsCloseOnce
  BY DEF IInv
<1>2. QED
  BY <1>1, Invariance, PTL

\* All monitors but the one StopVPN would stop have been told to end.
THEOREM OneMonitor == Spec => []OneMonitorListens
<1>1. IInv => OneMonitorListens
  BY DEF IInv, OneMonitorListens, ChannelsOK, MonitorsBegun
<1>2. QED
  BY <1>1, Invariance, PTL

=============================================================================
