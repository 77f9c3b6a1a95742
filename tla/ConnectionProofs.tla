-------------------------- MODULE ConnectionProofs --------------------------
(* What TLAPS proves of Connection for any number of calls, clients,        *)
(* tablets and attempts.                                                    *)
EXTENDS Connection, TLAPS

USE DEF Threads

-----------------------------------------------------------------------------
(* Type correctness, one lemma for each group of actions.                   *)

LEMMA InitType == Init => TypeOK
  BY ConnectionAssumption DEF Init, TypeOK, Events, MonitorPc, NotUp, Pc, Results

(* What establishConnection leaves behind when it returns. *)
LEMMA TypeReturn ==
  ASSUME TypeOK, NEW t \in Threads, NEW r \in Results, Return(t, r)
  PROVE  /\ pc' \in [Threads -> Pc]
         /\ gen' \in [Threads -> Nat]
         /\ held' \in [Threads -> Clients \cup {Nil}]
         /\ result' \in [Threads -> Results]
         /\ attempt' \in [Threads -> 0..(MaxAttempts - 1)]
         /\ lostId' \in [Threads -> Tablets \cup {Nil}]
         /\ readId' \in [Threads -> Tablets \cup {Nil}]
  BY DEF TypeOK, Return, Pc, Results, ReconnectPc

LEMMA TypeClose ==
  ASSUME TypeOK, NEW c \in Clients \cup {Nil}, CloseIfAny(c) \/ (c # Nil /\ Close(c))
  PROVE  link' \in [Clients -> Tablets \cup NotUp]
  BY DEF TypeOK, CloseIfAny, Close, NotUp

LEMMA TypeStopMonitor ==
  ASSUME TypeOK, StopMonitor
  PROVE  /\ keepaliveStop' \in Clients \cup {Nil} /\ stopClosed' \subseteq Clients
         /\ monitor' \in [Clients -> MonitorPc]
         /\ watches' \in [Clients -> Clients \cup {Nil}]
  BY DEF TypeOK, StopMonitor

LEMMA TypeCalls ==
  ASSUME TypeOK, NEW u \in Users, Connect(u) \/ ConnectGen(u) \/ CancelConnect(u) \/ Disconnect(u)
  PROVE  TypeOK'
<1> USE ConnectionAssumption DEF TypeOK, Called, Goto, Pc, EstablishPc, DisconnectPc, CancelPc,
        dialVars, monVars, idVars, locals
<1>1. CASE Connect(u)       BY <1>1 DEF Connect
<1>2. CASE ConnectGen(u)    BY <1>2 DEF ConnectGen, Results
<1>3. CASE CancelConnect(u) BY <1>3 DEF CancelConnect
<1>4. CASE Disconnect(u)    BY <1>4 DEF Disconnect
<1> QED BY <1>1, <1>2, <1>3, <1>4

LEMMA TypeEstablish ==
  ASSUME TypeOK, NEW t \in Threads, Establish(t)
  PROVE  TypeOK'
<1> USE ConnectionAssumption DEF TypeOK, Goto, Pc, EstablishPc, connVars, dialVars, monVars, idVars, locals
<1>1. CASE EstablishStopMonitor(t)
  BY <1>1, TypeStopMonitor DEF EstablishStopMonitor
<1>2. CASE EstablishClear(t)
  BY <1>2, TypeClose DEF EstablishClear, CancelDial
<1>3. ASSUME NEW c \in Clients, NEW d \in Tablets, DialSucceeds(t, c, d) PROVE TypeOK'
  BY <1>3 DEF DialSucceeds
<1>4. ASSUME NEW r \in {"canceled", "retryable", "fatal", "auth"}, DialFails(t, r) PROVE TypeOK'
  <2>1. r \in Results
    BY DEF Results
  <2> QED BY <1>4, <2>1, TypeReturn DEF DialFails
<1>5. CASE EstablishInstall(t)
  BY <1>5 DEF EstablishInstall
<1>6. CASE EstablishSuperseded(t)
  <2>1. link' \in [Clients -> Tablets \cup NotUp]
    BY <1>6 DEF EstablishSuperseded, Close, NotUp
  <2> QED BY <1>6, <2>1, TypeReturn DEF EstablishSuperseded, Results
<1>7. CASE ProbeNoise(t)
  BY <1>7 DEF ProbeNoise
<1>8. CASE ProbeQuiet(t)
  BY <1>8 DEF ProbeQuiet
<1>9. CASE EstablishRefuse(t)
  <2>1. link' \in [Clients -> Tablets \cup NotUp]
    BY <1>9 DEF EstablishRefuse, Close, NotUp
  <2> QED BY <1>9, <2>1, TypeReturn DEF EstablishRefuse, Results
<1>10. CASE EstablishWatch(t)
  BY <1>10 DEF EstablishWatch, MonitorPc
<1>11. CASE EstablishCheckGen(t)
  BY <1>11 DEF EstablishCheckGen
<1>12. CASE EstablishUnwatch(t)
  BY <1>12, TypeStopMonitor, TypeReturn DEF EstablishUnwatch, Results
<1>13. ASSUME NEW id \in Tablets \cup {Nil}, EstablishDetect(t, id) PROVE TypeOK'
  BY <1>13 DEF EstablishDetect
<1>14. CASE EstablishUndetected(t)
  BY <1>14, TypeReturn DEF EstablishUndetected, Results
<1>15. CASE EstablishRecord(t)
  BY <1>15, TypeReturn DEF EstablishRecord, Results
<1> QED BY <1>1, <1>2, <1>3, <1>4, <1>5, <1>6, <1>7, <1>8, <1>9, <1>10, <1>11, <1>12, <1>13, <1>14,
           <1>15 DEF Establish

LEMMA TypeDisconnecting ==
  ASSUME TypeOK, NEW t \in Threads, Disconnecting(t)
  PROVE  TypeOK'
<1> USE ConnectionAssumption DEF TypeOK, Goto, Pc, DisconnectPc, CancelPc, ReconnectPc, connVars, dialVars,
        monVars, idVars, locals
<1>1. CASE CloseLive(t, "cancelLive", "cancelDial") \/ CloseLive(t, "closeLive", "stopWatch")
  BY <1>1, TypeClose DEF CloseLive
<1>2. CASE CancelDialing(t)
  BY <1>2 DEF CancelDialing, CancelDial
<1>3. CASE DisconnectStopReconnect(t)
  BY <1>3 DEF DisconnectStopReconnect
<1>4. CASE DisconnectGen(t)
  BY <1>4 DEF DisconnectGen
<1>5. CASE DisconnectStopMonitor(t)
  BY <1>5, TypeStopMonitor DEF DisconnectStopMonitor
<1>6. CASE DisconnectReset(t)
  BY <1>6, TypeClose DEF DisconnectReset, CancelDial
<1> QED BY <1>1, <1>2, <1>3, <1>4, <1>5, <1>6 DEF Disconnecting

LEMMA TypeMonitoring ==
  ASSUME TypeOK, NEW c \in Clients, Monitoring(c)
  PROVE  TypeOK'
<1> USE DEF TypeOK, Goto, Pc, ReconnectPc, MonitorPc, connVars, dialVars, idVars, locals
<1>1. CASE MonitorStart(c)  BY <1>1 DEF MonitorStart
<1>2. CASE MonitorStops(c)  BY <1>2 DEF MonitorStops
<1>3. CASE MonitorFails(c)  BY <1>3 DEF MonitorFails, Close, NotUp
<1>4. CASE LossIgnored(c)   BY <1>4 DEF LossIgnored
<1>5. CASE LossHandled(c)   BY <1>5 DEF LossHandled
<1>6. CASE LossReported(c)  BY <1>6 DEF LossReported, Events
<1> QED BY <1>1, <1>2, <1>3, <1>4, <1>5, <1>6 DEF Monitoring

LEMMA TypeReconnecting ==
  ASSUME TypeOK, NEW c \in Clients, Reconnecting(c)
  PROVE  TypeOK'
<1> USE ConnectionAssumption DEF TypeOK, Goto, Pc, EstablishPc, DisconnectPc, ReconnectPc, Events, Results,
        connVars, dialVars, monVars, idVars, locals
<1>1. CASE ReconnectBegin(c)       BY <1>1 DEF ReconnectBegin
<1>2. CASE ReconnectTop(c)         BY <1>2 DEF ReconnectTop
<1>3. CASE ReconnectGivesUp(c)     BY <1>3 DEF ReconnectGivesUp
<1>4. CASE ReconnectForget(c)      BY <1>4 DEF ReconnectForget
<1>5. CASE ReconnectFailed(c)      BY <1>5 DEF ReconnectFailed
<1>6. CASE ReconnectSucceeds(c)    BY <1>6 DEF ReconnectSucceeds
<1>7. CASE ReconnectCompare(c)     BY <1>7 DEF ReconnectCompare
<1>8. CASE ReconnectRestored(c)    BY <1>8 DEF ReconnectRestored
<1>9. CASE ReconnectRetry(c)       BY <1>9 DEF ReconnectRetry
<1>10. CASE ReconnectBackoffEnds(c) BY <1>10 DEF ReconnectBackoffEnds
<1>11. CASE ReconnectExhausted(c)  BY <1>11 DEF ReconnectExhausted
<1>12. CASE ReconnectEnd(c)        BY <1>12 DEF ReconnectEnd
<1> QED BY <1>1, <1>2, <1>3, <1>4, <1>5, <1>6, <1>7, <1>8, <1>9, <1>10, <1>11, <1>12 DEF Reconnecting

LEMMA TypeStep == TypeOK /\ [Next]_vars => TypeOK'
<1> SUFFICES ASSUME TypeOK, [Next]_vars PROVE TypeOK'
  OBVIOUS
<1>1. ASSUME NEW c \in Clients, LinkDies(c) PROVE TypeOK'
  BY <1>1 DEF TypeOK, LinkDies, NotUp, connVars, dialVars, monVars, idVars, locals
<1>2. CASE UNCHANGED vars
  BY <1>2 DEF TypeOK, vars, connVars, dialVars, monVars, idVars, locals
<1> QED BY <1>1, <1>2, TypeCalls, TypeEstablish, TypeDisconnecting, TypeMonitoring, TypeReconnecting DEF Next

(* In every behaviour each variable holds a value of its type; in           *)
(* particular no reconnect counts past maxReconnectAttempts.                *)
THEOREM TypeCorrect == Spec => []TypeOK
  BY InitType, TypeStep, PTL DEF Spec

-----------------------------------------------------------------------------
(* Generations: no thread and no connection is ahead of connGen, and one    *)
(* that has the newest generation got it from the newest Connect.  A call   *)
(* that is connecting has no result yet.                                    *)
GenInv ==
  /\ userGen <= connGen
  /\ currentConn <= connGen
  /\ currentConn = connGen => userGen = connGen
  /\ \A t \in Threads : gen[t] <= connGen /\ (gen[t] = connGen => userGen = connGen)
  /\ \A u \in Users : pc[u] \in EstablishPc => result[u] = "none"

LEMMA GenCalls ==
  ASSUME TypeOK, GenInv, NEW u \in Users, Connect(u) \/ ConnectGen(u) \/ CancelConnect(u) \/ Disconnect(u)
  PROVE  GenInv'
<1> USE ConnectionAssumption DEF GenInv, TypeOK, Called, Goto, EstablishPc, DisconnectPc, CancelPc, ReconnectPc, connVars, dialVars, monVars, idVars, locals
<1>1. CASE Connect(u)
  BY <1>1 DEF Connect
<1>2. CASE ConnectGen(u)
  BY <1>2 DEF ConnectGen
<1>3. CASE CancelConnect(u)
  BY <1>3 DEF CancelConnect
<1>4. CASE Disconnect(u)
  BY <1>4 DEF Disconnect
<1> QED BY <1>1, <1>2, <1>3, <1>4

LEMMA GenEstablish ==
  ASSUME TypeOK, GenInv, NEW t \in Threads, Establish(t)
  PROVE  GenInv'
<1> USE ConnectionAssumption DEF GenInv, TypeOK, Called, Goto, EstablishPc, DisconnectPc, CancelPc, ReconnectPc, connVars, dialVars, monVars, idVars, locals
<1>1. CASE EstablishStopMonitor(t)
  BY <1>1 DEF EstablishStopMonitor
<1>2. CASE EstablishClear(t)
  BY <1>2 DEF EstablishClear
<1>3. ASSUME NEW c \in Clients, NEW d \in Tablets, DialSucceeds(t, c, d) PROVE GenInv'
  BY <1>3 DEF DialSucceeds
<1>4. ASSUME NEW r \in {"canceled", "retryable", "fatal", "auth"}, DialFails(t, r) PROVE GenInv'
  BY <1>4 DEF DialFails, Return
<1>5. CASE EstablishInstall(t)
  BY <1>5 DEF EstablishInstall
<1>6. CASE EstablishSuperseded(t)
  BY <1>6 DEF EstablishSuperseded, Return
<1>7. CASE ProbeNoise(t)
  BY <1>7 DEF ProbeNoise
<1>8. CASE ProbeQuiet(t)
  BY <1>8 DEF ProbeQuiet
<1>9. CASE EstablishRefuse(t)
  BY <1>9 DEF EstablishRefuse, Return
<1>10. CASE EstablishWatch(t)
  BY <1>10 DEF EstablishWatch
<1>11. CASE EstablishCheckGen(t)
  BY <1>11 DEF EstablishCheckGen
<1>12. CASE EstablishUnwatch(t)
  BY <1>12 DEF EstablishUnwatch, Return
<1>13. ASSUME NEW id \in Tablets \cup {Nil}, EstablishDetect(t, id) PROVE GenInv'
  BY <1>13 DEF EstablishDetect
<1>14. CASE EstablishUndetected(t)
  BY <1>14 DEF EstablishUndetected, Return
<1>15. CASE EstablishRecord(t)
  BY <1>15 DEF EstablishRecord, Return
<1> QED BY <1>1, <1>2, <1>3, <1>4, <1>5, <1>6, <1>7, <1>8, <1>9, <1>10, <1>11, <1>12, <1>13, <1>14,
           <1>15 DEF Establish

LEMMA GenDisconnecting ==
  ASSUME TypeOK, GenInv, NEW t \in Threads, Disconnecting(t)
  PROVE  GenInv'
<1> USE ConnectionAssumption DEF GenInv, TypeOK, Called, Goto, EstablishPc, DisconnectPc, CancelPc, ReconnectPc, connVars, dialVars, monVars, idVars, locals
<1>1. CASE CloseLive(t, "cancelLive", "cancelDial")
  BY <1>1 DEF CloseLive
<1>2. CASE CancelDialing(t)
  BY <1>2 DEF CancelDialing
<1>3. CASE DisconnectStopReconnect(t)
  BY <1>3 DEF DisconnectStopReconnect
<1>4. CASE DisconnectGen(t)
  BY <1>4 DEF DisconnectGen
<1>5. CASE CloseLive(t, "closeLive", "stopWatch")
  BY <1>5 DEF CloseLive
<1>6. CASE DisconnectStopMonitor(t)
  BY <1>6 DEF DisconnectStopMonitor
<1>7. CASE DisconnectReset(t)
  BY <1>7 DEF DisconnectReset
<1> QED BY <1>1, <1>2, <1>3, <1>4, <1>5, <1>6, <1>7 DEF Disconnecting

LEMMA GenMonitoring ==
  ASSUME TypeOK, GenInv, NEW c \in Clients, Monitoring(c)
  PROVE  GenInv'
<1> USE ConnectionAssumption DEF GenInv, TypeOK, Called, Goto, EstablishPc, DisconnectPc, CancelPc, ReconnectPc, connVars, dialVars, monVars, idVars, locals
<1>1. CASE MonitorStart(c)
  BY <1>1 DEF MonitorStart
<1>2. CASE MonitorStops(c)
  BY <1>2 DEF MonitorStops
<1>3. CASE MonitorFails(c)
  BY <1>3 DEF MonitorFails
<1>4. CASE LossIgnored(c)
  BY <1>4 DEF LossIgnored
<1>5. CASE LossHandled(c)
  BY <1>5 DEF LossHandled
<1>6. CASE LossReported(c)
  BY <1>6 DEF LossReported
<1> QED BY <1>1, <1>2, <1>3, <1>4, <1>5, <1>6 DEF Monitoring

LEMMA GenReconnecting ==
  ASSUME TypeOK, GenInv, NEW c \in Clients, Reconnecting(c)
  PROVE  GenInv'
<1> USE ConnectionAssumption DEF GenInv, TypeOK, Called, Goto, EstablishPc, DisconnectPc, CancelPc, ReconnectPc, connVars, dialVars, monVars, idVars, locals
<1>1. CASE ReconnectBegin(c)
  BY <1>1 DEF ReconnectBegin
<1>2. CASE ReconnectTop(c)
  BY <1>2 DEF ReconnectTop
<1>3. CASE ReconnectGivesUp(c)
  BY <1>3 DEF ReconnectGivesUp
<1>4. CASE ReconnectForget(c)
  BY <1>4 DEF ReconnectForget
<1>5. CASE ReconnectFailed(c)
  BY <1>5 DEF ReconnectFailed
<1>6. CASE ReconnectSucceeds(c)
  BY <1>6 DEF ReconnectSucceeds
<1>7. CASE ReconnectCompare(c)
  BY <1>7 DEF ReconnectCompare
<1>8. CASE ReconnectRestored(c)
  BY <1>8 DEF ReconnectRestored
<1>9. CASE ReconnectRetry(c)
  BY <1>9 DEF ReconnectRetry
<1>10. CASE ReconnectBackoffEnds(c)
  BY <1>10 DEF ReconnectBackoffEnds
<1>11. CASE ReconnectExhausted(c)
  BY <1>11 DEF ReconnectExhausted
<1>12. CASE ReconnectEnd(c)
  BY <1>12 DEF ReconnectEnd
<1> QED BY <1>1, <1>2, <1>3, <1>4, <1>5, <1>6, <1>7, <1>8, <1>9, <1>10, <1>11, <1>12 DEF
           Reconnecting

LEMMA GenStep == TypeOK /\ GenInv /\ [Next]_vars => GenInv'
<1> SUFFICES ASSUME TypeOK, GenInv, [Next]_vars PROVE GenInv'
  OBVIOUS
<1>1. ASSUME NEW c \in Clients, LinkDies(c) PROVE GenInv'
  BY <1>1 DEF GenInv, LinkDies, TypeOK, Called, connVars, dialVars, monVars, idVars, locals
<1>2. CASE UNCHANGED vars
  BY <1>2 DEF GenInv, vars, TypeOK, Called, connVars, dialVars, monVars, idVars, locals
<1> QED BY <1>1, <1>2, GenCalls, GenEstablish, GenDisconnecting, GenMonitoring, GenReconnecting DEF Next

-----------------------------------------------------------------------------
(* A stale client is being ended.                                           *)

LEMMA StaleCalls ==
  ASSUME TypeOK, StaleClientIsEnding, NEW u \in Users, Connect(u) \/ ConnectGen(u) \/ CancelConnect(u) \/ Disconnect(u)
  PROVE  StaleClientIsEnding'
<1> USE DEF StaleClientIsEnding, Refused, TypeOK, Ending, Goto, Called, EstablishPc, DisconnectPc, CancelPc, ReconnectPc, connVars, dialVars, monVars, idVars, locals
<1>1. CASE Connect(u)
  BY <1>1 DEF Connect
<1>2. CASE ConnectGen(u)
  BY <1>2 DEF ConnectGen
<1>3. CASE CancelConnect(u)
  BY <1>3 DEF CancelConnect
<1>4. CASE Disconnect(u)
  BY <1>4 DEF Disconnect
<1> QED BY <1>1, <1>2, <1>3, <1>4

LEMMA StaleEstablish ==
  ASSUME TypeOK, GenInv, StaleClientIsEnding, NEW t \in Threads, Establish(t)
  PROVE  StaleClientIsEnding'
<1> USE DEF StaleClientIsEnding, Refused, TypeOK, Ending, Goto, Called, EstablishPc, DisconnectPc, CancelPc, ReconnectPc, connVars, dialVars, monVars, idVars, locals
<1>1. CASE EstablishStopMonitor(t)
  BY <1>1 DEF EstablishStopMonitor
<1>2. CASE EstablishClear(t)
  BY <1>2 DEF EstablishClear
<1>3. ASSUME NEW c \in Clients, NEW d \in Tablets, DialSucceeds(t, c, d) PROVE StaleClientIsEnding'
  BY <1>3 DEF DialSucceeds
<1>4. ASSUME NEW r \in {"canceled", "retryable", "fatal", "auth"}, DialFails(t, r) PROVE StaleClientIsEnding'
  BY <1>4 DEF DialFails, Return, GenInv
<1>5. CASE EstablishInstall(t)
  BY <1>5 DEF EstablishInstall
<1>6. CASE EstablishSuperseded(t)
  BY <1>6 DEF EstablishSuperseded, Return, GenInv
<1>7. CASE ProbeNoise(t)
  BY <1>7 DEF ProbeNoise
<1>8. CASE ProbeQuiet(t)
  BY <1>8 DEF ProbeQuiet
<1>9. CASE EstablishRefuse(t)
  BY <1>9 DEF EstablishRefuse, Return, GenInv
<1>10. CASE EstablishWatch(t)
  BY <1>10 DEF EstablishWatch
<1>11. CASE EstablishCheckGen(t)
  BY <1>11 DEF EstablishCheckGen
<1>12. CASE EstablishUnwatch(t)
  BY <1>12 DEF EstablishUnwatch, Return, GenInv
<1>13. ASSUME NEW id \in Tablets \cup {Nil}, EstablishDetect(t, id) PROVE StaleClientIsEnding'
  BY <1>13 DEF EstablishDetect
<1>14. CASE EstablishUndetected(t)
  BY <1>14 DEF EstablishUndetected, Return, GenInv
<1>15. CASE EstablishRecord(t)
  BY <1>15 DEF EstablishRecord, Return, GenInv
<1> QED BY <1>1, <1>2, <1>3, <1>4, <1>5, <1>6, <1>7, <1>8, <1>9, <1>10, <1>11, <1>12, <1>13, <1>14,
           <1>15 DEF Establish

LEMMA StaleDisconnecting ==
  ASSUME TypeOK, StaleClientIsEnding, NEW t \in Threads, Disconnecting(t)
  PROVE  StaleClientIsEnding'
<1> USE DEF StaleClientIsEnding, Refused, TypeOK, Ending, Goto, Called, EstablishPc, DisconnectPc, CancelPc, ReconnectPc, connVars, dialVars, monVars, idVars, locals
<1>1. CASE CloseLive(t, "cancelLive", "cancelDial")
  BY <1>1 DEF CloseLive
<1>2. CASE CancelDialing(t)
  BY <1>2 DEF CancelDialing
<1>3. CASE DisconnectStopReconnect(t)
  BY <1>3 DEF DisconnectStopReconnect
<1>4. CASE DisconnectGen(t)
  BY <1>4 DEF DisconnectGen
<1>5. CASE CloseLive(t, "closeLive", "stopWatch")
  BY <1>5 DEF CloseLive
<1>6. CASE DisconnectStopMonitor(t)
  BY <1>6 DEF DisconnectStopMonitor
<1>7. CASE DisconnectReset(t)
  BY <1>7 DEF DisconnectReset
<1> QED BY <1>1, <1>2, <1>3, <1>4, <1>5, <1>6, <1>7 DEF Disconnecting

LEMMA StaleMonitoring ==
  ASSUME TypeOK, StaleClientIsEnding, NEW c \in Clients, Monitoring(c)
  PROVE  StaleClientIsEnding'
<1> USE DEF StaleClientIsEnding, Refused, TypeOK, Ending, Goto, Called, EstablishPc, DisconnectPc, CancelPc, ReconnectPc, connVars, dialVars, monVars, idVars, locals
<1>1. CASE MonitorStart(c)
  BY <1>1 DEF MonitorStart
<1>2. CASE MonitorStops(c)
  BY <1>2 DEF MonitorStops
<1>3. CASE MonitorFails(c)
  BY <1>3 DEF MonitorFails
<1>4. CASE LossIgnored(c)
  BY <1>4 DEF LossIgnored
<1>5. CASE LossHandled(c)
  BY <1>5 DEF LossHandled
<1>6. CASE LossReported(c)
  BY <1>6 DEF LossReported
<1> QED BY <1>1, <1>2, <1>3, <1>4, <1>5, <1>6 DEF Monitoring

LEMMA StaleReconnecting ==
  ASSUME TypeOK, StaleClientIsEnding, NEW c \in Clients, Reconnecting(c)
  PROVE  StaleClientIsEnding'
<1> USE DEF StaleClientIsEnding, Refused, TypeOK, Ending, Goto, Called, EstablishPc, DisconnectPc, CancelPc, ReconnectPc, connVars, dialVars, monVars, idVars, locals
<1>1. CASE ReconnectBegin(c)
  BY <1>1 DEF ReconnectBegin
<1>2. CASE ReconnectTop(c)
  BY <1>2 DEF ReconnectTop
<1>3. CASE ReconnectGivesUp(c)
  BY <1>3 DEF ReconnectGivesUp
<1>4. CASE ReconnectForget(c)
  BY <1>4 DEF ReconnectForget
<1>5. CASE ReconnectFailed(c)
  BY <1>5 DEF ReconnectFailed
<1>6. CASE ReconnectSucceeds(c)
  BY <1>6 DEF ReconnectSucceeds
<1>7. CASE ReconnectCompare(c)
  BY <1>7 DEF ReconnectCompare
<1>8. CASE ReconnectRestored(c)
  BY <1>8 DEF ReconnectRestored
<1>9. CASE ReconnectRetry(c)
  BY <1>9 DEF ReconnectRetry
<1>10. CASE ReconnectBackoffEnds(c)
  BY <1>10 DEF ReconnectBackoffEnds
<1>11. CASE ReconnectExhausted(c)
  BY <1>11 DEF ReconnectExhausted
<1>12. CASE ReconnectEnd(c)
  BY <1>12, ConnectionAssumption DEF ReconnectEnd
<1> QED BY <1>1, <1>2, <1>3, <1>4, <1>5, <1>6, <1>7, <1>8, <1>9, <1>10, <1>11, <1>12 DEF
           Reconnecting

LEMMA StaleStep == TypeOK /\ GenInv /\ StaleClientIsEnding /\ [Next]_vars => StaleClientIsEnding'
<1> SUFFICES ASSUME TypeOK, GenInv, StaleClientIsEnding, [Next]_vars PROVE StaleClientIsEnding'
  OBVIOUS
<1>1. ASSUME NEW c \in Clients, LinkDies(c) PROVE StaleClientIsEnding'
  BY <1>1 DEF StaleClientIsEnding, Refused, LinkDies, TypeOK, Ending, Goto, Called, EstablishPc, DisconnectPc, CancelPc, ReconnectPc, connVars, dialVars, monVars, idVars, locals
<1>2. CASE UNCHANGED vars
  BY <1>2 DEF StaleClientIsEnding, Refused, vars, TypeOK, Ending, Goto, Called, EstablishPc, DisconnectPc, CancelPc, ReconnectPc, connVars, dialVars, monVars, idVars, locals
<1> QED BY <1>1, <1>2, StaleCalls, StaleEstablish, StaleDisconnecting, StaleMonitoring, StaleReconnecting DEF Next

-----------------------------------------------------------------------------
(* Nothing comes back after a disconnect.                                   *)

LEMMA RevivalCalls ==
  ASSUME TypeOK, GenInv, NoRevival, NEW u \in Users, Connect(u) \/ ConnectGen(u) \/ CancelConnect(u) \/ Disconnect(u)
  PROVE  NoRevival'
<1> USE DEF NoRevival, TypeOK, GenInv, Goto, Called, EstablishPc, DisconnectPc, CancelPc, ReconnectPc, connVars, dialVars, monVars, idVars, locals
<1>1. CASE Connect(u)
  BY <1>1 DEF Connect
<1>2. CASE ConnectGen(u)
  BY <1>2 DEF ConnectGen
<1>3. CASE CancelConnect(u)
  BY <1>3 DEF CancelConnect
<1>4. CASE Disconnect(u)
  BY <1>4 DEF Disconnect
<1> QED BY <1>1, <1>2, <1>3, <1>4

LEMMA RevivalEstablish ==
  ASSUME TypeOK, GenInv, NoRevival, NEW t \in Threads, Establish(t)
  PROVE  NoRevival'
<1> USE DEF NoRevival, TypeOK, GenInv, Goto, Called, EstablishPc, DisconnectPc, CancelPc, ReconnectPc, connVars, dialVars, monVars, idVars, locals
<1>1. CASE EstablishStopMonitor(t)
  BY <1>1 DEF EstablishStopMonitor
<1>2. CASE EstablishClear(t)
  BY <1>2 DEF EstablishClear
<1>3. ASSUME NEW c \in Clients, NEW d \in Tablets, DialSucceeds(t, c, d) PROVE NoRevival'
  BY <1>3 DEF DialSucceeds
<1>4. ASSUME NEW r \in {"canceled", "retryable", "fatal", "auth"}, DialFails(t, r) PROVE NoRevival'
  BY <1>4 DEF DialFails, Return
<1>5. CASE EstablishInstall(t)
  BY <1>5 DEF EstablishInstall
<1>6. CASE EstablishSuperseded(t)
  BY <1>6 DEF EstablishSuperseded, Return
<1>7. CASE ProbeNoise(t)
  BY <1>7 DEF ProbeNoise
<1>8. CASE ProbeQuiet(t)
  BY <1>8 DEF ProbeQuiet
<1>9. CASE EstablishRefuse(t)
  BY <1>9 DEF EstablishRefuse, Return
<1>10. CASE EstablishWatch(t)
  BY <1>10 DEF EstablishWatch
<1>11. CASE EstablishCheckGen(t)
  BY <1>11 DEF EstablishCheckGen
<1>12. CASE EstablishUnwatch(t)
  BY <1>12 DEF EstablishUnwatch, Return
<1>13. ASSUME NEW id \in Tablets \cup {Nil}, EstablishDetect(t, id) PROVE NoRevival'
  BY <1>13 DEF EstablishDetect
<1>14. CASE EstablishUndetected(t)
  BY <1>14 DEF EstablishUndetected, Return
<1>15. CASE EstablishRecord(t)
  BY <1>15 DEF EstablishRecord, Return
<1> QED BY <1>1, <1>2, <1>3, <1>4, <1>5, <1>6, <1>7, <1>8, <1>9, <1>10, <1>11, <1>12, <1>13, <1>14,
           <1>15 DEF Establish

LEMMA RevivalDisconnecting ==
  ASSUME TypeOK, GenInv, NoRevival, NEW t \in Threads, Disconnecting(t)
  PROVE  NoRevival'
<1> USE DEF NoRevival, TypeOK, GenInv, Goto, Called, EstablishPc, DisconnectPc, CancelPc, ReconnectPc, connVars, dialVars, monVars, idVars, locals
<1>1. CASE CloseLive(t, "cancelLive", "cancelDial")
  BY <1>1 DEF CloseLive
<1>2. CASE CancelDialing(t)
  BY <1>2 DEF CancelDialing
<1>3. CASE DisconnectStopReconnect(t)
  BY <1>3 DEF DisconnectStopReconnect
<1>4. CASE DisconnectGen(t)
  BY <1>4 DEF DisconnectGen
<1>5. CASE CloseLive(t, "closeLive", "stopWatch")
  BY <1>5 DEF CloseLive
<1>6. CASE DisconnectStopMonitor(t)
  BY <1>6 DEF DisconnectStopMonitor
<1>7. CASE DisconnectReset(t)
  BY <1>7 DEF DisconnectReset
<1> QED BY <1>1, <1>2, <1>3, <1>4, <1>5, <1>6, <1>7 DEF Disconnecting

LEMMA RevivalMonitoring ==
  ASSUME TypeOK, GenInv, NoRevival, NEW c \in Clients, Monitoring(c)
  PROVE  NoRevival'
<1> USE DEF NoRevival, TypeOK, GenInv, Goto, Called, EstablishPc, DisconnectPc, CancelPc, ReconnectPc, connVars, dialVars, monVars, idVars, locals
<1>1. CASE MonitorStart(c)
  BY <1>1 DEF MonitorStart
<1>2. CASE MonitorStops(c)
  BY <1>2 DEF MonitorStops
<1>3. CASE MonitorFails(c)
  BY <1>3 DEF MonitorFails
<1>4. CASE LossIgnored(c)
  BY <1>4 DEF LossIgnored
<1>5. CASE LossHandled(c)
  BY <1>5 DEF LossHandled
<1>6. CASE LossReported(c)
  BY <1>6 DEF LossReported
<1> QED BY <1>1, <1>2, <1>3, <1>4, <1>5, <1>6 DEF Monitoring

LEMMA RevivalReconnecting ==
  ASSUME TypeOK, GenInv, NoRevival, NEW c \in Clients, Reconnecting(c)
  PROVE  NoRevival'
<1> USE DEF NoRevival, TypeOK, GenInv, Goto, Called, EstablishPc, DisconnectPc, CancelPc, ReconnectPc, connVars, dialVars, monVars, idVars, locals
<1>1. CASE ReconnectBegin(c)
  BY <1>1 DEF ReconnectBegin
<1>2. CASE ReconnectTop(c)
  BY <1>2 DEF ReconnectTop
<1>3. CASE ReconnectGivesUp(c)
  BY <1>3 DEF ReconnectGivesUp
<1>4. CASE ReconnectForget(c)
  BY <1>4 DEF ReconnectForget
<1>5. CASE ReconnectFailed(c)
  BY <1>5 DEF ReconnectFailed
<1>6. CASE ReconnectSucceeds(c)
  BY <1>6 DEF ReconnectSucceeds
<1>7. CASE ReconnectCompare(c)
  BY <1>7 DEF ReconnectCompare
<1>8. CASE ReconnectRestored(c)
  BY <1>8 DEF ReconnectRestored
<1>9. CASE ReconnectRetry(c)
  BY <1>9 DEF ReconnectRetry
<1>10. CASE ReconnectBackoffEnds(c)
  BY <1>10 DEF ReconnectBackoffEnds
<1>11. CASE ReconnectExhausted(c)
  BY <1>11 DEF ReconnectExhausted
<1>12. CASE ReconnectEnd(c)
  BY <1>12 DEF ReconnectEnd
<1> QED BY <1>1, <1>2, <1>3, <1>4, <1>5, <1>6, <1>7, <1>8, <1>9, <1>10, <1>11, <1>12 DEF
           Reconnecting

LEMMA RevivalStep == TypeOK /\ GenInv /\ NoRevival /\ [Next]_vars => NoRevival'
<1> SUFFICES ASSUME TypeOK, GenInv, NoRevival, [Next]_vars PROVE NoRevival'
  OBVIOUS
<1>1. ASSUME NEW c \in Clients, LinkDies(c) PROVE NoRevival'
  BY <1>1 DEF NoRevival, LinkDies, TypeOK, GenInv, Goto, Called, EstablishPc, DisconnectPc, CancelPc, ReconnectPc, connVars, dialVars, monVars, idVars, locals
<1>2. CASE UNCHANGED vars
  BY <1>2 DEF NoRevival, vars, TypeOK, GenInv, Goto, Called, EstablishPc, DisconnectPc, CancelPc, ReconnectPc, connVars, dialVars, monVars, idVars, locals
<1> QED BY <1>1, <1>2, RevivalCalls, RevivalEstablish, RevivalDisconnecting, RevivalMonitoring, RevivalReconnecting DEF Next

-----------------------------------------------------------------------------
(* What a Disconnect leaves.  Until the thread that disconnects has reset   *)
(* the rest, it is on its way; a stop channel that a connect has put there  *)
(* meanwhile is taken away by that connect, which finds its generation past.*)
(* A reconnect that is current has a goroutine.                             *)
LeftInv ==
  /\ userGen # connGen =>
       /\ currentConn # 0 \/ connectedId # Nil \/ lastId # Nil =>
            \E t \in Threads : pc[t] \in DisconnectPc \cup CancelPc
       /\ keepaliveStop # Nil =>
            \E t \in Threads :
              \/ pc[t] \in (DisconnectPc \cup CancelPc) \ {"reset"}
              \/ pc[t] = "unwatch"
              \/ pc[t] = "checkGen" /\ gen[t] # connGen
  /\ \A c \in Clients : reconnect = c => pc[c] \notin {"idle", "begin"}

LEMMA LeftCalls ==
  ASSUME TypeOK, GenInv, LeftInv, NEW u \in Users, Connect(u) \/ ConnectGen(u) \/ CancelConnect(u) \/ Disconnect(u)
  PROVE  LeftInv'
<1> USE ConnectionAssumption DEF LeftInv, TypeOK, GenInv, Goto, Called, EstablishPc, DisconnectPc, CancelPc, ReconnectPc, connVars, dialVars, monVars, idVars, locals
<1>1. CASE Connect(u)
  BY <1>1 DEF Connect
<1>2. CASE ConnectGen(u)
  BY <1>2 DEF ConnectGen
<1>3. CASE CancelConnect(u)
  BY <1>3 DEF CancelConnect
<1>4. CASE Disconnect(u)
  BY <1>4 DEF Disconnect
<1> QED BY <1>1, <1>2, <1>3, <1>4

LEMMA LeftEstablish ==
  ASSUME TypeOK, GenInv, LeftInv, NEW t \in Threads, Establish(t)
  PROVE  LeftInv'
<1> USE ConnectionAssumption DEF LeftInv, TypeOK, GenInv, Goto, Called, EstablishPc, DisconnectPc, CancelPc, ReconnectPc, connVars, dialVars, monVars, idVars, locals
<1>1. CASE EstablishStopMonitor(t)
  BY <1>1 DEF EstablishStopMonitor, StopMonitor
<1>2. CASE EstablishClear(t)
  BY <1>2 DEF EstablishClear
<1>3. ASSUME NEW c \in Clients, NEW d \in Tablets, DialSucceeds(t, c, d) PROVE LeftInv'
  BY <1>3 DEF DialSucceeds
<1>4. ASSUME NEW r \in {"canceled", "retryable", "fatal", "auth"}, DialFails(t, r) PROVE LeftInv'
  BY <1>4 DEF DialFails, Return
<1>5. CASE EstablishInstall(t)
  BY <1>5 DEF EstablishInstall
<1>6. CASE EstablishSuperseded(t)
  BY <1>6 DEF EstablishSuperseded, Return
<1>7. CASE ProbeNoise(t)
  BY <1>7 DEF ProbeNoise
<1>8. CASE ProbeQuiet(t)
  BY <1>8 DEF ProbeQuiet
<1>9. CASE EstablishRefuse(t)
  BY <1>9 DEF EstablishRefuse, Return
<1>10. CASE EstablishWatch(t)
  BY <1>10 DEF EstablishWatch
<1>11. CASE EstablishCheckGen(t)
  BY <1>11 DEF EstablishCheckGen
<1>12. CASE EstablishUnwatch(t)
  BY <1>12 DEF EstablishUnwatch, Return, StopMonitor
<1>13. ASSUME NEW id \in Tablets \cup {Nil}, EstablishDetect(t, id) PROVE LeftInv'
  BY <1>13 DEF EstablishDetect
<1>14. CASE EstablishUndetected(t)
  BY <1>14 DEF EstablishUndetected, Return
<1>15. CASE EstablishRecord(t)
  BY <1>15 DEF EstablishRecord, Return
<1> QED BY <1>1, <1>2, <1>3, <1>4, <1>5, <1>6, <1>7, <1>8, <1>9, <1>10, <1>11, <1>12, <1>13, <1>14,
           <1>15 DEF Establish

LEMMA LeftDisconnecting ==
  ASSUME TypeOK, GenInv, LeftInv, NEW t \in Threads, Disconnecting(t)
  PROVE  LeftInv'
<1> USE ConnectionAssumption DEF LeftInv, TypeOK, GenInv, Goto, Called, EstablishPc, DisconnectPc, CancelPc, ReconnectPc, connVars, dialVars, monVars, idVars, locals
<1>1. CASE CloseLive(t, "cancelLive", "cancelDial")
  BY <1>1 DEF CloseLive
<1>2. CASE CancelDialing(t)
  BY <1>2 DEF CancelDialing
<1>3. CASE DisconnectStopReconnect(t)
  BY <1>3 DEF DisconnectStopReconnect
<1>4. CASE DisconnectGen(t)
  BY <1>4 DEF DisconnectGen
<1>5. CASE CloseLive(t, "closeLive", "stopWatch")
  BY <1>5 DEF CloseLive
<1>6. CASE DisconnectStopMonitor(t)
  BY <1>6 DEF DisconnectStopMonitor, StopMonitor
<1>7. CASE DisconnectReset(t)
  BY <1>7 DEF DisconnectReset
<1> QED BY <1>1, <1>2, <1>3, <1>4, <1>5, <1>6, <1>7 DEF Disconnecting

LEMMA LeftMonitoring ==
  ASSUME TypeOK, GenInv, LeftInv, NEW c \in Clients, Monitoring(c)
  PROVE  LeftInv'
<1> USE ConnectionAssumption DEF LeftInv, TypeOK, GenInv, Goto, Called, EstablishPc, DisconnectPc, CancelPc, ReconnectPc, connVars, dialVars, monVars, idVars, locals
<1>1. CASE MonitorStart(c)
  BY <1>1 DEF MonitorStart
<1>2. CASE MonitorStops(c)
  BY <1>2 DEF MonitorStops
<1>3. CASE MonitorFails(c)
  BY <1>3 DEF MonitorFails
<1>4. CASE LossIgnored(c)
  BY <1>4 DEF LossIgnored
<1>5. CASE LossHandled(c)
  BY <1>5 DEF LossHandled
<1>6. CASE LossReported(c)
  BY <1>6 DEF LossReported
<1> QED BY <1>1, <1>2, <1>3, <1>4, <1>5, <1>6 DEF Monitoring

LEMMA LeftReconnecting ==
  ASSUME TypeOK, GenInv, LeftInv, NEW c \in Clients, Reconnecting(c)
  PROVE  LeftInv'
<1> USE ConnectionAssumption DEF LeftInv, TypeOK, GenInv, Goto, Called, EstablishPc, DisconnectPc, CancelPc, ReconnectPc, connVars, dialVars, monVars, idVars, locals
<1>1. CASE ReconnectBegin(c)
  BY <1>1 DEF ReconnectBegin
<1>2. CASE ReconnectTop(c)
  BY <1>2 DEF ReconnectTop
<1>3. CASE ReconnectGivesUp(c)
  BY <1>3 DEF ReconnectGivesUp
<1>4. CASE ReconnectForget(c)
  BY <1>4 DEF ReconnectForget
<1>5. CASE ReconnectFailed(c)
  BY <1>5 DEF ReconnectFailed
<1>6. CASE ReconnectSucceeds(c)
  BY <1>6 DEF ReconnectSucceeds
<1>7. CASE ReconnectCompare(c)
  BY <1>7 DEF ReconnectCompare
<1>8. CASE ReconnectRestored(c)
  BY <1>8 DEF ReconnectRestored
<1>9. CASE ReconnectRetry(c)
  BY <1>9 DEF ReconnectRetry
<1>10. CASE ReconnectBackoffEnds(c)
  BY <1>10 DEF ReconnectBackoffEnds
<1>11. CASE ReconnectExhausted(c)
  BY <1>11 DEF ReconnectExhausted
<1>12. CASE ReconnectEnd(c)
  BY <1>12 DEF ReconnectEnd
<1> QED BY <1>1, <1>2, <1>3, <1>4, <1>5, <1>6, <1>7, <1>8, <1>9, <1>10, <1>11, <1>12 DEF
           Reconnecting

LEMMA LeftStep == TypeOK /\ GenInv /\ LeftInv /\ [Next]_vars => LeftInv'
<1> SUFFICES ASSUME TypeOK, GenInv, LeftInv, [Next]_vars PROVE LeftInv'
  OBVIOUS
<1>1. ASSUME NEW c \in Clients, LinkDies(c) PROVE LeftInv'
  BY <1>1 DEF LeftInv, LinkDies, TypeOK, GenInv, Goto, Called, EstablishPc, DisconnectPc, CancelPc, ReconnectPc, connVars, dialVars, monVars, idVars, locals
<1>2. CASE UNCHANGED vars
  BY <1>2 DEF LeftInv, vars, TypeOK, GenInv, Goto, Called, EstablishPc, DisconnectPc, CancelPc, ReconnectPc, connVars, dialVars, monVars, idVars, locals
<1> QED BY <1>1, <1>2, LeftCalls, LeftEstablish, LeftDisconnecting, LeftMonitoring, LeftReconnecting DEF Next

-----------------------------------------------------------------------------
(* Stop channels.  A thread that has dialed and not yet started a monitor   *)
(* holds a client that no other thread holds and no monitor watches.        *)
Holding(t) == pc[t] \in {"install", "probe", "refuse", "watch"}

HeldInv ==
  /\ \A t \in Threads : Holding(t) =>
       held[t] \in Clients /\ link[held[t]] # "unused" /\ monitor[held[t]] = "none"
  /\ \A t, s \in Threads : t # s /\ Holding(t) /\ Holding(s) => held[t] # held[s]

StopInv ==
  /\ HeldInv
  /\ \A c \in Clients : monitor[c] # "none" => link[c] # "unused"
  /\ \A c \in Clients : c = keepaliveStop \/ c \in stopClosed => monitor[c] # "none"
  /\ NoDoubleClose

LEMMA StopCalls ==
  ASSUME TypeOK, StopInv, NEW u \in Users, Connect(u) \/ ConnectGen(u) \/ CancelConnect(u) \/ Disconnect(u)
  PROVE  StopInv'
<1> USE ConnectionAssumption DEF StopInv, TypeOK, HeldInv, Holding, NoDoubleClose, Goto, Called, EstablishPc, DisconnectPc, CancelPc, ReconnectPc, connVars, dialVars, monVars, idVars, locals
<1>1. CASE Connect(u)
  BY <1>1 DEF Connect
<1>2. CASE ConnectGen(u)
  BY <1>2 DEF ConnectGen
<1>3. CASE CancelConnect(u)
  BY <1>3 DEF CancelConnect
<1>4. CASE Disconnect(u)
  BY <1>4 DEF Disconnect
<1> QED BY <1>1, <1>2, <1>3, <1>4

LEMMA StopEstablish ==
  ASSUME TypeOK, StopInv, NEW t \in Threads, Establish(t)
  PROVE  StopInv'
<1> USE ConnectionAssumption DEF StopInv, TypeOK, HeldInv, Holding, NoDoubleClose, Goto, Called, EstablishPc, DisconnectPc, CancelPc, ReconnectPc, connVars, dialVars, monVars, idVars, locals
<1>1. CASE EstablishStopMonitor(t)
  BY <1>1 DEF EstablishStopMonitor, StopMonitor
<1>2. CASE EstablishClear(t)
  BY <1>2 DEF EstablishClear, CloseIfAny, Close
<1>3. ASSUME NEW c \in Clients, NEW d \in Tablets, DialSucceeds(t, c, d) PROVE StopInv'
  BY <1>3 DEF DialSucceeds
<1>4. ASSUME NEW r \in {"canceled", "retryable", "fatal", "auth"}, DialFails(t, r) PROVE StopInv'
  BY <1>4 DEF DialFails, Return
<1>5. CASE EstablishInstall(t)
  BY <1>5 DEF EstablishInstall
<1>6. CASE EstablishSuperseded(t)
  BY <1>6 DEF EstablishSuperseded, Return, Close
<1>7. CASE ProbeNoise(t)
  BY <1>7 DEF ProbeNoise
<1>8. CASE ProbeQuiet(t)
  BY <1>8 DEF ProbeQuiet
<1>9. CASE EstablishRefuse(t)
  BY <1>9 DEF EstablishRefuse, Return, Close
<1>10. CASE EstablishWatch(t)
  BY <1>10 DEF EstablishWatch
<1>11. CASE EstablishCheckGen(t)
  BY <1>11 DEF EstablishCheckGen
<1>12. CASE EstablishUnwatch(t)
  BY <1>12 DEF EstablishUnwatch, Return, StopMonitor
<1>13. ASSUME NEW id \in Tablets \cup {Nil}, EstablishDetect(t, id) PROVE StopInv'
  BY <1>13 DEF EstablishDetect
<1>14. CASE EstablishUndetected(t)
  BY <1>14 DEF EstablishUndetected, Return
<1>15. CASE EstablishRecord(t)
  <2>1. /\ Return(t, "ok") \/ Return(t, "canceled")
        /\ pc[t] = "record" /\ UNCHANGED <<link, keepaliveStop, stopClosed, monitor>>
    BY <1>15 DEF EstablishRecord
  <2>2. pc' = [pc EXCEPT ![t] = IF t \in Users THEN "idle" ELSE "result"] /\ held' = [held EXCEPT ![t] = Nil]
    BY <2>1 DEF Return
  <2> QED BY <2>1, <2>2
<1> HIDE DEF StopInv
<1> QED BY <1>1, <1>2, <1>3, <1>4, <1>5, <1>6, <1>7, <1>8, <1>9, <1>10, <1>11, <1>12, <1>13, <1>14,
           <1>15 DEF Establish

LEMMA StopDisconnecting ==
  ASSUME TypeOK, StopInv, NEW t \in Threads, Disconnecting(t)
  PROVE  StopInv'
<1> USE ConnectionAssumption DEF StopInv, TypeOK, HeldInv, Holding, NoDoubleClose, Goto, Called, EstablishPc, DisconnectPc, CancelPc, ReconnectPc, connVars, dialVars, monVars, idVars, locals
<1>1. CASE CloseLive(t, "cancelLive", "cancelDial")
  BY <1>1 DEF CloseLive, CloseIfAny, Close
<1>2. CASE CancelDialing(t)
  BY <1>2 DEF CancelDialing
<1>3. CASE DisconnectStopReconnect(t)
  BY <1>3 DEF DisconnectStopReconnect
<1>4. CASE DisconnectGen(t)
  BY <1>4 DEF DisconnectGen
<1>5. CASE CloseLive(t, "closeLive", "stopWatch")
  BY <1>5 DEF CloseLive, CloseIfAny, Close
<1>6. CASE DisconnectStopMonitor(t)
  BY <1>6 DEF DisconnectStopMonitor, StopMonitor
<1>7. CASE DisconnectReset(t)
  BY <1>7 DEF DisconnectReset, CloseIfAny, Close
<1> QED BY <1>1, <1>2, <1>3, <1>4, <1>5, <1>6, <1>7 DEF Disconnecting

LEMMA StopMonitoring ==
  ASSUME TypeOK, StopInv, NEW c \in Clients, Monitoring(c)
  PROVE  StopInv'
<1> USE ConnectionAssumption DEF StopInv, TypeOK, HeldInv, Holding, NoDoubleClose, Goto, Called, EstablishPc, DisconnectPc, CancelPc, ReconnectPc, connVars, dialVars, monVars, idVars, locals
<1>1. CASE MonitorStart(c)
  BY <1>1 DEF MonitorStart
<1>2. CASE MonitorStops(c)
  BY <1>2 DEF MonitorStops
<1>3. CASE MonitorFails(c)
  BY <1>3 DEF MonitorFails, Close
<1>4. CASE LossIgnored(c)
  BY <1>4 DEF LossIgnored
<1>5. CASE LossHandled(c)
  BY <1>5 DEF LossHandled
<1>6. CASE LossReported(c)
  BY <1>6 DEF LossReported
<1> QED BY <1>1, <1>2, <1>3, <1>4, <1>5, <1>6 DEF Monitoring

LEMMA StopReconnecting ==
  ASSUME TypeOK, StopInv, NEW c \in Clients, Reconnecting(c)
  PROVE  StopInv'
<1> USE ConnectionAssumption DEF StopInv, TypeOK, HeldInv, Holding, NoDoubleClose, Goto, Called, EstablishPc, DisconnectPc, CancelPc, ReconnectPc, connVars, dialVars, monVars, idVars, locals
<1>1. CASE ReconnectBegin(c)
  BY <1>1 DEF ReconnectBegin
<1>2. CASE ReconnectTop(c)
  BY <1>2 DEF ReconnectTop
<1>3. CASE ReconnectGivesUp(c)
  BY <1>3 DEF ReconnectGivesUp
<1>4. CASE ReconnectForget(c)
  BY <1>4 DEF ReconnectForget
<1>5. CASE ReconnectFailed(c)
  BY <1>5 DEF ReconnectFailed
<1>6. CASE ReconnectSucceeds(c)
  BY <1>6 DEF ReconnectSucceeds
<1>7. CASE ReconnectCompare(c)
  BY <1>7 DEF ReconnectCompare
<1>8. CASE ReconnectRestored(c)
  BY <1>8 DEF ReconnectRestored
<1>9. CASE ReconnectRetry(c)
  BY <1>9 DEF ReconnectRetry
<1>10. CASE ReconnectBackoffEnds(c)
  BY <1>10 DEF ReconnectBackoffEnds
<1>11. CASE ReconnectExhausted(c)
  BY <1>11 DEF ReconnectExhausted
<1>12. CASE ReconnectEnd(c)
  BY <1>12 DEF ReconnectEnd
<1> QED BY <1>1, <1>2, <1>3, <1>4, <1>5, <1>6, <1>7, <1>8, <1>9, <1>10, <1>11, <1>12 DEF
           Reconnecting

LEMMA StopStep == TypeOK /\ StopInv /\ [Next]_vars => StopInv'
<1> SUFFICES ASSUME TypeOK, StopInv, [Next]_vars PROVE StopInv'
  OBVIOUS
<1>1. ASSUME NEW c \in Clients, LinkDies(c) PROVE StopInv'
  BY <1>1, ConnectionAssumption DEF StopInv, LinkDies, TypeOK, HeldInv, Holding, NoDoubleClose, Goto, Called, EstablishPc, DisconnectPc, CancelPc, ReconnectPc, connVars, dialVars, monVars, idVars, locals
<1>2. CASE UNCHANGED vars
  BY <1>2 DEF StopInv, vars, TypeOK, HeldInv, Holding, NoDoubleClose, Goto, Called, EstablishPc, DisconnectPc, CancelPc, ReconnectPc, connVars, dialVars, monVars, idVars, locals
<1> QED BY <1>1, <1>2, StopCalls, StopEstablish, StopDisconnecting, StopMonitoring, StopReconnecting DEF Next

-----------------------------------------------------------------------------
(* The theorems                                                             *)

LEMMA InitInv == Init => GenInv /\ StaleClientIsEnding /\ NoRevival /\ StopInv /\ LeftInv
  BY ConnectionAssumption DEF Init, GenInv, StaleClientIsEnding, Refused, NoRevival, StopInv, LeftInv, HeldInv, Holding,
     NoDoubleClose

(* A client of an older generation stays in s.client only while some call   *)
(* that ends it is under way: the keepalive monitor, which leaves such a    *)
(* client alone (handleConnectionLost), is never the one that has to.       *)
THEOREM StaleClientEnds == Spec => []StaleClientIsEnding
  BY InitType, InitInv, TypeStep, GenStep, StaleStep, PTL DEF Spec

(* After a Disconnect or a CancelConnect that no Connect follows, no dial,  *)
(* reconnect or monitor puts a client back.                                 *)
THEOREM DisconnectIsFinal == Spec => []NoRevival
  BY InitType, InitInv, TypeStep, GenStep, RevivalStep, PTL DEF Spec

(* When everything that ran has returned, a Disconnect or a CancelConnect   *)
(* that no Connect followed has left no client, no target to redial, no     *)
(* reconnect, no monitor and no identity of a tablet.                       *)
THEOREM DisconnectLeavesNothingBehind == Spec => []DisconnectLeavesNothing
<1>1. TypeOK /\ NoRevival /\ LeftInv => DisconnectLeavesNothing
  BY ConnectionAssumption
  DEF TypeOK, NoRevival, LeftInv, DisconnectLeavesNothing, Quiet, DisconnectPc, CancelPc
<1> QED BY <1>1, InitType, InitInv, TypeStep, GenStep, RevivalStep, LeftStep, PTL DEF Spec

(* stopConnectionMonitor never closes a channel twice, from whatever        *)
(* goroutines it is called.                                                 *)
THEOREM StopsCloseOnce == Spec => []NoDoubleClose
<1>1. StopInv => NoDoubleClose
  BY DEF StopInv
<1> QED BY <1>1, InitType, InitInv, TypeStep, StopStep, PTL DEF Spec
=============================================================================
