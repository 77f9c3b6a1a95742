----------------------------- MODULE Connection -----------------------------
(***************************************************************************)
(* The SSH connection of reManager (connectionservice.go): the goroutines  *)
(* of the user's Connect, CancelConnect and Disconnect calls, the          *)
(* keepalive monitor of every client, and the automatic reconnect that a   *)
(* lost client starts, interleaved at the critical sections of s.mu,       *)
(* s.reconnectMu and the atomics connGen and liveClient.                   *)
(*                                                                         *)
(* Left out: the demo mode, the SSH agent's own connection, and the        *)
(* device fields that only the views read.  Timers are nondeterministic:   *)
(* a dial or a backoff may end at any moment.                              *)
(***************************************************************************)
EXTENDS Naturals

CONSTANTS
  Users,        (* slots for calls the frontend makes, each its own goroutine *)
  Clients,      (* SSH clients, each dialed at most once                      *)
  Tablets,      (* reMarkables that may answer at the dialed address          *)
  Noisy,        (* those whose login shell prints on every session            *)
  MaxAttempts,  (* maxReconnectAttempts                                       *)
  MaxCalls,     (* bound on the calls the frontend makes                     *)
  Nil

ASSUME ConnectionAssumption ==
  /\ Users \cap Clients = {}
  /\ Nil \notin Users \cup Clients \cup Tablets
  /\ Tablets \cap {"unused", "down", "closed"} = {}
  /\ Noisy \subseteq Tablets
  /\ MaxAttempts \in Nat \ {0}
  /\ MaxCalls \in Nat

(* A client that is lost starts at most one reconnect goroutine, which is  *)
(* named after it.                                                         *)
Threads == Users \cup Clients

VARIABLES
  calls,          (* calls made so far                                       *)
  connGen,        (* s.connGen                                               *)
  userGen,        (* history: the last generation given to a Connect call    *)
  client,         (* s.client                                                *)
  liveClient,     (* s.liveClient                                            *)
  currentConn,    (* s.currentConn.gen, 0 when s.currentConn is nil          *)
  connectCancel,  (* the thread whose dial s.connectCancel cancels           *)
  canceled,       (* threads whose dial context is canceled                  *)
  keepaliveStop,  (* the client whose monitor made s.keepaliveStop           *)
  stopClosed,     (* clients whose monitor's stop channel is closed          *)
  reconnect,      (* s.reconnect: the reconnect thread that is current       *)
  connectedId,    (* s.connectedMachineID                                    *)
  lastId,         (* s.lastMachineID                                         *)
  ui,             (* the last connection event emitted                       *)
  link,           (* the tablet each client is connected to, or its end      *)
  monitor,        (* where the monitor goroutine of each client is           *)
  watches,        (* the stop channel each monitor captured                  *)
  pc, gen, held, result, attempt, lostId, readId   (* locals of each thread  *)

connVars == <<calls, connGen, userGen, client, liveClient, currentConn>>
dialVars == <<connectCancel, canceled>>
monVars  == <<keepaliveStop, stopClosed, monitor, watches>>
idVars   == <<connectedId, lastId>>
locals   == <<gen, held, result, attempt, lostId, readId>>

vars == <<connVars, dialVars, monVars, reconnect, idVars, ui, link, pc, locals>>

-----------------------------------------------------------------------------
(* Program counters                                                         *)

EstablishPc  == {"stopMonitor", "clear", "dial", "install", "probe", "refuse",
                 "watch", "checkGen", "unwatch", "detect", "record"}
DisconnectPc == {"stopReconnect", "disconnectGen", "closeLive", "stopWatch", "reset"}
CancelPc     == {"cancelLive", "cancelDial"}
ReconnectPc  == {"begin", "top", "result", "forget", "failed", "compare", "handover", "wait", "end"}
Pc           == {"idle", "connect"} \cup EstablishPc \cup DisconnectPc \cup CancelPc \cup ReconnectPc

Results      == {"none", "ok", "canceled", "retryable", "fatal", "auth"}
Events       == {"none", "lost", "reconnecting", "retry", "restored", "failed"}
MonitorPc    == {"none", "starting", "watching", "losing", "lost", "done"}
NotUp        == {"unused", "down", "closed"}

TypeOK ==
  /\ calls \in 0..MaxCalls
  /\ connGen \in Nat /\ userGen \in Nat
  /\ client \in Clients \cup {Nil} /\ liveClient \in Clients \cup {Nil}
  /\ currentConn \in Nat
  /\ connectCancel \in Threads \cup {Nil} /\ canceled \subseteq Threads
  /\ keepaliveStop \in Clients \cup {Nil} /\ stopClosed \subseteq Clients
  /\ reconnect \in Clients \cup {Nil}
  /\ connectedId \in Tablets \cup {Nil} /\ lastId \in Tablets \cup {Nil}
  /\ ui \in Events
  /\ link \in [Clients -> Tablets \cup NotUp]
  /\ monitor \in [Clients -> MonitorPc]
  /\ watches \in [Clients -> Clients \cup {Nil}]
  /\ pc \in [Threads -> Pc]
  /\ gen \in [Threads -> Nat]
  /\ held \in [Threads -> Clients \cup {Nil}]
  /\ result \in [Threads -> Results]
  /\ attempt \in [Threads -> 0..(MaxAttempts - 1)]
  /\ lostId \in [Threads -> Tablets \cup {Nil}]
  /\ readId \in [Threads -> Tablets \cup {Nil}]

Init ==
  /\ calls = 0
  /\ connGen = 0 /\ userGen = 0
  /\ client = Nil /\ liveClient = Nil /\ currentConn = 0
  /\ connectCancel = Nil /\ canceled = {}
  /\ keepaliveStop = Nil /\ stopClosed = {}
  /\ reconnect = Nil
  /\ connectedId = Nil /\ lastId = Nil
  /\ ui = "none"
  /\ link = [c \in Clients |-> "unused"]
  /\ monitor = [c \in Clients |-> "none"]
  /\ watches = [c \in Clients |-> Nil]
  /\ pc = [t \in Threads |-> "idle"]
  /\ gen = [t \in Threads |-> 0]
  /\ held = [t \in Threads |-> Nil]
  /\ result = [t \in Threads |-> "none"]
  /\ attempt = [t \in Threads |-> 0]
  /\ lostId = [t \in Threads |-> Nil]
  /\ readId = [t \in Threads |-> Nil]

-----------------------------------------------------------------------------
(* Helpers                                                                  *)

Goto(t, from, to) ==
  /\ pc[t] = from
  /\ pc' = [pc EXCEPT ![t] = to]

(* The frontend makes one more call, on a goroutine of its own. *)
Called(u, first) ==
  /\ calls < MaxCalls
  /\ calls' = calls + 1
  /\ Goto(u, "idle", first)

(* Closing a client ends its link, whoever else still holds it. *)
Close(c) == link' = [link EXCEPT ![c] = "closed"]

CloseIfAny(c) == IF c = Nil THEN UNCHANGED link ELSE Close(c)

(* establishConnection returns r: a Connect call ends, a reconnect goes on  *)
(* to look at the result.                                                   *)
Return(t, r) ==
  /\ pc' = [pc EXCEPT ![t] = IF t \in Users THEN "idle" ELSE "result"]
  /\ result' = [result EXCEPT ![t] = IF t \in Users THEN "none" ELSE r]
  /\ held' = [held EXCEPT ![t] = Nil]
  /\ readId' = [readId EXCEPT ![t] = Nil]
  /\ gen' = [gen EXCEPT ![t] = IF t \in Users THEN 0 ELSE @]
  /\ UNCHANGED <<attempt, lostId>>

(* Mutant: the closed channel stays in s.keepaliveStop. *)
StopMonitorKeepsChannel ==
  /\ keepaliveStop' = keepaliveStop
  /\ stopClosed' = stopClosed \cup ({keepaliveStop} \ {Nil})
  /\ UNCHANGED <<monitor, watches>>

(* stopConnectionMonitor *)
StopMonitor ==
  /\ keepaliveStop' = Nil
  /\ stopClosed' = stopClosed \cup ({keepaliveStop} \ {Nil})
  /\ UNCHANGED <<monitor, watches>>

CancelDial == canceled \cup ({connectCancel} \ {Nil})

(* A disconnect, or a newer connection, has ended reconnect c. *)
Superseded(c) == reconnect # c \/ connGen # gen[c]

-----------------------------------------------------------------------------
(* Connect: beginUserConnect                                                *)

Connect(u) ==
  /\ Called(u, "connect")
  /\ reconnect' = Nil
  /\ UNCHANGED <<connGen, userGen, client, liveClient, currentConn, dialVars, monVars, idVars, ui, link, locals>>

(* The saved password of a reMarkable is read after that, and if it cannot  *)
(* be, the call returns without touching the connection there is.           *)
ConnectGen(u) ==
  /\ \E readable \in BOOLEAN :
       /\ Goto(u, "connect", IF readable THEN "stopMonitor" ELSE "idle")
       /\ result' = [result EXCEPT ![u] = IF readable THEN "none" ELSE "fatal"]
  /\ connGen' = connGen + 1
  /\ userGen' = connGen'
  /\ gen' = [gen EXCEPT ![u] = connGen']
  /\ UNCHANGED <<calls, client, liveClient, currentConn, dialVars, monVars, reconnect, idVars, ui,
                 link, held, attempt, lostId, readId>>

-----------------------------------------------------------------------------
(* establishConnection                                                      *)

EstablishStopMonitor(t) ==
  /\ Goto(t, "stopMonitor", "clear")
  /\ StopMonitor
  /\ UNCHANGED <<connVars, dialVars, reconnect, idVars, ui, link, locals>>

(* Mutant: the old client is closed but stays in s.client. *)
EstablishClearKeepsClient(t) ==
  /\ Goto(t, "clear", "dial")
  /\ canceled' = CancelDial \ {t}
  /\ connectCancel' = t
  /\ CloseIfAny(client)
  /\ UNCHANGED <<calls, connGen, userGen, client, liveClient, currentConn, monVars, reconnect, idVars, ui,
                 locals>>

(* The first critical section ends whatever connection there is. *)
EstablishClear(t) ==
  /\ Goto(t, "clear", "dial")
  /\ canceled' = CancelDial \ {t}
  /\ connectCancel' = t
  /\ CloseIfAny(client)
  /\ client' = Nil
  /\ UNCHANGED <<calls, connGen, userGen, liveClient, currentConn, monVars, reconnect, idVars, ui,
                 locals>>

(* The dial, with its own retries, reaches some tablet and shakes hands     *)
(* before its context is canceled.                                          *)
DialSucceeds(t, c, d) ==
  /\ Goto(t, "dial", "install")
  /\ t \notin canceled
  /\ link[c] = "unused"
  /\ link' = [link EXCEPT ![c] = d]
  /\ held' = [held EXCEPT ![t] = c]
  /\ UNCHANGED <<connVars, dialVars, monVars, reconnect, idVars, ui, gen, result, attempt,
                 lostId, readId>>

(* "fatal" and "auth" also stand for a key or an agent that cannot be used, *)
(* which is found before the dial and whatever its context.                 *)
DialFails(t, r) ==
  /\ pc[t] = "dial"
  /\ r = "canceled"  => t \in canceled
  /\ r = "retryable" => t \notin canceled
  /\ Return(t, r)
  /\ UNCHANGED <<connVars, dialVars, monVars, reconnect, idVars, ui, link>>

(* Mutant: the generation is not checked again after the dial. *)
EstablishInstallUnchecked(t) ==
  /\ Goto(t, "install", "probe")
  /\ client' = held[t]
  /\ liveClient' = held[t]
  /\ connectCancel' = Nil
  /\ currentConn' = gen[t]
  /\ UNCHANGED <<calls, connGen, userGen, canceled, monVars, reconnect, idVars, ui, link, locals>>

EstablishInstall(t) ==
  /\ Goto(t, "install", "probe")
  /\ connGen = gen[t]
  /\ client' = held[t]
  /\ liveClient' = held[t]
  /\ connectCancel' = Nil
  /\ currentConn' = gen[t]
  /\ UNCHANGED <<calls, connGen, userGen, canceled, monVars, reconnect, idVars, ui, link, locals>>

EstablishSuperseded(t) ==
  /\ pc[t] = "install"
  /\ connGen # gen[t]
  /\ Close(held[t])
  /\ Return(t, "canceled")
  /\ UNCHANGED <<connVars, dialVars, monVars, reconnect, idVars, ui>>

(* shellEmitsNoise: a dead link may cut the probe's answer short. *)
ProbeNoise(t) ==
  /\ Goto(t, "probe", "refuse")
  /\ link[held[t]] \in Noisy \cup NotUp
  /\ UNCHANGED <<connVars, dialVars, monVars, reconnect, idVars, ui, link, locals>>

ProbeQuiet(t) ==
  /\ Goto(t, "probe", "watch")
  /\ link[held[t]] \notin Noisy
  /\ UNCHANGED <<connVars, dialVars, monVars, reconnect, idVars, ui, link, locals>>

EstablishRefuse(t) ==
  /\ pc[t] = "refuse"
  /\ client' = Nil
  /\ currentConn' = 0
  /\ Close(held[t])
  /\ Return(t, "fatal")
  /\ UNCHANGED <<calls, connGen, userGen, liveClient, dialVars, monVars, reconnect, idVars, ui>>

(* startConnectionMonitor starts nothing while another monitor is on. *)
EstablishWatch(t) ==
  /\ Goto(t, "watch", "checkGen")
  /\ IF keepaliveStop = Nil
     THEN /\ keepaliveStop' = held[t]
          /\ monitor' = [monitor EXCEPT ![held[t]] = "starting"]
     ELSE UNCHANGED <<keepaliveStop, monitor>>
  /\ UNCHANGED <<connVars, dialVars, stopClosed, watches, reconnect, idVars, ui, link, locals>>

EstablishCheckGen(t) ==
  /\ Goto(t, "checkGen", IF connGen = gen[t] THEN "detect" ELSE "unwatch")
  /\ UNCHANGED <<connVars, dialVars, monVars, reconnect, idVars, ui, link, locals>>

EstablishUnwatch(t) ==
  /\ pc[t] = "unwatch"
  /\ StopMonitor
  /\ Return(t, "canceled")
  /\ UNCHANGED <<connVars, dialVars, reconnect, idVars, ui, link>>

(* detectDevice and readMachineID run over s.client, whichever it is by now.*)
(* The machine ID may stay unread (Nil).                                    *)
EstablishDetect(t, id) ==
  /\ Goto(t, "detect", "record")
  /\ connGen = gen[t]
  /\ client # Nil
  /\ link[client] \in Tablets
  /\ id \in {link[client], Nil}
  /\ readId' = [readId EXCEPT ![t] = id]
  /\ UNCHANGED <<connVars, dialVars, monVars, reconnect, idVars, ui, link, gen, held, result,
                 attempt, lostId>>

(* Stale, or connected to a reMarkable whose model cannot be told. *)
EstablishUndetected(t) ==
  /\ pc[t] = "detect"
  /\ Return(t, IF connGen = gen[t] THEN "ok" ELSE "canceled")
  /\ UNCHANGED <<connVars, dialVars, monVars, reconnect, idVars, ui, link>>

(* Mutant: the identity is recorded without checking the generation. *)
EstablishRecordUnchecked(t) ==
  /\ pc[t] = "record"
  /\ connectedId' = readId[t]
  /\ lastId' = IF readId[t] # Nil THEN readId[t] ELSE lastId
  /\ Return(t, "ok")
  /\ UNCHANGED <<connVars, dialVars, monVars, reconnect, ui, link>>

EstablishRecord(t) ==
  /\ pc[t] = "record"
  /\ IF connGen = gen[t]
     THEN /\ connectedId' = readId[t]
          /\ lastId' = IF readId[t] # Nil THEN readId[t] ELSE lastId
          /\ Return(t, "ok")
     ELSE /\ Return(t, "canceled")
          /\ UNCHANGED idVars
  /\ UNCHANGED <<connVars, dialVars, monVars, reconnect, ui, link>>

Establish(t) ==
  \/ EstablishStopMonitor(t)
  \/ EstablishClear(t)
  \/ \E c \in Clients, d \in Tablets : DialSucceeds(t, c, d)
  \/ \E r \in {"canceled", "retryable", "fatal", "auth"} : DialFails(t, r)
  \/ EstablishInstall(t)
  \/ EstablishSuperseded(t)
  \/ ProbeNoise(t)
  \/ ProbeQuiet(t)
  \/ EstablishRefuse(t)
  \/ EstablishWatch(t)
  \/ EstablishCheckGen(t)
  \/ EstablishUnwatch(t)
  \/ \E id \in Tablets \cup {Nil} : EstablishDetect(t, id)
  \/ EstablishUndetected(t)
  \/ EstablishRecord(t)

-----------------------------------------------------------------------------
(* CancelConnect, then Disconnect                                           *)

CancelConnect(u) ==
  /\ Called(u, "cancelLive")
  /\ connGen' = connGen + 1
  /\ UNCHANGED <<userGen, client, liveClient, currentConn, dialVars, monVars, reconnect, idVars, ui,
                 link, locals>>

(* closeLiveClient: one step from the swap to the Close. *)
CloseLive(t, from, to) ==
  /\ Goto(t, from, to)
  /\ CloseIfAny(liveClient)
  /\ liveClient' = Nil
  /\ UNCHANGED <<calls, connGen, userGen, client, currentConn, dialVars, monVars, reconnect, idVars, ui,
                 locals>>

CancelDialing(u) ==
  /\ Goto(u, "cancelDial", "stopReconnect")
  /\ canceled' = CancelDial
  /\ connectCancel' = Nil
  /\ UNCHANGED <<connVars, monVars, reconnect, idVars, ui, link, locals>>

Disconnect(u) ==
  /\ Called(u, "disconnectGen")
  /\ reconnect' = Nil
  /\ UNCHANGED <<connGen, userGen, client, liveClient, currentConn, dialVars, monVars, idVars, ui, link, locals>>

(* CancelConnect goes on to disconnect, as does a reconnect that reached    *)
(* another tablet (abandonSwappedReconnect).                                *)
DisconnectStopReconnect(t) ==
  /\ Goto(t, "stopReconnect", "disconnectGen")
  /\ reconnect' = Nil
  /\ UNCHANGED <<connVars, dialVars, monVars, idVars, ui, link, locals>>

DisconnectGen(t) ==
  /\ Goto(t, "disconnectGen", "closeLive")
  /\ connGen' = connGen + 1
  /\ UNCHANGED <<calls, userGen, client, liveClient, currentConn, dialVars, monVars, reconnect, idVars, ui,
                 link, locals>>

DisconnectStopMonitor(t) ==
  /\ Goto(t, "stopWatch", "reset")
  /\ StopMonitor
  /\ UNCHANGED <<connVars, dialVars, reconnect, idVars, ui, link, locals>>

(* Mutant: s.client is closed but not forgotten. *)
DisconnectResetKeepsClient(t) ==
  /\ Goto(t, "reset", IF t \in Users THEN "idle" ELSE "failed")
  /\ canceled' = CancelDial
  /\ connectCancel' = Nil
  /\ CloseIfAny(client)
  /\ currentConn' = 0
  /\ connectedId' = Nil
  /\ lastId' = Nil
  /\ UNCHANGED <<calls, connGen, userGen, client, liveClient, monVars, reconnect, ui, locals>>

(* The last critical section; a reconnect that reached another tablet then  *)
(* reports that.                                                            *)
DisconnectReset(t) ==
  /\ Goto(t, "reset", IF t \in Users THEN "idle" ELSE "failed")
  /\ canceled' = CancelDial
  /\ connectCancel' = Nil
  /\ CloseIfAny(client)
  /\ client' = Nil
  /\ currentConn' = 0
  /\ connectedId' = Nil
  /\ lastId' = Nil
  /\ UNCHANGED <<calls, connGen, userGen, liveClient, monVars, reconnect, ui, locals>>

Disconnecting(t) ==
  \/ CloseLive(t, "cancelLive", "cancelDial")
  \/ CancelDialing(t)
  \/ DisconnectStopReconnect(t)
  \/ DisconnectGen(t)
  \/ CloseLive(t, "closeLive", "stopWatch")
  \/ DisconnectStopMonitor(t)
  \/ DisconnectReset(t)

-----------------------------------------------------------------------------
(* connectionMonitorLoop and handleConnectionLost                           *)

(* The loop takes the stop channel that is current when it first runs. *)
MonitorStart(c) ==
  /\ monitor[c] = "starting"
  /\ monitor' = [monitor EXCEPT ![c] = "watching"]
  /\ watches' = [watches EXCEPT ![c] = keepaliveStop]
  /\ UNCHANGED <<connVars, dialVars, keepaliveStop, stopClosed, reconnect, idVars, ui, link, pc, locals>>

MonitorStops(c) ==
  /\ monitor[c] = "watching"
  /\ watches[c] \in stopClosed
  /\ monitor' = [monitor EXCEPT ![c] = "done"]
  /\ UNCHANGED <<connVars, dialVars, keepaliveStop, stopClosed, watches, reconnect, idVars, ui, link, pc, locals>>

(* The keepalive fails: the client is closed before s.mu is taken. *)
MonitorFails(c) ==
  /\ monitor[c] = "watching"
  /\ link[c] \in {"down", "closed"}
  /\ monitor' = [monitor EXCEPT ![c] = "losing"]
  /\ Close(c)
  /\ UNCHANGED <<connVars, dialVars, keepaliveStop, stopClosed, watches, reconnect, idVars, ui, pc, locals>>

DisconnectedByUser == currentConn # 0 /\ currentConn # connGen

LossIgnored(c) ==
  /\ monitor[c] = "losing"
  /\ client # c \/ DisconnectedByUser
  /\ monitor' = [monitor EXCEPT ![c] = "done"]
  /\ UNCHANGED <<connVars, dialVars, keepaliveStop, stopClosed, watches, reconnect, idVars, ui, link, pc, locals>>

(* The loss takes the client down and copies the target to reconnect to. *)
LossHandled(c) ==
  /\ monitor[c] = "losing"
  /\ client = c /\ ~DisconnectedByUser
  /\ client' = Nil
  /\ keepaliveStop' = Nil
  /\ gen' = [gen EXCEPT ![c] = currentConn]
  /\ monitor' = [monitor EXCEPT ![c] = "lost"]
  /\ UNCHANGED <<calls, connGen, userGen, liveClient, currentConn, dialVars, stopClosed, watches, reconnect,
                 idVars, ui, link, pc, held, result, attempt, lostId, readId>>

(* connection:lost is emitted; then the reconnect goroutine is started, or  *)
(* connection:failed is emitted when there is nothing to redial.            *)
LossReported(c) ==
  /\ monitor[c] = "lost"
  /\ monitor' = [monitor EXCEPT ![c] = "done"]
  /\ IF gen[c] # 0
     THEN Goto(c, "idle", "begin") /\ ui' = "lost"
     ELSE ui' = "failed" /\ UNCHANGED pc
  /\ UNCHANGED <<connVars, dialVars, keepaliveStop, stopClosed, watches, reconnect, idVars, link, locals>>

Monitoring(c) ==
  \/ MonitorStart(c)
  \/ MonitorStops(c)
  \/ MonitorFails(c)
  \/ LossIgnored(c)
  \/ LossHandled(c)
  \/ LossReported(c)

-----------------------------------------------------------------------------
(* attemptReconnect                                                         *)

(* One automatic reconnect at a time: a second one returns at once. *)
ReconnectBegin(c) ==
  /\ Goto(c, "begin", IF reconnect = Nil THEN "top" ELSE "idle")
  /\ IF reconnect = Nil
     THEN /\ reconnect' = c
          /\ lostId' = [lostId EXCEPT ![c] = lastId]
     ELSE UNCHANGED <<reconnect, lostId>>
  /\ UNCHANGED <<connVars, dialVars, monVars, idVars, ui, link, gen, held, result, attempt, readId>>

ReconnectTop(c) ==
  /\ Goto(c, "top", IF Superseded(c) THEN "end" ELSE "stopMonitor")
  /\ ui' = IF Superseded(c) THEN ui ELSE "reconnecting"
  /\ UNCHANGED <<connVars, dialVars, monVars, reconnect, idVars, link, locals>>

(* Mutant: a canceled or refused dial ends the run without a report. *)
ReconnectGivesUpSilently(c) ==
  /\ result[c] \in {"canceled", "fatal", "auth"}
  /\ Goto(c, "result", IF ~Superseded(c) /\ result[c] = "auth" THEN "forget" ELSE "end")
  /\ UNCHANGED <<connVars, dialVars, monVars, reconnect, idVars, ui, link, locals>>

(* A failure that retrying cannot fix. A rejected secret is forgotten. *)
ReconnectGivesUp(c) ==
  /\ result[c] \in {"canceled", "fatal", "auth"}
  /\ Goto(c, "result", CASE Superseded(c) -> "end"
                         [] ~Superseded(c) /\ result[c] = "auth" -> "forget"
                         [] OTHER -> "failed")
  /\ UNCHANGED <<connVars, dialVars, monVars, reconnect, idVars, ui, link, locals>>

ReconnectForget(c) ==
  /\ Goto(c, "forget", "failed")
  /\ currentConn' = 0
  /\ UNCHANGED <<calls, connGen, userGen, client, liveClient, dialVars, monVars, reconnect, idVars, ui, link, locals>>

ReconnectFailed(c) ==
  /\ Goto(c, "failed", "end")
  /\ ui' = "failed"
  /\ UNCHANGED <<connVars, dialVars, monVars, reconnect, idVars, link, locals>>

ReconnectSucceeds(c) ==
  /\ result[c] = "ok"
  /\ Goto(c, "result", IF connGen = gen[c] THEN "compare" ELSE "end")
  /\ UNCHANGED <<connVars, dialVars, monVars, reconnect, idVars, ui, link, locals>>

(* reconnectReachedDifferentTablet *)
ReconnectCompare(c) ==
  /\ Goto(c, "compare", IF lostId[c] # Nil /\ connectedId # Nil /\ connectedId # lostId[c]
                        THEN "stopReconnect" ELSE "handover")
  /\ UNCHANGED <<connVars, dialVars, monVars, reconnect, idVars, ui, link, locals>>

(* A paused install is resumed and connection:restored is emitted. *)
ReconnectRestored(c) ==
  /\ Goto(c, "handover", "end")
  /\ ui' = "restored"
  /\ UNCHANGED <<connVars, dialVars, monVars, reconnect, idVars, link, locals>>

(* Mutant: the attempts are not counted against the maximum. *)
ReconnectRetryUnbounded(c) ==
  /\ result[c] = "retryable"
  /\ Goto(c, "result", "wait")
  /\ ui' = "retry"
  /\ attempt' = [attempt EXCEPT ![c] = @ + 1]
  /\ UNCHANGED <<connVars, dialVars, monVars, reconnect, idVars, link, gen, held, result, lostId, readId>>

ReconnectRetry(c) ==
  /\ result[c] = "retryable"
  /\ attempt[c] < MaxAttempts - 1
  /\ Goto(c, "result", "wait")
  /\ ui' = "retry"
  /\ attempt' = [attempt EXCEPT ![c] = @ + 1]
  /\ UNCHANGED <<connVars, dialVars, monVars, reconnect, idVars, link, gen, held, result, lostId, readId>>

(* The backoff ends, or run.stop wakes it. *)
ReconnectBackoffEnds(c) ==
  /\ Goto(c, "wait", "top")
  /\ UNCHANGED <<connVars, dialVars, monVars, reconnect, idVars, ui, link, locals>>

ReconnectExhausted(c) ==
  /\ result[c] = "retryable"
  /\ attempt[c] = MaxAttempts - 1
  /\ Goto(c, "result", IF Superseded(c) THEN "end" ELSE "failed")
  /\ UNCHANGED <<connVars, dialVars, monVars, reconnect, idVars, ui, link, locals>>

(* endReconnect leaves a run that replaced this one alone. *)
ReconnectEnd(c) ==
  /\ Goto(c, "end", "idle")
  /\ reconnect' = IF reconnect = c THEN Nil ELSE reconnect
  /\ result' = [result EXCEPT ![c] = "none"]
  /\ attempt' = [attempt EXCEPT ![c] = 0]
  /\ lostId' = [lostId EXCEPT ![c] = Nil]
  /\ UNCHANGED <<connVars, dialVars, monVars, idVars, ui, link, gen, held, readId>>

Reconnecting(c) ==
  \/ ReconnectBegin(c)
  \/ ReconnectTop(c)
  \/ ReconnectGivesUp(c)
  \/ ReconnectForget(c)
  \/ ReconnectFailed(c)
  \/ ReconnectSucceeds(c)
  \/ ReconnectCompare(c)
  \/ ReconnectRestored(c)
  \/ ReconnectRetry(c)
  \/ ReconnectBackoffEnds(c)
  \/ ReconnectExhausted(c)
  \/ ReconnectEnd(c)

-----------------------------------------------------------------------------
(* The environment: a link dies without closing anything.                   *)

LinkDies(c) ==
  /\ link[c] \in Tablets
  /\ link' = [link EXCEPT ![c] = "down"]
  /\ UNCHANGED <<connVars, dialVars, monVars, reconnect, idVars, ui, pc, locals>>

Step(t) == Establish(t) \/ Disconnecting(t)

Next ==
  \/ \E u \in Users : Connect(u) \/ ConnectGen(u) \/ CancelConnect(u) \/ Disconnect(u)
  \/ \E t \in Threads : Establish(t) \/ Disconnecting(t)
  \/ \E c \in Clients : Monitoring(c) \/ Reconnecting(c) \/ LinkDies(c)

(* Goroutines are scheduled; dials, keepalives and backoffs have timeouts.  *)
(* What the user does and what the network does is never forced.            *)
Fairness ==
  /\ \A u \in Users : WF_vars(ConnectGen(u))
  /\ \A t \in Threads : WF_vars(Step(t))
  /\ \A c \in Clients : WF_vars(Monitoring(c)) /\ WF_vars(Reconnecting(c))

Spec == Init /\ [][Next]_vars /\ Fairness

-----------------------------------------------------------------------------
(* Safety                                                                   *)

(* Threads that are going to take down whatever s.client is. *)
Ending(t) == pc[t] \in DisconnectPc \cup CancelPc \cup {"stopMonitor", "clear"}

(* The newest call is a Connect that could not read its password. *)
Refused == \E u \in Users : gen[u] = connGen /\ result[u] = "fatal"

(* A client whose generation is past stays in s.client only while a call    *)
(* that ends it is under way: handleConnectionLost (lines 1580-1584) leaves *)
(* such a client alone, so nothing else would take it down.  The exception  *)
(* is a Connect that advanced the generation and returned before it got to  *)
(* the client.                                                              *)
StaleClientIsEnding ==
  client # Nil /\ currentConn # 0 /\ currentConn # connGen =>
    Refused \/ \E t \in Threads : Ending(t)

(* The newest generation belongs to a Disconnect or a CancelConnect: no     *)
(* dial, reconnect or monitor that is still running puts a client back.     *)
NoRevival ==
  userGen # connGen =>
    /\ client # Nil => \E t \in Threads : pc[t] \in DisconnectPc \cup CancelPc
    /\ liveClient # Nil =>
         \E t \in Threads : pc[t] \in (DisconnectPc \cup CancelPc) \ {"stopWatch", "reset"}

(* The stop channel in s.keepaliveStop was never closed: closing it twice   *)
(* would panic, and stopConnectionMonitor is called from many goroutines.   *)
NoDoubleClose == keepaliveStop \notin stopClosed

Quiet ==
  /\ \A t \in Threads : pc[t] = "idle"
  /\ \A c \in Clients : monitor[c] \notin {"starting", "losing", "lost"}

(* Once everything that was running has returned, a Disconnect that was the *)
(* last call has left nothing of the connection: no client, no target to    *)
(* redial, no reconnect, no monitor on and no identity of a tablet.         *)
DisconnectLeavesNothing ==
  Quiet /\ userGen # connGen =>
    /\ client = Nil /\ liveClient = Nil /\ currentConn = 0
    /\ reconnect = Nil /\ keepaliveStop = Nil
    /\ connectedId = Nil /\ lastId = Nil

(* A reconnect that has not been ended, and that no newer call supersedes,  *)
(* keeps its dial: "a run that was ended cannot touch the state of one that *)
(* started after it" (line 610).                                            *)
EndedRunTouchesNothing ==
  [][\A c \in Clients :
       reconnect = c /\ connGen = gen[c] /\ c \in canceled' => c \in canceled]_vars

-----------------------------------------------------------------------------
(* Liveness                                                                 *)

(* A loss that the user does not act on ends in connection:restored or      *)
(* connection:failed, whatever the reconnects that run meanwhile do.        *)
LossIsResolved ==
  \A c \in Clients :
    (pc[c] = "begin" /\ ui = "lost" /\ connGen = gen[c])
      ~> (ui \in {"restored", "failed"} \/ connGen # gen[c])

(* A reconnect that has announced an attempt goes on to announce how it     *)
(* ended, unless the user acts: the view never keeps counting down.         *)
ReconnectReports ==
  \A c \in Clients :
    (pc[c] = "stopMonitor" /\ ~Superseded(c))
      ~> (ui \in {"restored", "failed"} \/ connGen # gen[c])

(* A Disconnect or CancelConnect ends every goroutine of the connection,    *)
(* stuck dials and the monitors included, unless the user connects again.   *)
DisconnectSettles ==
  (userGen # connGen) ~>
    \/ userGen = connGen
    \/ Quiet /\ client = Nil /\ \A c \in Clients : monitor[c] # "watching"

=============================================================================
