------------------------------ MODULE SessionProofs -----------------------------
(* What TLAPS proves of the session of Page, and of its types: for any       *)
(* number of tablets, handlers, losses and clicks.                           *)
EXTENDS Page, TLAPS

LEMMA SessionConstants ==
  /\ None \notin Tablets /\ None \notin Slots /\ None \notin Sessions!Load /\ None \notin Sessions!Link
  /\ Slots \subseteq Nat /\ 1 \in Slots
  /\ MaxLosses \in Nat /\ SessionClicks \in Nat /\ Chores \in Nat
  BY PageAssumption DEF Sessions!SessionAssumption

-----------------------------------------------------------------------------
(* The handlers that await the backend                                      *)

LoadsInv == loads \in [Slots -> Sessions!Load \cup {None}]
Same(s) == \A u \in Slots \ {s} : loads'[u] = loads[u]

LEMMA LoadBegins ==
  ASSUME LoadsInv, NEW s \in Slots, NEW for \in Sessions!Kinds, NEW to \in Tablets,
         NEW at \in {"dial", "info"}, NEW seen \in BOOLEAN, Sessions!Begin(s, for, to, at, seen)
  PROVE  /\ LoadsInv' /\ Same(s) /\ loads[s] = None /\ loads'[s] # None
         /\ loads'[s].for = for /\ loads'[s].to = to /\ loads'[s].pc = at
<1> DEFINE load == [for |-> for, to |-> to, pc |-> at, seen |-> seen]
<1>1. load \in Sessions!Load /\ load.for = for /\ load.to = to /\ load.pc = at
  BY DEF Sessions!Load
<1>2. loads[s] = None /\ loads' = [loads EXCEPT ![s] = load]
  BY DEF Sessions!Begin
<1> HIDE DEF load
<1> QED BY <1>1, <1>2, SessionConstants DEF LoadsInv, Same

LEMMA LoadGoes ==
  ASSUME LoadsInv, NEW s \in Slots, loads[s] # None,
         NEW at \in {"info", "installed", "checks", "save", "list"}, Sessions!Goto(s, at)
  PROVE  /\ LoadsInv' /\ Same(s) /\ loads'[s] # None
         /\ loads'[s].for = loads[s].for /\ loads'[s].to = loads[s].to /\ loads'[s].pc = at
<1> DEFINE load == [loads[s] EXCEPT !.pc = at]
<1>1. load \in Sessions!Load /\ load.for = loads[s].for /\ load.to = loads[s].to /\ load.pc = at
  BY DEF LoadsInv, Sessions!Load
<1>2. loads' = [loads EXCEPT ![s] = load]
  BY DEF Sessions!Goto
<1> HIDE DEF load
<1> QED BY <1>1, <1>2, SessionConstants DEF LoadsInv, Same

LEMMA LoadSeen ==
  ASSUME NEW load \in Sessions!Load
  PROVE  /\ [load EXCEPT !.seen = TRUE] \in Sessions!Load
         /\ [load EXCEPT !.seen = TRUE].for = load.for /\ [load EXCEPT !.seen = TRUE].pc = load.pc
  BY DEF Sessions!Load

LEMMA LoadEnds ==
  ASSUME LoadsInv, NEW s \in Slots, Sessions!End(s)
  PROVE  LoadsInv' /\ Same(s) /\ loads'[s] = None
  BY DEF Sessions!End, LoadsInv, Same

-----------------------------------------------------------------------------
(* The session                                                              *)

Loading(s) == loads[s] # None
Restoring(s) == Loading(s) /\ loads[s].for \in {"again", "restore"} /\ loads[s].pc # "dial"
Saving(s) == Loading(s) /\ loads[s].pc \in {"save", "list"}
(* The handlers that open the tabs without asking whose connection it is.    *)
MayOpen(s) == Loading(s) /\ (loads[s].for = "start" \/ (attempt = s /\ loads[s].pc # "dial"))

(* The link that is shown is the link there is, and who may open the tabs    *)
(* does it on that link, on one that is said to be gone, or, after a         *)
(* Disconnect, on none.                                                     *)
SessionInv ==
  /\ LoadsInv
  /\ link \in Sessions!Link \cup {None} /\ connectedDeviceId \in Tablets \cup {None}
  /\ retryConnect \in [for : {"add", "remember", "saved"}, to : Tablets] \cup {None}
  /\ connectChecked \in BOOLEAN
  /\ connectionStatus = "restoring" => \E s \in Slots : Restoring(s)
  /\ link # None => device = link.to
  /\ (\E s \in Slots : Loading(s) /\ loads[s].for = "start") => attempt = None /\ retryConnect = None
  /\ \A s \in Slots : MayOpen(s) =>
       link # None \/ connectionStatus = "failed" \/ (device = None /\ abandoned)
  /\ \A s \in Slots : Saving(s) => loads[s].for = "remember"

LEMMA SessionInit == Init => SessionInv
<1> SUFFICES ASSUME Sessions!Init PROVE SessionInv
  BY DEF Init
<1>1. CASE link = None /\ device = None /\ connectedDeviceId = None /\ loads = [s \in Slots |-> None]
  BY <1>1 DEF SessionInv, LoadsInv, Loading, MayOpen, Saving, Sessions!Init
<1>2. ASSUME NEW t \in devicesKept,
             /\ link = [to |-> t, id |-> TRUE, up |-> TRUE]
             /\ device = t /\ connectedDeviceId = t
             /\ loads = [u \in Slots |->
                  IF u = 1 THEN [for |-> "start", to |-> t, pc |-> "info", seen |-> FALSE] ELSE None]
      PROVE  SessionInv
  <2> DEFINE load == [for |-> "start", to |-> t, pc |-> "info", seen |-> FALSE]
  <2>1. t \in Tablets
    BY DEF Sessions!Init
  <2>2. load \in Sessions!Load /\ load.pc = "info"
    BY <2>1 DEF Sessions!Load, Sessions!Kinds
  <2>3. link \in Sessions!Link /\ link.to = t
    BY <1>2, <2>1 DEF Sessions!Link
  <2>4. loads = [u \in Slots |-> IF u = 1 THEN load ELSE None]
    BY <1>2
  <2> HIDE DEF load
  <2>5. LoadsInv /\ \A u \in Slots : Loading(u) => loads[u].pc = "info"
    BY <2>2, <2>4 DEF LoadsInv, Loading
  <2>6. link # None /\ connectedDeviceId \in Tablets /\ device = link.to
    BY <1>2, <2>1, <2>3, SessionConstants
  <2>7. retryConnect = None /\ attempt = None /\ connectChecked = FALSE /\ connectionStatus = "connected"
    BY DEF Sessions!Init
  <2> QED BY <2>3, <2>5, <2>6, <2>7 DEF SessionInv, Saving
<1> QED BY <1>1, <1>2 DEF Sessions!Init

LEMMA SessionKept ==
  SessionInv /\ UNCHANGED <<link, device, connectedDeviceId, attempt, retryConnect, connectionStatus, abandoned, loads,
                          connectChecked>>
    => SessionInv'
  BY DEF SessionInv, LoadsInv, Loading, Restoring, MayOpen, Saving

LEMMA SessionAttempt ==
  ASSUME SessionInv, NEW s \in Slots, NEW for \in {"add", "remember", "saved"}, NEW to \in Tablets,
         \A u \in Slots : Loading(u) => loads[u].for # "start", Sessions!Attempt(s, for, to)
  PROVE  SessionInv'
<1>1. /\ UNCHANGED <<link, device, connectedDeviceId, connectionStatus, abandoned, connectChecked>>
      /\ attempt' = s /\ retryConnect' = [for |-> for, to |-> to]
      /\ Sessions!Begin(s, for, to, "dial", FALSE)
  BY DEF Sessions!Attempt, Sessions!backend, Sessions!shown, Sessions!status, Sessions!reconnectVars
<1>2. /\ LoadsInv' /\ Same(s) /\ loads[s] = None /\ loads'[s] # None
      /\ loads'[s].for = for /\ loads'[s].pc = "dial"
  <2>1. for \in Sessions!Kinds
    BY DEF Sessions!Kinds
  <2> QED BY <1>1, <2>1, LoadBegins DEF SessionInv
<1>3. retryConnect' \in [for : {"add", "remember", "saved"}, to : Tablets]
  BY <1>1
<1>4. connectionStatus' = "restoring" => \E u \in Slots : Restoring(u)'
  BY <1>1, <1>2 DEF SessionInv, Restoring, Loading, Same
<1>5. \A u \in Slots : Loading(u)' => loads'[u].for # "start"
  BY <1>2 DEF Loading, Same
<1>6. \A u \in Slots : ~MayOpen(u)'
  BY <1>1, <1>2, <1>5 DEF MayOpen, Loading, Same
<1>7. \A u \in Slots : Saving(u)' => loads'[u].for = "remember"
  BY <1>2 DEF SessionInv, Saving, Loading, Same
<1> QED BY <1>1, <1>2, <1>3, <1>4, <1>5, <1>6, <1>7 DEF SessionInv

(* A handler that goes on, or that begins with the link it was told of,      *)
(* where the link and the device are those of its tablet.                    *)
LEMMA SessionLinked ==
  ASSUME SessionInv, NEW s \in Slots, LoadsInv', Same(s), Loading(s)', loads'[s].pc = "info",
         Loading(s) => loads'[s].for = loads[s].for, ~Loading(s) => loads'[s].for # "start",
         link' \in Sessions!Link, device' = link'.to, connectedDeviceId' \in Tablets \cup {None},
         UNCHANGED <<retryConnect, attempt, connectChecked>>,
         connectionStatus' = connectionStatus \/ loads'[s].for \in {"again", "restore"}
  PROVE  SessionInv'
<1>1. connectionStatus' = "restoring" => \E u \in Slots : Restoring(u)'
  <2>1. CASE loads'[s].for \in {"again", "restore"}
    BY <2>1 DEF Restoring, Loading
  <2>2. CASE ~(loads'[s].for \in {"again", "restore"})
    BY <2>2 DEF SessionInv, Restoring, Loading, Same
  <2> QED BY <2>1, <2>2
<1>2. (\E u \in Slots : Loading(u)' /\ loads'[u].for = "start")
        => \E u \in Slots : Loading(u) /\ loads[u].for = "start"
  BY DEF Loading, Same
<1>3. link' # None
  BY SessionConstants
<1>4. retryConnect' \in [for : {"add", "remember", "saved"}, to : Tablets] \cup {None} /\ link' \in Sessions!Link \cup {None}
  BY DEF SessionInv
<1>5. (\E u \in Slots : Loading(u)' /\ loads'[u].for = "start") => attempt' = None /\ retryConnect' = None
  BY <1>2 DEF SessionInv
<1>6. \A u \in Slots : Saving(u)' => loads'[u].for = "remember"
  BY DEF SessionInv, Saving, Loading, Same
<1> QED BY <1>1, <1>3, <1>4, <1>5, <1>6 DEF SessionInv

(* A handler that ends: none is left that the status speaks of.              *)
LEMMA SessionEnds ==
  ASSUME SessionInv, NEW s \in Slots, Sessions!End(s), attempt' \in {attempt, None},
         UNCHANGED <<link, device, connectedDeviceId, retryConnect, abandoned, connectChecked>>,
         \/ connectionStatus' = connectionStatus /\ (connectionStatus = "restoring" => ~Restoring(s))
         \/ connectionStatus = "restoring" /\ connectionStatus' # "restoring"
  PROVE  SessionInv'
<1>1. LoadsInv' /\ Same(s) /\ ~Loading(s)'
  BY LoadEnds DEF SessionInv, Loading
<1>2. connectionStatus' = "restoring" => \E u \in Slots : Restoring(u)'
  BY <1>1 DEF SessionInv, Restoring, Loading, Same
<1>3. \A u \in Slots : Loading(u)' => Loading(u) /\ loads'[u] = loads[u]
  BY <1>1 DEF Loading, Same
<1>4. \A u \in Slots : MayOpen(u)' => MayOpen(u)
  BY <1>3, SessionConstants DEF MayOpen
<1>5. (\E u \in Slots : Loading(u)' /\ loads'[u].for = "start") => attempt' = None
  BY <1>3 DEF SessionInv
<1>6. retryConnect' = retryConnect /\ ((\E u \in Slots : Loading(u)' /\ loads'[u].for = "start") => retryConnect' = None)
  BY <1>3 DEF SessionInv
<1>7. \A u \in Slots : Saving(u)' => loads'[u].for = "remember"
  BY <1>3 DEF SessionInv, Saving
<1> QED BY <1>1, <1>2, <1>4, <1>5, <1>6, <1>7 DEF SessionInv

LEMMA SessionStep == SessionInv /\ Sessions!Next => SessionInv'
<1> SUFFICES ASSUME SessionInv, Sessions!Next PROVE SessionInv'
  OBVIOUS
<1> USE SessionConstants
    DEF Sessions!backend, Sessions!shown, Sessions!status, Sessions!catalog, Sessions!deviceList,
        Sessions!connectVars, Sessions!reconnectVars, Sessions!bounds
<1>1. ASSUME NEW s \in Slots, Sessions!ConnectFinishes(s) PROVE SessionInv'
  <2>1. /\ Sessions!End(s) /\ attempt' \in {attempt, None}
        /\ UNCHANGED <<link, device, connectedDeviceId, retryConnect, abandoned, connectChecked>>
    BY <1>1 DEF Sessions!ConnectFinishes, Sessions!Opened
  <2>2. connectionStatus' = connectionStatus /\ ~Restoring(s)
    BY <1>1 DEF Sessions!ConnectFinishes, Sessions!Opened, SessionInv, Saving, Loading, Restoring
  <2> QED BY <2>1, <2>2, SessionEnds
<1>2. ASSUME NEW s \in Slots, Sessions!StartFinishes(s) PROVE SessionInv'
  BY <1>2, LoadEnds DEF Sessions!StartFinishes, Sessions!Finished, SessionInv, Loading, Restoring,
     MayOpen, Saving, Same
<1>3. ASSUME NEW s \in Slots, Sessions!SaveBegins(s) PROVE SessionInv'
  <2>1. CASE attempt = s
    BY <1>3, <2>1, LoadGoes DEF Sessions!SaveBegins, Sessions!Finished, SessionInv, Loading, Restoring,
       MayOpen, Saving, Same
  <2>2. CASE attempt # s
    BY <1>3, <2>2, LoadEnds DEF Sessions!SaveBegins, Sessions!Finished, SessionInv, Loading, Restoring,
       MayOpen, Saving, Same
  <2> QED BY <2>1, <2>2
<1>4. ASSUME NEW s \in Slots, Sessions!RestoreFinishes(s) PROVE SessionInv'
  BY <1>4, LoadEnds DEF Sessions!RestoreFinishes, Sessions!Finished, Sessions!RestoreOver, SessionInv,
     Loading, Restoring, MayOpen, Saving, Same
<1>5. ASSUME NEW s \in Slots, NEW t \in Tablets, NEW for \in {"add", "remember"}, Sessions!handleConnect(s, t, for) PROVE SessionInv'
  <2>1. \A u \in Slots : Loading(u) => loads[u].for # "start"
    BY <1>5 DEF Sessions!handleConnect, Loading, Sessions!Live, Sessions!initialDataLoaded
  <2>2. Sessions!Attempt(s, for, t) /\ for \in {"add", "remember"}
    BY <1>5 DEF Sessions!handleConnect
  <2> QED BY <2>1, <2>2, SessionAttempt
<1>6. ASSUME NEW s \in Slots, NEW t \in Tablets, Sessions!handleConnectToSavedDevice(s, t) PROVE SessionInv'
  <2>1. \A u \in Slots : Loading(u) => loads[u].for # "start"
    BY <1>6 DEF Sessions!handleConnectToSavedDevice, Loading, Sessions!Live, Sessions!initialDataLoaded
  <2>2. Sessions!Attempt(s, "saved", t)
    BY <1>6 DEF Sessions!handleConnectToSavedDevice
  <2> QED BY <2>1, <2>2, SessionAttempt
<1>7. ASSUME NEW s \in Slots, Sessions!Retry(s) PROVE SessionInv'
  <2>1. /\ retryConnect # None /\ retryConnect \in [for : {"add", "remember", "saved"}, to : Tablets]
        /\ \A u \in Slots : Loading(u) => loads[u].for # "start"
    BY <1>7 DEF Sessions!Retry, SessionInv
  <2>2. Sessions!Attempt(s, retryConnect.for, retryConnect.to)
    BY <1>7 DEF Sessions!Retry
  <2> QED BY <2>1, <2>2, SessionAttempt
<1>8. ASSUME NEW s \in Slots, Sessions!DialAnswered(s) PROVE SessionInv'
  <2> DEFINE new == [to |-> loads[s].to, id |-> loads[s].for = "saved", up |-> TRUE]
  <2>1. Loading(s) /\ loads[s] \in Sessions!Load /\ loads[s].to \in Tablets
    BY <1>8 DEF Sessions!DialAnswered, SessionInv, LoadsInv, Loading, Sessions!Load
  <2>2. new \in Sessions!Link /\ new.to = loads[s].to
    BY <2>1 DEF Sessions!Link
  <2>3. /\ link' = new /\ device' = loads[s].to /\ connectedDeviceId' \in {connectedDeviceId, loads[s].to}
        /\ Sessions!Goto(s, "info") /\ UNCHANGED <<retryConnect, attempt, connectionStatus, connectChecked>>
    BY <1>8 DEF Sessions!DialAnswered
  <2> HIDE DEF new
  <2>4. /\ LoadsInv' /\ Same(s) /\ Loading(s)'
        /\ loads'[s].for = loads[s].for /\ loads'[s].pc = "info"
    BY <2>1, <2>3, LoadGoes DEF SessionInv, Loading
  <2>5. connectedDeviceId' \in Tablets \cup {None}
    BY <2>1, <2>3 DEF SessionInv
  <2> QED BY <2>1, <2>2, <2>3, <2>4, <2>5, SessionLinked
<1>9. ASSUME NEW s \in Slots, Sessions!DialRefused(s) PROVE SessionInv'
  BY <1>9, LoadEnds DEF Sessions!DialRefused, SessionInv, Loading, Restoring, MayOpen, Saving, Same
<1>10. ASSUME NEW s \in Slots, Sessions!DialDropped(s) PROVE SessionInv'
  BY <1>10, LoadEnds DEF Sessions!DialDropped, SessionInv, Loading, Restoring, MayOpen, Saving, Same
<1>11. ASSUME NEW s \in Slots, Sessions!InfoRead(s) PROVE SessionInv'
  BY <1>11, LoadGoes DEF Sessions!InfoRead, Sessions!Up, SessionInv, Loading, Restoring, MayOpen, Saving, Same
<1>12. ASSUME NEW s \in Slots, Sessions!InstalledRead(s) PROVE SessionInv'
  BY <1>12, LoadGoes DEF Sessions!InstalledRead, Sessions!Up, SessionInv, Loading, Restoring, MayOpen,
     Saving, Same
<1>13. ASSUME NEW s \in Slots, Sessions!SaveDevice(s) PROVE SessionInv'
  <2>1. link' \in Sessions!Link \cup {None} /\ (link' # None <=> link # None) /\ (link # None => link'.to = link.to)
    <3>1. CASE link = None
      BY <1>13, <3>1 DEF Sessions!SaveDevice, Sessions!Up, SessionInv
    <3>2. CASE link # None
      <4>1. link \in Sessions!Link /\ [link EXCEPT !.id = TRUE] \in Sessions!Link
            /\ [link EXCEPT !.id = TRUE].to = link.to
        BY <3>2 DEF SessionInv, Sessions!Link
      <4> QED BY <1>13, <4>1 DEF Sessions!SaveDevice, Sessions!Up
    <3> QED BY <3>1, <3>2
  <2>2. Loading(s) /\ loads[s].pc = "save" /\ Sessions!Goto(s, "list")
        /\ UNCHANGED <<device, connectedDeviceId, retryConnect, attempt, connectionStatus, abandoned>>
    BY <1>13 DEF Sessions!SaveDevice, Sessions!Up, Loading
  <2>3. /\ LoadsInv' /\ Same(s) /\ Loading(s)'
        /\ loads'[s].for = loads[s].for /\ loads'[s].pc = "list"
    BY <2>2, LoadGoes DEF SessionInv, Loading
  <2>4. \A u \in Slots : /\ Restoring(u) => Restoring(u)'
                         /\ MayOpen(u)' => MayOpen(u)
                         /\ Loading(u)' /\ loads'[u].for = "start" => Loading(u) /\ loads[u].for = "start"
    BY <2>2, <2>3 DEF Restoring, MayOpen, Loading, Same
  <2>5. (\E u \in Slots : Loading(u)' /\ loads'[u].for = "start") => attempt' = None /\ retryConnect' = None
    BY <2>2, <2>4 DEF SessionInv
  <2>6. connectionStatus' = "restoring" => \E u \in Slots : Restoring(u)'
    BY <2>2, <2>4 DEF SessionInv
  <2>7. \A u \in Slots : MayOpen(u)' => link' # None \/ connectionStatus' = "failed" \/ (device' = None /\ abandoned')
    BY <2>1, <2>2, <2>4 DEF SessionInv
  <2>8. link' # None => device' = link'.to
    BY <2>1, <2>2 DEF SessionInv
  <2>9. connectChecked' = connectChecked
    BY <1>13 DEF Sessions!SaveDevice, Sessions!Up
  <2>10. \A u \in Slots : Saving(u)' => loads'[u].for = "remember"
    BY <2>2, <2>3 DEF SessionInv, Saving, Loading, Same
  <2> QED BY <2>1, <2>2, <2>3, <2>5, <2>6, <2>7, <2>8, <2>9, <2>10 DEF SessionInv
<1>14. ASSUME NEW s \in Slots, Sessions!Saved(s) PROVE SessionInv'
  <2>1. /\ Sessions!End(s) /\ attempt' \in {attempt, None}
        /\ UNCHANGED <<link, device, connectedDeviceId, retryConnect, abandoned, connectChecked>>
    BY <1>14 DEF Sessions!Saved, Sessions!Opened
  <2>2. connectionStatus' = connectionStatus /\ ~Restoring(s)
    BY <1>14 DEF Sessions!Saved, Sessions!Opened, SessionInv, Saving, Loading, Restoring
  <2> QED BY <2>1, <2>2, SessionEnds
<1>15. ASSUME NEW s \in Slots, Sessions!ConnectFails(s) PROVE SessionInv'
  BY <1>15, LoadEnds DEF Sessions!ConnectFails, SessionInv, Loading, Restoring, MayOpen, Saving, Same
<1>16. ASSUME NEW s \in Slots, Sessions!StartFails(s) PROVE SessionInv'
  BY <1>16, LoadEnds DEF Sessions!StartFails, SessionInv, Loading, Restoring, MayOpen, Saving, Same
<1>17. ASSUME NEW s \in Slots, Sessions!LinkRestored(s) PROVE SessionInv'
  <2> DEFINE new == [link EXCEPT !.up = TRUE]
  <2>1. link \in Sessions!Link /\ link.to \in Tablets
    BY <1>17 DEF Sessions!LinkRestored, SessionInv, Sessions!Link
  <2>2. new \in Sessions!Link /\ new.to = link.to
    BY <2>1 DEF Sessions!Link
  <2>3. /\ link' = new /\ device' = link.to /\ connectChecked \in BOOLEAN
        /\ Sessions!Begin(s, "restore", link.to, "info", connectChecked)
        /\ UNCHANGED <<connectedDeviceId, retryConnect, attempt, connectChecked>>
    BY <1>17 DEF Sessions!LinkRestored, SessionInv
  <2> HIDE DEF new
  <2>4. /\ LoadsInv' /\ Same(s) /\ ~Loading(s) /\ Loading(s)'
        /\ loads'[s].for = "restore" /\ loads'[s].pc = "info"
    <3>1. LoadsInv /\ "restore" \in Sessions!Kinds
      BY DEF SessionInv, Sessions!Kinds
    <3>2. /\ LoadsInv' /\ Same(s) /\ loads[s] = None /\ loads'[s] # None
          /\ loads'[s].for = "restore" /\ loads'[s].pc = "info"
      BY <2>1, <2>3, <3>1, LoadBegins
    <3> QED BY <3>2 DEF Loading
  <2>5. connectedDeviceId' \in Tablets \cup {None}
    BY <2>3 DEF SessionInv
  <2> QED BY <2>1, <2>2, <2>3, <2>4, <2>5, SessionLinked
<1>18. ASSUME NEW s \in Slots, Sessions!RestoreFails(s) PROVE SessionInv'
  BY <1>18, LoadEnds DEF Sessions!RestoreFails, Sessions!RestoreOver, SessionInv, Loading, Restoring,
     MayOpen, Saving, Same
<1>19. ASSUME NEW s \in Slots, Sessions!handleReconnect(s) PROVE SessionInv'
  <2>1. /\ connectedDeviceId \in Tablets /\ connectionStatus = "failed"
        /\ Sessions!Begin(s, "again", connectedDeviceId, "dial", FALSE)
        /\ UNCHANGED <<link, device, connectedDeviceId, retryConnect, attempt, connectionStatus, connectChecked>>
    BY <1>19 DEF Sessions!handleReconnect, SessionInv
  <2>2. /\ LoadsInv' /\ Same(s) /\ loads'[s].for = "again" /\ loads'[s].pc = "dial"
    BY <2>1, LoadBegins DEF SessionInv, Sessions!Kinds
  <2>3. \A u \in Slots : Loading(u)' /\ loads'[u].for = "start" => Loading(u) /\ loads[u].for = "start"
    BY <2>2 DEF Loading, Same
  <2>4. (\E u \in Slots : Loading(u)' /\ loads'[u].for = "start") => attempt' = None /\ retryConnect' = None
    BY <2>1, <2>3 DEF SessionInv
  <2>5. /\ link' \in Sessions!Link \cup {None} /\ connectedDeviceId' \in Tablets \cup {None}
        /\ retryConnect' = retryConnect /\ connectChecked' \in BOOLEAN
        /\ (link' # None => device' = link'.to)
    BY <2>1 DEF SessionInv
  <2>6. \A u \in Slots : Saving(u)' => loads'[u].for = "remember"
    BY <2>2 DEF SessionInv, Saving, Loading, Same
  <2> QED BY <2>1, <2>2, <2>4, <2>5, <2>6 DEF SessionInv
<1>20. ASSUME NEW s \in Slots, Sessions!ReconnectAnswered(s) PROVE SessionInv'
  <2>1. /\ Loading(s) /\ loads[s].for = "again" /\ loads[s].pc = "dial" /\ ~Restoring(s)
        /\ loads[s] \in Sessions!Load /\ loads[s].to \in Tablets /\ connectChecked \in BOOLEAN
        /\ UNCHANGED <<connectedDeviceId, retryConnect, attempt, abandoned, connectChecked>>
    BY <1>20 DEF Sessions!ReconnectAnswered, SessionInv, LoadsInv, Loading, Restoring, Sessions!Load
  <2>2. CASE Sessions!RestoreOver(s) /\ UNCHANGED <<link, checks, connectionStatus, device>>
    BY <2>1, <2>2, SessionEnds DEF Sessions!RestoreOver
  <2>3. CASE /\ link' = [to |-> loads[s].to, id |-> TRUE, up |-> TRUE] /\ checks' = TRUE
             /\ connectionStatus' = "restoring" /\ device' = loads[s].to
             /\ loads' = [loads EXCEPT ![s].pc = "info", ![s].seen = connectChecked]
             /\ UNCHANGED manualReconnecting
    <3> DEFINE new == [to |-> loads[s].to, id |-> TRUE, up |-> TRUE]
               load == [[loads[s] EXCEPT !.pc = "info"] EXCEPT !.seen = connectChecked]
    <3>1. new \in Sessions!Link /\ new.to = loads[s].to /\ link' = new /\ device' = new.to
      BY <2>1, <2>3 DEF Sessions!Link
    <3>2. load \in Sessions!Load /\ load.for = "again" /\ load.pc = "info"
      BY <2>1 DEF Sessions!Load
    <3>3. loads' = [loads EXCEPT ![s] = load]
      BY <2>1, <2>3 DEF SessionInv, LoadsInv
    <3>4. connectionStatus' = "restoring" /\ connectedDeviceId' \in Tablets \cup {None}
      BY <2>1, <2>3 DEF SessionInv
    <3> HIDE DEF new, load
    <3>5. LoadsInv' /\ Same(s) /\ Loading(s)' /\ loads'[s].for = "again" /\ loads'[s].pc = "info"
      BY <3>2, <3>3, SessionConstants DEF SessionInv, LoadsInv, Same, Loading
    <3> QED BY <2>1, <3>1, <3>4, <3>5, SessionLinked
  <2> QED BY <1>20, <2>2, <2>3 DEF Sessions!ReconnectAnswered
<1>21. CASE Sessions!CloseError
  <2>1. UNCHANGED <<link, device, connectedDeviceId, attempt, retryConnect, connectionStatus, abandoned, loads,
                  connectChecked>>
    BY <1>21 DEF Sessions!CloseError, Sessions!Click
  <2> QED BY <2>1, SessionKept
<1>22. CASE Sessions!handleCancelConnect
  BY <1>22 DEF Sessions!handleCancelConnect, Sessions!Click, SessionInv, Loading, Restoring, MayOpen,
     Saving, LoadsInv
<1>23. CASE Sessions!ChecksReport
  <2>2. /\ LoadsInv'
        /\ \A u \in Slots : /\ Loading(u)' <=> Loading(u)
                            /\ Loading(u) => loads'[u].for = loads[u].for /\ loads'[u].pc = loads[u].pc
    <3> DEFINE load(u) == IF Loading(u) /\ loads[u].pc \in {"info", "installed", "checks"}
                          THEN [loads[u] EXCEPT !.seen = TRUE] ELSE loads[u]
    <3>1. loads' = [u \in Slots |-> load(u)]
      BY <1>23 DEF Sessions!ChecksReport, Loading, Sessions!Live
    <3>2. \A u \in Slots : Loading(u) => loads[u] \in Sessions!Load
      BY DEF SessionInv, LoadsInv, Loading
    <3>3. \A u \in Slots : ~Loading(u) => load(u) = None
      BY DEF Loading
    <3>4. \A u \in Slots : Loading(u) => load(u) \in Sessions!Load /\ load(u).for = loads[u].for /\ load(u).pc = loads[u].pc
      BY <3>2, LoadSeen
    <3> HIDE DEF load
    <3>5. \A u \in Slots : loads'[u] = load(u)
      BY <3>1
    <3>6. LoadsInv'
      BY <3>1, <3>3, <3>4 DEF LoadsInv
    <3> QED BY <3>3, <3>4, <3>5, <3>6 DEF Loading
  <2>3. connectChecked' = TRUE
        /\ UNCHANGED <<link, device, connectedDeviceId, retryConnect, attempt, connectionStatus, abandoned>>
    BY <1>23 DEF Sessions!ChecksReport
  <2>4. \A u \in Slots : (Restoring(u)' <=> Restoring(u)) /\ (MayOpen(u)' <=> MayOpen(u)) /\ (Saving(u)' <=> Saving(u))
    BY <2>2, <2>3 DEF Restoring, MayOpen, Saving
  <2> QED BY <2>2, <2>3, <2>4 DEF SessionInv, Saving
<1>24. CASE Sessions!LinkLost
  <2>1. link \in Sessions!Link /\ link # None
    BY <1>24 DEF Sessions!LinkLost, Sessions!Up, SessionInv
  <2>2. link' \in Sessions!Link /\ link'.to = link.to
    BY <1>24, <2>1 DEF Sessions!LinkLost, Sessions!Up, Sessions!Link
  <2>3. connectionStatus' = "lost" /\ connectChecked' = FALSE
        /\ UNCHANGED <<device, connectedDeviceId, retryConnect, attempt, abandoned, loads>>
    BY <1>24 DEF Sessions!LinkLost, Sessions!Up
  <2> QED BY <2>1, <2>2, <2>3 DEF SessionInv, LoadsInv, Loading, MayOpen, Saving
<1>25. CASE Sessions!Reconnecting
  BY <1>25 DEF Sessions!Reconnecting, SessionInv, Loading, Restoring, MayOpen, Saving, LoadsInv
<1>26. CASE Sessions!LinkFailed
  BY <1>26 DEF Sessions!LinkFailed, Sessions!Disconnected, Sessions!More, SessionInv, Loading, Restoring,
     MayOpen, Saving, LoadsInv
<1>27. CASE Sessions!handleDisconnect
  BY <1>27 DEF Sessions!handleDisconnect, Sessions!Click, Sessions!Disconnected, Sessions!More,
     SessionInv, Loading, Restoring, MayOpen, Saving, LoadsInv
<1>28. CASE Sessions!MetadataLoaded
  <2>1. UNCHANGED <<link, device, connectedDeviceId, attempt, retryConnect, connectionStatus, abandoned, loads,
                  connectChecked>>
    BY <1>28 DEF Sessions!MetadataLoaded, Sessions!Chore
  <2> QED BY <2>1, SessionKept
<1>29. CASE Sessions!Browse
  <2>1. UNCHANGED <<link, device, connectedDeviceId, attempt, retryConnect, connectionStatus, abandoned, loads,
                  connectChecked>>
    BY <1>29 DEF Sessions!Browse, Sessions!Chore
  <2> QED BY <2>1, SessionKept
<1>30. CASE Sessions!refreshBrowseCatalog
  <2>1. UNCHANGED <<link, device, connectedDeviceId, attempt, retryConnect, connectionStatus, abandoned, loads,
                  connectChecked>>
    BY <1>30 DEF Sessions!refreshBrowseCatalog, Sessions!Chore
  <2> QED BY <2>1, SessionKept
<1>31. CASE Sessions!DeepLink
  <2>1. UNCHANGED <<link, device, connectedDeviceId, attempt, retryConnect, connectionStatus, abandoned, loads,
                  connectChecked>>
    BY <1>31 DEF Sessions!DeepLink, Sessions!Chore
  <2> QED BY <2>1, SessionKept
<1>32. CASE Sessions!OpenDeepLink
  <2>1. UNCHANGED <<link, device, connectedDeviceId, attempt, retryConnect, connectionStatus, abandoned, loads,
                  connectChecked>>
    BY <1>32 DEF Sessions!OpenDeepLink
  <2> QED BY <2>1, SessionKept
<1>33. ASSUME NEW f \in {"start", "browse", "loaded"} \cup Tablets, Sessions!CatalogAnswered(f) PROVE SessionInv'
  <2>1. UNCHANGED <<link, device, connectedDeviceId, attempt, retryConnect, connectionStatus, abandoned, loads,
                  connectChecked>>
    BY <1>33 DEF Sessions!CatalogAnswered, Sessions!Up
  <2> QED BY <2>1, SessionKept
<1>34. CASE Sessions!ListRead
  <2>1. UNCHANGED <<link, device, connectedDeviceId, attempt, retryConnect, connectionStatus, abandoned, loads,
                  connectChecked>>
    BY <1>34 DEF Sessions!ListRead
  <2> QED BY <2>1, SessionKept
<1>35. CASE Sessions!DeleteAnswered
  <2>1. UNCHANGED <<link, device, connectedDeviceId, attempt, retryConnect, connectionStatus, abandoned, loads,
                  connectChecked>>
    BY <1>35 DEF Sessions!DeleteAnswered
  <2> QED BY <2>1, SessionKept
<1>36. CASE Sessions!handleConfirmDelete
  <2>1. UNCHANGED <<link, device, connectedDeviceId, attempt, retryConnect, connectionStatus, abandoned, loads,
                  connectChecked>>
    BY <1>36 DEF Sessions!handleConfirmDelete, Sessions!Chore
  <2> QED BY <2>1, SessionKept
<1>37. CASE Sessions!OpenForm
  <2>1. UNCHANGED <<link, device, connectedDeviceId, attempt, retryConnect, connectionStatus, abandoned, loads,
                  connectChecked>>
    BY <1>37 DEF Sessions!OpenForm, Sessions!Chore
  <2> QED BY <2>1, SessionKept
<1>38. CASE Sessions!handleCancelForm
  <2>1. UNCHANGED <<link, device, connectedDeviceId, attempt, retryConnect, connectionStatus, abandoned, loads,
                  connectChecked>>
    BY <1>38 DEF Sessions!handleCancelForm, Sessions!Chore
  <2> QED BY <2>1, SessionKept
<1>39. CASE Sessions!handleSaveEditedDevice
  <2>1. UNCHANGED <<link, device, connectedDeviceId, attempt, retryConnect, connectionStatus, abandoned, loads,
                  connectChecked>>
    BY <1>39 DEF Sessions!handleSaveEditedDevice, Sessions!Chore
  <2> QED BY <2>1, SessionKept
<1>40. CASE Sessions!EditSaved
  <2>1. UNCHANGED <<link, device, connectedDeviceId, attempt, retryConnect, connectionStatus, abandoned, loads,
                  connectChecked>>
    BY <1>40 DEF Sessions!EditSaved
  <2> QED BY <2>1, SessionKept
<1>41. ASSUME NEW t \in Tablets, Sessions!DevicesSynced(t) PROVE SessionInv'
  <2>1. UNCHANGED <<link, device, connectedDeviceId, attempt, retryConnect, connectionStatus, abandoned, loads,
                  connectChecked>>
    BY <1>41 DEF Sessions!DevicesSynced, Sessions!Chore, Sessions!More
  <2> QED BY <2>1, SessionKept
<1>42. ASSUME NEW t \in Tablets, Sessions!handleDeleteClick(t) PROVE SessionInv'
  <2>1. UNCHANGED <<link, device, connectedDeviceId, attempt, retryConnect, connectionStatus, abandoned, loads,
                  connectChecked>>
    BY <1>42 DEF Sessions!handleDeleteClick, Sessions!Chore
  <2> QED BY <2>1, SessionKept
<1> QED BY <1>1, <1>2, <1>3, <1>4, <1>5, <1>6, <1>7, <1>8, <1>9, <1>10, <1>11, <1>12, <1>13,
          <1>14, <1>15, <1>16, <1>17, <1>18, <1>19, <1>20, <1>21, <1>22, <1>23, <1>24, <1>25,
          <1>26, <1>27, <1>28, <1>29, <1>30, <1>31, <1>32, <1>33, <1>34, <1>35, <1>36, <1>37,
          <1>38, <1>39, <1>40, <1>41, <1>42
    DEF Sessions!Next, Sessions!Continues, Sessions!Events

LEMMA SessionStay == SessionInv /\ UNCHANGED sessionVars => SessionInv'
  BY SessionKept DEF sessionVars

LEMMA SessionAlways == Spec => []SessionInv
<1>1. Next => UNCHANGED sessionVars \/ Sessions!Next
  BY DEF Next, Only
<1>2. SessionInv /\ UNCHANGED vars => SessionInv'
  BY SessionStay DEF vars
<1> QED BY <1>1, <1>2, SessionInit, SessionStep, SessionStay, PTL DEF Spec

(* "Reconnected, loading" is never left standing: while it is shown a        *)
(* handler reads the tablet that will end it.                                *)
THEOREM RestoringComesToAnEnd == Spec => []RestoringIsUnderWay
<1>1. SessionInv => RestoringIsUnderWay
  BY DEF SessionInv, Loading, Restoring, RestoringIsUnderWay, Sessions!RestoringIsUnderWay,
         Sessions!Live, Sessions!Restores
<1> QED BY <1>1, SessionAlways, PTL

-----------------------------------------------------------------------------
(* Opening the tabs                                                         *)

Opening == step # "select" /\ step' = "select"
OnALink ==
  \/ link # None /\ device = link.to
  \/ connectionStatus = "failed"
  \/ device = None /\ abandoned
  \/ \E s \in Sessions!Live : loads[s].pc \in {"save", "list"}

LEMMA OpeningStep == SessionInv /\ Sessions!Next /\ Opening => OnALink
<1> SUFFICES ASSUME SessionInv, Sessions!Next, Opening PROVE OnALink
  OBVIOUS
<1> USE DEF Sessions!backend, Sessions!shown, Sessions!status, Sessions!catalog, Sessions!deviceList,
            Sessions!connectVars, Sessions!reconnectVars, Sessions!bounds
<1>1. ASSUME NEW s \in Slots, Sessions!ConnectFinishes(s) PROVE OnALink
  BY <1>1 DEF Sessions!ConnectFinishes, Sessions!Finished, SessionInv, MayOpen, Loading, Opening, OnALink
<1>2. ASSUME NEW s \in Slots, Sessions!StartFinishes(s) PROVE OnALink
  BY <1>2 DEF Sessions!StartFinishes, Sessions!Finished, SessionInv, MayOpen, Loading, OnALink
<1>3. ASSUME NEW s \in Slots, Sessions!Saved(s) PROVE OnALink
  BY <1>3 DEF Sessions!Saved, Sessions!Live, OnALink
<1>4. CASE UNCHANGED step \/ step' \in {"connect", "browse"}
  BY <1>4 DEF Opening
<1>5. Sessions!Events =>
        \/ UNCHANGED step \/ step' \in {"connect", "browse"}
        \/ \E s \in Slots : Sessions!Saved(s)
  <2>1. \A s \in Slots, t \in Tablets :
          (\E for \in {"add", "remember"} : Sessions!handleConnect(s, t, for)) \/ Sessions!handleConnectToSavedDevice(s, t)
            => UNCHANGED step
    BY DEF Sessions!handleConnect, Sessions!handleConnectToSavedDevice, Sessions!Attempt
  <2>2. \A s \in Slots :
          (\/ Sessions!Retry(s) \/ Sessions!DialAnswered(s) \/ Sessions!DialRefused(s) \/ Sessions!DialDropped(s)
           \/ Sessions!InfoRead(s) \/ Sessions!InstalledRead(s) \/ Sessions!SaveDevice(s)
           \/ Sessions!ConnectFails(s) \/ Sessions!StartFails(s)
           \/ Sessions!LinkRestored(s) \/ Sessions!RestoreFails(s) \/ Sessions!handleReconnect(s)
           \/ Sessions!ReconnectAnswered(s))
          => UNCHANGED step
    BY ZenonT(40) DEF Sessions!Retry, Sessions!Attempt, Sessions!DialAnswered, Sessions!DialRefused,
           Sessions!DialDropped, Sessions!InfoRead, Sessions!InstalledRead, Sessions!SaveDevice,
           Sessions!ConnectFails, Sessions!StartFails, Sessions!LinkRestored,
           Sessions!RestoreFails, Sessions!handleReconnect, Sessions!ReconnectAnswered
  <2>3. (\/ Sessions!CloseError \/ Sessions!handleCancelConnect \/ Sessions!ChecksReport
         \/ Sessions!LinkLost \/ Sessions!Reconnecting \/ Sessions!LinkFailed \/ Sessions!handleDisconnect
         \/ Sessions!MetadataLoaded \/ Sessions!Browse \/ Sessions!refreshBrowseCatalog \/ Sessions!DeepLink
         \/ Sessions!OpenDeepLink)
        => UNCHANGED step \/ step' \in {"connect", "browse"}
    BY DEF Sessions!CloseError, Sessions!handleCancelConnect, Sessions!ChecksReport,
           Sessions!LinkLost, Sessions!Reconnecting, Sessions!LinkFailed,
           Sessions!handleDisconnect, Sessions!Disconnected, Sessions!MetadataLoaded,
           Sessions!Browse, Sessions!refreshBrowseCatalog, Sessions!DeepLink,
           Sessions!OpenDeepLink
  <2>4. (\/ \E f \in {"start", "browse", "loaded"} \cup Tablets : Sessions!CatalogAnswered(f)
         \/ Sessions!ListRead \/ Sessions!DeleteAnswered \/ Sessions!handleConfirmDelete \/ Sessions!OpenForm
         \/ Sessions!handleCancelForm \/ Sessions!handleSaveEditedDevice \/ Sessions!EditSaved
         \/ \E t \in Tablets : Sessions!DevicesSynced(t) \/ Sessions!handleDeleteClick(t))
        => UNCHANGED step
    BY DEF Sessions!CatalogAnswered, Sessions!ListRead, Sessions!DeleteAnswered,
           Sessions!handleConfirmDelete, Sessions!OpenForm, Sessions!handleCancelForm,
           Sessions!handleSaveEditedDevice, Sessions!EditSaved, Sessions!DevicesSynced,
           Sessions!handleDeleteClick
  <2> QED BY <2>1, <2>2, <2>3, <2>4 DEF Sessions!Events
<1>6. Sessions!Continues =>
        \/ UNCHANGED step
        \/ \E s \in Slots : Sessions!ConnectFinishes(s) \/ Sessions!StartFinishes(s)
  BY DEF Sessions!Continues, Sessions!SaveBegins, Sessions!RestoreFinishes
<1> QED BY <1>1, <1>2, <1>3, <1>4, <1>5, <1>6 DEF Sessions!Next

(* The tabs open on the connection that was asked for, or on one that the    *)
(* page says is gone; else a save was under way, or a Disconnect left an     *)
(* attempt going.                                                           *)
THEOREM TabsOpenOnTheirConnection == Spec => OpensOnItsConnection
<1>1. Next => UNCHANGED sessionVars \/ Sessions!Next
  BY DEF Next, Only
<1>2. SessionInv /\ Next => (Opening => OnALink) \/ UNCHANGED sessionVars
  BY <1>1, OpeningStep
<1>3. (Opening => OnALink) \/ UNCHANGED sessionVars
        => [Opening => OnALink]_(Sessions!vars)
  BY DEF sessionVars, Sessions!vars, Sessions!backend, Sessions!shown, Sessions!status, Sessions!catalog,
         Sessions!deviceList, Sessions!connectVars, Sessions!reconnectVars, Sessions!bounds
<1>4. UNCHANGED vars => UNCHANGED sessionVars
  BY DEF vars
<1> QED BY <1>2, <1>3, <1>4, SessionAlways, PTL
    DEF Spec, OpensOnItsConnection, Sessions!OpensOnItsConnection, Opening, OnALink

-----------------------------------------------------------------------------
(* The session                                                              *)

(* What each group of the session's variables may be.                        *)
BackTypes    == checks \in BOOLEAN /\ devicesKept \subseteq Tablets
PlaceTypes   == step \in {"connect", "browse", "select"} /\ device \in Tablets \cup {None}
StatusTypes  == connectionStatus \in {"connected", "lost", "reconnecting", "restoring", "failed"}
CatalogTypes ==
  /\ packages \in {"empty", "all"} \cup Tablets /\ installedOn \in Tablets \cup {None}
  /\ fetches \subseteq {"start", "browse", "loaded"} \cup Tablets
ListTypes ==
  /\ savedDevices \subseteq Tablets /\ lists \in 0..2
  /\ deviceToDelete \in Tablets \cup {None}
  /\ deleting \in [id : Tablets, shown : SUBSET Tablets] \cup {None}
  /\ form \in {"closed", "add"} \cup Tablets /\ editSaving \in BOOLEAN
TryTypes   == attempt \in Slots \cup {None} /\ connectError \in BOOLEAN /\ showShellRcNoisy \in BOOLEAN
AgainTypes == abandoned \in BOOLEAN /\ manualReconnecting \in BOOLEAN /\ refused \in BOOLEAN
CountTypes ==
  /\ deepLinked \in BOOLEAN
  /\ sessionClicks \in 0..SessionClicks /\ chores \in 0..Chores /\ losses \in 0..MaxLosses

SessionTypes ==
  /\ SessionInv
  /\ BackTypes /\ PlaceTypes /\ StatusTypes /\ CatalogTypes /\ ListTypes /\ TryTypes /\ AgainTypes /\ CountTypes

LEMMA SessionTypesMean == SessionTypes => Sessions!SessionTypeOK
<1> SUFFICES ASSUME SessionTypes PROVE Sessions!SessionTypeOK
  OBVIOUS
<1>1. /\ link \in Sessions!Link \cup {None} /\ connectedDeviceId \in Tablets \cup {None}
      /\ connectChecked \in BOOLEAN /\ loads \in [Slots -> Sessions!Load \cup {None}]
      /\ retryConnect \in [for : {"add", "remember", "saved"}, to : Tablets] \cup {None}
  BY DEF SessionTypes, SessionInv, LoadsInv
<1>2. retryConnect \in [for : Sessions!Kinds, to : Tablets] \cup {None}
  BY <1>1 DEF Sessions!Kinds
<1> QED BY <1>1, <1>2 DEF SessionTypes, BackTypes, PlaceTypes, StatusTypes, CatalogTypes, ListTypes, TryTypes,
      AgainTypes, CountTypes, Sessions!SessionTypeOK

LEMMA SessionTypesInit == Init => SessionTypes
<1> SUFFICES ASSUME Init PROVE SessionTypes
  OBVIOUS
<1>1. Sessions!Init /\ SessionInv
  BY SessionInit DEF Init
<1>2. BackTypes
  BY <1>1 DEF Sessions!Init, BackTypes
<1>3. PlaceTypes /\ StatusTypes
  BY <1>1 DEF Sessions!Init, PlaceTypes, StatusTypes
<1>4. CatalogTypes
  BY <1>1 DEF Sessions!Init, CatalogTypes
<1>5. ListTypes
  <2>1. /\ savedDevices \subseteq Tablets /\ lists = 0 /\ deviceToDelete = None /\ deleting = None
        /\ form = "closed" /\ editSaving = FALSE
    BY <1>1 DEF Sessions!Init
  <2>2. editSaving \in BOOLEAN
    BY <2>1
  <2>3. lists \in 0..2
    BY <2>1
  <2>4. form \in {"closed", "add"} \cup Tablets
    BY <2>1
  <2> QED BY <2>1, <2>2, <2>3, <2>4 DEF ListTypes
<1>6. TryTypes /\ AgainTypes
  BY <1>1 DEF Sessions!Init, TryTypes, AgainTypes
<1>7. CountTypes
  <2>1. deepLinked = FALSE /\ sessionClicks = 0 /\ chores = 0 /\ losses = 0
    BY <1>1 DEF Sessions!Init
  <2>2. deepLinked \in BOOLEAN
    BY <2>1
  <2>3. sessionClicks \in 0..SessionClicks /\ chores \in 0..Chores /\ losses \in 0..MaxLosses
    BY <2>1, SessionConstants
  <2> QED BY <2>2, <2>3 DEF CountTypes
<1> QED BY <1>1, <1>2, <1>3, <1>4, <1>5, <1>6, <1>7 DEF SessionTypes

LEMMA SessionTargets ==
  ASSUME SessionInv
  PROVE  /\ \A s \in Slots : loads[s] # None => loads[s].to \in Tablets
         /\ link # None => link.to \in Tablets
         /\ connectedDeviceId \in Tablets \cup {None}
  BY DEF SessionInv, LoadsInv, Sessions!Load, Sessions!Link

LEMMA SessionTypesStep == SessionTypes /\ Sessions!Next => SessionTypes'
<1> SUFFICES ASSUME SessionTypes, Sessions!Next
             PROVE  /\ BackTypes' /\ PlaceTypes' /\ StatusTypes' /\ CatalogTypes'
                    /\ ListTypes' /\ TryTypes' /\ AgainTypes' /\ CountTypes'
  BY SessionStep DEF SessionTypes
<1> DEFINE Goal == /\ BackTypes' /\ PlaceTypes' /\ StatusTypes' /\ CatalogTypes'
                   /\ ListTypes' /\ TryTypes' /\ AgainTypes' /\ CountTypes'
<1>g. BackTypes /\ PlaceTypes /\ StatusTypes /\ CatalogTypes /\ ListTypes /\ TryTypes /\ AgainTypes /\ CountTypes
  BY DEF SessionTypes
<1>00. /\ \A s \in Slots : loads[s] # None => loads[s].to \in Tablets
       /\ (link # None => link.to \in Tablets) /\ connectedDeviceId \in Tablets \cup {None}
  BY SessionTargets DEF SessionTypes
<1>b. UNCHANGED Sessions!backend => BackTypes'
  BY <1>g DEF BackTypes, Sessions!backend
<1>p. UNCHANGED Sessions!shown \/ (UNCHANGED <<step, device>>) => PlaceTypes'
  BY <1>g DEF PlaceTypes, Sessions!shown
<1>s. UNCHANGED Sessions!status \/ UNCHANGED connectionStatus => StatusTypes'
  BY <1>g DEF StatusTypes, Sessions!status
<1>c. UNCHANGED Sessions!catalog => CatalogTypes'
  BY <1>g DEF CatalogTypes, Sessions!catalog
<1>l. UNCHANGED Sessions!deviceList => ListTypes'
  BY <1>g DEF ListTypes, Sessions!deviceList
<1>t. UNCHANGED Sessions!connectVars \/ UNCHANGED <<attempt, connectError, showShellRcNoisy>> => TryTypes'
  BY <1>g DEF TryTypes, Sessions!connectVars
<1>a. UNCHANGED Sessions!reconnectVars => AgainTypes'
  BY <1>g DEF AgainTypes, Sessions!reconnectVars
<1>n. UNCHANGED deepLinked /\ (Sessions!Click \/ Sessions!Chore \/ UNCHANGED Sessions!bounds) => CountTypes'
  BY <1>g, SessionConstants DEF CountTypes, Sessions!Click, Sessions!Chore, Sessions!bounds
<1>1. ASSUME NEW s \in Slots, Sessions!ConnectFinishes(s) PROVE Goal
  <2>1. PlaceTypes'
    BY <1>1, <1>g, <1>00 DEF Sessions!ConnectFinishes, Sessions!Opened, PlaceTypes
  <2>2. ListTypes'
    BY <1>1, <1>g, <1>00 DEF Sessions!ConnectFinishes, Sessions!Opened, ListTypes
  <2>3. TryTypes'
    BY <1>1, <1>g, <1>00 DEF Sessions!ConnectFinishes, Sessions!Opened, TryTypes
  <2> QED BY <1>1, <2>1, <2>2, <2>3, <1>b, <1>s, <1>c, <1>a, <1>n DEF Sessions!ConnectFinishes
<1>2. ASSUME NEW s \in Slots, Sessions!StartFinishes(s) PROVE Goal
  <2>1. PlaceTypes'
    BY <1>2, <1>g, <1>00 DEF Sessions!StartFinishes, PlaceTypes
  <2> QED BY <1>2, <2>1, <1>b, <1>s, <1>c, <1>l, <1>t, <1>a, <1>n DEF Sessions!StartFinishes
<1>3. ASSUME NEW s \in Slots, Sessions!SaveBegins(s) PROVE Goal
  BY <1>3, <1>b, <1>p, <1>s, <1>c, <1>l, <1>t, <1>a, <1>n DEF Sessions!SaveBegins
<1>4. ASSUME NEW s \in Slots, Sessions!RestoreFinishes(s) PROVE Goal
  <2>1. StatusTypes'
    BY <1>4, <1>g, <1>00 DEF Sessions!RestoreFinishes, Sessions!RestoreOver, StatusTypes
  <2>2. AgainTypes'
    BY <1>4, <1>g, <1>00 DEF Sessions!RestoreFinishes, Sessions!RestoreOver, AgainTypes
  <2> QED BY <1>4, <2>1, <2>2, <1>b, <1>p, <1>c, <1>l, <1>t, <1>n DEF Sessions!RestoreFinishes
<1>5. ASSUME NEW s \in Slots, NEW t \in Tablets, NEW for \in {"add", "remember"}, Sessions!handleConnect(s, t, for) PROVE Goal
  <2>1. TryTypes'
    BY <1>5, <1>g, <1>00 DEF Sessions!handleConnect, Sessions!Attempt, TryTypes
  <2> QED BY <1>5, <2>1, <1>b, <1>p, <1>s, <1>c, <1>l, <1>a, <1>n DEF Sessions!handleConnect, Sessions!Attempt
<1>6. ASSUME NEW s \in Slots, NEW t \in Tablets, Sessions!handleConnectToSavedDevice(s, t) PROVE Goal
  <2>1. TryTypes'
    BY <1>6, <1>g, <1>00 DEF Sessions!handleConnectToSavedDevice, Sessions!Attempt, TryTypes
  <2> QED BY <1>6, <2>1, <1>b, <1>p, <1>s, <1>c, <1>l, <1>a, <1>n DEF Sessions!handleConnectToSavedDevice, Sessions!Attempt
<1>7. ASSUME NEW s \in Slots, Sessions!Retry(s) PROVE Goal
  <2>1. TryTypes'
    BY <1>7, <1>g, <1>00 DEF Sessions!Retry, Sessions!Attempt, TryTypes
  <2> QED BY <1>7, <2>1, <1>b, <1>p, <1>s, <1>c, <1>l, <1>a, <1>n DEF Sessions!Retry, Sessions!Attempt
<1>8. ASSUME NEW s \in Slots, Sessions!DialAnswered(s) PROVE Goal
  <2>1. BackTypes'
    BY <1>8, <1>g, <1>00 DEF Sessions!DialAnswered, BackTypes
  <2>2. PlaceTypes'
    BY <1>8, <1>g, <1>00 DEF Sessions!DialAnswered, PlaceTypes
  <2> QED BY <1>8, <2>1, <2>2, <1>s, <1>c, <1>l, <1>t, <1>a, <1>n DEF Sessions!DialAnswered
<1>9. ASSUME NEW s \in Slots, Sessions!DialRefused(s) PROVE Goal
  <2>1. BackTypes'
    BY <1>9, <1>g, <1>00 DEF Sessions!DialRefused, BackTypes
  <2>2. ListTypes'
    BY <1>9, <1>g, <1>00 DEF Sessions!DialRefused, ListTypes
  <2>3. TryTypes'
    BY <1>9, <1>g, <1>00 DEF Sessions!DialRefused, TryTypes
  <2> QED BY <1>9, <2>1, <2>2, <2>3, <1>p, <1>s, <1>c, <1>a, <1>n DEF Sessions!DialRefused
<1>10. ASSUME NEW s \in Slots, Sessions!DialDropped(s) PROVE Goal
  <2>1. AgainTypes'
    BY <1>10, <1>g, <1>00 DEF Sessions!DialDropped, AgainTypes
  <2> QED BY <1>10, <2>1, <1>b, <1>p, <1>s, <1>c, <1>l, <1>t, <1>n DEF Sessions!DialDropped
<1>11. ASSUME NEW s \in Slots, Sessions!InfoRead(s) PROVE Goal
  <2>1. CatalogTypes'
    BY <1>11, <1>g, <1>00 DEF Sessions!InfoRead, CatalogTypes
  <2> QED BY <1>11, <2>1, <1>b, <1>p, <1>s, <1>l, <1>t, <1>a, <1>n DEF Sessions!InfoRead
<1>12. ASSUME NEW s \in Slots, Sessions!InstalledRead(s) PROVE Goal
  <2>1. CatalogTypes'
    BY <1>12, <1>g, <1>00 DEF Sessions!InstalledRead, Sessions!Up, CatalogTypes
  <2> QED BY <1>12, <2>1, <1>b, <1>p, <1>s, <1>l, <1>t, <1>a, <1>n DEF Sessions!InstalledRead
<1>13. ASSUME NEW s \in Slots, Sessions!SaveDevice(s) PROVE Goal
  <2>1. BackTypes'
    BY <1>13, <1>g, <1>00 DEF Sessions!SaveDevice, BackTypes
  <2> QED BY <1>13, <2>1, <1>p, <1>s, <1>c, <1>l, <1>t, <1>a, <1>n DEF Sessions!SaveDevice
<1>14. ASSUME NEW s \in Slots, Sessions!Saved(s) PROVE Goal
  <2>1. PlaceTypes'
    BY <1>14, <1>g, <1>00 DEF Sessions!Saved, Sessions!Opened, PlaceTypes
  <2>2. ListTypes'
    BY <1>14, <1>g, <1>00 DEF Sessions!Saved, Sessions!Opened, ListTypes, BackTypes
  <2>3. TryTypes'
    BY <1>14, <1>g, <1>00 DEF Sessions!Saved, Sessions!Opened, TryTypes
  <2> QED BY <1>14, <2>1, <2>2, <2>3, <1>b, <1>s, <1>c, <1>a, <1>n DEF Sessions!Saved
<1>15. ASSUME NEW s \in Slots, Sessions!ConnectFails(s) PROVE Goal
  <2>1. BackTypes'
    BY <1>15, <1>g, <1>00 DEF Sessions!ConnectFails, BackTypes
  <2>2. TryTypes'
    BY <1>15, <1>g, <1>00 DEF Sessions!ConnectFails, TryTypes
  <2> QED BY <1>15, <2>1, <2>2, <1>p, <1>s, <1>c, <1>l, <1>a, <1>n DEF Sessions!ConnectFails
<1>16. ASSUME NEW s \in Slots, Sessions!StartFails(s) PROVE Goal
  BY <1>16, <1>b, <1>p, <1>s, <1>c, <1>l, <1>t, <1>a, <1>n DEF Sessions!StartFails
<1>17. ASSUME NEW s \in Slots, Sessions!LinkRestored(s) PROVE Goal
  <2>1. BackTypes'
    BY <1>17, <1>g, <1>00 DEF Sessions!LinkRestored, BackTypes
  <2>2. PlaceTypes'
    BY <1>17, <1>g, <1>00 DEF Sessions!LinkRestored, PlaceTypes
  <2>3. StatusTypes'
    BY <1>17, <1>g, <1>00 DEF Sessions!LinkRestored, StatusTypes
  <2> QED BY <1>17, <2>1, <2>2, <2>3, <1>c, <1>l, <1>t, <1>a, <1>n DEF Sessions!LinkRestored
<1>18. ASSUME NEW s \in Slots, Sessions!RestoreFails(s) PROVE Goal
  <2>1. StatusTypes'
    BY <1>18, <1>g, <1>00 DEF Sessions!RestoreFails, Sessions!RestoreOver, StatusTypes
  <2>2. AgainTypes'
    BY <1>18, <1>g, <1>00 DEF Sessions!RestoreFails, Sessions!RestoreOver, AgainTypes
  <2> QED BY <1>18, <2>1, <2>2, <1>b, <1>p, <1>c, <1>l, <1>t, <1>n DEF Sessions!RestoreFails
<1>19. ASSUME NEW s \in Slots, Sessions!handleReconnect(s) PROVE Goal
  <2>1. AgainTypes'
    BY <1>19, <1>g, <1>00 DEF Sessions!handleReconnect, AgainTypes
  <2> QED BY <1>19, <2>1, <1>b, <1>p, <1>s, <1>c, <1>l, <1>t, <1>n DEF Sessions!handleReconnect
<1>20. ASSUME NEW s \in Slots, Sessions!ReconnectAnswered(s) PROVE Goal
  <2>1. BackTypes'
    BY <1>20, <1>g, <1>00 DEF Sessions!ReconnectAnswered, Sessions!RestoreOver, BackTypes
  <2>2. PlaceTypes'
    BY <1>20, <1>g, <1>00 DEF Sessions!ReconnectAnswered, Sessions!RestoreOver, PlaceTypes
  <2>3. StatusTypes'
    BY <1>20, <1>g, <1>00 DEF Sessions!ReconnectAnswered, Sessions!RestoreOver, StatusTypes
  <2>4. AgainTypes'
    BY <1>20, <1>g, <1>00 DEF Sessions!ReconnectAnswered, Sessions!RestoreOver, AgainTypes
  <2> QED BY <1>20, <2>1, <2>2, <2>3, <2>4, <1>c, <1>l, <1>t, <1>n DEF Sessions!ReconnectAnswered
<1>21. ASSUME Sessions!CloseError PROVE Goal
  <2>1. TryTypes'
    BY <1>21, <1>g, <1>00 DEF Sessions!CloseError, TryTypes
  <2> QED BY <1>21, <2>1, <1>b, <1>p, <1>s, <1>c, <1>l, <1>a, <1>n DEF Sessions!CloseError
<1>22. ASSUME Sessions!handleCancelConnect PROVE Goal
  <2>1. BackTypes'
    BY <1>22, <1>g, <1>00 DEF Sessions!handleCancelConnect, BackTypes
  <2>2. PlaceTypes'
    BY <1>22, <1>g, <1>00 DEF Sessions!handleCancelConnect, PlaceTypes
  <2>3. TryTypes'
    BY <1>22, <1>g, <1>00 DEF Sessions!handleCancelConnect, TryTypes
  <2> QED BY <1>22, <2>1, <2>2, <2>3, <1>s, <1>c, <1>l, <1>a, <1>n DEF Sessions!handleCancelConnect
<1>23. ASSUME Sessions!ChecksReport PROVE Goal
  <2>1. BackTypes'
    BY <1>23, <1>g, <1>00 DEF Sessions!ChecksReport, BackTypes
  <2>2. StatusTypes'
    BY <1>23, <1>g, <1>00 DEF Sessions!ChecksReport, StatusTypes
  <2> QED BY <1>23, <2>1, <2>2, <1>p, <1>c, <1>l, <1>t, <1>a, <1>n DEF Sessions!ChecksReport
<1>24. ASSUME Sessions!LinkLost PROVE Goal
  <2>1. BackTypes'
    BY <1>24, <1>g, <1>00 DEF Sessions!LinkLost, BackTypes
  <2>2. StatusTypes'
    BY <1>24, <1>g, <1>00 DEF Sessions!LinkLost, StatusTypes
  <2>3. CountTypes'
    BY <1>24, <1>g, SessionConstants DEF Sessions!LinkLost, CountTypes
  <2> QED BY <1>24, <2>1, <2>2, <2>3, <1>p, <1>c, <1>l, <1>t, <1>a DEF Sessions!LinkLost
<1>25. ASSUME Sessions!Reconnecting PROVE Goal
  <2>1. StatusTypes'
    BY <1>25, <1>g, <1>00 DEF Sessions!Reconnecting, StatusTypes
  <2> QED BY <1>25, <2>1, <1>b, <1>p, <1>c, <1>l, <1>t, <1>a, <1>n DEF Sessions!Reconnecting
<1>26. ASSUME Sessions!LinkFailed PROVE Goal
  <2>1. BackTypes'
    BY <1>26, <1>g, <1>00 DEF Sessions!LinkFailed, Sessions!Disconnected, Sessions!More, BackTypes
  <2>2. PlaceTypes'
    BY <1>26, <1>g DEF Sessions!LinkFailed, Sessions!Disconnected, Sessions!shown, PlaceTypes
  <2>3. StatusTypes'
    BY <1>26, <1>g, <1>00 DEF Sessions!LinkFailed, Sessions!Disconnected, Sessions!More, StatusTypes
  <2>4. CatalogTypes'
    BY <1>26, <1>g, <1>00 DEF Sessions!LinkFailed, Sessions!Disconnected, Sessions!More, CatalogTypes
  <2>5. ListTypes'
    BY <1>26, <1>g, <1>00 DEF Sessions!LinkFailed, Sessions!Disconnected, Sessions!More, ListTypes
  <2>6. AgainTypes'
    BY <1>26, <1>g, <1>00 DEF Sessions!LinkFailed, Sessions!Disconnected, Sessions!More, AgainTypes
  <2> QED BY <1>26, <2>1, <2>2, <2>3, <2>4, <2>5, <2>6, <1>t, <1>n DEF Sessions!LinkFailed
<1>27. ASSUME Sessions!handleDisconnect PROVE Goal
  <2>1. BackTypes'
    BY <1>27, <1>g, <1>00 DEF Sessions!handleDisconnect, Sessions!Disconnected, Sessions!More, BackTypes
  <2>2. PlaceTypes'
    BY <1>27, <1>g, <1>00 DEF Sessions!handleDisconnect, Sessions!Disconnected, Sessions!More, PlaceTypes
  <2>3. StatusTypes'
    BY <1>27, <1>g, <1>00 DEF Sessions!handleDisconnect, Sessions!Disconnected, Sessions!More, StatusTypes
  <2>4. CatalogTypes'
    BY <1>27, <1>g, <1>00 DEF Sessions!handleDisconnect, Sessions!Disconnected, Sessions!More, CatalogTypes
  <2>5. ListTypes'
    BY <1>27, <1>g, <1>00 DEF Sessions!handleDisconnect, Sessions!Disconnected, Sessions!More, ListTypes
  <2>6. AgainTypes'
    BY <1>27, <1>g, <1>00 DEF Sessions!handleDisconnect, Sessions!Disconnected, Sessions!More, AgainTypes
  <2> QED BY <1>27, <2>1, <2>2, <2>3, <2>4, <2>5, <2>6, <1>t, <1>n DEF Sessions!handleDisconnect
<1>28. ASSUME Sessions!MetadataLoaded PROVE Goal
  <2>1. CatalogTypes'
    BY <1>28, <1>g, <1>00 DEF Sessions!MetadataLoaded, CatalogTypes, PlaceTypes
  <2> QED BY <1>28, <2>1, <1>b, <1>p, <1>s, <1>l, <1>t, <1>a, <1>n DEF Sessions!MetadataLoaded
<1>29. ASSUME Sessions!Browse PROVE Goal
  <2>1. PlaceTypes'
    BY <1>29, <1>g, <1>00 DEF Sessions!Browse, PlaceTypes
  <2> QED BY <1>29, <2>1, <1>b, <1>s, <1>c, <1>l, <1>t, <1>a, <1>n DEF Sessions!Browse
<1>30. ASSUME Sessions!refreshBrowseCatalog PROVE Goal
  <2>1. CatalogTypes'
    BY <1>30, <1>g, <1>00 DEF Sessions!refreshBrowseCatalog, CatalogTypes
  <2> QED BY <1>30, <2>1, <1>b, <1>p, <1>s, <1>l, <1>t, <1>a, <1>n DEF Sessions!refreshBrowseCatalog
<1>31. ASSUME Sessions!DeepLink PROVE Goal
  <2>1. CountTypes'
    BY <1>31, <1>g, SessionConstants DEF Sessions!DeepLink, Sessions!Chore, CountTypes
  <2> QED BY <1>31, <2>1, <1>b, <1>p, <1>s, <1>c, <1>l, <1>t, <1>a DEF Sessions!DeepLink
<1>32. ASSUME Sessions!OpenDeepLink PROVE Goal
  <2>1. CountTypes'
    BY <1>32, <1>g, SessionConstants DEF Sessions!OpenDeepLink, Sessions!bounds, CountTypes
  <2> QED BY <1>32, <2>1, <1>b, <1>p, <1>s, <1>c, <1>l, <1>t, <1>a DEF Sessions!OpenDeepLink
<1>33. ASSUME NEW f \in {"start", "browse", "loaded"} \cup Tablets, Sessions!CatalogAnswered(f) PROVE Goal
  <2>1. CatalogTypes'
    BY <1>33, <1>g, <1>00 DEF Sessions!CatalogAnswered, Sessions!Up, CatalogTypes
  <2> QED BY <1>33, <2>1, <1>b, <1>p, <1>s, <1>l, <1>t, <1>a, <1>n DEF Sessions!CatalogAnswered
<1>34. ASSUME Sessions!ListRead PROVE Goal
  <2>1. ListTypes'
    BY <1>34, <1>g, <1>00 DEF Sessions!ListRead, ListTypes, BackTypes
  <2> QED BY <1>34, <2>1, <1>b, <1>p, <1>s, <1>c, <1>t, <1>a, <1>n DEF Sessions!ListRead
<1>35. ASSUME Sessions!DeleteAnswered PROVE Goal
  <2>1. ListTypes'
    BY <1>35, <1>g, <1>00 DEF Sessions!DeleteAnswered, ListTypes
  <2> QED BY <1>35, <2>1, <1>b, <1>p, <1>s, <1>c, <1>t, <1>a, <1>n DEF Sessions!DeleteAnswered
<1>36. ASSUME Sessions!handleConfirmDelete PROVE Goal
  <2>1. BackTypes'
    BY <1>36, <1>g, <1>00 DEF Sessions!handleConfirmDelete, BackTypes
  <2>2. ListTypes'
    BY <1>36, <1>g, <1>00 DEF Sessions!handleConfirmDelete, ListTypes
  <2> QED BY <1>36, <2>1, <2>2, <1>p, <1>s, <1>c, <1>t, <1>a, <1>n DEF Sessions!handleConfirmDelete
<1>37. ASSUME Sessions!OpenForm PROVE Goal
  <2>1. ListTypes'
    BY <1>37, <1>g, <1>00 DEF Sessions!OpenForm, ListTypes
  <2> QED BY <1>37, <2>1, <1>b, <1>p, <1>s, <1>c, <1>t, <1>a, <1>n DEF Sessions!OpenForm
<1>38. ASSUME Sessions!handleCancelForm PROVE Goal
  <2>1. ListTypes'
    BY <1>38, <1>g, <1>00 DEF Sessions!handleCancelForm, ListTypes
  <2> QED BY <1>38, <2>1, <1>b, <1>p, <1>s, <1>c, <1>t, <1>a, <1>n DEF Sessions!handleCancelForm
<1>39. ASSUME Sessions!handleSaveEditedDevice PROVE Goal
  <2>1. BackTypes'
    BY <1>39, <1>g, <1>00 DEF Sessions!handleSaveEditedDevice, BackTypes
  <2>2. ListTypes'
    BY <1>39, <1>g, <1>00 DEF Sessions!handleSaveEditedDevice, ListTypes
  <2> QED BY <1>39, <2>1, <2>2, <1>p, <1>s, <1>c, <1>t, <1>a, <1>n DEF Sessions!handleSaveEditedDevice
<1>40. ASSUME Sessions!EditSaved PROVE Goal
  <2>1. ListTypes'
    BY <1>40, <1>g, <1>00 DEF Sessions!EditSaved, ListTypes, BackTypes
  <2> QED BY <1>40, <2>1, <1>b, <1>p, <1>s, <1>c, <1>t, <1>a, <1>n DEF Sessions!EditSaved
<1>41. ASSUME NEW t \in Tablets, Sessions!DevicesSynced(t) PROVE Goal
  <2>1. BackTypes'
    BY <1>41, <1>g, <1>00 DEF Sessions!DevicesSynced, Sessions!More, BackTypes
  <2>2. ListTypes'
    BY <1>41, <1>g, <1>00 DEF Sessions!DevicesSynced, Sessions!More, ListTypes
  <2> QED BY <1>41, <2>1, <2>2, <1>p, <1>s, <1>c, <1>t, <1>a, <1>n DEF Sessions!DevicesSynced
<1>42. ASSUME NEW t \in Tablets, Sessions!handleDeleteClick(t) PROVE Goal
  <2>1. ListTypes'
    BY <1>42, <1>g, <1>00 DEF Sessions!handleDeleteClick, Sessions!OnList, ListTypes
  <2> QED BY <1>42, <2>1, <1>b, <1>p, <1>s, <1>c, <1>t, <1>a, <1>n DEF Sessions!handleDeleteClick
<1> HIDE DEF Goal
<1>43. ASSUME Sessions!Continues PROVE Goal
  BY <1>1, <1>2, <1>3, <1>4, <1>43 DEF Sessions!Continues
<1>44. ASSUME Sessions!Events PROVE Goal
  <2> DEFINE Connects == \E s \in Slots, t \in Tablets :
               (\E for \in {"add", "remember"} : Sessions!handleConnect(s, t, for)) \/ Sessions!handleConnectToSavedDevice(s, t)
             Answers == \E s \in Slots :
               \/ Sessions!Retry(s) \/ Sessions!DialAnswered(s) \/ Sessions!DialRefused(s) \/ Sessions!DialDropped(s)
               \/ Sessions!InfoRead(s) \/ Sessions!InstalledRead(s) \/ Sessions!SaveDevice(s) \/ Sessions!Saved(s)
               \/ Sessions!ConnectFails(s) \/ Sessions!StartFails(s)
               \/ Sessions!LinkRestored(s) \/ Sessions!RestoreFails(s) \/ Sessions!handleReconnect(s) \/ Sessions!ReconnectAnswered(s)
             Others ==
               \/ \E f \in {"start", "browse", "loaded"} \cup Tablets : Sessions!CatalogAnswered(f)
               \/ \E t \in Tablets : Sessions!DevicesSynced(t) \/ Sessions!handleDeleteClick(t)
  <2>1. Connects => Goal
    BY <1>5, <1>6
  <2>2. Answers => Goal
    BY <1>7, <1>8, <1>9, <1>10, <1>11, <1>12, <1>13, <1>14, <1>15, <1>16, <1>17, <1>18, <1>19, <1>20
  <2>3. Others => Goal
    BY <1>33, <1>41, <1>42
  <2>4. Connects \/ Answers \/ Others \/ Goal
    BY <1>44, <1>21, <1>22, <1>23, <1>24, <1>25, <1>26, <1>27, <1>28, <1>29, <1>30, <1>31, <1>32, <1>34, <1>35, <1>36,
       <1>37, <1>38, <1>39, <1>40 DEF Sessions!Events
  <2> QED BY <2>1, <2>2, <2>3, <2>4
<1>45. Goal
  BY <1>43, <1>44 DEF Sessions!Next
<1> QED BY <1>45 DEF Goal

LEMMA SessionTypesStay == SessionTypes /\ UNCHANGED sessionVars => SessionTypes'
<1> SUFFICES ASSUME SessionTypes, UNCHANGED sessionVars PROVE SessionTypes'
  OBVIOUS
<1>1. SessionInv'
  BY SessionStay DEF SessionTypes
<1>2. BackTypes' /\ PlaceTypes' /\ StatusTypes' /\ CatalogTypes' /\ ListTypes' /\ TryTypes' /\ AgainTypes' /\ CountTypes'
  BY DEF SessionTypes, sessionVars, BackTypes, PlaceTypes, StatusTypes, CatalogTypes, ListTypes, TryTypes, AgainTypes, CountTypes
<1> QED BY <1>1, <1>2 DEF SessionTypes

================================================================================
