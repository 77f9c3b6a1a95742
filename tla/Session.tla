------------------------------- MODULE Session --------------------------------
(***************************************************************************)
(* The page's session: how the connect page, the dialogs of a lost         *)
(* connection and the tabs follow one another (App.tsx, ConnectPage.tsx,   *)
(* useConnectionEvents.ts, useWarnings.ts, BrowsePage.tsx).                *)
(*                                                                         *)
(* A handler that awaits the backend is a load: it dials, reads what the   *)
(* tablet holds and waits for the checks of the connect, and meanwhile the *)
(* user cancels or disconnects and the link is lost and restored.  Module  *)
(* Connection models the backend; here it is reduced to the link it has,   *)
(* and an event reaches the page in the step that causes it.  A saved      *)
(* reMarkable is identified with the tablet it leads to.                   *)
(***************************************************************************)
EXTENDS Naturals, FiniteSets

CONSTANTS
  Tablets, None,
  Slots,            (* how many handlers may await the backend at once       *)
  MaxLosses,        (* bound on the losses of the link                       *)
  Clicks,           (* bound on what the user does with the connection       *)
  Chores            (* bound on everything else that the user, a link from   *)
                    (* outside, the sync and the index begin                 *)

SessionAssumption ==
  /\ None \notin Tablets
  /\ Slots \subseteq Nat /\ 1 \in Slots
  /\ MaxLosses \in Nat /\ Clicks \in Nat /\ Chores \in Nat

VARIABLES
  link,             (* the backend's link: its tablet, the saved id, if up   *)
  checks,           (* the checks of the last connect have yet to report     *)
  saved,            (* what the backend has saved                            *)
  step, device, connectedDeviceId,
  connectionStatus, warningsChecked,
  packages,         (* the catalog: empty, all, or filtered for a tablet     *)
  installed,        (* the tablet whose installed mods are shown             *)
  fetches,          (* the catalog requests on their way                     *)
  savedDevices, lists,
  deviceToDelete, deleting,
  form,             (* the add form, or the tablet that is edited            *)
  editSaving,
  attempt,          (* the handler that connectAttemptRef stands for         *)
  connectError, showShellRcNoisy, retryConnect,
  abandoned, manualReconnecting,
  refused,          (* connecting again would not help                       *)
  loads, deepLinked, clicks, chores, losses

backend    == <<link, checks, saved>>
shown      == <<step, device, connectedDeviceId>>
status     == <<connectionStatus, warningsChecked>>
catalog    == <<packages, installed, fetches>>
deviceList == <<savedDevices, lists, deviceToDelete, deleting, form, editSaving>>
connectVars   == <<attempt, connectError, showShellRcNoisy, retryConnect>>
reconnectVars == <<abandoned, manualReconnecting, refused>>
bounds == <<clicks, chores, losses>>
vars == <<backend, shown, status, catalog, deviceList, connectVars, reconnectVars,
          loads, deepLinked, bounds>>

(* "add" connects from the form, "remember" also saves, "saved" connects to *)
(* a saved tablet, "again" is the Reconnect button, "restore" an automatic  *)
(* reconnect, and "start" a page that finds a connection when it loads.     *)
Kinds == {"add", "remember", "saved", "again", "restore", "start"}
Load  == [for : Kinds, to : Tablets, seen : BOOLEAN,
          pc : {"dial", "info", "installed", "checks", "save", "list"}]
Link  == [to : Tablets, id : BOOLEAN, up : BOOLEAN]

SessionTypeOK ==
  /\ link \in Link \cup {None} /\ checks \in BOOLEAN /\ saved \subseteq Tablets
  /\ step \in {"connect", "browse", "select"}
  /\ device \in Tablets \cup {None} /\ connectedDeviceId \in Tablets \cup {None}
  /\ connectionStatus \in {"connected", "lost", "reconnecting", "restoring", "failed"}
  /\ warningsChecked \in BOOLEAN
  /\ packages \in {"empty", "all"} \cup Tablets /\ installed \in Tablets \cup {None}
  /\ fetches \subseteq {"start", "browse", "loaded"} \cup Tablets
  /\ savedDevices \subseteq Tablets /\ lists \in 0..2
  /\ deviceToDelete \in Tablets \cup {None}
  /\ deleting \in [id : Tablets, shown : SUBSET Tablets] \cup {None}
  /\ form \in {"closed", "add"} \cup Tablets /\ editSaving \in BOOLEAN
  /\ attempt \in Slots \cup {None}
  /\ connectError \in BOOLEAN /\ showShellRcNoisy \in BOOLEAN
  /\ retryConnect \in [for : Kinds, to : Tablets] \cup {None}
  /\ abandoned \in BOOLEAN /\ manualReconnecting \in BOOLEAN /\ refused \in BOOLEAN
  /\ loads \in [Slots -> Load \cup {None}]
  /\ deepLinked \in BOOLEAN
  /\ clicks \in 0..Clicks /\ chores \in 0..Chores /\ losses \in 0..MaxLosses

Up == link # None /\ link.up
Live == {s \in Slots : loads[s] # None}
Restores(s)   == loads[s].for \in {"again", "restore"}
initialDataLoaded == \A s \in Live : loads[s].for # "start"
ListShown == savedDevices # {} /\ form = "closed"
ConnectModal ==
  attempt # None \/ connectError \/ showShellRcNoisy \/ deviceToDelete # None
disconnected ==
  step = "select" /\ connectionStatus # "connected"

Click == clicks < Clicks /\ clicks' = clicks + 1 /\ UNCHANGED <<chores, losses>>
Chore == chores < Chores /\ chores' = chores + 1 /\ UNCHANGED <<clicks, losses>>
More(n) == IF n < 2 THEN n + 1 ELSE n

Begin(s, for, to, pc, seen) ==
  /\ loads[s] = None /\ \A u \in Slots : u < s => loads[u] # None
  /\ loads' = [loads EXCEPT ![s] = [for |-> for, to |-> to, pc |-> pc, seen |-> seen]]
Goto(s, pc) == loads' = [loads EXCEPT ![s].pc = pc]
End(s)      == loads' = [loads EXCEPT ![s] = None]

(* A page that loads finds a connection the backend kept, or none; the      *)
(* catalog is asked for at once and may not have been read yet.             *)
Init ==
  /\ saved \in SUBSET Tablets /\ savedDevices = saved
  /\ \/ link = None /\ device = None /\ connectedDeviceId = None /\ checks = FALSE
        /\ loads = [s \in Slots |-> None]
     \/ \E t \in saved :
          /\ link = [to |-> t, id |-> TRUE, up |-> TRUE]
          /\ device = t /\ connectedDeviceId = t /\ checks = TRUE
          /\ loads = [u \in Slots |->
               IF u = 1 THEN [for |-> "start", to |-> t, pc |-> "info", seen |-> FALSE] ELSE None]
  /\ step = "connect" /\ connectionStatus = "connected" /\ warningsChecked = FALSE
  /\ packages = "empty" /\ installed = None /\ fetches = {"start"}
  /\ lists = 0 /\ deviceToDelete = None /\ deleting = None
  /\ form = "closed" /\ editSaving = FALSE
  /\ attempt = None /\ connectError = FALSE /\ showShellRcNoisy = FALSE /\ retryConnect = None
  /\ abandoned = FALSE /\ manualReconnecting = FALSE /\ refused = FALSE
  /\ deepLinked = FALSE /\ clicks = 0 /\ chores = 0 /\ losses = 0

-----------------------------------------------------------------------------
(* Connecting                                                               *)

Attempt(s, for, to) ==
  /\ Begin(s, for, to, "dial", FALSE)
  /\ attempt' = s /\ connectError' = FALSE /\ showShellRcNoisy' = FALSE
  /\ retryConnect' = [for |-> for, to |-> to]
  /\ UNCHANGED <<backend, shown, status, catalog, deviceList, reconnectVars, deepLinked>>

handleConnect(s, t, for) ==
  /\ step = "connect" /\ initialDataLoaded /\ ~ConnectModal
  /\ form = "add" \/ savedDevices = {}
  /\ Click /\ Attempt(s, for, t)

handleConnectToSavedDevice(s, t) ==
  /\ step = "connect" /\ initialDataLoaded /\ ~ConnectModal /\ ListShown
  /\ t \in savedDevices
  /\ Click /\ Attempt(s, "saved", t)

(* Try again, in the dialog of the error or of a noisy shell.               *)
Retry(s) ==
  /\ attempt = None /\ retryConnect # None
  /\ (connectError /\ step = "connect") \/ showShellRcNoisy
  /\ Click /\ Attempt(s, retryConnect.for, retryConnect.to)

CloseError ==
  /\ (connectError /\ step = "connect") \/ showShellRcNoisy
  /\ Click
  /\ connectError' = FALSE /\ showShellRcNoisy' = FALSE
  /\ UNCHANGED <<backend, shown, status, catalog, deviceList, attempt, retryConnect,
                 reconnectVars, loads, deepLinked>>

(* The page lets go first; the backend then ends what it had.               *)
handleCancelConnect ==
  /\ step = "connect" /\ attempt # None /\ Click
  /\ attempt' = None /\ device' = None /\ connectedDeviceId' = None
  /\ link' = None /\ checks' = FALSE
  /\ UNCHANGED <<saved, step, status, catalog, deviceList, connectError, showShellRcNoisy,
                 retryConnect, reconnectVars, loads, deepLinked>>

(* The dial of an attempt that is still wanted succeeds: the backend lets   *)
(* no other one through.                                                    *)
DialAnswered(s) ==
  /\ loads[s] # None /\ loads[s].pc = "dial" /\ attempt = s
  /\ link' = [to |-> loads[s].to, id |-> loads[s].for = "saved", up |-> TRUE]
  /\ checks' = TRUE
  /\ device' = loads[s].to
  /\ connectedDeviceId' = IF loads[s].for = "saved" THEN loads[s].to ELSE connectedDeviceId
  /\ Goto(s, "info")
  /\ UNCHANGED <<saved, step, status, catalog, deviceList, connectVars, reconnectVars,
                 deepLinked, bounds>>

(* A saved tablet whose key did not sync opens the form to choose one.      *)
DialRefused(s) ==
  /\ loads[s] # None /\ loads[s].pc = "dial" /\ attempt = s
  /\ End(s) /\ attempt' = None
  /\ \/ connectError' = TRUE /\ UNCHANGED <<showShellRcNoisy, form>>
     \/ showShellRcNoisy' = TRUE /\ UNCHANGED <<connectError, form>>
     \/ loads[s].for = "saved" /\ loads[s].to \in savedDevices
        /\ form' = loads[s].to /\ UNCHANGED <<connectError, showShellRcNoisy>>
  /\ link' = None /\ checks' = FALSE
  /\ UNCHANGED <<saved, shown, status, catalog, savedDevices, lists, deviceToDelete, deleting,
                 editSaving, retryConnect, reconnectVars, deepLinked, bounds>>

(* The answer to an attempt that was canceled, or to a reconnect that was   *)
(* abandoned, is dropped.                                                   *)
DialDropped(s) ==
  /\ loads[s] # None /\ loads[s].pc = "dial" /\ attempt # s
  /\ loads[s].for # "again" \/ abandoned
  /\ End(s)
  /\ manualReconnecting' = (manualReconnecting /\ loads[s].for # "again")
  /\ UNCHANGED <<backend, shown, status, catalog, deviceList, connectVars, abandoned, refused,
                 deepLinked, bounds>>

-----------------------------------------------------------------------------
(* Reading the tablet: refreshDeviceState, then the checks                  *)

(* What is read is filtered for the tablet the handler was called with.     *)
InfoRead(s) ==
  /\ loads[s] # None /\ loads[s].pc = "info" /\ Up
  /\ packages' = loads[s].to
  /\ Goto(s, "installed")
  /\ UNCHANGED <<backend, shown, status, installed, fetches, deviceList, connectVars,
                 reconnectVars, deepLinked, bounds>>

(* A restored session reads it once more; a list that fails is left out.    *)
InstalledRead(s) ==
  /\ loads[s] # None /\ loads[s].pc = "installed"
  /\ installed' = IF Up THEN link.to ELSE installed
  /\ Goto(s, "checks")
  /\ UNCHANGED <<backend, shown, status, packages, fetches, deviceList, connectVars,
                 reconnectVars, deepLinked, bounds>>

(* connect:warnings, which ends every wait for the checks.                  *)
ChecksReport ==
  /\ checks /\ link # None
  /\ checks' = FALSE /\ warningsChecked' = TRUE
  /\ loads' = [s \in Slots |->
       IF s \in Live /\ loads[s].pc \in {"info", "installed", "checks"}
       THEN [loads[s] EXCEPT !.seen = TRUE] ELSE loads[s]]
  /\ UNCHANGED <<link, saved, shown, connectionStatus, catalog, deviceList, connectVars,
                 reconnectVars, deepLinked, bounds>>

Finished(s) == loads[s] # None /\ loads[s].pc = "checks" /\ loads[s].seen

Opened(s) ==
  /\ step' = "select"
  /\ form' = IF loads[s].for \in {"add", "remember"} THEN "closed" ELSE form
  /\ attempt' = IF attempt = s THEN None ELSE attempt

(* Mutant: a canceled attempt goes on.                                      *)
ConnectFinishesAnyway(s) ==
  /\ Finished(s) /\ loads[s].for \in {"add", "saved"}
  /\ Opened(s)
  /\ End(s)
  /\ UNCHANGED <<backend, device, connectedDeviceId, status, catalog, savedDevices, lists,
                 deviceToDelete, deleting, editSaving, connectError, showShellRcNoisy,
                 retryConnect, reconnectVars, deepLinked, bounds>>

ConnectFinishes(s) ==
  /\ Finished(s) /\ loads[s].for \in {"add", "saved"}
  /\ \/ attempt = s /\ Opened(s)
     \/ attempt # s /\ UNCHANGED <<step, form, attempt>>
  /\ End(s)
  /\ UNCHANGED <<backend, device, connectedDeviceId, status, catalog, savedDevices, lists,
                 deviceToDelete, deleting, editSaving, connectError, showShellRcNoisy,
                 retryConnect, reconnectVars, deepLinked, bounds>>

StartFinishes(s) ==
  /\ Finished(s) /\ loads[s].for = "start"
  /\ step' = "select" /\ End(s)
  /\ UNCHANGED <<backend, device, connectedDeviceId, status, catalog, deviceList, connectVars,
                 reconnectVars, deepLinked, bounds>>

SaveBegins(s) ==
  /\ Finished(s) /\ loads[s].for = "remember"
  /\ IF attempt = s THEN Goto(s, "save") ELSE End(s)
  /\ UNCHANGED <<backend, shown, status, catalog, deviceList, connectVars, reconnectVars,
                 deepLinked, bounds>>

(* SaveDevice; the backend takes the new id for a connection to that host.  *)
SaveDevice(s) ==
  /\ loads[s] # None /\ loads[s].pc = "save"
  /\ saved' = saved \cup {loads[s].to}
  /\ link' = IF Up /\ link.to = loads[s].to THEN [link EXCEPT !.id = TRUE] ELSE link
  /\ Goto(s, "list")
  /\ UNCHANGED <<checks, shown, status, catalog, deviceList, connectVars, reconnectVars,
                 deepLinked, bounds>>

(* Nothing asks here whether the attempt is still wanted.                   *)
Saved(s) ==
  /\ loads[s] # None
  /\ \/ loads[s].pc = "list" /\ savedDevices' = saved
     \/ loads[s].pc = "save" /\ UNCHANGED savedDevices
  /\ Opened(s) /\ End(s)
  /\ UNCHANGED <<backend, device, connectedDeviceId, status, catalog, lists, deviceToDelete,
                 deleting, editSaving, connectError, showShellRcNoisy, retryConnect,
                 reconnectVars, deepLinked, bounds>>

(* A call fails or the checks take too long: an attempt that is still       *)
(* wanted ends the connection it opened and says so.                        *)
ConnectFails(s) ==
  /\ loads[s] # None /\ loads[s].for \in {"add", "remember", "saved"}
  /\ loads[s].pc \in {"info", "save"} \/ (loads[s].pc = "checks" /\ ~loads[s].seen)
  /\ End(s)
  /\ \/ attempt = s /\ attempt' = None /\ connectError' = TRUE
        /\ link' = None /\ checks' = FALSE
     \/ attempt # s /\ UNCHANGED <<attempt, connectError, link, checks>>
  /\ UNCHANGED <<saved, shown, status, catalog, deviceList, showShellRcNoisy, retryConnect,
                 reconnectVars, deepLinked, bounds>>

StartFails(s) ==
  /\ loads[s] # None /\ loads[s].for = "start"
  /\ loads[s].pc = "info" \/ (loads[s].pc = "checks" /\ ~loads[s].seen)
  /\ End(s)
  /\ UNCHANGED <<backend, shown, status, catalog, deviceList, connectVars, reconnectVars,
                 deepLinked, bounds>>

-----------------------------------------------------------------------------
(* A connection that is lost, restored, or given up                         *)

(* handleConnectionLost: the checks and what is queued are forgotten.       *)
LinkLost ==
  /\ Up /\ losses < MaxLosses /\ losses' = losses + 1
  /\ link' = [link EXCEPT !.up = FALSE]
  /\ connectionStatus' = "lost" /\ warningsChecked' = FALSE
  /\ UNCHANGED <<checks, saved, shown, catalog, deviceList, connectVars, reconnectVars, loads,
                 deepLinked, clicks, chores>>

Reconnecting ==
  /\ link # None /\ ~link.up /\ connectionStatus # "reconnecting"
  /\ connectionStatus' = "reconnecting"
  /\ UNCHANGED <<backend, shown, warningsChecked, catalog, deviceList, connectVars,
                 reconnectVars, loads, deepLinked, bounds>>

(* restoreSession; the checks may have reported already.                    *)
LinkRestored(s) ==
  /\ link # None /\ ~link.up
  /\ link' = [link EXCEPT !.up = TRUE]
  /\ checks' = TRUE
  /\ connectionStatus' = "restoring" /\ device' = link.to
  /\ Begin(s, "restore", link.to, "info", warningsChecked)
  /\ UNCHANGED <<saved, step, connectedDeviceId, warningsChecked, catalog, deviceList,
                 connectVars, reconnectVars, deepLinked, bounds>>

RestoreOver(s) ==
  /\ End(s)
  /\ manualReconnecting' = (manualReconnecting /\ loads[s].for # "again")

RestoreFinishes(s) ==
  /\ Finished(s) /\ Restores(s)
  /\ connectionStatus' = IF connectionStatus = "restoring" THEN "connected" ELSE connectionStatus
  /\ RestoreOver(s)
  /\ UNCHANGED <<backend, shown, warningsChecked, catalog, deviceList, connectVars, abandoned,
                 refused, deepLinked, bounds>>

(* Mutant: a restore that fails says nothing.                               *)
RestoreFailsSilently(s) ==
  /\ loads[s] # None /\ Restores(s)
  /\ loads[s].pc = "info" \/ (loads[s].pc = "checks" /\ ~loads[s].seen)
  /\ refused' = FALSE
  /\ RestoreOver(s)
  /\ UNCHANGED <<backend, shown, status, catalog, deviceList, connectVars, abandoned,
                 deepLinked, bounds>>

RestoreFails(s) ==
  /\ loads[s] # None /\ Restores(s)
  /\ loads[s].pc = "info" \/ (loads[s].pc = "checks" /\ ~loads[s].seen)
  /\ connectionStatus' = IF connectionStatus = "restoring" THEN "failed" ELSE connectionStatus
  /\ refused' = (refused /\ connectionStatus # "restoring")
  /\ RestoreOver(s)
  /\ UNCHANGED <<backend, shown, warningsChecked, catalog, deviceList, connectVars, abandoned,
                 deepLinked, bounds>>

(* handleDisconnect: the page resets before the backend answers.            *)
Disconnected ==
  /\ link' = None /\ checks' = FALSE
  /\ step' = "connect" /\ device' = None /\ connectedDeviceId' = None
  /\ connectionStatus' = "connected" /\ warningsChecked' = FALSE
  /\ installed' = None /\ lists' = More(lists)
  /\ abandoned' = TRUE /\ manualReconnecting' = FALSE

handleDisconnect ==
  /\ step = "select" /\ Click
  /\ Disconnected
  /\ UNCHANGED <<saved, packages, fetches, savedDevices, deviceToDelete, deleting, form,
                 editSaving, connectVars, refused, loads, deepLinked>>

(* connection:failed; a connection without a saved id is disconnected.      *)
(* Calls that the loss ended have returned: the retries take far longer.    *)
LinkFailed ==
  /\ link # None /\ ~link.up
  /\ \A s \in Live : loads[s].pc # "installed"
  /\ refused' \in BOOLEAN
  /\ \/ link.id /\ link' = None /\ checks' = FALSE
        /\ connectionStatus' = "failed"
        /\ UNCHANGED <<shown, warningsChecked, installed, lists, abandoned, manualReconnecting>>
     \/ ~link.id /\ Disconnected
  /\ UNCHANGED <<saved, packages, fetches, savedDevices, deviceToDelete, deleting, form,
                 editSaving, connectVars, loads, deepLinked, bounds>>

handleReconnect(s) ==
  /\ disconnected /\ connectionStatus = "failed" /\ connectedDeviceId # None
  /\ ~refused /\ ~manualReconnecting /\ Click
  /\ Begin(s, "again", connectedDeviceId, "dial", FALSE)
  /\ abandoned' = FALSE /\ manualReconnecting' = TRUE
  /\ UNCHANGED <<backend, shown, status, catalog, deviceList, connectVars, refused, deepLinked>>

ReconnectAnswered(s) ==
  /\ loads[s] # None /\ loads[s].for = "again" /\ loads[s].pc = "dial" /\ ~abandoned
  /\ \/ /\ link' = [to |-> loads[s].to, id |-> TRUE, up |-> TRUE] /\ checks' = TRUE
        /\ connectionStatus' = "restoring" /\ device' = loads[s].to
        /\ loads' = [loads EXCEPT ![s].pc = "info", ![s].seen = warningsChecked]
        /\ UNCHANGED manualReconnecting
     \/ RestoreOver(s) /\ UNCHANGED <<link, checks, connectionStatus, device>>
  /\ UNCHANGED <<saved, step, connectedDeviceId, warningsChecked, catalog, deviceList,
                 connectVars, abandoned, refused, deepLinked, bounds>>

-----------------------------------------------------------------------------
(* The catalog, browsing and links from outside                             *)

(* metadata:loaded: what is asked for depends on the tablet shown then.     *)
MetadataLoaded ==
  /\ Chore
  /\ fetches' = fetches \cup {IF device = None THEN "loaded" ELSE device}
  /\ UNCHANGED <<backend, shown, status, packages, installed, deviceList, connectVars,
                 reconnectVars, loads, deepLinked>>

(* A list for a tablet needs its firmware, so a live connection.            *)
CatalogAnswered(f) ==
  /\ f \in fetches
  /\ fetches' = fetches \ {f}
  /\ \/ f \notin Tablets /\ packages' = "all"
     \/ f \in Tablets /\ Up /\ packages' = f
     \/ f # "browse" /\ UNCHANGED packages
  /\ UNCHANGED <<backend, shown, status, installed, deviceList, connectVars, reconnectVars,
                 loads, deepLinked, bounds>>

Browse ==
  /\ Chore
  /\ \/ step = "connect" /\ initialDataLoaded /\ ~ConnectModal /\ ListShown /\ step' = "browse"
     \/ step = "connect" /\ deepLinked /\ packages # "empty" /\ step' = "browse"
     \/ step = "browse" /\ step' = "connect"
  /\ UNCHANGED <<backend, device, connectedDeviceId, status, catalog, deviceList, connectVars,
                 reconnectVars, loads, deepLinked>>

refreshBrowseCatalog ==
  /\ step = "browse" /\ "browse" \notin fetches /\ Chore
  /\ fetches' = fetches \cup {"browse"}
  /\ UNCHANGED <<backend, shown, status, packages, installed, deviceList, connectVars,
                 reconnectVars, loads, deepLinked>>

DeepLink ==
  /\ Chore /\ ~deepLinked /\ deepLinked' = TRUE
  /\ UNCHANGED <<backend, shown, status, catalog, deviceList, connectVars, reconnectVars, loads>>

(* A link is opened by the page that shows mods, and taken only then.       *)
OpenDeepLink ==
  /\ deepLinked /\ packages # "empty" /\ step # "connect"
  /\ deepLinked' = FALSE
  /\ UNCHANGED <<backend, shown, status, catalog, deviceList, connectVars, reconnectVars,
                 loads, bounds>>

-----------------------------------------------------------------------------
(* The list of saved reMarkables                                            *)

ListRead ==
  /\ lists > 0 /\ lists' = lists - 1
  /\ savedDevices' = saved
  /\ UNCHANGED <<backend, shown, status, catalog, deviceToDelete, deleting, form, editSaving,
                 connectVars, reconnectVars, loads, deepLinked, bounds>>

DevicesSynced(t) ==
  /\ Chore
  /\ saved' = IF t \in saved THEN saved \ {t} ELSE saved \cup {t}
  /\ lists' = More(lists)
  /\ UNCHANGED <<link, checks, shown, status, catalog, savedDevices, deviceToDelete, deleting,
                 form, editSaving, connectVars, reconnectVars, loads, deepLinked>>

OnList == step = "connect" /\ initialDataLoaded /\ ~ConnectModal /\ ListShown

handleDeleteClick(t) ==
  /\ OnList /\ t \in savedDevices /\ Chore
  /\ deviceToDelete' = t
  /\ UNCHANGED <<backend, shown, status, catalog, savedDevices, lists, deleting, form,
                 editSaving, connectVars, reconnectVars, loads, deepLinked>>

(* The list is that of the click, less the one that is removed.             *)
handleConfirmDelete ==
  /\ deviceToDelete # None /\ deleting = None /\ Chore
  /\ deleting' = [id |-> deviceToDelete, shown |-> savedDevices]
  /\ saved' = saved \ {deviceToDelete}
  /\ UNCHANGED <<link, checks, shown, status, catalog, savedDevices, lists, deviceToDelete, form,
                 editSaving, connectVars, reconnectVars, loads, deepLinked>>

DeleteAnswered ==
  /\ deleting # None
  /\ savedDevices' = deleting.shown \ {deleting.id}
  /\ deviceToDelete' = None /\ deleting' = None
  /\ UNCHANGED <<backend, shown, status, catalog, lists, form, editSaving, connectVars,
                 reconnectVars, loads, deepLinked, bounds>>

OpenForm ==
  /\ OnList /\ Chore
  /\ form' \in {"add"} \cup savedDevices
  /\ UNCHANGED <<backend, shown, status, catalog, savedDevices, lists, deviceToDelete, deleting,
                 editSaving, connectVars, reconnectVars, loads, deepLinked>>

handleCancelForm ==
  /\ step = "connect" /\ form # "closed" /\ savedDevices # {} /\ ~ConnectModal /\ Chore
  /\ form' = "closed"
  /\ UNCHANGED <<backend, shown, status, catalog, savedDevices, lists, deviceToDelete, deleting,
                 editSaving, connectVars, reconnectVars, loads, deepLinked>>

handleSaveEditedDevice ==
  /\ step = "connect" /\ form \in Tablets /\ ~editSaving /\ ~ConnectModal /\ Chore
  /\ editSaving' = TRUE /\ saved' = saved \cup {form}
  /\ UNCHANGED <<link, checks, shown, status, catalog, savedDevices, lists, deviceToDelete,
                 deleting, form, connectVars, reconnectVars, loads, deepLinked>>

(* It closes whichever form is open by then.                                *)
EditSaved ==
  /\ editSaving /\ editSaving' = FALSE
  /\ savedDevices' = saved /\ form' = "closed"
  /\ UNCHANGED <<backend, shown, status, catalog, lists, deviceToDelete, deleting, connectVars,
                 reconnectVars, loads, deepLinked, bounds>>

-----------------------------------------------------------------------------
(* Handlers that nothing holds run before the next event is taken.          *)
Continues ==
  \E s \in Slots :
    ConnectFinishes(s) \/ StartFinishes(s) \/ SaveBegins(s) \/ RestoreFinishes(s)

Events ==
  \/ \E s \in Slots, t \in Tablets :
       \/ \E for \in {"add", "remember"} : handleConnect(s, t, for)
       \/ handleConnectToSavedDevice(s, t)
  \/ \E s \in Slots :
       \/ Retry(s) \/ DialAnswered(s) \/ DialRefused(s) \/ DialDropped(s)
       \/ InfoRead(s) \/ InstalledRead(s) \/ SaveDevice(s) \/ Saved(s)
       \/ ConnectFails(s) \/ StartFails(s)
       \/ LinkRestored(s) \/ RestoreFails(s) \/ handleReconnect(s) \/ ReconnectAnswered(s)
  \/ CloseError \/ handleCancelConnect \/ ChecksReport
  \/ LinkLost \/ Reconnecting \/ LinkFailed \/ handleDisconnect
  \/ MetadataLoaded \/ Browse \/ refreshBrowseCatalog \/ DeepLink \/ OpenDeepLink
  \/ \E f \in {"start", "browse", "loaded"} \cup Tablets : CatalogAnswered(f)
  \/ ListRead \/ DeleteAnswered \/ handleConfirmDelete \/ OpenForm \/ handleCancelForm
  \/ handleSaveEditedDevice \/ EditSaved
  \/ \E t \in Tablets : DevicesSynced(t) \/ handleDeleteClick(t)

Next == Continues \/ ((\A s \in Slots : ~Finished(s)) /\ Events)

SessionSpec == Init /\ [][Next]_vars

-----------------------------------------------------------------------------
(* "Reconnected, loading from your reMarkable" has no button but Disconnect:*)
(* while it shows, a handler that will end it is reading the tablet, however*)
(* losses, restores, reconnects and disconnects overlap (restoreSession).   *)
RestoringIsUnderWay ==
  connectionStatus = "restoring" =>
    \E s \in Live : Restores(s) /\ loads[s].pc # "dial"

(* The tabs open only on the connection that was asked for: the backend has *)
(* a link to the tablet that is shown, or the page says that it is gone     *)
(* (connectAttemptRef).  An attempt that is saving its tablet is excepted:  *)
(* it is not asked again, and a Cancel at that moment opens the tabs.  So   *)
(* is the next attempt, if Disconnect is pressed in the tabs that opened    *)
(* over it: handleDisconnect ends no attempt, and this one opens the tabs   *)
(* again, on no tablet at all.                                              *)
OpensOnItsConnection ==
  [][step # "select" /\ step' = "select" =>
       \/ link # None /\ device = link.to
       \/ connectionStatus = "failed"
       \/ device = None /\ abandoned
       \/ \E s \in Live : loads[s].pc \in {"save", "list"}]_vars

(* What the dialog says, and the guide: a connection that is lost is being  *)
(* tried again.  It does not hold: a link lost while a connect loads leaves *)
(* the status behind when that connect fails, and the next one opens on it. *)
LostMeansReconnecting ==
  disconnected /\ connectionStatus \in {"lost", "reconnecting"} => link # None /\ ~link.up
=============================================================================
