--------------------------------- MODULE Page ----------------------------------
(***************************************************************************)
(* The page in the browser window: its tabs, pages and dialogs.              *)
(*                                                                         *)
(* Each part is a module that carries the connection, the tablet and the     *)
(* operations it needs, and what App.tsx tells it of the others (a plan      *)
(* that is applied, the OS that runs) as steps of its own.  The services     *)
(* behind them are Operations, Transfers and Connection.  In a behavior one  *)
(* part moves: the states of the whole are the sum of theirs and not the     *)
(* product.                                                                 *)
(***************************************************************************)
EXTENDS Naturals

CONSTANTS
  Parts,            (* the parts whose behaviors are looked at               *)
  None,
  Slots,
  Folders, Files, Dir, NameOf, System, Hidden, Home, MaxLoads, Clicks,
  Mods, Brings, Wanting, Providers, Gate, Companion, Clashes, IncompatibleMods,
  Preinstalled, Upgradable, ChecksFail, MaxClicks,
  Tablets, MaxLosses, SessionClicks, Chores,
  Commands, Ids, Versions, NoVersion, Wiped,
  Incompatible, Reads, RunIds, MaxPresses,
  Targets, Calls, MaxOpens,
  Archives, MaxRuns,
  Texts, Empty, Invalid, Loads, OpIds, MaxEdits,
  Documents, ImportIds, MaxTouches,
  Fields, Synced, Proxy, Path, MaxChanges,
  Keys, Asks, MaxActs

VARIABLES
  part,
  (* FileBrowser *)
  disk, connected, currentPath, files, folderLoading, showHidden, folderLoads,
  selection, selecting, clipboard, deleteDialog, renameDialog, newFolderDialog,
  systemFileWarning, collisions, jobs, uploads, fileClicks, replacing,
  (* ModsPlan *)
  onTablet, outdated, osChanged, online, modsInstalled, candidates, modsMismatch,
  installQueue, uninstallQueue, upgradeQueue, answers, openQuestions, waiting,
  askedQuestion, changing, queueConflict, implied, impliedRemovals,
  removalInstallFirst, installSolving, removalSolving, solves, starring, plan, pc,
  stopRequested, done, applyResult, stagedAtResult, modPresses, checked, interrupted,
  (* Session *)
  link, checks, devicesKept, step, device, connectedDeviceId, connectionStatus,
  connectChecked, packages, installedOn, fetches, savedDevices, lists,
  deviceToDelete, deleting, form, editSaving, attempt, connectError,
  showShellRcNoisy, retryConnect, abandoned, manualReconnecting, refused, loads,
  deepLinked, sessionClicks, chores, losses,
  (* System *)
  os, stored, broken, status, infoRead, warningsChecked, firmware, osMismatch,
  rowsShown, unread, stepsOperation, hookRun, prompt, settling, stepsRuns,
  vellumFailure, vellumReady, stepsOpen, planApplying, active, stepsOs,
  stepsOsSeenRunning, stepsClicks,
  (* OsManager *)
  tablet, isConnected, vellumInstalled, open, dialogs, systemInfo, loading,
  partitionError, lockDirError, versions, versionsLoading, versionsFailed, reads,
  selectedVersion, installNeedsReboot, compatCache, checking, installRun,
  installedVersion, operation, runs, presses,
  (* CheckOS *)
  fromManager, linkUp, shownFor, autoChecked, targetVersion, checkLoading, result,
  error, compatCalls, opens,
  (* Backup *)
  chooser, mode, stage, picking, backupProgress, backupError, success,
  selectedFile, restoreRequestedRef, operationIdRef, shownRun, backupRuns,
  backupLink, asked,
  (* ConfigEditor *)
  file, copies, connectedNow, editorShown, confirmDiscardConfig, content,
  originalContent, backups, showSaveConfirm, restoreOverEdits, showError,
  configLoads, configOp, ops, held, edits,
  (* Import *)
  importOpen, staged, inspecting, importError, refresh, importShown, imports,
  importLink, imported, added, touches,
  (* Settings *)
  page, saved, theirs, calls, settingsOpen, section, agentSocketMode,
  agentPathDraft, showDnsErrorModal, dnsErrorShown, changes,
  (* SettingsPanes *)
  keysKept, cached, panesOpen, pane, managedKeys, cachedDevices, adding,
  privateKey, saving, keyToRemove, keyToRename, renaming, confirming, clearing,
  asks, acts

browserVars ==
  <<disk, connected, currentPath, files, folderLoading, showHidden,
    folderLoads, selection, selecting, clipboard, deleteDialog, renameDialog,
    newFolderDialog, systemFileWarning, collisions, jobs, uploads, fileClicks,
    replacing>>
planVars ==
  <<onTablet, outdated, osChanged, online, modsInstalled, candidates,
    modsMismatch, installQueue, uninstallQueue, upgradeQueue, answers,
    openQuestions, waiting, askedQuestion, changing, queueConflict, implied,
    impliedRemovals, removalInstallFirst, installSolving, removalSolving,
    solves, starring, plan, pc, stopRequested, done, applyResult,
    stagedAtResult, modPresses, checked, interrupted>>
sessionVars ==
  <<link, checks, devicesKept, step, device, connectedDeviceId,
    connectionStatus, connectChecked, packages, installedOn, fetches,
    savedDevices, lists, deviceToDelete, deleting, form, editSaving, attempt,
    connectError, showShellRcNoisy, retryConnect, abandoned,
    manualReconnecting, refused, loads, deepLinked, sessionClicks, chores,
    losses>>
stepsVars ==
  <<os, stored, broken, status, infoRead, warningsChecked, firmware,
    osMismatch, rowsShown, unread, stepsOperation, hookRun, prompt, settling,
    stepsRuns, vellumFailure, vellumReady, stepsOpen, planApplying, active,
    stepsOs, stepsOsSeenRunning, stepsClicks>>
managerVars ==
  <<tablet, isConnected, vellumInstalled, open, dialogs, systemInfo, loading,
    partitionError, lockDirError, versions, versionsLoading, versionsFailed,
    reads, selectedVersion, installNeedsReboot, compatCache, checking,
    installRun, installedVersion, operation, runs, presses>>
checkVars ==
  <<fromManager, linkUp, shownFor, autoChecked, targetVersion, checkLoading,
    result, error, compatCalls, opens>>
backupVars ==
  <<chooser, mode, stage, picking, backupProgress, backupError, success,
    selectedFile, restoreRequestedRef, operationIdRef, shownRun, backupRuns,
    backupLink, asked>>
editorVars ==
  <<file, copies, connectedNow, editorShown, confirmDiscardConfig, content,
    originalContent, backups, showSaveConfirm, restoreOverEdits, showError,
    configLoads, configOp, ops, held, edits>>
importVars ==
  <<importOpen, staged, inspecting, importError, refresh, importShown,
    imports, importLink, imported, added, touches>>
settingsVars ==
  <<page, saved, theirs, calls, settingsOpen, section, agentSocketMode,
    agentPathDraft, showDnsErrorModal, dnsErrorShown, changes>>
panesVars ==
  <<keysKept, cached, panesOpen, pane, managedKeys, cachedDevices, adding,
    privateKey, saving, keyToRemove, keyToRename, renaming, confirming,
    clearing, asks, acts>>
vars ==
  <<part, browserVars, planVars, sessionVars, stepsVars, managerVars,
    checkVars, backupVars, editorVars, importVars, settingsVars, panesVars>>

Browser  == INSTANCE FileBrowser WITH loading <- folderLoading, loads <- folderLoads,
              clicks <- fileClicks
Plan     == INSTANCE ModsPlan WITH installed <- modsInstalled, osMismatch <- modsMismatch,
              checks <- solves, presses <- modPresses, Incompatible <- IncompatibleMods
Sessions == INSTANCE Session WITH saved <- devicesKept, warningsChecked <- connectChecked,
              installed <- installedOn, clicks <- sessionClicks, Clicks <- SessionClicks
Steps    == INSTANCE System WITH open <- stepsOpen, operation <- stepsOperation,
              runs <- stepsRuns, vellumInstalled <- vellumReady, clicks <- stepsClicks,
              shown <- rowsShown
Manager  == INSTANCE OsManager
Check    == INSTANCE CheckOS WITH calls <- compatCalls
Archiver == INSTANCE Backup
Editor   == INSTANCE ConfigEditor WITH shown <- editorShown
Importer == INSTANCE Import
Prefs    == INSTANCE Settings
Panes    == INSTANCE SettingsPanes

ASSUME PageAssumption ==
  /\ Browser!FileBrowserAssumption /\ Plan!ModsPlanAssumption /\ Sessions!SessionAssumption
  /\ Steps!SystemAssumption /\ Manager!OsManagerAssumption /\ Check!CheckOSAssumption
  /\ Archiver!BackupAssumption /\ Editor!ConfigAssumption /\ Importer!ImportAssumption
  /\ Prefs!SettingsAssumption /\ Panes!PanesAssumption
  (* None stands for what there is none of. *)
  /\ None \notin Manager!Run \cup Steps!Run \cup Steps!Operation \cup Steps!Vellum
  /\ None \notin Sessions!Load \cup Sessions!Link \cup Slots

ASSUME PartsAssumption ==
  Parts \subseteq {"files", "plan", "session", "system", "os", "check", "backup", "config", "import",
                   "settings", "panes"}

PageTypeOK ==
  /\ part \in Parts
  /\ CASE part = "files"    -> Browser!FilesTypeOK
       [] part = "plan"     -> Plan!PlanTypeOK
       [] part = "session"  -> Sessions!SessionTypeOK
       [] part = "system"   -> Steps!SystemTypeOK
       [] part = "os"       -> Manager!OsTypeOK
       [] part = "check"    -> Check!CheckTypeOK
       [] part = "backup"   -> Archiver!BackupTypeOK
       [] part = "config"   -> Editor!ConfigTypeOK
       [] part = "import"   -> Importer!ImportTypeOK
       [] part = "settings" -> Prefs!SettingsTypeOK
       [] part = "panes"    -> Panes!PanesTypeOK

AnyVersion == CHOOSE v \in Versions : TRUE

(* A part that does not move starts in one state.  The version the tablet   *)
(* runs is any one: Steps only compares versions, and the manager may       *)
(* install one that is compatible and one that is not.                      *)
Init ==
  /\ part \in Parts
  /\ Browser!Init
  /\ Plan!Init /\ (part # "plan" => ~osChanged)
  /\ Sessions!Init /\ (part # "session" => devicesKept = {})
  /\ Steps!Init /\ os = AnyVersion
  /\ (part # "system" => stored = os /\ vellumReady /\ active)
  /\ Manager!Init /\ tablet.active = os
  /\ (part # "os" => vellumInstalled /\ tablet.fallback = os)
  /\ Check!Init /\ (part # "check" => fromManager)
  /\ Archiver!Init
  /\ Editor!Init /\ (part # "config" => copies = {} /\ file = CHOOSE t \in Texts \ Invalid : TRUE)
  /\ Importer!Init
  /\ Prefs!Init /\ (part = "settings" <=> saved # page)
  /\ Panes!Init /\ (part # "panes" => keysKept = {} /\ ~cached)

Only(p) ==
  /\ part = p /\ UNCHANGED part
  /\ IF p = "files" THEN TRUE ELSE UNCHANGED browserVars
  /\ IF p = "plan" THEN TRUE ELSE UNCHANGED planVars
  /\ IF p = "session" THEN TRUE ELSE UNCHANGED sessionVars
  /\ IF p = "system" THEN TRUE ELSE UNCHANGED stepsVars
  /\ IF p = "os" THEN TRUE ELSE UNCHANGED managerVars
  /\ IF p = "check" THEN TRUE ELSE UNCHANGED checkVars
  /\ IF p = "backup" THEN TRUE ELSE UNCHANGED backupVars
  /\ IF p = "config" THEN TRUE ELSE UNCHANGED editorVars
  /\ IF p = "import" THEN TRUE ELSE UNCHANGED importVars
  /\ IF p = "settings" THEN TRUE ELSE UNCHANGED settingsVars
  /\ IF p = "panes" THEN TRUE ELSE UNCHANGED panesVars

Next ==
  \/ Only("files") /\ Browser!Next
  \/ Only("plan") /\ Plan!Next
  \/ Only("session") /\ Sessions!Next
  \/ Only("system") /\ Steps!Next
  \/ Only("os") /\ Manager!Next
  \/ Only("check") /\ Check!Next
  \/ Only("backup") /\ Archiver!Next
  \/ Only("config") /\ Editor!Next
  \/ Only("import") /\ Importer!Next
  \/ Only("settings") /\ Prefs!Next
  \/ Only("panes") /\ Panes!Next

Spec == Init /\ [][Next]_vars

(***************************************************************************)
(* The properties of the parts, which their modules explain.                *)
(***************************************************************************)
(* The files shown are those of the folder whose path is shown.             *)
ListingMatchesPath == Browser!ListingMatchesPath
(* A deletion takes only what was on display when it was asked for.         *)
DeletesWhatIsShown == Browser!DeletesWhatIsShown
(* No file is lost but to a deletion or to what the user let replace it.    *)
NothingLostUnasked == Browser!NothingLostUnasked
(* Apply runs the plan that the last check was about.                       *)
AppliesWhatWasChecked == Plan!AppliesWhatWasChecked
(* Every change of a plan that is over is made, or queued for Retry.        *)
ChangesDoneOrKept == Plan!ChangesDoneOrKept
(* "Reconnected, loading" is shown only while a handler loads.              *)
RestoringIsUnderWay == Sessions!RestoringIsUnderWay
(* The tabs open only on the connection that was asked for.                 *)
OpensOnItsConnection == Sessions!OpensOnItsConnection
(* The firmware read before a restart never ends the numbered steps.        *)
StepsOutliveStaleFirmware == Steps!StepsOutliveStaleFirmware
(* The end of an older command never ends what the page shows.              *)
EndsOnlyItsOwn == Steps!EndsOnlyItsOwn
(* The rows show what the tablet holds once the last handler is done.       *)
RowsMatchTheTablet == Steps!RowsMatchTheTablet
(* The progress dialog of an install names the version it installs.         *)
ProgressNamesTheInstall == Manager!ProgressNamesTheInstall
(* A backup or restore that is said to be done is the one that was begun.   *)
SuccessIsOfTheRunShown == Archiver!SuccessIsOfTheRunShown
(* Text that is not marked as edited is text the file has held.             *)
CleanWasOnTheTablet == Editor!CleanWasOnTheTablet
(* A card marked as done is of a document that is on the tablet.            *)
MarkedDoneWasImported == Importer!MarkedDoneWasImported
(* What another host chose stays until it is changed here.                  *)
RemoteChangeSurvives == Prefs!RemoteChangeSurvives
(* A private key that was typed goes with the form it was typed into.       *)
DraftGoesWithTheForm == Panes!DraftGoesWithTheForm

(***************************************************************************)
(* What the guide or the page says and the code does not keep: in a .cfg    *)
(* whose Parts has its part only, TLC shows how each of them fails (the     *)
(* first with Clicks = 6).                                                  *)
(***************************************************************************)
(* What is moved somewhere is never itself deleted as what is in its way.   *)
MovedFileSurvives == Browser!MovedFileSurvives
(* No phase of a plan starts once Stop was pressed.                         *)
StopStopsTheRest == Plan!StopStopsTheRest
(* A connection that is said to be lost is being tried again.               *)
LostMeansReconnecting == Sessions!LostMeansReconnecting
(* The Mods tab is unavailable while steps are left.                        *)
ModsTabWaitsForSteps == Steps!ModsTabWaitsForSteps
(* With Vellum installed no install starts before the mods were checked.    *)
InstallWaitsForTheCheck == Manager!InstallWaitsForTheCheck
(* The verdict shown is about the version shown with it.                    *)
VerdictIsForTheVersion == Check!VerdictIsForTheVersion

===============================================================================
