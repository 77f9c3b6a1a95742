------------------------------- MODULE OsManager -------------------------------
(***************************************************************************)
(* The OS Manager (SoftwareManagerDialog.tsx): the two boot partitions, the *)
(* versions that can be installed, and the dialogs that switch, install and *)
(* reboot.                                                                 *)
(*                                                                         *)
(* Reading the tablet takes several calls, and nothing stops a second read  *)
(* from starting before the first has landed: a read that was begun first   *)
(* may land last.  The dialogs lie on each other as they were opened, and   *)
(* only the top one takes clicks.                                           *)
(***************************************************************************)
EXTENDS Naturals, SequencesExt, Lists

CONSTANTS
  None,
  Versions,         (* OS versions                                           *)
  Incompatible,     (* the versions some installed mod does not work on      *)
  Reads,            (* how many reads can be under way at once               *)
  RunIds,           (* how many operations can be at once                    *)
  MaxPresses        (* bound on what the user opens and starts, and on losses *)

OsManagerAssumption ==
  /\ Incompatible \subseteq Versions /\ None \notin Versions
  /\ RunIds \subseteq Nat \ {0} /\ MaxPresses \in Nat

VARIABLES
  tablet,           (* what its partitions hold and which boots next         *)
  isConnected, vellumInstalled,
  open,             (* the OS Manager is shown                               *)
  dialogs,          (* the dialogs above it, the last on top                 *)
  systemInfo, loading, partitionError, lockDirError,
  versions, versionsLoading, versionsFailed,
  reads,            (* the runs of loadData                                  *)
  selectedVersion, installNeedsReboot,
  compatCache, checking,
  installRun, installedVersion,
  operation,        (* the run the page shows, 0 when there is none          *)
  runs,
  presses

device == <<tablet, isConnected, vellumInstalled>>
shown  == <<systemInfo, loading, partitionError, lockDirError>>
list   == <<versions, versionsLoading, versionsFailed>>
choice == <<selectedVersion, installNeedsReboot>>
compat == <<compatCache, checking>>
install == <<installRun, installedVersion>>
commands == <<operation, runs>>
osVars == <<device, open, dialogs, shown, list, reads, choice, compat, install,
            commands, presses>>

Kinds == {"switch-partition", "os-install", "reboot"}
Dialogs == {"switch", "install", "incompat", "progress", "complete", "reboot", "error"}
Info == [active : Versions, fallback : Versions, next : {"active", "fallback"},
         updatePending : BOOLEAN]
Run == [kind : Kinds, target : Versions \cup {"active", "fallback", None},
        late : BOOLEAN, stop : BOOLEAN, cut : BOOLEAN]

OsTypeOK ==
  /\ tablet \in Info /\ isConnected \in BOOLEAN /\ vellumInstalled \in BOOLEAN
  /\ open \in BOOLEAN /\ \A i \in DOMAIN dialogs : dialogs[i] \in Dialogs
  /\ systemInfo = None \/ systemInfo \in Info
  /\ loading \in BOOLEAN /\ partitionError \in BOOLEAN /\ lockDirError \in BOOLEAN
  /\ versions \subseteq Versions /\ versionsLoading \in BOOLEAN /\ versionsFailed \in BOOLEAN
  /\ \A r \in Reads : \/ reads[r] = None
                      \/ /\ reads[r].pc \in {"ready", "ask", "land", "list"}
                         /\ reads[r].info = None \/ reads[r].info \in Info
  /\ selectedVersion \in Versions \cup {None} /\ installNeedsReboot \in BOOLEAN
  /\ compatCache \in [Versions -> {"unchecked", "fine", "incompatible"}]
  /\ checking \subseteq Versions
  /\ installRun \in RunIds \cup {0} /\ installedVersion \in Versions \cup {None}
  /\ operation \in RunIds \cup {0}
  /\ runs \in [RunIds -> Run \cup {None}]
  /\ presses \in 0..MaxPresses

Press == presses < MaxPresses /\ presses' = presses + 1
commandRunning == operation # 0
installRunning == installRun # 0

Top(d) == dialogs # <<>> /\ Last(dialogs) = d
Show(d, below) == IF Contains(below, d) THEN below ELSE Append(below, d)
Hide(ds) == Kept(dialogs, {i \in DOMAIN dialogs : dialogs[i] \notin ds})

(* A reboot boots what boots next, and whatever was pending is done.        *)
Booted == [active   |-> IF tablet.next = "active" THEN tablet.active ELSE tablet.fallback,
           fallback |-> IF tablet.next = "active" THEN tablet.fallback ELSE tablet.active,
           next |-> "active", updatePending |-> FALSE]

needsReboot ==
  installNeedsReboot \/ (systemInfo # None /\ (systemInfo.next # "active" \/ systemInfo.updatePending))
Body == open /\ ~loading /\ ~lockDirError /\ ~partitionError /\ systemInfo # None
Selectable == Body /\ ~needsReboot /\ ~versionsFailed /\ ~versionsLoading /\ ~installRunning

Init ==
  /\ tablet \in [active : Versions, fallback : Versions, next : {"active"},
                 updatePending : {FALSE}]
  /\ isConnected = TRUE /\ vellumInstalled \in BOOLEAN
  /\ open = FALSE /\ dialogs = <<>>
  /\ systemInfo = None /\ loading = TRUE /\ partitionError = FALSE /\ lockDirError = FALSE
  /\ versions = {} /\ versionsLoading = FALSE /\ versionsFailed = FALSE
  /\ reads = [r \in Reads |-> None]
  /\ selectedVersion = None /\ installNeedsReboot = FALSE
  /\ compatCache = [v \in Versions |-> "unchecked"] /\ checking = {}
  /\ installRun = 0 /\ installedVersion = None
  /\ operation = 0 /\ runs = [i \in RunIds |-> None]
  /\ presses = 0

(***************************************************************************)
(* loadData.                                                               *)
(***************************************************************************)
loadData ==
  /\ \E r \in Reads : reads[r] = None
       /\ reads' = [reads EXCEPT ![r] = [pc |-> "ready", info |-> None]]
  /\ loading' = TRUE /\ versionsLoading' = TRUE /\ versionsFailed' = FALSE
  /\ partitionError' = FALSE /\ lockDirError' = FALSE
  /\ UNCHANGED <<systemInfo, versions>>

At(r, pc) == reads[r] # None /\ reads[r].pc = pc
Goto(r, pc) == reads' = [reads EXCEPT ![r].pc = pc]
Returns(r) == reads' = [reads EXCEPT ![r] = None]
Reading == UNCHANGED <<device, open, dialogs, choice, install, commands, presses>>

CheckOSManagerReady(r, ready) ==
  /\ At(r, "ready") /\ Reading /\ UNCHANGED <<compat, systemInfo, partitionError, versions, versionsFailed>>
  /\ \/ ready /\ Goto(r, "ask") /\ UNCHANGED <<loading, lockDirError, versionsLoading>>
     \/ ~ready /\ isConnected /\ Returns(r)
        /\ lockDirError' = TRUE /\ loading' = FALSE /\ versionsLoading' = FALSE

GetPartitionInfo(r, ok) ==
  /\ At(r, "ask") /\ Reading /\ UNCHANGED <<compat, systemInfo, lockDirError, versions, versionsFailed>>
  /\ \/ ok /\ isConnected
        /\ reads' = [reads EXCEPT ![r] = [pc |-> "land", info |-> tablet]]
        /\ UNCHANGED <<loading, partitionError, versionsLoading>>
     \/ ~ok /\ Returns(r)
        /\ partitionError' = TRUE /\ versionsLoading' = FALSE /\ loading' = FALSE

(* The effect of a new systemInfo checks both versions again if need be; it *)
(* runs once the manager is open and Vellum installed.                      *)
ToCheck(info, cache) ==
  IF open' /\ info # None /\ vellumInstalled
  THEN {v \in {info.active, info.fallback} : cache[v] = "unchecked"} ELSE {}

InfoLands(r) ==
  LET info == reads[r].info IN
  /\ At(r, "land") /\ Reading
  /\ systemInfo' = info /\ loading' = FALSE /\ checking' = checking \cup ToCheck(info, compatCache)
  /\ UNCHANGED <<partitionError, lockDirError, versionsFailed, compatCache>>
  /\ \/ /\ info.next # "active" \/ info.updatePending
        /\ versions' = {} /\ versionsLoading' = FALSE /\ Returns(r)
     \/ /\ info.next = "active" /\ ~info.updatePending
        /\ Goto(r, "list") /\ UNCHANGED <<versions, versionsLoading>>

GetAvailableOSVersions(r, ok) ==
  /\ At(r, "list") /\ Reading /\ Returns(r) /\ versionsLoading' = FALSE
  /\ versions' = (IF ok THEN Versions ELSE versions)
  /\ versionsFailed' = (IF ok THEN versionsFailed ELSE TRUE)
  /\ UNCHANGED <<shown, compat>>

(* A check that could not fetch the package index leaves no verdict, and is *)
(* made again only when another effect asks for it.                         *)
checkCompatibility(v, ok) ==
  /\ v \in checking
  /\ compatCache' = IF ok THEN [compatCache EXCEPT ![v] =
       IF v \in Incompatible THEN "incompatible" ELSE "fine"] ELSE compatCache
  /\ checking' = (checking \ {v}) \cup
       {u \in {selectedVersion} \ {None} : ok /\ vellumInstalled /\ compatCache'[u] = "unchecked"}
  /\ UNCHANGED <<device, open, dialogs, shown, list, reads, choice, install, commands, presses>>

(* When the manager opens, or the connection comes back while it is open.   *)
(* Mutant: an install under way does not keep its choice.                   *)
OpensAfresh ==
  /\ loadData
  /\ dialogs' = (IF installRunning THEN Show("progress", dialogs) ELSE dialogs)
  /\ installNeedsReboot' = (installRunning /\ installNeedsReboot) /\ selectedVersion' = None
  /\ compatCache' = [v \in Versions |-> "unchecked"]
  /\ checking' = checking \cup ToCheck(systemInfo, compatCache)

Opens ==
  /\ loadData /\ checking' = checking \cup ToCheck(systemInfo, compatCache)
  /\ \/ installRunning /\ dialogs' = Show("progress", dialogs) /\ UNCHANGED <<choice, compatCache>>
     \/ /\ ~installRunning /\ UNCHANGED dialogs
        /\ installNeedsReboot' = FALSE /\ selectedVersion' = None
        /\ compatCache' = [v \in Versions |-> "unchecked"]

(***************************************************************************)
(* The user.                                                               *)
(***************************************************************************)
openOSManager ==
  /\ ~open /\ dialogs = <<>> /\ isConnected /\ Press /\ open' = TRUE /\ Opens
  /\ UNCHANGED <<device, install, commands>>

closeOSManager ==
  /\ open /\ dialogs = <<>> /\ open' = FALSE
  /\ UNCHANGED <<device, dialogs, shown, list, reads, choice, compat, install, commands, presses>>

TryAgain ==
  /\ open /\ dialogs = <<>> /\ ~loading /\ ~lockDirError /\ partitionError /\ Press
  /\ isConnected /\ loadData
  /\ UNCHANGED <<device, open, dialogs, choice, compat, install, commands>>

setSelectedVersion(v) ==
  /\ dialogs = <<>> /\ Selectable /\ v \in versions /\ selectedVersion' = v
  /\ checking' = checking \cup (IF vellumInstalled /\ compatCache[v] = "unchecked" THEN {v} ELSE {})
  /\ UNCHANGED <<device, open, dialogs, shown, list, reads, installNeedsReboot, compatCache, install,
                 commands, presses>>

ShowOnly(d) ==
  /\ Press /\ dialogs' = Show(d, dialogs)
  /\ UNCHANGED <<device, open, shown, list, reads, choice, compat, install, commands>>

(* The card of the partition that does not boot next.                       *)
ClickSlot ==
  /\ dialogs = <<>> /\ Body /\ ~installNeedsReboot /\ ~systemInfo.updatePending
  /\ ShowOnly("switch")

handleInstallClick ==
  /\ dialogs = <<>> /\ Selectable /\ selectedVersion # None
  /\ ShowOnly(IF compatCache[selectedVersion] = "incompatible" THEN "incompat" ELSE "install")

ClickReboot ==
  /\ dialogs = <<>> /\ open /\ ~loading
  /\ lockDirError \/ (Body /\ needsReboot)
  /\ ShowOnly("reboot")

Dismiss(d) ==
  /\ d # "progress" /\ Top(d) /\ dialogs' = Hide({d})
  /\ UNCHANGED <<device, open, shown, list, reads, choice, compat, install, commands, presses>>

startOperation(i, kind, target) ==
  /\ ~commandRunning /\ isConnected /\ Press
  /\ runs[i] = None /\ \A j \in RunIds : j < i => runs[j] # None
  /\ operation' = i
  /\ runs' = [runs EXCEPT ![i] = [kind |-> kind, target |-> target, late |-> FALSE,
                                  stop |-> FALSE, cut |-> FALSE]]

handleSwitchConfirm(i) ==
  /\ Top("switch") /\ systemInfo # None
  /\ startOperation(i, "switch-partition", IF systemInfo.next = "active" THEN "fallback" ELSE "active")
  /\ UNCHANGED <<device, open, dialogs, shown, list, reads, choice, compat, install>>

handleInstallConfirm(i) ==
  /\ Top("install") \/ Top("incompat")
  /\ selectedVersion # None /\ startOperation(i, "os-install", selectedVersion)
  /\ installRun' = i /\ dialogs' = Append(Hide({"install", "incompat"}), "progress")
  /\ UNCHANGED <<device, open, shown, list, reads, choice, compat, installedVersion>>

handleReboot(i) ==
  /\ Top("complete") \/ Top("reboot")
  /\ startOperation(i, "reboot", None)
  /\ UNCHANGED <<device, open, dialogs, shown, list, reads, choice, compat, install>>

(* Until the upload is done the progress dialog cancels; then it closes.    *)
CancelOrClose ==
  /\ Top("progress") /\ dialogs' = Hide({"progress"})
  /\ runs' = IF installRunning /\ ~runs[installRun].late
             THEN [runs EXCEPT ![installRun].stop = TRUE] ELSE runs
  /\ UNCHANGED <<device, open, shown, list, reads, choice, compat, install, operation, presses>>

(***************************************************************************)
(* The operations.                                                         *)
(***************************************************************************)
UploadDone(i) ==
  /\ runs[i] # None /\ runs[i].kind = "os-install" /\ ~runs[i].late /\ ~runs[i].cut
  /\ runs' = [runs EXCEPT ![i].late = TRUE]
  /\ UNCHANGED <<device, open, dialogs, shown, list, reads, choice, compat, install, operation,
                 presses>>

(* The backend refuses a switch and a reboot while an install is active.    *)
Writing == \E i \in RunIds : runs[i] # None /\ runs[i].kind = "os-install" /\ ~runs[i].cut

Done(i) ==
  CASE runs[i].kind = "os-install" ->
         [tablet EXCEPT !.fallback = runs[i].target, !.next = "fallback", !.updatePending = TRUE]
    [] runs[i].kind = "switch-partition" -> [tablet EXCEPT !.next = runs[i].target]
    [] OTHER -> tablet

Forget(i) ==
  /\ operation' = (IF operation = i THEN 0 ELSE operation)
  /\ runs' = [runs EXCEPT ![i] = None]

Succeeds(i) ==
  /\ runs[i] # None /\ ~runs[i].cut /\ Forget(i) /\ tablet' = Done(i)
  /\ (runs[i].kind = "os-install" => runs[i].late) /\ (runs[i].kind # "os-install" => ~Writing)
  /\ \/ /\ runs[i].kind = "os-install"
        /\ installRun' = 0 /\ installedVersion' = runs[i].target /\ installNeedsReboot' = TRUE
        /\ dialogs' = Show("complete", Hide({"progress"})) /\ loadData /\ UNCHANGED open
     \/ /\ runs[i].kind = "switch-partition" /\ dialogs' = Hide({"switch"}) /\ loadData
        /\ UNCHANGED <<open, installNeedsReboot, install>>
     \/ /\ runs[i].kind = "reboot" /\ dialogs' = Hide({"reboot", "complete"}) /\ open' = FALSE
        /\ UNCHANGED <<shown, list, reads, installNeedsReboot, install>>
  /\ UNCHANGED <<isConnected, vellumInstalled, selectedVersion, compat, presses>>

(* A switch or a reboot that fails says so in its dialog, which stays.      *)
Fails(i, canceled) ==
  /\ runs[i] # None /\ (canceled => runs[i].stop) /\ Forget(i)
  /\ \/ /\ runs[i].kind = "os-install" /\ installRun' = 0
        /\ dialogs' = IF canceled THEN Hide({"progress"}) ELSE Show("error", Hide({"progress"}))
     \/ runs[i].kind # "os-install" /\ UNCHANGED <<dialogs, installRun>>
  /\ UNCHANGED <<device, open, shown, list, reads, choice, compat, installedVersion, presses>>

(***************************************************************************)
(* The link, which a reboot takes with it.                                 *)
(***************************************************************************)
LinkLost(rebooted) ==
  /\ isConnected /\ Press /\ isConnected' = FALSE /\ operation' = 0
  /\ tablet' = IF rebooted THEN Booted ELSE tablet
  /\ runs' = [i \in RunIds |-> IF runs[i] = None THEN None ELSE [runs[i] EXCEPT !.cut = TRUE]]
  /\ UNCHANGED <<vellumInstalled, open, dialogs, shown, list, reads, choice, compat, install>>

LinkRestored ==
  /\ ~isConnected /\ isConnected' = TRUE
  /\ \/ open /\ UNCHANGED open /\ Opens
     \/ ~open /\ UNCHANGED <<open, shown, list, reads, choice, compat, dialogs>>
  /\ UNCHANGED <<tablet, vellumInstalled, install, commands, presses>>

User ==
  \/ openOSManager \/ closeOSManager \/ TryAgain \/ ClickSlot \/ handleInstallClick
  \/ ClickReboot \/ CancelOrClose
  \/ \E v \in Versions : setSelectedVersion(v)
  \/ \E d \in Dialogs : Dismiss(d)
  \/ \E i \in RunIds : handleSwitchConfirm(i) \/ handleInstallConfirm(i) \/ handleReboot(i)

Next ==
  \/ User
  \/ \E r \in Reads : InfoLands(r) \/ \E ok \in BOOLEAN :
       CheckOSManagerReady(r, ok) \/ GetPartitionInfo(r, ok) \/ GetAvailableOSVersions(r, ok)
  \/ \E v \in Versions, ok \in BOOLEAN : checkCompatibility(v, ok)
  \/ \E i \in RunIds : UploadDone(i) \/ Succeeds(i) \/ \E canceled \in BOOLEAN : Fails(i, canceled)
  \/ \E rebooted \in BOOLEAN : LinkLost(rebooted)
  \/ LinkRestored

OsSpec == Init /\ [][Next]_osVars

(***************************************************************************)
(* Properties.                                                             *)
(***************************************************************************)
(* While an install runs, the version chosen is the one it installs: the    *)
(* progress dialog, which names the chosen version, is never about another, *)
(* however often the manager is closed, reopened or loses its connection    *)
(* meanwhile (SoftwareManagerDialog's effect of open and isConnected).      *)
ProgressNamesTheInstall ==
  installRunning => runs[installRun].target = selectedVersion

(* The guide says that with Vellum installed the OS Manager checks the mods *)
(* against a version first.  It does not hold: Install does not wait.       *)
InstallWaitsForTheCheck ==
  [][installRun' # 0 /\ installRun = 0 /\ vellumInstalled =>
       compatCache[selectedVersion] # "unchecked"]_osVars

===============================================================================
