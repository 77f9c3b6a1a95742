-------------------------------- MODULE System --------------------------------
(***************************************************************************)
(* The System tab of a connected reMarkable (SystemTab.tsx, useOperation,  *)
(* useWarnings and the handlers of App.tsx): the one operation the page    *)
(* shows, the commands that run on the tablet, the rows that say what they *)
(* repair, and the numbered steps that replace the rows after the tablet's *)
(* OS has changed.                                                         *)
(*                                                                         *)
(* A command ends whenever the backend says so, also when the page shows   *)
(* another one or none.  The effects of a render are part of the step that *)
(* causes it.  The rows are named after what repairs them: a row is in     *)
(* broken while the tablet needs it and in shown while the page says so.   *)
(***************************************************************************)
EXTENDS Naturals, FiniteSets

CONSTANTS
  None,
  Commands,         (* what the user can run on the tablet                   *)
  Ids,              (* how many runs there can be at once                    *)
  Versions, NoVersion,
  Wiped,            (* the rows that an OS change breaks                     *)
  MaxClicks         (* bound on the commands, dialogs, tabs and losses       *)

SystemTasks == {"updates", "ui"}                    (* run by RunSystemTask *)
Maintenance == {"hashtable", "mods", "launcher"}    (* RunMaintenanceCommand *)
Vellum      == {"install", "repair", "uninstall", "cleanup"}
Others      == {"reenable", "timezone", "guide", "rescan", "restart", "restart-ui", "sleep", "reboot"}
Rows        == {"updates", "hashtable", "mods", "launcher", "reenable", "timezone"}

SystemAssumption ==
  /\ Commands \subseteq SystemTasks \cup Maintenance \cup Vellum \cup Others
  /\ Wiped \subseteq Rows /\ NoVersion \notin Versions
  /\ Ids \subseteq Nat /\ MaxClicks \in Nat


Background == SystemTasks \cup Vellum \cup {"hashtable"} \cup (Others \ {"reenable"})
ReportsOwn == Vellum \cup {"guide", "rescan", "restart"}
NeedsRoot  == {"updates", "timezone"}
SettlesTasks == SystemTasks     (* mutant: a maintenance command is not read back *)
Settles    == SystemTasks \cup Maintenance

VARIABLES
  os, stored, broken,                  (* the tablet                         *)
  status,                              (* "lost", "restoring" or "connected" *)
  infoRead, warningsChecked,
  firmware, osMismatch, shown,
  unread,                              (* a refresh of the rows failed       *)
  operation, hookRun, prompt, settling, runs,
  vellumFailure, vellumInstalled, open, planApplying,
  active, stepsOs, stepsOsSeenRunning,
  clicks

tablet == <<os, stored, broken>>
checks == <<status, infoRead, warningsChecked>>
rows   == <<firmware, osMismatch, shown, unread>>
steps  == <<stepsOs, stepsOsSeenRunning>>
slots  == <<operation, hookRun, prompt, settling, runs>>
dialogs == <<vellumFailure, vellumInstalled, open>>
vars == <<tablet, checks, rows, slots, dialogs, planApplying, active, steps,
          clicks>>

Statuses == {"running", "stopping", "succeeded", "failed"}
Run == [task : Commands, stop : BOOLEAN, pc : {"run", "cut", "refresh"},
        hook : {"none", "asked", "confirmed", "declined", "running", "done"},
        tz : {"unread", "fine", "wrong"}]
Operation == [id : Ids, task : Commands, status : Statuses]

SystemTypeOK ==
  /\ os \in Versions /\ stored \in Versions /\ broken \subseteq Rows
  /\ status \in {"lost", "restoring", "connected"}
  /\ infoRead \in BOOLEAN /\ warningsChecked \in BOOLEAN /\ unread \in BOOLEAN
  /\ firmware \in Versions \cup {NoVersion} /\ osMismatch \in Versions \cup {NoVersion}
  /\ shown \subseteq Rows
  /\ operation = None \/ operation \in Operation
  /\ \/ hookRun = None
     \/ hookRun \in [id : Ids, status : Statuses]
  /\ prompt \in Ids \cup {0} /\ settling \in Commands \cup {None}
  /\ \A i \in Ids : runs[i] = None \/ runs[i] \in Run
  /\ vellumFailure \in Vellum \cup {None} /\ vellumInstalled \in BOOLEAN
  /\ open \subseteq {"repair", "uninstall", "guide", "restart", "fsrestore", "sleep"}
  /\ planApplying \in BOOLEAN /\ active \in BOOLEAN
  /\ stepsOs \in Versions \cup {NoVersion} /\ stepsOsSeenRunning \in BOOLEAN
  /\ clicks \in 0..MaxClicks

connected == status = "connected"
Live == {i \in Ids : runs[i] # None}
Running(i) == i \in Live /\ runs[i].pc = "run"
operationBusy == operation # None /\ operation.status \in {"running", "stopping"}
commandRunning == operationBusy \/ planApplying
writableRootBusy == \E i \in Live : Running(i) /\ runs[i].task \in NeedsRoot
runningOperation == IF operationBusy THEN operation.task ELSE settling
Stuck(r) == r # None /\ r.status \in {"running", "stopping"}

operationOnModal ==
  operation # None /\ (operation.task \notin Background \/ operation.status = "failed")
vellumSurface(t) == (operationBusy /\ operation.task = t) \/ vellumFailure = t
showingProgress == hookRun # None \/ operationOnModal \/ vellumSurface("uninstall")
Modal == showingProgress \/ vellumSurface("repair") \/ open # {} \/ prompt # 0

showSteps == stepsOs # NoVersion
modsLocked == osMismatch # NoVersion

Click == clicks < MaxClicks /\ clicks' = clicks + 1

(***************************************************************************)
(* The numbered steps.  Three effects run after a render: a mismatch that  *)
(* was just found, or found for another OS, raises the steps for its OS;   *)
(* the steps and the firmware, when one of them changed, are compared; and *)
(* steps that are all done go away once the tab is left.                   *)
(***************************************************************************)
Raise == osMismatch' # NoVersion /\ osMismatch' # osMismatch
(* Mutant: any firmware other than the steps' ends them.                    *)
AfterRenderUnseen ==
  LET raised  == IF Raise THEN osMismatch' ELSE stepsOs
      dropped == (raised # stepsOs \/ firmware' # firmware)
                 /\ raised # NoVersion /\ firmware' \notin {raised, NoVersion}
      settled == shown' = {} /\ osMismatch' = NoVersion
  IN  /\ stepsOsSeenRunning' = FALSE
      /\ stepsOs' = IF dropped \/ (settled /\ ~active') THEN NoVersion ELSE raised

AfterRender ==
  LET raised   == IF Raise THEN osMismatch' ELSE stepsOs
      before   == IF Raise THEN FALSE ELSE stepsOsSeenRunning
      compared == (raised # stepsOs \/ firmware' # firmware)
                  /\ raised # NoVersion /\ firmware' # NoVersion
      seen     == IF compared THEN before \/ firmware' = raised ELSE before
      dropped  == compared /\ firmware' # raised /\ before
      settled  == shown' = {} /\ osMismatch' = NoVersion
  IN  /\ stepsOsSeenRunning' = seen
      /\ stepsOs' = IF dropped \/ (settled /\ ~active') THEN NoVersion ELSE raised

Init ==
  /\ os \in Versions /\ stored \in Versions
  /\ broken = IF os = stored THEN {} ELSE Wiped
  /\ status = "restoring" /\ infoRead = FALSE /\ warningsChecked = FALSE
  /\ firmware = NoVersion /\ osMismatch = NoVersion /\ shown = {} /\ unread = FALSE
  /\ operation = None /\ hookRun = None /\ prompt = 0 /\ settling = None
  /\ runs = [i \in Ids |-> None]
  /\ vellumFailure = None /\ vellumInstalled \in {TRUE, os = stored} /\ open = {}
  /\ planApplying = FALSE /\ active \in BOOLEAN
  /\ stepsOs = NoVersion /\ stepsOsSeenRunning = FALSE
  /\ clicks = 0

(***************************************************************************)
(* useOperation: the operation that was started last is the one shown, and *)
(* what ends changes it only if it is still that one.                      *)
(***************************************************************************)
start(i, t) ==
  /\ runs[i] = None /\ \A j \in Ids : j < i => runs[j] # None
  /\ Click
  /\ operation' = [id |-> i, task |-> t, status |-> "running"] /\ hookRun' = None
  /\ runs' = [runs EXCEPT ![i] =
       [task |-> t, stop |-> FALSE, pc |-> "run", hook |-> "none", tz |-> "unread"]]

(* Mutant: whatever ends changes the operation that is shown.              *)
resultOfAny(i, outcome) ==
  IF operation = None THEN operation
  ELSE IF \/ outcome = "canceled"
          \/ outcome = "succeeded" /\ operation.task \in Background
          \/ outcome = "failed" /\ operation.task \in ReportsOwn
       THEN None ELSE [operation EXCEPT !.status = outcome]

result(i, outcome) ==
  IF operation = None \/ operation.id # i THEN operation
  ELSE IF \/ outcome = "canceled"
          \/ outcome = "succeeded" /\ operation.task \in Background
          \/ outcome = "failed" /\ operation.task \in ReportsOwn
       THEN None ELSE [operation EXCEPT !.status = outcome]

hookResult(i, outcome) ==
  IF hookRun # None /\ hookRun.id = i THEN [hookRun EXCEPT !.status = outcome] ELSE hookRun

CancelOperation(i) == IF i \in Live THEN runs' = [runs EXCEPT ![i].stop = TRUE] ELSE UNCHANGED runs

(* The progress dialogs: stopping asks the backend, and when that takes     *)
(* more than ten seconds the dialog can be closed on a run that goes on.    *)
stop ==
  /\ hookRun = None /\ operation # None /\ operation.status = "running"
  /\ operationOnModal \/ operation.task \in {"uninstall", "repair"}
  /\ operation' = [operation EXCEPT !.status = "stopping"]
  /\ CancelOperation(operation.id)
  /\ UNCHANGED <<tablet, checks, rows, hookRun, prompt, settling, dialogs, planApplying,
                 active, steps, clicks>>

stopHook ==
  /\ hookRun # None /\ hookRun.status = "running"
  /\ hookRun' = [hookRun EXCEPT !.status = "stopping"] /\ CancelOperation(hookRun.id)
  /\ UNCHANGED <<tablet, checks, rows, operation, prompt, settling, dialogs, planApplying,
                 active, steps, clicks>>

abandon ==
  /\ IF hookRun # None THEN hookRun.status = "stopping"
     ELSE operation # None /\ operation.status = "stopping"
  /\ operation' = None /\ hookRun' = None
  /\ UNCHANGED <<tablet, checks, rows, prompt, settling, runs, dialogs, planApplying,
                 active, steps, clicks>>

close ==
  /\ showingProgress /\ ~Stuck(IF hookRun # None THEN hookRun ELSE operation)
  /\ hookRun # None \/ operationOnModal
  /\ operation' = (IF Stuck(operation) THEN operation ELSE None)
  /\ hookRun' = (IF Stuck(hookRun) THEN hookRun ELSE None)
  /\ UNCHANGED <<tablet, checks, rows, prompt, settling, runs, dialogs, planApplying,
                 active, steps, clicks>>

(***************************************************************************)
(* What the user starts.  A modal dialog leaves only its own buttons.      *)
(***************************************************************************)
Idle == connected /\ ~commandRunning

Clickable(t) ==
  \/ t = "updates" /\ Idle /\ runningOperation # t /\ ~writableRootBusy
  \/ t \in {"ui", "sleep", "guide"} /\ Idle
  \/ t \in Maintenance /\ connected /\ (commandRunning => runningOperation = t)
       /\ ~writableRootBusy /\ vellumInstalled /\ (t = "mods" => "hashtable" \notin shown)
  \/ t = "reenable" /\ Idle /\ runningOperation # t /\ ~writableRootBusy /\ vellumInstalled
  \/ t = "timezone" /\ connected /\ runningOperation # t /\ ~writableRootBusy

(* settlingOperation keeps the row busy through the refresh after its run.  *)
Settling(t) == settling' = IF t \in Settles \cup {"guide"} THEN t ELSE settling

ClickRow(t) ==
  /\ active /\ ~Modal /\ Clickable(t) /\ Settling(t)
  /\ \E i \in Ids : start(i, t)
  /\ UNCHANGED <<tablet, checks, rows, prompt, dialogs, planApplying, active, steps>>

(* The Mods tab of a tablet without Vellum, or with a broken one.           *)
ClickInstall(t) ==
  /\ t \in {"install", "cleanup"} /\ ~active /\ ~Modal /\ Idle
  /\ t = "install" => ~vellumInstalled
  /\ \E i \in Ids : start(i, t)
  /\ vellumFailure' = None
  /\ UNCHANGED <<tablet, checks, rows, prompt, settling, vellumInstalled, open, planApplying,
                 active, steps>>

OpenDialog(d) ==
  /\ active /\ ~Modal /\ Idle /\ Click
  /\ \/ d = "repair" /\ vellumInstalled /\ ~writableRootBusy
     \/ d = "uninstall" /\ vellumInstalled
     \/ d = "guide"
  /\ d \in Commands
  /\ open' = open \cup {d}
  /\ UNCHANGED <<tablet, checks, rows, slots, vellumFailure, vellumInstalled, planApplying,
                 active, steps>>

CloseDialog(d) ==
  /\ ~showingProgress /\ d \in open /\ open' = open \ {d}
  /\ UNCHANGED <<tablet, checks, rows, slots, vellumFailure, vellumInstalled, planApplying,
                 active, steps, clicks>>

(* Only repairing looks again at whether a command is running.              *)
Confirm(d) ==
  /\ ~showingProgress /\ d \in open \cap {"repair", "uninstall", "guide"} /\ connected
  /\ open' = open \ {d}
  /\ \/ d = "repair" /\ commandRunning
        /\ UNCHANGED <<operation, hookRun, settling, runs, vellumFailure, clicks>>
     \/ (d = "repair" => ~commandRunning) /\ Settling(d)
        /\ \E i \in Ids : start(i, d)
        /\ vellumFailure' = IF d \in Vellum THEN None ELSE vellumFailure
  /\ UNCHANGED <<tablet, checks, rows, prompt, vellumInstalled, planApplying, active, steps>>

RetryRepair ==
  /\ vellumFailure = "repair" /\ connected /\ ~commandRunning
  /\ \E i \in Ids : start(i, "repair")
  /\ vellumFailure' = None
  /\ UNCHANGED <<tablet, checks, rows, prompt, settling, vellumInstalled, open, planApplying,
                 active, steps>>

CloseFailure ==
  /\ vellumFailure \in {"repair", "uninstall"} /\ vellumFailure' = None
  /\ UNCHANGED <<tablet, checks, rows, slots, vellumInstalled, open, planApplying, active,
                 steps, clicks>>

(* Restarting the UI for the guide keeps its dialog until it worked, for a  *)
(* sleep screen it does not; rebooting does not ask whether a command runs. *)
RestartOrReboot(d, t) ==
  /\ <<d, t>> \in {<<"restart", "restart">>, <<"sleep", "restart-ui">>, <<"fsrestore", "reboot">>}
  /\ ~showingProgress /\ d \in open /\ connected /\ (d # "fsrestore" => ~commandRunning)
  /\ \E i \in Ids : start(i, t)
  /\ open' = IF d = "sleep" THEN open \ {d} ELSE open
  /\ UNCHANGED <<tablet, checks, rows, prompt, settling, vellumFailure, vellumInstalled,
                 planApplying, active, steps>>

FilesystemRestoreFails ==
  /\ "reboot" \in Commands /\ connected /\ Click /\ open' = open \cup {"fsrestore"}
  /\ UNCHANGED <<tablet, checks, rows, slots, vellumFailure, vellumInstalled, planApplying,
                 active, steps>>

(***************************************************************************)
(* What a run does on the tablet, and what its handler does when it ends.  *)
(* A run that fails or is stopped may have done its work already.          *)
(***************************************************************************)
Repairs(t, outcome) ==
  \/ outcome = "succeeded" /\ ~(t = "mods" /\ "hashtable" \in broken)
     /\ broken' = broken \ (IF t = "uninstall" THEN Rows \ {"updates", "timezone"} ELSE {t})
  \/ outcome # "succeeded"
     /\ broken' \in {broken} \cup (IF t \in Settles THEN {broken \ {t}} ELSE {})

ReadsRow(t) == IF status = "lost" THEN "unread" ELSE IF t \in broken' THEN "wrong" ELSE "fine"
Finished(i) == runs' = [runs EXCEPT ![i] = None]

Ends(i, outcome) ==
  LET t == runs[i].task
      guide == t = "guide" /\ outcome = "succeeded"
  IN
  /\ i \in Live /\ runs[i].hook \notin {"asked", "confirmed", "running"} /\ prompt # i
  /\ \/ runs[i].pc = "run" /\ (outcome = "canceled" => runs[i].stop) /\ Repairs(t, outcome)
     \/ runs[i].pc = "cut" /\ outcome = "failed" /\ UNCHANGED broken
  /\ (t \in {"hashtable"} /\ outcome = "succeeded") => runs[i].hook = "done"
  /\ \/ t \in Settles
        /\ runs' = [runs EXCEPT ![i].pc = "refresh", ![i].tz = ReadsRow("timezone")]
        /\ operation' = result(i, outcome) /\ UNCHANGED <<hookRun, settling>>
     \/ guide /\ "rescan" \in Commands                 (* with librarian and mods running *)
        /\ runs' = [runs EXCEPT ![i].task = "rescan", ![i].stop = FALSE, ![i].pc = "run"]
        /\ operation' = [id |-> i, task |-> "rescan", status |-> "running"]
        /\ hookRun' = None /\ UNCHANGED settling
     \/ t \notin Settles /\ (guide => "rescan" \notin Commands) /\ Finished(i)
        /\ operation' = result(i, outcome) /\ UNCHANGED hookRun
        /\ settling' = IF t \in {"guide", "rescan"} THEN None ELSE settling
  /\ shown' = CASE t = "reenable" /\ outcome = "succeeded" -> shown \ {t}
                [] t = "timezone" ->
                     (IF outcome = "succeeded" THEN shown \ {t} ELSE shown)
                       \cup (IF ReadsRow(t) = "wrong" THEN {t} ELSE {})
                [] t = "uninstall" /\ outcome = "succeeded" -> shown \cap {"updates", "timezone"}
                [] OTHER -> shown
  /\ vellumFailure' = IF t \in Vellum /\ outcome = "failed" THEN t ELSE vellumFailure
  /\ vellumInstalled' = IF t \in Vellum /\ outcome = "succeeded"
                        THEN t \in {"install", "repair"} ELSE vellumInstalled
  /\ open' = (CASE \/ guide /\ "rescan" \notin Commands
                   \/ t = "rescan" /\ outcome # "succeeded" -> open \cup {"restart"}
               [] t = "restart" /\ outcome = "succeeded" -> open \ {"restart"}
               [] t = "reboot" /\ outcome = "succeeded" -> open \ {"fsrestore"}
               [] t = "sleep" /\ outcome = "succeeded" -> open \cup {"sleep"}
               [] OTHER -> open)
  /\ UNCHANGED <<os, stored, checks, firmware, osMismatch, unread, prompt, planApplying, active,
                 clicks>>
  /\ AfterRender

(* refreshDeviceStatus reads the timezone first and shows it last; what it  *)
(* cannot read the rows keep.                                               *)
Shows(i) == IF runs[i].tz = "unread" THEN shown \cap {"timezone"}
            ELSE IF runs[i].tz = "wrong" THEN {"timezone"} ELSE {}
Polled == {"updates", "hashtable", "mods", "launcher"}

refreshDeviceStatus(i) ==
  /\ i \in Live /\ runs[i].pc = "refresh" /\ Finished(i) /\ settling' = None
  /\ \/ status # "lost" /\ unread' = FALSE
        /\ shown' = (shown \cap {"reenable"}) \cup (broken \cap Polled) \cup Shows(i)
     \/ unread' = TRUE /\ shown' = (shown \ {"timezone"}) \cup Shows(i)
  /\ UNCHANGED <<tablet, checks, firmware, osMismatch, operation, hookRun, prompt, dialogs,
                 planApplying, active, clicks>>
  /\ AfterRender

(***************************************************************************)
(* The hook of a maintenance command: it asks, and runs if told to.        *)
(***************************************************************************)
OnHook(i) == UNCHANGED <<tablet, checks, rows, settling, dialogs, planApplying, active, steps,
                         clicks>>

Prompts(i) ==
  /\ i \in Live /\ runs[i].pc = "run" /\ runs[i].task = "hashtable" /\ runs[i].hook = "none"
  /\ runs' = [runs EXCEPT ![i].hook = "asked"] /\ prompt' = i
  /\ UNCHANGED <<operation, hookRun>> /\ OnHook(i)

respond(yes) ==
  /\ prompt # 0 /\ prompt' = 0
  /\ runs' = [runs EXCEPT ![prompt] =
       IF prompt \in Live /\ @.hook = "asked"
       THEN [@ EXCEPT !.hook = IF yes THEN "confirmed" ELSE "declined"] ELSE @]
  /\ UNCHANGED <<operation, hookRun>> /\ OnHook(prompt)

(* A stopped or disconnected operation answers its own question.            *)
AsksNoMore(i) ==
  /\ i \in Live /\ runs[i].hook = "asked" /\ (runs[i].stop \/ runs[i].pc = "cut")
  /\ runs' = [runs EXCEPT ![i].hook = "declined"]
  /\ UNCHANGED <<operation, hookRun, prompt>> /\ OnHook(i)

HookBegins(i) ==
  /\ i \in Live /\ runs[i].hook = "confirmed" /\ runs[i].pc # "refresh"
  /\ runs' = [runs EXCEPT ![i].hook = "running"]
  /\ hookRun' = [id |-> i, status |-> "running"]
  /\ UNCHANGED <<operation, prompt>> /\ OnHook(i)

HookEnds(i, outcome) ==
  /\ i \in Live /\ runs[i].hook = "running"
  /\ outcome = "failed" \/ (outcome = "succeeded" /\ runs[i].pc = "run")
  /\ runs' = [runs EXCEPT ![i].hook = "done"] /\ hookRun' = hookResult(i, outcome)
  /\ UNCHANGED <<operation, prompt>> /\ OnHook(i)

(***************************************************************************)
(* The Compatibility step, the tabs and the link.                          *)
(***************************************************************************)
PlanStarts ==
  /\ active /\ ~Modal /\ osMismatch # NoVersion /\ Idle /\ ~writableRootBusy /\ Click
  /\ planApplying' = TRUE
  /\ UNCHANGED <<tablet, checks, rows, slots, dialogs, active, steps>>

(* The sync records the OS the tablet runs, which is what onOsSynced is for. *)
PlanEnds(ok) ==
  /\ planApplying /\ planApplying' = FALSE /\ (ok => connected /\ osMismatch # NoVersion)
  /\ stored' = IF ok THEN os ELSE stored
  /\ osMismatch' = IF ok THEN NoVersion ELSE osMismatch
  /\ UNCHANGED <<os, broken, checks, firmware, shown, unread, slots, dialogs, active, clicks>>
  /\ AfterRender

handleTabChange ==
  /\ ~Modal /\ (active => ~modsLocked) /\ Click /\ active' = ~active
  /\ UNCHANGED <<tablet, checks, rows, slots, dialogs, planApplying>>
  /\ AfterRender

(* Everything of the page that was about the connection is reset; the       *)
(* firmware stays, and so do the handlers that wait for their runs.         *)
LinkLost ==
  /\ status # "lost" /\ status' = "lost" /\ Click
  /\ infoRead' = FALSE /\ warningsChecked' = FALSE
  /\ osMismatch' = NoVersion /\ shown' = {} /\ unread' = FALSE
  /\ operation' = None /\ hookRun' = None /\ prompt' = 0 /\ vellumFailure' = None
  /\ runs' = [i \in Ids |-> IF Running(i) THEN [runs[i] EXCEPT !.pc = "cut"] ELSE runs[i]]
  /\ \E done \in SUBSET {runs[i].task : i \in {j \in Live : Running(j)}} :
       broken' = broken \ (done \cap Polled)
  /\ UNCHANGED <<os, stored, firmware, settling, vellumInstalled, open, planApplying, active>>
  /\ AfterRender

LinkRestored ==
  /\ status = "lost" /\ status' = "restoring" /\ ~planApplying
  /\ os' \in Versions /\ broken' = (IF os' = os THEN broken ELSE broken \cup Wiped)
  /\ UNCHANGED <<stored, infoRead, warningsChecked, rows, slots, dialogs, planApplying, active,
                 steps, clicks>>

(* The device's information and the checks come in either order.            *)
InfoRead ==
  /\ status = "restoring" /\ ~infoRead /\ infoRead' = TRUE /\ firmware' = os
  /\ status' = IF warningsChecked THEN "connected" ELSE status
  /\ UNCHANGED <<tablet, warningsChecked, osMismatch, shown, unread, slots, dialogs,
                 planApplying, active, clicks>>
  /\ AfterRender

ConnectWarnings ==
  /\ status = "restoring" /\ ~warningsChecked /\ warningsChecked' = TRUE
  /\ status' = IF infoRead THEN "connected" ELSE status
  /\ osMismatch' = IF vellumInstalled /\ os # stored THEN os ELSE NoVersion
  /\ shown' = broken /\ unread' = FALSE
  /\ active' = (active \/ osMismatch' # NoVersion \/ (clicks = 0 /\ shown' # {}))
  /\ UNCHANGED <<tablet, infoRead, firmware, slots, dialogs, planApplying, clicks>>
  /\ AfterRender

UserActs ==
  \/ \E t \in Commands : ClickRow(t) \/ ClickInstall(t)
  \/ \E d \in {"repair", "uninstall", "guide", "restart", "sleep", "fsrestore"} :
       OpenDialog(d) \/ CloseDialog(d) \/ Confirm(d) \/ \E t \in Commands : RestartOrReboot(d, t)
  \/ RetryRepair \/ CloseFailure \/ stop \/ stopHook \/ abandon \/ close
  \/ \E yes \in BOOLEAN : respond(yes)
  \/ PlanStarts \/ handleTabChange

Next ==
  \/ UserActs
  \/ \E i \in Ids :
       \/ \E o \in {"succeeded", "failed", "canceled"} : Ends(i, o) \/ HookEnds(i, o)
       \/ refreshDeviceStatus(i) \/ Prompts(i) \/ AsksNoMore(i) \/ HookBegins(i)
  \/ \E ok \in BOOLEAN : PlanEnds(ok)
  \/ FilesystemRestoreFails \/ LinkLost \/ LinkRestored \/ InfoRead \/ ConnectWarnings

SystemSpec == Init /\ [][Next]_vars

(***************************************************************************)
(* Properties.                                                             *)
(***************************************************************************)
(* Once they are due, the numbered steps go away, or never appear, only     *)
(* when they are all done and the tab is left, or when the tablet really    *)
(* runs another OS by now: the firmware the page still has from before the  *)
(* tablet restarted never ends them (SystemTab's comparison of              *)
(* stepsOsVersion with runningFirmware).                                    *)
StepsOutliveStaleFirmware ==
  [][(showSteps \/ Raise) /\ ~showSteps' =>
       \/ shown' = {} /\ osMismatch' = NoVersion /\ ~active'
       \/ os' # (IF Raise THEN osMismatch' ELSE stepsOs)]_vars

(* While a command runs, its progress leaves the page only when the link is *)
(* lost, when another command is started, or when the user closes a run     *)
(* that does not stop: the end of an older run, which another row or a      *)
(* second click began, never ends what the page shows (useOperation.start). *)
EndsOnlyItsOwn ==
  [][\A i \in Ids :
       operationBusy /\ operation.id = i /\ Running(i) /\ Running(i)' /\ status' # "lost" =>
         operationBusy' \/ operation.status = "stopping" \/ (hookRun # None /\ hookRun.status = "stopping")]_vars

(* When the last handler is done, the rows that a task or a maintenance     *)
(* command repairs show what the tablet holds, whether the command          *)
(* succeeded, failed, was stopped or lost its link, unless the page could   *)
(* not read it (refreshDeviceStatus after every run, connect:warnings).     *)
RowsMatchTheTablet ==
  connected /\ Live = {} /\ ~unread => shown \cap Polled = broken \cap Polled

(* The guide says that the Mods tab is unavailable until the steps are      *)
(* finished.  It does not hold: it is unlocked once the Compatibility step  *)
(* is done, whichever of the others are left.                               *)
ModsTabWaitsForSteps == showSteps /\ connected /\ shown # {} => active

===============================================================================
