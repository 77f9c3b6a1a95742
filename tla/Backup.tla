--------------------------------- MODULE Backup --------------------------------
(***************************************************************************)
(* The dialog that backs the documents up and restores them                 *)
(* (BackupRestore.tsx, and the chooser of SystemTab.tsx).                    *)
(*                                                                         *)
(* A run is asked to stop when the user cancels, and the dialog is free at   *)
(* once: the run ends, or even succeeds, when the dialog already shows      *)
(* another.  operationIdRef tells the dialog's own run from those.           *)
(* The file picker is modal: while it is up nothing else can be clicked.     *)
(***************************************************************************)
EXTENDS Naturals

CONSTANTS
  None,
  Archives,         (* the files that can be picked                          *)
  RunIds,           (* how many runs there can be at once                    *)
  MaxRuns           (* bound on how often the dialog is opened, and losses    *)

BackupAssumption == None \notin Archives \cup {"backup", "restore"} /\ RunIds \subseteq Nat \ {0} /\ MaxRuns \in Nat

VARIABLES
  chooser,          (* SystemTab's showBackupChooser                         *)
  mode, stage, picking,
  backupProgress,   (* the run whose progress is shown, 0 when there is none *)
  backupError, success,
  selectedFile, restoreRequestedRef, operationIdRef,
  shownRun,         (* the page's operation, 0 when there is none            *)
  backupRuns,
  backupLink, asked

dialog == <<chooser, mode, stage, picking>>
outcomes == <<backupProgress, backupError, success>>
request == <<selectedFile, restoreRequestedRef, operationIdRef>>
machine == <<shownRun, backupRuns>>
backupVars == <<dialog, outcomes, request, machine, backupLink, asked>>

Modes == {"backup", "restore"}
Run == [mode : Modes, stop : BOOLEAN, cut : BOOLEAN, refused : BOOLEAN]

BackupTypeOK ==
  /\ chooser \in BOOLEAN /\ mode \in Modes \cup {None} /\ stage \in {"confirm", "progress"}
  /\ picking \in BOOLEAN /\ backupProgress \in RunIds \cup {0}
  /\ backupError \in BOOLEAN /\ success \in Modes \cup {None}
  /\ selectedFile \in Archives \cup {None} /\ restoreRequestedRef \in BOOLEAN
  /\ operationIdRef \in RunIds \cup {0} /\ shownRun \in RunIds \cup {0}
  /\ backupRuns \in [RunIds -> Run \cup {None}]
  /\ backupLink \in BOOLEAN /\ asked \in 0..MaxRuns

Ask == asked < MaxRuns /\ asked' = asked + 1
running == shownRun # 0
resetRun == backupError' = FALSE /\ success' = None /\ backupProgress' = 0

Init ==
  /\ chooser = FALSE /\ mode = None /\ stage = "confirm" /\ picking = FALSE
  /\ backupProgress = 0 /\ backupError = FALSE /\ success = None
  /\ selectedFile = None /\ restoreRequestedRef = FALSE /\ operationIdRef = 0
  /\ shownRun = 0 /\ backupRuns = [i \in RunIds |-> None]
  /\ backupLink = TRUE /\ asked = 0

openTool ==
  /\ mode = None /\ ~chooser /\ backupLink /\ Ask /\ chooser' = TRUE
  /\ UNCHANGED <<mode, stage, picking, outcomes, request, machine, backupLink>>

CancelChooser ==
  /\ chooser /\ chooser' = FALSE
  /\ UNCHANGED <<mode, stage, picking, outcomes, request, machine, backupLink, asked>>

(* Choosing opens the dialog, and the dialog's effect the picker.           *)
Choose(m) ==
  /\ chooser /\ ~running /\ chooser' = FALSE /\ mode' = m /\ picking' = TRUE /\ resetRun
  /\ selectedFile' = (IF m = "restore" THEN None ELSE selectedFile)
  /\ restoreRequestedRef' = (IF m = "restore" THEN FALSE ELSE restoreRequestedRef)
  /\ UNCHANGED <<stage, operationIdRef, machine, backupLink, asked>>

(* A backup or a restore is refused while another is active.                *)
run(m) ==
  /\ stage' = "progress"
  /\ \E i \in RunIds :
       /\ backupRuns[i] = None /\ \A j \in RunIds : j < i => backupRuns[j] # None
       /\ operationIdRef' = i /\ shownRun' = i
       /\ backupRuns' = [backupRuns EXCEPT ![i] =
            [mode |-> m, stop |-> FALSE, cut |-> ~backupLink,
             refused |-> \E j \in RunIds : backupRuns[j] # None]]

Picked(f) ==
  /\ picking /\ picking' = FALSE /\ UNCHANGED <<chooser, outcomes, restoreRequestedRef, backupLink, asked>>
  /\ \/ f = None /\ mode' = None /\ UNCHANGED <<stage, selectedFile, operationIdRef, machine>>
     \/ f # None /\ mode = "backup" /\ run(mode) /\ UNCHANGED <<mode, selectedFile>>
     \/ f # None /\ mode = "restore" /\ selectedFile' = f /\ stage' = "confirm"
        /\ UNCHANGED <<mode, operationIdRef, machine>>

RestoreConfirm == mode = "restore" /\ stage = "confirm"

handleRestoreConfirm ==
  /\ RestoreConfirm /\ ~picking /\ backupLink /\ selectedFile # None /\ ~restoreRequestedRef
  /\ restoreRequestedRef' = TRUE /\ resetRun /\ run("restore")
  /\ UNCHANGED <<chooser, mode, picking, selectedFile, backupLink, asked>>

(* Cancel while a run goes on, Close otherwise.                             *)
handleCancel ==
  /\ mode # None /\ ~picking /\ ~RestoreConfirm /\ running
  /\ backupRuns' = IF operationIdRef # 0 /\ backupRuns[operationIdRef] # None
                   THEN [backupRuns EXCEPT ![operationIdRef].stop = TRUE] ELSE backupRuns
  /\ operationIdRef' = 0 /\ backupProgress' = 0 /\ mode' = None
  /\ UNCHANGED <<chooser, stage, picking, backupError, success, selectedFile, restoreRequestedRef,
                 shownRun, backupLink, asked>>

handleClose ==
  /\ mode # None /\ ~picking /\ (RestoreConfirm \/ ~running) /\ mode' = None
  /\ UNCHANGED <<chooser, stage, picking, outcomes, request, machine, backupLink, asked>>

handleProgress(i) ==
  /\ backupRuns[i] # None /\ ~backupRuns[i].refused /\ ~backupRuns[i].cut
  /\ backupProgress' = IF operationIdRef = i THEN i ELSE backupProgress
  /\ UNCHANGED <<dialog, backupError, success, request, machine, backupLink, asked>>

(* Mutant: whatever run ends, the dialog shows what became of it.           *)
ShowsAny(i, outcome) ==
  /\ success' = (IF outcome = "succeeded" THEN backupRuns[i].mode ELSE success)
  /\ backupError' = (backupError \/ outcome = "failed")
  /\ backupProgress' = (IF outcome # "canceled" THEN 0 ELSE backupProgress)
  /\ UNCHANGED operationIdRef

Shows(i, outcome) ==
  IF operationIdRef # i THEN UNCHANGED <<success, backupError, backupProgress, operationIdRef>>
  ELSE /\ operationIdRef' = 0
       /\ success' = (IF outcome = "succeeded" THEN backupRuns[i].mode ELSE success)
       /\ backupError' = (backupError \/ outcome = "failed")
       /\ backupProgress' = (IF outcome # "canceled" THEN 0 ELSE backupProgress)

(* A run that is asked to stop may have been done already.                  *)
Ends(i, outcome) ==
  /\ backupRuns[i] # None
  /\ (outcome = "succeeded" => ~backupRuns[i].refused /\ ~backupRuns[i].cut)
  /\ (outcome = "canceled" => backupRuns[i].stop)
  /\ backupRuns' = [backupRuns EXCEPT ![i] = None]
  /\ shownRun' = (IF shownRun = i THEN 0 ELSE shownRun)
  /\ Shows(i, outcome)
  /\ UNCHANGED <<dialog, selectedFile, restoreRequestedRef, backupLink, asked>>

LinkLost ==
  /\ backupLink /\ Ask /\ backupLink' = FALSE /\ shownRun' = 0
  /\ backupRuns' = [i \in RunIds |->
       IF backupRuns[i] = None THEN None ELSE [backupRuns[i] EXCEPT !.cut = TRUE]]
  /\ UNCHANGED <<dialog, outcomes, request>>

LinkRestored ==
  /\ ~backupLink /\ backupLink' = TRUE
  /\ UNCHANGED <<dialog, outcomes, request, machine, asked>>

Next ==
  \/ openTool \/ CancelChooser \/ handleRestoreConfirm \/ handleCancel \/ handleClose
  \/ \E m \in Modes : Choose(m)
  \/ \E f \in Archives \cup {None} : Picked(f)
  \/ \E i \in RunIds : handleProgress(i)
       \/ \E outcome \in {"succeeded", "failed", "canceled"} : Ends(i, outcome)
  \/ LinkLost \/ LinkRestored

BackupSpec == Init /\ [][Next]_backupVars

(***************************************************************************)
(* Properties.                                                             *)
(***************************************************************************)
(* A dialog that says a backup was created, or that a restore is complete,  *)
(* says so of its own run: the run is over, and no run that the user gave   *)
(* up, and that got to its end all the same, ever passes for the one begun  *)
(* after it (BackupRestoreDialog.run and operationIdRef).                   *)
SuccessIsOfTheRunShown ==
  mode # None /\ success # None => success = mode /\ operationIdRef = 0

===============================================================================
