------------------------------ MODULE ConfigEditor ------------------------------
(***************************************************************************)
(* The editor of xochitl.conf (ConfigEditor.tsx, and SystemTab.tsx, which    *)
(* asks before it discards edits).                                          *)
(*                                                                         *)
(* Saving, backing up and restoring are operations in the background: the   *)
(* user may type while they run.  A read of the file lands whenever the      *)
(* tablet answers, and others write the file as well: the tablet's own UI,   *)
(* a shell, the file browser.                                               *)
(***************************************************************************)
EXTENDS Naturals

CONSTANTS
  None,
  Texts, Empty,     (* what the file and the editor may hold; a new editor's *)
  Invalid,          (* the texts that do not parse                           *)
  Loads, OpIds,     (* how many reads and operations can be under way        *)
  MaxEdits          (* bound on edits, clicks, losses and others' writes   *)

ConfigAssumption ==
  /\ Texts \cap {Empty, None, "ask"} = {} /\ Invalid \subseteq Texts
  /\ OpIds \subseteq Nat \ {0} /\ MaxEdits \in Nat

VARIABLES
  file, copies,     (* xochitl.conf and its backups on the tablet            *)
  connectedNow,
  shown,            (* SystemTab's showConfigEditor                          *)
  confirmDiscardConfig,
  content, originalContent,
  backups,          (* the backups the editor lists                          *)
  showSaveConfirm, restoreOverEdits, showError,
  configLoads,
  configOp,         (* the page's operation, 0 when there is none            *)
  ops,
  held,             (* every text the file has held                          *)
  edits

remote == <<file, copies, held>>
editor == <<content, originalContent, backups>>
asking == <<confirmDiscardConfig, showSaveConfirm, restoreOverEdits, showError>>
working == <<configOp, ops>>
configVars == <<remote, connectedNow, shown, editor, asking, configLoads, working, edits>>

Op == [kind : {"save", "backup", "restore"}, text : Texts \cup {None},
       cut : BOOLEAN, orphan : BOOLEAN]

ConfigTypeOK ==
  /\ file \in Texts /\ copies \subseteq Texts /\ held \subseteq Texts
  /\ connectedNow \in BOOLEAN /\ shown \in BOOLEAN /\ confirmDiscardConfig \in BOOLEAN
  /\ content \in Texts \cup {Empty} /\ originalContent \in Texts \cup {Empty}
  /\ backups \subseteq Texts
  /\ showSaveConfirm \in BOOLEAN /\ showError \in BOOLEAN
  /\ restoreOverEdits \in Texts \cup {None}
  /\ configLoads \in [Loads -> Texts \cup {None, "ask"}]
  /\ configOp \in OpIds \cup {0} /\ ops \in [OpIds -> Op \cup {None}]
  /\ edits \in 0..MaxEdits

isDirty == content # originalContent
commandRunning == configOp # 0
Valid(text) == text \notin Invalid
Edit == edits < MaxEdits /\ edits' = edits + 1
Modal == showSaveConfirm \/ restoreOverEdits # None \/ showError \/ confirmDiscardConfig
NoLoads == [l \in Loads |-> None]
Fresh == /\ content' = Empty /\ originalContent' = Empty /\ backups' = {}
         /\ showSaveConfirm' = FALSE /\ restoreOverEdits' = None /\ showError' = FALSE

Init ==
  /\ file \in Texts \ Invalid /\ copies \in {{}, {file}} /\ held = {file} \cup copies
  /\ connectedNow = TRUE /\ shown = FALSE /\ confirmDiscardConfig = FALSE
  /\ content = Empty /\ originalContent = Empty /\ backups = {}
  /\ showSaveConfirm = FALSE /\ restoreOverEdits = None /\ showError = FALSE
  /\ configLoads = NoLoads /\ configOp = 0 /\ ops = [i \in OpIds |-> None]
  /\ edits = 0

(***************************************************************************)
(* Reading: when the editor is mounted, when the connection is back and     *)
(* nothing is edited, and after a restore.                                 *)
(***************************************************************************)
loadConfig(loads) ==
  \E l \in Loads : loads[l] = None /\ configLoads' = [loads EXCEPT ![l] = "ask"]

ReadConfigFile(l) ==
  /\ configLoads[l] = "ask" /\ connectedNow /\ configLoads' = [configLoads EXCEPT ![l] = file]
  /\ UNCHANGED <<remote, connectedNow, shown, editor, asking, working, edits>>

ReadLands(l) ==
  /\ configLoads[l] \in Texts
  /\ content' = configLoads[l] /\ originalContent' = configLoads[l]
  /\ configLoads' = [configLoads EXCEPT ![l] = None]
  /\ UNCHANGED <<remote, connectedNow, shown, backups, asking, working, edits>>

ReadFails(l) ==
  /\ configLoads[l] = "ask" /\ configLoads' = [configLoads EXCEPT ![l] = None] /\ showError' = TRUE
  /\ UNCHANGED <<remote, connectedNow, shown, editor, confirmDiscardConfig, showSaveConfirm,
                 restoreOverEdits, working, edits>>

(***************************************************************************)
(* The user.                                                               *)
(***************************************************************************)
openTool ==
  /\ ~shown /\ connectedNow /\ Edit /\ shown' = TRUE /\ Fresh /\ backups' = copies
  /\ loadConfig(NoLoads)
  /\ UNCHANGED <<remote, connectedNow, confirmDiscardConfig, working>>

Type(text) ==
  /\ shown /\ connectedNow /\ ~Modal /\ text # content /\ Edit /\ content' = text
  /\ UNCHANGED <<remote, connectedNow, shown, originalContent, backups, asking, configLoads, working>>

(* Also by keyboard, over the question whether to restore over the edits.   *)
requestSave ==
  /\ shown /\ connectedNow /\ isDirty /\ ~commandRunning /\ ~showSaveConfirm
  /\ showSaveConfirm' = Valid(content) /\ showError' = (showError \/ ~Valid(content))
  /\ UNCHANGED <<remote, connectedNow, shown, editor, confirmDiscardConfig, restoreOverEdits,
                 configLoads, working, edits>>

start(kind, text) ==
  \E i \in OpIds :
    /\ ops[i] = None /\ \A j \in OpIds : j < i => ops[j] # None
    /\ configOp' = i
    /\ ops' = [ops EXCEPT ![i] = [kind |-> kind, text |-> text, cut |-> FALSE, orphan |-> FALSE]]

saveConfig ==
  /\ showSaveConfirm /\ connectedNow /\ showSaveConfirm' = FALSE
  /\ \/ Valid(content) /\ start("save", content) /\ UNCHANGED showError
     \/ ~Valid(content) /\ showError' = TRUE /\ UNCHANGED working
  /\ UNCHANGED <<remote, connectedNow, shown, editor, confirmDiscardConfig, restoreOverEdits,
                 configLoads, edits>>

createBackup ==
  /\ shown /\ ~Modal /\ connectedNow /\ ~commandRunning /\ Edit /\ start("backup", None)
  /\ UNCHANGED <<remote, connectedNow, shown, editor, asking, configLoads>>

(* Edits are replaced only after a question.                               *)
SelectBackup(b) ==
  /\ shown /\ ~Modal /\ connectedNow /\ ~commandRunning /\ b \in backups /\ Edit
  /\ IF isDirty THEN restoreOverEdits' = b /\ UNCHANGED working
     ELSE start("restore", b) /\ UNCHANGED restoreOverEdits
  /\ UNCHANGED <<remote, connectedNow, shown, editor, confirmDiscardConfig, showSaveConfirm,
                 showError, configLoads>>

ConfirmRestore ==
  /\ restoreOverEdits # None /\ ~showSaveConfirm /\ connectedNow /\ ~commandRunning
  /\ start("restore", restoreOverEdits) /\ restoreOverEdits' = None
  /\ UNCHANGED <<remote, connectedNow, shown, editor, confirmDiscardConfig, showSaveConfirm,
                 showError, configLoads, edits>>

Dismiss ==
  /\ Modal
  /\ IF showError THEN showError' = FALSE /\ UNCHANGED <<showSaveConfirm, restoreOverEdits, confirmDiscardConfig>>
     ELSE /\ showSaveConfirm' = FALSE /\ confirmDiscardConfig' = FALSE /\ UNCHANGED showError
          /\ restoreOverEdits' = IF showSaveConfirm THEN restoreOverEdits ELSE None
  /\ UNCHANGED <<remote, connectedNow, shown, editor, configLoads, working, edits>>

(* A closed editor hears no more of what it began.                          *)
Unmounts ==
  /\ shown' = FALSE /\ Fresh /\ configLoads' = NoLoads /\ confirmDiscardConfig' = FALSE
  /\ ops' = [i \in OpIds |-> IF ops[i] = None THEN None ELSE [ops[i] EXCEPT !.orphan = TRUE]]

requestCloseConfigEditor ==
  /\ shown /\ ~Modal
  /\ IF isDirty
     THEN confirmDiscardConfig' = TRUE
          /\ UNCHANGED <<shown, editor, showSaveConfirm, restoreOverEdits, showError, configLoads, ops>>
     ELSE Unmounts
  /\ UNCHANGED <<remote, connectedNow, configOp, edits>>

Discard ==
  /\ confirmDiscardConfig /\ Unmounts /\ UNCHANGED <<remote, connectedNow, configOp, edits>>

(***************************************************************************)
(* What the operations do, and what the editor makes of it.                 *)
(***************************************************************************)
Writes(i) == IF ops[i].kind = "backup" THEN file ELSE ops[i].text

(* Mutant: what was typed while the file was being saved counts as saved.   *)
SavedAsShown(text) == originalContent' = content

Saved(text) == originalContent' = text

Succeeds(i) ==
  /\ ops[i] # None /\ ~ops[i].cut
  /\ file' = Writes(i) /\ held' = held \cup {Writes(i)}
  /\ copies' = (IF ops[i].kind = "backup" THEN copies \cup {file} ELSE copies)
  /\ ops' = [ops EXCEPT ![i] = None] /\ configOp' = (IF configOp = i THEN 0 ELSE configOp)
  /\ \/ ops[i].orphan /\ UNCHANGED <<editor, configLoads>>
     \/ /\ ~ops[i].orphan /\ ops[i].kind = "save" /\ Saved(ops[i].text)
        /\ UNCHANGED <<content, backups, configLoads>>
     \/ /\ ~ops[i].orphan /\ ops[i].kind = "backup" /\ backups' = copies'
        /\ UNCHANGED <<content, originalContent, configLoads>>
     \/ ~ops[i].orphan /\ ops[i].kind = "restore" /\ loadConfig(configLoads) /\ UNCHANGED editor
  /\ UNCHANGED <<connectedNow, shown, asking, edits>>

(* An operation that fails may have written the file already.               *)
Fails(i) ==
  /\ ops[i] # None
  /\ \/ UNCHANGED remote
     \/ ops[i].kind # "backup" /\ file' = Writes(i) /\ held' = held \cup {Writes(i)} /\ UNCHANGED copies
  /\ ops' = [ops EXCEPT ![i] = None] /\ configOp' = (IF configOp = i THEN 0 ELSE configOp)
  /\ showError' = (showError \/ ~ops[i].orphan)
  /\ UNCHANGED <<connectedNow, shown, editor, confirmDiscardConfig, showSaveConfirm,
                 restoreOverEdits, configLoads, edits>>

OthersWrite(text) ==
  /\ Edit /\ file' = text /\ held' = held \cup {text}
  /\ UNCHANGED <<copies, connectedNow, shown, editor, asking, configLoads, working>>

(***************************************************************************)
(* The link.  Disconnecting takes the whole tab down, edits included.       *)
(***************************************************************************)
LinkLost ==
  /\ connectedNow /\ Edit /\ connectedNow' = FALSE /\ configOp' = 0
  /\ ops' = [i \in OpIds |-> IF ops[i] = None THEN None ELSE [ops[i] EXCEPT !.cut = TRUE]]
  /\ UNCHANGED <<remote, shown, editor, asking, configLoads>>

LinkRestored ==
  /\ ~connectedNow /\ connectedNow' = TRUE
  /\ IF shown THEN /\ backups' = copies
                   /\ IF isDirty THEN UNCHANGED configLoads ELSE loadConfig(configLoads)
     ELSE UNCHANGED <<backups, configLoads>>
  /\ UNCHANGED <<remote, shown, content, originalContent, asking, working, edits>>

Disconnect ==
  /\ shown /\ ~connectedNow /\ Unmounts /\ UNCHANGED <<remote, connectedNow, configOp, edits>>

Next ==
  \/ openTool \/ requestSave \/ saveConfig \/ createBackup \/ ConfirmRestore \/ Dismiss
  \/ requestCloseConfigEditor \/ Discard
  \/ \E text \in Texts : Type(text) \/ OthersWrite(text)
  \/ \E b \in copies : SelectBackup(b)
  \/ \E l \in Loads : ReadConfigFile(l) \/ ReadLands(l) \/ ReadFails(l)
  \/ \E i \in OpIds : Succeeds(i) \/ Fails(i)
  \/ LinkLost \/ LinkRestored \/ Disconnect

ConfigSpec == Init /\ [][Next]_configVars

(***************************************************************************)
(* Properties.                                                             *)
(***************************************************************************)
(* Text that the editor does not mark as edited is text the file has held:  *)
(* what was typed while a save, a backup or a restore was still under way,   *)
(* or was lost with the link, is never taken for saved (originalContent).   *)
CleanWasOnTheTablet == ~isDirty => content \in held \cup {Empty}

===============================================================================
