---------------------------- MODULE FileBrowser -----------------------------
(***************************************************************************)
(* The file browser (frontend/src/components/files): one folder is shown,  *)
(* listings are answered in any order, and moves, deletions and dialogs go *)
(* on while the folder, the listing and the connection change under them.  *)
(*                                                                         *)
(* A handler that awaits the tablet keeps what its closure read; one that  *)
(* runs at a click reads what is shown then.  A listing is read and        *)
(* delivered in one step.  Sorting, the image picker and downloads change  *)
(* nothing here and are left out; directories are deleted but not moved.   *)
(***************************************************************************)
EXTENDS Naturals, FiniteSets

CONSTANTS
  Folders, Files,   (* the paths that may exist on the tablet                *)
  Dir,              (* the folder that holds a path; None for the root       *)
  NameOf,           (* the name of a path in its folder                      *)
  System,           (* the paths on the system partition                     *)
  Hidden,           (* the paths whose names begin with a dot                *)
  Home, None,
  Slots,            (* how many handlers may await the tablet at once        *)
  MaxLoads,         (* how many listings may be on their way at once         *)
  Clicks            (* bound on what the user, the connection and uploads do *)

Paths == Folders \cup Files
Names == {NameOf[p] : p \in Paths}
Uploaded == "uploaded"

FileBrowserAssumption ==
  /\ Folders \cap Files = {} /\ IsFiniteSet(Folders)
  /\ Home \in Folders
  /\ Dir \in [Paths -> Folders \cup {None}]
  /\ None \notin Paths /\ Uploaded \notin Paths
  /\ System \subseteq Paths /\ Hidden \subseteq Paths
  /\ MaxLoads \in Nat \ {0} /\ Clicks \in Nat

VARIABLES
  disk,          (* what is at each path, named by where it was at first     *)
  connected,
  currentPath, files, loading, showHidden,
  loads,         (* for each folder, the listings on their way               *)
  selection, selecting,
  clipboard,     (* files to move, and the folder they were in; or None      *)
  deleteDialog, renameDialog, newFolderDialog, systemFileWarning, collisions,
  jobs,          (* the handlers that await the tablet                       *)
  uploads,       (* folders that a transfer is uploading to                  *)
  clicks,
  replacing      (* history: what dialogs said a move would replace          *)

tablet    == <<disk, uploads>>
shown     == <<currentPath, files, loading, loads>>
selected  == <<selection, selecting>>
dialogs   == <<deleteDialog, renameDialog, newFolderDialog, systemFileWarning, collisions>>
vars == <<tablet, connected, shown, showHidden, selected, clipboard, dialogs, jobs, clicks, replacing>>

(* What a handler runs: on which paths, and the folder or path it keeps; a  *)
(* move notes whether its target is cleared, and if there was a connection. *)
Job == [kind : {"move", "replace", "delete", "rename", "mkdir"},
        todo : SUBSET Paths, to : Paths,
        cleared : BOOLEAN, live : BOOLEAN]

Warning == [action : {"upload", "delete", "rename", "mkdir", "move"},
            paths : SUBSET Paths, path : Paths, conflicts : SUBSET Names]

FilesTypeOK ==
  /\ disk \in [Paths -> Paths \cup {Uploaded, None}]
  /\ connected \in BOOLEAN /\ loading \in BOOLEAN /\ showHidden \in BOOLEAN
  /\ currentPath \in Folders
  /\ files \subseteq Paths
  /\ loads \in [Folders -> 0..MaxLoads]
  /\ selection \subseteq Paths /\ selecting \in BOOLEAN
  /\ clipboard \in [files : SUBSET Paths, sourcePath : Folders] \cup {None}
  /\ deleteDialog \in (SUBSET Paths) \cup {None}
  /\ renameDialog \in Paths \cup {None}
  /\ newFolderDialog \in BOOLEAN
  /\ systemFileWarning \in Warning \cup {None}
  /\ collisions \in (SUBSET Names) \cup {None}
  /\ jobs \in [Slots -> Job \cup {None}]
  /\ uploads \subseteq Folders
  /\ clicks \in 0..Clicks
  /\ replacing \subseteq Names

Exists(p) == disk[p] # None
Listing(f) == {p \in Paths : Dir[p] = f /\ Exists(p)}
Inside(p, top) == p = top \/ Dir[p] = top \/ (Dir[p] # None /\ Dir[Dir[p]] = top)

(* The path that name n has in folder f, if the model has one. *)
At(f, n) == {p \in Paths : Dir[p] = f /\ NameOf[p] = n}

displayFiles  == {p \in files : showHidden \/ p \notin Hidden}
selectedAtAll == selection      (* mutant: also what is not shown any more *)
selectedFiles == selection \cap displayFiles

Modal ==
  \/ deleteDialog # None \/ renameDialog # None \/ newFolderDialog
  \/ systemFileWarning # None \/ collisions # None

Click == clicks < Clicks /\ clicks' = clicks + 1

Init ==
  /\ disk = [p \in Paths |-> p]
  /\ connected = TRUE
  /\ currentPath = Home /\ files = {} /\ loading = TRUE /\ showHidden = FALSE
  /\ loads = [f \in Folders |-> IF f = Home THEN 1 ELSE 0]
  /\ selection = {} /\ selecting = FALSE
  /\ clipboard = None
  /\ deleteDialog = None /\ renameDialog = None /\ newFolderDialog = FALSE
  /\ systemFileWarning = None /\ collisions = None
  /\ jobs = [j \in Slots |-> None]
  /\ uploads = {}
  /\ clicks = 0
  /\ replacing = {}

-----------------------------------------------------------------------------
(* The listing                                                              *)

(* How many listings are on their way. *)
InFlight == Cardinality({l \in Folders \X (1..MaxLoads) : l[2] <= loads[l[1]]})

(* loadDirectory: a listing is asked for and the folder stays as it is. *)
loadDirectory(f) ==
  /\ InFlight < MaxLoads
  /\ loads' = [loads EXCEPT ![f] = @ + 1]
  /\ loading' = TRUE
  /\ UNCHANGED <<currentPath, files>>

exitSelection == selection' = {} /\ selecting' = FALSE

(* Mutant: the path changes although another folder is listed. *)
LoadAnsweredLate(f) ==
  /\ loads[f] > 0
  /\ loads' = [loads EXCEPT ![f] = @ - 1]
  /\ files' = Listing(f) /\ loading' = FALSE
  /\ exitSelection
  /\ UNCHANGED <<tablet, connected, currentPath, showHidden, clipboard, dialogs, jobs, clicks, replacing>>

(* Whichever answer comes last is the one that is shown. *)
LoadAnswered(f) ==
  /\ loads[f] > 0
  /\ loads' = [loads EXCEPT ![f] = @ - 1]
  /\ currentPath' = f /\ files' = Listing(f) /\ loading' = FALSE
  /\ exitSelection
  /\ UNCHANGED <<tablet, connected, showHidden, clipboard, dialogs, jobs, clicks, replacing>>

LoadFails(f) ==
  /\ loads[f] > 0
  /\ loads' = [loads EXCEPT ![f] = @ - 1]
  /\ loading' = FALSE
  /\ UNCHANGED <<tablet, connected, currentPath, files, showHidden, selected, clipboard,
                 dialogs, jobs, clicks, replacing>>

(* A row, the parent, a part of the path, a path typed in, home, refresh: a *)
(* row needs no selection to be under way, and what is off while a listing  *)
(* loads are only the last three.                                           *)
Open(f) ==
  /\ connected /\ ~Modal /\ Click
  /\ \/ f \in displayFiles /\ ~selecting
     \/ Inside(currentPath, f) /\ f # currentPath
     \/ ~loading
  /\ loadDirectory(f)
  /\ UNCHANGED <<tablet, connected, showHidden, selected, clipboard, dialogs, jobs, replacing>>

ToggleHidden ==
  /\ ~Modal /\ ~selecting /\ Click
  /\ showHidden' = ~showHidden
  /\ UNCHANGED <<tablet, connected, shown, selected, clipboard, dialogs, jobs, replacing>>

-----------------------------------------------------------------------------
(* Selection, and the dialogs it opens                                      *)

handleLongPress(p) ==
  /\ ~Modal /\ p \in displayFiles /\ Click
  /\ selecting' = TRUE /\ selection' = {p}
  /\ UNCHANGED <<tablet, connected, shown, showHidden, clipboard, dialogs, jobs, replacing>>

StartSelecting ==
  /\ ~Modal /\ ~selecting /\ ~loading /\ Click
  /\ selecting' = TRUE
  /\ UNCHANGED <<tablet, connected, shown, showHidden, selection, clipboard, dialogs, jobs, replacing>>

CancelSelection ==
  /\ ~Modal /\ selecting /\ Click
  /\ exitSelection
  /\ UNCHANGED <<tablet, connected, shown, showHidden, clipboard, dialogs, jobs, replacing>>

(* With shift, everything from the last row that was chosen to this one. *)
handleToggleSelect(p) ==
  /\ ~Modal /\ selecting /\ p \in displayFiles /\ Click
  /\ \/ selection' = IF p \in selection THEN selection \ {p} ELSE selection \cup {p}
     \/ \E range \in SUBSET displayFiles : p \in range /\ selection' = selection \cup range
  /\ UNCHANGED <<tablet, connected, shown, showHidden, selecting, clipboard, dialogs, jobs, replacing>>

handleStartMove ==
  /\ ~Modal /\ selecting /\ selectedFiles # {} /\ Click
  /\ clipboard' = [files |-> selectedFiles, sourcePath |-> currentPath]
  /\ exitSelection
  /\ UNCHANGED <<tablet, connected, shown, showHidden, dialogs, jobs, replacing>>

(* confirmSystemFileAction: asks first when path is on the system partition.*)
Warn(action, paths, path, conflicts) ==
  /\ path \in System
  /\ systemFileWarning' = [action |-> action, paths |-> paths, path |-> path, conflicts |-> conflicts]

initiateDelete(targets) ==
  /\ ~Modal /\ Click
  /\ targets # {}
  /\ \/ \E p \in targets \cap System : Warn("delete", targets, p, {}) /\ UNCHANGED deleteDialog
     \/ targets \cap System = {} /\ deleteDialog' = targets /\ UNCHANGED systemFileWarning
  /\ UNCHANGED <<tablet, connected, shown, showHidden, selected, clipboard, renameDialog,
                 newFolderDialog, collisions, jobs, replacing>>

initiateRename(p) ==
  /\ ~Modal /\ ~selecting /\ p \in displayFiles /\ Click
  /\ \/ Warn("rename", {p}, p, {}) /\ UNCHANGED renameDialog
     \/ p \notin System /\ renameDialog' = p /\ UNCHANGED systemFileWarning
  /\ UNCHANGED <<tablet, connected, shown, showHidden, selected, clipboard, deleteDialog,
                 newFolderDialog, collisions, jobs, replacing>>

OpenNewFolder ==
  /\ ~Modal /\ ~selecting /\ ~loading /\ Click
  /\ newFolderDialog' = TRUE
  /\ UNCHANGED <<tablet, connected, shown, showHidden, selected, clipboard, deleteDialog,
                 renameDialog, systemFileWarning, collisions, jobs, replacing>>

(* Transfers take the folder that is shown when files are chosen, or are    *)
(* dropped, dialogs or not.                                                 *)
handleUpload ==
  /\ connected /\ Click
  /\ \/ Warn("upload", {}, currentPath, {}) /\ UNCHANGED uploads
     \/ currentPath \notin System /\ uploads' = uploads \cup {currentPath} /\ UNCHANGED systemFileWarning
  /\ UNCHANGED <<disk, connected, shown, showHidden, selected, clipboard, deleteDialog,
                 renameDialog, newFolderDialog, collisions, jobs, replacing>>

-----------------------------------------------------------------------------
(* Handlers that await the tablet                                           *)

Begin(kind, todo, to) ==
  \E j \in Slots :
    /\ jobs[j] = None
    /\ jobs' = [jobs EXCEPT ![j] = [kind |-> kind, todo |-> todo, to |-> to,
                                    cleared |-> FALSE, live |-> connected]]

pasteBlocked ==
  \/ clipboard.sourcePath = currentPath
  \/ \E p \in clipboard.files \cap Folders : Inside(currentPath, p)
  \/ (clipboard.sourcePath \in System) # (currentPath \in System)

(* Mutant: a move that found nothing in its way replaces all the same. *)
ProceedReplacing(moved, to, conflicts) ==
  IF conflicts # {}
  THEN collisions' = conflicts /\ replacing' = conflicts /\ UNCHANGED jobs
  ELSE Begin("replace", moved, to) /\ UNCHANGED <<collisions, replacing>>

(* handlePaste's proceed: asks before anything is replaced. *)
Proceed(moved, to, conflicts) ==
  IF conflicts # {}
  THEN collisions' = conflicts /\ replacing' = conflicts /\ UNCHANGED jobs
  ELSE Begin("move", moved, to) /\ UNCHANGED <<collisions, replacing>>

handlePaste ==
  /\ ~Modal /\ clipboard # None /\ Click
  /\ ~pasteBlocked
  /\ LET conflicts == {n \in Names : n \in {NameOf[p] : p \in clipboard.files}
                                     /\ n \in {NameOf[p] : p \in files}}
     IN  \/ Warn("move", clipboard.files, currentPath, conflicts) /\ UNCHANGED <<collisions, replacing, jobs>>
         \/ /\ currentPath \notin System
            /\ Proceed(clipboard.files, currentPath, conflicts)
            /\ UNCHANGED systemFileWarning
  /\ UNCHANGED <<tablet, connected, shown, showHidden, selected, clipboard, deleteDialog,
                 renameDialog, newFolderDialog>>

(* Replace moves what is on the clipboard into the folder shown by now, and *)
(* the dialog stays until that is done.                                     *)
Replace ==
  /\ collisions # None /\ connected /\ Click
  /\ clipboard # None
  /\ Begin("replace", clipboard.files, currentPath)
  /\ UNCHANGED <<tablet, connected, shown, showHidden, selected, clipboard, dialogs, replacing>>

(* If the folder that is shown goes, what holds it is shown at the end. *)
handleDelete ==
  /\ deleteDialog # None /\ connected /\ Click
  /\ \/ \E p \in deleteDialog : Inside(currentPath, p) /\ Begin("delete", deleteDialog, Dir[p])
     \/ /\ ~\E p \in deleteDialog : Inside(currentPath, p)
        /\ Begin("delete", deleteDialog, currentPath)
  /\ UNCHANGED <<tablet, connected, shown, showHidden, selected, clipboard, dialogs, replacing>>

(* The new name is taken in the folder that is shown by now. *)
handleRename(q) ==
  /\ renameDialog # None /\ connected /\ Click
  /\ Dir[q] = currentPath
  /\ Begin("rename", {renameDialog}, q)
  /\ UNCHANGED <<tablet, connected, shown, showHidden, selected, clipboard, dialogs, replacing>>

handleCreateFolder(q) ==
  /\ newFolderDialog /\ connected /\ Click
  /\ Dir[q] = currentPath
  /\ \/ Warn("mkdir", {}, q, {}) /\ newFolderDialog' = FALSE /\ UNCHANGED jobs
     \/ q \notin System /\ Begin("mkdir", {}, q) /\ UNCHANGED <<newFolderDialog, systemFileWarning>>
  /\ UNCHANGED <<tablet, connected, shown, showHidden, selected, clipboard, deleteDialog,
                 renameDialog, collisions, replacing>>

(* Proceed anyway: what was put off is done with what it had read then. *)
ConfirmWarning ==
  /\ systemFileWarning # None /\ connected /\ Click
  /\ systemFileWarning' = None
  /\ LET w == systemFileWarning
     IN  \/ /\ w.action = "move"
            /\ Proceed(w.paths, w.path, w.conflicts)
            /\ UNCHANGED <<uploads, deleteDialog, renameDialog>>
         \/ /\ w.action = "mkdir" /\ Begin("mkdir", {}, w.path)
            /\ UNCHANGED <<uploads, deleteDialog, renameDialog, collisions, replacing>>
         \/ /\ w.action = "upload" /\ uploads' = uploads \cup {w.path}
            /\ UNCHANGED <<jobs, deleteDialog, renameDialog, collisions, replacing>>
         \/ /\ w.action = "delete" /\ deleteDialog' = w.paths
            /\ UNCHANGED <<uploads, jobs, renameDialog, collisions, replacing>>
         \/ /\ w.action = "rename" /\ renameDialog' = w.path
            /\ UNCHANGED <<uploads, jobs, deleteDialog, collisions, replacing>>
  /\ UNCHANGED <<disk, connected, shown, showHidden, selected, clipboard, newFolderDialog>>

(* A dialog, or the move, is canceled; what already runs goes on. *)
CancelDialog ==
  /\ Click
  /\ \/ deleteDialog # None /\ deleteDialog' = None
        /\ UNCHANGED <<renameDialog, newFolderDialog, systemFileWarning, collisions, clipboard>>
     \/ renameDialog # None /\ renameDialog' = None
        /\ UNCHANGED <<deleteDialog, newFolderDialog, systemFileWarning, collisions, clipboard>>
     \/ newFolderDialog /\ newFolderDialog' = FALSE
        /\ UNCHANGED <<deleteDialog, renameDialog, systemFileWarning, collisions, clipboard>>
     \/ systemFileWarning # None /\ systemFileWarning' = None
        /\ UNCHANGED <<deleteDialog, renameDialog, newFolderDialog, collisions, clipboard>>
     \/ collisions # None /\ collisions' = None
        /\ UNCHANGED <<deleteDialog, renameDialog, newFolderDialog, systemFileWarning, clipboard>>
     \/ clipboard # None /\ ~Modal /\ clipboard' = None /\ UNCHANGED dialogs
  /\ UNCHANGED <<tablet, connected, shown, showHidden, selected, jobs, replacing>>

Done(j) == jobs' = [jobs EXCEPT ![j] = None]
Did(j, p) == jobs' = [jobs EXCEPT ![j].todo = @ \ {p}, ![j].cleared = FALSE]

-----------------------------------------------------------------------------
(* The tablet (filesservice.go)                                             *)

(* Everything inside goes with it; a folder of the root and the home folder *)
(* are protected.                                                           *)
DeletePath(p) ==
  /\ Exists(p) /\ p # Home /\ Dir[p] # None /\ Dir[Dir[p]] # None
  /\ disk' = [q \in Paths |-> IF Inside(q, p) THEN None ELSE disk[q]]

(* SFTP's rename refuses an existing target and does not cross partitions. *)
RenamePath(p, q) ==
  /\ Exists(p) /\ ~Exists(q) /\ Exists(Dir[q])
  /\ (p \in System) = (q \in System)
  /\ p \in Files /\ q \in Files
  /\ disk' = [disk EXCEPT ![q] = disk[p], ![p] = None]

(* runMove with replace: what has the name is deleted, if that can be done. *)
MoveClears(j, p) ==
  /\ jobs[j].kind = "replace" /\ p \in jobs[j].todo /\ ~jobs[j].cleared
  /\ jobs' = [jobs EXCEPT ![j].cleared = TRUE]
  /\ (\E q \in At(jobs[j].to, NameOf[p]) : DeletePath(q)) \/ UNCHANGED disk
  /\ UNCHANGED <<uploads, connected, shown, showHidden, selected, clipboard, dialogs, clicks, replacing>>

MoveRenames(j, p) ==
  /\ p \in jobs[j].todo
  /\ jobs[j].kind = "move" \/ (jobs[j].kind = "replace" /\ jobs[j].cleared)
  /\ Did(j, p)
  /\ (\E q \in At(jobs[j].to, NameOf[p]) : RenamePath(p, q)) \/ UNCHANGED disk
  /\ UNCHANGED <<uploads, connected, shown, showHidden, selected, clipboard, dialogs, clicks, replacing>>

(* The move is over, whatever failed: the folder it went to is shown. *)
MoveEnds(j) ==
  /\ jobs[j].kind \in {"move", "replace"} /\ jobs[j].todo = {}
  /\ Done(j)
  /\ clipboard' = None /\ collisions' = None
  /\ IF jobs[j].live THEN loadDirectory(jobs[j].to) ELSE UNCHANGED shown
  /\ UNCHANGED <<tablet, connected, showHidden, selected, deleteDialog, renameDialog,
                 newFolderDialog, systemFileWarning, clicks, replacing>>

Deletes(j, p) ==
  /\ jobs[j].kind = "delete" /\ p \in jobs[j].todo
  /\ jobs' = [jobs EXCEPT ![j].todo = @ \ {p}]
  /\ DeletePath(p) \/ UNCHANGED disk
  /\ UNCHANGED <<uploads, connected, shown, showHidden, selected, clipboard, dialogs, clicks, replacing>>

DeleteEnds(j) ==
  /\ jobs[j].kind = "delete" /\ jobs[j].todo = {}
  /\ Done(j)
  /\ deleteDialog' = None
  /\ exitSelection
  /\ loadDirectory(jobs[j].to)
  /\ UNCHANGED <<tablet, connected, showHidden, clipboard, renameDialog, newFolderDialog,
                 systemFileWarning, collisions, clicks, replacing>>

RenameEnds(j) ==
  /\ jobs[j].kind = "rename"
  /\ Done(j)
  /\ \/ /\ \E p \in jobs[j].todo : RenamePath(p, jobs[j].to)
        /\ renameDialog' = None
        /\ loadDirectory(Dir[jobs[j].to])
     \/ UNCHANGED <<disk, renameDialog, shown>>
  /\ UNCHANGED <<uploads, connected, showHidden, selected, clipboard, deleteDialog,
                 newFolderDialog, systemFileWarning, collisions, clicks, replacing>>

CreateEnds(j) ==
  /\ jobs[j].kind = "mkdir"
  /\ Done(j)
  /\ LET q == jobs[j].to
     IN  \/ /\ q \in Folders /\ ~Exists(q) /\ Exists(Dir[q])
            /\ disk' = [disk EXCEPT ![q] = q]
            /\ newFolderDialog' = FALSE
            /\ loadDirectory(Dir[q])
         \/ UNCHANGED <<disk, newFolderDialog, shown>>
  /\ UNCHANGED <<uploads, connected, showHidden, selected, clipboard, deleteDialog, renameDialog,
                 systemFileWarning, collisions, clicks, replacing>>

Handler(j) ==
  /\ jobs[j] # None
  /\ \/ \E p \in jobs[j].todo : MoveClears(j, p) \/ MoveRenames(j, p) \/ Deletes(j, p)
     \/ MoveEnds(j) \/ DeleteEnds(j) \/ RenameEnds(j) \/ CreateEnds(j)

-----------------------------------------------------------------------------
(* The connection, and transfers                                            *)

ConnectionChanges ==
  /\ Click
  /\ connected' = ~connected
  /\ IF connected THEN files' = {} /\ UNCHANGED <<currentPath, loads, loading>>
                  ELSE loadDirectory(currentPath)
  /\ UNCHANGED <<tablet, showHidden, selected, clipboard, dialogs, jobs, replacing>>

(* An upload replaces what has its name; the folder shown is read again. *)
UploadFinishes(p) ==
  /\ Dir[p] \in uploads /\ Exists(Dir[p])
  /\ uploads' = uploads \ {Dir[p]}
  /\ disk' = [disk EXCEPT ![p] = Uploaded]
  /\ IF connected THEN loadDirectory(currentPath) ELSE UNCHANGED shown
  /\ UNCHANGED <<connected, showHidden, selected, clipboard, dialogs, jobs, clicks, replacing>>

-----------------------------------------------------------------------------

Next ==
  \/ \E f \in Folders : LoadAnswered(f) \/ LoadFails(f) \/ Open(f) \/ handleCreateFolder(f)
  \/ ToggleHidden
  \/ \E p \in Paths : handleLongPress(p) \/ handleToggleSelect(p)
  \/ StartSelecting \/ CancelSelection \/ handleStartMove
  \/ initiateDelete(selectedFiles)
  \/ \E p \in displayFiles : ~selecting /\ initiateDelete({p})
  \/ \E p \in Files : initiateRename(p) \/ handleRename(p) \/ UploadFinishes(p)
  \/ OpenNewFolder \/ handleUpload \/ handlePaste
  \/ Replace \/ handleDelete \/ ConfirmWarning \/ CancelDialog
  \/ \E j \in Slots : Handler(j)
  \/ ConnectionChanges

FilesSpec == Init /\ [][Next]_vars

-----------------------------------------------------------------------------
(* Properties                                                               *)

OnTablet(d, thing) == \E p \in Paths : d[p] = thing

(* However answers to several listings are ordered, the files shown are     *)
(* those of the folder whose path is shown, and uploads, pastes and new     *)
(* folders go where the user looks.                                         *)
ListingMatchesPath == \A p \in files : Dir[p] = currentPath

(* A deletion takes what its dialog named, and the dialog names only what   *)
(* was on display when it was asked for: nothing hidden, and nothing of a   *)
(* listing that was cleared or replaced meanwhile, although the selection   *)
(* outlives both.                                                           *)
DeletesWhatIsShown ==
  [][ /\ deleteDialog' # deleteDialog /\ deleteDialog' # None /\ systemFileWarning = None
      => deleteDialog' \subseteq displayFiles ]_vars

(* No file disappears from the tablet but by a deletion, by an upload or by *)
(* a move that the user let replace something: moves that found nothing in  *)
(* their way, renames and new folders lose nothing, even when two handlers  *)
(* work on the same files.                                                  *)
NothingLostUnasked ==
  [][ \A thing \in Files :
        OnTablet(disk, thing) /\ ~OnTablet(disk', thing) /\ uploads' = uploads =>
          \/ \E j \in Slots : jobs[j] # None /\ jobs[j].kind = "delete"
          \/ replacing # {} ]_vars

(* "already exists here and will be replaced" (FileBrowser.tsx): what is    *)
(* replaced is what has the name in the folder, never the file that is      *)
(* moved there.  It does not hold: a listing that answers late while the    *)
(* dialog is up takes the user back to where the file is moved from.        *)
MovedFileSurvives ==
  [][ clipboard # None /\ uploads' = uploads
      /\ ~(\E j \in Slots : jobs[j] # None /\ jobs[j].kind = "delete") =>
        \A p \in clipboard.files : OnTablet(disk, p) => OnTablet(disk', p) ]_vars
=============================================================================
