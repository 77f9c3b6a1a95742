------------------------------- MODULE PageProofs ------------------------------
(* What TLAPS proves of the types of Page: each part keeps those of its      *)
(* variables, for any folders, mods, tablets, versions, documents and runs.  *)
(* Here are those of the file browser and of the plans; those of each other  *)
(* part are proved beside what else is proved of it.                         *)
EXTENDS DialogProofs, TabsProofs, SessionProofs, FiniteSetTheorems

-----------------------------------------------------------------------------
(* The file browser                                                         *)

LEMMA BrowserConstants ==
  /\ Browser!Paths = Folders \cup Files /\ None \notin Browser!Paths /\ Browser!Uploaded \notin Browser!Paths
  /\ Home \in Folders /\ IsFiniteSet(Folders) /\ System \subseteq Browser!Paths
  /\ Dir \in [Browser!Paths -> Folders \cup {None}] /\ MaxLoads \in Nat \ {0} /\ Clicks \in Nat
<1>1. Browser!FileBrowserAssumption
  BY PageAssumption
<1>2. IsFiniteSet(Folders)
  BY <1>1, Zenon DEF Browser!FileBrowserAssumption, Browser!IsFiniteSet, IsFiniteSet
<1> QED BY <1>1, <1>2 DEF Browser!FileBrowserAssumption, Browser!Paths

(* What is in a folder, which everything but the root is.                    *)
Housed == {p \in Browser!Paths : Dir[p] \in Folders}

(* What is listed is in a folder, and so is what a dialog asks to delete:    *)
(* a deletion finds a folder to show when the one that is shown goes.  What  *)
(* is uploaded goes to a folder.                                            *)
WarnsRightly(w) ==
  /\ w.action = "delete" => w.paths \subseteq Housed
  /\ w.action = "upload" => w.path \in Folders
BrowserInv ==
  /\ Browser!FilesTypeOK
  /\ files \subseteq Housed
  /\ deleteDialog # None => deleteDialog \subseteq Housed
  /\ systemFileWarning # None => WarnsRightly(systemFileWarning)

LEMMA BrowserInit == Init => BrowserInv
<1> SUFFICES ASSUME Browser!Init PROVE BrowserInv
  BY DEF Init
<1>1. folderLoads \in [Folders -> 0..MaxLoads]
  BY BrowserConstants DEF Browser!Init
<1>2. disk \in [Browser!Paths -> Browser!Paths \cup {Browser!Uploaded, None}]
  BY DEF Browser!Init
<1>3. Home \in Folders /\ 0 \in 0..Clicks
  BY BrowserConstants
<1> QED BY <1>1, <1>2, <1>3 DEF Browser!Init, BrowserInv, Browser!FilesTypeOK

(* A listing is asked for only while fewer than MaxLoads are on their way.   *)
LEMMA LoadsBounded ==
  ASSUME folderLoads \in [Folders -> 0..MaxLoads], NEW f \in Folders, Browser!InFlight < MaxLoads
  PROVE  folderLoads[f] + 1 \in 0..MaxLoads
<1> USE BrowserConstants
<1> DEFINE L == {l \in Folders \X (1..MaxLoads) : l[2] <= folderLoads[l[1]]}
           g == [k \in 1..MaxLoads |-> <<f, k>>]
<1> SUFFICES ASSUME folderLoads[f] = MaxLoads PROVE FALSE
  OBVIOUS
<1>1. IsFiniteSet(L) /\ Cardinality(L) \in Nat
  <2>1. IsFiniteSet(1..MaxLoads)
    BY FS_Interval
  <2>2. IsFiniteSet(Folders \X (1..MaxLoads))
    BY <2>1, FS_Product
  <2>3. L \in SUBSET (Folders \X (1..MaxLoads))
    OBVIOUS
  <2> HIDE DEF L
  <2> QED BY <2>2, <2>3, FS_Subset, FS_CardinalityType
<1>2. g \in Injection(1..MaxLoads, L)
  BY DEF Injection, IsInjective
<1>3. Cardinality(1..MaxLoads) <= Cardinality(L)
  BY <1>1, <1>2, FS_Injection
<1>4. Cardinality(1..MaxLoads) = MaxLoads
  BY FS_Interval
<1>5. Browser!InFlight = Cardinality(L)
  BY Zenon DEF Browser!InFlight, Browser!Cardinality, Cardinality
<1> HIDE DEF L
<1> QED BY <1>1, <1>3, <1>4, <1>5

LEMMA ListingBegins ==
  ASSUME Browser!FilesTypeOK, NEW f, Browser!loadDirectory(f)
  PROVE  folderLoads' \in [Folders -> 0..MaxLoads] /\ folderLoading' = TRUE /\ UNCHANGED <<currentPath, files>>
<1>1. folderLoads \in [Folders -> 0..MaxLoads] /\ Browser!InFlight < MaxLoads
  BY DEF Browser!FilesTypeOK, Browser!loadDirectory
<1>2. \A g \in Folders : folderLoads[g] + 1 \in 0..MaxLoads
  BY <1>1, LoadsBounded
<1>3. folderLoads' = [folderLoads EXCEPT ![f] = @ + 1]
  BY DEF Browser!loadDirectory
<1> QED BY <1>1, <1>2, <1>3 DEF Browser!loadDirectory

LEMMA ListingEnds ==
  ASSUME Browser!FilesTypeOK, NEW f \in Folders, folderLoads[f] > 0, folderLoads' = [folderLoads EXCEPT ![f] = @ - 1]
  PROVE  folderLoads' \in [Folders -> 0..MaxLoads]
<1>1. folderLoads \in [Folders -> 0..MaxLoads] /\ MaxLoads \in Nat
  BY BrowserConstants DEF Browser!FilesTypeOK
<1> QED BY <1>1

LEMMA JobBegins ==
  ASSUME Browser!FilesTypeOK, NEW kind \in {"move", "replace", "delete", "rename", "mkdir"},
         NEW todo \in SUBSET Browser!Paths, NEW to \in Browser!Paths, Browser!Begin(kind, todo, to)
  PROVE  jobs' \in [Slots -> Browser!Job \cup {None}]
<1> DEFINE job == [kind |-> kind, todo |-> todo, to |-> to, cleared |-> FALSE, live |-> connected]
<1>1. job \in Browser!Job
  BY DEF Browser!Job, Browser!FilesTypeOK
<1>2. \E j \in Slots : jobs' = [jobs EXCEPT ![j] = job]
  BY DEF Browser!Begin
<1> HIDE DEF job
<1> QED BY <1>1, <1>2 DEF Browser!FilesTypeOK

LEMMA JobGoes ==
  ASSUME Browser!FilesTypeOK, NEW j \in Slots, jobs[j] # None, NEW p,
         \/ jobs' = [jobs EXCEPT ![j].cleared = TRUE]
         \/ jobs' = [jobs EXCEPT ![j].todo = @ \ {p}, ![j].cleared = FALSE]
         \/ jobs' = [jobs EXCEPT ![j].todo = @ \ {p}]
         \/ jobs' = [jobs EXCEPT ![j] = None]
  PROVE  jobs' \in [Slots -> Browser!Job \cup {None}]
<1>1. jobs[j] \in Browser!Job /\ jobs \in [Slots -> Browser!Job \cup {None}]
  BY DEF Browser!FilesTypeOK
<1> DEFINE a == [jobs[j] EXCEPT !.cleared = TRUE]
           b == [jobs[j] EXCEPT !.todo = @ \ {p}, !.cleared = FALSE]
           c == [jobs[j] EXCEPT !.todo = @ \ {p}]
<1>2. a \in Browser!Job /\ b \in Browser!Job /\ c \in Browser!Job
  BY <1>1 DEF Browser!Job
<1>3. \E job \in {a, b, c, None} : jobs' = [jobs EXCEPT ![j] = job]
  OBVIOUS
<1> HIDE DEF a, b, c
<1> QED BY <1>1, <1>2, <1>3

(* What the user is asked about the system partition.                        *)
LEMMA WarningMade ==
  ASSUME NEW action \in {"upload", "delete", "rename", "mkdir", "move"},
         NEW paths \in SUBSET Browser!Paths, NEW path \in Browser!Paths, NEW conflicts \in SUBSET Browser!Names,
         Browser!Warn(action, paths, path, conflicts),
         action = "delete" => paths \subseteq Housed, action = "upload" => path \in Folders
  PROVE  systemFileWarning' \in Browser!Warning /\ WarnsRightly(systemFileWarning')
  BY DEF Browser!Warn, Browser!Warning, WarnsRightly

LEMMA DiskChanges ==
  ASSUME Browser!FilesTypeOK
  PROVE  /\ \A p : Browser!DeletePath(p) => disk' \in [Browser!Paths -> Browser!Paths \cup {Browser!Uploaded, None}]
         /\ \A p, q : Browser!RenamePath(p, q) => disk' \in [Browser!Paths -> Browser!Paths \cup {Browser!Uploaded, None}]
  BY DEF Browser!FilesTypeOK, Browser!DeletePath, Browser!RenamePath, Browser!Paths

(* A handler that goes on or ends, and the dialogs and listings at its end.  *)
LEMMA HandlerTypes ==
  ASSUME BrowserInv, NEW j \in Slots, jobs[j] # None, Browser!Handler(j)
  PROVE  BrowserInv'
<1> USE BrowserConstants DEF Browser!tablet, Browser!shown, Browser!selected, Browser!dialogs
<1> DEFINE diskOK == disk' \in [Browser!Paths -> Browser!Paths \cup {Browser!Uploaded, None}]
           jobsOK == jobs' \in [Slots -> Browser!Job \cup {None}]
           shownOK == /\ folderLoads' \in [Folders -> 0..MaxLoads] /\ folderLoading' \in BOOLEAN
                      /\ UNCHANGED <<currentPath, files>>
<1>0. Browser!FilesTypeOK
  BY DEF BrowserInv
<1>1. ASSUME diskOK, jobsOK, shownOK, UNCHANGED <<uploads, connected, showHidden, fileClicks, replacing>>,
             deleteDialog' \in {deleteDialog, None}, renameDialog' \in {renameDialog, None},
             newFolderDialog' \in {newFolderDialog, FALSE}, UNCHANGED systemFileWarning,
             collisions' \in {collisions, None}, clipboard' \in {clipboard, None},
             selection' \subseteq selection, selecting' \in {selecting, FALSE}
      PROVE  BrowserInv'
  <2>1. /\ deleteDialog' \in (SUBSET Browser!Paths) \cup {None}
        /\ deleteDialog' # None => deleteDialog' \subseteq Housed
        /\ renameDialog' \in Browser!Paths \cup {None} /\ newFolderDialog' \in BOOLEAN
    BY <1>1 DEF BrowserInv, Browser!FilesTypeOK
  <2>2. collisions' \in (SUBSET Browser!Names) \cup {None}
    BY <1>1 DEF BrowserInv, Browser!FilesTypeOK
  <2>3. clipboard' \in [files : SUBSET Browser!Paths, sourcePath : Folders] \cup {None}
    BY <1>1 DEF BrowserInv, Browser!FilesTypeOK
  <2>4. selection' \subseteq Browser!Paths /\ selecting' \in BOOLEAN
    BY <1>1 DEF BrowserInv, Browser!FilesTypeOK
  <2>5. UNCHANGED <<currentPath, files, uploads, connected, showHidden, fileClicks, replacing, systemFileWarning>>
    BY <1>1
  <2> QED BY <1>1, <2>1, <2>2, <2>3, <2>4, <2>5 DEF BrowserInv, Browser!FilesTypeOK
<1>2. UNCHANGED disk => diskOK
  BY <1>0 DEF Browser!FilesTypeOK
<1>3. UNCHANGED <<currentPath, files, folderLoading, folderLoads>> => shownOK
  BY <1>0 DEF Browser!FilesTypeOK
<1>4. \A f : Browser!loadDirectory(f) => shownOK
  BY <1>0, ListingBegins
<1>5. Browser!Done(j) => jobsOK
  BY <1>0, JobGoes DEF Browser!Done
<1> HIDE DEF diskOK, jobsOK, shownOK
<1>6. ASSUME NEW p \in jobs[j].todo, Browser!MoveClears(j, p) PROVE BrowserInv'
  <2>1. diskOK /\ shownOK
    BY <1>0, <1>2, <1>3, <1>6, DiskChanges DEF Browser!MoveClears, diskOK
  <2>2. jobsOK
    BY <1>0, <1>6, JobGoes DEF Browser!MoveClears, jobsOK
  <2> QED BY <1>1, <1>6, <2>1, <2>2 DEF Browser!MoveClears
<1>7. ASSUME NEW p \in jobs[j].todo, Browser!MoveRenames(j, p) PROVE BrowserInv'
  <2>1. diskOK /\ shownOK
    BY <1>0, <1>2, <1>3, <1>7, DiskChanges DEF Browser!MoveRenames, diskOK
  <2>2. jobsOK
    BY <1>0, <1>7, JobGoes DEF Browser!MoveRenames, Browser!Did, jobsOK
  <2> QED BY <1>1, <1>7, <2>1, <2>2 DEF Browser!MoveRenames
<1>8. ASSUME NEW p \in jobs[j].todo, Browser!Deletes(j, p) PROVE BrowserInv'
  <2>1. diskOK /\ shownOK
    BY <1>0, <1>2, <1>3, <1>8, DiskChanges DEF Browser!Deletes, diskOK
  <2>2. jobsOK
    BY <1>0, <1>8, JobGoes DEF Browser!Deletes, jobsOK
  <2> QED BY <1>1, <1>8, <2>1, <2>2 DEF Browser!Deletes
<1>9. CASE Browser!MoveEnds(j)
  <2>1. diskOK /\ shownOK /\ jobsOK
    BY <1>2, <1>3, <1>4, <1>5, <1>9 DEF Browser!MoveEnds
  <2> QED BY <1>1, <1>9, <2>1 DEF Browser!MoveEnds
<1>10. CASE Browser!DeleteEnds(j)
  <2>1. diskOK /\ shownOK /\ jobsOK
    BY <1>2, <1>4, <1>5, <1>10 DEF Browser!DeleteEnds
  <2> QED BY <1>1, <1>10, <2>1 DEF Browser!DeleteEnds, Browser!exitSelection
<1>11. CASE Browser!RenameEnds(j)
  <2>1. diskOK
    BY <1>0, <1>2, <1>11, DiskChanges DEF Browser!RenameEnds, diskOK
  <2>2. shownOK /\ jobsOK
    BY <1>3, <1>4, <1>5, <1>11 DEF Browser!RenameEnds
  <2> QED BY <1>1, <1>11, <2>1, <2>2 DEF Browser!RenameEnds
<1>12. CASE Browser!CreateEnds(j)
  <2>1. diskOK
    BY <1>0, <1>2, <1>12 DEF Browser!CreateEnds, Browser!FilesTypeOK, diskOK
  <2>2. shownOK /\ jobsOK
    BY <1>3, <1>4, <1>5, <1>12 DEF Browser!CreateEnds
  <2> QED BY <1>1, <1>12, <2>1, <2>2 DEF Browser!CreateEnds
<1> QED BY <1>6, <1>7, <1>8, <1>9, <1>10, <1>11, <1>12 DEF Browser!Handler

LEMMA BrowserStep == BrowserInv /\ Browser!Next => BrowserInv'
<1> SUFFICES ASSUME BrowserInv, Browser!Next PROVE BrowserInv'
  OBVIOUS
<1> USE BrowserConstants DEF BrowserInv, Browser!FilesTypeOK, Browser!tablet, Browser!shown, Browser!selected, Browser!dialogs,
        Browser!Click
<1>1. ASSUME NEW f \in Folders, Browser!LoadAnswered(f) PROVE BrowserInv'
  <2>1. folderLoads' \in [Folders -> 0..MaxLoads]
    BY <1>1, ListingEnds DEF Browser!LoadAnswered
  <2>2. files' \subseteq Housed /\ files' \subseteq Browser!Paths
    BY <1>1 DEF Browser!LoadAnswered, Browser!Listing, Housed
  <2> QED BY <1>1, <2>1, <2>2 DEF Browser!LoadAnswered, Browser!exitSelection
<1>2. ASSUME NEW f \in Folders, Browser!LoadFails(f) PROVE BrowserInv'
  <2>1. folderLoads' \in [Folders -> 0..MaxLoads]
    BY <1>2, ListingEnds DEF Browser!LoadFails
  <2> QED BY <1>2, <2>1 DEF Browser!LoadFails
<1>3. ASSUME NEW f \in Folders, Browser!Open(f) PROVE BrowserInv'
  <2>1. folderLoads' \in [Folders -> 0..MaxLoads] /\ folderLoading' \in BOOLEAN /\ UNCHANGED <<currentPath, files>>
    BY <1>3, ListingBegins DEF Browser!Open
  <2> QED BY <1>3, <2>1 DEF Browser!Open
<1>4. ASSUME NEW q \in Folders, Browser!handleCreateFolder(q) PROVE BrowserInv'
  <2>1. jobs' \in [Slots -> Browser!Job \cup {None}]
    BY <1>4, JobBegins DEF Browser!handleCreateFolder
  <2>2. /\ systemFileWarning' \in Browser!Warning \cup {None}
        /\ systemFileWarning' # None => WarnsRightly(systemFileWarning')
    <3>1. CASE UNCHANGED systemFileWarning
      BY <3>1
    <3>2. CASE Browser!Warn("mkdir", {}, q, {})
      <4>1. q \in Browser!Paths
        OBVIOUS
      <4> QED BY <3>2, <4>1, WarningMade
    <3> QED BY <1>4, <3>1, <3>2 DEF Browser!handleCreateFolder
  <2>3. UNCHANGED <<disk, connected, currentPath, files, folderLoading, folderLoads, showHidden, selection, selecting, clipboard>>
    BY <1>4 DEF Browser!handleCreateFolder
  <2>4. UNCHANGED <<deleteDialog, renameDialog, collisions, uploads, replacing>> /\ newFolderDialog' \in BOOLEAN
    BY <1>4 DEF Browser!handleCreateFolder
  <2>5. fileClicks' \in 0..Clicks
    BY <1>4 DEF Browser!handleCreateFolder
  <2> QED BY <2>1, <2>2, <2>3, <2>4, <2>5
<1>5. CASE Browser!ToggleHidden
  BY <1>5 DEF Browser!ToggleHidden
<1>6. ASSUME NEW p \in Browser!Paths, Browser!handleLongPress(p) PROVE BrowserInv'
  BY <1>6 DEF Browser!handleLongPress
<1>7. ASSUME NEW p \in Browser!Paths, Browser!handleToggleSelect(p) PROVE BrowserInv'
  BY <1>7 DEF Browser!handleToggleSelect, Browser!displayFiles
<1>8. CASE Browser!StartSelecting
  BY <1>8 DEF Browser!StartSelecting
<1>9. CASE Browser!CancelSelection
  <2>1. selection' = {} /\ selecting' = FALSE
    BY <1>9 DEF Browser!CancelSelection, Browser!exitSelection
  <2>2. selection' \subseteq Browser!Paths
    BY <2>1
  <2>3. UNCHANGED <<disk, connected, currentPath, files, folderLoading, folderLoads, showHidden, clipboard>>
    BY <1>9 DEF Browser!CancelSelection
  <2>4. UNCHANGED <<deleteDialog, renameDialog, newFolderDialog, systemFileWarning, collisions, jobs, uploads, replacing>>
    BY <1>9 DEF Browser!CancelSelection
  <2>5. fileClicks' \in 0..Clicks
    BY <1>9 DEF Browser!CancelSelection
  <2> QED BY <2>1, <2>2, <2>3, <2>4, <2>5
<1>10. CASE Browser!handleStartMove
  <2>1. clipboard' \in [files : SUBSET Browser!Paths, sourcePath : Folders]
    BY <1>10 DEF Browser!handleStartMove, Browser!selectedFiles
  <2>2. selection' = {} /\ selecting' = FALSE
    BY <1>10 DEF Browser!handleStartMove, Browser!exitSelection
  <2>3. selection' \subseteq Browser!Paths
    BY <2>2
  <2>4. UNCHANGED <<disk, connected, currentPath, files, folderLoading, folderLoads, showHidden>>
    BY <1>10 DEF Browser!handleStartMove
  <2>5. UNCHANGED <<deleteDialog, renameDialog, newFolderDialog, systemFileWarning, collisions, jobs, uploads, replacing>>
    BY <1>10 DEF Browser!handleStartMove
  <2>6. fileClicks' \in 0..Clicks
    BY <1>10 DEF Browser!handleStartMove
  <2> QED BY <2>1, <2>2, <2>3, <2>4, <2>5, <2>6
<1>11. ASSUME NEW S \in SUBSET files, Browser!initiateDelete(S) PROVE BrowserInv'
  BY <1>11 DEF Browser!initiateDelete, Browser!Warn, Browser!Warning, WarnsRightly
<1>12. ASSUME NEW p \in Files, Browser!initiateRename(p) PROVE BrowserInv'
  BY <1>12 DEF Browser!initiateRename, Browser!Warn, Browser!Warning, WarnsRightly
<1>13. ASSUME NEW q \in Files, Browser!handleRename(q) PROVE BrowserInv'
  <2>1. jobs' \in [Slots -> Browser!Job \cup {None}]
    BY <1>13, JobBegins DEF Browser!handleRename
  <2> QED BY <1>13, <2>1 DEF Browser!handleRename
<1>14. ASSUME NEW p \in Files, Browser!UploadFinishes(p) PROVE BrowserInv'
  BY ZenonT(40), <1>14, ListingBegins DEF Browser!UploadFinishes
<1>15. CASE Browser!OpenNewFolder
  BY <1>15 DEF Browser!OpenNewFolder
<1>16. CASE Browser!handleUpload
  BY <1>16 DEF Browser!handleUpload, Browser!Warn, Browser!Warning, WarnsRightly
<1>17. CASE Browser!handlePaste
  <2> DEFINE conflicts == {n \in Browser!Names : n \in {NameOf[p] : p \in clipboard.files}
                                                  /\ n \in {NameOf[p] : p \in files}}
  <2>1. /\ clipboard.files \in SUBSET Browser!Paths /\ currentPath \in Browser!Paths
        /\ conflicts \in SUBSET Browser!Names
    BY <1>17 DEF Browser!handlePaste
  <2>2. \/ /\ Browser!Warn("move", clipboard.files, currentPath, conflicts)
           /\ UNCHANGED <<collisions, replacing, jobs>>
        \/ Browser!Proceed(clipboard.files, currentPath, conflicts) /\ UNCHANGED systemFileWarning
    BY <1>17 DEF Browser!handlePaste
  <2> HIDE DEF conflicts
  <2>3. /\ jobs' \in [Slots -> Browser!Job \cup {None}]
        /\ collisions' \in (SUBSET Browser!Names) \cup {None} /\ replacing' \subseteq Browser!Names
    BY <2>1, <2>2, JobBegins DEF Browser!Proceed
  <2>4. /\ systemFileWarning' \in Browser!Warning \cup {None}
        /\ systemFileWarning' # None => WarnsRightly(systemFileWarning')
    BY <2>1, <2>2, WarningMade
  <2> QED BY <1>17, <2>3, <2>4 DEF Browser!handlePaste
<1>18. CASE Browser!Replace
  BY <1>18, JobBegins DEF Browser!Replace
<1>19. CASE Browser!handleDelete
  <2>1. PICK to \in Browser!Paths : Browser!Begin("delete", deleteDialog, to)
    BY <1>19 DEF Browser!handleDelete, Housed
  <2>2. jobs' \in [Slots -> Browser!Job \cup {None}]
    BY <1>19, <2>1, JobBegins DEF Browser!handleDelete
  <2> QED BY <1>19, <2>2 DEF Browser!handleDelete
<1>20. CASE Browser!ConfirmWarning
  <2> DEFINE w == systemFileWarning
  <2>0. WarnsRightly(w)
    BY <1>20 DEF Browser!ConfirmWarning
  <2>1. w \in Browser!Warning /\ w.paths \in SUBSET Browser!Paths /\ w.path \in Browser!Paths /\ w.conflicts \in SUBSET Browser!Names
    BY <1>20 DEF Browser!ConfirmWarning, Browser!Warning
  <2>2. /\ jobs' \in [Slots -> Browser!Job \cup {None}]
        /\ collisions' \in (SUBSET Browser!Names) \cup {None} /\ replacing' \subseteq Browser!Names
    BY <1>20, <2>1, JobBegins DEF Browser!ConfirmWarning, Browser!Proceed
  <2>3. /\ deleteDialog' \in (SUBSET Browser!Paths) \cup {None}
        /\ deleteDialog' # None => deleteDialog' \subseteq Housed
        /\ renameDialog' \in Browser!Paths \cup {None}
    BY <1>20, <2>0, <2>1 DEF Browser!ConfirmWarning, WarnsRightly
  <2>4. uploads' \subseteq Folders
    BY <1>20, <2>0, <2>1 DEF Browser!ConfirmWarning, WarnsRightly
  <2>5. UNCHANGED <<disk, connected, currentPath, files, folderLoading, folderLoads, showHidden, selection, selecting, clipboard>>
    BY <1>20 DEF Browser!ConfirmWarning
  <2>6. fileClicks' \in 0..Clicks /\ UNCHANGED newFolderDialog /\ systemFileWarning' = None
    BY <1>20 DEF Browser!ConfirmWarning
  <2> HIDE DEF w
  <2> QED BY <2>2, <2>3, <2>4, <2>5, <2>6
<1>21. CASE Browser!CancelDialog
  <2>1. /\ deleteDialog' \in {deleteDialog, None} /\ renameDialog' \in {renameDialog, None}
        /\ newFolderDialog' \in BOOLEAN /\ systemFileWarning' \in {systemFileWarning, None}
        /\ collisions' \in {collisions, None} /\ clipboard' \in {clipboard, None}
    BY <1>21 DEF Browser!CancelDialog
  <2> QED BY <1>21, <2>1 DEF Browser!CancelDialog
<1>22. ASSUME NEW j \in Slots, Browser!Handler(j) PROVE BrowserInv'
  BY <1>22, HandlerTypes DEF Browser!Handler
<1>23. CASE Browser!ConnectionChanges
  <2>1. folderLoads' \in [Folders -> 0..MaxLoads] /\ folderLoading' \in BOOLEAN /\ files' \in {{}, files}
    BY <1>23, ListingBegins DEF Browser!ConnectionChanges
  <2> QED BY <1>23, <2>1 DEF Browser!ConnectionChanges, Browser!loadDirectory
<1> QED BY <1>1, <1>2, <1>3, <1>4, <1>5, <1>6, <1>7, <1>8, <1>9, <1>10, <1>11, <1>12, <1>13,
          <1>14, <1>15, <1>16, <1>17, <1>18, <1>19, <1>20, <1>21, <1>22, <1>23
    DEF Browser!Next, Browser!displayFiles, Browser!selectedFiles

LEMMA BrowserStay == BrowserInv /\ UNCHANGED browserVars => BrowserInv'
  BY DEF BrowserInv, browserVars, Browser!FilesTypeOK, WarnsRightly

-----------------------------------------------------------------------------
(* The plans of the Mods tab                                                *)

LEMMA PlanConstants ==
  /\ Brings \in [Mods -> SUBSET Mods]
  /\ Wanting \subseteq Mods /\ Providers \subseteq Mods /\ Gate \in Mods /\ Companion \in Mods
  /\ IncompatibleMods \subseteq Mods /\ Preinstalled \subseteq Mods /\ Upgradable \subseteq Mods
  /\ None \notin Mods /\ MaxClicks \in Nat
  BY PageAssumption DEF Plan!ModsPlanAssumption

PlanTablet == onTablet \subseteq Mods /\ outdated \subseteq Mods /\ osChanged \in BOOLEAN
PlanKnown  == online \in BOOLEAN /\ modsInstalled \subseteq Mods /\ candidates \subseteq Mods /\ modsMismatch \in BOOLEAN
PlanQueues == installQueue \subseteq Mods /\ uninstallQueue \subseteq Mods /\ upgradeQueue \subseteq Mods
PlanAsked  == askedQuestion \in Plan!Questions \cup {None} /\ changing \in BOOLEAN
PlanFound  ==
  /\ answers \in Plan!Answers /\ openQuestions \subseteq Plan!Questions /\ waiting \subseteq Mods
  /\ queueConflict \in BOOLEAN /\ implied \subseteq Mods /\ installSolving \in BOOLEAN
PlanTaken  == impliedRemovals \subseteq Mods /\ removalInstallFirst \in BOOLEAN /\ removalSolving \in BOOLEAN
Staged     == [install : SUBSET Mods, remove : SUBSET Mods, upgrade : SUBSET Mods]
PlanResult ==
  /\ plan \in Plan!Plan \cup {None}
  /\ applyResult \in {"succeeded", "stopped", "failed", None} /\ stagedAtResult \in Staged \cup {None}
PlanApplying ==
  /\ pc \in {"idle", "next", "candidates", "running", "succeeded", "stopped", "failed"}
  /\ pc # "idle" => plan \in Plan!Plan
  /\ stopRequested \in BOOLEAN /\ done \subseteq Mods /\ interrupted \in BOOLEAN

PlanTypes ==
  /\ PlanTablet /\ PlanKnown /\ PlanQueues /\ PlanAsked
  /\ PlanFound /\ PlanTaken /\ solves \subseteq Plan!Check /\ checked \in Plan!Check \cup {None}
  /\ starring \in Mods \cup {None} /\ PlanResult /\ PlanApplying /\ modPresses \in 0..MaxClicks
  /\ PlanInv

LEMMA PlanTypesMean == PlanTypes => Plan!PlanTypeOK
  BY DEF PlanTypes, PlanTablet, PlanKnown, PlanQueues, PlanAsked, PlanFound, PlanTaken, PlanResult,
         PlanApplying, Staged, Plan!PlanTypeOK

LEMMA NoAnswers == Plan!noInstallAnswers \in Plan!Answers
  BY DEF Plan!noInstallAnswers, Plan!Answers

LEMMA PlanTypesInit == Init => PlanTypes
<1> SUFFICES ASSUME Init PROVE PlanTypes
  OBVIOUS
<1>1. Plan!Init /\ PlanInv
  BY PlanInit DEF Init
<1>2. PlanTablet /\ PlanKnown /\ PlanQueues /\ PlanAsked
  BY <1>1, PlanConstants DEF Plan!Init, PlanTablet, PlanKnown, PlanQueues, PlanAsked
<1>3. PlanFound /\ PlanTaken /\ solves \subseteq Plan!Check /\ checked \in Plan!Check \cup {None}
  BY <1>1, NoAnswers DEF Plan!Init, PlanFound, PlanTaken
<1>4. PlanResult /\ PlanApplying /\ starring \in Mods \cup {None} /\ modPresses \in 0..MaxClicks
  <2>1. /\ starring = None /\ plan = None /\ pc = "idle" /\ stopRequested = FALSE /\ done = {}
        /\ interrupted = FALSE /\ applyResult = None /\ stagedAtResult = None /\ modPresses = 0
    BY <1>1 DEF Plan!Init
  <2>2. PlanResult
    BY <2>1 DEF PlanResult
  <2>3. stopRequested \in BOOLEAN /\ interrupted \in BOOLEAN
    BY Zenon, <2>1
  <2>4. PlanApplying
    BY <2>1, <2>3 DEF PlanApplying
  <2>5. starring \in Mods \cup {None} /\ modPresses \in 0..MaxClicks
    BY <2>1, PlanConstants
  <2> QED BY <2>2, <2>4, <2>5
<1> QED BY <1>1, <1>2, <1>3, <1>4 DEF PlanTypes

(* What is asked for is made of mods.                                       *)
LEMMA PlanRequests ==
  ASSUME NEW q \in SUBSET Mods, NEW a \in Plan!Answers
  PROVE  /\ a.provider \in Providers \cup {None} /\ a.settled \in BOOLEAN /\ a.companion \in BOOLEAN
         /\ Plan!Companions(a) \subseteq Mods /\ Plan!installRequest(q, a) \subseteq Mods
  BY PlanConstants DEF Plan!Answers, Plan!installRequest, Plan!Companions

LEMMA PlanBrought ==
  ASSUME NEW S \in SUBSET Mods
  PROVE  Plan!WithBrought(S) \subseteq Mods
  BY PlanConstants DEF Plan!WithBrought

LEMMA PlanDeps ==
  ASSUME PlanKnown, PlanQueues, PlanFound
  PROVE  Plan!InstallDeps \in Plan!Check /\ Plan!RemovalDeps \in Plan!Check
<1>1. Plan!installRequest(installQueue, answers) \subseteq Mods
  BY PlanRequests DEF PlanQueues, PlanFound
<1>2. Plan!solvableInstalls \subseteq Mods
  BY <1>1 DEF Plan!solvableInstalls
<1>3. Plan!InstallDeps \in [queue : SUBSET Mods, answers : Plan!Answers, removals : SUBSET Mods, installed : SUBSET Mods]
  BY DEF Plan!InstallDeps, PlanKnown, PlanQueues, PlanFound
<1>4. Plan!RemovalDeps \in [removals : SUBSET Mods, installs : SUBSET Mods, installed : SUBSET Mods]
  BY <1>2 DEF Plan!RemovalDeps, PlanKnown, PlanQueues
<1> QED BY <1>3, <1>4 DEF Plan!Check

LEMMA PlanDepsNext ==
  ASSUME PlanKnown', PlanQueues', PlanFound'
  PROVE  Plan!InstallDeps' \in Plan!Check /\ Plan!RemovalDeps' \in Plan!Check
<1>1. Plan!installRequest(installQueue', answers') \subseteq Mods
  BY PlanRequests DEF PlanQueues, PlanFound
<1>2. Plan!solvableInstalls' \subseteq Mods
  BY <1>1 DEF Plan!solvableInstalls, Plan!installRequest, Plan!Companions
<1>3. Plan!InstallDeps' \in [queue : SUBSET Mods, answers : Plan!Answers, removals : SUBSET Mods, installed : SUBSET Mods]
  BY DEF Plan!InstallDeps, PlanKnown, PlanQueues, PlanFound
<1>4. Plan!RemovalDeps' \in [removals : SUBSET Mods, installs : SUBSET Mods, installed : SUBSET Mods]
  BY <1>2 DEF Plan!RemovalDeps, PlanKnown, PlanQueues
<1> QED BY <1>3, <1>4 DEF Plan!Check

(* The effects keep the types of what the checks find.                      *)
LEMMA PlanEffects ==
  ASSUME PlanFound, PlanTaken
  PROVE  (Plan!InstallEffect => PlanFound') /\ (Plan!RemovalEffect => PlanTaken')
<1>1. ASSUME Plan!InstallEffect PROVE PlanFound'
  <2>1. answers' \in Plan!Answers
    BY <1>1, NoAnswers DEF Plan!InstallEffect, PlanFound
  <2>2. /\ openQuestions' \in {{}, openQuestions} /\ waiting' \in {{}, waiting} /\ implied' \in {{}, implied}
        /\ queueConflict' \in {FALSE, queueConflict} /\ installSolving' \in BOOLEAN
    BY <1>1 DEF Plan!InstallEffect, PlanFound
  <2> QED BY <2>1, <2>2 DEF PlanFound
<1>2. ASSUME Plan!RemovalEffect PROVE PlanTaken'
  BY <1>2 DEF Plan!RemovalEffect, PlanTaken
<1> QED BY <1>1, <1>2

LEMMA PlanAsks ==
  ASSUME solves \subseteq Plan!Check, PlanKnown', PlanQueues', PlanFound', Plan!Ask
  PROVE  solves' \subseteq Plan!Check
<1>1. Plan!InstallDeps' \in Plan!Check /\ Plan!RemovalDeps' \in Plan!Check
  BY PlanDepsNext
<1>2. solves' \subseteq solves \cup {Plan!InstallDeps', Plan!RemovalDeps'}
  BY DEF Plan!Ask
<1> QED BY <1>1, <1>2

LEMMA PlanResolves ==
  ASSUME PlanTypes, Plan!Resolve, PlanKnown', PlanQueues'
  PROVE  PlanFound' /\ PlanTaken' /\ solves' \subseteq Plan!Check /\ checked' = checked
<1>1. PlanFound' /\ PlanTaken'
  BY PlanEffects DEF PlanTypes, Plan!Resolve
<1> QED BY <1>1, PlanAsks DEF PlanTypes, Plan!Resolve

LEMMA PlanQueued ==
  ASSUME PlanTypes, NEW installs \in SUBSET Mods, NEW removals \in SUBSET Mods, NEW upgrades \in SUBSET Mods,
         Plan!Queue(installs, removals, upgrades), PlanKnown'
  PROVE  /\ PlanQueues' /\ PlanFound' /\ PlanTaken' /\ solves' \subseteq Plan!Check /\ checked' = checked
         /\ PlanResult' /\ PlanApplying'
<1>1. PlanQueues'
  BY DEF Plan!Queue, PlanQueues
<1>2. PlanFound' /\ PlanTaken' /\ solves' \subseteq Plan!Check /\ checked' = checked
  BY <1>1, PlanResolves DEF Plan!Queue
<1>3. PlanResult'
  BY DEF Plan!Queue, Plan!dismissApplyResult, PlanResult, PlanTypes
<1>4. UNCHANGED <<pc, stopRequested, done, interrupted>> /\ (pc # "idle" => plan' = plan)
  BY DEF Plan!Queue, Plan!dismissApplyResult, PlanTypes, PlanInv, ApplyInv
<1> QED BY <1>1, <1>2, <1>3, <1>4 DEF PlanTypes, PlanApplying

(* What a check of the installs comes to.                                   *)
LEMMA PlanSolution ==
  ASSUME PlanTypes, NEW c, c = Plan!InstallDeps
  PROVE  /\ Plan!Solution(c).answers \in Plan!Answers /\ Plan!Solution(c).held \subseteq Mods
         /\ Plan!Solution(c).tree \subseteq Mods /\ Plan!Solution(c).conflict \in BOOLEAN
         /\ Plan!Solution(c).open \subseteq Plan!Questions
<1>1. /\ c.queue = installQueue /\ c.answers = answers /\ c.removals = uninstallQueue /\ c.installed = modsInstalled
      /\ installQueue \in SUBSET Mods /\ answers \in Plan!Answers
  BY DEF Plan!InstallDeps, PlanTypes, PlanQueues, PlanFound
<1> DEFINE provider == Plan!keptProvider(c.queue, c.answers)
           kept == [c.answers EXCEPT !.provider = provider]
           request == Plan!installRequest(c.queue, kept)
           heldBack == Plan!GetInstallChoices(request, c.installed)
           there == c.installed \ c.removals
           tree == Plan!WithBrought(request \ heldBack)
           fails == Plan!Clashing(tree \cup there)
           bare == Plan!WithBrought((request \ heldBack) \ Plan!Companions(c.answers))
           settled == c.answers.settled /\ (fails \/ Gate \in bare)
<1>2. provider \in Providers \cup {None} /\ answers.settled \in BOOLEAN /\ answers.companion \in BOOLEAN
  BY <1>1, PlanRequests DEF Plan!keptProvider
<1>3. kept \in Plan!Answers
  BY <1>1, <1>2 DEF Plan!Answers
<1>4. request \in SUBSET Mods
  BY <1>1, <1>3, PlanRequests
<1>5. heldBack \subseteq Mods
  BY PlanConstants DEF Plan!GetInstallChoices
<1>6. tree \subseteq Mods
  BY <1>4, PlanBrought
<1>7. fails \in BOOLEAN /\ settled \in BOOLEAN
  BY <1>1, <1>2 DEF Plan!Clashing
<1> DEFINE a == [provider |-> provider, settled |-> settled, companion |-> c.answers.companion /\ settled]
           o == (IF heldBack # {} THEN {"provider"} ELSE {}) \cup
                (IF ~fails /\ Gate \in tree \ c.installed /\ ~settled THEN {"gate"} ELSE {})
<1>8. a \in Plan!Answers /\ o \subseteq Plan!Questions
  <2>1. (c.answers.companion /\ settled) \in BOOLEAN
    BY <1>1, <1>2, <1>7
  <2> HIDE DEF provider, settled, heldBack, fails, tree
  <2> QED BY <1>2, <1>7, <2>1 DEF Plan!Answers, Plan!Questions
<1>9. Plan!Solution(c) = [answers |-> a, held |-> heldBack, tree |-> IF fails THEN {} ELSE tree,
                          conflict |-> fails, open |-> o]
  BY Zenon DEF Plan!Solution
<1> HIDE DEF a, o, heldBack, fails, tree
<1> QED BY <1>5, <1>6, <1>7, <1>8, <1>9

(* What a plan names is made of mods, whatever its phase.                   *)
LEMMA PlanNames ==
  ASSUME NEW p \in Plan!Plan
  PROVE  /\ \A phase \in Plan!Phases : Plan!Names(p, phase) \subseteq Mods
         /\ p.order \in Seq(Plan!Phases) /\ p.upgrade \subseteq Mods
         /\ \A x \in SUBSET Mods : [p EXCEPT !.upgrade = x] \in Plan!Plan
         /\ \A x \in Seq(Plan!Phases) : [p EXCEPT !.order = x] \in Plan!Plan
<1>1. /\ p.remove \subseteq Mods /\ p.upgrade \subseteq Mods /\ p.install \subseteq Mods
      /\ p.order \in Seq(Plan!Phases)
  BY DEF Plan!Plan
<1>2. \A phase \in Plan!Phases : Plan!Names(p, phase) \subseteq Mods
  BY <1>1 DEF Plan!Names, Plan!Phases
<1>3. \A x \in SUBSET Mods : [p EXCEPT !.upgrade = x] \in Plan!Plan
  BY DEF Plan!Plan
<1>4. \A x \in Seq(Plan!Phases) : [p EXCEPT !.order = x] \in Plan!Plan
  BY DEF Plan!Plan
<1> QED BY <1>1, <1>2, <1>3, <1>4

LEMMA PlanTabletAfter ==
  ASSUME PlanTypes, NEW phase \in Plan!Phases, NEW S \in SUBSET Mods, Plan!TabletAfter(phase, S)
  PROVE  PlanTablet'
<1>1. phase \in {"remove", "install", "upgrade"}
  BY DEF Plan!Phases
<1>2. onTablet' \subseteq Mods /\ outdated' \subseteq Mods
  BY <1>1 DEF Plan!TabletAfter, PlanTypes, PlanTablet
<1>3. osChanged' \in BOOLEAN
  BY <1>1 DEF Plan!TabletAfter, PlanTypes, PlanTablet
<1> QED BY <1>2, <1>3 DEF PlanTablet

LEMMA PlanAnswered ==
  ASSUME PlanTypes, NEW new \in Plan!Answers, NEW rest \in SUBSET Plan!Questions, Plan!Answered(new, rest),
         UNCHANGED <<online, modsInstalled, candidates, modsMismatch, installQueue, uninstallQueue, upgradeQueue>>
  PROVE  PlanFound' /\ PlanTaken' /\ solves' \subseteq Plan!Check /\ checked' = checked
<1>1. PlanFound'
  BY DEF Plan!Answered, PlanTypes, PlanKnown, PlanFound
<1>2. PlanTaken'
  BY PlanEffects DEF Plan!Answered, PlanTypes
<1>3. PlanKnown' /\ PlanQueues'
  BY DEF PlanTypes, PlanKnown, PlanQueues
<1> QED BY <1>1, <1>2, <1>3, PlanAsks DEF Plan!Answered, PlanTypes

LEMMA PlanOver ==
  ASSUME PlanTypes, NEW outcome \in {"succeeded", "stopped", "failed"}, Plan!Over(outcome),
         PlanKnown', PlanQueues'
  PROVE  /\ PlanFound' /\ PlanTaken' /\ solves' \subseteq Plan!Check /\ checked' = checked
         /\ PlanResult' /\ PlanApplying'
<1>1. PlanFound' /\ PlanTaken'
  BY PlanEffects DEF PlanTypes, Plan!Over
<1>2. solves' \subseteq Plan!Check /\ checked' = checked
  BY <1>1, PlanAsks DEF PlanTypes, Plan!Over
<1>3. PlanResult'
  <2> DEFINE new == [install |-> installQueue', remove |-> uninstallQueue', upgrade |-> upgradeQueue']
  <2>1. new \in Staged
    BY DEF PlanQueues, Staged
  <2>2. CASE applyResult' = outcome /\ stagedAtResult' = new /\ plan' = plan
    <3> HIDE DEF new
    <3> QED BY <2>1, <2>2 DEF PlanResult, PlanTypes
  <2>3. CASE Plan!dismissApplyResult
    BY <2>3 DEF Plan!dismissApplyResult, PlanResult
  <2> QED BY <2>2, <2>3, Zenon DEF Plan!Over
<1>4. PlanApplying'
  BY DEF Plan!Over, PlanTypes, PlanApplying
<1> QED BY <1>1, <1>2, <1>3, <1>4

LEMMA PlanTypesMade == PlanTypes /\ Plan!handleApplyPlan => PlanTypes'
<1> SUFFICES ASSUME PlanTypes, Plan!handleApplyPlan PROVE PlanTypes'
  OBVIOUS
<1>1. PlanInv'
  BY PlanMade DEF PlanTypes
<1> DEFINE installs == IF modsMismatch \/ installQueue = {} THEN {} ELSE Plan!installRequest(installQueue, answers)
           targets == modsInstalled \cap IncompatibleMods = {}
           wanted == [remove |-> IF uninstallQueue = {} THEN {} ELSE uninstallQueue \cup impliedRemovals,
                      upgrade |-> IF ~modsMismatch THEN upgradeQueue
                                  ELSE (IF targets THEN candidates ELSE modsInstalled \ IncompatibleMods) \ uninstallQueue,
                      install |-> (installs \cap installQueue) \cup implied,
                      implied |-> implied \cup (impliedRemovals \ uninstallQueue),
                      sync |-> modsMismatch, targets |-> targets, order |-> <<>>]
<1>2. \E order : plan' = [wanted EXCEPT !.order = order]
  BY ZenonT(40) DEF Plan!handleApplyPlan, Plan!runPlan
<1>3. /\ pc' = "next" /\ stopRequested' = FALSE /\ done' = {} /\ interrupted' = FALSE
      /\ applyResult' = None /\ stagedAtResult' = None /\ solves' = {} /\ modPresses' \in 0..MaxClicks
  <2>1. Plan!Click
    BY DEF Plan!handleApplyPlan, Plan!CanStage
  <2>2. modPresses' \in 0..MaxClicks
    BY <2>1, PlanConstants DEF Plan!Click, PlanTypes
  <2>3. /\ pc' = "next" /\ stopRequested' = FALSE /\ done' = {} /\ interrupted' = FALSE
        /\ applyResult' = None /\ stagedAtResult' = None /\ solves' = {}
    BY SMTT(30) DEF Plan!handleApplyPlan, Plan!runPlan
  <2> QED BY <2>2, <2>3
<1>4. UNCHANGED <<onTablet, outdated, osChanged, online, modsInstalled, candidates, modsMismatch,
                  installQueue, uninstallQueue, upgradeQueue, askedQuestion, changing, starring, answers,
                  openQuestions, waiting, queueConflict, implied, impliedRemovals, removalInstallFirst,
                  installSolving, removalSolving, checked>>
  BY DEF Plan!handleApplyPlan, Plan!runPlan, Plan!tablet, Plan!known, Plan!queues, Plan!asked
<1>5. wanted \in [remove : SUBSET Mods, upgrade : SUBSET Mods, install : SUBSET Mods,
                  implied : SUBSET Mods, sync : BOOLEAN, targets : BOOLEAN, order : {<<>>}]
  BY DEF PlanTypes, PlanKnown, PlanQueues, PlanFound, PlanTaken
<1> HIDE DEF wanted
<1>6. plan' \in Plan!Plan
  <2>1. PICK order : plan' = [wanted EXCEPT !.order = order]
    BY <1>2
  <2>2. plan'.order = order
    BY <1>5, <2>1
  <2>3. order \in Seq(Plan!Phases)
    BY <1>1, <1>3, <2>2 DEF PlanInv, ApplyInv, OrderInv, Ordered
  <2> QED BY <1>5, <2>1, <2>3 DEF Plan!Plan
<1>7. PlanResult' /\ PlanApplying'
  BY <1>3, <1>6 DEF PlanResult, PlanApplying
<1>8. PlanTablet' /\ PlanKnown' /\ PlanQueues' /\ PlanAsked' /\ PlanFound' /\ PlanTaken'
  BY <1>4 DEF PlanTypes, PlanTablet, PlanKnown, PlanQueues, PlanAsked, PlanFound, PlanTaken
<1> QED BY <1>1, <1>3, <1>4, <1>7, <1>8 DEF PlanTypes

LEMMA PlanSame ==
  ASSUME PlanTypes
  PROVE  /\ UNCHANGED Plan!tablet => PlanTablet'
         /\ UNCHANGED Plan!known => PlanKnown'
         /\ UNCHANGED Plan!queues => PlanQueues'
         /\ UNCHANGED Plan!asked => PlanAsked'
         /\ UNCHANGED Plan!solved => PlanFound' /\ PlanTaken' /\ solves' \subseteq Plan!Check
         /\ UNCHANGED Plan!applying => PlanApplying'
         /\ UNCHANGED <<plan, Plan!result>> => PlanResult'
         /\ UNCHANGED starring => starring' \in Mods \cup {None}
         /\ UNCHANGED modPresses => modPresses' \in 0..MaxClicks
         /\ Plan!Click => modPresses' \in 0..MaxClicks
         /\ UNCHANGED checked => checked' \in Plan!Check \cup {None}
<1>1. UNCHANGED Plan!tablet => PlanTablet'
  BY DEF PlanTypes, PlanTablet, Plan!tablet
<1>2. (UNCHANGED Plan!known => PlanKnown') /\ (UNCHANGED Plan!queues => PlanQueues')
  BY DEF PlanTypes, PlanKnown, PlanQueues, Plan!known, Plan!queues
<1>3. (UNCHANGED Plan!asked => PlanAsked') /\ (UNCHANGED starring => starring' \in Mods \cup {None})
  BY DEF PlanTypes, PlanAsked, Plan!asked
<1>4. UNCHANGED Plan!solved => PlanFound' /\ PlanTaken' /\ solves' \subseteq Plan!Check
  BY DEF PlanTypes, PlanFound, PlanTaken, Plan!solved
<1>5. (UNCHANGED Plan!applying => PlanApplying') /\ (UNCHANGED <<plan, Plan!result>> => PlanResult')
  BY DEF PlanTypes, PlanApplying, PlanResult, Plan!applying, Plan!result
<1>6. (UNCHANGED modPresses => modPresses' \in 0..MaxClicks) /\ (Plan!Click => modPresses' \in 0..MaxClicks)
  BY PlanConstants DEF PlanTypes, Plan!Click
<1>7. UNCHANGED checked => checked' \in Plan!Check \cup {None}
  BY DEF PlanTypes
<1> QED BY <1>1, <1>2, <1>3, <1>4, <1>5, <1>6, <1>7

(* A change of the queues that the user or a starred mod makes.             *)
LEMMA PlanStaged ==
  ASSUME PlanTypes, PlanInv', UNCHANGED <<Plan!tablet, Plan!known, Plan!asked>>,
         Plan!Click \/ UNCHANGED modPresses, starring' \in {starring, None},
         NEW installs \in SUBSET Mods, NEW removals \in SUBSET Mods, NEW upgrades \in SUBSET Mods,
         Plan!Queue(installs, removals, upgrades)
  PROVE  PlanTypes'
<1>1. PlanTablet' /\ PlanKnown' /\ PlanAsked' /\ modPresses' \in 0..MaxClicks
  BY PlanSame
<1>2. /\ PlanQueues' /\ PlanFound' /\ PlanTaken' /\ solves' \subseteq Plan!Check /\ checked' = checked
      /\ PlanResult' /\ PlanApplying'
  BY <1>1, PlanQueued
<1> QED BY <1>1, <1>2 DEF PlanTypes

LEMMA PlanTypesStep == PlanTypes /\ Plan!Next => PlanTypes'
<1> SUFFICES ASSUME PlanTypes, Plan!Next PROVE PlanTypes'
  OBVIOUS
<1>0. PlanInv'
  BY PlanStep DEF PlanTypes
<1> USE <1>0
<1>1. ASSUME NEW m \in Mods, Plan!toggleInstallQueue(m) PROVE PlanTypes'
  <2>0. Plan!Click /\ UNCHANGED <<Plan!tablet, Plan!known, Plan!asked>> /\ starring' = starring
    BY <1>1 DEF Plan!toggleInstallQueue, Plan!CanStage, Plan!OnlyQueues
  <2>1. /\ installQueue \ {m} \in SUBSET Mods /\ Plan!queueInstalls({m}) \in SUBSET Mods
        /\ uninstallQueue \in SUBSET Mods /\ upgradeQueue \in SUBSET Mods
    BY DEF PlanTypes, PlanQueues, Plan!queueInstalls
  <2>2. CASE Plan!Queue(installQueue \ {m}, uninstallQueue, upgradeQueue)
    BY <2>0, <2>2, <2>1, PlanStaged
  <2>3. CASE Plan!Queue(Plan!queueInstalls({m}), uninstallQueue, upgradeQueue)
    BY <2>0, <2>3, <2>1, PlanStaged
  <2> QED BY <1>1, <2>2, <2>3 DEF Plan!toggleInstallQueue
<1>2. ASSUME NEW m \in Mods, Plan!toggleUninstallQueue(m) PROVE PlanTypes'
  <2>0. Plan!Click /\ UNCHANGED <<Plan!tablet, Plan!known, Plan!asked>> /\ starring' = starring
    BY <1>2 DEF Plan!toggleUninstallQueue, Plan!CanStage, Plan!OnlyQueues
  <2>1. /\ installQueue \in SUBSET Mods /\ uninstallQueue \ {m} \in SUBSET Mods /\ upgradeQueue \in SUBSET Mods
        /\ Plan!addToUninstallQueue({m}) \in SUBSET Mods /\ upgradeQueue \ {m} \in SUBSET Mods
    BY DEF PlanTypes, PlanQueues, Plan!addToUninstallQueue
  <2>2. CASE Plan!Queue(installQueue, uninstallQueue \ {m}, upgradeQueue)
    BY <2>0, <2>2, <2>1, PlanStaged
  <2>3. CASE Plan!Queue(installQueue, Plan!addToUninstallQueue({m}), upgradeQueue \ {m})
    BY <2>0, <2>3, <2>1, PlanStaged
  <2> QED BY <1>2, <2>2, <2>3 DEF Plan!toggleUninstallQueue
<1>3. ASSUME NEW m \in Mods, Plan!toggleUpgradeQueue(m) PROVE PlanTypes'
  <2>0. Plan!Click /\ UNCHANGED <<Plan!tablet, Plan!known, Plan!asked>> /\ starring' = starring
    BY <1>3 DEF Plan!toggleUpgradeQueue, Plan!CanStage, Plan!OnlyQueues
  <2>1. /\ installQueue \in SUBSET Mods /\ uninstallQueue \in SUBSET Mods
        /\ upgradeQueue \ {m} \in SUBSET Mods /\ upgradeQueue \cup {m} \in SUBSET Mods
    BY DEF PlanTypes, PlanQueues
  <2>2. CASE Plan!Queue(installQueue, uninstallQueue, upgradeQueue \ {m})
    BY <2>0, <2>2, <2>1, PlanStaged
  <2>3. CASE Plan!Queue(installQueue, uninstallQueue, upgradeQueue \cup {m})
    BY <2>0, <2>3, <2>1, PlanStaged
  <2> QED BY <1>3, <2>2, <2>3 DEF Plan!toggleUpgradeQueue
<1>4. ASSUME NEW m \in Mods, Plan!installStarred(m) PROVE PlanTypes'
  <2>0. PlanTablet' /\ PlanKnown' /\ PlanQueues' /\ PlanAsked' /\ PlanFound' /\ PlanTaken' /\ solves' \subseteq Plan!Check /\ PlanApplying' /\ PlanResult' /\ checked' \in Plan!Check \cup {None} /\ modPresses' \in 0..MaxClicks
    <3>1. UNCHANGED <<Plan!tablet, Plan!known, Plan!queues, Plan!asked, Plan!solved, Plan!applying, plan, Plan!result, checked>> /\ Plan!Click
      BY <1>4 DEF Plan!installStarred, Plan!CanStage, Plan!applying
    <3> QED BY <3>1, PlanSame
  <2> QED BY <1>4, <2>0 DEF Plan!installStarred, PlanTypes
<1>5. CASE Plan!handleUpdateAll
  <2>0. Plan!Click /\ UNCHANGED <<Plan!tablet, Plan!known, Plan!asked>> /\ starring' = starring
    BY <1>5 DEF Plan!handleUpdateAll, Plan!CanStage, Plan!OnlyQueues
  <2>1. CASE Plan!Queue(installQueue, uninstallQueue, upgradeQueue \cup (candidates \ uninstallQueue))
    BY <2>0, <2>1, PlanStaged DEF PlanTypes, PlanQueues, PlanKnown, Plan!queueInstalls, Plan!addToUninstallQueue, Plan!incompatible
  <2> QED BY <1>5, <2>1 DEF Plan!handleUpdateAll
<1>6. CASE Plan!StageRemovals
  <2>0. Plan!Click /\ UNCHANGED <<Plan!tablet, Plan!known, Plan!asked>> /\ starring' = starring
    BY <1>6 DEF Plan!StageRemovals, Plan!CanStage, Plan!OnlyQueues
  <2>1. \E removals \in SUBSET Mods : Plan!Queue(installQueue, removals, upgradeQueue)
    <3>1. Plan!addToUninstallQueue(Plan!incompatible) \in SUBSET Mods
      BY DEF PlanTypes, PlanQueues, PlanKnown, Plan!addToUninstallQueue, Plan!incompatible
    <3>2. \A m \in Plan!incompatible : Plan!addToUninstallQueue({m}) \in SUBSET Mods
      BY DEF PlanTypes, PlanQueues, PlanKnown, Plan!addToUninstallQueue, Plan!incompatible
    <3>3. \A m \in uninstallQueue : uninstallQueue \ {m} \in SUBSET Mods
      BY DEF PlanTypes, PlanQueues
    <3> QED BY <1>6, <3>1, <3>2, <3>3 DEF Plan!StageRemovals
  <2>2. installQueue \in SUBSET Mods /\ upgradeQueue \in SUBSET Mods
    BY DEF PlanTypes, PlanQueues
  <2> QED BY <2>0, <2>1, <2>2, PlanStaged
<1>7. CASE Plan!clearAllQueues
  <2>0. /\ Plan!Click /\ UNCHANGED <<Plan!tablet, Plan!known, Plan!asked>> /\ starring' = starring
        /\ Plan!Queue({}, {}, {})
    BY <1>7 DEF Plan!clearAllQueues, Plan!OnlyQueues
  <2> QED BY <2>0, PlanStaged
<1>8. CASE Plan!StarredQueued
  <2>0. /\ UNCHANGED <<Plan!tablet, Plan!known, Plan!asked, modPresses>> /\ starring' = None
        /\ Plan!Queue(Plan!queueInstalls({starring}), uninstallQueue, upgradeQueue)
    BY <1>8 DEF Plan!StarredQueued
  <2>1. Plan!queueInstalls({starring}) \in SUBSET Mods /\ uninstallQueue \in SUBSET Mods /\ upgradeQueue \in SUBSET Mods
    BY <1>8 DEF Plan!StarredQueued, Plan!queueInstalls, PlanTypes, PlanQueues
  <2> QED BY <2>0, <2>1, PlanStaged
<1>9. ASSUME NEW c \in solves, Plan!InstallChecked(c) PROVE PlanTypes'
  <2>0. /\ PlanTablet' /\ PlanKnown' /\ PlanQueues' /\ PlanAsked' /\ PlanApplying' /\ PlanResult'
        /\ starring' \in Mods \cup {None} /\ modPresses' \in 0..MaxClicks
    <3>1. /\ UNCHANGED <<Plan!tablet, Plan!known, Plan!queues, Plan!asked, starring, Plan!applying, Plan!result, modPresses>>
          /\ UNCHANGED plan
      BY <1>9 DEF Plan!InstallChecked, Plan!Unasked, Plan!applying
    <3> QED BY <3>1, PlanSame
  <2>1. PlanFound' /\ checked' \in Plan!Check \cup {None}
    <3>1. c = Plan!InstallDeps /\ c \in Plan!Check
      BY <1>9 DEF Plan!InstallChecked, PlanTypes
    <3> DEFINE s == Plan!Solution(c)
    <3>2. /\ s.answers \in Plan!Answers /\ s.held \subseteq Mods /\ s.tree \subseteq Mods
          /\ s.conflict \in BOOLEAN /\ s.open \subseteq Plan!Questions
      BY <3>1, PlanSolution
    <3>3. Plan!installRequest({}, answers) \subseteq Mods
      BY PlanRequests DEF PlanTypes, PlanFound
    <3>4. \/ answers' = s.answers /\ UNCHANGED <<waiting, openQuestions, queueConflict, implied, installSolving, checked>>
          \/ /\ UNCHANGED answers /\ waiting' = s.held /\ openQuestions' = s.open /\ queueConflict' = s.conflict
             /\ implied' = (IF s.conflict THEN Plan!installRequest({}, answers) ELSE s.tree) \ (installQueue \cup modsInstalled)
             /\ installSolving' = FALSE /\ checked' = c
      BY <1>9 DEF Plan!InstallChecked
    <3> HIDE DEF s
    <3> QED BY <3>1, <3>2, <3>3, <3>4 DEF PlanTypes, PlanFound
  <2>2. PlanTaken' /\ solves' \subseteq Plan!Check
    BY <1>9, <2>0, <2>1, PlanEffects, PlanAsks DEF Plan!InstallChecked, PlanTypes
  <2> QED BY <2>0, <2>1, <2>2 DEF PlanTypes
<1>10. ASSUME NEW c \in solves, Plan!InstallCheckFails(c) PROVE PlanTypes'
  <2>0. /\ PlanTablet' /\ PlanKnown' /\ PlanQueues' /\ PlanAsked' /\ PlanApplying' /\ PlanResult'
        /\ starring' \in Mods \cup {None} /\ modPresses' \in 0..MaxClicks
    <3>1. /\ UNCHANGED <<Plan!tablet, Plan!known, Plan!queues, Plan!asked, starring, Plan!applying, Plan!result, modPresses>>
          /\ UNCHANGED plan
      BY <1>10 DEF Plan!InstallCheckFails, Plan!Unasked, Plan!applying
    <3> QED BY <3>1, PlanSame
  <2>1. PlanFound' /\ PlanTaken' /\ solves' \subseteq Plan!Check /\ checked' \in Plan!Check \cup {None}
    BY <1>10 DEF Plan!InstallCheckFails, PlanTypes, PlanFound, PlanTaken
  <2> QED BY <2>0, <2>1 DEF PlanTypes
<1>11. ASSUME NEW c \in solves, Plan!RemovalChecked(c) PROVE PlanTypes'
  <2>0. /\ PlanTablet' /\ PlanKnown' /\ PlanQueues' /\ PlanAsked' /\ PlanApplying' /\ PlanResult'
        /\ starring' \in Mods \cup {None} /\ modPresses' \in 0..MaxClicks
    <3>1. /\ UNCHANGED <<Plan!tablet, Plan!known, Plan!queues, Plan!asked, starring, Plan!applying, Plan!result, modPresses>>
          /\ UNCHANGED plan
      BY <1>11 DEF Plan!RemovalChecked, Plan!Unasked, Plan!applying
    <3> QED BY <3>1, PlanSame
  <2>1. PlanFound' /\ solves' \subseteq Plan!Check /\ checked' \in Plan!Check \cup {None}
    BY <1>11 DEF Plan!RemovalChecked, PlanTypes, PlanFound
  <2>2. c.removals = uninstallQueue /\ c.installed = modsInstalled
    BY <1>11 DEF Plan!RemovalChecked, Plan!RemovalDeps
  <2>3. Plan!SimulateUninstall(c.removals, c.installed) \subseteq Mods
    BY <2>2 DEF PlanTypes, PlanQueues, PlanKnown, Plan!SimulateUninstall
  <2>4. PlanTaken'
    BY <1>11, <2>3 DEF Plan!RemovalChecked, PlanTaken
  <2> QED BY <2>0, <2>1, <2>4 DEF PlanTypes
<1>12. ASSUME NEW q \in Plan!Questions, Plan!OpenQuestion(q) PROVE PlanTypes'
  <2>0. PlanTablet' /\ PlanKnown' /\ PlanQueues' /\ PlanFound' /\ PlanTaken' /\ solves' \subseteq Plan!Check /\ checked' \in Plan!Check \cup {None} /\ starring' \in Mods \cup {None} /\ PlanApplying' /\ PlanResult' /\ modPresses' \in 0..MaxClicks
    <3>1. UNCHANGED <<Plan!tablet, Plan!known, Plan!queues, Plan!solved, checked, starring, Plan!applying, plan, Plan!result, modPresses>>
      BY <1>12 DEF Plan!OpenQuestion, Plan!ShowsQuestions, Plan!applying
    <3> QED BY <3>1, PlanSame
  <2>1. PlanAsked'
    BY <1>12 DEF Plan!OpenQuestion, PlanTypes, PlanAsked
  <2> QED BY <2>0, <2>1, <1>0 DEF PlanTypes
<1>13. CASE Plan!changeProvider
  <2>0. PlanTablet' /\ PlanKnown' /\ PlanQueues' /\ PlanFound' /\ PlanTaken' /\ solves' \subseteq Plan!Check /\ checked' \in Plan!Check \cup {None} /\ starring' \in Mods \cup {None} /\ PlanApplying' /\ PlanResult' /\ modPresses' \in 0..MaxClicks
    <3>1. UNCHANGED <<Plan!tablet, Plan!known, Plan!queues, Plan!solved, checked, starring, Plan!applying, plan, Plan!result, modPresses>>
      BY <1>13 DEF Plan!changeProvider, Plan!ShowsQuestions, Plan!applying
    <3> QED BY <3>1, PlanSame
  <2>1. PlanAsked'
    BY <1>13 DEF Plan!changeProvider, PlanTypes, PlanAsked
  <2> QED BY <2>0, <2>1 DEF PlanTypes
<1>14. CASE Plan!ProvidersFound
  <2>0. PlanTablet' /\ PlanKnown' /\ PlanQueues' /\ PlanFound' /\ PlanTaken' /\ solves' \subseteq Plan!Check /\ checked' \in Plan!Check \cup {None} /\ starring' \in Mods \cup {None} /\ PlanApplying' /\ PlanResult' /\ modPresses' \in 0..MaxClicks
    <3>1. UNCHANGED <<Plan!tablet, Plan!known, Plan!queues, Plan!solved, checked, starring, Plan!applying, plan, Plan!result, modPresses>>
      BY <1>14 DEF Plan!ProvidersFound, Plan!applying
    <3> QED BY <3>1, PlanSame
  <2>1. PlanAsked'
    BY <1>14 DEF Plan!ProvidersFound, PlanTypes, PlanAsked, Plan!Questions
  <2> QED BY <2>0, <2>1 DEF PlanTypes
<1>15. CASE Plan!answerQuestion
  <2>0. PlanTablet' /\ PlanKnown' /\ PlanQueues' /\ starring' \in Mods \cup {None} /\ PlanApplying' /\ PlanResult' /\ modPresses' \in 0..MaxClicks
    <3>1. UNCHANGED <<Plan!tablet, Plan!known, Plan!queues, starring, Plan!applying, plan, Plan!result, modPresses>>
      BY <1>15 DEF Plan!answerQuestion, Plan!applying
    <3> QED BY <3>1, PlanSame
  <2>1. PlanAsked'
    BY <1>15 DEF Plan!answerQuestion, PlanTypes, PlanAsked
  <2>2. \E new \in Plan!Answers, rest \in SUBSET Plan!Questions : Plan!Answered(new, rest)
    <3>1. \A x : openQuestions \ {x} \in SUBSET Plan!Questions
      BY DEF PlanTypes, PlanFound
    <3>2. \A p \in Providers : [answers EXCEPT !.provider = p] \in Plan!Answers
      BY DEF PlanTypes, PlanFound, Plan!Answers
    <3>3. ASSUME NEW yes \in BOOLEAN PROVE [answers EXCEPT !.settled = TRUE, !.companion = yes] \in Plan!Answers
      BY DEF PlanTypes, PlanFound, Plan!Answers
    <3>4. CASE askedQuestion = "provider" /\ \E p \in Providers : Plan!Answered([answers EXCEPT !.provider = p], openQuestions \ {"provider"})
      BY <3>1, <3>2, <3>4
    <3>5. CASE \E yes \in BOOLEAN : Plan!Answered([answers EXCEPT !.settled = TRUE, !.companion = yes], openQuestions \ {"gate"})
      BY <3>1, <3>3, <3>5
    <3> QED BY <1>15, <3>4, <3>5 DEF Plan!answerQuestion
  <2>3. UNCHANGED <<online, modsInstalled, candidates, modsMismatch, installQueue, uninstallQueue, upgradeQueue>>
    BY <1>15 DEF Plan!answerQuestion, Plan!known, Plan!queues
  <2>4. PlanFound' /\ PlanTaken' /\ solves' \subseteq Plan!Check /\ checked' = checked
    BY <2>2, <2>3, PlanAnswered
  <2> QED BY <2>0, <2>1, <2>4 DEF PlanTypes
<1>16. CASE Plan!CancelQuestion
  <2>0. PlanTablet' /\ PlanKnown' /\ PlanQueues' /\ PlanFound' /\ PlanTaken' /\ solves' \subseteq Plan!Check /\ checked' \in Plan!Check \cup {None} /\ starring' \in Mods \cup {None} /\ PlanApplying' /\ PlanResult' /\ modPresses' \in 0..MaxClicks
    <3>1. UNCHANGED <<Plan!tablet, Plan!known, Plan!queues, Plan!solved, checked, starring, Plan!applying, plan, Plan!result, modPresses>>
      BY <1>16 DEF Plan!CancelQuestion, Plan!applying
    <3> QED BY <3>1, PlanSame
  <2>1. PlanAsked'
    BY <1>16 DEF Plan!CancelQuestion, PlanTypes, PlanAsked
  <2> QED BY <2>0, <2>1 DEF PlanTypes
<1>17. CASE Plan!dropCompanion
  <2>0. PlanTablet' /\ PlanKnown' /\ PlanQueues' /\ PlanAsked' /\ starring' \in Mods \cup {None} /\ PlanApplying' /\ PlanResult' /\ modPresses' \in 0..MaxClicks
    <3>1. UNCHANGED <<Plan!tablet, Plan!known, Plan!queues, Plan!asked, starring, Plan!applying, plan, Plan!result, modPresses>>
      BY <1>17 DEF Plan!dropCompanion, Plan!ShowsQuestions, Plan!applying
    <3> QED BY <3>1, PlanSame
  <2>1. [answers EXCEPT !.companion = FALSE] \in Plan!Answers /\ openQuestions \in SUBSET Plan!Questions
    BY DEF PlanTypes, PlanFound, Plan!Answers
  <2>2. UNCHANGED <<online, modsInstalled, candidates, modsMismatch, installQueue, uninstallQueue, upgradeQueue>>
    BY <1>17 DEF Plan!dropCompanion, Plan!known, Plan!queues
  <2>3. Plan!Answered([answers EXCEPT !.companion = FALSE], openQuestions)
    BY <1>17 DEF Plan!dropCompanion
  <2>4. PlanFound' /\ PlanTaken' /\ solves' \subseteq Plan!Check /\ checked' = checked
    BY <2>1, <2>2, <2>3, PlanAnswered
  <2> QED BY <2>0, <2>4 DEF PlanTypes
<1>18. CASE Plan!handleApplyPlan
  BY <1>18, PlanTypesMade
<1>19. CASE Plan!NextPhase
  <2>0. PlanTablet' /\ PlanKnown' /\ PlanQueues' /\ PlanAsked' /\ starring' \in Mods \cup {None} /\ modPresses' \in 0..MaxClicks
    <3>1. UNCHANGED <<Plan!tablet, Plan!known, Plan!queues, Plan!asked, starring, modPresses>>
      BY <1>19 DEF Plan!NextPhase, Plan!OnlyPlan, Plan!applying
    <3> QED BY <3>1, PlanSame
  <2>1. CASE Plan!Over("succeeded") \/ Plan!Over("stopped")
    BY <2>0, <2>1, PlanOver DEF PlanTypes
  <2>2. CASE /\ pc = "next" /\ pc' \in {"candidates", "running"}
             /\ UNCHANGED <<plan, stopRequested, done, interrupted, Plan!result, Plan!solved, checked>>
    <3>1. PlanApplying'
      BY <2>2 DEF PlanTypes, PlanApplying
    <3>2. PlanFound' /\ PlanTaken' /\ solves' \subseteq Plan!Check /\ checked' \in Plan!Check \cup {None} /\ PlanResult'
      BY <2>2, PlanSame
    <3> QED BY <2>0, <3>1, <3>2 DEF PlanTypes
  <2> QED BY <1>19, <2>1, <2>2 DEF Plan!NextPhase, Plan!OnlyPlan
<1>20. CASE Plan!CandidatesFound
  <2>0. PlanTablet' /\ PlanKnown' /\ PlanQueues' /\ PlanAsked' /\ PlanFound' /\ PlanTaken' /\ solves' \subseteq Plan!Check /\ checked' \in Plan!Check \cup {None} /\ starring' \in Mods \cup {None} /\ modPresses' \in 0..MaxClicks
    <3>1. UNCHANGED <<Plan!tablet, Plan!known, Plan!queues, Plan!asked, Plan!solved, checked, starring, modPresses>>
      BY <1>20 DEF Plan!CandidatesFound, Plan!OnlyPlan, Plan!applying
    <3> QED BY <3>1, PlanSame
  <2>1. plan \in Plan!Plan /\ outdated \in SUBSET Mods
    BY <1>20 DEF Plan!CandidatesFound, PlanTypes, PlanApplying, PlanTablet
  <2>2. plan' \in Plan!Plan
    BY <1>20, <2>1, PlanNames DEF Plan!CandidatesFound
  <2>3. PlanApplying' /\ PlanResult'
    BY <1>20, <2>2 DEF Plan!CandidatesFound, Plan!result, PlanTypes, PlanApplying, PlanResult
  <2> QED BY <2>0, <2>3 DEF PlanTypes
<1>21. CASE Plan!Operation
  <2>1. /\ plan \in Plan!Plan /\ plan.order \in Seq(Plan!Phases) /\ plan.order # <<>>
        /\ Plan!Names(plan, Head(plan.order)) \subseteq Mods
    <3>1. plan \in Plan!Plan /\ plan.order # <<>>
      BY <1>21 DEF Plan!Operation, PlanTypes, PlanApplying, PlanInv, ApplyInv, OrderInv
    <3>2. Head(plan.order) \in Plan!Phases
      BY <3>1, PlanNames
    <3> QED BY <3>1, <3>2, PlanNames
  <2>2. PICK outcome \in {"succeeded", "failed", "stopped"} : \E S, told :
          /\ S \subseteq Plan!Names(plan, Head(plan.order)) /\ told \subseteq S
          /\ Plan!PhaseEnds(outcome, S, told)
    BY <1>21 DEF Plan!Operation
  <2>3. PICK S, told : /\ S \subseteq Plan!Names(plan, Head(plan.order)) /\ told \subseteq S
                      /\ Plan!PhaseEnds(outcome, S, told)
    BY <2>2
  <2>4. S \in SUBSET Mods /\ told \in SUBSET Mods /\ Head(plan.order) \in Plan!Phases
    BY <2>1, <2>3
  <2>5. PlanTablet'
    BY <2>3, <2>4, PlanTabletAfter DEF Plan!PhaseEnds
  <2>6. PlanKnown' /\ PlanQueues' /\ PlanAsked' /\ PlanResult' /\ starring' = starring /\ modPresses' = modPresses /\ checked' = checked
    BY <2>3 DEF Plan!PhaseEnds, Plan!unqueue, Plan!asked, Plan!result, PlanTypes, PlanKnown, PlanQueues, PlanAsked, PlanResult
  <2>7. PlanApplying'
    BY <2>1, <2>3, <2>4 DEF Plan!PhaseEnds, PlanTypes, PlanApplying
  <2>8. PlanFound' /\ PlanTaken'
    BY <2>3, PlanEffects DEF Plan!PhaseEnds, PlanTypes
  <2>9. solves' \subseteq Plan!Check
    BY <2>3, <2>6, <2>8, PlanAsks DEF Plan!PhaseEnds, PlanTypes
  <2> QED BY <2>5, <2>6, <2>7, <2>8, <2>9 DEF PlanTypes
<1>22. CASE Plan!Refreshed
  <2>0. PlanTablet' /\ PlanAsked' /\ starring' \in Mods \cup {None} /\ modPresses' \in 0..MaxClicks
    <3>1. UNCHANGED <<Plan!tablet, Plan!asked, starring, modPresses>>
      BY <1>22 DEF Plan!Refreshed, Plan!applying
    <3> QED BY <3>1, PlanSame
  <2>1. PlanKnown' /\ PlanQueues'
    BY <1>22 DEF Plan!Refreshed, Plan!Known, Plan!queues, PlanTypes, PlanKnown, PlanQueues, PlanTablet
  <2>2. CASE Plan!Over(pc) /\ pc \in {"succeeded", "stopped", "failed"}
    BY <2>0, <2>1, <2>2, PlanOver DEF PlanTypes
  <2>3. CASE /\ pc = "succeeded" /\ pc' = "next" /\ plan' = [plan EXCEPT !.order = Tail(@)]
             /\ Plan!InstallEffect /\ Plan!RemovalEffect /\ Plan!Ask
             /\ UNCHANGED <<checked, stopRequested, done, interrupted, Plan!result>>
    <3>1. plan \in Plan!Plan /\ plan.order # <<>> /\ plan.order \in Seq(Plan!Phases)
      BY <2>3, PlanNames DEF PlanTypes, PlanApplying, PlanInv, ApplyInv, OrderInv
    <3>2. Tail(plan.order) \in Seq(Plan!Phases)
      BY <3>1
    <3>3. plan' = [plan EXCEPT !.order = Tail(plan.order)]
      BY <2>3, <3>1 DEF Plan!Plan
    <3>4. plan' \in Plan!Plan
      BY <3>1, <3>2, <3>3, PlanNames
    <3>5. PlanApplying' /\ PlanResult'
      BY <2>3, <3>4 DEF Plan!result, PlanTypes, PlanApplying, PlanResult
    <3>6. PlanFound' /\ PlanTaken'
      BY <2>3, PlanEffects DEF PlanTypes
    <3>7. solves' \subseteq Plan!Check
      BY <2>1, <2>3, <3>6, PlanAsks DEF PlanTypes
    <3>8. checked' = checked
      BY <2>3
    <3> QED BY <2>0, <2>1, <3>5, <3>6, <3>7, <3>8 DEF PlanTypes
  <2> QED BY <1>22, <2>2, <2>3 DEF Plan!Refreshed
<1>23. CASE Plan!stopApply
  <2>0. PlanTablet' /\ PlanKnown' /\ PlanQueues' /\ PlanAsked' /\ PlanFound' /\ PlanTaken' /\ solves' \subseteq Plan!Check /\ checked' \in Plan!Check \cup {None} /\ starring' \in Mods \cup {None} /\ PlanResult' /\ modPresses' \in 0..MaxClicks
    <3>1. UNCHANGED <<Plan!tablet, Plan!known, Plan!queues, Plan!asked, Plan!solved, checked, starring, plan, Plan!result>> /\ Plan!Click
      BY <1>23 DEF Plan!stopApply, Plan!applying
    <3> QED BY <3>1, PlanSame
  <2>1. PlanApplying'
    BY <1>23 DEF Plan!stopApply, PlanTypes, PlanApplying
  <2> QED BY <2>0, <2>1 DEF PlanTypes
<1>24. CASE Plan!finishApply
  <2>0. PlanTablet' /\ PlanKnown' /\ PlanQueues' /\ PlanAsked' /\ PlanFound' /\ PlanTaken' /\ solves' \subseteq Plan!Check /\ checked' \in Plan!Check \cup {None} /\ starring' \in Mods \cup {None} /\ modPresses' \in 0..MaxClicks
    <3>1. UNCHANGED <<Plan!tablet, Plan!known, Plan!queues, Plan!asked, Plan!solved, checked, starring>> /\ Plan!Click
      BY <1>24 DEF Plan!finishApply, Plan!applying
    <3> QED BY <3>1, PlanSame
  <2>1. PlanResult' /\ PlanApplying'
    BY <1>24 DEF Plan!finishApply, Plan!dismissApplyResult, PlanTypes, PlanApplying, PlanResult, PlanInv, ApplyInv
  <2> QED BY <2>0, <2>1 DEF PlanTypes
<1>25. CASE Plan!ConnectionLost
  <2>1. PlanKnown' /\ PlanQueues' /\ PlanAsked' /\ PlanResult' /\ starring' = starring /\ modPresses' \in 0..MaxClicks
    BY <1>25, PlanSame DEF Plan!ConnectionLost, Plan!asked, Plan!result, PlanTypes, PlanKnown, PlanQueues, PlanAsked, PlanResult
  <2>2. PlanFound' /\ PlanTaken' /\ solves' \subseteq Plan!Check /\ checked' = checked
    BY <1>25, <2>1, PlanResolves DEF Plan!ConnectionLost
  <2>3. PlanApplying'
    BY <1>25 DEF Plan!ConnectionLost, PlanTypes, PlanApplying
  <2>4. PlanTablet'
    <3>1. CASE UNCHANGED Plan!tablet
      BY <3>1, PlanSame
    <3>2. CASE pc = "running" /\ \E S \in SUBSET Plan!Names(plan, Head(plan.order)) : Plan!TabletAfter(Head(plan.order), S)
      <4>1. plan \in Plan!Plan /\ plan.order # <<>>
        BY <3>2 DEF PlanTypes, PlanApplying, PlanInv, ApplyInv, OrderInv
      <4>2. Head(plan.order) \in Plan!Phases
        BY <4>1, PlanNames
      <4>3. Plan!Names(plan, Head(plan.order)) \subseteq Mods
        BY <4>1, <4>2, PlanNames
      <4> QED BY <3>2, <4>2, <4>3, PlanTabletAfter
    <3> QED BY <1>25, <3>1, <3>2 DEF Plan!ConnectionLost
  <2> QED BY <2>1, <2>2, <2>3, <2>4 DEF PlanTypes
<1>26. CASE Plan!ConnectionRestored
  <2>0. PlanTablet' /\ PlanAsked' /\ starring' \in Mods \cup {None} /\ PlanApplying' /\ PlanResult' /\ modPresses' \in 0..MaxClicks
    <3>1. UNCHANGED <<Plan!tablet, Plan!asked, starring, Plan!applying, plan, Plan!result>> /\ Plan!Click
      BY <1>26 DEF Plan!ConnectionRestored, Plan!applying
    <3> QED BY <3>1, PlanSame
  <2>1. PlanKnown' /\ PlanQueues'
    BY <1>26 DEF Plan!ConnectionRestored, PlanTypes, PlanTablet, PlanKnown, PlanQueues
  <2>2. PlanFound' /\ PlanTaken' /\ solves' \subseteq Plan!Check /\ checked' = checked
    BY <1>26, <2>1, PlanResolves DEF Plan!ConnectionRestored
  <2> QED BY <2>0, <2>1, <2>2 DEF PlanTypes
<1> QED BY <1>1, <1>2, <1>3, <1>4, <1>5, <1>6, <1>7, <1>8, <1>9, <1>10, <1>11, <1>12, <1>13,
          <1>14, <1>15, <1>16, <1>17, <1>18, <1>19, <1>20, <1>21, <1>22, <1>23, <1>24, <1>25,
          <1>26
    DEF Plan!Next

LEMMA PlanTypesStay == PlanTypes /\ UNCHANGED planVars => PlanTypes'
<1> SUFFICES ASSUME PlanTypes, UNCHANGED planVars PROVE PlanTypes'
  OBVIOUS
<1>1. PlanInv'
  BY PlanKept DEF PlanTypes
<1>2. UNCHANGED <<Plan!tablet, Plan!known, Plan!queues, Plan!asked, Plan!solved, Plan!applying, plan, Plan!result,
                  starring, modPresses, checked>>
  BY DEF planVars, Plan!tablet, Plan!known, Plan!queues, Plan!asked, Plan!solved, Plan!applying, Plan!result
<1> QED BY <1>1, <1>2, PlanSame DEF PlanTypes

-----------------------------------------------------------------------------
(* The page                                                                 *)

EveryPart ==
  /\ part \in Parts
  /\ BrowserInv /\ PlanTypes /\ SessionTypes /\ StepsTypes /\ OsTypes /\ CheckTypes
  /\ BackupInv /\ EditorInv /\ ImportTypes /\ SettingsInv /\ PanesInv

LEMMA PartMoves ==
  /\ Next => /\ UNCHANGED part
             /\ UNCHANGED browserVars \/ Browser!Next
             /\ UNCHANGED planVars \/ Plan!Next
             /\ UNCHANGED sessionVars \/ Sessions!Next
             /\ UNCHANGED stepsVars \/ Steps!Next
             /\ UNCHANGED managerVars \/ Manager!Next
             /\ UNCHANGED checkVars \/ Check!Next
             /\ UNCHANGED backupVars \/ Archiver!Next
             /\ UNCHANGED editorVars \/ Editor!Next
             /\ UNCHANGED importVars \/ Importer!Next
             /\ UNCHANGED settingsVars \/ Prefs!Next
             /\ UNCHANGED panesVars \/ Panes!Next
  BY DEF Next, Only

LEMMA EveryPartInit == Init => EveryPart
<1> SUFFICES ASSUME Init PROVE EveryPart
  OBVIOUS
<1>1. part \in Parts
  BY DEF Init
<1> QED BY <1>1, BrowserInit, PlanTypesInit, SessionTypesInit, StepsTypesInit, OsTypesInit, CheckInit,
          BackupInit, EditorInit, ImportTypesInit, SettingsInit, PanesInit DEF EveryPart

LEMMA EveryPartStep == EveryPart /\ [Next]_vars => EveryPart'
<1>1. EveryPart /\ Next => EveryPart'
  <2> SUFFICES ASSUME EveryPart, Next PROVE EveryPart'
    OBVIOUS
  <2>1. part' \in Parts
    BY PartMoves DEF EveryPart
  <2>2. BrowserInv' /\ PlanTypes' /\ SessionTypes' /\ StepsTypes'
    BY PartMoves, BrowserStep, BrowserStay, PlanTypesStep, PlanTypesStay, SessionTypesStep,
       SessionTypesStay, StepsTypesStep, StepsTypesStay DEF EveryPart
  <2>3. OsTypes' /\ CheckTypes' /\ BackupInv' /\ EditorInv'
    BY PartMoves, OsTypesStep, OsTypesStay, CheckStep, CheckStay, BackupStep, BackupStay, EditorStep,
       EditorStay DEF EveryPart
  <2>4. ImportTypes' /\ SettingsInv' /\ PanesInv'
    BY PartMoves, ImportTypesStep, ImportTypesStay, SettingsStep, SettingsStay, PanesStep, PanesStay
    DEF EveryPart
  <2> QED BY <2>1, <2>2, <2>3, <2>4 DEF EveryPart
<1>2. EveryPart /\ UNCHANGED vars => EveryPart'
  <2> SUFFICES ASSUME EveryPart, UNCHANGED vars PROVE EveryPart'
    OBVIOUS
  <2>1. /\ UNCHANGED part /\ UNCHANGED browserVars /\ UNCHANGED planVars /\ UNCHANGED sessionVars
        /\ UNCHANGED stepsVars /\ UNCHANGED managerVars /\ UNCHANGED checkVars /\ UNCHANGED backupVars
        /\ UNCHANGED editorVars /\ UNCHANGED importVars /\ UNCHANGED settingsVars /\ UNCHANGED panesVars
    BY DEF vars
  <2> QED BY <2>1, BrowserStay, PlanTypesStay, SessionTypesStay, StepsTypesStay, OsTypesStay, CheckStay,
            BackupStay, EditorStay, ImportTypesStay, SettingsStay, PanesStay DEF EveryPart
<1> QED BY <1>1, <1>2

(* Whatever the user, the tablet and the services do, every part of the      *)
(* page keeps to its types, the part that moves among them: no handler, of   *)
(* any tab, page or dialog, leaves a value that another cannot read.         *)
THEOREM PageKeepsItsTypes == Spec => []PageTypeOK
<1>1. EveryPart => PageTypeOK
  <2> SUFFICES ASSUME EveryPart PROVE PageTypeOK
    OBVIOUS
  <2>1. /\ Browser!FilesTypeOK /\ Plan!PlanTypeOK /\ Sessions!SessionTypeOK /\ Steps!SystemTypeOK
        /\ Manager!OsTypeOK /\ Check!CheckTypeOK /\ Archiver!BackupTypeOK /\ Editor!ConfigTypeOK
        /\ Importer!ImportTypeOK /\ Prefs!SettingsTypeOK /\ Panes!PanesTypeOK
    BY PlanTypesMean, SessionTypesMean, StepsTypesMean, OsTypesMean, ImportTypesMean
    DEF EveryPart, BrowserInv, CheckTypes, BackupInv, EditorInv, SettingsInv, PanesInv
  <2>2. part \in Parts
    BY DEF EveryPart
  <2> QED BY <2>1, <2>2, PartsAssumption DEF PageTypeOK
<1> QED BY <1>1, EveryPartInit, EveryPartStep, PTL DEF Spec

===============================================================================
