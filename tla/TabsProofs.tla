------------------------------- MODULE TabsProofs ------------------------------
(* What TLAPS proves of the tabs of Page, which are the file browser, the    *)
(* System tab and the plans of the Mods tab, with the types of the System    *)
(* tab: for any folders, files, mods, commands and versions, and any number  *)
(* of handlers and clicks.                                                   *)
EXTENDS Page, SequenceTheorems, TLAPS

LEMMA FileConstants ==
  /\ Browser!Paths = Folders \cup Files /\ None \notin Browser!Paths
  BY PageAssumption DEF Browser!FileBrowserAssumption, Browser!Paths

LEMMA FilesSteps ==
  /\ Next => UNCHANGED browserVars \/ Browser!Next
  /\ UNCHANGED vars => UNCHANGED browserVars
  /\ UNCHANGED browserVars <=> UNCHANGED Browser!vars
  BY DEF Next, Only, vars, browserVars, Browser!vars, Browser!tablet, Browser!shown, Browser!selected,
         Browser!dialogs

(* What a step may do to the folder that is shown: nothing, put what is in   *)
(* another in its place, or clear it.                                       *)
LEMMA ShownStep ==
  Browser!Next =>
    \/ UNCHANGED <<currentPath, files>>
    \/ files' = {}
    \/ files' = Browser!Listing(currentPath')
<1> SUFFICES ASSUME Browser!Next
             PROVE  \/ UNCHANGED <<currentPath, files>> \/ files' = {}
                    \/ files' = Browser!Listing(currentPath')
  OBVIOUS
<1> USE DEF Browser!shown, Browser!loadDirectory
<1>1. ASSUME NEW f \in Folders, Browser!LoadAnswered(f)
      PROVE  files' = Browser!Listing(currentPath')
  <2>1. Browser!Listing(currentPath') = Browser!Listing(f)
    BY <1>1 DEF Browser!LoadAnswered
  <2> QED BY <1>1, <2>1 DEF Browser!LoadAnswered
<1>2. \A f \in Folders :
        Browser!LoadFails(f) \/ Browser!Open(f) \/ Browser!handleCreateFolder(f)
          => UNCHANGED <<currentPath, files>>
  BY DEF Browser!LoadFails, Browser!Open, Browser!handleCreateFolder
<1>3. \A p \in Browser!Paths :
        Browser!handleLongPress(p) \/ Browser!handleToggleSelect(p) \/ Browser!initiateDelete({p})
          => UNCHANGED <<currentPath, files>>
  BY DEF Browser!handleLongPress, Browser!handleToggleSelect, Browser!initiateDelete
<1>4. \A p \in Files :
        Browser!initiateRename(p) \/ Browser!handleRename(p) \/ Browser!UploadFinishes(p)
          => UNCHANGED <<currentPath, files>>
  BY DEF Browser!initiateRename, Browser!handleRename, Browser!UploadFinishes
<1>5. (\/ Browser!ToggleHidden \/ Browser!StartSelecting \/ Browser!CancelSelection \/ Browser!handleStartMove
       \/ Browser!OpenNewFolder \/ Browser!handleUpload \/ Browser!handlePaste \/ Browser!Replace
       \/ Browser!handleDelete \/ Browser!ConfirmWarning \/ Browser!CancelDialog)
      => UNCHANGED <<currentPath, files>>
  BY DEF Browser!ToggleHidden, Browser!StartSelecting, Browser!CancelSelection, Browser!handleStartMove,
         Browser!OpenNewFolder, Browser!handleUpload, Browser!handlePaste, Browser!Replace,
         Browser!handleDelete, Browser!ConfirmWarning, Browser!CancelDialog
<1>6. \A j \in Slots : Browser!Handler(j) => UNCHANGED <<currentPath, files>>
  BY DEF Browser!Handler, Browser!MoveClears, Browser!MoveRenames, Browser!Deletes, Browser!MoveEnds,
         Browser!DeleteEnds, Browser!RenameEnds, Browser!CreateEnds
<1>7. Browser!ConnectionChanges => files' = {} \/ UNCHANGED <<currentPath, files>>
  BY DEF Browser!ConnectionChanges
<1>8. \A S : Browser!initiateDelete(S) => UNCHANGED <<currentPath, files>>
  BY DEF Browser!initiateDelete
<1> QED BY <1>1, <1>2, <1>3, <1>4, <1>5, <1>6, <1>7, <1>8 DEF Browser!Next

(* However the answers to several listings are ordered, the files that are   *)
(* shown are those of the folder whose path is shown.                       *)
THEOREM FilesAreOfTheirFolder == Spec => []ListingMatchesPath
<1>1. Init => ListingMatchesPath
  BY DEF Init, Browser!Init, ListingMatchesPath, Browser!ListingMatchesPath
<1>2. ListingMatchesPath /\ UNCHANGED browserVars => ListingMatchesPath'
  BY DEF browserVars, ListingMatchesPath, Browser!ListingMatchesPath
<1>3. ListingMatchesPath /\ Browser!Next => ListingMatchesPath'
  BY ShownStep DEF ListingMatchesPath, Browser!ListingMatchesPath, Browser!Listing
<1> QED BY <1>1, <1>2, <1>3, FilesSteps, PTL DEF Spec

-----------------------------------------------------------------------------
(* Deletions                                                                *)

Asking == deleteDialog' # deleteDialog /\ deleteDialog' # None /\ systemFileWarning = None
OnlyShown == deleteDialog' \subseteq Browser!displayFiles

LEMMA DeletionStep == Browser!Next /\ Asking => OnlyShown
<1> SUFFICES ASSUME Browser!Next, Asking PROVE OnlyShown
  OBVIOUS
<1> USE DEF Browser!dialogs
<1>1. \A S : Browser!initiateDelete(S) => deleteDialog' = deleteDialog \/ deleteDialog' = S
  BY DEF Browser!initiateDelete
<1>2. \A S \in SUBSET Browser!displayFiles : Browser!initiateDelete(S) => OnlyShown
  BY <1>1 DEF Asking, OnlyShown
<1>3. /\ Browser!selectedFiles \in SUBSET Browser!displayFiles
      /\ \A p \in Browser!displayFiles : {p} \in SUBSET Browser!displayFiles
  BY DEF Browser!selectedFiles
<1>4. \A f \in Folders :
        (\/ Browser!LoadAnswered(f) \/ Browser!LoadFails(f) \/ Browser!Open(f)
         \/ Browser!handleCreateFolder(f))
          => UNCHANGED deleteDialog
  BY DEF Browser!LoadAnswered, Browser!LoadFails, Browser!Open, Browser!handleCreateFolder
<1>5. \A p \in Browser!Paths :
        Browser!handleLongPress(p) \/ Browser!handleToggleSelect(p) => UNCHANGED deleteDialog
  BY DEF Browser!handleLongPress, Browser!handleToggleSelect
<1>6. \A p \in Files :
        Browser!initiateRename(p) \/ Browser!handleRename(p) \/ Browser!UploadFinishes(p)
          => UNCHANGED deleteDialog
  BY DEF Browser!initiateRename, Browser!handleRename, Browser!UploadFinishes
<1>7. (\/ Browser!ToggleHidden \/ Browser!StartSelecting \/ Browser!CancelSelection \/ Browser!handleStartMove
       \/ Browser!OpenNewFolder \/ Browser!handleUpload \/ Browser!handlePaste \/ Browser!Replace
       \/ Browser!handleDelete \/ Browser!ConnectionChanges)
      => UNCHANGED deleteDialog
  BY DEF Browser!ToggleHidden, Browser!StartSelecting, Browser!CancelSelection, Browser!handleStartMove,
         Browser!OpenNewFolder, Browser!handleUpload, Browser!handlePaste, Browser!Replace,
         Browser!handleDelete, Browser!ConnectionChanges
<1>8. ~Browser!ConfirmWarning
  BY DEF Browser!ConfirmWarning, Asking
<1>9. Browser!CancelDialog => UNCHANGED deleteDialog \/ deleteDialog' = None
  BY DEF Browser!CancelDialog
<1>10. \A j \in Slots : Browser!Handler(j) => UNCHANGED deleteDialog \/ deleteDialog' = None
  BY DEF Browser!Handler, Browser!MoveClears, Browser!MoveRenames, Browser!Deletes, Browser!MoveEnds,
         Browser!DeleteEnds, Browser!RenameEnds, Browser!CreateEnds
<1>11. OnlyShown \/ UNCHANGED deleteDialog \/ deleteDialog' = None
  BY <1>2, <1>3, <1>4, <1>5, <1>6, <1>7, <1>8, <1>9, <1>10 DEF Browser!Next
<1> QED BY <1>11 DEF Asking

(* A dialog that asks whether to delete names only what was on display when  *)
(* it was opened, although the selection outlives the listing it was made    *)
(* in.                                                                      *)
THEOREM DeletionsAreOfWhatIsShown == Spec => DeletesWhatIsShown
<1>1. Next => (Asking => OnlyShown) \/ UNCHANGED Browser!vars
  BY FilesSteps, DeletionStep
<1>2. UNCHANGED vars => UNCHANGED Browser!vars
  BY FilesSteps
<1> QED BY <1>1, <1>2, PTL
    DEF Spec, DeletesWhatIsShown, Browser!DeletesWhatIsShown, Asking, OnlyShown

-----------------------------------------------------------------------------
(* What is on the tablet                                                    *)

IsJob(r) == r \in [kind : {r.kind}, todo : {r.todo}, to : {r.to}, cleared : {r.cleared}, live : {r.live}]
Awaits(j) == jobs[j] # None
Replaces(j) == Awaits(j) /\ jobs[j].kind = "replace"

(* A move that replaces something was begun in the dialog that asked for     *)
(* it, and the dialog was opened with what it asks about.                   *)
FilesInv ==
  /\ disk \in [Browser!Paths -> Browser!Paths \cup {Browser!Uploaded, None}]
  /\ jobs = [j \in Slots |-> jobs[j]]
  /\ \A j \in Slots : Awaits(j) => IsJob(jobs[j])
  /\ collisions # None => replacing # {}
  /\ \A j \in Slots : Replaces(j) => replacing # {}

LEMMA FilesInit == Init => FilesInv
<1> SUFFICES ASSUME Browser!Init PROVE FilesInv
  BY DEF Init
<1> QED BY DEF FilesInv, Awaits, Replaces, Browser!Init

LEMMA FilesKept == FilesInv /\ UNCHANGED <<disk, jobs, collisions, replacing>> => FilesInv'
  BY DEF FilesInv, Awaits, Replaces

(* A dialog or a folder changes, and no more than a new handler begins.      *)
LEMMA HandlerBegins ==
  ASSUME FilesInv, NEW kind, NEW todo, NEW to, Browser!Begin(kind, todo, to),
         UNCHANGED <<disk, collisions, replacing>>, kind = "replace" => replacing # {}
  PROVE  FilesInv'
<1>1. PICK j \in Slots : jobs' = [jobs EXCEPT ![j] =
        [kind |-> kind, todo |-> todo, to |-> to, cleared |-> FALSE, live |-> connected]]
  BY DEF Browser!Begin
<1> DEFINE job == [kind |-> kind, todo |-> todo, to |-> to, cleared |-> FALSE, live |-> connected]
<1>2. IsJob(job) /\ job.kind = kind
  BY DEF IsJob
<1>3. jobs' = [jobs EXCEPT ![j] = job]
  BY <1>1
<1> HIDE DEF job
<1> QED BY <1>2, <1>3 DEF FilesInv, Awaits, Replaces

(* A handler goes on, or ends.                                              *)
LEMMA HandlerGoes ==
  ASSUME FilesInv, NEW j \in Slots, NEW job,
         IsJob(job) /\ job.kind = jobs[j].kind, jobs[j] # None,
         jobs' = [jobs EXCEPT ![j] = job], UNCHANGED <<collisions, replacing>>,
         disk' \in [Browser!Paths -> Browser!Paths \cup {Browser!Uploaded, None}]
  PROVE  FilesInv'
  BY DEF FilesInv, Awaits, Replaces

LEMMA HandlerEnds ==
  ASSUME FilesInv, NEW j \in Slots, jobs' = [jobs EXCEPT ![j] = None],
         UNCHANGED replacing, collisions' \in {collisions, None},
         disk' \in [Browser!Paths -> Browser!Paths \cup {Browser!Uploaded, None}]
  PROVE  FilesInv'
  BY DEF FilesInv, Awaits, Replaces

LEMMA JobEdits ==
  ASSUME NEW job, IsJob(job), NEW todo
  PROVE  /\ IsJob([job EXCEPT !.cleared = TRUE]) /\ [job EXCEPT !.cleared = TRUE].kind = job.kind
         /\ IsJob([job EXCEPT !.todo = todo]) /\ [job EXCEPT !.todo = todo].kind = job.kind
         /\ IsJob([job EXCEPT !.todo = todo, !.cleared = FALSE])
         /\ [job EXCEPT !.todo = todo, !.cleared = FALSE].kind = job.kind
<1>1. ASSUME NEW r, NEW T, NEW O, NEW C, NEW L,
             r \in [kind : {job.kind}, todo : T, to : O, cleared : C, live : L]
      PROVE  IsJob(r) /\ r.kind = job.kind
  BY <1>1 DEF IsJob
<1>2. [job EXCEPT !.cleared = TRUE] \in
        [kind : {job.kind}, todo : {job.todo}, to : {job.to}, cleared : {TRUE}, live : {job.live}]
  BY DEF IsJob
<1>3. [job EXCEPT !.todo = todo] \in
        [kind : {job.kind}, todo : {todo}, to : {job.to}, cleared : {job.cleared}, live : {job.live}]
  BY DEF IsJob
<1>4. [job EXCEPT !.todo = todo, !.cleared = FALSE] \in
        [kind : {job.kind}, todo : {todo}, to : {job.to}, cleared : {FALSE}, live : {job.live}]
  BY DEF IsJob
<1>5. IsJob([job EXCEPT !.cleared = TRUE]) /\ [job EXCEPT !.cleared = TRUE].kind = job.kind
  BY <1>1, <1>2
<1>6. IsJob([job EXCEPT !.todo = todo]) /\ [job EXCEPT !.todo = todo].kind = job.kind
  BY <1>1, <1>3
<1> QED BY <1>1, <1>4, <1>5, <1>6

LEMMA TabletKeepsItsType ==
  ASSUME FilesInv
  PROVE  /\ \A p : Browser!DeletePath(p) =>
              disk' \in [Browser!Paths -> Browser!Paths \cup {Browser!Uploaded, None}]
         /\ \A p, q : Browser!RenamePath(p, q) =>
              disk' \in [Browser!Paths -> Browser!Paths \cup {Browser!Uploaded, None}]
  BY DEF FilesInv, Browser!DeletePath, Browser!RenamePath, Browser!Paths

LEMMA FilesStep == FilesInv /\ Browser!Next => FilesInv'
<1> SUFFICES ASSUME FilesInv, Browser!Next PROVE FilesInv'
  OBVIOUS
<1> USE DEF Browser!tablet, Browser!shown, Browser!selected, Browser!dialogs
<1>1. ASSUME NEW f \in Folders,
             Browser!LoadAnswered(f) \/ Browser!LoadFails(f) \/ Browser!Open(f)
      PROVE  FilesInv'
  BY <1>1, FilesKept DEF Browser!LoadAnswered, Browser!LoadFails, Browser!Open
<1>2. ASSUME NEW p \in Browser!Paths, Browser!handleLongPress(p) \/ Browser!handleToggleSelect(p)
      PROVE  FilesInv'
  BY <1>2, FilesKept DEF Browser!handleLongPress, Browser!handleToggleSelect
<1>3. \A S : Browser!initiateDelete(S) => FilesInv'
  BY FilesKept DEF Browser!initiateDelete
<1>4. ASSUME NEW p \in Files, Browser!initiateRename(p)
      PROVE  FilesInv'
  BY <1>4, FilesKept DEF Browser!initiateRename
<1>5. ASSUME \/ Browser!ToggleHidden \/ Browser!StartSelecting \/ Browser!CancelSelection
             \/ Browser!handleStartMove \/ Browser!OpenNewFolder \/ Browser!handleUpload
             \/ Browser!ConnectionChanges
      PROVE  FilesInv'
  BY <1>5, FilesKept DEF Browser!ToggleHidden, Browser!StartSelecting, Browser!CancelSelection,
       Browser!handleStartMove, Browser!OpenNewFolder, Browser!handleUpload, Browser!ConnectionChanges
<1>6. ASSUME NEW q, Browser!handleRename(q) \/ Browser!handleCreateFolder(q)
      PROVE  FilesInv'
  <2>1. CASE \E todo : Browser!Begin("rename", todo, q) /\ UNCHANGED <<disk, collisions, replacing>>
    BY <2>1, HandlerBegins
  <2>2. CASE Browser!Begin("mkdir", {}, q) /\ UNCHANGED <<disk, collisions, replacing>>
    BY <2>2, HandlerBegins
  <2> QED BY <1>6, <2>1, <2>2, FilesKept DEF Browser!handleRename, Browser!handleCreateFolder
<1>7. ASSUME NEW moved, NEW to, NEW conflicts, Browser!Proceed(moved, to, conflicts), UNCHANGED disk
      PROVE  FilesInv'
  <2>1. CASE conflicts # {}
    BY <1>7, <2>1 DEF Browser!Proceed, FilesInv, Awaits, Replaces
  <2>2. CASE conflicts = {}
    BY <1>7, <2>2, HandlerBegins DEF Browser!Proceed
  <2> QED BY <2>1, <2>2
<1>8. CASE Browser!handlePaste
  BY <1>7, <1>8, FilesKept DEF Browser!handlePaste
<1>9. CASE Browser!Replace
  <2>1. replacing # {}
    BY <1>9 DEF Browser!Replace, FilesInv
  <2> QED BY <1>9, <2>1, HandlerBegins DEF Browser!Replace
<1>10. CASE Browser!handleDelete
  BY <1>10, HandlerBegins DEF Browser!handleDelete
<1>11. CASE Browser!ConfirmWarning
  BY <1>7, <1>11, HandlerBegins, FilesKept DEF Browser!ConfirmWarning
<1>12. CASE Browser!CancelDialog
  BY <1>12 DEF Browser!CancelDialog, FilesInv, Awaits, Replaces
<1>13. ASSUME NEW p \in Files, Browser!UploadFinishes(p)
       PROVE  FilesInv'
  BY <1>13 DEF Browser!UploadFinishes, FilesInv, Awaits, Replaces, Browser!Paths
<1>14. ASSUME NEW j \in Slots, Browser!Handler(j)
       PROVE  FilesInv'
  <2>1. jobs[j] # None /\ IsJob(jobs[j])
    BY <1>14 DEF Browser!Handler, FilesInv, Awaits
  <2>2. disk' = disk => disk' \in [Browser!Paths -> Browser!Paths \cup {Browser!Uploaded, None}]
    BY DEF FilesInv
  <2>3. ASSUME NEW p, Browser!MoveClears(j, p) PROVE FilesInv'
    <3>1. jobs' = [jobs EXCEPT ![j] = [jobs[j] EXCEPT !.cleared = TRUE]]
      BY <2>3 DEF Browser!MoveClears
    <3> QED BY <2>1, <2>2, <2>3, <3>1, JobEdits, TabletKeepsItsType, HandlerGoes DEF Browser!MoveClears
  <2>4. ASSUME NEW p, Browser!MoveRenames(j, p) PROVE FilesInv'
    <3>1. jobs' = [jobs EXCEPT ![j] = [jobs[j] EXCEPT !.todo = jobs[j].todo \ {p}, !.cleared = FALSE]]
      BY <2>1, <2>4 DEF Browser!MoveRenames, Browser!Did, IsJob, FilesInv
    <3> QED BY <2>1, <2>2, <2>4, <3>1, JobEdits, TabletKeepsItsType, HandlerGoes DEF Browser!MoveRenames
  <2>5. ASSUME NEW p, Browser!Deletes(j, p) PROVE FilesInv'
    <3>1. jobs' = [jobs EXCEPT ![j] = [jobs[j] EXCEPT !.todo = jobs[j].todo \ {p}]]
      BY <2>5 DEF Browser!Deletes
    <3> QED BY <2>1, <2>2, <2>5, <3>1, JobEdits, TabletKeepsItsType, HandlerGoes DEF Browser!Deletes
  <2>6. ASSUME Browser!MoveEnds(j) \/ Browser!DeleteEnds(j) PROVE FilesInv'
    BY <2>2, <2>6, HandlerEnds DEF Browser!MoveEnds, Browser!DeleteEnds, Browser!Done
  <2>7. CASE Browser!RenameEnds(j)
    BY <2>2, <2>7, TabletKeepsItsType, HandlerEnds DEF Browser!RenameEnds, Browser!Done
  <2>8. CASE Browser!CreateEnds(j)
    <3>1. disk' \in [Browser!Paths -> Browser!Paths \cup {Browser!Uploaded, None}]
      BY <2>8 DEF Browser!CreateEnds, FilesInv, Browser!Paths
    <3> QED BY <2>8, <3>1, HandlerEnds DEF Browser!CreateEnds, Browser!Done
  <2> QED BY <1>14, <2>3, <2>4, <2>5, <2>6, <2>7, <2>8 DEF Browser!Handler
<1>15. \A f \in Folders : Browser!handleCreateFolder(f) => FilesInv'
  BY <1>6
<1>16. \A p \in Files : Browser!handleRename(p) => FilesInv'
  BY <1>6
<1> QED BY <1>1, <1>2, <1>3, <1>4, <1>5, <1>8, <1>9, <1>10, <1>11, <1>12, <1>13, <1>14, <1>15, <1>16
        DEF Browser!Next

LEMMA FilesAlways == Spec => []FilesInv
<1>1. FilesInv /\ UNCHANGED browserVars => FilesInv'
  BY FilesKept DEF browserVars
<1> QED BY FilesInit, <1>1, FilesStep, FilesSteps, PTL DEF Spec

(* What may have happened when the tablet holds something else.             *)
Renamed == \E p, q \in Files : Browser!RenamePath(p, q)
Created == \E q \in Folders : disk[q] = None /\ disk' = [disk EXCEPT ![q] = q]
AskedFor == \E j \in Slots : jobs[j] # None /\ jobs[j].kind \in {"delete", "replace"}

LEMMA TabletStep ==
  FilesInv /\ Browser!Next => UNCHANGED disk \/ Renamed \/ Created \/ AskedFor \/ uploads' # uploads
<1> SUFFICES ASSUME FilesInv, Browser!Next
             PROVE  UNCHANGED disk \/ Renamed \/ Created \/ AskedFor \/ uploads' # uploads
  OBVIOUS
<1> USE DEF Browser!tablet
<1>1. \A f \in Folders :
        (Browser!LoadAnswered(f) \/ Browser!LoadFails(f) \/ Browser!Open(f) \/ Browser!handleCreateFolder(f))
          => UNCHANGED disk
  BY DEF Browser!LoadAnswered, Browser!LoadFails, Browser!Open, Browser!handleCreateFolder
<1>2. \A p \in Browser!Paths :
        (Browser!handleLongPress(p) \/ Browser!handleToggleSelect(p)) => UNCHANGED disk
  BY DEF Browser!handleLongPress, Browser!handleToggleSelect
<1>3. \A S : Browser!initiateDelete(S) => UNCHANGED disk
  BY DEF Browser!initiateDelete
<1>4. \A p \in Files : (Browser!initiateRename(p) \/ Browser!handleRename(p)) => UNCHANGED disk
  BY DEF Browser!initiateRename, Browser!handleRename
<1>5. (\/ Browser!ToggleHidden \/ Browser!StartSelecting \/ Browser!CancelSelection \/ Browser!handleStartMove
       \/ Browser!OpenNewFolder \/ Browser!handleUpload \/ Browser!handlePaste \/ Browser!Replace
       \/ Browser!handleDelete \/ Browser!ConfirmWarning \/ Browser!CancelDialog
       \/ Browser!ConnectionChanges)
      => UNCHANGED disk
  BY DEF Browser!ToggleHidden, Browser!StartSelecting, Browser!CancelSelection, Browser!handleStartMove,
         Browser!OpenNewFolder, Browser!handleUpload, Browser!handlePaste, Browser!Replace,
         Browser!handleDelete, Browser!ConfirmWarning, Browser!CancelDialog, Browser!ConnectionChanges
<1>6. \A p \in Files : Browser!UploadFinishes(p) => uploads' # uploads
  BY DEF Browser!UploadFinishes
<1>7. ASSUME NEW j \in Slots, Browser!Handler(j)
      PROVE  UNCHANGED disk \/ Renamed \/ Created \/ AskedFor
  <2>1. \A p, q : Browser!RenamePath(p, q) => Renamed
    BY DEF Renamed, Browser!RenamePath
  <2>2. \A p : Browser!MoveClears(j, p) \/ Browser!Deletes(j, p) => AskedFor
    BY <1>7 DEF Browser!Handler, Browser!MoveClears, Browser!Deletes, AskedFor
  <2>3. \A p : Browser!MoveRenames(j, p) => UNCHANGED disk \/ Renamed
    BY <2>1 DEF Browser!MoveRenames
  <2>4. (Browser!MoveEnds(j) \/ Browser!DeleteEnds(j)) => UNCHANGED disk
    BY DEF Browser!MoveEnds, Browser!DeleteEnds
  <2>5. Browser!RenameEnds(j) => UNCHANGED disk \/ Renamed
    BY <2>1 DEF Browser!RenameEnds
  <2>6. Browser!CreateEnds(j) => UNCHANGED disk \/ Created
    BY DEF Browser!CreateEnds, Created, Browser!Exists
  <2> QED BY <1>7, <2>2, <2>3, <2>4, <2>5, <2>6 DEF Browser!Handler
<1> QED BY <1>1, <1>2, <1>3, <1>4, <1>5, <1>6, <1>7 DEF Browser!Next

(* Something that a rename or a new folder finds on the tablet is still      *)
(* there: neither writes where anything is.                                 *)
LEMMA RenamesLoseNothing ==
  ASSUME FilesInv, Renamed \/ Created, NEW thing \in Files, Browser!OnTablet(disk, thing)
  PROVE  Browser!OnTablet(disk', thing)
<1>1. PICK r \in Browser!Paths : disk[r] = thing
  BY DEF Browser!OnTablet
<1>2. thing # None
  BY FileConstants
<1>3. CASE Renamed
  <2>1. PICK p, q \in Files : Browser!RenamePath(p, q)
    BY <1>3 DEF Renamed
  <2>2. /\ disk[p] # None /\ disk[q] = None /\ disk' = [disk EXCEPT ![q] = disk[p], ![p] = None]
        /\ p \in Browser!Paths /\ q \in Browser!Paths
    BY <2>1 DEF Browser!RenamePath, Browser!Exists, Browser!Paths
  <2>3. disk'[q] = disk[p] /\ \A u \in Browser!Paths \ {p, q} : disk'[u] = disk[u]
    BY <2>2 DEF FilesInv
  <2> QED BY <1>1, <1>2, <2>2, <2>3 DEF Browser!OnTablet
<1>4. CASE Created
  BY <1>1, <1>2, <1>4 DEF Created, FilesInv, Browser!OnTablet, Browser!Paths
<1> QED BY <1>3, <1>4

NothingLost ==
  \A thing \in Files :
    Browser!OnTablet(disk, thing) /\ ~Browser!OnTablet(disk', thing) /\ uploads' = uploads =>
      \/ \E j \in Slots : jobs[j] # None /\ jobs[j].kind = "delete"
      \/ replacing # {}

LEMMA NothingLostStep == FilesInv /\ Browser!Next => NothingLost
<1> SUFFICES ASSUME FilesInv, Browser!Next, NEW thing \in Files, uploads' = uploads,
                    Browser!OnTablet(disk, thing), ~Browser!OnTablet(disk', thing)
             PROVE  \/ \E j \in Slots : jobs[j] # None /\ jobs[j].kind = "delete"
                    \/ replacing # {}
  BY DEF NothingLost
<1>1. disk' # disk
  BY DEF Browser!OnTablet
<1>2. AskedFor
  BY <1>1, TabletStep, RenamesLoseNothing
<1> QED BY <1>2 DEF AskedFor, FilesInv, Replaces, Awaits

(* No file disappears from the tablet but by a deletion, by an upload or by  *)
(* a move that the user was asked about, however many handlers work on the   *)
(* same files.                                                              *)
THEOREM FilesAreNotLostUnasked == Spec => NothingLostUnasked
<1>1. FilesInv /\ Next => NothingLost \/ UNCHANGED Browser!vars
  BY FilesSteps, NothingLostStep
<1>2. UNCHANGED vars => UNCHANGED Browser!vars
  BY FilesSteps
<1> QED BY <1>1, <1>2, FilesAlways, PTL
    DEF Spec, NothingLostUnasked, Browser!NothingLostUnasked, NothingLost

-----------------------------------------------------------------------------
(* The System tab                                                           *)

LEMMA StepsSteps ==
  /\ Next => UNCHANGED stepsVars \/ Steps!Next
  /\ UNCHANGED vars => UNCHANGED stepsVars
  /\ UNCHANGED stepsVars <=> UNCHANGED Steps!vars
  BY DEF Next, Only, vars, stepsVars, Steps!vars, Steps!tablet, Steps!checks, Steps!rows, Steps!slots,
         Steps!dialogs, Steps!steps

(* Whatever shows the page again after it may have changed a mismatch or     *)
(* the firmware compares them with the steps, and no other step changes one; *)
(* the firmware is that of the tablet whenever it is read.                  *)
Compared == Steps!AfterRender /\ (firmware' = firmware \/ firmware' = os')
NotCompared == UNCHANGED <<osMismatch, stepsOs>>

LEMMA StepsRender == Steps!Next => Compared \/ NotCompared
<1> USE DEF Steps!tablet, Steps!checks, Steps!rows, Steps!slots, Steps!dialogs, Steps!steps
<1>1. Steps!UserActs => Compared \/ NotCompared
  <2>1. \A t \in Commands : (Steps!ClickRow(t) \/ Steps!ClickInstall(t)) => NotCompared
    BY DEF Steps!ClickRow, Steps!ClickInstall, NotCompared
  <2>2. \A d : (Steps!OpenDialog(d) \/ Steps!CloseDialog(d) \/ Steps!Confirm(d)) => NotCompared
    BY DEF Steps!OpenDialog, Steps!CloseDialog, Steps!Confirm, NotCompared
  <2>3. \A d, t : Steps!RestartOrReboot(d, t) => NotCompared
    BY DEF Steps!RestartOrReboot, NotCompared
  <2>4. (\/ Steps!RetryRepair \/ Steps!CloseFailure \/ Steps!stop \/ Steps!stopHook \/ Steps!abandon
         \/ Steps!close \/ Steps!PlanStarts)
        => NotCompared
    BY DEF Steps!RetryRepair, Steps!CloseFailure, Steps!stop, Steps!stopHook, Steps!abandon,
           Steps!close, Steps!PlanStarts, NotCompared
  <2>5. \A yes : Steps!respond(yes) => NotCompared
    BY DEF Steps!respond, Steps!OnHook, NotCompared
  <2>6. Steps!handleTabChange => Compared
    BY DEF Steps!handleTabChange, Compared
  <2> QED BY <2>1, <2>2, <2>3, <2>4, <2>5, <2>6 DEF Steps!UserActs
<1>2. \A i, o : Steps!Ends(i, o) => Compared
  BY DEF Steps!Ends, Compared
<1>3. \A i, o : Steps!HookEnds(i, o) => NotCompared
  BY DEF Steps!HookEnds, Steps!OnHook, NotCompared
<1>4. \A i : Steps!refreshDeviceStatus(i) => Compared
  BY DEF Steps!refreshDeviceStatus, Compared
<1>5. \A i : (Steps!Prompts(i) \/ Steps!AsksNoMore(i) \/ Steps!HookBegins(i)) => NotCompared
  BY DEF Steps!Prompts, Steps!AsksNoMore, Steps!HookBegins, Steps!OnHook, NotCompared
<1>6. \A ok : Steps!PlanEnds(ok) => Compared
  BY DEF Steps!PlanEnds, Compared
<1>7. (Steps!FilesystemRestoreFails \/ Steps!LinkRestored) => NotCompared
  BY DEF Steps!FilesystemRestoreFails, Steps!LinkRestored, NotCompared
<1>8. (Steps!LinkLost \/ Steps!InfoRead \/ Steps!ConnectWarnings) => Compared
  BY DEF Steps!LinkLost, Steps!InfoRead, Steps!ConnectWarnings, Compared
<1> QED BY <1>1, <1>2, <1>3, <1>4, <1>5, <1>6, <1>7, <1>8 DEF Steps!Next

Dropped == (Steps!showSteps \/ Steps!Raise) /\ ~Steps!showSteps'
DroppedRightly ==
  \/ rowsShown' = {} /\ osMismatch' = NoVersion /\ ~active'
  \/ os' # (IF Steps!Raise THEN osMismatch' ELSE stepsOs)

LEMMA StepsDropped == Compared \/ NotCompared => (Dropped => DroppedRightly)
<1> USE DEF Dropped, DroppedRightly, Steps!showSteps, Steps!Raise
<1>1. NotCompared => ~Dropped
  BY DEF NotCompared
<1>2. ASSUME Compared, Dropped, ~(rowsShown' = {} /\ osMismatch' = NoVersion /\ ~active')
      PROVE  os' # (IF Steps!Raise THEN osMismatch' ELSE stepsOs)
  <2>1. /\ ~Steps!Raise /\ stepsOs # NoVersion
        /\ firmware' # firmware /\ firmware' # stepsOs
    BY <1>2 DEF Compared, Steps!AfterRender
  <2> QED BY <1>2, <2>1 DEF Compared
<1> QED BY <1>1, <1>2

(* Steps that are due go away, or never appear, only when they are all done  *)
(* and the tab is left, or when the tablet runs another OS by now: what the  *)
(* page still has of the time before the tablet restarted never ends them.  *)
THEOREM StepsWaitForTheTablet == Spec => StepsOutliveStaleFirmware
<1>1. Next => (Dropped => DroppedRightly) \/ UNCHANGED Steps!vars
  BY StepsSteps, StepsRender, StepsDropped
<1>2. UNCHANGED vars => UNCHANGED Steps!vars
  BY StepsSteps
<1> QED BY <1>1, <1>2, PTL
    DEF Spec, StepsOutliveStaleFirmware, Steps!StepsOutliveStaleFirmware, Dropped, DroppedRightly

-----------------------------------------------------------------------------
(* Runs on the tablet, and the rows they repair                             *)

LEMMA StepsConstants ==
  /\ None \notin Steps!Run /\ None \notin Steps!Operation /\ None # "repair"
  /\ Commands \subseteq Steps!SystemTasks \cup Steps!Maintenance \cup Steps!Vellum \cup Steps!Others
  BY PageAssumption DEF Steps!SystemAssumption, Steps!Vellum

RunsInv == stepsRuns \in [Ids -> Steps!Run \cup {None}]
Refreshes(i) == stepsRuns[i] # None /\ stepsRuns[i].pc = "refresh"
StillRefreshes == \A i \in Ids : Refreshes(i) => Refreshes(i)'

Match == rowsShown \cap Steps!Polled = broken \cap Steps!Polled

(* What the dialogs and the failures can start is a command there is.        *)
OpenInv ==
  /\ \A d \in {"repair", "uninstall", "guide"} : d \in stepsOpen => d \in Commands
  /\ vellumFailure = "repair" => "repair" \in Commands

(* Since the rows were read they match the tablet, or the page knows that    *)
(* it could not read them, or a handler is about to read them again.         *)
RowsInv ==
  /\ status = "lost" => ~warningsChecked
  /\ status = "connected" => warningsChecked
  /\ warningsChecked => unread \/ Match \/ \E i \in Ids : Refreshes(i)

StepsInv == RunsInv /\ OpenInv /\ RowsInv

LEMMA StepsInit == Init => StepsInv
<1> SUFFICES ASSUME Steps!Init PROVE StepsInv
  BY DEF Init
<1> QED BY StepsConstants DEF Steps!Init, StepsInv, RunsInv, OpenInv, RowsInv

LEMMA RunStarts ==
  ASSUME RunsInv, NEW i \in Ids, NEW t \in Commands, Steps!start(i, t)
  PROVE  RunsInv' /\ StillRefreshes
<1> DEFINE run == [task |-> t, stop |-> FALSE, pc |-> "run", hook |-> "none", tz |-> "unread"]
<1>1. run \in Steps!Run
  BY DEF Steps!Run
<1>2. stepsRuns[i] = None /\ stepsRuns' = [stepsRuns EXCEPT ![i] = run]
  BY DEF Steps!start
<1> HIDE DEF run
<1> QED BY <1>1, <1>2 DEF RunsInv, StillRefreshes, Refreshes

LEMMA RunChanges ==
  ASSUME RunsInv, NEW i \in Ids, stepsRuns[i] # None, NEW run \in Steps!Run,
         stepsRuns' = [stepsRuns EXCEPT ![i] = run],
         run.pc = stepsRuns[i].pc \/ ~Refreshes(i)
  PROVE  RunsInv' /\ StillRefreshes /\ Refreshes(i)' = (run.pc = "refresh")
  BY StepsConstants DEF RunsInv, StillRefreshes, Refreshes

LEMMA RunEdits ==
  ASSUME NEW run \in Steps!Run
  PROVE  /\ [run EXCEPT !.stop = TRUE] \in Steps!Run /\ [run EXCEPT !.stop = TRUE].pc = run.pc
         /\ [run EXCEPT !.pc = "cut"] \in Steps!Run
         /\ \A h \in {"none", "asked", "confirmed", "declined", "running", "done"} :
              [run EXCEPT !.hook = h] \in Steps!Run /\ [run EXCEPT !.hook = h].pc = run.pc
  BY DEF Steps!Run

LEMMA RunCancelled ==
  ASSUME RunsInv, NEW i, Steps!CancelOperation(i)
  PROVE  RunsInv' /\ StillRefreshes
<1>1. CASE i \in Steps!Live
  <2>1. i \in Ids /\ stepsRuns[i] # None /\ stepsRuns[i] \in Steps!Run
    BY <1>1 DEF Steps!Live, RunsInv
  <2>2. stepsRuns' = [stepsRuns EXCEPT ![i] = [stepsRuns[i] EXCEPT !.stop = TRUE]]
    BY <1>1 DEF Steps!CancelOperation
  <2> QED BY <2>1, <2>2, RunEdits, RunChanges
<1>2. CASE i \notin Steps!Live
  BY <1>2 DEF Steps!CancelOperation, RunsInv, StillRefreshes, Refreshes
<1> QED BY <1>1, <1>2

LEMMA HookChanges ==
  ASSUME RunsInv, NEW i \in Ids, i \in Steps!Live,
         NEW h \in {"none", "asked", "confirmed", "declined", "running", "done"},
         stepsRuns' = [stepsRuns EXCEPT ![i].hook = h]
  PROVE  RunsInv' /\ StillRefreshes
<1>1. stepsRuns[i] # None /\ stepsRuns[i] \in Steps!Run
  BY DEF Steps!Live, RunsInv
<1> QED BY <1>1, RunEdits, RunChanges

(* Whatever changes no rows and ends no handler that refreshes them.         *)
LEMMA RowsKept ==
  ASSUME StepsInv, RunsInv', StillRefreshes,
         UNCHANGED <<status, warningsChecked, unread, broken, rowsShown>>
  PROVE  RowsInv'
  BY DEF StepsInv, RowsInv, Match, StillRefreshes

LEMMA StepsKept == StepsInv /\ UNCHANGED stepsVars => StepsInv'
  BY DEF stepsVars, StepsInv, RunsInv, OpenInv, RowsInv, Match, Refreshes

(* A run that ends                                                          *)
LEMMA RunEnds ==
  ASSUME StepsInv, NEW i \in Ids, NEW outcome \in {"succeeded", "failed", "canceled"},
         Steps!Ends(i, outcome)
  PROVE  StepsInv'
<1> DEFINE t == stepsRuns[i].task
<1>1. i \in Steps!Live /\ stepsRuns[i] # None /\ stepsRuns[i] \in Steps!Run /\ t \in Commands
      /\ stepsRuns[i].pc \in {"run", "cut"} /\ ~Refreshes(i)
  BY DEF Steps!Ends, Steps!Live, StepsInv, RunsInv, Steps!Run, Refreshes
<1>2. UNCHANGED <<status, warningsChecked, unread>>
  BY DEF Steps!Ends, Steps!checks
<1>3. OpenInv'
  <2>1. vellumFailure' = "repair" => "repair" \in Commands
    BY <1>1 DEF Steps!Ends, StepsInv, OpenInv
  <2>2. \A d \in {"repair", "uninstall", "guide"} : d \in stepsOpen' => d \in stepsOpen
    BY DEF Steps!Ends
  <2> QED BY <2>1, <2>2 DEF StepsInv, OpenInv
<1>4. CASE t \in Steps!Settles
  <2> DEFINE run == [stepsRuns[i] EXCEPT !.pc = "refresh", !.tz = Steps!ReadsRow("timezone")]
  <2>1. stepsRuns' = [stepsRuns EXCEPT ![i] = run]
    BY <1>4 DEF Steps!Ends, Steps!Settles, Steps!SystemTasks, Steps!Maintenance
  <2>2. run \in Steps!Run /\ run.pc = "refresh"
    BY <1>1 DEF Steps!Run, Steps!ReadsRow
  <2> HIDE DEF run
  <2>3. RunsInv' /\ Refreshes(i)'
    BY <1>1, <2>1, <2>2, RunChanges DEF StepsInv
  <2> QED BY <1>2, <1>3, <2>3 DEF StepsInv, RowsInv
<1>5. CASE t \notin Steps!Settles
  <2>1. RunsInv' /\ StillRefreshes
    <3>1. CASE stepsRuns' = [stepsRuns EXCEPT ![i] = None]
      BY <1>1, <3>1 DEF StepsInv, RunsInv, StillRefreshes, Refreshes
    <3>2. CASE /\ "rescan" \in Commands
               /\ stepsRuns' = [stepsRuns EXCEPT ![i].task = "rescan", ![i].stop = FALSE, ![i].pc = "run"]
      <4> DEFINE run == [stepsRuns[i] EXCEPT !.task = "rescan", !.stop = FALSE, !.pc = "run"]
      <4>1. stepsRuns' = [stepsRuns EXCEPT ![i] = run]
        BY <3>2
      <4>2. run \in Steps!Run
        BY <1>1, <3>2 DEF Steps!Run
      <4> HIDE DEF run
      <4> QED BY <1>1, <4>1, <4>2, RunChanges DEF StepsInv
    <3> QED BY <1>5, <3>1, <3>2 DEF Steps!Ends, Steps!Finished
  <2>2. Match => Match'
    <3>1. t \notin Steps!Polled
      BY <1>5 DEF Steps!Polled, Steps!Settles, Steps!SystemTasks, Steps!Maintenance
    <3>2. CASE t = "uninstall" /\ outcome = "succeeded"
      <4>1. broken' = broken \ (Steps!Rows \ {"updates", "timezone"})
            /\ rowsShown' = rowsShown \cap {"updates", "timezone"}
        BY <3>2 DEF Steps!Ends, Steps!Repairs
      <4> QED BY <4>1 DEF Match, Steps!Rows, Steps!Polled
    <3>3. CASE ~(t = "uninstall" /\ outcome = "succeeded")
      <4>1. broken' \in {broken, broken \ {t}}
        BY <1>5, <3>3 DEF Steps!Ends, Steps!Repairs
      <4>2. \A x : x \notin {"reenable", "timezone"} => (x \in rowsShown' <=> x \in rowsShown)
        BY <3>3 DEF Steps!Ends
      <4> QED BY <3>1, <4>1, <4>2 DEF Match, Steps!Polled
    <3> QED BY <3>2, <3>3
  <2> QED BY <1>2, <1>3, <2>1, <2>2 DEF StepsInv, RowsInv, StillRefreshes
<1> QED BY <1>4, <1>5

LEMMA StepsStep == StepsInv /\ Steps!Next => StepsInv'
<1> SUFFICES ASSUME StepsInv, Steps!Next PROVE StepsInv'
  OBVIOUS
<1> USE DEF Steps!tablet, Steps!checks, Steps!rows, Steps!slots, Steps!dialogs, Steps!steps
<1> DEFINE Quiet == UNCHANGED <<status, warningsChecked, unread, broken, rowsShown>>
           Runs  == UNCHANGED stepsRuns \/ \E i \in Ids, t \in Commands : Steps!start(i, t)

<1>1. ASSUME RunsInv, RunsInv', StillRefreshes, Quiet, OpenInv' PROVE StepsInv'
  BY <1>1, RowsKept DEF StepsInv
<1>2. ASSUME Quiet, Runs, OpenInv' PROVE StepsInv'
  <2>1. RunsInv' /\ StillRefreshes
    BY <1>2, RunStarts DEF StepsInv, RunsInv, StillRefreshes, Refreshes
  <2> QED BY <1>1, <1>2, <2>1 DEF StepsInv
<1>3. ASSUME NEW t \in Commands, Steps!ClickRow(t) \/ Steps!ClickInstall(t) PROVE StepsInv'
  <2>1. OpenInv'
    BY <1>3, StepsConstants DEF Steps!ClickRow, Steps!ClickInstall, StepsInv, OpenInv
  <2> QED BY <1>2, <1>3, <2>1 DEF Steps!ClickRow, Steps!ClickInstall
<1>4. ASSUME NEW d, Steps!OpenDialog(d) \/ Steps!CloseDialog(d) PROVE StepsInv'
  <2>1. OpenInv'
    BY <1>4 DEF Steps!OpenDialog, Steps!CloseDialog, StepsInv, OpenInv
  <2> QED BY <1>2, <1>4, <2>1 DEF Steps!OpenDialog, Steps!CloseDialog
<1>5. ASSUME NEW d, Steps!Confirm(d) PROVE StepsInv'
  <2>1. d \in Commands
    BY <1>5 DEF Steps!Confirm, StepsInv, OpenInv
  <2>2. OpenInv'
    BY <1>5, StepsConstants DEF Steps!Confirm, StepsInv, OpenInv
  <2> QED BY <1>2, <1>5, <2>1, <2>2 DEF Steps!Confirm
<1>6. ASSUME NEW d, NEW t \in Commands, Steps!RestartOrReboot(d, t) PROVE StepsInv'
  <2>1. OpenInv'
    BY <1>6 DEF Steps!RestartOrReboot, StepsInv, OpenInv
  <2> QED BY <1>2, <1>6, <2>1 DEF Steps!RestartOrReboot
<1>7. CASE Steps!RetryRepair
  <2>1. "repair" \in Commands /\ OpenInv'
    BY <1>7, StepsConstants DEF Steps!RetryRepair, StepsInv, OpenInv
  <2> QED BY <1>2, <1>7, <2>1 DEF Steps!RetryRepair
<1>8. CASE Steps!CloseFailure \/ Steps!abandon \/ Steps!close \/ Steps!PlanStarts
  <2>1. OpenInv'
    BY <1>8, StepsConstants
    DEF Steps!CloseFailure, Steps!abandon, Steps!close, Steps!PlanStarts, StepsInv, OpenInv
  <2> QED BY <1>2, <1>8, <2>1 DEF Steps!CloseFailure, Steps!abandon, Steps!close, Steps!PlanStarts
<1>9. CASE Steps!handleTabChange \/ Steps!FilesystemRestoreFails
  <2>1. OpenInv'
    BY <1>9 DEF Steps!handleTabChange, Steps!FilesystemRestoreFails, StepsInv, OpenInv
  <2> QED BY <1>2, <1>9, <2>1 DEF Steps!handleTabChange, Steps!FilesystemRestoreFails
<1>10. ASSUME NEW ok \in BOOLEAN, Steps!PlanEnds(ok) PROVE StepsInv'
  <2>1. OpenInv'
    BY <1>10 DEF Steps!PlanEnds, StepsInv, OpenInv
  <2> QED BY <1>2, <1>10, <2>1 DEF Steps!PlanEnds
<1>11. CASE Steps!stop \/ Steps!stopHook
  <2>1. OpenInv' /\ Quiet
    BY <1>11 DEF Steps!stop, Steps!stopHook, StepsInv, OpenInv
  <2>2. \E i : Steps!CancelOperation(i)
    BY <1>11 DEF Steps!stop, Steps!stopHook
  <2> QED BY <1>1, <2>1, <2>2, RunCancelled DEF StepsInv
<1>12. ASSUME NEW yes \in BOOLEAN, Steps!respond(yes) PROVE StepsInv'
  <2>1. OpenInv' /\ Quiet
    BY <1>12 DEF Steps!respond, Steps!OnHook, StepsInv, OpenInv
  <2> DEFINE h == IF yes THEN "confirmed" ELSE "declined"
             run == IF prompt \in Steps!Live /\ stepsRuns[prompt].hook = "asked"
                    THEN [stepsRuns[prompt] EXCEPT !.hook = h] ELSE stepsRuns[prompt]
  <2>2. stepsRuns' = [stepsRuns EXCEPT ![prompt] = run]
    BY <1>12 DEF Steps!respond
  <2>3. CASE prompt \in Steps!Live
    <3>1. prompt \in Ids /\ stepsRuns[prompt] # None /\ stepsRuns[prompt] \in Steps!Run
      BY <2>3 DEF Steps!Live, StepsInv, RunsInv
    <3>2. run \in Steps!Run /\ run.pc = stepsRuns[prompt].pc
      BY <3>1, RunEdits
    <3> HIDE DEF run
    <3> QED BY <1>1, <2>1, <2>2, <3>1, <3>2, RunChanges DEF StepsInv
  <2>4. CASE prompt \notin Steps!Live
    <3>1. stepsRuns' = stepsRuns
      BY <2>2, <2>4 DEF StepsInv, RunsInv
    <3> QED BY <1>2, <2>1, <3>1
  <2> QED BY <2>3, <2>4
<1>13. ASSUME NEW i \in Ids, NEW o, Steps!HookEnds(i, o) \/ Steps!Prompts(i) \/ Steps!AsksNoMore(i)
                                    \/ Steps!HookBegins(i)
       PROVE  StepsInv'
  <2>1. OpenInv' /\ Quiet /\ i \in Steps!Live
    BY <1>13 DEF Steps!HookEnds, Steps!Prompts, Steps!AsksNoMore, Steps!HookBegins, Steps!OnHook,
                 StepsInv, OpenInv
  <2>2. \E h \in {"none", "asked", "confirmed", "declined", "running", "done"} :
          stepsRuns' = [stepsRuns EXCEPT ![i].hook = h]
    BY <1>13 DEF Steps!HookEnds, Steps!Prompts, Steps!AsksNoMore, Steps!HookBegins
  <2> QED BY <1>1, <2>1, <2>2, HookChanges DEF StepsInv
<1>14. ASSUME NEW i \in Ids, Steps!refreshDeviceStatus(i) PROVE StepsInv'
  <2>1. RunsInv' /\ OpenInv' /\ UNCHANGED <<status, warningsChecked>>
    BY <1>14 DEF Steps!refreshDeviceStatus, Steps!Finished, StepsInv, RunsInv, OpenInv
  <2>2. unread' \/ Match'
    BY <1>14 DEF Steps!refreshDeviceStatus, Match, Steps!Polled, Steps!Shows
  <2> QED BY <2>1, <2>2 DEF StepsInv, RowsInv
<1>15. CASE Steps!LinkLost
  <2>1. ASSUME NEW i \in Ids PROVE stepsRuns'[i] \in Steps!Run \cup {None}
    <3>1. stepsRuns'[i] = IF Steps!Running(i) THEN [stepsRuns[i] EXCEPT !.pc = "cut"] ELSE stepsRuns[i]
      BY <1>15 DEF Steps!LinkLost
    <3>2. stepsRuns[i] \in Steps!Run \cup {None} /\ (Steps!Running(i) => stepsRuns[i] # None)
      BY DEF StepsInv, RunsInv, Steps!Running, Steps!Live
    <3> QED BY <3>1, <3>2, RunEdits
  <2>2. RunsInv'
    BY <1>15, <2>1 DEF Steps!LinkLost, RunsInv
  <2>3. OpenInv' /\ status' = "lost" /\ ~warningsChecked'
    BY <1>15, StepsConstants DEF Steps!LinkLost, StepsInv, OpenInv
  <2> QED BY <2>2, <2>3 DEF StepsInv, RowsInv
<1>16. CASE Steps!LinkRestored
  BY <1>16 DEF Steps!LinkRestored, StepsInv, RunsInv, OpenInv, RowsInv
<1>17. CASE Steps!InfoRead
  <2>1. OpenInv' /\ RunsInv'
    BY <1>17 DEF Steps!InfoRead, StepsInv, RunsInv, OpenInv
  <2> QED BY <1>17, <2>1 DEF Steps!InfoRead, StepsInv, RowsInv, Match, Refreshes
<1>18. CASE Steps!ConnectWarnings
  <2>1. OpenInv' /\ RunsInv'
    BY <1>18 DEF Steps!ConnectWarnings, StepsInv, RunsInv, OpenInv
  <2> QED BY <1>18, <2>1 DEF Steps!ConnectWarnings, StepsInv, RowsInv, Match
<1>19. CASE Steps!UserActs
  BY <1>3, <1>4, <1>5, <1>6, <1>7, <1>8, <1>9, <1>11, <1>12, <1>19 DEF Steps!UserActs
<1> QED BY <1>9, <1>10, <1>13, <1>14, <1>15, <1>16, <1>17, <1>18, <1>19, RunEnds DEF Steps!Next

LEMMA StepsAlways == Spec => []StepsInv
  BY StepsInit, StepsKept, StepsStep, StepsSteps, PTL DEF Spec

(* Once the last handler is done, the rows that a task or a maintenance      *)
(* command repairs are shown as the tablet has them, whether the command     *)
(* succeeded, failed, was stopped or lost its link.                         *)
THEOREM RowsAreOfTheTablet == Spec => []RowsMatchTheTablet
<1>1. StepsInv => RowsMatchTheTablet
  BY DEF StepsInv, RowsInv, Match, Refreshes, RowsMatchTheTablet, Steps!RowsMatchTheTablet,
         Steps!connected, Steps!Live
<1> QED BY <1>1, StepsAlways, PTL

-----------------------------------------------------------------------------
(* The operation that the page shows                                        *)

Stays ==
  \A i \in Ids :
    Steps!operationBusy /\ stepsOperation.id = i /\ Steps!Running(i) /\ Steps!Running(i)' /\ status' # "lost" =>
      Steps!operationBusy' \/ stepsOperation.status = "stopping" \/ (hookRun # None /\ hookRun.status = "stopping")

ShownInv == stepsOperation \in Steps!Operation \cup {None}
Replaced ==
  \/ UNCHANGED stepsOperation \/ stepsOperation' \in Steps!Operation \cup {None}
  \/ \E s \in Steps!Statuses : stepsOperation # None /\ stepsOperation' = [stepsOperation EXCEPT !.status = s]

LEMMA StartShows ==
  ASSUME NEW i \in Ids, NEW t \in Commands, Steps!start(i, t)
  PROVE  Steps!operationBusy' /\ Replaced
<1> DEFINE new == [id |-> i, task |-> t, status |-> "running"]
<1>1. new \in Steps!Operation /\ new.status = "running" /\ stepsOperation' = new
  BY DEF Steps!start, Steps!Operation, Steps!Statuses
<1> HIDE DEF new
<1> QED BY <1>1, StepsConstants DEF Steps!operationBusy, Replaced

LEMMA EndShows ==
  ASSUME StepsInv, NEW i \in Ids, NEW outcome \in {"succeeded", "failed", "canceled"},
         Steps!Ends(i, outcome)
  PROVE  /\ UNCHANGED stepsOperation \/ Steps!operationBusy' \/ (stepsOperation.id = i /\ ~Steps!Running(i)')
         /\ Replaced
<1>1. i \in Steps!Live /\ stepsRuns[i] # None /\ stepsRuns[i] \in Steps!Run
  BY DEF Steps!Ends, Steps!Live, StepsInv, RunsInv
<1>2. CASE stepsOperation' = [id |-> i, task |-> "rescan", status |-> "running"] /\ "rescan" \in Commands
  <2> DEFINE new == [id |-> i, task |-> "rescan", status |-> "running"]
  <2>1. new \in Steps!Operation /\ new.status = "running" /\ stepsOperation' = new
    BY <1>2 DEF Steps!Operation, Steps!Statuses
  <2> HIDE DEF new
  <2> QED BY <2>1, StepsConstants DEF Steps!operationBusy, Replaced
<1>3. CASE stepsOperation' = Steps!result(i, outcome)
  <2>1. Replaced
    BY <1>3 DEF Replaced, Steps!result, Steps!Statuses
  <2>2. CASE stepsOperation.id # i
    BY <1>3, <2>1, <2>2 DEF Steps!result
  <2>3. CASE stepsRuns' = [stepsRuns EXCEPT ![i] = None] /\ stepsOperation.id = i
    BY <1>1, <2>1, <2>3 DEF Steps!Running, Steps!Live, StepsInv, RunsInv
  <2>4. CASE /\ stepsRuns' = [stepsRuns EXCEPT ![i].pc = "refresh", ![i].tz = Steps!ReadsRow("timezone")]
             /\ stepsOperation.id = i
    <3>1. stepsRuns'[i] = [stepsRuns[i] EXCEPT !.pc = "refresh", !.tz = Steps!ReadsRow("timezone")]
      BY <1>1, <2>4 DEF StepsInv, RunsInv
    <3>2. stepsRuns'[i].pc = "refresh"
      BY <1>1, <3>1 DEF Steps!Run
    <3> QED BY <2>1, <2>4, <3>2 DEF Steps!Running
  <2> QED BY <1>2, <2>1, <2>2, <2>3, <2>4 DEF Steps!Ends, Steps!Finished
<1> QED BY <1>2, <1>3 DEF Steps!Ends

LEMMA StaysStep == StepsInv /\ ShownInv /\ Steps!Next => Stays /\ ShownInv'
<1> SUFFICES ASSUME StepsInv, ShownInv, Steps!Next PROVE Stays /\ Replaced
  <2>1. ASSUME NEW s \in Steps!Statuses, NEW o \in Steps!Operation
        PROVE  [o EXCEPT !.status = s] \in Steps!Operation
    BY DEF Steps!Operation
  <2> QED BY <2>1 DEF ShownInv, Replaced
<1> USE DEF Steps!tablet, Steps!checks, Steps!rows, Steps!slots, Steps!dialogs, Steps!steps
<1>1. CASE UNCHANGED stepsOperation
  BY <1>1 DEF Stays, Steps!operationBusy, Replaced
<1>2. CASE Steps!operationBusy' /\ Replaced
  BY <1>2 DEF Stays
<1>3. ASSUME NEW t \in Commands, Steps!ClickRow(t) \/ Steps!ClickInstall(t) PROVE Stays /\ Replaced
  BY <1>2, <1>3, StartShows DEF Steps!ClickRow, Steps!ClickInstall
<1>4. ASSUME NEW d, Steps!OpenDialog(d) \/ Steps!CloseDialog(d) PROVE Stays /\ Replaced
  BY <1>1, <1>4 DEF Steps!OpenDialog, Steps!CloseDialog
<1>5. ASSUME NEW d, Steps!Confirm(d) PROVE Stays /\ Replaced
  <2>1. d \in Commands
    BY <1>5 DEF Steps!Confirm, StepsInv, OpenInv
  <2> QED BY <1>1, <1>2, <1>5, <2>1, StartShows DEF Steps!Confirm
<1>6. ASSUME NEW d, NEW t \in Commands, Steps!RestartOrReboot(d, t) PROVE Stays /\ Replaced
  BY <1>2, <1>6, StartShows DEF Steps!RestartOrReboot
<1>7. CASE Steps!RetryRepair
  BY <1>2, <1>7, StartShows DEF Steps!RetryRepair, StepsInv, OpenInv
<1>8. CASE \/ Steps!CloseFailure \/ Steps!stopHook \/ Steps!PlanStarts \/ Steps!handleTabChange
           \/ Steps!FilesystemRestoreFails \/ Steps!LinkRestored \/ Steps!InfoRead \/ Steps!ConnectWarnings
  BY <1>1, <1>8 DEF Steps!CloseFailure, Steps!stopHook, Steps!PlanStarts, Steps!handleTabChange,
       Steps!FilesystemRestoreFails, Steps!LinkRestored, Steps!InfoRead, Steps!ConnectWarnings
<1>9. ASSUME NEW i, NEW o, \/ Steps!HookEnds(i, o) \/ Steps!Prompts(i) \/ Steps!AsksNoMore(i)
                           \/ Steps!HookBegins(i) \/ Steps!refreshDeviceStatus(i)
      PROVE  Stays /\ Replaced
  BY <1>1, <1>9 DEF Steps!HookEnds, Steps!Prompts, Steps!AsksNoMore, Steps!HookBegins, Steps!OnHook,
       Steps!refreshDeviceStatus
<1>10. ASSUME NEW x, Steps!respond(x) \/ Steps!PlanEnds(x) PROVE Stays /\ Replaced
  BY <1>1, <1>10 DEF Steps!respond, Steps!OnHook, Steps!PlanEnds
<1>11. CASE Steps!stop
  <2> DEFINE new == [stepsOperation EXCEPT !.status = "stopping"]
  <2>1. stepsOperation \in Steps!Operation /\ stepsOperation' = new
    BY <1>11 DEF Steps!stop, ShownInv
  <2>2. new \in Steps!Operation /\ new.status = "stopping"
    BY <2>1 DEF Steps!Operation, Steps!Statuses
  <2> HIDE DEF new
  <2> QED BY <1>2, <2>1, <2>2, StepsConstants DEF Steps!operationBusy, Replaced
<1>12. CASE Steps!abandon
  BY <1>12 DEF Steps!abandon, Stays, Replaced
<1>13. CASE Steps!close
  BY <1>13 DEF Steps!close, Steps!Stuck, Stays, Steps!operationBusy, Replaced
<1>14. CASE Steps!LinkLost
  BY <1>14 DEF Steps!LinkLost, Stays, Replaced
<1>15. ASSUME NEW i \in Ids, NEW o \in {"succeeded", "failed", "canceled"}, Steps!Ends(i, o)
       PROVE  Stays /\ Replaced
  BY <1>15, EndShows DEF Stays, Steps!operationBusy
<1>16. CASE Steps!UserActs
  BY <1>3, <1>4, <1>5, <1>6, <1>7, <1>8, <1>10, <1>11, <1>12, <1>13, <1>16 DEF Steps!UserActs
<1> QED BY <1>8, <1>9, <1>10, <1>14, <1>15, <1>16 DEF Steps!Next

LEMMA ShownAlways == Spec => []ShownInv
<1>1. Init => ShownInv
  BY DEF Init, Steps!Init, ShownInv
<1>2. ShownInv /\ UNCHANGED stepsVars => ShownInv'
  BY DEF stepsVars, ShownInv
<1> QED BY <1>1, <1>2, StepsAlways, StaysStep, StepsSteps, PTL DEF Spec

(* While a command runs, its progress leaves the page only when the link is  *)
(* lost, when another command is started, or when the user closes a run      *)
(* that does not stop: never with the end of another run.                   *)
THEOREM EndsAreOfTheirOwnRun == Spec => EndsOnlyItsOwn
<1>1. StepsInv /\ ShownInv /\ Next => Stays \/ UNCHANGED Steps!vars
  BY StepsSteps, StaysStep
<1>2. UNCHANGED vars => UNCHANGED Steps!vars
  BY StepsSteps
<1> QED BY <1>1, <1>2, StepsAlways, ShownAlways, PTL
    DEF Spec, EndsOnlyItsOwn, Steps!EndsOnlyItsOwn, Stays

-----------------------------------------------------------------------------
(* The plans of the Mods tab                                                *)

LEMMA PlanSteps ==
  /\ Next => UNCHANGED planVars \/ Plan!Next
  /\ UNCHANGED vars => UNCHANGED planVars
  /\ UNCHANGED planVars <=> UNCHANGED Plan!vars
  BY DEF Next, Only, vars, planVars, Plan!vars, Plan!tablet, Plan!known, Plan!queues, Plan!asked,
         Plan!solved, Plan!applying, Plan!result

(* What the last check found is about what is queued by now, unless a plan   *)
(* runs or the next check is on its way.                                    *)
SolveInv ==
  /\ installQueue = {} => implied = {}
  /\ installSolving => installQueue # {} /\ online
  /\ pc = "idle" /\ ~installSolving /\ installQueue # {} /\ online => checked = Plan!InstallDeps

(* What is there to be upgraded only becomes less, so nothing that is queued *)
(* to be installed, or comes with it, is ever queued to be upgraded.         *)
QueueInv ==
  /\ outdated \subseteq candidates /\ outdated \subseteq onTablet /\ candidates \subseteq modsInstalled
  /\ starring # None => starring \notin candidates
  /\ installQueue \cap candidates = {} /\ implied \cap candidates = {}
  /\ upgradeQueue \subseteq candidates
  /\ installQueue \cap uninstallQueue = {} /\ upgradeQueue \cap uninstallQueue = {}
  /\ modsMismatch => upgradeQueue = {}

IsPlan(r) ==
  r \in [remove : {r.remove}, upgrade : {r.upgrade}, install : {r.install}, implied : {r.implied},
         sync : {r.sync}, targets : {r.targets}, order : {r.order}]

(* No phase of a plan undoes what another is for.                           *)
Disjoint(p) ==
  /\ (p.install \ p.implied) \cap p.remove = {}
  /\ (p.remove \ p.implied) \cap p.upgrade = {}
  /\ p.sync => p.install \subseteq p.implied
  /\ ~p.sync => p.install \cap p.upgrade = {}

Holds(order, phase) == \E k \in 1..Len(order) : order[k] = phase

(* Nothing is upgraded before what is to go has gone.                       *)
Ordered(order) ==
  /\ order \in Seq(Plan!Phases)
  /\ \A i, k \in 1..Len(order) : order[i] = "upgrade" /\ order[k] = "remove" => k < i

Gone == plan.remove \cap outdated = {}
OrderInv ==
  /\ Ordered(plan.order)
  /\ pc # "next" => plan.order # <<>>
  /\ pc = "candidates" => plan.sync /\ plan.order[1] = "upgrade"
  /\ Holds(plan.order, "remove") \/ Gone
  /\ pc = "succeeded" /\ plan.order[1] = "remove" => Gone

ChangesKept ==
  /\ plan.install \ plan.implied \subseteq onTablet \cup installQueue
  /\ (plan.remove \ plan.implied) \cap onTablet \subseteq uninstallQueue
  /\ ~plan.sync => plan.upgrade \cap outdated \subseteq upgradeQueue

ApplyInv ==
  pc # "idle" =>
    /\ IsPlan(plan) /\ applyResult = None /\ (online \/ interrupted)
    /\ Disjoint(plan) /\ OrderInv
    /\ ~interrupted => ChangesKept

PlanInv == SolveInv /\ QueueInv /\ ApplyInv

LEMMA PlanInit == Init => PlanInv
<1> SUFFICES ASSUME Plan!Init PROVE PlanInv
  BY DEF Init
<1> QED BY PageAssumption
        DEF Plan!Init, Plan!ModsPlanAssumption, PlanInv, SolveInv, QueueInv, ApplyInv

LEMMA PlanKept == PlanInv /\ UNCHANGED planVars => PlanInv'
  BY DEF planVars, PlanInv, SolveInv, QueueInv, ApplyInv, Plan!InstallDeps, OrderInv, Gone, ChangesKept

LEMMA PlanRecord ==
  ASSUME NEW r, NEW R, NEW U, NEW I, NEW M, NEW S, NEW T, NEW O,
         r \in [remove : {R}, upgrade : {U}, install : {I}, implied : {M}, sync : {S}, targets : {T},
                order : {O}]
  PROVE  /\ IsPlan(r) /\ r.remove = R /\ r.upgrade = U /\ r.install = I /\ r.implied = M
         /\ r.sync = S /\ r.targets = T /\ r.order = O
  BY DEF IsPlan

(* The effect that asks what the installs bring makes its invariant.        *)
LEMMA EffectSolves ==
  ASSUME Plan!InstallEffect
  PROVE  SolveInv' /\ implied' \in {{}, implied}
  BY DEF Plan!InstallEffect, SolveInv

(* A plan goes on while nothing it is about changes.                        *)
LEMMA ApplyKept ==
  ASSUME ApplyInv, UNCHANGED <<onTablet, outdated, installQueue, uninstallQueue, upgradeQueue, plan, pc,
                               interrupted, applyResult, online>>
  PROVE  ApplyInv'
  BY DEF ApplyInv, OrderInv, Gone, ChangesKept

LEMMA QueueChanges ==
  ASSUME PlanInv, NEW installs, NEW removals, NEW upgrades, Plan!Queue(installs, removals, upgrades),
         UNCHANGED <<onTablet, outdated, online, modsInstalled, candidates, modsMismatch>>,
         starring' \in {starring, None},
         installs \cap candidates = {}, installs \cap removals = {}, upgrades \cap removals = {},
         upgrades \subseteq candidates, modsMismatch => upgrades = {},
         pc # "idle" => installQueue \subseteq installs /\ removals = uninstallQueue /\ upgrades = upgradeQueue
  PROVE  PlanInv'
<1>1. /\ installQueue' = installs /\ uninstallQueue' = removals /\ upgradeQueue' = upgrades
      /\ UNCHANGED <<pc, interrupted>> /\ Plan!InstallEffect
      /\ applyResult = None => UNCHANGED <<plan, applyResult>>
  BY DEF Plan!Queue, Plan!Resolve
<1>2. SolveInv' /\ implied' \in {{}, implied}
  BY <1>1, EffectSolves
<1>3. QueueInv'
  BY <1>1, <1>2 DEF PlanInv, QueueInv
<1>4. ApplyInv'
  <2>1. pc # "idle" => (ChangesKept => ChangesKept')
    BY <1>1 DEF PlanInv, ApplyInv, ChangesKept
  <2> QED BY <1>1, <2>1 DEF PlanInv, ApplyInv, OrderInv, Gone
<1> QED BY <1>2, <1>3, <1>4 DEF PlanInv

(* What is shown of checks and questions changes.                           *)
LEMMA SolvingChanges ==
  ASSUME PlanInv, SolveInv',
         UNCHANGED <<onTablet, outdated, online, modsInstalled, candidates, modsMismatch,
                     installQueue, uninstallQueue, upgradeQueue, starring, plan, pc, interrupted, applyResult>>,
         implied' \cap candidates = {}
  PROVE  PlanInv'
<1>1. QueueInv'
  BY DEF PlanInv, QueueInv
<1> QED BY <1>1, ApplyKept DEF PlanInv

(* External: what a phase may do to the tablet.                             *)
LEMMA TabletChanges ==
  ASSUME QueueInv, NEW phase \in Plan!Phases, NEW S, Plan!TabletAfter(phase, S)
  PROVE  /\ outdated' \subseteq outdated /\ outdated' \subseteq onTablet'
         /\ phase = "remove" => onTablet' = onTablet \ S /\ outdated' = outdated \ S
         /\ phase = "install" => onTablet' = onTablet \cup S /\ outdated' = outdated
         /\ phase = "upgrade" => onTablet' = onTablet /\ outdated' = outdated \ S
  BY DEF Plan!TabletAfter, Plan!Phases, QueueInv

-----------------------------------------------------------------------------
(* A plan is made                                                           *)

LEMMA Orders ==
  ASSUME NEW a \in {<<"remove">>, <<>>}, NEW b \in {<<"upgrade">>, <<>>}, NEW c \in {<<"install">>, <<>>},
         NEW order \in {a \o b \o c, c \o a \o b}
  PROVE  Ordered(order) /\ (a = <<"remove">> => Holds(order, "remove"))
<1>1. order \in Seq(Plan!Phases)
  <2>1. "remove" \in Plan!Phases /\ "upgrade" \in Plan!Phases /\ "install" \in Plan!Phases
    BY DEF Plan!Phases
  <2>2. a \in Seq(Plan!Phases) /\ b \in Seq(Plan!Phases) /\ c \in Seq(Plan!Phases)
    <3>1. <<>> \in Seq(Plan!Phases)
      OBVIOUS
    <3>2. \A x \in Plan!Phases : <<x>> \in Seq(Plan!Phases)
      OBVIOUS
    <3> QED BY <2>1, <3>1, <3>2
  <2>3. a \o b \in Seq(Plan!Phases) /\ c \o a \in Seq(Plan!Phases)
    BY <2>2, ConcatProperties
  <2> QED BY ZenonT(40), <2>2, <2>3, ConcatProperties
<1>2. CASE a = <<>>
  <2>1. ASSUME b = <<>> \/ b = <<"upgrade">>, c = <<>> \/ c = <<"install">>
        PROVE  \A k \in 1..Len(order) : order[k] # "remove"
    <3>1. order \in {<<>> \o b \o c, c \o <<>> \o b}
      BY <1>2
    <3>2. CASE b = <<>> /\ c = <<>>
      BY <3>1, <3>2
    <3>3. CASE b = <<"upgrade">> /\ c = <<>>
      BY <3>1, <3>3
    <3>4. CASE b = <<>> /\ c = <<"install">>
      BY <3>1, <3>4
    <3>5. CASE b = <<"upgrade">> /\ c = <<"install">>
      BY <3>1, <3>5
    <3> QED BY <2>1, <3>2, <3>3, <3>4, <3>5
  <2> QED BY <1>1, <1>2, <2>1 DEF Ordered
<1>3. CASE a = <<"remove">> /\ order = a \o b \o c
  <2>1. order[1] = "remove" /\ 1 \in 1..Len(order) /\ \A k \in 1..Len(order) : k # 1 => order[k] # "remove"
    BY <1>3
  <2> QED BY <1>1, <1>3, <2>1 DEF Ordered, Holds
<1>4. CASE a = <<"remove">> /\ order = c \o a \o b /\ c = <<>>
  <2>1. order[1] = "remove" /\ 1 \in 1..Len(order) /\ \A k \in 1..Len(order) : k # 1 => order[k] # "remove"
    BY <1>4
  <2> QED BY <1>1, <1>4, <2>1 DEF Ordered, Holds
<1>5. CASE a = <<"remove">> /\ order = c \o a \o b /\ c = <<"install">>
  <2>1. /\ order[1] = "install" /\ order[2] = "remove" /\ 2 \in 1..Len(order)
        /\ \A k \in 1..Len(order) : k # 2 => order[k] # "remove"
    BY <1>5
  <2> QED BY <1>1, <1>5, <2>1 DEF Ordered, Holds
<1> QED BY <1>2, <1>3, <1>4, <1>5

LEMMA PlanMade == PlanInv /\ Plan!handleApplyPlan => PlanInv'
<1> SUFFICES ASSUME PlanInv, Plan!handleApplyPlan PROVE PlanInv'
  OBVIOUS
<1> DEFINE sync == modsMismatch
           installs == IF modsMismatch \/ installQueue = {} THEN {} ELSE Plan!installRequest(installQueue, answers)
           targets == modsInstalled \cap IncompatibleMods = {}
           R == IF uninstallQueue = {} THEN {} ELSE uninstallQueue \cup impliedRemovals
           U == IF ~sync THEN upgradeQueue
                ELSE (IF targets THEN candidates ELSE modsInstalled \ IncompatibleMods) \ uninstallQueue
           I == (installs \cap installQueue) \cup implied
           M == implied \cup (impliedRemovals \ uninstallQueue)
           wanted == [remove |-> R, upgrade |-> U, install |-> I, implied |-> M,
                      sync |-> sync, targets |-> targets, order |-> <<>>]
           a == IF R # {} THEN <<"remove">> ELSE <<>>
           b == IF U # {} \/ sync THEN <<"upgrade">> ELSE <<>>
           c == IF installs # {} THEN <<"install">> ELSE <<>>
           order == IF uninstallQueue # {} /\ removalInstallFirst THEN c \o a \o b ELSE a \o b \o c
<1>1. /\ plan' = [wanted EXCEPT !.order = order] /\ pc' = "next" /\ ~interrupted' /\ applyResult' = None
      /\ online
      /\ UNCHANGED <<onTablet, outdated, osChanged, online, modsInstalled, candidates, modsMismatch,
                     installQueue, uninstallQueue, upgradeQueue, starring, implied, installSolving>>
  BY DEF Plan!handleApplyPlan, Plan!runPlan, Plan!CanStage, Plan!Ready, Plan!Names, Plan!tablet, Plan!known,
         Plan!queues
<1>2. wanted \in [remove : {R}, upgrade : {U}, install : {I}, implied : {M}, sync : {sync},
                  targets : {targets}, order : {<<>>}]
  OBVIOUS
<1>3. (a = <<>> => R = {}) /\ Ordered(order) /\ (a = <<"remove">> => Holds(order, "remove"))
  <2>1. /\ a \in {<<"remove">>, <<>>} /\ b \in {<<"upgrade">>, <<>>} /\ c \in {<<"install">>, <<>>}
        /\ order \in {a \o b \o c, c \o a \o b} /\ (a = <<>> => R = {})
    OBVIOUS
  <2> HIDE DEF a, b, c, order
  <2> QED BY <2>1, Orders
<1>4. /\ (I \ M) \cap R = {} /\ (R \ M) \cap U = {}
      /\ (sync => I \subseteq M) /\ (~sync => I \cap U = {})
  BY DEF PlanInv, QueueInv
<1>5. /\ I \ M \subseteq onTablet \cup installQueue
      /\ (R \ M) \cap onTablet \subseteq uninstallQueue
      /\ ~sync => U \cap outdated \subseteq upgradeQueue
  OBVIOUS
<1>6. a = <<>> \/ a = <<"remove">>
  OBVIOUS
<1> HIDE DEF R, U, I, M, sync, targets, order, a, b, c, wanted
<1>7. plan' \in [remove : {R}, upgrade : {U}, install : {I}, implied : {M}, sync : {sync},
                 targets : {targets}, order : {order}]
  BY <1>1, <1>2
<1>8. /\ IsPlan(plan') /\ plan'.remove = R /\ plan'.upgrade = U /\ plan'.install = I /\ plan'.implied = M
      /\ plan'.sync = sync /\ plan'.order = order
  BY <1>7, PlanRecord
<1>9. ApplyInv'
  <2>1. Disjoint(plan')
    BY <1>4, <1>8 DEF Disjoint
  <2>2. OrderInv'
    BY <1>1, <1>3, <1>6, <1>8 DEF OrderInv, Gone
  <2>3. ChangesKept'
    BY <1>1, <1>5, <1>8 DEF ChangesKept
  <2> QED BY <1>1, <1>8, <2>1, <2>2, <2>3 DEF ApplyInv
<1>10. QueueInv' /\ SolveInv'
  BY <1>1 DEF PlanInv, QueueInv, SolveInv
<1> QED BY <1>9, <1>10 DEF PlanInv

-----------------------------------------------------------------------------
(* A plan goes on                                                           *)

LEMMA PlanEdits ==
  ASSUME NEW p, IsPlan(p), NEW x
  PROVE  /\ [p EXCEPT !.upgrade = x] \in
              [remove : {p.remove}, upgrade : {x}, install : {p.install}, implied : {p.implied},
               sync : {p.sync}, targets : {p.targets}, order : {p.order}]
         /\ [p EXCEPT !.order = x] \in
              [remove : {p.remove}, upgrade : {p.upgrade}, install : {p.install}, implied : {p.implied},
               sync : {p.sync}, targets : {p.targets}, order : {x}]
  BY DEF IsPlan

LEMMA NextPhaseInv == PlanInv /\ Plan!NextPhase => PlanInv'
<1> SUFFICES ASSUME PlanInv, Plan!NextPhase PROVE PlanInv'
  OBVIOUS
<1> USE DEF Plan!tablet, Plan!known, Plan!queues, Plan!solved, Plan!result
<1>1. pc = "next" /\ UNCHANGED <<onTablet, outdated, online, modsInstalled, candidates, modsMismatch,
                                 installQueue, uninstallQueue, upgradeQueue, starring>>
  BY DEF Plan!NextPhase, Plan!OnlyPlan
<1>2. CASE pc' = "idle" /\ Plan!InstallEffect
  BY <1>1, <1>2, EffectSolves DEF PlanInv, QueueInv, ApplyInv
<1>3. CASE /\ plan.order # <<>> /\ UNCHANGED <<plan, interrupted, applyResult, installSolving, implied>>
           /\ pc' = IF Head(plan.order) = "upgrade" /\ plan.sync /\ ~plan.targets
                    THEN "candidates" ELSE "running"
  <2>1. QueueInv' /\ SolveInv'
    BY <1>1, <1>3 DEF PlanInv, QueueInv, SolveInv
  <2>2. OrderInv /\ Head(plan.order) = plan.order[1]
    BY <1>1, <1>3 DEF PlanInv, ApplyInv, OrderInv, Ordered
  <2>3. OrderInv'
    BY <1>1, <1>3, <2>2 DEF OrderInv, Gone
  <2> QED BY <1>1, <1>3, <2>1, <2>3 DEF PlanInv, ApplyInv, ChangesKept
<1> QED BY <1>1, <1>2, <1>3 DEF Plan!NextPhase, Plan!Over, Plan!OnlyPlan

LEMMA CandidatesFoundInv == PlanInv /\ Plan!CandidatesFound => PlanInv'
<1> SUFFICES ASSUME PlanInv, Plan!CandidatesFound PROVE PlanInv'
  OBVIOUS
<1> USE DEF Plan!tablet, Plan!known, Plan!queues, Plan!solved, Plan!result
<1>1. /\ pc = "candidates" /\ pc' = "running"
      /\ UNCHANGED <<onTablet, outdated, online, modsInstalled, candidates, modsMismatch, installQueue,
                     uninstallQueue, upgradeQueue, starring, interrupted, applyResult, installSolving, implied>>
      /\ plan' = [plan EXCEPT !.upgrade = outdated] \/ UNCHANGED plan
  BY DEF Plan!CandidatesFound, Plan!OnlyPlan
<1>2. QueueInv' /\ SolveInv'
  BY <1>1 DEF PlanInv, QueueInv, SolveInv
<1>3. IsPlan(plan) /\ plan.sync /\ Gone
  <2>1. OrderInv /\ IsPlan(plan) /\ plan.sync /\ plan.order[1] = "upgrade" /\ plan.order # <<>>
        /\ plan.order \in Seq(Plan!Phases)
    BY <1>1 DEF PlanInv, ApplyInv, OrderInv, Ordered
  <2>2. 1 \in 1..Len(plan.order)
    BY <2>1
  <2>3. \A k \in 1..Len(plan.order) : k >= 1
    BY <2>1
  <2>4. ~Holds(plan.order, "remove")
    BY <2>1, <2>2, <2>3 DEF OrderInv, Ordered, Holds
  <2> QED BY <2>1, <2>4 DEF OrderInv
<1>4. CASE UNCHANGED plan
  BY <1>1, <1>2, <1>4 DEF PlanInv, ApplyInv, OrderInv, Gone, ChangesKept
<1>5. CASE plan' = [plan EXCEPT !.upgrade = outdated]
  <2>1. /\ IsPlan(plan') /\ plan'.remove = plan.remove /\ plan'.upgrade = outdated
        /\ plan'.install = plan.install /\ plan'.implied = plan.implied /\ plan'.sync = plan.sync
        /\ plan'.order = plan.order
    <3>1. plan' \in [remove : {plan.remove}, upgrade : {outdated}, install : {plan.install},
                     implied : {plan.implied}, sync : {plan.sync}, targets : {plan.targets}, order : {plan.order}]
      BY <1>3, <1>5, PlanEdits
    <3> QED BY <3>1, PlanRecord
  <2>2. Disjoint(plan')
    BY <1>1, <1>3, <2>1 DEF Gone, PlanInv, ApplyInv, Disjoint
  <2> QED BY <1>1, <1>2, <1>3, <2>1, <2>2 DEF PlanInv, ApplyInv, OrderInv, Gone, ChangesKept
<1> QED BY <1>1, <1>4, <1>5

LEMMA PhaseEndsInv ==
  ASSUME PlanInv, NEW outcome \in {"succeeded", "failed", "stopped"}, NEW S, NEW told,
         S \subseteq Plan!Names(plan, Head(plan.order)), told \subseteq S,
         outcome = "succeeded" => S = Plan!Names(plan, Head(plan.order)),
         Plan!PhaseEnds(outcome, S, told)
  PROVE  PlanInv'
<1> DEFINE phase == Head(plan.order)
<1>1. /\ pc = "running" /\ pc' = outcome /\ Plan!TabletAfter(phase, S)
      /\ installQueue' = installQueue \ told /\ uninstallQueue' = uninstallQueue \ told
      /\ upgradeQueue' = upgradeQueue \ told /\ (modsMismatch' => modsMismatch)
      /\ UNCHANGED <<online, modsInstalled, candidates, starring, plan, interrupted, applyResult>>
      /\ Plan!InstallEffect
  BY DEF Plan!PhaseEnds, Plan!unqueue, Plan!result
<1>2. IsPlan(plan) /\ OrderInv /\ Disjoint(plan) /\ plan.order # <<>> /\ plan.order \in Seq(Plan!Phases)
  BY <1>1 DEF PlanInv, ApplyInv, OrderInv, Ordered
<1>3. phase \in Plan!Phases /\ phase = plan.order[1]
  BY <1>2
<1>4. /\ phase = "remove" => S \subseteq plan.remove /\ (outcome = "succeeded" => S = plan.remove)
      /\ phase = "upgrade" => S \subseteq plan.upgrade
      /\ phase = "install" => S \subseteq plan.install
  BY DEF Plan!Names
<1> HIDE DEF phase
<1>5. /\ outdated' \subseteq outdated /\ outdated' \subseteq onTablet'
      /\ phase = "remove" => onTablet' = onTablet \ S /\ outdated' = outdated \ S
      /\ phase = "install" => onTablet' = onTablet \cup S /\ outdated' = outdated
      /\ phase = "upgrade" => onTablet' = onTablet /\ outdated' = outdated \ S
  BY <1>1, <1>3, TabletChanges DEF PlanInv
<1>6. SolveInv' /\ implied' \in {{}, implied}
  BY <1>1, EffectSolves
<1>7. QueueInv'
  BY <1>1, <1>5, <1>6 DEF PlanInv, QueueInv
<1>8. OrderInv'
  <2>1. Gone => Gone'
    BY <1>1, <1>5 DEF Gone
  <2>2. outcome = "succeeded" /\ phase = "remove" => Gone'
    BY <1>1, <1>4, <1>5 DEF Gone
  <2> QED BY <1>1, <1>2, <1>3, <2>1, <2>2 DEF OrderInv
<1>9. ChangesKept => ChangesKept'
  <2>1. CASE phase = "remove"
    BY <1>1, <1>2, <1>4, <1>5, <2>1 DEF ChangesKept, Disjoint
  <2>2. CASE phase = "upgrade"
    BY <1>1, <1>2, <1>4, <1>5, <2>2 DEF ChangesKept, Disjoint
  <2>3. CASE phase = "install"
    BY <1>1, <1>2, <1>4, <1>5, <2>3 DEF ChangesKept, Disjoint
  <2> QED BY <1>3, <2>1, <2>2, <2>3 DEF Plan!Phases
<1>10. ApplyInv'
  BY <1>1, <1>2, <1>8, <1>9 DEF PlanInv, ApplyInv
<1> QED BY <1>6, <1>7, <1>10 DEF PlanInv

LEMMA TailOrder ==
  ASSUME NEW o, o # <<>>, Ordered(o)
  PROVE  /\ Ordered(Tail(o))
         /\ Holds(o, "remove") => o[1] = "remove" \/ Holds(Tail(o), "remove")
<1>1. o \in Seq(Plan!Phases) /\ Len(o) \in Nat /\ Len(o) # 0
  BY DEF Ordered
<1>2. /\ Tail(o) \in Seq(Plan!Phases) /\ Len(Tail(o)) = Len(o) - 1
      /\ \A k \in 1..Len(Tail(o)) : Tail(o)[k] = o[k + 1]
  BY <1>1
<1>3. Ordered(Tail(o))
  BY <1>1, <1>2 DEF Ordered
<1>4. ASSUME Holds(o, "remove"), o[1] # "remove" PROVE Holds(Tail(o), "remove")
  <2>1. PICK k \in 1..Len(o) : o[k] = "remove"
    BY <1>4 DEF Holds
  <2>2. k - 1 \in 1..Len(Tail(o)) /\ Tail(o)[k - 1] = o[k]
    BY <1>1, <1>2, <1>4, <2>1
  <2> QED BY <2>1, <2>2 DEF Holds
<1> QED BY <1>3, <1>4

LEMMA RefreshedInv == PlanInv /\ Plan!Refreshed => PlanInv'
<1> SUFFICES ASSUME PlanInv, Plan!Refreshed PROVE PlanInv'
  OBVIOUS
<1> USE DEF Plan!tablet, Plan!queues, Plan!result
<1>1. /\ pc \in {"succeeded", "stopped", "failed"} /\ Plan!InstallEffect
      /\ UNCHANGED <<onTablet, outdated, online, modsMismatch, starring, installQueue, uninstallQueue>>
      /\ \/ modsInstalled' = onTablet /\ candidates' = outdated /\ upgradeQueue' = upgradeQueue \cap outdated
         \/ UNCHANGED <<modsInstalled, candidates, upgradeQueue>>
      /\ \/ pc' = "idle"
         \/ /\ pc = "succeeded" /\ pc' = "next" /\ plan' = [plan EXCEPT !.order = Tail(plan.order)]
            /\ UNCHANGED <<interrupted, applyResult>>
  BY DEF Plan!Refreshed, Plan!Known, Plan!Over
<1>2. SolveInv' /\ implied' \in {{}, implied}
  BY <1>1, EffectSolves
<1>3. QueueInv'
  BY <1>1, <1>2 DEF PlanInv, QueueInv
<1>4. CASE pc' = "idle"
  BY <1>2, <1>3, <1>4 DEF PlanInv, ApplyInv
<1>5. CASE /\ pc = "succeeded" /\ pc' = "next" /\ plan' = [plan EXCEPT !.order = Tail(plan.order)]
           /\ UNCHANGED <<interrupted, applyResult>>
  <2>1. IsPlan(plan) /\ OrderInv /\ plan.order # <<>> /\ Ordered(plan.order)
    BY <1>5 DEF PlanInv, ApplyInv, OrderInv
  <2>2. /\ IsPlan(plan') /\ plan'.remove = plan.remove /\ plan'.upgrade = plan.upgrade
        /\ plan'.install = plan.install /\ plan'.implied = plan.implied /\ plan'.sync = plan.sync
        /\ plan'.order = Tail(plan.order)
    <3>1. plan' \in [remove : {plan.remove}, upgrade : {plan.upgrade}, install : {plan.install},
                     implied : {plan.implied}, sync : {plan.sync}, targets : {plan.targets},
                     order : {Tail(plan.order)}]
      BY <1>5, <2>1, PlanEdits
    <3> QED BY <3>1, PlanRecord
  <2>3. OrderInv'
    BY <1>1, <1>5, <2>1, <2>2, TailOrder DEF OrderInv, Gone
  <2>4. ChangesKept => ChangesKept'
    BY <1>1, <2>2 DEF ChangesKept
  <2>5. ApplyInv'
    BY <1>1, <1>5, <2>2, <2>3, <2>4 DEF PlanInv, ApplyInv, Disjoint
  <2> QED BY <1>2, <1>3, <2>5 DEF PlanInv
<1> QED BY <1>1, <1>4, <1>5

-----------------------------------------------------------------------------
(* Every other step                                                         *)

LEMMA ConnectionInv == PlanInv /\ (Plan!ConnectionLost \/ Plan!ConnectionRestored) => PlanInv'
<1> SUFFICES ASSUME PlanInv, Plan!ConnectionLost \/ Plan!ConnectionRestored PROVE PlanInv'
  OBVIOUS
<1> USE DEF Plan!tablet, Plan!applying, Plan!result
<1>1. /\ Plan!InstallEffect /\ installQueue' = {} /\ uninstallQueue' = {} /\ upgradeQueue' = {}
      /\ UNCHANGED <<plan, applyResult, starring>>
  BY DEF Plan!ConnectionLost, Plan!ConnectionRestored, Plan!Resolve
<1>2. SolveInv' /\ implied' \in {{}, implied}
  BY <1>1, EffectSolves
<1>3. CASE Plan!ConnectionRestored
  <2>1. /\ ~online /\ online' /\ candidates' = outdated /\ modsInstalled' = onTablet
        /\ UNCHANGED <<onTablet, outdated, pc, interrupted>>
    BY <1>3 DEF Plan!ConnectionRestored
  <2>2. QueueInv'
    BY <1>1, <1>2, <2>1 DEF PlanInv, QueueInv
  <2>3. ApplyInv'
    BY <1>1, <2>1 DEF PlanInv, ApplyInv, OrderInv, Gone
  <2> QED BY <1>2, <2>2, <2>3 DEF PlanInv
<1>4. CASE Plan!ConnectionLost
  <2>1. interrupted' /\ ~modsMismatch' /\ UNCHANGED <<modsInstalled, candidates>>
    BY <1>4 DEF Plan!ConnectionLost
  <2>2. CASE pc = "running" /\ pc' = "failed" /\ \E S : Plan!TabletAfter(Head(plan.order), S)
    <3>1. plan.order # <<>> /\ plan.order \in Seq(Plan!Phases)
      BY <2>2 DEF PlanInv, ApplyInv, OrderInv, Ordered
    <3>2. Head(plan.order) \in Plan!Phases
      BY <3>1
    <3>3. outdated' \subseteq outdated /\ outdated' \subseteq onTablet'
      BY <2>2, <3>2, TabletChanges DEF PlanInv
    <3>4. QueueInv'
      BY <1>1, <1>2, <2>1, <3>3 DEF PlanInv, QueueInv
    <3>5. ApplyInv'
      BY <1>1, <2>1, <2>2, <3>3 DEF PlanInv, ApplyInv, OrderInv, Gone
    <3> QED BY <1>2, <3>4, <3>5 DEF PlanInv
  <2>3. CASE UNCHANGED <<pc, onTablet, outdated>>
    <3>1. QueueInv'
      BY <1>1, <1>2, <2>1, <2>3 DEF PlanInv, QueueInv
    <3>2. ApplyInv'
      BY <1>1, <2>1, <2>3 DEF PlanInv, ApplyInv, OrderInv, Gone
    <3> QED BY <1>2, <3>1, <3>2 DEF PlanInv
  <2> QED BY <1>4, <2>2, <2>3 DEF Plan!ConnectionLost
<1> QED BY <1>3, <1>4

LEMMA StagingInv ==
  ASSUME PlanInv,
         \/ \E m \in Mods : \/ Plan!toggleInstallQueue(m) \/ Plan!toggleUninstallQueue(m)
                            \/ Plan!toggleUpgradeQueue(m)
         \/ Plan!handleUpdateAll \/ Plan!StageRemovals \/ Plan!clearAllQueues \/ Plan!StarredQueued
  PROVE  PlanInv'
<1> USE DEF Plan!tablet, Plan!known, Plan!queues, Plan!OnlyQueues, Plan!CanStage, Plan!Ready, Plan!Busy
<1>1. ASSUME NEW m \in Mods, Plan!toggleInstallQueue(m) PROVE PlanInv'
  <2>1. PICK installs : /\ Plan!Queue(installs, uninstallQueue, upgradeQueue)
                        /\ installs \subseteq installQueue \cup ({m} \ uninstallQueue)
    BY <1>1 DEF Plan!toggleInstallQueue, Plan!queueInstalls
  <2>2. m \notin candidates /\ pc = "idle" /\ starring' = starring
        /\ UNCHANGED <<onTablet, outdated, online, modsInstalled, candidates, modsMismatch>>
    BY <1>1 DEF Plan!toggleInstallQueue, PlanInv, QueueInv
  <2>3. installs \cap candidates = {} /\ installs \cap uninstallQueue = {}
    BY <2>1, <2>2 DEF PlanInv, QueueInv
  <2> QED BY <2>1, <2>2, <2>3, QueueChanges DEF PlanInv, QueueInv
<1>2. ASSUME NEW m \in Mods, Plan!toggleUninstallQueue(m) PROVE PlanInv'
  <2>1. PICK removals, upgrades :
          /\ Plan!Queue(installQueue, removals, upgrades)
          /\ \/ removals \subseteq uninstallQueue /\ upgrades = upgradeQueue
             \/ removals \subseteq uninstallQueue \cup ({m} \ installQueue) /\ upgrades = upgradeQueue \ {m}
    BY <1>2 DEF Plan!toggleUninstallQueue, Plan!addToUninstallQueue
  <2>2. pc = "idle" /\ starring' = starring
        /\ UNCHANGED <<onTablet, outdated, online, modsInstalled, candidates, modsMismatch>>
    BY <1>2 DEF Plan!toggleUninstallQueue
  <2>3. /\ installQueue \cap removals = {} /\ upgrades \cap removals = {} /\ upgrades \subseteq upgradeQueue
    BY <2>1 DEF PlanInv, QueueInv
  <2> QED BY <2>1, <2>2, <2>3, QueueChanges DEF PlanInv, QueueInv
<1>3. ASSUME NEW m \in Mods, Plan!toggleUpgradeQueue(m) PROVE PlanInv'
  <2>1. PICK upgrades : /\ Plan!Queue(installQueue, uninstallQueue, upgrades)
                        /\ upgrades \subseteq upgradeQueue \cup (candidates \ uninstallQueue)
    BY <1>3 DEF Plan!toggleUpgradeQueue
  <2>2. pc = "idle" /\ starring' = starring /\ ~modsMismatch
        /\ UNCHANGED <<onTablet, outdated, online, modsInstalled, candidates, modsMismatch>>
    BY <1>3 DEF Plan!toggleUpgradeQueue
  <2>3. upgrades \subseteq candidates /\ upgrades \cap uninstallQueue = {}
    BY <2>1 DEF PlanInv, QueueInv
  <2> QED BY <2>1, <2>2, <2>3, QueueChanges DEF PlanInv, QueueInv
<1>4. CASE Plan!handleUpdateAll
  <2> DEFINE upgrades == upgradeQueue \cup (candidates \ uninstallQueue)
  <2>1. pc = "idle" /\ starring' = starring /\ ~modsMismatch
        /\ Plan!Queue(installQueue, uninstallQueue, upgrades)
        /\ UNCHANGED <<onTablet, outdated, online, modsInstalled, candidates, modsMismatch>>
    BY <1>4 DEF Plan!handleUpdateAll
  <2>2. upgrades \subseteq candidates /\ upgrades \cap uninstallQueue = {}
    BY DEF PlanInv, QueueInv
  <2> HIDE DEF upgrades
  <2> QED BY <2>1, <2>2, QueueChanges DEF PlanInv, QueueInv
<1>5. CASE Plan!StageRemovals
  <2>1. PICK removals : /\ Plan!Queue(installQueue, removals, upgradeQueue)
                        /\ removals \cap installQueue \subseteq uninstallQueue
    BY <1>5 DEF Plan!StageRemovals, Plan!addToUninstallQueue
  <2>2. pc = "idle" /\ starring' = starring /\ modsMismatch
        /\ UNCHANGED <<onTablet, outdated, online, modsInstalled, candidates, modsMismatch>>
    BY <1>5 DEF Plan!StageRemovals
  <2>3. installQueue \cap removals = {} /\ upgradeQueue = {}
    BY <2>1, <2>2 DEF PlanInv, QueueInv
  <2> QED BY <2>1, <2>2, <2>3, QueueChanges DEF PlanInv, QueueInv
<1>6. CASE Plan!clearAllQueues
  <2>1. pc = "idle" /\ starring' = starring /\ Plan!Queue({}, {}, {})
        /\ UNCHANGED <<onTablet, outdated, online, modsInstalled, candidates, modsMismatch>>
    BY <1>6 DEF Plan!clearAllQueues
  <2> QED BY <2>1, QueueChanges
<1>7. CASE Plan!StarredQueued
  <2> DEFINE installs == installQueue \cup ({starring} \ uninstallQueue)
  <2>1. starring # None /\ starring' = None /\ Plan!Queue(installs, uninstallQueue, upgradeQueue)
        /\ UNCHANGED <<onTablet, outdated, online, modsInstalled, candidates, modsMismatch>>
    BY <1>7 DEF Plan!StarredQueued, Plan!queueInstalls
  <2>2. installs \cap candidates = {} /\ installs \cap uninstallQueue = {} /\ installQueue \subseteq installs
    BY <2>1 DEF PlanInv, QueueInv
  <2> HIDE DEF installs
  <2> QED BY <2>1, <2>2, QueueChanges DEF PlanInv, QueueInv
<1> QED BY <1>1, <1>2, <1>3, <1>4, <1>5, <1>6, <1>7

LEMMA AnswersInv ==
  ASSUME PlanInv,
         \/ \E c : \/ Plan!InstallChecked(c) \/ Plan!InstallCheckFails(c) \/ Plan!RemovalChecked(c)
         \/ \E q : Plan!OpenQuestion(q)
         \/ Plan!changeProvider \/ Plan!ProvidersFound \/ Plan!answerQuestion \/ Plan!CancelQuestion
         \/ Plan!dropCompanion
  PROVE  PlanInv'
<1> USE DEF Plan!tablet, Plan!known, Plan!queues, Plan!asked, Plan!solved, Plan!applying, Plan!result
<1> DEFINE Alone == UNCHANGED <<onTablet, outdated, online, modsInstalled, candidates, modsMismatch,
                      installQueue, uninstallQueue, upgradeQueue, starring, plan, pc, interrupted, applyResult>>
<1>1. ASSUME NEW c, Plan!InstallChecked(c) PROVE PlanInv'
  <2>1. /\ Alone /\ c = Plan!InstallDeps /\ installSolving
        /\ \/ UNCHANGED <<implied, installSolving, checked>>
           \/ /\ \E X : implied' = X \ (installQueue \cup modsInstalled)
              /\ ~installSolving' /\ checked' = c /\ UNCHANGED answers
    BY <1>1 DEF Plan!InstallChecked, Plan!Unasked
  <2>2. SolveInv'
    BY <2>1 DEF PlanInv, SolveInv, Plan!InstallDeps
  <2>3. implied' \cap candidates = {}
    BY <2>1 DEF PlanInv, QueueInv
  <2> QED BY <2>1, <2>2, <2>3, SolvingChanges
<1>2. ASSUME NEW c, Plan!InstallCheckFails(c) PROVE PlanInv'
  <2>1. /\ Alone /\ c = Plan!InstallDeps /\ installSolving /\ ~installSolving' /\ checked' = c
        /\ UNCHANGED <<implied, answers>>
    BY <1>2 DEF Plan!InstallCheckFails, Plan!Unasked
  <2>2. SolveInv'
    BY <2>1 DEF PlanInv, SolveInv, Plan!InstallDeps
  <2> QED BY <2>1, <2>2, SolvingChanges DEF PlanInv, QueueInv
<1>3. ASSUME Alone, UNCHANGED <<implied, installSolving, checked, answers>> PROVE PlanInv'
  <2>1. SolveInv'
    BY <1>3 DEF PlanInv, SolveInv, Plan!InstallDeps
  <2> QED BY <1>3, <2>1, SolvingChanges DEF PlanInv, QueueInv
<1>4. ASSUME NEW c, Plan!RemovalChecked(c) PROVE PlanInv'
  BY <1>3, <1>4 DEF Plan!RemovalChecked, Plan!Unasked
<1>5. ASSUME NEW q, Plan!OpenQuestion(q) PROVE PlanInv'
  BY <1>3, <1>5 DEF Plan!OpenQuestion
<1>6. CASE Plan!changeProvider \/ Plan!ProvidersFound \/ Plan!CancelQuestion
  BY <1>3, <1>6 DEF Plan!changeProvider, Plan!ProvidersFound, Plan!CancelQuestion
<1>7. CASE Plan!answerQuestion \/ Plan!dropCompanion
  <2>1. /\ Alone
        /\ \E a, left : Plan!Answered(a, left)
    BY <1>7 DEF Plan!answerQuestion, Plan!dropCompanion
  <2>2. installSolving' = (online /\ installQueue # {} /\ (~Plan!Busy \/ installSolving)) /\ UNCHANGED implied
    BY <2>1 DEF Plan!Answered
  <2>3. SolveInv'
    BY <2>1, <2>2 DEF PlanInv, SolveInv, Plan!Busy
  <2> QED BY <2>1, <2>2, <2>3, SolvingChanges DEF PlanInv, QueueInv
<1> QED BY <1>1, <1>2, <1>4, <1>5, <1>6, <1>7

LEMMA PlanStep == PlanInv /\ Plan!Next => PlanInv'
<1> SUFFICES ASSUME PlanInv, Plan!Next PROVE PlanInv'
  OBVIOUS
<1> USE DEF Plan!tablet, Plan!known, Plan!queues, Plan!asked, Plan!solved, Plan!applying, Plan!result
<1>1. ASSUME NEW m \in Mods, Plan!installStarred(m) PROVE PlanInv'
  <2>1. QueueInv' /\ SolveInv'
    BY <1>1 DEF Plan!installStarred, PlanInv, QueueInv, SolveInv, Plan!InstallDeps
  <2> QED BY <1>1, <2>1, ApplyKept DEF Plan!installStarred, PlanInv
<1>2. CASE Plan!Operation
  <2>1. PICK outcome \in {"succeeded", "failed", "stopped"} : \E S, told :
          /\ S \subseteq Plan!Names(plan, Head(plan.order)) /\ told \subseteq S
          /\ outcome = "succeeded" => S = Plan!Names(plan, Head(plan.order))
          /\ Plan!PhaseEnds(outcome, S, told)
    BY <1>2 DEF Plan!Operation
  <2> QED BY <2>1, PhaseEndsInv
<1>3. CASE Plan!stopApply
  <2>1. QueueInv' /\ SolveInv'
    BY <1>3 DEF Plan!stopApply, PlanInv, QueueInv, SolveInv, Plan!InstallDeps
  <2> QED BY <1>3, <2>1, ApplyKept DEF Plan!stopApply, PlanInv
<1>4. CASE Plan!finishApply
  <2>1. QueueInv' /\ SolveInv'
    BY <1>4 DEF Plan!finishApply, PlanInv, QueueInv, SolveInv, Plan!InstallDeps
  <2>2. ApplyInv'
    BY <1>4 DEF Plan!finishApply, PlanInv, ApplyInv
  <2> QED BY <2>1, <2>2 DEF PlanInv
<1> QED BY <1>1, <1>2, <1>3, <1>4, PlanMade, NextPhaseInv, CandidatesFoundInv, RefreshedInv, ConnectionInv,
           StagingInv, AnswersInv DEF Plan!Next

LEMMA PlanAlways == Spec => []PlanInv
  BY PlanInit, PlanKept, PlanStep, PlanSteps, PTL DEF Spec


-----------------------------------------------------------------------------
(* What a plan promises                                                     *)

LEMMA PcStep ==
  Plan!Next =>
    \/ UNCHANGED pc \/ Plan!handleApplyPlan \/ Plan!NextPhase \/ Plan!Refreshed
    \/ pc # "idle" /\ pc' # "idle"
<1> SUFFICES ASSUME Plan!Next
             PROVE  \/ UNCHANGED pc \/ Plan!handleApplyPlan \/ Plan!NextPhase \/ Plan!Refreshed
                    \/ pc # "idle" /\ pc' # "idle"
  OBVIOUS
<1> USE DEF Plan!tablet, Plan!known, Plan!queues, Plan!asked, Plan!solved, Plan!applying, Plan!result,
            Plan!OnlyQueues, Plan!Queue, Plan!Unasked
<1>1. \A m : (\/ Plan!toggleInstallQueue(m) \/ Plan!toggleUninstallQueue(m) \/ Plan!toggleUpgradeQueue(m)
              \/ Plan!installStarred(m))
               => UNCHANGED pc
  BY DEF Plan!toggleInstallQueue, Plan!toggleUninstallQueue, Plan!toggleUpgradeQueue, Plan!installStarred
<1>2. (Plan!handleUpdateAll \/ Plan!StageRemovals \/ Plan!clearAllQueues \/ Plan!StarredQueued) => UNCHANGED pc
  BY DEF Plan!handleUpdateAll, Plan!StageRemovals, Plan!clearAllQueues, Plan!StarredQueued
<1>3. \A c : (Plan!InstallChecked(c) \/ Plan!InstallCheckFails(c) \/ Plan!RemovalChecked(c)) => UNCHANGED pc
  BY DEF Plan!InstallChecked, Plan!InstallCheckFails, Plan!RemovalChecked
<1>4. (\/ (\E q : Plan!OpenQuestion(q)) \/ Plan!changeProvider \/ Plan!ProvidersFound \/ Plan!answerQuestion
       \/ Plan!CancelQuestion \/ Plan!dropCompanion \/ Plan!stopApply \/ Plan!finishApply
       \/ Plan!ConnectionRestored)
      => UNCHANGED pc
  BY DEF Plan!OpenQuestion, Plan!changeProvider, Plan!ProvidersFound, Plan!answerQuestion, Plan!CancelQuestion,
         Plan!dropCompanion, Plan!stopApply, Plan!finishApply, Plan!ConnectionRestored
<1>5. (Plan!CandidatesFound \/ Plan!Operation) => pc # "idle" /\ pc' # "idle"
  BY DEF Plan!CandidatesFound, Plan!Operation, Plan!PhaseEnds
<1>6. Plan!ConnectionLost => UNCHANGED pc \/ (pc # "idle" /\ pc' # "idle")
  BY DEF Plan!ConnectionLost
<1> QED BY <1>1, <1>2, <1>3, <1>4, <1>5, <1>6 DEF Plan!Next

Applies ==
  pc = "idle" /\ pc' = "next" /\ ~plan'.sync /\ plan'.install # {} => checked = Plan!InstallDeps

LEMMA AppliesStep == PlanInv /\ Plan!Next => Applies
<1> SUFFICES ASSUME PlanInv, Plan!Next, pc = "idle", pc' = "next", ~plan'.sync, plan'.install # {}
             PROVE  checked = Plan!InstallDeps
  BY DEF Applies
<1>1. Plan!handleApplyPlan
  BY PcStep DEF Plan!NextPhase, Plan!Refreshed
<1> DEFINE installs == IF modsMismatch \/ installQueue = {} THEN {} ELSE Plan!installRequest(installQueue, answers)
           I == (installs \cap installQueue) \cup implied
           targets == modsInstalled \cap IncompatibleMods = {}
           R == IF uninstallQueue = {} THEN {} ELSE uninstallQueue \cup impliedRemovals
           U == IF ~modsMismatch THEN upgradeQueue
                ELSE (IF targets THEN candidates ELSE modsInstalled \ IncompatibleMods) \ uninstallQueue
           M == implied \cup (impliedRemovals \ uninstallQueue)
           wanted == [remove |-> R, upgrade |-> U, install |-> I, implied |-> M,
                      sync |-> modsMismatch, targets |-> targets, order |-> <<>>]
<1>2. \E order : plan' = [wanted EXCEPT !.order = order]
  BY ZenonT(40), <1>1 DEF Plan!handleApplyPlan, Plan!runPlan
<1>3. plan'.sync = modsMismatch /\ plan'.install = I
  <2> HIDE DEF R, U, I, M, targets
  <2>1. PICK order : plan' = [wanted EXCEPT !.order = order]
    BY <1>2
  <2>2. plan' \in [remove : {R}, upgrade : {U}, install : {I}, implied : {M}, sync : {modsMismatch},
                   targets : {targets}, order : {order}]
    BY <2>1
  <2> QED BY <2>2, PlanRecord
<1>4. ~modsMismatch /\ ~installSolving /\ online
  BY <1>1, <1>3 DEF Plan!handleApplyPlan, Plan!applyBlocked, Plan!CanStage, Plan!Ready
<1>5. installQueue # {}
  BY <1>3 DEF PlanInv, SolveInv
<1> QED BY <1>4, <1>5 DEF PlanInv, SolveInv

(* What Apply runs is what the last check was about: the queues, answers,    *)
(* removals and installed mods did not change since.                        *)
THEOREM PlansAreChecked == Spec => AppliesWhatWasChecked
<1>1. PlanInv /\ Next => Applies \/ UNCHANGED Plan!vars
  BY PlanSteps, AppliesStep
<1>2. UNCHANGED vars => UNCHANGED Plan!vars
  BY PlanSteps
<1> QED BY <1>1, <1>2, PlanAlways, PTL
    DEF Spec, AppliesWhatWasChecked, Plan!AppliesWhatWasChecked, Applies

Over == Plan!Busy /\ pc' = "idle" /\ ~interrupted
DoneOrKept ==
  /\ plan.install \ plan.implied \subseteq onTablet' \cup installQueue'
  /\ (plan.remove \ plan.implied) \cap onTablet' \subseteq uninstallQueue'
  /\ ~plan.sync => plan.upgrade \cap outdated' \subseteq upgradeQueue'

LEMMA OverStep == PlanInv /\ Plan!Next => (Over => DoneOrKept)
<1> SUFFICES ASSUME PlanInv, Plan!Next, Over PROVE DoneOrKept
  OBVIOUS
<1> USE DEF Plan!tablet, Plan!known, Plan!queues, Plan!result
<1>1. ChangesKept /\ pc # "idle" /\ pc' = "idle"
  BY DEF Over, Plan!Busy, PlanInv, ApplyInv
<1>2. Plan!NextPhase \/ Plan!Refreshed
  BY <1>1, PcStep DEF Plan!handleApplyPlan, Plan!runPlan
<1>3. /\ UNCHANGED <<onTablet, outdated, installQueue, uninstallQueue>>
      /\ upgradeQueue' = upgradeQueue \/ upgradeQueue' = upgradeQueue \cap outdated
  BY <1>2 DEF Plan!NextPhase, Plan!Refreshed, Plan!Known, Plan!OnlyPlan
<1> QED BY <1>1, <1>3 DEF ChangesKept, DoneOrKept

(* When a plan is over, every change it was to make is either made on the    *)
(* tablet or still queued for Retry, unless the connection was lost.         *)
THEOREM PlansLoseNoChange == Spec => ChangesDoneOrKept
<1>1. PlanInv /\ Next => (Over => DoneOrKept) \/ UNCHANGED Plan!vars
  BY PlanSteps, OverStep
<1>2. UNCHANGED vars => UNCHANGED Plan!vars
  BY PlanSteps
<1> QED BY <1>1, <1>2, PlanAlways, PTL
    DEF Spec, ChangesDoneOrKept, Plan!ChangesDoneOrKept, Over, DoneOrKept

-----------------------------------------------------------------------------
(* The System tab.  Its runs, its rows and the operation it shows have their *)
(* types by the invariants of TabsProofs.                                   *)

HookRuns == [id : Ids, status : Steps!Statuses]
StepsOpen == {"repair", "uninstall", "guide", "restart", "fsrestore", "sleep"}

TabletTypes == os \in Versions /\ stored \in Versions /\ broken \subseteq Steps!Rows
ChecksTypes ==
  status \in {"lost", "restoring", "connected"} /\ infoRead \in BOOLEAN /\ warningsChecked \in BOOLEAN
RowsTypes ==
  /\ firmware \in Versions \cup {NoVersion} /\ osMismatch \in Versions \cup {NoVersion}
  /\ rowsShown \subseteq Steps!Rows /\ unread \in BOOLEAN
HookTypes == hookRun \in HookRuns \cup {None} /\ prompt \in Ids \cup {0} /\ settling \in Commands \cup {None}
OpenTypes ==
  /\ vellumFailure \in Steps!Vellum \cup {None} /\ vellumReady \in BOOLEAN
  /\ stepsOpen \subseteq StepsOpen /\ planApplying \in BOOLEAN /\ active \in BOOLEAN
StepsOsTypes == stepsOs \in Versions \cup {NoVersion} /\ stepsOsSeenRunning \in BOOLEAN

StepsTypes ==
  /\ StepsInv /\ ShownInv
  /\ TabletTypes /\ ChecksTypes /\ RowsTypes /\ HookTypes /\ OpenTypes /\ StepsOsTypes
  /\ stepsClicks \in 0..MaxClicks

LEMMA StepsTypesMean == StepsTypes => Steps!SystemTypeOK
<1> SUFFICES ASSUME StepsTypes PROVE Steps!SystemTypeOK
  OBVIOUS
<1>1. \A i \in Ids : stepsRuns[i] = None \/ stepsRuns[i] \in Steps!Run
  BY DEF StepsTypes, StepsInv, RunsInv
<1>2. stepsOperation = None \/ stepsOperation \in Steps!Operation
  BY DEF StepsTypes, ShownInv
<1>3. hookRun = None \/ hookRun \in [id : Ids, status : Steps!Statuses]
  BY DEF StepsTypes, HookTypes, HookRuns
<1> QED BY <1>1, <1>2, <1>3 DEF StepsTypes, TabletTypes, ChecksTypes, RowsTypes, HookTypes, OpenTypes,
      StepsOpen, StepsOsTypes, Steps!SystemTypeOK

LEMMA StepsAssumed ==
  /\ Wiped \subseteq Steps!Rows /\ MaxClicks \in Nat
  /\ Commands \subseteq Steps!SystemTasks \cup Steps!Maintenance \cup Steps!Vellum \cup Steps!Others
  BY PageAssumption DEF Steps!SystemAssumption

LEMMA StepsTypesInit == Init => StepsTypes
<1> SUFFICES ASSUME Init PROVE StepsTypes
  OBVIOUS
<1>1. Steps!Init /\ StepsInv
  BY StepsInit DEF Init
<1>2. ShownInv
  BY <1>1 DEF Steps!Init, ShownInv
<1>3. TabletTypes /\ ChecksTypes /\ RowsTypes
  BY <1>1, StepsAssumed DEF Steps!Init, TabletTypes, ChecksTypes, RowsTypes
<1>4. HookTypes /\ OpenTypes /\ StepsOsTypes /\ stepsClicks \in 0..MaxClicks
  <2>1. /\ hookRun = None /\ prompt = 0 /\ settling = None
        /\ vellumFailure = None /\ stepsOpen = {} /\ planApplying = FALSE
        /\ vellumReady \in BOOLEAN /\ active \in BOOLEAN
        /\ stepsOs = NoVersion /\ stepsOsSeenRunning = FALSE /\ stepsClicks = 0
    BY <1>1 DEF Steps!Init
  <2>2. HookTypes
    BY <2>1 DEF HookTypes
  <2>3. OpenTypes
    <3>1. planApplying \in BOOLEAN
      BY <2>1
    <3> QED BY <2>1, <3>1 DEF OpenTypes
  <2>4. StepsOsTypes
    BY <2>1 DEF StepsOsTypes
  <2>5. stepsClicks \in 0..MaxClicks
    BY <2>1, StepsAssumed
  <2> QED BY <2>2, <2>3, <2>4, <2>5
<1> QED BY <1>1, <1>2, <1>3, <1>4 DEF StepsTypes

LEMMA RenderTypes ==
  ASSUME StepsOsTypes, RowsTypes', active' \in BOOLEAN, Steps!AfterRender
  PROVE  StepsOsTypes'
<1>1. stepsOs' \in Versions \cup {NoVersion}
  BY DEF Steps!AfterRender, StepsOsTypes, RowsTypes
<1>2. stepsOsSeenRunning' \in BOOLEAN
  BY DEF Steps!AfterRender, StepsOsTypes
<1> QED BY <1>1, <1>2 DEF StepsOsTypes

LEMMA HookEdits ==
  ASSUME NEW h \in HookRuns, NEW s \in Steps!Statuses
  PROVE  [h EXCEPT !.status = s] \in HookRuns
  BY DEF HookRuns

LEMMA HookBorn ==
  ASSUME NEW i \in Ids
  PROVE  [id |-> i, status |-> "running"] \in HookRuns
  BY DEF HookRuns, Steps!Statuses

LEMMA StartTypes ==
  ASSUME HookTypes, stepsClicks \in 0..MaxClicks, NEW i, NEW t, Steps!start(i, t)
  PROVE  hookRun' = None /\ stepsClicks' \in 0..MaxClicks
  BY StepsAssumed DEF Steps!start, Steps!Click

LEMMA StepsTypesStep == StepsTypes /\ Steps!Next => StepsTypes'
<1> SUFFICES ASSUME StepsTypes, Steps!Next
             PROVE  /\ TabletTypes' /\ ChecksTypes' /\ RowsTypes' /\ HookTypes' /\ OpenTypes' /\ StepsOsTypes'
                    /\ stepsClicks' \in 0..MaxClicks
  BY StepsStep, StaysStep DEF StepsTypes
<1> DEFINE Goal == /\ TabletTypes' /\ ChecksTypes' /\ RowsTypes' /\ HookTypes' /\ OpenTypes' /\ StepsOsTypes'
                   /\ stepsClicks' \in 0..MaxClicks
<1>a. UNCHANGED Steps!tablet => TabletTypes'
  BY DEF StepsTypes, TabletTypes, Steps!tablet
<1>b. UNCHANGED Steps!checks => ChecksTypes'
  BY DEF StepsTypes, ChecksTypes, Steps!checks
<1>c. UNCHANGED Steps!rows => RowsTypes'
  BY DEF StepsTypes, RowsTypes, Steps!rows
<1>d. UNCHANGED <<hookRun, prompt, settling>> => HookTypes'
  BY DEF StepsTypes, HookTypes
<1>e. UNCHANGED <<Steps!dialogs, planApplying, active>> => OpenTypes'
  BY DEF StepsTypes, OpenTypes, Steps!dialogs
<1>f. UNCHANGED Steps!steps => StepsOsTypes'
  BY DEF StepsTypes, StepsOsTypes, Steps!steps
<1>g. UNCHANGED stepsClicks => stepsClicks' \in 0..MaxClicks
  BY DEF StepsTypes
<1>h. Steps!AfterRender /\ RowsTypes' /\ OpenTypes' => StepsOsTypes'
  BY RenderTypes DEF StepsTypes, OpenTypes
<1>i. Steps!Click => stepsClicks' \in 0..MaxClicks
  BY StepsAssumed DEF StepsTypes, Steps!Click
<1>j. \A i, t : Steps!start(i, t) => hookRun' = None /\ stepsClicks' \in 0..MaxClicks
  BY StartTypes DEF StepsTypes
<1>k. \A t \in Commands : Steps!Settling(t) => settling' \in Commands \cup {None}
  BY DEF StepsTypes, HookTypes, Steps!Settling
<1>l. prompt \in Ids \cup {0} /\ settling \in Commands \cup {None} /\ hookRun \in HookRuns \cup {None}
  BY DEF StepsTypes, HookTypes
<1>m. /\ vellumFailure \in Steps!Vellum \cup {None} /\ vellumReady \in BOOLEAN
      /\ stepsOpen \subseteq StepsOpen /\ planApplying \in BOOLEAN /\ active \in BOOLEAN
  BY DEF StepsTypes, OpenTypes
<1>n. TabletTypes /\ ChecksTypes /\ RowsTypes
  BY DEF StepsTypes
<1>1. ASSUME NEW t \in Commands, Steps!ClickRow(t) PROVE Goal
  <2>1. HookTypes' /\ stepsClicks' \in 0..MaxClicks
    BY <1>1, <1>j, <1>k, <1>l DEF Steps!ClickRow, HookTypes
  <2> QED BY <1>1, <2>1, <1>a, <1>b, <1>c, <1>e, <1>f DEF Steps!ClickRow
<1>2. ASSUME NEW t \in Commands, Steps!ClickInstall(t) PROVE Goal
  <2>1. HookTypes' /\ stepsClicks' \in 0..MaxClicks
    BY <1>2, <1>j, <1>l DEF Steps!ClickInstall, HookTypes
  <2>2. OpenTypes'
    BY <1>2, <1>m DEF Steps!ClickInstall, OpenTypes
  <2> QED BY <1>2, <2>1, <2>2, <1>a, <1>b, <1>c, <1>f DEF Steps!ClickInstall
<1>3. ASSUME NEW d \in StepsOpen, Steps!OpenDialog(d) PROVE Goal
  <2>1. OpenTypes'
    BY <1>3, <1>m DEF Steps!OpenDialog, OpenTypes
  <2> QED BY <1>3, <2>1, <1>a, <1>b, <1>c, <1>d, <1>f, <1>i DEF Steps!OpenDialog, Steps!slots
<1>4. ASSUME NEW d, Steps!CloseDialog(d) PROVE Goal
  <2>1. OpenTypes'
    BY <1>4, <1>m DEF Steps!CloseDialog, OpenTypes
  <2> QED BY <1>4, <2>1, <1>a, <1>b, <1>c, <1>d, <1>f, <1>g DEF Steps!CloseDialog, Steps!slots
<1>5. ASSUME NEW d, Steps!Confirm(d) PROVE Goal
  <2>1. d \in Commands
    BY <1>5 DEF Steps!Confirm, StepsTypes, StepsInv, OpenInv
  <2>2. hookRun' \in {hookRun, None} /\ settling' \in Commands \cup {None} /\ stepsClicks' \in 0..MaxClicks
    BY <1>5, <2>1, <1>g, <1>j, <1>k, <1>l DEF Steps!Confirm
  <2>3. HookTypes'
    BY <1>5, <2>2, <1>l DEF Steps!Confirm, HookTypes
  <2>4. OpenTypes'
    BY <1>5, <1>m DEF Steps!Confirm, OpenTypes
  <2> QED BY <1>5, <2>2, <2>3, <2>4, <1>a, <1>b, <1>c, <1>f DEF Steps!Confirm
<1>6. ASSUME NEW d, NEW t, Steps!RestartOrReboot(d, t) PROVE Goal
  <2>1. HookTypes' /\ stepsClicks' \in 0..MaxClicks
    BY <1>6, <1>j, <1>l DEF Steps!RestartOrReboot, HookTypes
  <2>2. OpenTypes'
    BY <1>6, <1>m DEF Steps!RestartOrReboot, OpenTypes
  <2> QED BY <1>6, <2>1, <2>2, <1>a, <1>b, <1>c, <1>f DEF Steps!RestartOrReboot
<1>7. ASSUME Steps!RetryRepair PROVE Goal
  <2>1. HookTypes' /\ stepsClicks' \in 0..MaxClicks
    BY <1>7, <1>j, <1>l DEF Steps!RetryRepair, HookTypes
  <2>2. OpenTypes'
    BY <1>7, <1>m DEF Steps!RetryRepair, OpenTypes
  <2> QED BY <1>7, <2>1, <2>2, <1>a, <1>b, <1>c, <1>f DEF Steps!RetryRepair
<1>8. ASSUME Steps!CloseFailure PROVE Goal
  <2>1. OpenTypes'
    BY <1>8, <1>m DEF Steps!CloseFailure, OpenTypes
  <2> QED BY <1>8, <2>1, <1>a, <1>b, <1>c, <1>d, <1>f, <1>g DEF Steps!CloseFailure, Steps!slots
<1>9. ASSUME Steps!stop PROVE Goal
  BY <1>9, <1>a, <1>b, <1>c, <1>d, <1>e, <1>f, <1>g DEF Steps!stop
<1>10. ASSUME Steps!stopHook PROVE Goal
  <2>1. "stopping" \in Steps!Statuses
    BY DEF Steps!Statuses
  <2>2. hookRun' \in HookRuns
    BY <1>10, <2>1, <1>l, HookEdits DEF Steps!stopHook
  <2>3. HookTypes'
    BY <1>10, <2>2, <1>l DEF Steps!stopHook, HookTypes
  <2> QED BY <1>10, <2>3, <1>a, <1>b, <1>c, <1>e, <1>f, <1>g DEF Steps!stopHook
<1>11. ASSUME Steps!abandon PROVE Goal
  <2>1. HookTypes'
    BY <1>11, <1>l DEF Steps!abandon, HookTypes
  <2> QED BY <1>11, <2>1, <1>a, <1>b, <1>c, <1>e, <1>f, <1>g DEF Steps!abandon
<1>12. ASSUME Steps!close PROVE Goal
  <2>1. HookTypes'
    BY <1>12, <1>l DEF Steps!close, HookTypes
  <2> QED BY <1>12, <2>1, <1>a, <1>b, <1>c, <1>e, <1>f, <1>g DEF Steps!close
<1>13. ASSUME NEW yes \in BOOLEAN, Steps!respond(yes) PROVE Goal
  <2>1. HookTypes'
    BY <1>13, <1>l DEF Steps!respond, Steps!OnHook, HookTypes
  <2> QED BY <1>13, <2>1, <1>a, <1>b, <1>c, <1>e, <1>f, <1>g DEF Steps!respond, Steps!OnHook
<1>14. ASSUME Steps!PlanStarts PROVE Goal
  <2>1. OpenTypes'
    BY <1>14, <1>m DEF Steps!PlanStarts, OpenTypes, Steps!dialogs
  <2> QED BY <1>14, <2>1, <1>a, <1>b, <1>c, <1>d, <1>f, <1>i DEF Steps!PlanStarts, Steps!slots
<1>15. ASSUME Steps!handleTabChange PROVE Goal
  <2>1. OpenTypes'
    BY <1>15, <1>m DEF Steps!handleTabChange, OpenTypes, Steps!dialogs
  <2> QED BY <1>15, <2>1, <1>a, <1>b, <1>c, <1>d, <1>h, <1>i DEF Steps!handleTabChange, Steps!slots
<1>16. ASSUME NEW i \in Ids, NEW o \in {"succeeded", "failed", "canceled"}, Steps!Ends(i, o) PROVE Goal
  <2> DEFINE t == stepsRuns[i].task
  <2>1. t \in Commands
    BY <1>16 DEF Steps!Ends, Steps!Live, StepsTypes, StepsInv, RunsInv, Steps!Run
  <2>2. broken' \subseteq broken
    BY <1>16 DEF Steps!Ends, Steps!Repairs
  <2>3. TabletTypes'
    BY <1>16, <2>2, <1>n DEF Steps!Ends, TabletTypes
  <2>4. ChecksTypes'
    BY <1>16, <1>b DEF Steps!Ends
  <2>5. rowsShown' \subseteq rowsShown \cup {"timezone"}
    BY <1>16 DEF Steps!Ends
  <2>6. RowsTypes'
    BY <1>16, <2>5, <1>n DEF Steps!Ends, RowsTypes, Steps!Rows
  <2>7. hookRun' \in {hookRun, None} /\ settling' \in {settling, None} /\ UNCHANGED prompt
    BY <1>16 DEF Steps!Ends
  <2>8. HookTypes'
    BY <2>7, <1>l DEF HookTypes
  <2>9. stepsOpen' \subseteq stepsOpen \cup {"restart", "sleep"}
    BY <1>16 DEF Steps!Ends
  <2>10. /\ vellumFailure' = IF t \in Steps!Vellum /\ o = "failed" THEN t ELSE vellumFailure
         /\ vellumReady' = IF t \in Steps!Vellum /\ o = "succeeded" THEN t \in {"install", "repair"} ELSE vellumReady
         /\ UNCHANGED <<planApplying, active>>
    BY <1>16 DEF Steps!Ends
  <2>11. vellumFailure' \in Steps!Vellum \cup {None}
    BY <2>10, <1>m
  <2>12. vellumReady' \in BOOLEAN
    <3>1. vellumReady' = TRUE \/ vellumReady' = FALSE \/ vellumReady' = vellumReady
      BY <2>10
    <3>2. vellumReady \in BOOLEAN
      BY <1>m
    <3> QED BY Zenon, <3>1, <3>2
  <2>13. stepsOpen' \subseteq StepsOpen
    BY <2>9, <1>m DEF StepsOpen
  <2>14. OpenTypes'
    BY <2>10, <2>11, <2>12, <2>13, <1>m DEF OpenTypes
  <2>15. StepsOsTypes'
    BY <1>16, <2>6, <2>14, <1>h DEF Steps!Ends
  <2> QED BY <1>16, <2>3, <2>4, <2>6, <2>8, <2>14, <2>15, <1>g DEF Steps!Ends
<1>17. ASSUME NEW i \in Ids, NEW o, Steps!HookEnds(i, o) PROVE Goal
  <2>1. o \in Steps!Statuses
    BY <1>17 DEF Steps!HookEnds, Steps!Statuses
  <2>2. hookRun' \in HookRuns \cup {None}
    BY <1>17, <2>1, <1>l, HookEdits DEF Steps!HookEnds, Steps!hookResult
  <2>3. HookTypes'
    BY <1>17, <2>2, <1>l DEF Steps!HookEnds, Steps!OnHook, HookTypes
  <2> QED BY <1>17, <2>3, <1>a, <1>b, <1>c, <1>e, <1>f, <1>g DEF Steps!HookEnds, Steps!OnHook
<1>18. ASSUME NEW i \in Ids, Steps!refreshDeviceStatus(i) PROVE Goal
  <2>1. rowsShown' \subseteq Steps!Rows
    BY <1>18, <1>n DEF Steps!refreshDeviceStatus, Steps!Polled, Steps!Shows, RowsTypes, Steps!Rows
  <2>2. RowsTypes'
    BY <1>18, <2>1, <1>n DEF Steps!refreshDeviceStatus, RowsTypes
  <2>3. HookTypes'
    BY <1>18, <1>l DEF Steps!refreshDeviceStatus, HookTypes
  <2>4. OpenTypes'
    BY <1>18, <1>e DEF Steps!refreshDeviceStatus
  <2> QED BY <1>18, <2>2, <2>3, <2>4, <1>a, <1>b, <1>g, <1>h DEF Steps!refreshDeviceStatus
<1>19. ASSUME NEW i \in Ids, Steps!Prompts(i) \/ Steps!AsksNoMore(i) PROVE Goal
  <2>1. HookTypes'
    BY <1>19, <1>l DEF Steps!Prompts, Steps!AsksNoMore, Steps!OnHook, HookTypes
  <2> QED BY <1>19, <2>1, <1>a, <1>b, <1>c, <1>e, <1>f, <1>g DEF Steps!Prompts, Steps!AsksNoMore, Steps!OnHook
<1>20. ASSUME NEW i \in Ids, Steps!HookBegins(i) PROVE Goal
  <2>1. HookTypes'
    BY <1>20, <1>l, HookBorn DEF Steps!HookBegins, Steps!OnHook, HookTypes
  <2> QED BY <1>20, <2>1, <1>a, <1>b, <1>c, <1>e, <1>f, <1>g DEF Steps!HookBegins, Steps!OnHook
<1>21. ASSUME NEW ok \in BOOLEAN, Steps!PlanEnds(ok) PROVE Goal
  <2>1. TabletTypes'
    BY <1>21, <1>n DEF Steps!PlanEnds, TabletTypes
  <2>2. RowsTypes'
    BY <1>21, <1>n DEF Steps!PlanEnds, RowsTypes
  <2>3. OpenTypes'
    BY <1>21, <1>m DEF Steps!PlanEnds, OpenTypes, Steps!dialogs
  <2> QED BY <1>21, <2>1, <2>2, <2>3, <1>b, <1>d, <1>g, <1>h DEF Steps!PlanEnds, Steps!slots
<1>22. ASSUME Steps!FilesystemRestoreFails PROVE Goal
  <2>1. OpenTypes'
    BY <1>22, <1>m DEF Steps!FilesystemRestoreFails, OpenTypes, StepsOpen
  <2> QED BY <1>22, <2>1, <1>a, <1>b, <1>c, <1>d, <1>f, <1>i DEF Steps!FilesystemRestoreFails, Steps!slots
<1>23. ASSUME Steps!LinkLost PROVE Goal
  <2>1. broken' \subseteq broken
    BY <1>23 DEF Steps!LinkLost
  <2>2. TabletTypes'
    BY <1>23, <2>1, <1>n DEF Steps!LinkLost, TabletTypes
  <2>3. ChecksTypes'
    BY <1>23 DEF Steps!LinkLost, ChecksTypes
  <2>4. RowsTypes'
    BY <1>23, <1>n DEF Steps!LinkLost, RowsTypes
  <2>5. HookTypes'
    BY <1>23, <1>l DEF Steps!LinkLost, HookTypes
  <2>6. OpenTypes'
    BY <1>23, <1>m DEF Steps!LinkLost, OpenTypes
  <2>7. Steps!Click /\ Steps!AfterRender
    BY <1>23 DEF Steps!LinkLost
  <2> QED BY <2>2, <2>3, <2>4, <2>5, <2>6, <2>7, <1>h, <1>i
<1>24. ASSUME Steps!LinkRestored PROVE Goal
  <2>1. TabletTypes'
    BY <1>24, <1>n, StepsAssumed DEF Steps!LinkRestored, TabletTypes
  <2>2. ChecksTypes'
    BY <1>24, <1>n DEF Steps!LinkRestored, ChecksTypes
  <2> QED BY <1>24, <2>1, <2>2, <1>c, <1>d, <1>e, <1>f, <1>g DEF Steps!LinkRestored, Steps!slots
<1>25. ASSUME Steps!InfoRead PROVE Goal
  <2>1. ChecksTypes'
    BY <1>25, <1>n DEF Steps!InfoRead, ChecksTypes
  <2>2. RowsTypes'
    BY <1>25, <1>n DEF Steps!InfoRead, RowsTypes, TabletTypes
  <2>3. OpenTypes'
    BY <1>25, <1>e DEF Steps!InfoRead
  <2> QED BY <1>25, <2>1, <2>2, <2>3, <1>a, <1>d, <1>g, <1>h DEF Steps!InfoRead, Steps!slots
<1>26. ASSUME Steps!ConnectWarnings PROVE Goal
  <2>1. ChecksTypes'
    BY <1>26, <1>n DEF Steps!ConnectWarnings, ChecksTypes
  <2>2. RowsTypes'
    BY <1>26, <1>n DEF Steps!ConnectWarnings, RowsTypes, TabletTypes
  <2>3. active' \in BOOLEAN
    BY <1>26, <1>m DEF Steps!ConnectWarnings
  <2>4. OpenTypes'
    BY <1>26, <2>3, <1>m DEF Steps!ConnectWarnings, OpenTypes, Steps!dialogs
  <2> QED BY <1>26, <2>1, <2>2, <2>4, <1>a, <1>d, <1>g, <1>h DEF Steps!ConnectWarnings, Steps!slots
<1> HIDE DEF Goal
<1>27. ASSUME Steps!UserActs PROVE Goal
  <2>1. ASSUME NEW d \in {"repair", "uninstall", "guide", "restart", "sleep", "fsrestore"},
               \/ Steps!OpenDialog(d) \/ Steps!CloseDialog(d) \/ Steps!Confirm(d)
               \/ \E t \in Commands : Steps!RestartOrReboot(d, t)
        PROVE  Goal
    <3>1. d \in StepsOpen
      BY DEF StepsOpen
    <3> QED BY <1>3, <1>4, <1>5, <1>6, <2>1, <3>1
  <2> QED BY <1>1, <1>2, <1>7, <1>8, <1>9, <1>10, <1>11, <1>12, <1>13, <1>14, <1>15, <1>27, <2>1
          DEF Steps!UserActs
<1>28. Goal
  <2>1. ASSUME NEW i \in Ids, NEW o \in {"succeeded", "failed", "canceled"}, Steps!Ends(i, o) \/ Steps!HookEnds(i, o)
        PROVE  Goal
    BY <1>16, <1>17, <2>1
  <2>2. ASSUME NEW i \in Ids,
               Steps!refreshDeviceStatus(i) \/ Steps!Prompts(i) \/ Steps!AsksNoMore(i) \/ Steps!HookBegins(i)
        PROVE  Goal
    BY <1>18, <1>19, <1>20, <2>2
  <2> QED BY <1>21, <1>22, <1>23, <1>24, <1>25, <1>26, <1>27, <2>1, <2>2 DEF Steps!Next
<1> QED BY <1>28 DEF Goal

LEMMA StepsTypesStay == StepsTypes /\ UNCHANGED stepsVars => StepsTypes'
<1> SUFFICES ASSUME StepsTypes, UNCHANGED stepsVars PROVE StepsTypes'
  OBVIOUS
<1>1. StepsInv' /\ ShownInv'
  BY StepsKept DEF StepsTypes, ShownInv, stepsVars
<1>2. TabletTypes' /\ ChecksTypes' /\ RowsTypes' /\ HookTypes' /\ OpenTypes' /\ StepsOsTypes' /\ UNCHANGED stepsClicks
  BY DEF StepsTypes, TabletTypes, ChecksTypes, RowsTypes, HookTypes, OpenTypes, StepsOsTypes, stepsVars
<1> QED BY <1>1, <1>2 DEF StepsTypes

================================================================================
