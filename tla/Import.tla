--------------------------------- MODULE Import --------------------------------
(***************************************************************************)
(* The dialog that imports documents (ImportPDFDialog.tsx) and the run that  *)
(* uploads them (FilesService.ImportDocuments in filesservice_import.go).   *)
(*                                                                         *)
(* A run gets the documents that are named and not done; its events name    *)
(* them by their place in that list, which is not their place in the       *)
(* dialog's.  Documents go on being added while it runs, since a drop and    *)
(* a read that is on its way wait for nothing, and the dialog can be closed *)
(* and opened again under a run whose connection was lost.                 *)
(***************************************************************************)
EXTENDS Naturals, SequencesExt, Lists

CONSTANTS
  None,
  Documents,        (* the documents, numbered as they are added             *)
  ImportIds,        (* how many runs there can be at once                    *)
  MaxTouches        (* bound on openings, edits and losses                   *)

ImportAssumption ==
  /\ Documents \subseteq Nat \ {0} /\ ImportIds \subseteq Nat \ {0} /\ MaxTouches \in Nat

VARIABLES
  importOpen,
  staged,           (* the cards: the documents of the dialog, in order      *)
  inspecting,       (* documents GetImportFileInfo is reading                *)
  importError, refresh,
  importShown,      (* the page's operation, 0 when there is none            *)
  imports,          (* the runs that go on                                   *)
  importLink,
  imported,         (* what the tablet holds                                 *)
  added, touches

cards == <<staged, inspecting, added>>
importVars == <<importOpen, cards, importError, refresh, importShown, imports, importLink, imported, touches>>

Statuses == {"staged", "uploading", "done", "error"}
Card == [id : Documents, named : BOOLEAN, counted : BOOLEAN, override : BOOLEAN, status : Statuses]
Phases == {"next", "upload", "refresh"}

ImportTypeOK ==
  /\ importOpen \in BOOLEAN /\ staged \in Seq(Card) /\ inspecting \subseteq Documents
  /\ importError \in BOOLEAN /\ refresh \in BOOLEAN
  /\ importShown \in ImportIds \cup {0} /\ importLink \in BOOLEAN
  /\ \A i \in ImportIds : imports[i] # None =>
       /\ imports[i].index \in 1..Len(imports[i].batch) + 1 /\ imports[i].phase \in Phases
       /\ imports[i].failed \in 0..Len(imports[i].batch)
  /\ imported \subseteq Documents /\ added \subseteq Documents /\ touches \in 0..MaxTouches

Touch == touches < MaxTouches /\ touches' = touches + 1
importing == importShown # 0
isImportable(card) == card.status # "done" /\ card.named
handed(card) == [id |-> card.id, pages |-> card.counted \/ card.override]

Init ==
  /\ importOpen = FALSE /\ staged = <<>> /\ inspecting = {} /\ importError = FALSE /\ refresh = TRUE
  /\ importShown = 0 /\ imports = [i \in ImportIds |-> None] /\ importLink = TRUE
  /\ imported = {} /\ added = {} /\ touches = 0

(* Opening clears the cards, and not the documents still being read.        *)
Opens ==
  /\ ~importOpen /\ importLink /\ ~importing /\ Touch
  /\ importOpen' = TRUE /\ staged' = <<>> /\ refresh' = TRUE /\ importError' = FALSE
  /\ UNCHANGED <<inspecting, added, importShown, imports, importLink, imported>>

handleClose ==
  /\ importOpen /\ ~importing /\ importOpen' = FALSE
  /\ UNCHANGED <<cards, importError, refresh, importShown, imports, importLink, imported, touches>>

(* A document is dropped; one of no known kind is refused.                  *)
addPaths(valid) ==
  /\ importOpen
  /\ importError' = ~valid
  /\ IF ~valid THEN ~importError /\ UNCHANGED <<inspecting, added>>
     ELSE \E d \in Documents \ added :
            /\ \A e \in Documents : e < d => e \in added
            /\ inspecting' = inspecting \cup {d} /\ added' = added \cup {d}
  /\ UNCHANGED <<importOpen, staged, refresh, importShown, imports, importLink, imported, touches>>

(* The same through the file picker, which a run disables.                  *)
handleBrowse == ~importing /\ addPaths(TRUE)

GetImportFileInfo(d, outcome) ==
  /\ d \in inspecting /\ inspecting' = inspecting \ {d}
  /\ \/ /\ outcome = "unreadable" /\ importError' = TRUE /\ UNCHANGED staged
     \/ /\ outcome # "unreadable" /\ UNCHANGED importError
        /\ staged' = Append(staged, [id |-> d, named |-> TRUE, counted |-> outcome = "counted",
                                     override |-> FALSE, status |-> "staged"])
  /\ UNCHANGED <<importOpen, refresh, importShown, imports, importLink, imported, added, touches>>

Updates(card) == staged' = [k \in DOMAIN staged |-> IF staged[k].id = card.id THEN card ELSE staged[k]]
CardOnly == UNCHANGED <<importOpen, inspecting, added, importError, refresh, importShown, imports, importLink, imported>>

editName(card) == ~importing /\ Updates([card EXCEPT !.named = ~@])
removeFile(k) == ~importing /\ staged' = RemoveAt(staged, k)     (* the one of its id *)
(* The page count can be changed while a run goes on, and changes nothing in it. *)
applyPageOverride(card) == ~card.override /\ Updates([card EXCEPT !.override = TRUE])
resetPageOverride(card) == card.override /\ Updates([card EXCEPT !.override = FALSE])

EditsCard ==
  /\ importOpen /\ Touch /\ CardOnly
  /\ \E k \in DOMAIN staged :
       \/ removeFile(k)
       \/ editName(staged[k]) \/ applyPageOverride(staged[k]) \/ resetPageOverride(staged[k])

setRestartXochitl ==
  /\ importOpen /\ ~importing /\ staged # <<>> /\ Touch /\ refresh' = ~refresh
  /\ UNCHANGED <<importOpen, cards, importError, importShown, imports, importLink, imported>>

(* The button, or the keyboard, which asks for no connection.               *)
handleImport ==
  LET chosen == Kept(staged, {k \in DOMAIN staged : isImportable(staged[k])})
      batch == [k \in DOMAIN chosen |-> handed(chosen[k])]
  IN
  /\ importOpen /\ ~importing /\ batch # <<>> /\ importError' = FALSE
  /\ \E i \in ImportIds :
       /\ imports[i] = None /\ \A j \in ImportIds : j < i => imports[j] # None
       /\ importShown' = i
       /\ imports' = [imports EXCEPT ![i] = [batch |-> batch, index |-> 1, phase |-> "next", failed |-> 0,
                                             refresh |-> refresh, cut |-> ~importLink, refused |-> ~importLink]]
  /\ UNCHANGED <<importOpen, cards, refresh, importLink, imported, touches>>

Document(i) == imports[i].batch[imports[i].index]
Goes(i) == imports[i] # None /\ ~imports[i].refused

(* Mutant: the event's index is taken for a place among the cards.          *)
ShowsPlace(i, status) ==
  staged' = [k \in DOMAIN staged |->
    IF k = imports[i].index THEN [staged[k] EXCEPT !.status = status] ELSE staged[k]]

(* onProgress: the card of the document the event is about.                 *)
Shows(i, status) ==
  staged' = [k \in DOMAIN staged |->
    IF staged[k].id = Document(i).id THEN [staged[k] EXCEPT !.status = status] ELSE staged[k]]

Importing(i) ==
  /\ Goes(i) /\ imports[i].phase = "next" /\ imports[i].index <= Len(imports[i].batch)
  /\ imports' = [imports EXCEPT ![i].phase = "upload"] /\ Shows(i, "uploading")
  /\ UNCHANGED <<importOpen, inspecting, added, importError, refresh, importShown, importLink, imported, touches>>

Completed(i) ==
  /\ Goes(i) /\ imports[i].phase = "upload" /\ ~imports[i].cut
  /\ Document(i).pages
  /\ imported' = imported \cup {Document(i).id} /\ Shows(i, "done")
  /\ imports' = [imports EXCEPT ![i].phase = "next", ![i].index = @ + 1]
  /\ UNCHANGED <<importOpen, inspecting, added, importError, refresh, importShown, importLink, touches>>

(* A document that fails does not stop the rest.  With the connection the   *)
(* answer to its last write may be lost, and the document is there.         *)
Failed(i) ==
  /\ Goes(i) /\ imports[i].phase = "upload"
  /\ \/ UNCHANGED imported
     \/ imports[i].cut /\ imported' = imported \cup {Document(i).id}
  /\ Shows(i, "error")
  /\ imports' = [imports EXCEPT ![i].phase = "next", ![i].index = @ + 1, ![i].failed = @ + 1]
  /\ UNCHANGED <<importOpen, inspecting, added, importError, refresh, importShown, importLink, touches>>

(* The rescan or the restart, when something was imported.                  *)
Refreshes(i) ==
  /\ Goes(i) /\ imports[i].phase = "next" /\ imports[i].index = Len(imports[i].batch) + 1
  /\ imports[i].refresh /\ imports[i].failed < Len(imports[i].batch)
  /\ imports' = [imports EXCEPT ![i].phase = "refresh"]
  /\ UNCHANGED <<importOpen, cards, importError, refresh, importShown, importLink, imported, touches>>

Over(i) ==
  /\ imports[i].phase = "next" /\ imports[i].index = Len(imports[i].batch) + 1
  /\ imports[i].refresh => imports[i].failed = Len(imports[i].batch)

Ended(i) ==
  /\ imports' = [imports EXCEPT ![i] = None]
  /\ importShown' = (IF importShown = i THEN 0 ELSE importShown)
  /\ UNCHANGED <<cards, refresh, importLink, imported, touches>>

(* Success closes the dialog, whatever was added since.                     *)
Succeeds(i) ==
  /\ Goes(i) /\ imports[i].failed = 0
  /\ Over(i) \/ (imports[i].phase = "refresh" /\ ~imports[i].cut)
  /\ importOpen' = FALSE /\ UNCHANGED importError /\ Ended(i)

Fails(i) ==
  /\ imports[i] # None
  /\ imports[i].refused \/ imports[i].phase = "refresh" \/ (imports[i].failed > 0 /\ Over(i))
  /\ importError' = TRUE /\ UNCHANGED importOpen /\ Ended(i)

(* The page forgets its operation when the connection is lost.              *)
LinkLost ==
  /\ importLink /\ Touch /\ importLink' = FALSE /\ importShown' = 0
  /\ imports' = [i \in ImportIds |-> IF imports[i] = None THEN None ELSE [imports[i] EXCEPT !.cut = TRUE]]
  /\ UNCHANGED <<importOpen, cards, importError, refresh, imported>>

LinkRestored ==
  /\ ~importLink /\ importLink' = TRUE
  /\ UNCHANGED <<importOpen, cards, importError, refresh, importShown, imports, imported, touches>>

Next ==
  \/ Opens \/ handleClose \/ handleBrowse \/ EditsCard \/ setRestartXochitl \/ handleImport
  \/ \E valid \in BOOLEAN : addPaths(valid)
  \/ \E d \in Documents, outcome \in {"counted", "uncounted", "unreadable"} : GetImportFileInfo(d, outcome)
  \/ \E i \in ImportIds : Importing(i) \/ Completed(i) \/ Failed(i) \/ Refreshes(i) \/ Succeeds(i) \/ Fails(i)
  \/ LinkLost \/ LinkRestored

ImportSpec == Init /\ [][Next]_importVars

(***************************************************************************)
(* Properties.                                                             *)
(***************************************************************************)
(* A card that says a document is done, which a retry leaves out, is of a    *)
(* document that is on the tablet: not of its neighbour in the list, and    *)
(* not because an earlier run spoke of another dialog's cards               *)
(* (handleImport's onProgress).                                            *)
MarkedDoneWasImported ==
  \A k \in DOMAIN staged : staged[k].status = "done" => staged[k].id \in imported

===============================================================================
