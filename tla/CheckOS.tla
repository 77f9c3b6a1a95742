-------------------------------- MODULE CheckOS --------------------------------
(***************************************************************************)
(* The dialog that checks the installed mods against another OS version     *)
(* (CheckOSDialog.tsx).  The OS Manager opens it for a version, which it    *)
(* checks at once; Advanced opens it empty, for a version the user types.   *)
(* They are two dialogs: which one this is never changes.                   *)
(*                                                                         *)
(* Closing it stops no check, so an answer may find it closed, or open for  *)
(* another version.                                                        *)
(***************************************************************************)
EXTENDS Naturals

CONSTANTS
  None,
  Targets,          (* the OS versions asked about                           *)
  Calls,            (* how many checks can be under way at once              *)
  MaxOpens          (* bound on how often the dialog is opened or checks     *)

CheckOSAssumption == None \notin Targets /\ MaxOpens \in Nat

VARIABLES
  fromManager,      (* the OS Manager's dialog                               *)
  linkUp,
  shownFor,         (* the version it was opened for, or TRUE when none      *)
  autoChecked,
  targetVersion, checkLoading,
  result,           (* the version whose verdict is shown                    *)
  error,
  calls,            (* the checks under way                                  *)
  opens

checkVars == <<fromManager, linkUp, shownFor, autoChecked, targetVersion, checkLoading, result,
               error, calls, opens>>

open == shownFor # None
initialVersion == fromManager /\ open

CheckTypeOK ==
  /\ fromManager \in BOOLEAN /\ linkUp \in BOOLEAN
  /\ shownFor \in Targets \cup {None, "typed"} /\ autoChecked \in BOOLEAN
  /\ targetVersion \in Targets \cup {None} /\ checkLoading \in BOOLEAN
  /\ result \in Targets \cup {None} /\ error \in BOOLEAN
  /\ calls \in [Calls -> Targets \cup {None}] /\ opens \in 0..MaxOpens

Init ==
  /\ fromManager \in BOOLEAN /\ linkUp = TRUE
  /\ shownFor = None /\ autoChecked = FALSE
  /\ targetVersion = None /\ checkLoading = FALSE /\ result = None /\ error = FALSE
  /\ calls = [c \in Calls |-> None] /\ opens = 0

AsksAbout(v) ==
  /\ \E c \in Calls : calls[c] = None /\ calls' = [calls EXCEPT ![c] = v]
  /\ checkLoading' = TRUE /\ error' = FALSE /\ result' = None
Opening == opens < MaxOpens /\ opens' = opens + 1

(* The effect of opening for a version checks it, once for each opening.    *)
OpenFor(v) ==
  /\ fromManager /\ ~open /\ Opening /\ shownFor' = v /\ UNCHANGED <<fromManager, linkUp>>
  /\ IF autoChecked THEN UNCHANGED <<autoChecked, targetVersion, checkLoading, result, error, calls>>
     ELSE autoChecked' = TRUE /\ targetVersion' = v /\ AsksAbout(v)

OpenEmpty ==
  /\ ~fromManager /\ ~open /\ linkUp /\ Opening /\ shownFor' = "typed"
  /\ UNCHANGED <<fromManager, linkUp, autoChecked, targetVersion, checkLoading, result, error, calls>>

setTargetVersion(v) ==
  /\ open /\ ~fromManager /\ ~checkLoading /\ linkUp /\ targetVersion' = v
  /\ UNCHANGED <<fromManager, linkUp, shownFor, autoChecked, checkLoading, result, error, calls, opens>>

handleCheck ==
  /\ open /\ ~checkLoading /\ linkUp /\ targetVersion # None /\ Opening /\ AsksAbout(targetVersion)
  /\ UNCHANGED <<fromManager, linkUp, shownFor, autoChecked, targetVersion>>

(* A package index that could not be fetched is an error like any other.    *)
Answers(c, ok) ==
  /\ calls[c] # None /\ calls' = [calls EXCEPT ![c] = None] /\ checkLoading' = FALSE
  /\ result' = IF ok THEN calls[c] ELSE result
  /\ error' = (error \/ ~ok)
  /\ UNCHANGED <<fromManager, linkUp, shownFor, autoChecked, targetVersion, opens>>

(* Mutant: closing forgets nothing of the check that was made.              *)
CloseRemembers ==
  /\ open /\ shownFor' = None /\ targetVersion' = None /\ result' = None /\ error' = FALSE
  /\ UNCHANGED <<fromManager, linkUp, autoChecked, checkLoading, calls, opens>>

handleClose ==
  /\ open /\ shownFor' = None /\ autoChecked' = FALSE
  /\ targetVersion' = None /\ result' = None /\ error' = FALSE
  /\ UNCHANGED <<fromManager, linkUp, checkLoading, calls, opens>>

LinkChanges ==
  /\ linkUp' = ~linkUp /\ (linkUp => Opening) /\ (~linkUp => UNCHANGED opens)
  /\ UNCHANGED <<fromManager, shownFor, autoChecked, targetVersion, checkLoading, result, error, calls>>

Next ==
  \/ OpenEmpty \/ handleCheck \/ handleClose \/ LinkChanges
  \/ \E v \in Targets : OpenFor(v) \/ setTargetVersion(v)
  \/ \E c \in Calls, ok \in BOOLEAN : Answers(c, ok)

CheckSpec == Init /\ [][Next]_checkVars

(***************************************************************************)
(* Properties.                                                             *)
(***************************************************************************)
(* The verdict shown is about the version shown with it.  It does not hold: *)
(* the answer about the version a closed dialog was opened for comes into   *)
(* the one that is open for another (handleCheck).                          *)
VerdictIsForTheVersion == open /\ fromManager /\ result # None => result = targetVersion

===============================================================================
