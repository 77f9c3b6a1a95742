----------------------------- MODULE SettingsPanes -----------------------------
(***************************************************************************)
(* The panes of the settings dialog that act at once: the SSH keys           *)
(* (SSHKeyManager.tsx) and what can be cleared (SettingsDialog.tsx).         *)
(*                                                                         *)
(* The list of keys belongs to the dialog, the forms to the key manager,     *)
(* which is mounted only while its section is shown: an answer that comes    *)
(* after that changes the list and no form.  The file picker is modal.       *)
(***************************************************************************)
EXTENDS Naturals, FiniteSets

CONSTANTS
  None,
  Keys,             (* the private keys                                      *)
  Asks,             (* how many calls can be under way                       *)
  MaxActs           (* bound on openings and on what others change           *)

PanesAssumption == None \notin Keys /\ Asks \subseteq Nat /\ MaxActs \in Nat

VARIABLES
  keysKept, cached, (* what the host keeps: keys, and whether device info    *)
  panesOpen, pane,
  managedKeys, cachedDevices,
  adding, privateKey, saving,            (* the form that adds a key         *)
  keyToRemove, keyToRename, renaming,    (* the dialogs of one key           *)
  confirming, clearing,                  (* the cache's and the logs' dialog *)
  asks, acts

kept == <<keysKept, cached>>
listed == <<managedKeys, cachedDevices>>
form == <<adding, privateKey, saving>>
dialogsOfKey == <<keyToRemove, keyToRename, renaming>>
manager == <<form, dialogsOfKey>>
storage == <<confirming, clearing>>
panesVars == <<kept, panesOpen, pane, listed, manager, storage, asks, acts>>

Stores == {"cache", "logs"}
Changes == {"add", "delete", "rename"}
Ask == [kind : Changes \cup {"list"}, key : Keys \cup {None}, orphan : BOOLEAN,
        then : Changes \cup {None}, read : (SUBSET Keys) \cup {None}]

PanesTypeOK ==
  /\ keysKept \subseteq Keys /\ cached \in BOOLEAN /\ panesOpen \in BOOLEAN
  /\ pane \in {"connection", "storage"} /\ managedKeys \subseteq Keys /\ cachedDevices \in BOOLEAN
  /\ adding \in BOOLEAN /\ privateKey \in Keys \cup {None} /\ saving \in BOOLEAN
  /\ keyToRemove \in Keys \cup {None} /\ keyToRename \in Keys \cup {None} /\ renaming \in BOOLEAN
  /\ confirming \in Stores \cup {None} /\ clearing \subseteq Stores
  /\ asks \in [Asks -> Ask \cup {None}]
  /\ acts \in 0..MaxActs

Act == acts < MaxActs /\ acts' = acts + 1
Starts(kind, key, then) ==
  \E a \in Asks :
    /\ asks[a] = None /\ \A b \in Asks : b < a => asks[b] # None
    /\ asks' = [asks EXCEPT ![a] =
         [kind |-> kind, key |-> key, orphan |-> FALSE, then |-> then, read |-> None]]
Mounted == panesOpen /\ pane = "connection"
OfAKey == /\ Mounted /\ ~adding /\ managedKeys # {}     (* its dialog is shown  *)
          /\ keyToRemove # None \/ keyToRename # None
Free == ~OfAKey
Orphaned == [a \in Asks |-> IF asks[a] = None THEN None ELSE [asks[a] EXCEPT !.orphan = TRUE]]
Cleared == /\ adding' = FALSE /\ privateKey' = None /\ saving' = FALSE
           /\ keyToRemove' = None /\ keyToRename' = None /\ renaming' = FALSE

Init ==
  /\ keysKept \in SUBSET Keys /\ cached \in BOOLEAN /\ panesOpen = FALSE /\ pane = "connection"
  /\ managedKeys = {} /\ cachedDevices = FALSE
  /\ adding = FALSE /\ privateKey = None /\ saving = FALSE
  /\ keyToRemove = None /\ keyToRename = None /\ renaming = FALSE
  /\ confirming = None /\ clearing = {} /\ asks = [a \in Asks |-> None] /\ acts = 0

(***************************************************************************)
(* The dialog.                                                             *)
(***************************************************************************)
Opens ==
  /\ ~panesOpen /\ Act /\ panesOpen' = TRUE /\ pane' = "connection"
  /\ cachedDevices' = cached /\ confirming' = (IF confirming = "logs" THEN None ELSE confirming)
  /\ Starts("list", None, None)
  /\ UNCHANGED <<kept, managedKeys, manager, clearing>>

openSection(p) ==
  /\ panesOpen /\ confirming = None /\ Free /\ pane # p /\ pane' = p
  /\ Cleared /\ asks' = Orphaned
  /\ UNCHANGED <<kept, panesOpen, listed, storage, acts>>

Closes ==
  /\ panesOpen /\ confirming = None /\ Free /\ panesOpen' = FALSE
  /\ Cleared /\ asks' = Orphaned
  /\ UNCHANGED <<kept, pane, listed, storage, acts>>

(***************************************************************************)
(* The form that adds a key.                                               *)
(***************************************************************************)
openForm ==
  /\ Mounted /\ ~adding /\ Free /\ adding' = TRUE
  /\ UNCHANGED <<kept, panesOpen, pane, listed, privateKey, saving, dialogsOfKey, storage, asks, acts>>

(* Pasted, typed, or chosen as a file.                                      *)
handleChooseFile(key) ==
  /\ Mounted /\ adding /\ privateKey # key /\ privateKey' = key
  /\ UNCHANGED <<kept, panesOpen, pane, listed, adding, saving, dialogsOfKey, storage, asks, acts>>

(* Mutant: what was typed waits for the form to be opened again.            *)
closeFormOnly == adding' = FALSE /\ UNCHANGED privateKey

(* The effect of a form that is closed clears it.                           *)
closeForm == adding' = FALSE /\ privateKey' = None

cancelForm ==
  /\ Mounted /\ adding /\ closeForm
  /\ UNCHANGED <<kept, panesOpen, pane, listed, saving, dialogsOfKey, storage, asks, acts>>

handleImport ==
  /\ Mounted /\ adding /\ ~saving /\ privateKey # None /\ saving' = TRUE
  /\ Starts("add", privateKey, None)
  /\ UNCHANGED <<kept, panesOpen, pane, listed, adding, privateKey, dialogsOfKey, storage, acts>>

(***************************************************************************)
(* The dialogs of one key.                                                 *)
(***************************************************************************)
setKeyToRemove(key) ==
  /\ Mounted /\ ~adding /\ Free /\ key \in managedKeys /\ keyToRemove' = key
  /\ UNCHANGED <<kept, panesOpen, pane, listed, form, keyToRename, renaming, storage, asks, acts>>

openRename(key) ==
  /\ Mounted /\ ~adding /\ Free /\ key \in managedKeys /\ keyToRename' = key
  /\ UNCHANGED <<kept, panesOpen, pane, listed, form, keyToRemove, renaming, storage, asks, acts>>

cancelDialogOfKey ==
  /\ OfAKey /\ keyToRemove' = None /\ keyToRename' = None
  /\ UNCHANGED <<kept, panesOpen, pane, listed, form, renaming, storage, asks, acts>>

(* Remove can be pressed again while it is under way.                       *)
handleRemove ==
  /\ OfAKey /\ keyToRemove # None /\ Starts("delete", keyToRemove, None)
  /\ UNCHANGED <<kept, panesOpen, pane, listed, manager, storage, acts>>

handleRename ==
  /\ OfAKey /\ keyToRename # None /\ ~renaming /\ renaming' = TRUE /\ Starts("rename", keyToRename, None)
  /\ UNCHANGED <<kept, panesOpen, pane, listed, form, keyToRemove, keyToRename, storage, acts>>

(***************************************************************************)
(* What the calls do and answer.                                            *)
(***************************************************************************)
Stored(call) ==
  CASE call.kind = "add" -> keysKept \cup {call.key}
    [] call.kind = "delete" -> keysKept \ {call.key}
    [] OTHER -> keysKept

(* A change is stored, and is followed by a read of the list.               *)
Changed(a) ==
  /\ asks[a] # None /\ asks[a].kind \in Changes
  /\ keysKept' = Stored(asks[a])
  /\ asks' = [asks EXCEPT ![a].kind = "list", ![a].then = asks[a].kind]
  /\ UNCHANGED <<cached, panesOpen, pane, listed, manager, storage, acts>>

(* A change, or the read after it, fails: the form stays.  A failed read     *)
(* of the dialog's own shows no keys.                                       *)
Fails(a) ==
  /\ asks[a] # None /\ (asks[a].kind = "list" => asks[a].read = None)
  /\ asks' = [asks EXCEPT ![a] = None]
  /\ LET what == IF asks[a].kind = "list" THEN asks[a].then ELSE asks[a].kind
         away == asks[a].orphan
     IN  /\ managedKeys' = (IF what = None THEN {} ELSE managedKeys)
         /\ saving' = (saving /\ ~(what = "add" /\ ~away))
         /\ renaming' = (renaming /\ ~(what = "rename" /\ ~away))
  /\ UNCHANGED <<kept, panesOpen, pane, cachedDevices, adding, privateKey, keyToRemove, keyToRename, storage, acts>>

GetManagedKeys(a) ==
  /\ asks[a] # None /\ asks[a].kind = "list" /\ asks[a].read = None
  /\ asks' = [asks EXCEPT ![a].read = keysKept]
  /\ UNCHANGED <<kept, panesOpen, pane, listed, manager, storage, acts>>

(* The form or the dialog that is shown is closed, whichever call it was.   *)
Closed(then) ==
  /\ IF then = "add" THEN closeForm /\ saving' = FALSE ELSE UNCHANGED form
  /\ keyToRemove' = (IF then = "delete" THEN None ELSE keyToRemove)
  /\ keyToRename' = (IF then = "rename" THEN None ELSE keyToRename)
  /\ renaming' = (renaming /\ then # "rename")

onKeysChange(a) ==
  /\ asks[a] # None /\ asks[a].kind = "list" /\ asks[a].read # None
  /\ managedKeys' = asks[a].read /\ asks' = [asks EXCEPT ![a] = None]
  /\ IF asks[a].orphan THEN UNCHANGED manager ELSE Closed(asks[a].then)
  /\ UNCHANGED <<kept, panesOpen, pane, cachedDevices, storage, acts>>

(* Another host's keys are merged, and an open dialog told.                 *)
KeysSynced(keys) ==
  /\ keys # keysKept /\ Act /\ keysKept' = keys
  /\ IF panesOpen THEN Starts("list", None, None) ELSE UNCHANGED asks
  /\ UNCHANGED <<cached, panesOpen, pane, listed, manager, storage>>

(***************************************************************************)
(* The cached device information and the logs.                              *)
(***************************************************************************)
confirm(s) ==
  /\ panesOpen /\ pane = "storage" /\ confirming = None
  /\ (s = "cache" => cachedDevices) /\ confirming' = s
  /\ UNCHANGED <<kept, panesOpen, pane, listed, manager, clearing, asks, acts>>

cancelConfirm ==
  /\ confirming # None /\ confirming' = None
  /\ UNCHANGED <<kept, panesOpen, pane, listed, manager, clearing, asks, acts>>

handleClear(s) ==
  /\ confirming = s /\ s \notin clearing /\ clearing' = clearing \cup {s}
  /\ cachedDevices' = (IF s = "cache" THEN cached ELSE cachedDevices)
  /\ UNCHANGED <<kept, panesOpen, pane, managedKeys, manager, confirming, asks, acts>>

Clears(s, ok) ==
  /\ s \in clearing /\ clearing' = clearing \ {s}
  /\ cached' = (cached /\ ~(ok /\ s = "cache"))
  /\ confirming' = (IF ok /\ confirming = s THEN None ELSE confirming)
  /\ cachedDevices' = (IF s = "cache" /\ panesOpen THEN cached' ELSE cachedDevices)
  /\ UNCHANGED <<keysKept, panesOpen, pane, managedKeys, manager, asks, acts>>

Next ==
  \/ Opens \/ Closes \/ openForm \/ cancelForm \/ handleImport \/ cancelDialogOfKey
  \/ handleRemove \/ handleRename \/ cancelConfirm
  \/ \E p \in {"connection", "storage"} : openSection(p)
  \/ \E key \in Keys : handleChooseFile(key) \/ setKeyToRemove(key) \/ openRename(key)
  \/ \E a \in Asks : Changed(a) \/ Fails(a) \/ GetManagedKeys(a) \/ onKeysChange(a)
  \/ \E keys \in SUBSET Keys : KeysSynced(keys)
  \/ \E s \in Stores : confirm(s) \/ handleClear(s) \/ \E ok \in BOOLEAN : Clears(s, ok)

PanesSpec == Init /\ [][Next]_panesVars

(***************************************************************************)
(* Properties.                                                             *)
(***************************************************************************)
(* A private key that was typed or read from a file goes with the form:     *)
(* whether it is canceled, its section left, the dialog closed or a late    *)
(* answer closes it, the next form starts empty (SSHKeyManager's effect of  *)
(* importing, and its being mounted with its section only).                 *)
DraftGoesWithTheForm == privateKey # None => adding /\ Mounted

===============================================================================
