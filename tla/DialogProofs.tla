------------------------------ MODULE DialogProofs ------------------------------
(* What TLAPS proves of the dialogs of Page: the settings, the configuration *)
(* editor, backup and restore, the import of documents, the check of the     *)
(* mods against an OS and the OS Manager, with the types of each, for any    *)
(* number of calls, reads, runs, documents and versions.                     *)
EXTENDS Page, Lists, SequenceTheorems, NaturalsInduction, WellFoundedInduction, TLAPS

-----------------------------------------------------------------------------
(* The settings                                                             *)

LEMMA SettingsConstants == Synced \subseteq Fields /\ Proxy \in Synced /\ Path \in Fields /\ None \notin BOOLEAN /\ MaxChanges \in Nat
  BY PageAssumption DEF Prefs!SettingsAssumption

(* What another host chose is still what is saved.                           *)
SettingsInv ==
  /\ Prefs!SettingsTypeOK
  /\ RemoteChangeSurvives

LEMMA SettingsInit == Init => SettingsInv
<1> SUFFICES ASSUME Prefs!Init PROVE SettingsInv
  BY DEF Init
<1>1. calls \in [Calls -> Prefs!Call \cup {None}]
  BY DEF Prefs!Init, Prefs!Call, Prefs!Read
<1>2. page \in Prefs!Values /\ saved \in Prefs!Values
  BY DEF Prefs!Init, Prefs!Default, Prefs!Values
<1>3. changes \in [{"here", "elsewhere"} -> 0..MaxChanges]
  BY SettingsConstants DEF Prefs!Init
<1> QED
  BY <1>1, <1>2, <1>3, SettingsConstants
  DEF SettingsInv, RemoteChangeSurvives, Prefs!RemoteChangeSurvives, Prefs!Init, Prefs!SettingsTypeOK,
      Prefs!Sections

(* A change of a setting keeps the types of what it changes.                 *)
LEMMA SettingsUpdate ==
  ASSUME Prefs!SettingsTypeOK, NEW f \in Fields, NEW v \in BOOLEAN, Prefs!onUpdate(f, v)
  PROVE  /\ page' \in Prefs!Values /\ calls' \in [Calls -> Prefs!Call \cup {None}]
         /\ changes' \in [{"here", "elsewhere"} -> 0..MaxChanges]
<1> USE SettingsConstants
<1>1. page' \in Prefs!Values
  BY DEF Prefs!onUpdate, Prefs!SettingsTypeOK, Prefs!Values
<1>2. Prefs!Only(f, v) \in Prefs!Patch
  BY DEF Prefs!Only, Prefs!Patch
<1>3. calls' \in [Calls -> Prefs!Call \cup {None}]
  BY <1>2 DEF Prefs!onUpdate, Prefs!Update, Prefs!Start, Prefs!SettingsTypeOK, Prefs!Call
<1>4. changes' \in [{"here", "elsewhere"} -> 0..MaxChanges]
  BY DEF Prefs!onUpdate, Prefs!Change, Prefs!SettingsTypeOK
<1> QED BY <1>1, <1>3, <1>4

LEMMA SettingsCommit ==
  ASSUME Prefs!SettingsTypeOK, Prefs!commitAgentPath
  PROVE  /\ page' \in Prefs!Values /\ calls' \in [Calls -> Prefs!Call \cup {None}]
         /\ changes' \in [{"here", "elsewhere"} -> 0..MaxChanges]
  BY SettingsUpdate, SettingsConstants DEF Prefs!commitAgentPath, Prefs!SettingsTypeOK

LEMMA SettingsStep == SettingsInv /\ Prefs!Next => SettingsInv'
<1> SUFFICES ASSUME SettingsInv, Prefs!Next PROVE SettingsInv'
  OBVIOUS
<1> USE SettingsConstants DEF SettingsInv, RemoteChangeSurvives, Prefs!RemoteChangeSurvives, Prefs!SettingsTypeOK,
        Prefs!Sections, Prefs!panes, Prefs!agent, Prefs!dns
<1>1. ASSUME NEW s \in Prefs!Sections \cup {None}, Prefs!openSettings(s) PROVE SettingsInv'
  BY <1>1 DEF Prefs!openSettings, Prefs!Values
<1>2. ASSUME NEW s \in Prefs!Sections \cup {None}, Prefs!openSection(s) PROVE SettingsInv'
  BY <1>2, SettingsCommit DEF Prefs!openSection
<1>3. CASE Prefs!closeSettings
  BY <1>3, SettingsCommit DEF Prefs!closeSettings
<1>4. CASE Prefs!typeAgentPath
  BY <1>4 DEF Prefs!typeAgentPath, Prefs!agentField
<1>5. CASE Prefs!browseAgentPath
  BY <1>5, SettingsUpdate DEF Prefs!browseAgentPath
<1>6. ASSUME NEW m \in {"auto", "custom"}, Prefs!selectAgentMode(m) PROVE SettingsInv'
  BY <1>6, SettingsUpdate DEF Prefs!selectAgentMode
<1>7. ASSUME NEW f \in Fields, Prefs!Toggle(f) PROVE SettingsInv'
  BY <1>7, SettingsUpdate DEF Prefs!Toggle, Prefs!Values
<1>8. CASE Prefs!checkDnsProxyError
  BY <1>8 DEF Prefs!checkDnsProxyError
<1>9. CASE Prefs!handleEnableProxyModeFromModal
  <2>1. Prefs!Only(Proxy, TRUE) \in Prefs!Patch
    BY DEF Prefs!Only, Prefs!Patch
  <2>2. calls' \in [Calls -> Prefs!Call \cup {None}]
    <3>1. [kind |-> "update", patch |-> Prefs!Only(Proxy, TRUE), modal |-> TRUE, outcome |-> None] \in Prefs!Call
      BY <2>1 DEF Prefs!Call
    <3> QED BY <1>9, <3>1 DEF Prefs!handleEnableProxyModeFromModal, Prefs!Start
  <2>3. page' \in Prefs!Values
    BY <1>9 DEF Prefs!handleEnableProxyModeFromModal, Prefs!Values
  <2> QED BY <1>9, <2>2, <2>3 DEF Prefs!handleEnableProxyModeFromModal
<1>10. CASE Prefs!closeDnsErrorModal
  BY <1>10 DEF Prefs!closeDnsErrorModal
<1>11. ASSUME NEW c \in Calls, NEW outcome \in {"ok", "failed"}, Prefs!UpdateSettings(c, outcome) PROVE SettingsInv'
  <2>1. calls' \in [Calls -> Prefs!Call \cup {None}]
    BY <1>11 DEF Prefs!UpdateSettings, Prefs!Call
  <2>2. CASE UNCHANGED <<saved, theirs>>
    BY <1>11, <2>1, <2>2 DEF Prefs!UpdateSettings
  <2>3. CASE /\ saved' = Prefs!Applies(calls[c].patch)
             /\ theirs' = [f \in Synced |-> IF calls[c].patch[f] # None THEN None ELSE theirs[f]]
    <3>1. calls[c].patch \in Prefs!Patch
      BY <1>11 DEF Prefs!UpdateSettings, Prefs!Call
    <3>2. saved' = [f \in Fields |-> IF calls[c].patch[f] # None THEN calls[c].patch[f] ELSE saved[f]]
      BY <2>3 DEF Prefs!Applies
    <3>3. /\ saved' \in Prefs!Values /\ theirs' \in [Synced -> BOOLEAN \cup {None}]
          /\ RemoteChangeSurvives'
      BY <2>3, <3>1, <3>2 DEF Prefs!Values, Prefs!Patch
    <3> QED BY <1>11, <2>1, <3>3 DEF Prefs!UpdateSettings
  <2> QED BY <1>11, <2>2, <2>3 DEF Prefs!UpdateSettings
<1>12. ASSUME NEW c \in Calls, NEW readable \in BOOLEAN, Prefs!GetSettings(c, readable) PROVE SettingsInv'
  <2>1. (IF readable THEN saved ELSE Prefs!Default) \in Prefs!Values
    BY DEF Prefs!Default, Prefs!Values
  <2>2. calls' \in [Calls -> Prefs!Call \cup {None}]
    BY <1>12, <2>1 DEF Prefs!GetSettings, Prefs!Call
  <2> QED BY <1>12, <2>2 DEF Prefs!GetSettings
<1>13. ASSUME NEW c \in Calls, Prefs!UpdateAnswered(c) PROVE SettingsInv'
  <2>1. calls' \in [Calls -> Prefs!Call \cup {None}]
    BY <1>13 DEF Prefs!UpdateAnswered, Prefs!Call, Prefs!Read
  <2> QED BY <1>13, <2>1 DEF Prefs!UpdateAnswered
<1>14. ASSUME NEW c \in Calls, Prefs!ReadAnswered(c) PROVE SettingsInv'
  <2>1. page' \in Prefs!Values
    <3>1. calls[c].values \in Prefs!Values
      BY <1>14 DEF Prefs!ReadAnswered, Prefs!Call
    <3> QED BY <1>14, <3>1 DEF Prefs!ReadAnswered, Prefs!Values
  <2> QED BY <1>14, <2>1 DEF Prefs!ReadAnswered
<1>15. ASSUME NEW f \in Synced, NEW v \in BOOLEAN, Prefs!SyncedChange(f, v) PROVE SettingsInv'
  <2>1. calls' \in [Calls -> Prefs!Call \cup {None}]
    BY <1>15 DEF Prefs!SyncedChange, Prefs!Start, Prefs!Call, Prefs!Read
  <2>2. /\ saved' \in Prefs!Values /\ theirs' \in [Synced -> BOOLEAN \cup {None}]
        /\ RemoteChangeSurvives'
    BY <1>15 DEF Prefs!SyncedChange, Prefs!Values
  <2>3. changes' \in [{"here", "elsewhere"} -> 0..MaxChanges]
    BY <1>15 DEF Prefs!SyncedChange, Prefs!Change
  <2> QED BY <1>15, <2>1, <2>2, <2>3 DEF Prefs!SyncedChange
<1> QED BY <1>1, <1>2, <1>3, <1>4, <1>5, <1>6, <1>7, <1>8, <1>9, <1>10, <1>11, <1>12, <1>13,
          <1>14, <1>15
    DEF Prefs!Next

LEMMA SettingsStay == SettingsInv /\ UNCHANGED settingsVars => SettingsInv'
  BY DEF SettingsInv, settingsVars, RemoteChangeSurvives, Prefs!RemoteChangeSurvives, Prefs!SettingsTypeOK

(* What another host chose stays until it is changed here, whatever the page *)
(* shows and however its saves and reads overlap (UpdateSettings).           *)
THEOREM RemoteChangesSurvive == Spec => []RemoteChangeSurvives
<1>1. Next => UNCHANGED settingsVars \/ Prefs!Next
  BY DEF Next, Only
<1>2. SettingsInv /\ UNCHANGED vars => SettingsInv'
  BY SettingsStay DEF vars
<1>3. SettingsInv => RemoteChangeSurvives
  BY DEF SettingsInv
<1> QED BY <1>1, <1>2, <1>3, SettingsInit, SettingsStep, SettingsStay, PTL DEF Spec

-----------------------------------------------------------------------------
(* The panes of the settings                                                *)

LEMMA PanesConstants == None \notin Keys /\ MaxActs \in Nat
  BY PageAssumption DEF Panes!PanesAssumption

(* A private key is held only by a form that is shown; a change that is      *)
(* under way is of a key.                                                    *)
PanesInv ==
  /\ Panes!PanesTypeOK
  /\ \A a \in Asks : asks[a] # None /\ asks[a].kind # "list" => asks[a].key \in Keys
  /\ DraftGoesWithTheForm

LEMMA PanesInit == Init => PanesInv
<1> SUFFICES ASSUME Panes!Init PROVE PanesInv
  BY DEF Init
<1>1. Panes!PanesTypeOK
  <2>1. asks \in [Asks -> Panes!Ask \cup {None}]
    BY DEF Panes!Init
  <2>2. /\ keysKept \subseteq Keys /\ managedKeys \subseteq Keys /\ clearing \subseteq Panes!Stores
        /\ acts \in 0..MaxActs
    BY PanesConstants DEF Panes!Init
  <2>3. /\ cached \in BOOLEAN /\ panesOpen \in BOOLEAN /\ cachedDevices \in BOOLEAN
        /\ adding \in BOOLEAN /\ saving \in BOOLEAN /\ renaming \in BOOLEAN
    BY DEF Panes!Init
  <2>4. /\ pane \in {"connection", "storage"} /\ privateKey \in Keys \cup {None}
        /\ keyToRemove \in Keys \cup {None} /\ keyToRename \in Keys \cup {None}
        /\ confirming \in Panes!Stores \cup {None}
    BY DEF Panes!Init
  <2> QED BY <2>1, <2>2, <2>3, <2>4 DEF Panes!PanesTypeOK
<1>2. \A a \in Asks : asks[a] = None
  BY DEF Panes!Init
<1>3. DraftGoesWithTheForm
  BY DEF Panes!Init, DraftGoesWithTheForm, Panes!DraftGoesWithTheForm
<1> QED BY <1>1, <1>2, <1>3 DEF PanesInv

LEMMA PanesStarts ==
  ASSUME PanesInv, NEW kind \in Panes!Changes \cup {"list"}, NEW key \in Keys \cup {None},
         kind # "list" => key \in Keys, Panes!Starts(kind, key, None)
  PROVE  /\ asks' \in [Asks -> Panes!Ask \cup {None}]
         /\ \A a \in Asks : asks'[a] # None /\ asks'[a].kind # "list" => asks'[a].key \in Keys
<1>1. [kind |-> kind, key |-> key, orphan |-> FALSE, then |-> None, read |-> None] \in Panes!Ask
  BY DEF Panes!Ask
<1> QED BY <1>1 DEF Panes!Starts, PanesInv, Panes!PanesTypeOK

LEMMA PanesOrphaned ==
  ASSUME PanesInv, asks' = Panes!Orphaned
  PROVE  /\ asks' \in [Asks -> Panes!Ask \cup {None}]
         /\ \A a \in Asks : asks'[a] # None /\ asks'[a].kind # "list" => asks'[a].key \in Keys
  BY ZenonT(40) DEF Panes!Orphaned, PanesInv, Panes!PanesTypeOK, Panes!Ask

LEMMA PanesStep == PanesInv /\ Panes!Next => PanesInv'
<1> SUFFICES ASSUME PanesInv, Panes!Next PROVE PanesInv'
  OBVIOUS
<1> USE PanesConstants DEF PanesInv, DraftGoesWithTheForm, Panes!DraftGoesWithTheForm, Panes!PanesTypeOK,
        Panes!Stores, Panes!Changes, Panes!Mounted, Panes!OfAKey, Panes!Free, Panes!Act, Panes!kept,
        Panes!listed, Panes!form, Panes!dialogsOfKey, Panes!manager, Panes!storage
<1>1. CASE Panes!Opens
  BY <1>1, PanesStarts DEF Panes!Opens
<1>2. CASE Panes!Closes
  BY <1>2, PanesOrphaned DEF Panes!Closes, Panes!Cleared
<1>3. CASE Panes!openForm
  BY <1>3 DEF Panes!openForm
<1>4. CASE Panes!cancelForm
  BY <1>4 DEF Panes!cancelForm, Panes!closeForm
<1>5. CASE Panes!handleImport
  BY <1>5, PanesStarts DEF Panes!handleImport
<1>6. CASE Panes!cancelDialogOfKey
  BY <1>6 DEF Panes!cancelDialogOfKey
<1>7. CASE Panes!handleRemove
  BY <1>7, PanesStarts DEF Panes!handleRemove
<1>8. CASE Panes!handleRename
  BY <1>8, PanesStarts DEF Panes!handleRename
<1>9. CASE Panes!cancelConfirm
  BY <1>9 DEF Panes!cancelConfirm
<1>10. ASSUME NEW p \in {"connection", "storage"}, Panes!openSection(p) PROVE PanesInv'
  BY <1>10, PanesOrphaned DEF Panes!openSection, Panes!Cleared
<1>11. ASSUME NEW key \in Keys, Panes!handleChooseFile(key) PROVE PanesInv'
  BY <1>11 DEF Panes!handleChooseFile
<1>12. ASSUME NEW key \in Keys, Panes!setKeyToRemove(key) PROVE PanesInv'
  BY <1>12 DEF Panes!setKeyToRemove
<1>13. ASSUME NEW key \in Keys, Panes!openRename(key) PROVE PanesInv'
  BY <1>13 DEF Panes!openRename
<1>14. ASSUME NEW a \in Asks, Panes!Changed(a) PROVE PanesInv'
  <2>1. asks[a] \in Panes!Ask
    BY <1>14 DEF Panes!Changed
  <2>2. Panes!Stored(asks[a]) \subseteq Keys
    BY <1>14, <2>1 DEF Panes!Changed, Panes!Stored, Panes!Ask
  <2>3. asks' \in [Asks -> Panes!Ask \cup {None}]
    BY <1>14, <2>1 DEF Panes!Changed, Panes!Ask
  <2> QED BY <1>14, <2>2, <2>3 DEF Panes!Changed
<1>15. ASSUME NEW a \in Asks, Panes!Fails(a) PROVE PanesInv'
  BY <1>15 DEF Panes!Fails
<1>16. ASSUME NEW a \in Asks, Panes!GetManagedKeys(a) PROVE PanesInv'
  <2>1. asks' \in [Asks -> Panes!Ask \cup {None}]
    BY <1>16 DEF Panes!GetManagedKeys, Panes!Ask
  <2> QED BY <1>16, <2>1 DEF Panes!GetManagedKeys
<1>17. ASSUME NEW a \in Asks, Panes!onKeysChange(a) PROVE PanesInv'
  <2>1. asks[a].read \subseteq Keys
    BY <1>17 DEF Panes!onKeysChange, Panes!Closed, Panes!closeForm, Panes!Ask
  <2> QED BY <1>17, <2>1 DEF Panes!onKeysChange, Panes!Closed, Panes!closeForm
<1>18. ASSUME NEW keys \in SUBSET Keys, Panes!KeysSynced(keys) PROVE PanesInv'
  BY <1>18, PanesStarts DEF Panes!KeysSynced
<1>19. ASSUME NEW s \in {"cache", "logs"}, Panes!confirm(s) PROVE PanesInv'
  BY <1>19 DEF Panes!confirm
<1>20. ASSUME NEW s \in {"cache", "logs"}, Panes!handleClear(s) PROVE PanesInv'
  BY <1>20 DEF Panes!handleClear
<1>21. ASSUME NEW s \in {"cache", "logs"}, NEW ok \in BOOLEAN, Panes!Clears(s, ok) PROVE PanesInv'
  BY <1>21 DEF Panes!Clears
<1> QED BY <1>1, <1>2, <1>3, <1>4, <1>5, <1>6, <1>7, <1>8, <1>9, <1>10, <1>11, <1>12, <1>13,
          <1>14, <1>15, <1>16, <1>17, <1>18, <1>19, <1>20, <1>21
    DEF Panes!Next

LEMMA PanesStay == PanesInv /\ UNCHANGED panesVars => PanesInv'
  BY DEF PanesInv, panesVars, DraftGoesWithTheForm, Panes!DraftGoesWithTheForm, Panes!PanesTypeOK, Panes!Mounted

(* A private key that was typed never outlives the form it was typed into.   *)
THEOREM DraftsGoWithTheirForm == Spec => []DraftGoesWithTheForm
<1>1. Next => UNCHANGED panesVars \/ Panes!Next
  BY DEF Next, Only
<1>2. PanesInv /\ UNCHANGED vars => PanesInv'
  BY PanesStay DEF vars
<1>3. PanesInv => DraftGoesWithTheForm
  BY DEF PanesInv
<1> QED BY <1>1, <1>2, <1>3, PanesInit, PanesStep, PanesStay, PTL DEF Spec

-----------------------------------------------------------------------------
(* The configuration editor                                                 *)

LEMMA EditorConstants ==
  /\ Texts \cap {Empty, None, "ask"} = {} /\ Invalid \subseteq Texts
  /\ OpIds \subseteq Nat \ {0} /\ MaxEdits \in Nat
  BY PageAssumption DEF Editor!ConfigAssumption

(* What the editor takes for the file's, or is about to, the file has held.  *)
(* A save has a text of its own, and an editor that is still empty, or was   *)
(* closed, hears of no save.                                                 *)
EditorInv ==
  /\ Editor!ConfigTypeOK
  /\ file \in held /\ originalContent \in held \cup {Empty}
  /\ \A l \in Loads : configLoads[l] \in Texts => configLoads[l] \in held
  /\ \A i \in OpIds : ops[i] # None /\ ops[i].kind # "backup" => ops[i].text \in Texts
  /\ showSaveConfirm => content \in Texts
  /\ content = Empty =>
       /\ originalContent = Empty
       /\ \A i \in OpIds : ops[i] # None /\ ops[i].kind = "save" => ops[i].orphan
  /\ ~editorShown =>
       /\ ~showSaveConfirm /\ restoreOverEdits = None
       /\ \A i \in OpIds : ops[i] # None => ops[i].orphan

LEMMA EditorInit == Init => EditorInv
<1> SUFFICES ASSUME Editor!Init, file \in Texts, copies \subseteq Texts PROVE EditorInv
  BY EditorConstants DEF Init, Editor!Init
<1>1. configLoads \in [Loads -> Texts \cup {None, "ask"}] /\ \A l \in Loads : configLoads[l] = None
  BY DEF Editor!Init, Editor!NoLoads
<1>2. ops \in [OpIds -> Editor!Op \cup {None}] /\ \A i \in OpIds : ops[i] = None
  BY DEF Editor!Init
<1>3. Editor!ConfigTypeOK
  <2>1. /\ held \subseteq Texts /\ backups \subseteq Texts /\ edits \in 0..MaxEdits /\ configOp \in OpIds \cup {0}
    BY EditorConstants DEF Editor!Init
  <2>2. /\ connectedNow \in BOOLEAN /\ editorShown \in BOOLEAN /\ confirmDiscardConfig \in BOOLEAN
        /\ showSaveConfirm \in BOOLEAN /\ showError \in BOOLEAN
    BY DEF Editor!Init
  <2>3. /\ content \in Texts \cup {Empty} /\ originalContent \in Texts \cup {Empty}
        /\ restoreOverEdits \in Texts \cup {None}
    BY DEF Editor!Init
  <2> QED BY <1>1, <1>2, <2>1, <2>2, <2>3 DEF Editor!ConfigTypeOK
<1>4. /\ file \in held /\ originalContent = Empty /\ content = Empty /\ ~showSaveConfirm
      /\ restoreOverEdits = None
  BY DEF Editor!Init
<1> QED BY <1>1, <1>2, <1>3, <1>4, EditorConstants DEF EditorInv

(* What starting an operation adds to those that are under way.              *)
LEMMA EditorStart ==
  ASSUME EditorInv, NEW kind \in {"save", "backup", "restore"}, NEW text \in Texts \cup {None},
         Editor!start(kind, text)
  PROVE  /\ configOp' \in OpIds /\ ops' \in [OpIds -> Editor!Op \cup {None}]
         /\ \A i \in OpIds : ops'[i] # None =>
              \/ ops'[i] = ops[i]
              \/ ops'[i].kind = kind /\ ops'[i].text = text
<1>1. [kind |-> kind, text |-> text, cut |-> FALSE, orphan |-> FALSE] \in Editor!Op
  BY DEF Editor!Op
<1> QED BY <1>1 DEF Editor!start, EditorInv, Editor!ConfigTypeOK

(* An editor that is closed keeps nothing.                                   *)
LEMMA EditorUnmounts ==
  ASSUME EditorInv, Editor!Unmounts, UNCHANGED <<file, copies, held, connectedNow, configOp, edits>>
  PROVE  EditorInv'
<1>1. /\ ops' \in [OpIds -> Editor!Op \cup {None}]
      /\ \A i \in OpIds : ops'[i] # None => /\ ops[i] # None /\ ops'[i].orphan /\ ops'[i].kind = ops[i].kind
                                            /\ ops'[i].text = ops[i].text
  BY ZenonT(40) DEF Editor!Unmounts, EditorInv, Editor!ConfigTypeOK, Editor!Op
<1>2. configLoads' \in [Loads -> Texts \cup {None, "ask"}] /\ \A l \in Loads : configLoads'[l] = None
  BY DEF Editor!Unmounts, Editor!NoLoads
<1>3. /\ editorShown' = FALSE /\ confirmDiscardConfig' = FALSE /\ content' = Empty /\ originalContent' = Empty
      /\ backups' = {} /\ showSaveConfirm' = FALSE /\ restoreOverEdits' = None /\ showError' = FALSE
  BY DEF Editor!Unmounts, Editor!Fresh
<1> QED BY ZenonT(40), <1>1, <1>2, <1>3, EditorConstants DEF EditorInv, Editor!ConfigTypeOK

LEMMA EditorStep == EditorInv /\ Editor!Next => EditorInv'
<1> SUFFICES ASSUME EditorInv, Editor!Next PROVE EditorInv'
  OBVIOUS
<1> USE EditorConstants DEF EditorInv, CleanWasOnTheTablet, Editor!CleanWasOnTheTablet, Editor!ConfigTypeOK,
        Editor!remote, Editor!editor, Editor!asking, Editor!working, Editor!isDirty
<1>1. CASE Editor!openTool
  <2>1. /\ configLoads' \in [Loads -> Texts \cup {None, "ask"}]
        /\ \A l \in Loads : configLoads'[l] \in {None, "ask"}
    BY <1>1 DEF Editor!openTool, Editor!loadConfig, Editor!NoLoads
  <2>2. /\ content' = Empty /\ originalContent' = Empty /\ backups' = copies /\ edits' \in 0..MaxEdits
        /\ showSaveConfirm' = FALSE /\ restoreOverEdits' = None /\ showError' = FALSE /\ editorShown' = TRUE
        /\ \A i \in OpIds : ops[i] # None => ops[i].orphan
    BY <1>1 DEF Editor!openTool, Editor!Fresh, Editor!Edit
  <2>3. UNCHANGED <<file, copies, held, connectedNow, confirmDiscardConfig, configOp, ops>>
    BY <1>1 DEF Editor!openTool
  <2> QED BY <2>1, <2>2, <2>3
<1>2. CASE Editor!requestSave
  BY <1>2 DEF Editor!requestSave, Editor!isDirty, Editor!Valid
<1>3. CASE Editor!saveConfig
  <2>1. CASE Editor!start("save", content) /\ UNCHANGED showError
    <3>1. content \in Texts /\ content # Empty
      BY <1>3 DEF Editor!saveConfig
    <3>2. /\ configOp' \in OpIds /\ ops' \in [OpIds -> Editor!Op \cup {None}]
          /\ \A i \in OpIds : ops'[i] # None =>
               ops'[i] = ops[i] \/ (ops'[i].kind = "save" /\ ops'[i].text = content)
      BY <2>1, <3>1, EditorStart
    <3> QED BY <1>3, <2>1, <3>1, <3>2 DEF Editor!saveConfig, Editor!Valid
  <2>2. CASE UNCHANGED <<configOp, ops>> /\ showError' = TRUE
    BY <1>3, <2>2 DEF Editor!saveConfig, Editor!Valid
  <2> QED BY <1>3, <2>1, <2>2 DEF Editor!saveConfig, Editor!Valid, Editor!working
<1>4. CASE Editor!createBackup
  BY <1>4, EditorStart DEF Editor!createBackup, Editor!Edit
<1>5. CASE Editor!ConfirmRestore
  BY <1>5, EditorStart DEF Editor!ConfirmRestore
<1>6. CASE Editor!Dismiss
  BY <1>6 DEF Editor!Dismiss, Editor!Modal
<1>7. CASE Editor!requestCloseConfigEditor
  <2>1. CASE Editor!Unmounts
    BY <1>7, <2>1, EditorUnmounts DEF Editor!requestCloseConfigEditor
  <2>2. CASE UNCHANGED <<editorShown, content, originalContent, backups, showSaveConfirm, restoreOverEdits,
                         showError, configLoads, ops>> /\ confirmDiscardConfig' = TRUE
    BY <1>7, <2>2 DEF Editor!requestCloseConfigEditor
  <2> QED BY <1>7, <2>1, <2>2 DEF Editor!requestCloseConfigEditor
<1>8. CASE Editor!Discard
  BY <1>8, EditorUnmounts DEF Editor!Discard
<1>9. ASSUME NEW text \in Texts, Editor!Type(text) PROVE EditorInv'
  BY <1>9 DEF Editor!Type, Editor!Edit
<1>10. ASSUME NEW text \in Texts, Editor!OthersWrite(text) PROVE EditorInv'
  BY <1>10 DEF Editor!OthersWrite, Editor!Edit
<1>11. ASSUME NEW b \in copies, Editor!SelectBackup(b) PROVE EditorInv'
  <2>1. CASE Editor!start("restore", b)
    BY <1>11, <2>1, EditorStart DEF Editor!SelectBackup, Editor!Edit
  <2>2. CASE UNCHANGED <<configOp, ops>>
    BY <1>11, <2>2 DEF Editor!SelectBackup, Editor!Edit
  <2> QED BY <1>11, <2>1, <2>2 DEF Editor!SelectBackup, Editor!Edit
<1>12. ASSUME NEW l \in Loads, Editor!ReadConfigFile(l) PROVE EditorInv'
  BY <1>12 DEF Editor!ReadConfigFile
<1>13. ASSUME NEW l \in Loads, Editor!ReadLands(l) PROVE EditorInv'
  BY <1>13 DEF Editor!ReadLands
<1>14. ASSUME NEW l \in Loads, Editor!ReadFails(l) PROVE EditorInv'
  BY <1>14 DEF Editor!ReadFails
<1>15. ASSUME NEW i \in OpIds, Editor!Succeeds(i) PROVE EditorInv'
  <2>1. Editor!Writes(i) \in Texts /\ ops[i] \in Editor!Op
    BY <1>15 DEF Editor!Succeeds, Editor!Writes, Editor!Op
  <2>2. /\ file' \in held' /\ held \subseteq held' /\ file' \in Texts /\ held' \subseteq Texts
        /\ copies' \subseteq Texts /\ configOp' \in OpIds \cup {0}
        /\ ops' \in [OpIds -> Editor!Op \cup {None}] /\ \A j \in OpIds : ops'[j] # None => ops'[j] = ops[j]
        /\ UNCHANGED <<connectedNow, editorShown, confirmDiscardConfig, showSaveConfirm, restoreOverEdits,
                       showError, edits>>
    BY <1>15, <2>1 DEF Editor!Succeeds
  <2>3. CASE UNCHANGED <<content, originalContent, backups, configLoads>>
    BY <2>2, <2>3
  <2>4. CASE /\ ~ops[i].orphan /\ ops[i].kind = "save" /\ originalContent' = ops[i].text
             /\ UNCHANGED <<content, backups, configLoads>>
    <3>1. originalContent' \in held' /\ content # Empty
      BY <1>15, <2>1, <2>4 DEF Editor!Succeeds, Editor!Writes
    <3> QED BY <2>2, <2>4, <3>1
  <2>5. CASE backups' = copies' /\ UNCHANGED <<content, originalContent, configLoads>>
    BY <2>2, <2>5
  <2>6. CASE Editor!loadConfig(configLoads) /\ UNCHANGED <<content, originalContent, backups>>
    BY <2>2, <2>6 DEF Editor!loadConfig
  <2> QED BY <1>15, <2>3, <2>4, <2>5, <2>6 DEF Editor!Succeeds, Editor!Saved
<1>16. ASSUME NEW i \in OpIds, Editor!Fails(i) PROVE EditorInv'
  <2>1. ops[i] \in Editor!Op /\ (ops[i].kind # "backup" => Editor!Writes(i) \in Texts)
    BY <1>16 DEF Editor!Fails, Editor!Writes
  <2>2. /\ file' \in held' /\ held \subseteq held' /\ file' \in Texts /\ held' \subseteq Texts
        /\ copies' = copies /\ configOp' \in OpIds \cup {0}
        /\ ops' \in [OpIds -> Editor!Op \cup {None}] /\ \A j \in OpIds : ops'[j] # None => ops'[j] = ops[j]
        /\ showError' \in BOOLEAN
    BY <1>16, <2>1 DEF Editor!Fails, Editor!Op
  <2> QED BY <1>16, <2>2 DEF Editor!Fails
<1>17. CASE Editor!LinkLost
  <2>1. \A j \in OpIds : ops[j] # None =>
          /\ [ops[j] EXCEPT !.cut = TRUE] \in Editor!Op
          /\ [ops[j] EXCEPT !.cut = TRUE].kind = ops[j].kind /\ [ops[j] EXCEPT !.cut = TRUE].text = ops[j].text
          /\ [ops[j] EXCEPT !.cut = TRUE].orphan = ops[j].orphan
    BY DEF Editor!Op
  <2>2. ops' = [i \in OpIds |-> IF ops[i] = None THEN None ELSE [ops[i] EXCEPT !.cut = TRUE]]
    BY <1>17 DEF Editor!LinkLost
  <2>3. /\ ops' \in [OpIds -> Editor!Op \cup {None}]
        /\ \A j \in OpIds : ops'[j] # None => /\ ops[j] # None /\ ops'[j].kind = ops[j].kind
                                             /\ ops'[j].text = ops[j].text /\ ops'[j].orphan = ops[j].orphan
    BY <2>1, <2>2
  <2>4. edits' \in 0..MaxEdits /\ connectedNow' = FALSE /\ configOp' = 0
    BY <1>17 DEF Editor!LinkLost, Editor!Edit
  <2>5. UNCHANGED <<file, copies, held, editorShown, content, originalContent, backups, confirmDiscardConfig,
                    showSaveConfirm, restoreOverEdits, showError, configLoads>>
    BY <1>17 DEF Editor!LinkLost
  <2> QED BY <2>3, <2>4, <2>5
<1>18. CASE Editor!LinkRestored
  BY <1>18 DEF Editor!LinkRestored, Editor!loadConfig
<1>19. CASE Editor!Disconnect
  BY <1>19, EditorUnmounts DEF Editor!Disconnect
<1> QED BY <1>1, <1>2, <1>3, <1>4, <1>5, <1>6, <1>7, <1>8, <1>9, <1>10, <1>11, <1>12, <1>13,
          <1>14, <1>15, <1>16, <1>17, <1>18, <1>19
    DEF Editor!Next

LEMMA EditorStay == EditorInv /\ UNCHANGED editorVars => EditorInv'
  BY DEF EditorInv, editorVars, CleanWasOnTheTablet, Editor!CleanWasOnTheTablet, Editor!ConfigTypeOK, Editor!isDirty

(* Text that the editor does not mark as edited is text the file has held:   *)
(* what is typed during a save, a backup, a restore or a loss of the link is *)
(* never taken for saved.                                                    *)
THEOREM CleanTextWasOnTheTablet == Spec => []CleanWasOnTheTablet
<1>1. Next => UNCHANGED editorVars \/ Editor!Next
  BY DEF Next, Only
<1>2. EditorInv /\ UNCHANGED vars => EditorInv'
  BY EditorStay DEF vars
<1>3. EditorInv => CleanWasOnTheTablet
  BY DEF EditorInv, CleanWasOnTheTablet, Editor!CleanWasOnTheTablet, Editor!isDirty
<1> QED BY <1>1, <1>2, <1>3, EditorInit, EditorStep, EditorStay, PTL DEF Spec

-----------------------------------------------------------------------------
(* Backup and restore                                                       *)

LEMMA BackupConstants ==
  None \notin Archives \cup {"backup", "restore"} /\ RunIds \subseteq Nat \ {0} /\ MaxRuns \in Nat
  BY PageAssumption DEF Archiver!BackupAssumption

OwnRun(i) == operationIdRef = i /\ backupRuns[i] # None /\ ~backupRuns[i].cut

(* The dialog's own run, as long as it can still succeed, is the one that    *)
(* the page shows, and the dialog is at its progress.                        *)
BackupInv ==
  /\ Archiver!BackupTypeOK
  /\ \A i \in RunIds : OwnRun(i) =>
       /\ shownRun = i /\ ~picking /\ stage = "progress" /\ success = None
       /\ mode = backupRuns[i].mode
  /\ picking => mode # None /\ success = None
  /\ SuccessIsOfTheRunShown

LEMMA BackupInit == Init => BackupInv
<1> SUFFICES ASSUME Archiver!Init PROVE BackupInv
  BY DEF Init
<1>1. backupRuns \in [RunIds -> Archiver!Run \cup {None}] /\ \A i \in RunIds : backupRuns[i] = None
  BY DEF Archiver!Init
<1>2. /\ chooser \in BOOLEAN /\ picking = FALSE /\ backupError \in BOOLEAN /\ restoreRequestedRef \in BOOLEAN
      /\ backupLink \in BOOLEAN
  BY DEF Archiver!Init
<1>3. /\ mode = None /\ stage = "confirm" /\ backupProgress = 0 /\ success = None /\ selectedFile = None
      /\ operationIdRef = 0 /\ shownRun = 0 /\ asked \in 0..MaxRuns
  BY BackupConstants DEF Archiver!Init
<1> QED BY <1>1, <1>2, <1>3 DEF BackupInv, Archiver!BackupTypeOK, OwnRun, SuccessIsOfTheRunShown,
           Archiver!SuccessIsOfTheRunShown

(* A run that begins is the dialog's, and is the run that is shown.          *)
LEMMA BackupRun ==
  ASSUME BackupInv, NEW m \in Archiver!Modes, Archiver!run(m)
  PROVE  /\ stage' = "progress" /\ operationIdRef' \in RunIds /\ shownRun' = operationIdRef'
         /\ backupRuns' \in [RunIds -> Archiver!Run \cup {None}]
         /\ backupRuns'[operationIdRef'].mode = m
<1>1. PICK i \in RunIds :
        /\ operationIdRef' = i /\ shownRun' = i /\ stage' = "progress"
        /\ backupRuns' = [backupRuns EXCEPT ![i] =
             [mode |-> m, stop |-> FALSE, cut |-> ~backupLink,
              refused |-> \E j \in RunIds : backupRuns[j] # None]]
  BY DEF Archiver!run
<1>2. [mode |-> m, stop |-> FALSE, cut |-> ~backupLink, refused |-> \E j \in RunIds : backupRuns[j] # None]
        \in Archiver!Run
  BY DEF Archiver!Run
<1> QED BY <1>1, <1>2 DEF BackupInv, Archiver!BackupTypeOK

LEMMA BackupStep == BackupInv /\ Archiver!Next => BackupInv'
<1> SUFFICES ASSUME BackupInv, Archiver!Next PROVE BackupInv'
  OBVIOUS
<1> USE BackupConstants DEF BackupInv, OwnRun, SuccessIsOfTheRunShown, Archiver!SuccessIsOfTheRunShown,
        Archiver!BackupTypeOK, Archiver!Modes, Archiver!dialog, Archiver!outcomes, Archiver!request, Archiver!machine
<1>1. CASE Archiver!openTool
  BY <1>1 DEF Archiver!openTool, Archiver!Ask
<1>2. CASE Archiver!CancelChooser
  BY ZenonT(40), <1>2 DEF Archiver!CancelChooser
<1>3. CASE Archiver!handleRestoreConfirm
  BY <1>3, BackupRun DEF Archiver!handleRestoreConfirm, Archiver!RestoreConfirm, Archiver!resetRun
<1>4. CASE Archiver!handleCancel
  <2>1. backupRuns' \in [RunIds -> Archiver!Run \cup {None}]
    BY ZenonT(40), <1>4 DEF Archiver!handleCancel, Archiver!Run
  <2> QED BY <1>4, <2>1 DEF Archiver!handleCancel, Archiver!RestoreConfirm
<1>5. CASE Archiver!handleClose
  BY <1>5 DEF Archiver!handleClose, Archiver!RestoreConfirm, Archiver!running
<1>6. ASSUME NEW m \in Archiver!Modes, Archiver!Choose(m) PROVE BackupInv'
  <2>1. \A i \in RunIds : ~OwnRun(i)
    BY <1>6 DEF Archiver!Choose, Archiver!running
  <2>2. /\ mode' = m /\ picking' = TRUE /\ chooser' = FALSE /\ success' = None /\ backupError' = FALSE
        /\ backupProgress' = 0 /\ selectedFile' \in Archives \cup {None} /\ restoreRequestedRef' \in BOOLEAN
        /\ UNCHANGED <<stage, operationIdRef, shownRun, backupRuns, backupLink, asked>>
    BY <1>6 DEF Archiver!Choose, Archiver!resetRun
  <2> QED BY <2>1, <2>2
<1>7. ASSUME NEW f \in Archives \cup {None}, Archiver!Picked(f) PROVE BackupInv'
  <2>1. CASE f = None /\ mode' = None /\ UNCHANGED <<stage, selectedFile, operationIdRef, shownRun, backupRuns>>
    BY <1>7, <2>1 DEF Archiver!Picked
  <2>2. CASE mode = "backup" /\ Archiver!run(mode) /\ UNCHANGED <<mode, selectedFile>>
    BY <1>7, <2>2, BackupRun DEF Archiver!Picked
  <2>3. CASE /\ f # None /\ selectedFile' = f /\ stage' = "confirm"
             /\ UNCHANGED <<mode, operationIdRef, shownRun, backupRuns>>
    BY <1>7, <2>3 DEF Archiver!Picked
  <2> QED BY <1>7, <2>1, <2>2, <2>3 DEF Archiver!Picked, Archiver!machine
<1>8. ASSUME NEW i \in RunIds, Archiver!handleProgress(i) PROVE BackupInv'
  BY <1>8 DEF Archiver!handleProgress
<1>9. ASSUME NEW i \in RunIds, NEW outcome \in {"succeeded", "failed", "canceled"}, Archiver!Ends(i, outcome) PROVE BackupInv'
  <2>1. /\ backupRuns[i] \in Archiver!Run /\ backupRuns' \in [RunIds -> Archiver!Run \cup {None}]
        /\ \A j \in RunIds : backupRuns'[j] # None => j # i /\ backupRuns'[j] = backupRuns[j]
    BY <1>9 DEF Archiver!Ends
  <2>2. CASE operationIdRef # i
    BY <1>9, <2>1, <2>2 DEF Archiver!Ends, Archiver!Shows
  <2>3. CASE operationIdRef = i
    BY <1>9, <2>1, <2>3 DEF Archiver!Ends, Archiver!Shows, Archiver!Run
  <2> QED BY <2>2, <2>3
<1>10. CASE Archiver!LinkLost
  <2>1. /\ backupRuns' \in [RunIds -> Archiver!Run \cup {None}]
        /\ \A i \in RunIds : backupRuns'[i] # None => backupRuns'[i].cut
    BY <1>10 DEF Archiver!LinkLost, Archiver!Run
  <2>2. /\ backupLink' = FALSE /\ shownRun' = 0 /\ asked' \in 0..MaxRuns
        /\ UNCHANGED <<chooser, mode, stage, picking, backupProgress, backupError, success, selectedFile,
                       restoreRequestedRef, operationIdRef>>
    BY <1>10 DEF Archiver!LinkLost, Archiver!Ask
  <2> QED BY ZenonT(40), <2>1, <2>2
<1>11. CASE Archiver!LinkRestored
  BY <1>11 DEF Archiver!LinkRestored
<1> QED BY <1>1, <1>2, <1>3, <1>4, <1>5, <1>6, <1>7, <1>8, <1>9, <1>10, <1>11
    DEF Archiver!Next

LEMMA BackupStay == BackupInv /\ UNCHANGED backupVars => BackupInv'
  BY DEF BackupInv, backupVars, SuccessIsOfTheRunShown, Archiver!SuccessIsOfTheRunShown, Archiver!BackupTypeOK, OwnRun

(* A dialog that says a backup was made, or a restore is complete, says so   *)
(* of its own run, whatever runs were given up before it.                    *)
THEOREM SuccessIsOfItsRun == Spec => []SuccessIsOfTheRunShown
<1>1. Next => UNCHANGED backupVars \/ Archiver!Next
  BY DEF Next, Only
<1>2. BackupInv /\ UNCHANGED vars => BackupInv'
  BY BackupStay DEF vars
<1>3. BackupInv => SuccessIsOfTheRunShown
  BY DEF BackupInv
<1> QED BY <1>1, <1>2, <1>3, BackupInit, BackupStep, BackupStay, PTL DEF Spec

-----------------------------------------------------------------------------
(* The import of documents                                                  *)

(* A card that is done is of a document that is on the tablet.               *)
ImportInv ==
  /\ staged \in Seq(Importer!Card)
  /\ MarkedDoneWasImported

LEMMA ImportInit == Init => ImportInv
  BY DEF Init, Importer!Init, ImportInv, MarkedDoneWasImported, Importer!MarkedDoneWasImported

(* Cards that are rewritten in their places are cards still.                 *)
LEMMA RewrittenCards ==
  ASSUME NEW s \in Seq(Importer!Card), NEW f(_), \A k \in DOMAIN s : f(k) \in Importer!Card
  PROVE  /\ [k \in DOMAIN s |-> f(k)] \in Seq(Importer!Card)
         /\ DOMAIN [k \in DOMAIN s |-> f(k)] = DOMAIN s
<1>1. DOMAIN s = 1..Len(s) /\ Len(s) \in Nat
  OBVIOUS
<1>2. [k \in DOMAIN s |-> f(k)] \in [1..Len(s) -> Importer!Card]
  BY <1>1
<1> QED BY <1>1, <1>2

LEMMA CardWithStatus ==
  ASSUME NEW card \in Importer!Card, NEW st \in Importer!Statuses
  PROVE  /\ [card EXCEPT !.status = st] \in Importer!Card
         /\ [card EXCEPT !.status = st].id = card.id
         /\ [card EXCEPT !.status = st].status = st
  BY DEF Importer!Card

(* What an event shows on the card of its document.                          *)
LEMMA ImportShows ==
  ASSUME ImportInv, NEW i \in ImportIds, NEW st \in Importer!Statuses, Importer!Shows(i, st),
         imported \subseteq imported', st = "done" => Importer!Document(i).id \in imported'
  PROVE  ImportInv'
<1> DEFINE card(k) == IF staged[k].id = Importer!Document(i).id
                      THEN [staged[k] EXCEPT !.status = st] ELSE staged[k]
<1>1. staged \in Seq(Importer!Card) /\ MarkedDoneWasImported
  BY DEF ImportInv
<1>2. \A k \in DOMAIN staged : staged[k] \in Importer!Card
  BY <1>1
<1>3. \A k \in DOMAIN staged :
        /\ card(k) \in Importer!Card
        /\ card(k).id = staged[k].id
        /\ card(k).status = IF staged[k].id = Importer!Document(i).id THEN st ELSE staged[k].status
  BY <1>2, CardWithStatus
<1>4. staged' = [k \in DOMAIN staged |-> card(k)]
  BY DEF Importer!Shows
<1> HIDE DEF card
<1>5. staged' \in Seq(Importer!Card) /\ DOMAIN staged' = DOMAIN staged
  BY <1>1, <1>3, <1>4, RewrittenCards
<1>6. \A k \in DOMAIN staged' : staged'[k].status = "done" => staged'[k].id \in imported'
  BY <1>1, <1>3, <1>4, <1>5 DEF MarkedDoneWasImported, Importer!MarkedDoneWasImported
<1> QED BY <1>5, <1>6 DEF ImportInv, MarkedDoneWasImported, Importer!MarkedDoneWasImported

(* What the user edits of a card is not its document nor its st.         *)
LEMMA ImportUpdates ==
  ASSUME ImportInv, NEW card \in Importer!Card, NEW k \in DOMAIN staged, card.id = staged[k].id,
         card.status = staged[k].status, Importer!Updates(card), imported' = imported
  PROVE  ImportInv'
<1> DEFINE new(j) == IF staged[j].id = card.id THEN card ELSE staged[j]
<1>1. staged \in Seq(Importer!Card) /\ MarkedDoneWasImported
  BY DEF ImportInv
<1>2. \A j \in DOMAIN staged : new(j) \in Importer!Card
  BY <1>1
<1>3. staged' = [j \in DOMAIN staged |-> new(j)]
  BY DEF Importer!Updates
<1>4. \A j \in DOMAIN staged : new(j).status = "done" => new(j).id \in imported
  BY <1>1 DEF MarkedDoneWasImported, Importer!MarkedDoneWasImported
<1> HIDE DEF new
<1>5. staged' \in Seq(Importer!Card) /\ DOMAIN staged' = DOMAIN staged
  BY <1>1, <1>2, <1>3, RewrittenCards
<1> QED BY <1>3, <1>4, <1>5 DEF ImportInv, MarkedDoneWasImported, Importer!MarkedDoneWasImported

(* Taking an element out of a sequence leaves elements it had.               *)
LEMMA RemoveAtElements ==
  ASSUME NEW S, NEW s \in Seq(S), NEW k \in DOMAIN s
  PROVE  /\ Importer!RemoveAt(s, k) \in Seq(S)
         /\ \A j \in DOMAIN Importer!RemoveAt(s, k) : \E l \in DOMAIN s : Importer!RemoveAt(s, k)[j] = s[l]
<1> DEFINE a == SubSeq(s, 1, k - 1)
           b == SubSeq(s, k + 1, Len(s))
<1>1. DOMAIN s = 1..Len(s) /\ Len(s) \in Nat /\ k \in 1..Len(s)
  OBVIOUS
<1>2. a \in Seq(S) /\ DOMAIN a = 1..(k - 1) /\ Len(a) = k - 1 /\ \A j \in 1..(k - 1) : a[j] = s[j]
  BY <1>1
<1>3. b \in Seq(S) /\ Len(b) = Len(s) - k /\ \A j \in 1..(Len(s) - k) : b[j] = s[j + k]
  BY <1>1
<1>4. Importer!RemoveAt(s, k) = a \o b
  BY DEF Importer!RemoveAt
<1> HIDE DEF a, b
<1>5. a \o b \in Seq(S) /\ Len(a \o b) = Len(a) + Len(b)
      /\ \A j \in 1..(Len(a) + Len(b)) : (a \o b)[j] = IF j <= Len(a) THEN a[j] ELSE b[j - Len(a)]
  BY <1>2, <1>3, ConcatProperties
<1>6. Len(a) + Len(b) = Len(s) - 1 /\ DOMAIN (a \o b) = 1..(Len(a) + Len(b))
  BY <1>1, <1>2, <1>3, <1>5
<1>7. ASSUME NEW j \in 1..(Len(a) + Len(b)) PROVE \E l \in DOMAIN s : (a \o b)[j] = s[l]
  <2>1. CASE j <= Len(a)
    <3>1. j \in 1..(k - 1) /\ j \in DOMAIN s
      BY <1>1, <1>2, <1>3, <2>1
    <3>2. (a \o b)[j] = a[j]
      BY <1>5, <2>1
    <3> QED BY <1>2, <3>1, <3>2
  <2>2. CASE ~(j <= Len(a))
    <3>1. j - Len(a) \in 1..(Len(s) - k) /\ (j - Len(a)) + k \in DOMAIN s
      BY SMTT(30), <1>1, <1>2, <1>3, <2>2
    <3>2. (a \o b)[j] = b[j - Len(a)]
      BY <1>5, <2>2
    <3> QED BY <1>3, <3>1, <3>2
  <2> QED BY <2>1, <2>2
<1> QED BY <1>4, <1>5, <1>6, <1>7

LEMMA ImportStep == ImportInv /\ Importer!Next => ImportInv'
<1> SUFFICES ASSUME ImportInv, Importer!Next PROVE ImportInv'
  OBVIOUS
<1> USE DEF ImportInv, MarkedDoneWasImported, Importer!MarkedDoneWasImported, Importer!cards
<1>1. CASE Importer!Opens
  BY <1>1 DEF Importer!Opens
<1>2. CASE Importer!handleClose
  BY <1>2 DEF Importer!handleClose
<1>3. CASE Importer!handleBrowse
  BY <1>3 DEF Importer!handleBrowse, Importer!addPaths
<1>4. CASE Importer!EditsCard
  <2>1. PICK k \in DOMAIN staged :
          \/ Importer!removeFile(k)
          \/ Importer!editName(staged[k]) \/ Importer!applyPageOverride(staged[k])
          \/ Importer!resetPageOverride(staged[k])
    BY <1>4 DEF Importer!EditsCard
  <2>2. imported' = imported
    BY <1>4 DEF Importer!EditsCard, Importer!CardOnly
  <2>3. CASE Importer!removeFile(k)
    BY <2>2, <2>3, RemoveAtElements DEF Importer!removeFile
  <2>4. staged[k] \in Importer!Card
    OBVIOUS
  <2>5. \A b \in BOOLEAN : /\ [staged[k] EXCEPT !.named = b] \in Importer!Card
                        /\ [staged[k] EXCEPT !.override = b] \in Importer!Card
    BY <2>4 DEF Importer!Card
  <2>6. CASE Importer!editName(staged[k])
    <3> DEFINE card == [staged[k] EXCEPT !.named = ~staged[k].named]
    <3>1. card \in Importer!Card /\ card.id = staged[k].id /\ card.status = staged[k].status
      BY <2>4, <2>5 DEF Importer!Card
    <3>2. Importer!Updates(card)
      BY <2>6 DEF Importer!editName
    <3> HIDE DEF card
    <3> QED BY <2>2, <3>1, <3>2, ImportUpdates
  <2>7. CASE Importer!applyPageOverride(staged[k])
    <3> DEFINE card == [staged[k] EXCEPT !.override = TRUE]
    <3>1. card \in Importer!Card /\ card.id = staged[k].id /\ card.status = staged[k].status
      BY <2>4, <2>5 DEF Importer!Card
    <3>2. Importer!Updates(card)
      BY <2>7 DEF Importer!applyPageOverride
    <3> HIDE DEF card
    <3> QED BY <2>2, <3>1, <3>2, ImportUpdates
  <2>8. CASE Importer!resetPageOverride(staged[k])
    <3> DEFINE card == [staged[k] EXCEPT !.override = FALSE]
    <3>1. card \in Importer!Card /\ card.id = staged[k].id /\ card.status = staged[k].status
      BY <2>4, <2>5 DEF Importer!Card
    <3>2. Importer!Updates(card)
      BY <2>8 DEF Importer!resetPageOverride
    <3> HIDE DEF card
    <3> QED BY <2>2, <3>1, <3>2, ImportUpdates
  <2> QED BY <2>1, <2>3, <2>6, <2>7, <2>8
<1>5. CASE Importer!setRestartXochitl
  BY <1>5 DEF Importer!setRestartXochitl
<1>6. CASE Importer!handleImport
  BY <1>6 DEF Importer!handleImport
<1>7. ASSUME NEW valid \in BOOLEAN, Importer!addPaths(valid) PROVE ImportInv'
  BY <1>7 DEF Importer!addPaths
<1>8. ASSUME NEW d \in Documents, NEW outcome \in {"counted", "uncounted", "unreadable"}, Importer!GetImportFileInfo(d, outcome) PROVE ImportInv'
  <2> DEFINE card == [id |-> d, named |-> TRUE, counted |-> outcome = "counted", override |-> FALSE, status |-> "staged"]
  <2>1. card \in Importer!Card /\ card.status # "done" /\ imported' = imported
    BY <1>8 DEF Importer!GetImportFileInfo, Importer!Card, Importer!Statuses
  <2>2. staged' = staged \/ staged' = Append(staged, card)
    BY <1>8 DEF Importer!GetImportFileInfo
  <2> HIDE DEF card
  <2>3. CASE staged' = Append(staged, card)
    BY <2>1, <2>3
  <2> QED BY <2>1, <2>2, <2>3
<1>9. ASSUME NEW i \in ImportIds, Importer!Importing(i) PROVE ImportInv'
  BY <1>9, ImportShows DEF Importer!Importing, Importer!Statuses
<1>10. ASSUME NEW i \in ImportIds, Importer!Completed(i) PROVE ImportInv'
  BY <1>10, ImportShows DEF Importer!Completed, Importer!Statuses
<1>11. ASSUME NEW i \in ImportIds, Importer!Failed(i) PROVE ImportInv'
  BY <1>11, ImportShows DEF Importer!Failed, Importer!Statuses
<1>12. ASSUME NEW i \in ImportIds, Importer!Refreshes(i) PROVE ImportInv'
  BY <1>12 DEF Importer!Refreshes
<1>13. ASSUME NEW i \in ImportIds, Importer!Succeeds(i) PROVE ImportInv'
  BY <1>13 DEF Importer!Succeeds, Importer!Ended
<1>14. ASSUME NEW i \in ImportIds, Importer!Fails(i) PROVE ImportInv'
  BY <1>14 DEF Importer!Fails, Importer!Ended
<1>15. CASE Importer!LinkLost
  BY <1>15 DEF Importer!LinkLost
<1>16. CASE Importer!LinkRestored
  BY <1>16 DEF Importer!LinkRestored
<1> QED BY <1>1, <1>2, <1>3, <1>4, <1>5, <1>6, <1>7, <1>8, <1>9, <1>10, <1>11, <1>12, <1>13,
          <1>14, <1>15, <1>16
    DEF Importer!Next

LEMMA ImportStay == ImportInv /\ UNCHANGED importVars => ImportInv'
  BY DEF ImportInv, importVars, MarkedDoneWasImported, Importer!MarkedDoneWasImported, Importer!cards

(* A card that is marked as done, which a retry leaves out, is of a document *)
(* that is on the tablet.                                                    *)
THEOREM MarkedDoneIsImported == Spec => []MarkedDoneWasImported
<1>1. Next => UNCHANGED importVars \/ Importer!Next
  BY DEF Next, Only
<1>2. ImportInv /\ UNCHANGED vars => ImportInv'
  BY ImportStay DEF vars
<1>3. ImportInv => MarkedDoneWasImported
  BY DEF ImportInv
<1> QED BY <1>1, <1>2, <1>3, ImportInit, ImportStep, ImportStay, PTL DEF Spec

-----------------------------------------------------------------------------
(* The OS Manager                                                           *)

LEMMA OsConstants == 0 \notin RunIds /\ None \notin Versions /\ None \notin Manager!Run
  BY PageAssumption DEF Manager!OsManagerAssumption

(* The install whose progress is shown is under way, and its version is     *)
(* still the one that is chosen.                                            *)
OsInv ==
  /\ runs \in [RunIds -> Manager!Run \cup {None}]
  /\ selectedVersion \in Versions \cup {None} /\ installRun \in RunIds \cup {0}
  /\ installRun # 0 =>
       /\ runs[installRun] # None /\ runs[installRun].kind = "os-install"
       /\ runs[installRun].target = selectedVersion

LEMMA OsInit == Init => OsInv
  BY OsConstants DEF Init, Manager!Init, OsInv

LEMMA OsStep == OsInv /\ Manager!Next => OsInv'
<1> SUFFICES ASSUME OsInv, Manager!Next PROVE OsInv'
  OBVIOUS
<1> USE OsConstants DEF OsInv, Manager!device, Manager!shown, Manager!list, Manager!choice, Manager!compat,
        Manager!install, Manager!commands, Manager!installRunning
<1>1. CASE Manager!openOSManager
  BY <1>1 DEF Manager!openOSManager, Manager!Opens, Manager!loadData
<1>2. CASE Manager!closeOSManager
  BY <1>2 DEF Manager!closeOSManager
<1>3. CASE Manager!TryAgain
  BY <1>3 DEF Manager!TryAgain, Manager!loadData
<1>4. CASE Manager!ClickSlot
  BY <1>4 DEF Manager!ClickSlot, Manager!ShowOnly
<1>5. CASE Manager!handleInstallClick
  BY <1>5 DEF Manager!handleInstallClick, Manager!ShowOnly
<1>6. CASE Manager!ClickReboot
  BY <1>6 DEF Manager!ClickReboot, Manager!ShowOnly
<1>7. CASE Manager!CancelOrClose
  <2>1. /\ runs' \in [RunIds -> Manager!Run \cup {None}]
        /\ \A j \in RunIds : runs[j] # None =>
             runs'[j] # None /\ runs'[j].kind = runs[j].kind /\ runs'[j].target = runs[j].target
    BY <1>7 DEF Manager!CancelOrClose, Manager!Run, Manager!Kinds
  <2>2. UNCHANGED <<selectedVersion, installRun>>
    BY <1>7 DEF Manager!CancelOrClose
  <2> QED BY <2>1, <2>2
<1>8. ASSUME NEW v \in Versions, Manager!setSelectedVersion(v) PROVE OsInv'
  BY <1>8 DEF Manager!setSelectedVersion, Manager!Selectable
<1>9. ASSUME NEW d \in Manager!Dialogs, Manager!Dismiss(d) PROVE OsInv'
  BY <1>9 DEF Manager!Dismiss
<1>10. ASSUME NEW i \in RunIds, Manager!handleSwitchConfirm(i) PROVE OsInv'
  <2>1. runs' \in [RunIds -> Manager!Run \cup {None}]
    BY <1>10 DEF Manager!handleSwitchConfirm, Manager!startOperation, Manager!Run, Manager!Kinds
  <2> QED BY <1>10, <2>1 DEF Manager!handleSwitchConfirm, Manager!startOperation
<1>11. ASSUME NEW i \in RunIds, Manager!handleInstallConfirm(i) PROVE OsInv'
  <2>1. runs' \in [RunIds -> Manager!Run \cup {None}]
    BY <1>11 DEF Manager!handleInstallConfirm, Manager!startOperation, Manager!Run, Manager!Kinds
  <2>2. /\ runs'[i] = [kind |-> "os-install", target |-> selectedVersion, late |-> FALSE, stop |-> FALSE, cut |-> FALSE]
        /\ installRun' = i /\ selectedVersion' = selectedVersion
    BY <1>11 DEF Manager!handleInstallConfirm, Manager!startOperation
  <2>3. selectedVersion \in Versions
    BY <1>11 DEF Manager!handleInstallConfirm
  <2>4. runs'[i] \in Manager!Run
    BY <2>2, <2>3 DEF Manager!Run, Manager!Kinds
  <2>5. runs'[i].kind = "os-install" /\ runs'[i].target = selectedVersion
    BY <2>2
  <2>6. runs[installRun]' = runs'[i] /\ runs'[i] # None /\ i # 0
    BY <2>2, <2>4
  <2> QED BY <2>1, <2>2, <2>3, <2>5, <2>6
<1>12. ASSUME NEW i \in RunIds, Manager!handleReboot(i) PROVE OsInv'
  <2>1. runs' \in [RunIds -> Manager!Run \cup {None}]
    BY <1>12 DEF Manager!handleReboot, Manager!startOperation, Manager!Run, Manager!Kinds
  <2> QED BY <1>12, <2>1 DEF Manager!handleReboot, Manager!startOperation
<1>13. ASSUME NEW r \in Reads, Manager!InfoLands(r) PROVE OsInv'
  BY <1>13 DEF Manager!InfoLands, Manager!Reading
<1>14. ASSUME NEW r \in Reads, NEW ok \in BOOLEAN, Manager!CheckOSManagerReady(r, ok) PROVE OsInv'
  BY <1>14 DEF Manager!CheckOSManagerReady, Manager!Reading
<1>15. ASSUME NEW r \in Reads, NEW ok \in BOOLEAN, Manager!GetPartitionInfo(r, ok) PROVE OsInv'
  BY <1>15 DEF Manager!GetPartitionInfo, Manager!Reading
<1>16. ASSUME NEW r \in Reads, NEW ok \in BOOLEAN, Manager!GetAvailableOSVersions(r, ok) PROVE OsInv'
  BY <1>16 DEF Manager!GetAvailableOSVersions, Manager!Reading
<1>17. ASSUME NEW v \in Versions, NEW ok \in BOOLEAN, Manager!checkCompatibility(v, ok) PROVE OsInv'
  BY <1>17 DEF Manager!checkCompatibility
<1>18. ASSUME NEW i \in RunIds, Manager!UploadDone(i) PROVE OsInv'
  <2>1. /\ runs' \in [RunIds -> Manager!Run \cup {None}]
        /\ \A j \in RunIds : runs[j] # None =>
             runs'[j] # None /\ runs'[j].kind = runs[j].kind /\ runs'[j].target = runs[j].target
    BY <1>18 DEF Manager!UploadDone, Manager!Run, Manager!Kinds
  <2>2. UNCHANGED <<selectedVersion, installRun>>
    BY <1>18 DEF Manager!UploadDone
  <2> QED BY <2>1, <2>2
<1>19. ASSUME NEW i \in RunIds, Manager!Succeeds(i) PROVE OsInv'
  BY <1>19 DEF Manager!Succeeds, Manager!Forget
<1>20. ASSUME NEW i \in RunIds, NEW canceled \in BOOLEAN, Manager!Fails(i, canceled) PROVE OsInv'
  BY <1>20 DEF Manager!Fails, Manager!Forget
<1>21. ASSUME NEW rebooted \in BOOLEAN, Manager!LinkLost(rebooted) PROVE OsInv'
  <2>1. /\ runs' \in [RunIds -> Manager!Run \cup {None}]
        /\ \A j \in RunIds : runs[j] # None =>
             runs'[j] # None /\ runs'[j].kind = runs[j].kind /\ runs'[j].target = runs[j].target
    BY <1>21 DEF Manager!LinkLost, Manager!Run, Manager!Kinds
  <2>2. UNCHANGED <<selectedVersion, installRun>>
    BY <1>21 DEF Manager!LinkLost
  <2> QED BY <2>1, <2>2
<1>22. CASE Manager!LinkRestored
  BY <1>22 DEF Manager!LinkRestored, Manager!Opens, Manager!loadData
<1> QED BY <1>1, <1>2, <1>3, <1>4, <1>5, <1>6, <1>7, <1>8, <1>9, <1>10, <1>11, <1>12, <1>13,
          <1>14, <1>15, <1>16, <1>17, <1>18, <1>19, <1>20, <1>21, <1>22
    DEF Manager!Next, Manager!User

LEMMA OsStay == OsInv /\ UNCHANGED managerVars => OsInv'
  BY DEF OsInv, managerVars, ProgressNamesTheInstall, Manager!ProgressNamesTheInstall, Manager!installRunning

(* The progress dialog of an install names the version that is installed,    *)
(* however the manager is closed, reopened and cut off meanwhile.            *)
THEOREM ProgressNamesItsInstall == Spec => []ProgressNamesTheInstall
<1>1. Next => UNCHANGED managerVars \/ Manager!Next
  BY DEF Next, Only
<1>2. OsInv /\ UNCHANGED vars => OsInv'
  BY OsStay DEF vars
<1>3. OsInv => ProgressNamesTheInstall
  BY DEF OsInv, ProgressNamesTheInstall, Manager!ProgressNamesTheInstall, Manager!installRunning
<1> QED BY <1>1, <1>2, <1>3, OsInit, OsStep, OsStay, PTL DEF Spec

-----------------------------------------------------------------------------
(* Lists.  Induction is over the set of the numbers for which a claim holds: *)
(* the smallest number that is not in it would have one before it that is.   *)

LEMMA Smallest ==
  ASSUME NEW T, T \subseteq Nat, T # {}
  PROVE  \E x \in T : \A y \in T : ~ (y < x)
<1>1. IsWellFoundedOn(OpToRel(<, Nat), Nat)
  BY NatLessThanWellFounded
<1>2. PICK x \in T : \A y \in T : <<y, x>> \notin OpToRel(<, Nat)
  BY <1>1, WFMin
<1> QED BY <1>2 DEF OpToRel

LEMMA Induction ==
  ASSUME NEW T, 0 \in T, \A n \in Nat : n \in T => n + 1 \in T
  PROVE  Nat \subseteq T
<1> SUFFICES ASSUME Nat \ T # {} PROVE FALSE
  OBVIOUS
<1>1. PICK x \in Nat \ T : \A y \in Nat \ T : ~ (y < x)
  BY Smallest
<1>2. x # 0 /\ x - 1 \in Nat /\ x - 1 \in T
  BY <1>1
<1> QED BY <1>1, <1>2

(* One more element of s, kept or not.                                      *)
OneMore(s, K, f, n) == IF n = 0 THEN <<>> ELSE IF n \in K THEN Append(f[n - 1], s[n]) ELSE f[n - 1]

(* The function that Kept defines by recursion exists.                       *)
LEMMA KeptExists ==
  ASSUME NEW s, NEW K, NEW N \in Nat
  PROVE  \E f : f = [n \in 0..N |-> OneMore(s, K, f, n)]
<1> DEFINE T == {m \in Nat : \E f : f = [n \in 0..m |-> OneMore(s, K, f, n)]}
<1>1. 0 \in T
  <2>1. [n \in 0..0 |-> <<>>] = [n \in 0..0 |-> OneMore(s, K, [k \in 0..0 |-> <<>>], n)]
    BY DEF OneMore
  <2> QED BY <2>1
<1>2. ASSUME NEW m \in Nat, m \in T PROVE m + 1 \in T
  <2>1. PICK f : f = [n \in 0..m |-> OneMore(s, K, f, n)]
    BY <1>2
  <2> DEFINE g == [n \in 0..m+1 |-> IF n = m + 1 THEN OneMore(s, K, f, m + 1) ELSE f[n]]
  <2>2. \A n \in 0..m+1 : g[n] = OneMore(s, K, g, n)
    <3> SUFFICES ASSUME NEW n \in 0..m+1 PROVE g[n] = OneMore(s, K, g, n)
      OBVIOUS
    <3>1. CASE n = m + 1
      BY <3>1 DEF OneMore
    <3>2. CASE n \in 0..m
      <4>1. f[n] = OneMore(s, K, f, n)
        BY <2>1, <3>2, Zenon
      <4> QED BY <3>2, <4>1 DEF OneMore
    <3> QED BY <3>1, <3>2
  <2>3. g = [n \in 0..m+1 |-> g[n]]
    OBVIOUS
  <2> HIDE DEF g
  <2>4. [n \in 0..m+1 |-> g[n]] = [n \in 0..m+1 |-> OneMore(s, K, g, n)]
    BY <2>2, Zenon
  <2>5. \E h : h = [n \in 0..m+1 |-> OneMore(s, K, h, n)]
    BY <2>3, <2>4, Zenon
  <2> QED BY <2>5
<1> HIDE DEF T
<1>3. N \in T
  BY <1>1, <1>2, Induction
<1> QED BY <1>3 DEF T

(* What is kept of a list is a list of what stands at those places.          *)
LEMMA KeptType ==
  ASSUME NEW S, NEW s \in Seq(S), NEW K, NEW R, \A k \in K \cap DOMAIN s : s[k] \in R
  PROVE  Kept(s, K) \in Seq(R)
<1> DEFINE f == CHOOSE f : f = [n \in 0..Len(s) |-> OneMore(s, K, f, n)]
<1>1. f = [n \in 0..Len(s) |-> OneMore(s, K, f, n)]
  <2>1. Len(s) \in Nat
    OBVIOUS
  <2>2. \E h : h = [n \in 0..Len(s) |-> OneMore(s, K, h, n)]
    BY <2>1, KeptExists
  <2> QED BY <2>2, Zenon
<1>2. Kept(s, K) = f[Len(s)]
  BY Zenon DEF Kept, OneMore
<1> HIDE DEF f
<1> DEFINE T == {m \in Nat : m <= Len(s) => f[m] \in Seq(R)}
<1>3. 0 \in T
  BY <1>1 DEF OneMore
<1>4. ASSUME NEW m \in Nat, m \in T PROVE m + 1 \in T
  <2> SUFFICES ASSUME m + 1 <= Len(s) PROVE f[m + 1] \in Seq(R)
    OBVIOUS
  <2>1. f[m] \in Seq(R) /\ (m + 1 \in K => s[m + 1] \in R)
    BY <1>4
  <2>2. m + 1 \in 0..Len(s)
    OBVIOUS
  <2>3. f[m + 1] = OneMore(s, K, f, m + 1)
    BY <1>1, <2>2, Zenon
  <2> QED BY <2>1, <2>3 DEF OneMore
<1>5. Len(s) \in T
  <2> HIDE DEF T
  <2> QED BY <1>3, <1>4, Induction
<1> QED BY <1>2, <1>5

-----------------------------------------------------------------------------
(* The import of documents                                                  *)

LEMMA ImportConstants == Documents \subseteq Nat /\ 0 \notin ImportIds /\ MaxTouches \in Nat
  BY PageAssumption DEF Importer!ImportAssumption

Handed == [id : Documents, pages : BOOLEAN]
Batch == Seq(Handed)

(* A run has a document before it while it uploads, and no more of them have *)
(* failed than it has gone past.                                            *)
ImportRecord == [batch : Batch, index : Nat, phase : Importer!Phases, failed : Nat,
                 refresh : BOOLEAN, cut : BOOLEAN, refused : BOOLEAN]
Imports == {r \in ImportRecord :
             /\ r.failed < r.index /\ r.index <= Len(r.batch) + 1
             /\ r.phase = "upload" => r.index <= Len(r.batch)}

ImportTypes ==
  /\ ImportInv
  /\ imports \in [ImportIds -> Imports \cup {None}]
  /\ importOpen \in BOOLEAN /\ inspecting \subseteq Documents
  /\ importError \in BOOLEAN /\ refresh \in BOOLEAN
  /\ importShown \in ImportIds \cup {0} /\ importLink \in BOOLEAN
  /\ imported \subseteq Documents /\ added \subseteq Documents /\ touches \in 0..MaxTouches

LEMMA ImportTypesMean == ImportTypes => Importer!ImportTypeOK
<1> SUFFICES ASSUME ImportTypes, NEW i \in ImportIds, imports[i] # None
             PROVE  /\ imports[i].index \in 1..Len(imports[i].batch) + 1 /\ imports[i].phase \in Importer!Phases
                    /\ imports[i].failed \in 0..Len(imports[i].batch)
  BY DEF ImportTypes, ImportInv, Importer!ImportTypeOK
<1>1. imports[i] \in Imports
  BY DEF ImportTypes
<1>2. imports[i].batch \in Batch /\ Len(imports[i].batch) \in Nat
  BY <1>1 DEF Imports, ImportRecord, Batch
<1> QED BY <1>1, <1>2 DEF Imports, ImportRecord

LEMMA ImportTypesInit == Init => ImportTypes
<1> SUFFICES ASSUME Init PROVE ImportTypes
  OBVIOUS
<1>1. Importer!Init /\ ImportInv
  BY ImportInit DEF Init
<1>2. imports \in [ImportIds -> Imports \cup {None}] /\ 0 \in 0..MaxTouches
  BY <1>1, ImportConstants DEF Importer!Init
<1>3. /\ importOpen = FALSE /\ importError = FALSE /\ refresh = TRUE /\ importLink = TRUE
      /\ importShown = 0 /\ touches = 0 /\ inspecting = {} /\ imported = {} /\ added = {}
  BY <1>1 DEF Importer!Init
<1> QED BY <1>1, <1>2, <1>3 DEF ImportTypes

(* A step of a run, which stays one.                                        *)
LEMMA ImportRuns ==
  ASSUME ImportTypes, NEW i \in ImportIds, imports[i] # None
  PROVE  /\ imports[i] \in Imports
         /\ imports[i].phase = "next" /\ imports[i].index <= Len(imports[i].batch) =>
              [imports[i] EXCEPT !.phase = "upload"] \in Imports
         /\ imports[i].phase = "upload" => [imports[i] EXCEPT !.phase = "next", !.index = @ + 1] \in Imports
         /\ imports[i].phase = "upload" =>
              [imports[i] EXCEPT !.phase = "next", !.index = @ + 1, !.failed = @ + 1] \in Imports
         /\ imports[i].phase = "upload" => Importer!Document(i).id \in Documents
         /\ [imports[i] EXCEPT !.phase = "refresh"] \in Imports
         /\ [imports[i] EXCEPT !.cut = TRUE] \in Imports
<1>1. imports[i] \in Imports
  BY DEF ImportTypes
<1>0. imports[i] \in ImportRecord
  BY <1>1 DEF Imports
<1>2. imports[i].batch \in Batch /\ Len(imports[i].batch) \in Nat /\ imports[i].index \in Nat /\ imports[i].failed \in Nat
  BY <1>0 DEF ImportRecord, Batch
<1>3. ASSUME imports[i].phase = "upload" PROVE Importer!Document(i).id \in Documents
  <2>1. imports[i].index \in 1..Len(imports[i].batch)
    BY <1>1, <1>2, <1>3 DEF Imports
  <2>2. imports[i].batch[imports[i].index] \in Handed
    BY <1>2, <2>1 DEF Batch
  <2> QED BY <2>2 DEF Handed, Importer!Document
<1>4. ASSUME imports[i].phase = "next", imports[i].index <= Len(imports[i].batch)
      PROVE  [imports[i] EXCEPT !.phase = "upload"] \in Imports
  <2> DEFINE r == [imports[i] EXCEPT !.phase = "upload"]
  <2> SUFFICES r \in Imports
    OBVIOUS
  <2>1. r \in ImportRecord
    BY <1>0, <1>2 DEF ImportRecord, Importer!Phases
  <2>2. r.phase = "upload" /\ r.index = imports[i].index /\ r.failed = imports[i].failed /\ r.batch = imports[i].batch
    BY <1>0 DEF ImportRecord
  <2>3. imports[i].failed < imports[i].index /\ imports[i].index <= Len(imports[i].batch)
    BY <1>1, <1>4 DEF Imports
  <2> HIDE DEF r
  <2> QED BY <2>1, <2>2, <2>3, <1>2 DEF Imports
<1>5. ASSUME imports[i].phase = "upload" PROVE [imports[i] EXCEPT !.phase = "next", !.index = @ + 1] \in Imports
  <2> DEFINE r == [imports[i] EXCEPT !.phase = "next", !.index = @ + 1]
             a == [imports[i] EXCEPT !.phase = "next"]
             b == [a EXCEPT !.index = a.index + 1]
  <2> SUFFICES r \in Imports
    OBVIOUS
  <2>a. a \in ImportRecord /\ a.index \in Nat
    BY <1>0 DEF ImportRecord, Importer!Phases
  <2>b. b \in ImportRecord /\ b.failed \in Nat
    <3> HIDE DEF a
    <3> QED BY <2>a DEF ImportRecord
  <2>1. r \in ImportRecord
    <3>1. r = b
      BY <1>0 DEF ImportRecord
    <3> QED BY <3>1, <2>b
  <2>2. r.phase = "next" /\ r.index = imports[i].index + 1 /\ r.failed = imports[i].failed /\ r.batch = imports[i].batch
    BY <1>0 DEF ImportRecord
  <2>3. imports[i].failed < imports[i].index /\ imports[i].index <= Len(imports[i].batch)
    BY <1>1, <1>5 DEF Imports
  <2> HIDE DEF r
  <2>4. r.failed < r.index /\ r.index <= Len(r.batch) + 1 /\ r.phase # "upload"
    BY <1>2, <2>2, <2>3
  <2> QED BY <2>1, <2>4 DEF Imports
<1>6. ASSUME imports[i].phase = "upload" PROVE [imports[i] EXCEPT !.phase = "next", !.index = @ + 1, !.failed = @ + 1] \in Imports
  <2> DEFINE r == [imports[i] EXCEPT !.phase = "next", !.index = @ + 1, !.failed = @ + 1]
             a == [imports[i] EXCEPT !.phase = "next"]
             b == [a EXCEPT !.index = a.index + 1]
             c == [b EXCEPT !.failed = b.failed + 1]
  <2> SUFFICES r \in Imports
    OBVIOUS
  <2>a. a \in ImportRecord /\ a.index \in Nat
    BY <1>0 DEF ImportRecord, Importer!Phases
  <2>b. b \in ImportRecord /\ b.failed \in Nat
    <3> HIDE DEF a
    <3> QED BY <2>a DEF ImportRecord
  <2>c. c \in ImportRecord
    <3> HIDE DEF b
    <3> QED BY <2>b DEF ImportRecord
  <2>1. r \in ImportRecord
    <3>1. r = c
      BY <1>0 DEF ImportRecord
    <3> QED BY <3>1, <2>c
  <2>2. r.phase = "next" /\ r.index = imports[i].index + 1 /\ r.failed = imports[i].failed + 1 /\ r.batch = imports[i].batch
    BY <1>0 DEF ImportRecord
  <2>3. imports[i].failed < imports[i].index /\ imports[i].index <= Len(imports[i].batch)
    BY <1>1, <1>6 DEF Imports
  <2> HIDE DEF r
  <2>4. r.failed < r.index /\ r.index <= Len(r.batch) + 1 /\ r.phase # "upload"
    BY <1>2, <2>2, <2>3
  <2> QED BY <2>1, <2>4 DEF Imports
<1>7. [imports[i] EXCEPT !.phase = "refresh"] \in Imports
  <2> DEFINE r == [imports[i] EXCEPT !.phase = "refresh"]
  <2> SUFFICES r \in Imports
    OBVIOUS
  <2>1. r \in ImportRecord
    BY <1>0, <1>2 DEF ImportRecord, Importer!Phases
  <2>2. r.phase = "refresh" /\ r.index = imports[i].index /\ r.failed = imports[i].failed /\ r.batch = imports[i].batch
    BY <1>0 DEF ImportRecord
  <2>3. imports[i] \in Imports
    BY <1>1
  <2> HIDE DEF r
  <2> QED BY <2>1, <2>2, <2>3, <1>2 DEF Imports
<1>8. [imports[i] EXCEPT !.cut = TRUE] \in Imports
  <2> DEFINE r == [imports[i] EXCEPT !.cut = TRUE]
  <2> SUFFICES r \in Imports
    OBVIOUS
  <2>1. r \in ImportRecord
    BY <1>0, <1>2 DEF ImportRecord, Importer!Phases
  <2>2. r.phase = imports[i].phase /\ r.index = imports[i].index /\ r.failed = imports[i].failed /\ r.batch = imports[i].batch
    BY <1>0 DEF ImportRecord
  <2>3. imports[i] \in Imports
    BY <1>1
  <2> HIDE DEF r
  <2> QED BY <2>1, <2>2, <2>3, <1>2 DEF Imports
<1> QED BY <1>1, <1>3, <1>4, <1>5, <1>6, <1>7, <1>8

LEMMA ImportBatch ==
  ASSUME ImportInv, NEW chosen,
         chosen = Kept(staged, {k \in DOMAIN staged : Importer!isImportable(staged[k])})
  PROVE  [k \in DOMAIN chosen |-> Importer!handed(chosen[k])] \in Batch
<1>1. chosen \in Seq(Importer!Card)
  BY KeptType DEF ImportInv
<1>2. DOMAIN chosen = 1..Len(chosen) /\ Len(chosen) \in Nat
  BY <1>1
<1>3. \A card \in Importer!Card : Importer!handed(card) \in Handed
  BY DEF Importer!handed, Importer!Card, Handed
<1>4. \A k \in 1..Len(chosen) : chosen[k] \in Importer!Card
  BY <1>1
<1>5. [k \in DOMAIN chosen |-> Importer!handed(chosen[k])] \in [1..Len(chosen) -> Handed]
  BY <1>2, <1>3, <1>4
<1>6. \A n \in Nat : [1..n -> Handed] \subseteq Batch
  BY DEF Batch
<1> QED BY <1>2, <1>5, <1>6

LEMMA ImportTypesStep == ImportTypes /\ Importer!Next => ImportTypes'
<1> SUFFICES ASSUME ImportTypes, Importer!Next PROVE ImportTypes'
  OBVIOUS
<1>0. ImportInv'
  BY ImportStep DEF ImportTypes
<1> USE <1>0, ImportConstants DEF ImportTypes, Importer!cards
<1>1. CASE Importer!Opens
  <2>1. /\ importOpen' = TRUE /\ refresh' = TRUE /\ importError' = FALSE /\ touches' \in 0..MaxTouches
        /\ UNCHANGED <<inspecting, added, importShown, imports, importLink, imported>>
    BY <1>1 DEF Importer!Opens, Importer!Touch
  <2> QED BY <2>1
<1>2. CASE Importer!handleClose
  BY <1>2 DEF Importer!handleClose
<1>3. CASE Importer!handleBrowse
  BY <1>3 DEF Importer!handleBrowse, Importer!addPaths
<1>4. CASE Importer!EditsCard
  BY <1>4 DEF Importer!EditsCard, Importer!Touch, Importer!CardOnly
<1>5. CASE Importer!setRestartXochitl
  BY <1>5 DEF Importer!setRestartXochitl, Importer!Touch
<1>6. CASE Importer!handleImport
  <2> DEFINE chosen == Kept(staged, {k \in DOMAIN staged : Importer!isImportable(staged[k])})
             batch == [k \in DOMAIN chosen |-> Importer!handed(chosen[k])]
             new == [batch |-> batch, index |-> 1, phase |-> "next", failed |-> 0,
                     refresh |-> refresh, cut |-> ~importLink, refused |-> ~importLink]
  <2>1. batch \in Batch
    BY ImportBatch
  <2>2. Importer!Kept(staged, {k \in DOMAIN staged : Importer!isImportable(staged[k])}) = chosen
    BY Zenon DEF Importer!Kept, Kept
  <2>3. \E i \in ImportIds : importShown' = i /\ imports' = [imports EXCEPT ![i] = new]
    BY <1>6, <2>2, Zenon DEF Importer!handleImport
  <2> HIDE DEF batch
  <2>4. Len(batch) \in Nat
    BY <2>1 DEF Batch
  <2>5. new \in Imports
    BY <2>1, <2>4 DEF Imports, ImportRecord, Importer!Phases
  <2> HIDE DEF new
  <2>6. UNCHANGED <<importOpen, inspecting, added, refresh, importLink, imported, touches>> /\ importError' = FALSE
    BY <1>6, Zenon DEF Importer!handleImport
  <2> QED BY <2>3, <2>5, <2>6
<1>7. ASSUME NEW valid \in BOOLEAN, Importer!addPaths(valid) PROVE ImportTypes'
  BY <1>7 DEF Importer!addPaths
<1>8. ASSUME NEW d \in Documents, NEW outcome \in {"counted", "uncounted", "unreadable"}, Importer!GetImportFileInfo(d, outcome) PROVE ImportTypes'
  BY <1>8 DEF Importer!GetImportFileInfo
<1>9. ASSUME NEW i \in ImportIds, Importer!Importing(i) PROVE ImportTypes'
  <2>1. imports' \in [ImportIds -> Imports \cup {None}]
    BY <1>9, ImportRuns DEF Importer!Importing, Importer!Goes
  <2>2. imported' \subseteq Documents
    BY <1>9, ImportRuns DEF Importer!Importing, Importer!Goes
  <2> QED BY <1>9, <2>1, <2>2 DEF Importer!Importing
<1>10. ASSUME NEW i \in ImportIds, Importer!Completed(i) PROVE ImportTypes'
  <2>1. imports' \in [ImportIds -> Imports \cup {None}]
    BY <1>10, ImportRuns DEF Importer!Completed, Importer!Goes
  <2>2. imported' \subseteq Documents
    BY <1>10, ImportRuns DEF Importer!Completed, Importer!Goes
  <2> QED BY <1>10, <2>1, <2>2 DEF Importer!Completed
<1>11. ASSUME NEW i \in ImportIds, Importer!Failed(i) PROVE ImportTypes'
  <2>1. imports' \in [ImportIds -> Imports \cup {None}]
    BY <1>11, ImportRuns DEF Importer!Failed, Importer!Goes
  <2>2. imported' \subseteq Documents
    <3>1. imports[i] # None /\ imports[i].phase = "upload"
      BY <1>11 DEF Importer!Failed, Importer!Goes
    <3>2. Importer!Document(i).id \in Documents
      BY <3>1, ImportRuns
    <3> QED BY <1>11, <3>2 DEF Importer!Failed
  <2> QED BY <1>11, <2>1, <2>2 DEF Importer!Failed
<1>12. ASSUME NEW i \in ImportIds, Importer!Refreshes(i) PROVE ImportTypes'
  <2>1. imports' \in [ImportIds -> Imports \cup {None}]
    BY <1>12, ImportRuns DEF Importer!Refreshes, Importer!Goes
  <2>2. imported' \subseteq Documents
    BY <1>12, ImportRuns DEF Importer!Refreshes, Importer!Goes
  <2> QED BY <1>12, <2>1, <2>2 DEF Importer!Refreshes
<1>13. ASSUME NEW i \in ImportIds, Importer!Succeeds(i) PROVE ImportTypes'
  BY <1>13 DEF Importer!Succeeds, Importer!Ended
<1>14. ASSUME NEW i \in ImportIds, Importer!Fails(i) PROVE ImportTypes'
  BY <1>14 DEF Importer!Fails, Importer!Ended
<1>15. CASE Importer!LinkLost
  <2>1. imports' \in [ImportIds -> Imports \cup {None}]
    BY <1>15, ImportRuns DEF Importer!LinkLost
  <2>2. /\ importLink' = FALSE /\ importShown' = 0 /\ touches' \in 0..MaxTouches
        /\ UNCHANGED <<importOpen, inspecting, added, importError, refresh, imported>>
    BY <1>15 DEF Importer!LinkLost, Importer!Touch
  <2> QED BY <2>1, <2>2
<1>16. CASE Importer!LinkRestored
  BY <1>16 DEF Importer!LinkRestored
<1> QED BY <1>1, <1>2, <1>3, <1>4, <1>5, <1>6, <1>7, <1>8, <1>9, <1>10, <1>11, <1>12, <1>13,
          <1>14, <1>15, <1>16
    DEF Importer!Next

LEMMA ImportTypesStay == ImportTypes /\ UNCHANGED importVars => ImportTypes'
<1> SUFFICES ASSUME ImportTypes, UNCHANGED importVars PROVE ImportTypes'
  OBVIOUS
<1>1. ImportInv'
  BY ImportStay DEF ImportTypes
<1> QED BY <1>1 DEF ImportTypes, importVars

-----------------------------------------------------------------------------
(* Checking the mods against an OS version                                  *)

LEMMA CheckConstants == None \notin Targets /\ MaxOpens \in Nat
  BY PageAssumption DEF Check!CheckOSAssumption

CheckTypes == Check!CheckTypeOK

LEMMA CheckInit == Init => CheckTypes
<1> SUFFICES ASSUME Init PROVE CheckTypes
  OBVIOUS
<1>1. /\ fromManager \in BOOLEAN /\ linkUp = TRUE /\ shownFor = None /\ autoChecked = FALSE
      /\ targetVersion = None /\ checkLoading = FALSE /\ result = None /\ error = FALSE
      /\ compatCalls = [c \in Calls |-> None] /\ opens = 0
  BY DEF Init, Check!Init
<1>2. linkUp \in BOOLEAN /\ autoChecked \in BOOLEAN /\ checkLoading \in BOOLEAN /\ error \in BOOLEAN
  BY Zenon, <1>1
<1>3. /\ shownFor \in Targets \cup {None, "typed"} /\ targetVersion \in Targets \cup {None}
      /\ result \in Targets \cup {None}
  BY <1>1
<1>4. compatCalls \in [Calls -> Targets \cup {None}]
  BY <1>1
<1>5. opens \in 0..MaxOpens
  BY <1>1, CheckConstants
<1> QED BY <1>1, <1>2, <1>3, <1>4, <1>5 DEF CheckTypes, Check!CheckTypeOK

(* A check that begins leaves what it shows typed.                          *)
LEMMA AskingTypes ==
  ASSUME CheckTypes, NEW v \in Targets, Check!AsksAbout(v)
  PROVE  /\ compatCalls' \in [Calls -> Targets \cup {None}] /\ checkLoading' \in BOOLEAN
         /\ error' \in BOOLEAN /\ result' \in Targets \cup {None}
<1>1. checkLoading' = TRUE /\ error' = FALSE /\ result' = None
  BY DEF Check!AsksAbout
<1>2. compatCalls' \in [Calls -> Targets \cup {None}]
  BY DEF Check!AsksAbout, CheckTypes, Check!CheckTypeOK
<1>3. checkLoading' \in BOOLEAN /\ error' \in BOOLEAN
  BY Zenon, <1>1
<1> QED BY <1>1, <1>2, <1>3

LEMMA OpeningTypes ==
  ASSUME CheckTypes, Check!Opening
  PROVE  opens' \in 0..MaxOpens
  BY CheckConstants DEF Check!Opening, CheckTypes, Check!CheckTypeOK

LEMMA CheckStep == CheckTypes /\ Check!Next => CheckTypes'
<1> SUFFICES ASSUME CheckTypes, Check!Next PROVE CheckTypes'
  OBVIOUS
<1> USE CheckConstants DEF CheckTypes, Check!CheckTypeOK
<1>1. CASE Check!OpenEmpty
  BY <1>1 DEF Check!OpenEmpty, Check!open, Check!Opening
<1>2. CASE Check!handleCheck
  <2>1. /\ targetVersion # None /\ Check!Opening /\ Check!AsksAbout(targetVersion)
        /\ UNCHANGED <<fromManager, linkUp, shownFor, autoChecked, targetVersion>>
    BY <1>2 DEF Check!handleCheck
  <2>2. targetVersion \in Targets
    BY <2>1
  <2>3. /\ compatCalls' \in [Calls -> Targets \cup {None}] /\ checkLoading' \in BOOLEAN
        /\ error' \in BOOLEAN /\ result' \in Targets \cup {None} /\ opens' \in 0..MaxOpens
    BY <2>1, <2>2, AskingTypes, OpeningTypes
  <2> QED BY <2>1, <2>3
<1>3. CASE Check!handleClose
  BY <1>3 DEF Check!handleClose
<1>4. CASE Check!LinkChanges
  BY <1>4 DEF Check!LinkChanges, Check!Opening
<1>5. ASSUME NEW v \in Targets, Check!OpenFor(v) PROVE CheckTypes'
  <2>1. shownFor' = v /\ Check!Opening /\ UNCHANGED <<fromManager, linkUp>>
    BY <1>5 DEF Check!OpenFor
  <2>2. \/ UNCHANGED <<autoChecked, targetVersion, checkLoading, result, error, compatCalls>>
        \/ autoChecked' = TRUE /\ targetVersion' = v /\ Check!AsksAbout(v)
    BY <1>5 DEF Check!OpenFor
  <2>3. opens' \in 0..MaxOpens /\ shownFor' \in Targets \cup {None, "typed"}
    BY <2>1, OpeningTypes
  <2>4. /\ autoChecked' \in BOOLEAN /\ targetVersion' \in Targets \cup {None}
        /\ compatCalls' \in [Calls -> Targets \cup {None}] /\ checkLoading' \in BOOLEAN
        /\ error' \in BOOLEAN /\ result' \in Targets \cup {None}
    BY <2>2, AskingTypes
  <2> QED BY <2>1, <2>3, <2>4
<1>6. ASSUME NEW v \in Targets, Check!setTargetVersion(v) PROVE CheckTypes'
  BY <1>6 DEF Check!setTargetVersion
<1>7. ASSUME NEW c \in Calls, NEW ok \in BOOLEAN, Check!Answers(c, ok) PROVE CheckTypes'
  BY <1>7 DEF Check!Answers
<1> QED BY <1>1, <1>2, <1>3, <1>4, <1>5, <1>6, <1>7
    DEF Check!Next

LEMMA CheckStay == CheckTypes /\ UNCHANGED checkVars => CheckTypes'
  BY DEF CheckTypes, Check!CheckTypeOK, checkVars

-----------------------------------------------------------------------------
(* The OS Manager                                                           *)

LEMMA ManagerConstants == Incompatible \subseteq Versions /\ None \notin Versions /\ RunIds \subseteq Nat \ {0} /\ MaxPresses \in Nat
  BY PageAssumption DEF Manager!OsManagerAssumption

(* A read that is past the partitions has them.                             *)
Read == {r \in [pc : {"ready", "ask", "land", "list"}, info : Manager!Info \cup {None}] :
           r.pc \in {"land", "list"} => r.info \in Manager!Info}

(* What is installed is a version, and what is switched to a partition.     *)
Aimed(r) ==
  /\ r.kind = "os-install" => r.target \in Versions
  /\ r.kind = "switch-partition" => r.target \in {"active", "fallback"}
  /\ r.kind = "reboot" => r.target = None

AllAimed == \A i \in RunIds : runs[i] # None => Aimed(runs[i])

OsTypes ==
  /\ OsInv /\ AllAimed
  /\ tablet \in Manager!Info /\ isConnected \in BOOLEAN /\ vellumInstalled \in BOOLEAN
  /\ open \in BOOLEAN /\ dialogs \in Seq(Manager!Dialogs)
  /\ systemInfo \in Manager!Info \cup {None}
  /\ loading \in BOOLEAN /\ partitionError \in BOOLEAN /\ lockDirError \in BOOLEAN
  /\ versions \subseteq Versions /\ versionsLoading \in BOOLEAN /\ versionsFailed \in BOOLEAN
  /\ reads \in [Reads -> Read \cup {None}]
  /\ installNeedsReboot \in BOOLEAN
  /\ compatCache \in [Versions -> {"unchecked", "fine", "incompatible"}]
  /\ checking \subseteq Versions
  /\ installedVersion \in Versions \cup {None} /\ operation \in RunIds \cup {0}
  /\ presses \in 0..MaxPresses

LEMMA OsTypesMean == OsTypes => Manager!OsTypeOK
<1> SUFFICES ASSUME OsTypes PROVE Manager!OsTypeOK
  OBVIOUS
<1>1. \A i \in DOMAIN dialogs : dialogs[i] \in Manager!Dialogs
  BY DEF OsTypes
<1>2. \A r \in Reads : \/ reads[r] = None
                       \/ /\ reads[r].pc \in {"ready", "ask", "land", "list"}
                          /\ reads[r].info = None \/ reads[r].info \in Manager!Info
  BY DEF OsTypes, Read
<1> QED BY <1>1, <1>2 DEF OsTypes, OsInv, Manager!OsTypeOK

LEMMA OsTypesInit == Init => OsTypes
<1> SUFFICES ASSUME Init PROVE OsTypes
  OBVIOUS
<1>1. Manager!Init /\ OsInv
  BY OsInit DEF Init
<1>0. /\ isConnected = TRUE /\ vellumInstalled \in BOOLEAN /\ open = FALSE /\ dialogs = <<>>
      /\ systemInfo = None /\ loading = TRUE /\ partitionError = FALSE /\ lockDirError = FALSE
      /\ versions = {} /\ versionsLoading = FALSE /\ versionsFailed = FALSE
      /\ installNeedsReboot = FALSE /\ checking = {} /\ installedVersion = None /\ operation = 0 /\ presses = 0
  BY <1>1 DEF Manager!Init
<1>2. tablet \in Manager!Info
  BY <1>1 DEF Manager!Init, Manager!Info
<1>5. dialogs \in Seq(Manager!Dialogs) /\ presses \in 0..MaxPresses /\ operation \in RunIds \cup {0}
  BY <1>0, ManagerConstants
<1>6. /\ isConnected \in BOOLEAN /\ open \in BOOLEAN /\ loading \in BOOLEAN /\ partitionError \in BOOLEAN
      /\ lockDirError \in BOOLEAN /\ versionsLoading \in BOOLEAN /\ versionsFailed \in BOOLEAN
      /\ installNeedsReboot \in BOOLEAN
  BY Zenon, <1>0
<1>7. /\ systemInfo \in Manager!Info \cup {None} /\ versions \subseteq Versions /\ checking \subseteq Versions
      /\ installedVersion \in Versions \cup {None}
  BY <1>0
<1>3. AllAimed
  BY <1>1 DEF Manager!Init, AllAimed
<1>4. reads \in [Reads -> Read \cup {None}] /\ compatCache \in [Versions -> {"unchecked", "fine", "incompatible"}]
  BY <1>1 DEF Manager!Init
<1> QED BY <1>0, <1>1, <1>2, <1>3, <1>4, <1>5, <1>6, <1>7 DEF OsTypes

LEMMA ManagerDialogs ==
  ASSUME OsTypes
  PROVE  /\ \A ds : Manager!Hide(ds) \in Seq(Manager!Dialogs)
         /\ \A d \in Manager!Dialogs, below \in Seq(Manager!Dialogs) :
              Manager!Show(d, below) \in Seq(Manager!Dialogs) /\ Append(below, d) \in Seq(Manager!Dialogs)
<1>1. ASSUME NEW ds PROVE Manager!Hide(ds) \in Seq(Manager!Dialogs)
  <2> DEFINE K == {i \in DOMAIN dialogs : dialogs[i] \notin ds}
  <2>1. Manager!Hide(ds) = Kept(dialogs, K)
    BY Zenon DEF Manager!Hide, Manager!Kept, Kept
  <2>2. dialogs \in Seq(Manager!Dialogs) /\ \A k \in K \cap DOMAIN dialogs : dialogs[k] \in Manager!Dialogs
    BY DEF OsTypes
  <2> HIDE DEF K
  <2> QED BY <2>1, <2>2, KeptType
<1>2. ASSUME NEW d \in Manager!Dialogs, NEW below \in Seq(Manager!Dialogs)
      PROVE  Manager!Show(d, below) \in Seq(Manager!Dialogs) /\ Append(below, d) \in Seq(Manager!Dialogs)
  BY DEF Manager!Show
<1> QED BY <1>1, <1>2

LEMMA ManagerLoads ==
  ASSUME OsTypes, Manager!loadData
  PROVE  /\ reads' \in [Reads -> Read \cup {None}]
         /\ loading' \in BOOLEAN /\ partitionError' \in BOOLEAN /\ lockDirError' \in BOOLEAN
         /\ versionsLoading' \in BOOLEAN /\ versionsFailed' \in BOOLEAN
         /\ UNCHANGED <<systemInfo, versions>>
<1> DEFINE new == [pc |-> "ready", info |-> None]
<1>1. new \in Read
  BY DEF Read
<1> HIDE DEF new
<1>2. \E r \in Reads : reads' = [reads EXCEPT ![r] = new]
  BY DEF Manager!loadData, new
<1>3. reads' \in [Reads -> Read \cup {None}]
  BY <1>1, <1>2 DEF OsTypes
<1> QED BY <1>3 DEF Manager!loadData

LEMMA ManagerChecks ==
  ASSUME OsTypes, NEW info \in Manager!Info \cup {None}, NEW cache
  PROVE  Manager!ToCheck(info, cache) \subseteq Versions
  BY DEF Manager!ToCheck, Manager!Info

LEMMA ManagerOpens ==
  ASSUME OsTypes, Manager!Opens
  PROVE  /\ checking' \subseteq Versions /\ dialogs' \in Seq(Manager!Dialogs)
         /\ installNeedsReboot' \in BOOLEAN
         /\ compatCache' \in [Versions -> {"unchecked", "fine", "incompatible"}]
<1>1. checking' \subseteq Versions
  BY ManagerChecks DEF Manager!Opens, OsTypes
<1>2. dialogs' \in Seq(Manager!Dialogs)
  <2>1. "progress" \in Manager!Dialogs /\ dialogs \in Seq(Manager!Dialogs)
    BY DEF OsTypes, Manager!Dialogs
  <2>2. Manager!Show("progress", dialogs) \in Seq(Manager!Dialogs)
    BY <2>1, ManagerDialogs
  <2> QED BY <2>1, <2>2 DEF Manager!Opens
<1> QED BY <1>1, <1>2 DEF Manager!Opens, OsTypes, Manager!choice

LEMMA ManagerStarts ==
  ASSUME OsTypes, NEW i \in RunIds, NEW kind, NEW target, Manager!startOperation(i, kind, target),
         \/ kind = "os-install" /\ target \in Versions
         \/ kind = "switch-partition" /\ target \in {"active", "fallback"}
         \/ kind = "reboot" /\ target = None
  PROVE  AllAimed' /\ operation' \in RunIds /\ presses' \in 0..MaxPresses
<1> DEFINE new == [kind |-> kind, target |-> target, late |-> FALSE, stop |-> FALSE, cut |-> FALSE]
<1>1. Aimed(new)
  BY DEF Aimed
<1> HIDE DEF new
<1>2. runs' = [runs EXCEPT ![i] = new]
  BY DEF Manager!startOperation, new
<1>3. \A j \in RunIds : runs[j]' = new \/ runs[j]' = runs[j]
  BY <1>2 DEF OsTypes, OsInv
<1>4. AllAimed'
  BY <1>1, <1>3 DEF AllAimed, OsTypes
<1> QED BY <1>4, ManagerConstants DEF Manager!startOperation, Manager!Press, OsTypes

LEMMA ManagerForgets ==
  ASSUME OsTypes, NEW i \in RunIds, Manager!Forget(i)
  PROVE  AllAimed' /\ operation' \in RunIds \cup {0}
<1>1. \A j \in RunIds : runs[j]' = None \/ runs[j]' = runs[j]
  BY DEF Manager!Forget, OsTypes, OsInv
<1>2. AllAimed'
  BY <1>1 DEF AllAimed, OsTypes
<1> QED BY <1>2 DEF Manager!Forget, OsTypes

LEMMA ManagerDone ==
  ASSUME OsTypes, NEW i \in RunIds, runs[i] # None
  PROVE  Manager!Done(i) \in Manager!Info
<1>1. Aimed(runs[i]) /\ tablet \in Manager!Info
  BY DEF OsTypes, AllAimed
<1>2. CASE runs[i].kind = "os-install"
  <2>1. runs[i].target \in Versions
    BY <1>1, <1>2 DEF Aimed
  <2> DEFINE a == [tablet EXCEPT !.fallback = runs[i].target]
             b == [a EXCEPT !.next = "fallback"]
             c == [b EXCEPT !.updatePending = TRUE]
  <2>2. a \in Manager!Info
    BY <1>1, <2>1 DEF Manager!Info
  <2>3. b \in Manager!Info
    <3> HIDE DEF a
    <3> QED BY <2>2 DEF Manager!Info
  <2>4. c \in Manager!Info
    <3> HIDE DEF b
    <3> QED BY <2>3 DEF Manager!Info
  <2>5. Manager!Done(i) = [tablet EXCEPT !.fallback = runs[i].target, !.next = "fallback", !.updatePending = TRUE]
    BY <1>2 DEF Manager!Done
  <2>6. Manager!Done(i) = c
    BY <1>1, <2>5 DEF Manager!Info
  <2> QED BY <2>4, <2>6
<1>3. CASE runs[i].kind = "switch-partition"
  <2>1. runs[i].target \in {"active", "fallback"}
    BY <1>1, <1>3 DEF Aimed
  <2> QED BY <1>1, <1>3, <2>1 DEF Manager!Done, Manager!Info
<1>4. CASE runs[i].kind \notin {"os-install", "switch-partition"}
  BY <1>1, <1>4 DEF Manager!Done
<1> QED BY <1>2, <1>3, <1>4

LEMMA OsTypesStep == OsTypes /\ Manager!Next => OsTypes'
<1> SUFFICES ASSUME OsTypes, Manager!Next PROVE OsTypes'
  OBVIOUS
<1>0. OsInv'
  BY OsStep DEF OsTypes
<1>a. UNCHANGED runs => AllAimed'
  BY DEF OsTypes, AllAimed
<1> USE <1>0, <1>a, ManagerConstants DEF OsTypes, Manager!device, Manager!shown, Manager!list,
        Manager!choice, Manager!compat, Manager!install, Manager!commands, Manager!installRunning
<1>1. CASE Manager!openOSManager
  <2>1. Manager!loadData /\ Manager!Opens
    BY <1>1 DEF Manager!openOSManager, Manager!Opens
  <2>2. /\ presses' \in 0..MaxPresses /\ open' = TRUE
        /\ UNCHANGED <<tablet, isConnected, vellumInstalled, installedVersion, operation, runs>>
    BY <1>1 DEF Manager!openOSManager, Manager!Press
  <2> QED BY <2>1, <2>2, ManagerLoads, ManagerOpens
<1>2. CASE Manager!closeOSManager
  BY ZenonT(40), <1>2 DEF Manager!closeOSManager
<1>3. CASE Manager!TryAgain
  <2>1. Manager!loadData
    BY <1>3 DEF Manager!TryAgain
  <2>2. /\ presses' \in 0..MaxPresses
        /\ UNCHANGED <<tablet, isConnected, vellumInstalled, open, dialogs, installNeedsReboot, compatCache,
                       checking, installedVersion, operation, runs>>
    BY <1>3 DEF Manager!TryAgain, Manager!Press
  <2> QED BY <2>1, <2>2, ManagerLoads
<1>4. CASE Manager!ClickSlot
  <2>1. dialogs' \in Seq(Manager!Dialogs)
    BY <1>4, ManagerDialogs DEF Manager!ClickSlot, Manager!ShowOnly, Manager!Dialogs
  <2>2. /\ presses' \in 0..MaxPresses
        /\ UNCHANGED <<tablet, isConnected, vellumInstalled, open, systemInfo, loading, partitionError,
                       lockDirError, versions, versionsLoading, versionsFailed, reads, installNeedsReboot,
                       compatCache, checking, installedVersion, operation, runs>>
    BY <1>4 DEF Manager!ClickSlot, Manager!ShowOnly, Manager!Press
  <2> QED BY <2>1, <2>2
<1>5. CASE Manager!handleInstallClick
  <2>1. dialogs' \in Seq(Manager!Dialogs)
    BY <1>5, ManagerDialogs DEF Manager!handleInstallClick, Manager!ShowOnly, Manager!Dialogs
  <2>2. /\ presses' \in 0..MaxPresses
        /\ UNCHANGED <<tablet, isConnected, vellumInstalled, open, systemInfo, loading, partitionError,
                       lockDirError, versions, versionsLoading, versionsFailed, reads, installNeedsReboot,
                       compatCache, checking, installedVersion, operation, runs>>
    BY <1>5 DEF Manager!handleInstallClick, Manager!ShowOnly, Manager!Press
  <2> QED BY <2>1, <2>2
<1>6. CASE Manager!ClickReboot
  <2>1. dialogs' \in Seq(Manager!Dialogs)
    BY <1>6, ManagerDialogs DEF Manager!ClickReboot, Manager!ShowOnly, Manager!Dialogs
  <2>2. /\ presses' \in 0..MaxPresses
        /\ UNCHANGED <<tablet, isConnected, vellumInstalled, open, systemInfo, loading, partitionError,
                       lockDirError, versions, versionsLoading, versionsFailed, reads, installNeedsReboot,
                       compatCache, checking, installedVersion, operation, runs>>
    BY <1>6 DEF Manager!ClickReboot, Manager!ShowOnly, Manager!Press
  <2> QED BY <2>1, <2>2
<1>7. CASE Manager!CancelOrClose
  <2>1. dialogs' \in Seq(Manager!Dialogs)
    BY <1>7, ManagerDialogs DEF Manager!CancelOrClose
  <2>2. \A j \in RunIds : runs[j]' # None => runs[j] # None /\ runs[j]'.kind = runs[j].kind /\ runs[j]'.target = runs[j].target
    BY <1>7 DEF Manager!CancelOrClose, OsInv, Manager!Run
  <2>3. UNCHANGED <<tablet, isConnected, vellumInstalled, open, systemInfo, loading, partitionError,
                    lockDirError, versions, versionsLoading, versionsFailed, reads, installNeedsReboot,
                    compatCache, checking, installedVersion, operation, presses>>
    BY <1>7 DEF Manager!CancelOrClose
  <2>4. AllAimed'
    BY <2>2 DEF AllAimed, Aimed
  <2> QED BY <2>1, <2>3, <2>4
<1>8. ASSUME NEW v \in Versions, Manager!setSelectedVersion(v) PROVE OsTypes'
  BY <1>8 DEF Manager!setSelectedVersion, Manager!Selectable
<1>9. ASSUME NEW d \in Manager!Dialogs, Manager!Dismiss(d) PROVE OsTypes'
  <2>1. dialogs' \in Seq(Manager!Dialogs)
    BY <1>9, ManagerDialogs DEF Manager!Dismiss
  <2> QED BY <1>9, <2>1 DEF Manager!Dismiss
<1>10. ASSUME NEW i \in RunIds, Manager!handleSwitchConfirm(i) PROVE OsTypes'
  <2> DEFINE to == IF systemInfo.next = "active" THEN "fallback" ELSE "active"
  <2>1. Manager!startOperation(i, "switch-partition", to)
    BY <1>10 DEF Manager!handleSwitchConfirm
  <2>2. AllAimed' /\ operation' \in RunIds /\ presses' \in 0..MaxPresses
    BY <2>1, ManagerStarts
  <2> QED BY <1>10, <2>2 DEF Manager!handleSwitchConfirm
<1>11. ASSUME NEW i \in RunIds, Manager!handleInstallConfirm(i) PROVE OsTypes'
  <2>1. Manager!startOperation(i, "os-install", selectedVersion) /\ selectedVersion \in Versions
    BY <1>11 DEF Manager!handleInstallConfirm, OsInv
  <2>2. AllAimed' /\ operation' \in RunIds /\ presses' \in 0..MaxPresses
    BY <2>1, ManagerStarts
  <2>3. dialogs' \in Seq(Manager!Dialogs)
    BY <1>11, ManagerDialogs DEF Manager!handleInstallConfirm, Manager!Dialogs
  <2> QED BY <1>11, <2>2, <2>3 DEF Manager!handleInstallConfirm
<1>12. ASSUME NEW i \in RunIds, Manager!handleReboot(i) PROVE OsTypes'
  <2>1. Manager!startOperation(i, "reboot", None)
    BY <1>12 DEF Manager!handleReboot
  <2>2. AllAimed' /\ operation' \in RunIds /\ presses' \in 0..MaxPresses
    BY <2>1, ManagerStarts
  <2> QED BY <1>12, <2>2 DEF Manager!handleReboot
<1>13. ASSUME NEW r \in Reads, Manager!InfoLands(r) PROVE OsTypes'
  <2>1. reads[r] \in Read /\ reads[r].pc = "land" /\ reads[r].info \in Manager!Info
    BY <1>13 DEF Manager!InfoLands, Manager!At, Read
  <2>2. reads' \in [Reads -> Read \cup {None}]
    <3>1. [reads[r] EXCEPT !.pc = "list"] \in Read
      BY <2>1 DEF Read
    <3> QED BY <1>13, <3>1 DEF Manager!InfoLands, Manager!Returns, Manager!Goto
  <2>3. Manager!ToCheck(reads[r].info, compatCache) \subseteq Versions
    BY <2>1, ManagerChecks
  <2>4. checking' \subseteq Versions /\ systemInfo' \in Manager!Info
    BY <1>13, <2>1, <2>3 DEF Manager!InfoLands
  <2>5. /\ loading' = FALSE /\ versions' \subseteq Versions /\ versionsLoading' \in BOOLEAN
        /\ UNCHANGED <<partitionError, lockDirError, versionsFailed, compatCache>>
    BY <1>13 DEF Manager!InfoLands
  <2> QED BY <1>13, <2>2, <2>4, <2>5 DEF Manager!InfoLands, Manager!Reading
<1>14. ASSUME NEW r \in Reads, NEW ready \in BOOLEAN, Manager!CheckOSManagerReady(r, ready) PROVE OsTypes'
  <2>1. reads' \in [Reads -> Read \cup {None}]
    <3>1. reads[r] \in Read
      BY <1>14 DEF Manager!CheckOSManagerReady, Manager!At
    <3>2. [reads[r] EXCEPT !.pc = "ask"] \in Read
      BY <3>1 DEF Read
    <3> QED BY <1>14, <3>2 DEF Manager!CheckOSManagerReady, Manager!Returns, Manager!Goto
  <2>2. /\ loading' \in BOOLEAN /\ lockDirError' \in BOOLEAN /\ versionsLoading' \in BOOLEAN
        /\ UNCHANGED <<compatCache, checking, systemInfo, partitionError, versions, versionsFailed>>
    BY <1>14 DEF Manager!CheckOSManagerReady
  <2> QED BY <1>14, <2>1, <2>2 DEF Manager!CheckOSManagerReady, Manager!Reading
<1>15. ASSUME NEW r \in Reads, NEW ok \in BOOLEAN, Manager!GetPartitionInfo(r, ok) PROVE OsTypes'
  <2> DEFINE new == [pc |-> "land", info |-> tablet]
  <2>1. new \in Read
    BY DEF Read
  <2> HIDE DEF new
  <2>2. reads' = [reads EXCEPT ![r] = new] \/ reads' = [reads EXCEPT ![r] = None]
    BY <1>15 DEF Manager!GetPartitionInfo, Manager!Returns, new
  <2>3. reads' \in [Reads -> Read \cup {None}]
    BY <2>1, <2>2
  <2>4. /\ loading' \in BOOLEAN /\ partitionError' \in BOOLEAN /\ versionsLoading' \in BOOLEAN
        /\ UNCHANGED <<compatCache, checking, systemInfo, lockDirError, versions, versionsFailed>>
    BY <1>15 DEF Manager!GetPartitionInfo
  <2> QED BY <1>15, <2>3, <2>4 DEF Manager!GetPartitionInfo, Manager!Reading
<1>16. ASSUME NEW r \in Reads, NEW ok \in BOOLEAN, Manager!GetAvailableOSVersions(r, ok) PROVE OsTypes'
  <2>1. reads' \in [Reads -> Read \cup {None}]
    BY <1>16 DEF Manager!GetAvailableOSVersions, Manager!Returns
  <2>2. versions' \subseteq Versions /\ versionsFailed' \in BOOLEAN /\ versionsLoading' = FALSE
    BY <1>16 DEF Manager!GetAvailableOSVersions
  <2> QED BY <1>16, <2>1, <2>2 DEF Manager!GetAvailableOSVersions, Manager!Reading
<1>17. ASSUME NEW v \in Versions, NEW ok \in BOOLEAN, Manager!checkCompatibility(v, ok) PROVE OsTypes'
  <2>1. compatCache' \in [Versions -> {"unchecked", "fine", "incompatible"}]
    BY <1>17 DEF Manager!checkCompatibility
  <2>2. checking' \subseteq Versions
    BY <1>17 DEF Manager!checkCompatibility, OsInv
  <2> QED BY <1>17, <2>1, <2>2 DEF Manager!checkCompatibility
<1>18. ASSUME NEW i \in RunIds, Manager!UploadDone(i) PROVE OsTypes'
  <2>1. \A j \in RunIds : runs[j]' # None => runs[j] # None /\ runs[j]'.kind = runs[j].kind /\ runs[j]'.target = runs[j].target
    BY <1>18 DEF Manager!UploadDone, OsInv, Manager!Run
  <2>2. AllAimed'
    BY <2>1 DEF AllAimed, Aimed
  <2> QED BY <1>18, <2>2 DEF Manager!UploadDone
<1>19. ASSUME NEW i \in RunIds, Manager!Succeeds(i) PROVE OsTypes'
  <2>1. AllAimed' /\ operation' \in RunIds \cup {0}
    BY <1>19, ManagerForgets DEF Manager!Succeeds
  <2>2. tablet' \in Manager!Info
    BY <1>19, ManagerDone DEF Manager!Succeeds
  <2>3. dialogs' \in Seq(Manager!Dialogs)
    BY <1>19, ManagerDialogs DEF Manager!Succeeds, Manager!Dialogs
  <2>4. installedVersion' \in Versions \cup {None} /\ installNeedsReboot' \in BOOLEAN /\ open' \in BOOLEAN
    BY <1>19 DEF Manager!Succeeds, AllAimed, Aimed
  <2>5. UNCHANGED <<isConnected, vellumInstalled, compatCache, checking, presses>>
    BY <1>19 DEF Manager!Succeeds
  <2>6. CASE Manager!loadData
    BY <2>1, <2>2, <2>3, <2>4, <2>5, <2>6, ManagerLoads
  <2>7. CASE UNCHANGED <<systemInfo, loading, partitionError, lockDirError, versions, versionsLoading,
                         versionsFailed, reads>>
    BY <2>1, <2>2, <2>3, <2>4, <2>5, <2>7
  <2> QED BY <1>19, <2>6, <2>7 DEF Manager!Succeeds
<1>20. ASSUME NEW i \in RunIds, NEW canceled \in BOOLEAN, Manager!Fails(i, canceled) PROVE OsTypes'
  <2>1. AllAimed' /\ operation' \in RunIds \cup {0}
    BY <1>20, ManagerForgets DEF Manager!Fails
  <2>2. dialogs' \in Seq(Manager!Dialogs)
    BY <1>20, ManagerDialogs DEF Manager!Fails, Manager!Dialogs
  <2> QED BY <1>20, <2>1, <2>2 DEF Manager!Fails
<1>21. ASSUME NEW rebooted \in BOOLEAN, Manager!LinkLost(rebooted) PROVE OsTypes'
  <2>1. \A j \in RunIds : runs[j]' # None => runs[j] # None /\ runs[j]'.kind = runs[j].kind /\ runs[j]'.target = runs[j].target
    BY <1>21 DEF Manager!LinkLost, OsInv, Manager!Run
  <2>2. AllAimed'
    BY <2>1 DEF AllAimed, Aimed
  <2>3. tablet' \in Manager!Info
    BY <1>21 DEF Manager!LinkLost, Manager!Booted, Manager!Info
  <2>4. /\ isConnected' = FALSE /\ operation' = 0 /\ presses' \in 0..MaxPresses
        /\ UNCHANGED <<vellumInstalled, open, dialogs, systemInfo, loading, partitionError, lockDirError,
                       versions, versionsLoading, versionsFailed, reads, installNeedsReboot, compatCache,
                       checking, installedVersion>>
    BY <1>21 DEF Manager!LinkLost, Manager!Press
  <2> QED BY <2>2, <2>3, <2>4
<1>22. CASE Manager!LinkRestored
  <2>1. isConnected' = TRUE /\ UNCHANGED <<tablet, vellumInstalled, open, installedVersion, operation, runs, presses>>
    BY <1>22 DEF Manager!LinkRestored
  <2>2. CASE Manager!Opens
    <3>1. Manager!loadData
      BY <2>2 DEF Manager!Opens
    <3> QED BY <2>1, <2>2, <3>1, ManagerLoads, ManagerOpens
  <2>3. CASE UNCHANGED <<systemInfo, loading, partitionError, lockDirError, versions, versionsLoading,
                         versionsFailed, reads, installNeedsReboot, compatCache, checking, dialogs>>
    BY <2>1, <2>3
  <2> QED BY <1>22, <2>2, <2>3 DEF Manager!LinkRestored
<1> QED BY <1>1, <1>2, <1>3, <1>4, <1>5, <1>6, <1>7, <1>8, <1>9, <1>10, <1>11, <1>12, <1>13,
          <1>14, <1>15, <1>16, <1>17, <1>18, <1>19, <1>20, <1>21, <1>22
    DEF Manager!Next, Manager!User

LEMMA OsTypesStay == OsTypes /\ UNCHANGED managerVars => OsTypes'
<1> SUFFICES ASSUME OsTypes, UNCHANGED managerVars PROVE OsTypes'
  OBVIOUS
<1>1. OsInv' /\ AllAimed'
  BY OsStay DEF OsTypes, AllAimed, managerVars
<1> QED BY <1>1 DEF OsTypes, managerVars

================================================================================
