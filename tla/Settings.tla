-------------------------------- MODULE Settings -------------------------------
(***************************************************************************)
(* The settings: what the page holds (App.tsx), the dialog that changes it   *)
(* (SettingsDialog.tsx), and SystemService.GetSettings and UpdateSettings.   *)
(*                                                                         *)
(* A change is shown at once and saved by a call that answers later, as do   *)
(* the reads the page makes when it starts, after a save that failed, and    *)
(* when another host's settings arrive.  A call is applied, or the settings *)
(* are read, at some moment between its start and its answer, whatever the  *)
(* order they were started in.  Every setting has two values here.          *)
(***************************************************************************)
EXTENDS Naturals, FiniteSets

CONSTANTS
  None,
  Fields,           (* the settings                                          *)
  Synced,           (* those that follow the user between hosts              *)
  Proxy,            (* the one DnsErrorModal turns on                        *)
  Path,             (* the path of the agent's socket; FALSE is none         *)
  Calls,            (* how many calls can be under way                       *)
  MaxChanges        (* bound on changes, here and at the other host          *)

SettingsAssumption ==
  /\ Synced \subseteq Fields /\ Proxy \in Synced /\ Path \in Fields \ Synced
  /\ None \notin BOOLEAN /\ MaxChanges \in Nat

VARIABLES
  page, saved,      (* what is shown, and what settings.json holds           *)
  theirs,           (* the value another host gave last, where it did        *)
  calls,
  settingsOpen, section, agentSocketMode, agentPathDraft,
  showDnsErrorModal, dnsErrorShown,
  changes

agent == <<agentSocketMode, agentPathDraft>>
dns == <<showDnsErrorModal, dnsErrorShown>>
panes == <<settingsOpen, section, agent, dns>>
settingsVars == <<page, saved, theirs, calls, panes, changes>>

Sections == {"connection", "appearance"}
Values == [Fields -> BOOLEAN]
Patch == [Fields -> BOOLEAN \cup {None}]
Call == [kind : {"update"}, patch : Patch, modal : BOOLEAN, outcome : {None, "ok", "failed"}]
        \cup [kind : {"read"}, fields : SUBSET Fields, values : Values \cup {None}]

SettingsTypeOK ==
  /\ page \in Values /\ saved \in Values /\ theirs \in [Synced -> BOOLEAN \cup {None}]
  /\ calls \in [Calls -> Call \cup {None}]
  /\ settingsOpen \in BOOLEAN /\ section \in Sections \cup {None}
  /\ agentSocketMode \in {"auto", "custom"} /\ agentPathDraft \in BOOLEAN
  /\ showDnsErrorModal \in BOOLEAN /\ dnsErrorShown \in BOOLEAN /\ changes \in [{"here", "elsewhere"} -> 0..MaxChanges]

Default == [f \in Fields |-> f = Proxy]
Change(who) == changes[who] < MaxChanges /\ changes' = [changes EXCEPT ![who] = @ + 1]
Only(f, v) == [g \in Fields |-> IF g = f THEN v ELSE None]
Free(c) == calls[c] = None /\ \A d \in Calls : d < c => calls[d] # None
Start(call) == \E c \in Calls : Free(c) /\ calls' = [calls EXCEPT ![c] = call]
Read(fields) == [kind |-> "read", fields |-> fields, values |-> None]

(* The page starts with defaults and reads what was saved.                  *)
Init ==
  /\ page = Default /\ saved \in {Default, [Default EXCEPT ![Proxy] = FALSE]}
  /\ theirs = [f \in Synced |-> None]
  /\ calls = [c \in Calls |-> IF c = 1 THEN Read(Fields) ELSE None]
  /\ settingsOpen = FALSE /\ section = None /\ agentSocketMode = "auto" /\ agentPathDraft = FALSE
  /\ showDnsErrorModal = FALSE /\ dnsErrorShown = FALSE
  /\ changes = [who \in {"here", "elsewhere"} |-> 0]

(***************************************************************************)
(* The dialog.                                                             *)
(***************************************************************************)
openSettings(initial) ==
  /\ ~settingsOpen /\ ~showDnsErrorModal
  /\ settingsOpen' = TRUE /\ section' = initial
  /\ agentSocketMode' = (IF page[Path] THEN "custom" ELSE "auto") /\ agentPathDraft' = page[Path]
  /\ UNCHANGED <<page, saved, theirs, calls, dns, changes>>

(* Nothing shown is the list of a narrow window; a wide one shows the first.*)
Shown == IF section = None THEN "connection" ELSE section
Pane(f) == IF f \in {Proxy, Path} THEN "connection" ELSE "appearance"
Usable == settingsOpen /\ ~showDnsErrorModal
agentField == Usable /\ Shown = "connection" /\ agentSocketMode = "custom"

Update(f, v) == Start([kind |-> "update", patch |-> Only(f, v), modal |-> FALSE, outcome |-> None])

(* Mutant: the change replaces the page's settings.                         *)
onUpdateAlone(f, v) == Change("here") /\ page' = Only(f, v) /\ Update(f, v)

(* handleUpdateSettings: the page shows the change before it is saved.      *)
onUpdate(f, v) == Change("here") /\ page' = [page EXCEPT ![f] = v] /\ Update(f, v)

(* A switch, or a choice of a list.                                         *)
Toggle(f) ==
  /\ Usable /\ f # Path /\ Pane(f) = Shown /\ onUpdate(f, ~page[f])
  /\ UNCHANGED <<saved, theirs, panes>>

(* Leaving the field commits what it holds, and so does Enter.              *)
commitAgentPath ==
  IF agentField /\ agentPathDraft # page[Path]
  THEN onUpdate(Path, agentPathDraft) ELSE UNCHANGED <<page, calls, changes>>

openSection(s) ==
  /\ Usable /\ section # s /\ section' = s /\ commitAgentPath
  /\ UNCHANGED <<saved, theirs, settingsOpen, agent, dns>>

(* What the dialog held is set anew when it opens.                          *)
closeSettings ==
  /\ Usable /\ settingsOpen' = FALSE /\ commitAgentPath
  /\ section' = None /\ agentSocketMode' = "auto" /\ agentPathDraft' = FALSE
  /\ UNCHANGED <<saved, theirs, dns>>

selectAgentMode(mode) ==
  /\ Usable /\ Shown = "connection" /\ mode # agentSocketMode
  /\ agentSocketMode' = mode
  /\ \/ mode = "custom" /\ UNCHANGED <<page, calls, changes, agentPathDraft>>
     \/ mode = "auto" /\ agentPathDraft' = FALSE /\ onUpdate(Path, FALSE)
  /\ UNCHANGED <<saved, theirs, settingsOpen, section, dns>>

typeAgentPath ==
  /\ agentField /\ agentPathDraft' = ~agentPathDraft
  /\ UNCHANGED <<page, saved, theirs, calls, settingsOpen, section, agentSocketMode, dns, changes>>

browseAgentPath ==
  /\ agentField /\ agentPathDraft' = TRUE /\ onUpdate(Path, TRUE)
  /\ UNCHANGED <<saved, theirs, settingsOpen, section, agentSocketMode, dns>>

(***************************************************************************)
(* The modal, once, after an installation that could not resolve a name.    *)
(***************************************************************************)
checkDnsProxyError ==
  /\ ~dnsErrorShown /\ ~saved[Proxy] /\ showDnsErrorModal' = TRUE /\ dnsErrorShown' = TRUE
  /\ UNCHANGED <<page, saved, theirs, calls, settingsOpen, section, agent, changes>>

handleEnableProxyModeFromModal ==
  /\ showDnsErrorModal /\ page' = [page EXCEPT ![Proxy] = TRUE]
  /\ Start([kind |-> "update", patch |-> Only(Proxy, TRUE), modal |-> TRUE, outcome |-> None])
  /\ UNCHANGED <<saved, theirs, panes, changes>>

closeDnsErrorModal ==
  /\ showDnsErrorModal /\ showDnsErrorModal' = FALSE
  /\ UNCHANGED <<page, saved, theirs, calls, settingsOpen, section, agent, dnsErrorShown, changes>>

(***************************************************************************)
(* The calls.                                                              *)
(***************************************************************************)
(* Mutant: the change carries the page's other settings along.              *)
AppliesPage(patch) == [f \in Fields |-> IF patch[f] # None THEN patch[f] ELSE page[f]]

(* SettingsStore.Update, under the store's lock, of what the patch holds.   *)
Applies(patch) == [f \in Fields |-> IF patch[f] # None THEN patch[f] ELSE saved[f]]

UpdateSettings(c, outcome) ==
  /\ calls[c] # None /\ calls[c].kind = "update" /\ calls[c].outcome = None
  /\ calls' = [calls EXCEPT ![c].outcome = outcome]
  /\ \/ outcome = "failed" /\ UNCHANGED <<saved, theirs>>
     \/ /\ outcome = "ok" /\ saved' = Applies(calls[c].patch)
        /\ theirs' = [f \in Synced |-> IF calls[c].patch[f] # None THEN None ELSE theirs[f]]
  /\ UNCHANGED <<page, panes, changes>>

(* A save that failed is followed by a read of everything.                  *)
UpdateAnswered(c) ==
  /\ calls[c] # None /\ calls[c].kind = "update" /\ calls[c].outcome # None
  /\ calls' = [calls EXCEPT ![c] = IF calls[c].outcome = "failed" THEN Read(Fields) ELSE None]
  /\ showDnsErrorModal' = (showDnsErrorModal /\ ~calls[c].modal)
  /\ UNCHANGED <<page, saved, theirs, settingsOpen, section, agent, dnsErrorShown, changes>>

(* Settings that cannot be read are the defaults.                           *)
GetSettings(c, readable) ==
  /\ calls[c] # None /\ calls[c].kind = "read" /\ calls[c].values = None
  /\ calls' = [calls EXCEPT ![c].values = IF readable THEN saved ELSE Default]
  /\ UNCHANGED <<page, saved, theirs, panes, changes>>

(* showSavedSettings, or the reload of what is synced.                      *)
ReadAnswered(c) ==
  /\ calls[c] # None /\ calls[c].kind = "read" /\ calls[c].values # None
  /\ page' = [f \in Fields |-> IF f \in calls[c].fields THEN calls[c].values[f] ELSE page[f]]
  /\ calls' = [calls EXCEPT ![c] = None]
  /\ UNCHANGED <<saved, theirs, panes, changes>>

(* Another host's settings are merged, and the page told.                   *)
SyncedChange(f, v) ==
  /\ saved[f] # v /\ Change("elsewhere")
  /\ saved' = [saved EXCEPT ![f] = v] /\ theirs' = [theirs EXCEPT ![f] = v]
  /\ Start(Read(Synced))
  /\ UNCHANGED <<page, panes>>

Next ==
  \/ \E s \in Sections \cup {None} : openSettings(s) \/ openSection(s)
  \/ closeSettings \/ typeAgentPath \/ browseAgentPath
  \/ \E mode \in {"auto", "custom"} : selectAgentMode(mode)
  \/ \E f \in Fields : Toggle(f)
  \/ checkDnsProxyError \/ handleEnableProxyModeFromModal \/ closeDnsErrorModal
  \/ \E c \in Calls :
       \/ \E outcome \in {"ok", "failed"} : UpdateSettings(c, outcome)
       \/ \E readable \in BOOLEAN : GetSettings(c, readable)
       \/ UpdateAnswered(c) \/ ReadAnswered(c)
  \/ \E f \in Synced, v \in BOOLEAN : SyncedChange(f, v)

SettingsSpec == Init /\ [][Next]_settingsVars

(***************************************************************************)
(* Properties.                                                             *)
(***************************************************************************)
(* What another host chose stays, until it is changed here: a setting that  *)
(* is changed here saves itself and nothing else, however old the page's    *)
(* view of the others is (SystemService.UpdateSettings and its patch).      *)
RemoteChangeSurvives ==
  \A f \in Synced : theirs[f] # None => saved[f] = theirs[f]

===============================================================================
