# reManager in TLA+

reManager manages reMarkable tablets over SSH: a Go backend (services bound to a web view by Wails)
and a TypeScript page. This directory models the parts of it whose correctness depends on the order
in which goroutines, events, hosts and the network act, checks them with TLC and proves what matters
most with TLAPS. Paths and line numbers refer to the repository.

Run a check with `tlc -workers 2 -config X.cfg M` (the pairs are in `PROJECT.json`, "runs"), and the
proofs with `tlapm M.tla` for each of the eight modules whose name ends in `Proofs`.

## The system

All services share one `core` (core.go). Calls of the page run on goroutines of their own, so any two
of them interleave; the backend answers with events that reach the page in order.

| Component | State | Operations | What makes it correct |
|---|---|---|---|
| Connection (`connectionservice.go`) | `client`, `liveClient`, `currentConn`, `connGen`, `connectCancel`, `keepaliveStop`, `reconnect`, the machine IDs | the five connects, `CancelConnect`, `Disconnect`, the keepalive monitor, `attemptReconnect` | what the user ended stays ended; a loss ends in restored or failed; no channel is closed twice |
| Synced stores (`internal/storage`) | entries with stamps and tombstones, in two files for each store | toggle, save, rename, remove, `MergeSync`, `ExportSync` | a merge gives all hosts the same result; no change is lost or comes back |
| Syncer (`internal/cloudsync`, `sync.go`) | pending domains | `Changed`, `run`, `reconcile` | hosts converge and go quiet |
| Operations (`operationsservice.go`) | running operations, their prompt, the answer channel | `runOperation`, `Prompt`, `CancelOperation`, `RespondToOperation`, `PendingOperationPrompt`, the sweep | an answer goes to the prompt it was given to; nobody waits for a dialog that is not shown |
| The page's operation state (`useOperation.ts`, `App.tsx`) | the running operation and the dialog | start, stop, answer, reset, restore | as above |
| Transfers (`filesservice_transfer.go`) | queue, jobs, spare channels | enqueue, cancel, workers, split and plain uploads, downloads | nothing short is published, what is done is whole, channels come back, every job ends |
| Replacing a file (`remoteFileWriter`, `filesservice.go`) | temporary and destination name | `openRemoteFileForReplace`, `Commit`, `Abort` | the destination holds a whole file or the old one |
| Connecting and the session (`ConnectPage.tsx`, `BrowsePage.tsx`, `useConnectionEvents.ts`, `App.tsx`) | step, device, connection status, saved devices, what is awaited | connect in every way, cancel, disconnect, reconnect, browse, save, edit, delete | the tabs open on the connection that was asked for; nobody waits for a handler that has returned |
| File browser (`components/files`) | path, listing, selection, clipboard, dialogs | open, select, delete, move, rename, create, upload | what is done is about what is on display; no file is lost unasked |
| Mod changes (`ModsTab.tsx`, `components/mods`) | three queues, answers, what is implied, the plan that runs | queue, answer, check, apply, stop, retry | what is applied is what was checked; a change is made or kept |
| System tab (`SystemTab.tsx`, `HookDialog.tsx`, handlers of `App.tsx`) | rows, firmware, the operation shown, numbered steps | tasks, maintenance, vellum commands, steps, restarts | rows tell the truth; an old run ends nothing new |
| OS Manager, compatibility check (`SoftwareManagerDialog.tsx`, `CheckOSDialog.tsx`) | partitions, versions, verdicts, dialogs, the install | read, check, switch, install, cancel, reboot | the progress is of the install that runs |
| Backup, import, configuration dialogs (`BackupRestore.tsx`, `ImportPDFDialog.tsx`, `ConfigEditor.tsx`) | the run of the dialog, cards, text | start, cancel, close, retry, edit, save | the end of a run is not taken for that of another; what counts as saved was saved |
| Settings (`SettingsDialog.tsx`, `SSHKeyManager.tsx`) | settings, forms, lists | change, save, clear | another host's choice stays; a key that was typed goes with its form |
| OS install (`osservice.go`, `osservice_legacy.go`, `osservice_swupdate.go`, `install_state.go`) | install session, detached process, `update.conf` | install, resume after a reconnect, reconcile | one install at a time; the configuration file is put back |
| Writable root (`osservice.go` 69-187, `connectionservice.go` 1377-1408) | holders counted for each client, the claim | make writable, release, claim | never read-only under a holder, never left writable |
| Background work, sleep prevention, shell (`background.go`, `osservice.go` 801-876, `shellservice.go`, `shared.go`) | running jobs, one session slot each | begin and end, start and stop | the slot belongs to the session that runs |
| Packages (`packagesservice.go`, `internal/vellum`, `internal/installer`) | index, installed set, hooks | install, upgrade, remove, refresh | no refresh under a running operation |
| Backup and restore (`filesservice.go`, `internal/backup`) | backup slot | backup, restore | one at a time; the tablet's UI runs again |

Further parts, listed in `PROJECT.json` with the reason they are left out: document formats, sleep
screens, device queries, support bundles, the system service and deep links, secrets, demo mode,
version comparison, search and feeds, the mobile shells and the test tablet.

How they interact: a lost connection emits `connection:lost` to the page (which resets its operation
state), marks an install session as lost, and starts `attemptReconnect`; a restored one hands its
client to a paused install and has the page ask again for a pending prompt; `Disconnect`, and a
reconnect that failed, cancel the operations that wait on prompts, and `Disconnect` cancels every
transfer. Transfers and operations take the current client when they start and keep it.

On the page every handler that awaits a call goes on with what its closure read, while the user
clicks, events arrive and other handlers answer; `useOperation` shows one operation, and those that it
does not show any more go on.

What is hard: the connection's critical sections interleave with dials and probes that run outside
of the lock; events and calls cross each other between page and backend; hosts overwrite each other's
payloads and may crash between two files; uploads share names and channels; answers reach a page that
has moved on. `PROJECT.json`,
"hazards", lists each place at its line, with the properties that cover it.

## Modules

**Connection.** One action for each critical section (of `s.mu`, `s.reconnectMu`) or atomic access
(`connGen`, `liveClient`) of each goroutine; `pc` says between which two a goroutine is. Threads are
the calls of the page (`Users`) and one reconnect goroutine for each client, named after the client
whose loss starts it. `link[c]` is the tablet at the other end of a client, or "down" (dead, nobody
has noticed) or "closed". Each client has a monitor, which captures the current stop channel when it
first runs; a stop channel is named after the client whose monitor made it. `establishConnection` is
shared by user connects and reconnects as in the code. `userGen` is a history variable: the last
generation that belongs to a connect. Timers are choices: a dial may fail in any of the ways the code
tells apart (canceled, retryable, fatal, rejected secret), a backoff may end at any time, a link may
die at any time.

**SyncMerge** and **CloudSync.** `SyncMerge` has `mergeCollections`, `nextStamp`, the timezone fill and the
settings merge as operators on cells (an entry, if any, and a tombstone, if any); `Covers` is the
order the merge follows. `CloudSync` has one synced store in each behaviour (`domain`), a file for each host, the
syncer of each host at its four steps (get, merge, export, set), and the key-value store as each
host's copy, uploads and downloads. A store works under its lock, so a change is one step; a crash
may fall between the two files of a removal or of a merge. Values are encodings: they are only
compared. Hosts may start with what they saved before sync existed, without stamps, and with the
unstamped tombstones that an old version wrote.

**Replicas** is what the synced stores promise of each other, whatever carries the payloads: a collection for each host and
the set of payloads, copies of what hosts held, that may still come, late, twice, in any order or never. A collection changes for
its user at one identifier, or takes in one whole payload; what it then holds outranks what it held and what came and
is made of nothing else (`Joins`), unless a crash tore a removal or a merge. `CloudSync` implements it: `Payloads` are all the
copies that the key-value store and the syncers have, and reading, publishing, uploading and downloading are `Send`.

**Operations.** Each operation is a goroutine that raises prompts and waits on its answer channel or
its context. `events` is the ordered channel to the page, `calls` are the page's calls on their way,
in any order. An answer is named after the prompt it was given to, which the code does not know:
that is what `AnswersMatch` compares. `session` is the page's and backend's view of the connection, reduced to
up, lost, failed and off; the rest of Connection does not touch prompts.

**Transfers.** Jobs, workers and spare channels, with the temporary and destination names of each
tablet as the files (attempts) they refer to. Reads and writes of a file are by chunks: a plain upload
writes them in order, a split one in any order, since its ranges run on their own channels. `links`
are the clients of the connection, oldest first; a job holds one for all its life, and every action that needs the
tablet needs that client alive. `Client`, `Lose`, `Reconnect`, `Disconnect`, `Connect` reduce Connection to what
transfers read: the client and the generation.

**AtomicReplace** is what a replaced file promises: the destination holds the whole of what stood there
or the whole of what an upload brought, it changes in one step, and an upload is told done only when its file
stands there. `Transfers` implements it: `Standing` is whose whole file a destination name holds, `Told` how a job
ended, and temporary names, chunks, attempts, channels and the connection are stutters.

**Page** composes the modules of the page. Each carries the part of the connection, the tablet and the
operations that it sees, `part` says which one moves, and the states are the sum of theirs. Handlers of different
parts meet in what `App.tsx` hands them, which the parts have as steps of their own: a plan being applied and the OS
that is running in System, the link in each.

| Module | Code | State and actions |
|---|---|---|
| FileBrowser | `components/files` | `disk` is the tablet's tree; a listing is `folderLoads`, a handler that awaits is a job in a slot with what its closure read; `LoadAnswered` lands in any order |
| ModsPlan | `ModsTab.tsx`, `components/mods` | queues, answers and implied changes; `solves` are the checks on their way, each with the plan it is about; `pc` walks `applyPlan` through its phases |
| Session | `ConnectPage.tsx`, `App.tsx`, `useConnectionEvents.ts`, `useWarnings.ts` | `loads` are handlers at one of their awaits (dial, info, installed, checks, save, list); the link is what the backend has |
| System | `SystemTab.tsx`, `useOperation.ts`, `HookDialog.tsx`, `App.tsx` | `broken` is what the tablet needs and `shown` what the rows say; `runs` are commands and their refreshes; the effects of a render belong to the step that causes it |
| OsManager | `SoftwareManagerDialog.tsx` | `reads` at each call of `loadData`, a stack of dialogs, the install as a run |
| CheckOS | `CheckOSDialog.tsx` | `calls` on their way; answers reach the dialog whatever it is open for |
| Backup | `BackupRestore.tsx` | the dialog's own run and those given up |
| ConfigEditor | `ConfigEditor.tsx`, `configservice.go` | `file` changes under it; `held` is a history variable, the texts that the file has had |
| Import | `ImportPDFDialog.tsx`, `filesservice_import.go` | cards in order, runs with their list of documents, `imported` is what the tablet has |
| Settings | `App.tsx`, `SettingsDialog.tsx`, `systemservice.go` | `page`, `saved`, calls that are applied at some moment before their answer; `theirs` remembers what another host chose |
| SettingsPanes | `SSHKeyManager.tsx`, `SettingsDialog.tsx` | forms, lists and `asks` on their way |

`Lists` has the one operator on sequences that the page's lists need, `Kept` (JavaScript's `filter`), as a recursive
function, which can be proved about.

The `MC` modules give values to constants that a .cfg cannot write and define the symmetry sets.
The theorems are in `ConnectionProofs`, `CloudSyncProofs`, `OperationsProofs`, `TransfersProofs` and, about Page, in
`TabsProofs` (files, plan, system), `SessionProofs`, `DialogProofs` (the dialogs) and `PageProofs` (that the whole page keeps its types).

## What the runs check

| Run | Bounds | Shows |
|---|---|---|
| `Connection_safety` | 2 calls, 2 clients, 2 tablets (1 noisy), 2 attempts; 1.3 million states | `StaleClientIsEnding`, `NoRevival`, `NoDoubleClose`, `DisconnectLeavesNothing` |
| `Connection_live` | 1 user slot, 2 calls, 2 clients, 1 attempt | `ReconnectReports`, `DisconnectSettles` |
| `Connection_loss` | 1 call, 2 clients | finding: `LossIsResolved` fails |
| `Connection_ended` | 2 calls, 2 clients | finding: `EndedRunTouchesNothing` fails |
| `sync_safety` | 2 hosts, 1 identifier, every store but the device info cache, 2 changes or crashes, clocks 0..2 | `Converged`, `EditsSurvive`, `NothingShadowed`, `NeverOlder` |
| `sync_quiet` | as above with 1 change or crash, the device info cache in place of the settings | `GoesQuiet` |
| `sync_settings_quiet` | settings only | finding: `GoesQuiet` fails |
| `operations` | 1 operation, 2 prompts, 2 changes of the connection | `AnswersMatch`, `NobodyWaitsUnseen`, `CancelEnds` |
| `operations_dialog` | as above | finding: `PromptEndsWithRun` fails |
| `transfers` | 1 large upload, 1 download, 2 chunks, 1 worker, 2 clients, 2 spare channels | `ReplacesAtOnce` (the refinement), `DoneIsWhole`, `NothingLeft`, `SparesReturned`, `EveryJobEnds` |
| `transfers_same` | 2 uploads to one path | finding: `NothingShortPublished` fails |
| `page` | the parts one after another, two calls of a kind on their way, five clicks in the file browser, two to four elsewhere, one lost link; 760 thousand states | one or two properties of each part, below |

What `page` shows, by part:

| Part | Property | Goes wrong when |
|---|---|---|
| files | `ListingMatchesPath` | an answer that is not the newest is shown under the newest path |
| | `DeletesWhatIsShown` | Delete asks about everything that was selected |
| | `NothingLostUnasked` | a move overwrites without having asked |
| plan | `AppliesWhatWasChecked` | the answer about an older plan is taken |
| | `ChangesDoneOrKept` | a phase takes its changes off the queue whether they were made or not |
| session | `OpensOnItsConnection` | a connect that was canceled opens the tabs (with four clicks a Disconnect in tabs that a canceled connect opened while it saved lets the next connect open them on no tablet; the property names this case) |
| | `RestoringIsUnderWay` | a restore that fails says nothing |
| system | `EndsOnlyItsOwn` | the end of any run ends what is shown |
| | `StepsOutliveStaleFirmware` | the firmware of before the restart is compared |
| | `RowsMatchTheTablet` | a refresh reads some of the rows only |
| os | `ProgressNamesTheInstall` | reopening the manager resets the version that is being installed |
| backup | `SuccessIsOfTheRunShown` | the end of a run that was given up is shown |
| config | `CleanWasOnTheTablet` | what is in the editor at the end of a save counts as saved |
| import | `MarkedDoneWasImported` | progress is looked up in the cards and not in the list that was sent |
| settings | `RemoteChangeSurvives` | a save writes all that the page holds |
| panes | `DraftGoesWithTheForm` | a form closes and keeps its key |

Why the bounds are enough for what is asked: the races of the connection are between two threads
(a call and a reconnect, or two calls) over at most two clients, one old and one new; more calls repeat
these in sequence. Merges work on each identifier alone, so one is enough, and two hosts with two
changes give every order of change, publish, overwrite and crash on which a pair of stamps can differ.
Operations wait on prompts one at a time, as the page has one dialog (with two that wait at once one of them is unseen). One worker reaches every path of one job through
every state of the connection; two are needed only for what jobs share by name, which `transfers_same` is about.
On the page a race is between what is shown and one answer that is late, or between two answers, so two slots for
handlers and calls, two runs and two versions suffice; clicks are bounded by what it takes to
leave a state, come back to it and act on it. The compatibility check has no property of its own in `page` but the type
invariant: what it promises does not hold (below).
`CHECK_DEADLOCK FALSE` is set in every run since all these systems stop when the user does.

Each property of a passing run has a mutant, an operator named after what it breaks and placed before
the definition that it stands in for; with it the run finds the property violated.

### Fairness

Only what Go's scheduler, a timeout or the platform brings about is fair. In Connection every step of
a goroutine is (dials, keepalives and backoffs have timeouts), while calls of the user and a dying link
are not. In CloudSync the syncer runs and the platform delivers; users and crashes are not fair. In Operations goroutines,
events and calls proceed, a canceled operation's body ends (the context kills its command), but an
uncanceled body need not, and nobody has to answer a prompt. In Transfers workers proceed, as each SFTP call
returns, if only with an error once the client is closed. Page states no fairness: what it checks is safety.

### Findings

- *A second loss is not reconnected* (`Connection_loss`). A reconnect run stays current until its deferred `endReconnect`.
  A client that it has just brought up and that is lost before then finds a run under way, and
  nothing reconnects it, although the guide promises five attempts.
- *An ended run cancels its successor's dial* (`Connection_ended`). `superseded()` is checked before `establishConnection`,
  whose first section checks nothing.
- *Equal settings never go quiet* (`sync_settings_quiet`). Equal values keep the local stamp, the payload includes it.
- *A dialog outlives its operation on the page* (`operations_dialog`). `op:done` does not take it off.
- *Two uploads to one path* (`transfers_same`) share one temporary name, and a short file can be published.

Page also states what the guide or the page says and the code does not keep, without a run of its own: put one of them into
a copy of `page.cfg` whose `Parts` has its part only, and TLC shows how it fails (`MovedFileSurvives` with `Clicks = 6`).

- `MovedFileSurvives`: Replace deletes what is in the way in the folder that is shown, which a late listing may have
  made the folder that the file is moved from (`FileBrowser.tsx`, `runMove`).
- `StopStopsTheRest`: Stop, pressed while a sync reads the upgrade candidates, comes between the check and the operation (`ModsTab.tsx`, `runSync`).
- `LostMeansReconnecting`: a link lost while a connect loads leaves the status for the next connect (`useConnectionEvents.ts`).
- `ModsTabWaitsForSteps`: the guide says until the steps are finished; the tab opens after the Compatibility step.
- `InstallWaitsForTheCheck`: Install does not wait for the verdict about the mods (`SoftwareManagerDialog.tsx`, `handleInstallClick`).
- `VerdictIsForTheVersion`: the answer about one version lands in the dialog opened for another (`CheckOSDialog.tsx`).

## What is proved

TLAPS proves the following for every value of the constants that meets the assumptions each module names
(`ConnectionAssumption`, `CloudSyncAssumption`, `OperationsAssumption`, `TransfersAssumption`, `PageAssumption`, ...). They say that
slots, clients, tablets and model values are distinct from one another and from `None`, that bounds are numbers and that the jobs
are finitely many; that the folders of a tablet are finitely many and at least one listing may be on its way
(`FileBrowserAssumption`), and that `Parts` names parts of the page only (`PartsAssumption`). TLC evaluates them in the runs. Two theorems need more, and say so in their statement: `OwnPaths` (no two uploads to
one path) and `OneOperation`; the runs show what happens, or the text above says it, without. Everything else holds
for any number of hosts, clients, jobs, handlers, clicks, losses and crashes.

**Connection** (`ConnectionProofs`)

- `TypeCorrect`: the type invariant, by one lemma for each group of actions.
- `StaleClientEnds`: `StaleClientIsEnding` is inductive only together with `GenInv`, which says that no thread or
  connection is ahead of `connGen`, that whoever has the newest generation got it from the newest connect,
  and that a call that is connecting has no result. Without it a step such as `EstablishInstall` could install a client
  under a generation that nothing is about to end.
- `DisconnectIsFinal`: `NoRevival`; after a Disconnect `userGen` is not `connGen`, so by `GenInv` no thread passes a check of the generation.
- `DisconnectLeavesNothingBehind`: `DisconnectLeavesNothing` from `LeftInv`: while anything is left, the thread that ends the connection is still on its way,
  and a stop channel that a connect has put there meanwhile is taken away by that connect, which finds its generation past.
- `StopsCloseOnce`: `NoDoubleClose`, from `StopInv`: a thread that has dialed and not yet started a monitor holds a
  client of its own that no monitor watches, so the channel it makes is not a closed one.

**Sync** (`CloudSyncProofs`)

- `MergeCommutes`, `MergeAssociates`, `MergeIdempotent`, `MergeCovers`: the merge of cells is a join.
  The case split is on which entry wins and which tombstone outranks it; associativity is not obvious because
  each merge forgets what it found outranked, which the lemmas `ResolveAbsorbs` and `MergeTwice` show to be harmless.
- `SyncTypeCorrect`: types, and no syncer merges a payload that it has not got.
- `NeverShadowed`: in the stores whose every change is stamped after what it replaces, what a host shows outranks its own tombstone (`ShownInv`).
- `NoStepBack`: in those stores no step but a crash goes back behind what a host had, from `MergeCovers` and `ShownInv`.
- `HostsConverge`: `Converged`, from `SettledInv`: unless it is told to start again, what a syncer at work has read is still in the store and what it exported still in its file.
- `ChangesSurvive`: `EditsSurvive`, from `KeptInv`: some host has every change that was made *and what every payload on its way says*.
  The second half is what a crash in the middle of a merge needs: it takes an entry from the file and no tombstone says why, which is harmless since
  whatever outranked the entry is on another host. The lemmas `MergeIsOne` and `CoversTotal` show that the order of cells is total, `TornCell` what such a crash leaves.

- `ExchangeSettles`: "two hosts that exchanged payloads both ways settle on the same value" (`syncer.go:1`), for each store's own merge. Of saved tablets the
  merge also fills in timezones, so that what comes back was not merged from what was sent: `FilledAgain` shows that filling in once more changes neither which entry wins
  nor its timezone. Of settings, which are no join, the values agree and the stamps may not, which is what `sync_settings_quiet` runs into.
- `SyncImplementsReplicas`: `CloudSync` implements `Replicas`, step by step (`ReplicasStep`). `MergeJoinsCells` says of what a merged
  cell is made, `PayloadsMove` and `PayloadsSent` that no payload appears but what a host held, `EditChangesOne` that a change in a stamped store outranks what it replaces,
  for which `ShownInv` is needed: without it the entry that an edit stamps after the one it replaces might be behind the tombstone. No run lists this one: to have TLC check it too, add
  `PROPERTY ActsAsReplicas` to a copy of `sync_safety.cfg` (it holds; it fails if `Remove` is `RemoveByClock`).

**Operations** (`OperationsProofs`)

- `TypeCorrect`; `AnswersReachTheirPrompts`: `AnswersMatch`, from `AnswersInv`, which follows an answer from the dialog through the call to the channel: there is
  at most one, it is about the newest prompt, and none is on its way once the prompt is answered.
- `NobodyIsUnseen`: `NobodyWaitsUnseen` for one operation, from `SeenInv`: whoever waits has its dialog shown, on its way in an event, or will be asked for when the connection is back.

**Transfers** (`TransfersProofs`)

- `TypeCorrect`; `SparesAreReturned`: `SparesReturned`, by counting the channels that jobs hold as a finite set.
- `TransfersCorrect`: the inductive invariant `TransfersInv` of what follows: each temporary name, destination, local file, count of bytes and worker is of the one
  job that it belongs to. It gives `DoneMeansWhole`, `NothingIsLeft` and `NoShortFile`.
- `ReplacesFilesAtOnce`: `Transfers` implements `AtomicReplace`, action by action: `Commit` maps to a replacement, the ends of jobs to what they are told, all else to a stutter.

**The page** (`TabsProofs`, `SessionProofs`, `DialogProofs`). Each lemma is about one part; since a step of Page is one of a single part and leaves the others alone, its theorem is about `Page!Spec`.

| Theorem | Property | Inductive invariant |
|---|---|---|
| `FilesAreOfTheirFolder` | `ListingMatchesPath` | itself: only an answer to the newest listing shows files, and with them its path |
| `DeletionsAreOfWhatIsShown` | `DeletesWhatIsShown` | none is needed: it is what one step asks about |
| `FilesAreNotLostUnasked` | `NothingLostUnasked` | `FilesInv`: a move that may overwrite, or a dialog that asks, names what the user let go |
| `PlansAreChecked`, `PlansLoseNoChange` | `AppliesWhatWasChecked`, `ChangesDoneOrKept` | `PlanInv`: outside of a check the plan on display is the one checked, no two queues share a mod, and in the middle of a plan each change is on the tablet, queued, or in a phase still to come |
| `TabsOpenOnTheirConnection`, `RestoringComesToAnEnd` | `OpensOnItsConnection`, `RestoringIsUnderWay` | `SessionInv`: which handlers may still open the tabs, and over what link |
| `StepsWaitForTheTablet` | `StepsOutliveStaleFirmware` | none: the effects of each render compare what that render has |
| `RowsAreOfTheTablet`, `EndsAreOfTheirOwnRun` | `RowsMatchTheTablet`, `EndsOnlyItsOwn` | `StepsInv`, `ShownInv`: the rows match, are known to be unread, or a refresh is due |
| `ProgressNamesItsInstall` | `ProgressNamesTheInstall` | `OsInv`: the run of the install exists and has the selected version |
| `SuccessIsOfItsRun` | `SuccessIsOfTheRunShown` | `BackupInv`: at most the run that is shown is the dialog's own |
| `CleanTextWasOnTheTablet` | `CleanWasOnTheTablet` | `EditorInv`: what the editor takes for the file's, or a load is about to give it, the file has had, and an editor that was closed hears of no save |
| `MarkedDoneIsImported` | `MarkedDoneWasImported` | `ImportInv`: cards stay cards when they are dropped, removed or rewritten in their places |
| `RemoteChangesSurvive`, `DraftsGoWithTheirForm` | `RemoteChangeSurvives`, `DraftGoesWithTheForm` | with the types of calls and answers on their way (`SettingsInv`, `PanesInv`) |

`PageKeepsItsTypes` (`PageProofs`) is the type invariant of the whole page, `PageTypeOK`. A step of Page is one of a single part, so the invariant is proved
part by part (`EveryPart`, and one lemma for each part that says that its steps keep its types: beside the other theorems about the part, or, for the files and plans,
here), with what a part needs beside its types: in the file
browser, that whatever is listed or asked about is in a folder, so that a deletion finds one to show, and that an upload goes to a folder (`BrowserInv`); in the plan, that one is there while
it is applied (`PlanApplying`); elsewhere the invariants of the table.
Two parts filter a list, which takes induction over its length. The library's theorems on induction have an operator as a parameter, which these
provers cannot instantiate, but they accept the smallest counterexample: of a set of numbers that violate a claim `WFMin` and `NatLessThanWellFounded` give the
least (`Smallest`, `Induction`). With it `KeptExists` shows that the recursive function behind `Kept` exists and `KeptType` that a filtered list is a list of elements that were to be kept.
The file browser bounds its listings by counting those on their way, of all folders together; `LoadsBounded` gets the bound of each from the cardinality of their finite set.

Three properties turned out to be false beyond the bounds of their runs when their proofs were tried, and now name the case. TLC confirms each on an instance a
little larger:

- `OpensOnItsConnection` with four clicks, as in the table above (`handleDisconnect`, `App.tsx`, ends no attempt).
- `EditsSurvive` of a saved tablet: saved again by a clock that is behind its tombstone (`DeviceStore.Save` stamps by the clock) and removed again, it gets an older
  tombstone than it had (`Tombstones.Record` overwrites), and the first removal is forgotten. Three changes on one host.
- `EditsSurvive` after a removal that a crash tore: the tombstone of an earlier removal, still in a payload that another host has read, can take a
  later addition along if that host crashes in its merge. Three hosts, six changes and crashes.

### Only model-checked

- Liveness (`ReconnectReports`, `DisconnectSettles`, `GoesQuiet`, `CancelEnds`, `EveryJobEnds`) and anything about `ENABLED`: out of this prover's reach.
- `NobodyWaitsUnseen` says nothing of two operations that wait at once.

No module that holds or reaches a theorem uses RECURSIVE.

## Not modelled, and the plan

What each module leaves out is in its header. The parts of the page are not checked against each other's moves, only
against what App.tsx tells them of one another. The agent's own socket, the checks in the background of
a connect, secrets, folder transfers, search and feeds of mods and everything listed as not modelled in `PROJECT.json` is open.

The modules, in the order of their importance:

1. Connection, with proofs of all its safety properties (done).
2. SyncMerge and CloudSync, with proofs of all their safety properties (done), and Replicas, the
   abstract specification that CloudSync implements, with the refinement proved (done).
3. Operations, with proofs (done). Left: two operations that wait at once.
4. Transfers and AtomicReplace, with the refinement proved (done for files); the parts of the page and Page, with proofs, its types included (done). Left: UploadTree,
   the producer and workers of a folder upload, whose cancellation may block.
5. OSInstall: the install session, its loss and resumption, the legacy update's rewritten file.
6. WritableRoot: holders and claims across connections; promise: never read-only under a holder.
7. BackgroundWork, PreventSleep, Shell: slots that a late goroutine may clear.
8. Packages, backup and restore in the backend: one at a time, and what a lost connection leaves behind.
9. ConnectChecks (the results of one connect stored under another's device) and the version and
   constraint algorithms against a reference definition.

Each comes with a type invariant, the properties of its hazards and a run; where a run can take in
the question of another, the two are joined.
