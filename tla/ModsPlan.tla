------------------------------ MODULE ModsPlan ------------------------------
(***************************************************************************)
(* The changes a user collects on the Mods tab, and how they are applied   *)
(* (frontend/src/tabs/ModsTab.tsx, components/mods).  Mods are queued to   *)
(* be installed, upgraded or removed; the tablet's package manager is      *)
(* asked, after each change, what that brings with it and what it leaves   *)
(* to the user; Apply runs the phases one after another.                   *)
(*                                                                         *)
(* An answer of a check that is not about what is queued by now is dropped, *)
(* as the effects that ask do.  Effects run with the render that causes     *)
(* them.  What the package manager does is external.                        *)
(***************************************************************************)
EXTENDS Naturals, FiniteSets, Sequences

CONSTANTS
  Mods,
  Brings,        (* what a mod needs, with what that needs                   *)
  Wanting,       (* mods that need one of Providers, which the user chooses  *)
  Providers,
  Gate, Companion, (* a mod that asks a question, and what may be added then *)
  Clashes,       (* pairs of mods that cannot both be installed              *)
  Incompatible,  (* mods that do not work on the new OS                      *)
  Preinstalled, Upgradable,
  None,
  ChecksFail,    (* whether asking the package manager may fail              *)
  MaxClicks      (* bound on what the user and the connection do             *)

ModsPlanAssumption ==
  /\ Brings \in [Mods -> SUBSET Mods]
  /\ Wanting \cup Providers \cup {Gate, Companion} \cup Incompatible \cup Preinstalled \subseteq Mods
  /\ Upgradable \subseteq Preinstalled
  /\ None \notin Mods /\ ChecksFail \in BOOLEAN /\ MaxClicks \in Nat

VARIABLES
  onTablet, outdated, osChanged,  (* the tablet                              *)
  online, installed, candidates, osMismatch, (* what the page knows of it    *)
  installQueue, uninstallQueue, upgradeQueue,
  answers, openQuestions, waiting, askedQuestion, changing,
  queueConflict, implied, impliedRemovals, removalInstallFirst,
  installSolving, removalSolving, checks,
  starring,                (* a starred mod that installStarred looks into   *)
  plan, pc, stopRequested, done, applyResult, stagedAtResult,
  presses,
  checked, interrupted     (* history: what the last check was about, and    *)
                           (* whether the connection was lost since Apply    *)

tablet  == <<onTablet, outdated, osChanged>>
known   == <<online, installed, candidates, osMismatch>>
queues  == <<installQueue, uninstallQueue, upgradeQueue>>
asked   == <<askedQuestion, changing>>
solved  == <<answers, openQuestions, waiting, queueConflict, implied, impliedRemovals,
             removalInstallFirst, installSolving, removalSolving, checks>>
applying == <<plan, pc, stopRequested, done, interrupted>>
result   == <<applyResult, stagedAtResult>>
vars == <<tablet, known, queues, asked, solved, checked, starring, applying, result, presses>>

Answers == [provider : Providers \cup {None}, settled : BOOLEAN, companion : BOOLEAN]
noInstallAnswers == [provider |-> None, settled |-> FALSE, companion |-> FALSE]
Questions == {"provider", "gate"}
Phases == {"remove", "upgrade", "install"}

Check == [queue : SUBSET Mods, answers : Answers, removals : SUBSET Mods, installed : SUBSET Mods]
         \cup [removals : SUBSET Mods, installs : SUBSET Mods, installed : SUBSET Mods]

Plan == [remove : SUBSET Mods, upgrade : SUBSET Mods, install : SUBSET Mods,
         implied : SUBSET Mods, sync : BOOLEAN, targets : BOOLEAN, order : Seq(Phases)]

PlanTypeOK ==
  /\ onTablet \subseteq Mods /\ outdated \subseteq Mods /\ osChanged \in BOOLEAN
  /\ online \in BOOLEAN /\ osMismatch \in BOOLEAN
  /\ installed \subseteq Mods /\ candidates \subseteq Mods
  /\ installQueue \subseteq Mods /\ uninstallQueue \subseteq Mods /\ upgradeQueue \subseteq Mods
  /\ answers \in Answers /\ openQuestions \subseteq Questions /\ waiting \subseteq Mods
  /\ askedQuestion \in Questions \cup {None} /\ changing \in BOOLEAN
  /\ queueConflict \in BOOLEAN /\ implied \subseteq Mods /\ impliedRemovals \subseteq Mods
  /\ removalInstallFirst \in BOOLEAN /\ installSolving \in BOOLEAN /\ removalSolving \in BOOLEAN
  /\ checks \subseteq Check /\ checked \in Check \cup {None}
  /\ starring \in Mods \cup {None}
  /\ plan \in Plan \cup {None}
  /\ pc \in {"idle", "next", "candidates", "running", "succeeded", "stopped", "failed"}
  /\ stopRequested \in BOOLEAN /\ done \subseteq Mods /\ interrupted \in BOOLEAN
  /\ applyResult \in {"succeeded", "stopped", "failed", None}
  /\ stagedAtResult \in [install : SUBSET Mods, remove : SUBSET Mods, upgrade : SUBSET Mods] \cup {None}
  /\ presses \in 0..MaxClicks

Init ==
  /\ onTablet = Preinstalled /\ outdated = Upgradable /\ osChanged \in BOOLEAN
  /\ online = TRUE /\ installed = Preinstalled /\ candidates = Upgradable /\ osMismatch = osChanged
  /\ installQueue = {} /\ uninstallQueue = {} /\ upgradeQueue = {}
  /\ answers = noInstallAnswers /\ openQuestions = {} /\ waiting = {}
  /\ askedQuestion = None /\ changing = FALSE
  /\ queueConflict = FALSE /\ implied = {} /\ impliedRemovals = {} /\ removalInstallFirst = FALSE
  /\ installSolving = FALSE /\ removalSolving = FALSE /\ checks = {} /\ checked = None
  /\ starring = None
  /\ plan = None /\ pc = "idle" /\ stopRequested = FALSE /\ done = {} /\ interrupted = FALSE
  /\ applyResult = None /\ stagedAtResult = None
  /\ presses = 0

-----------------------------------------------------------------------------
(* What the package manager says                                            *)

Companions(a) == IF a.companion THEN {Companion} ELSE {}
installRequest(q, a) == q \cup Companions(a) \cup (IF a.provider = None THEN {} ELSE {a.provider})

WithBrought(S) == S \cup UNION {Brings[m] : m \in S}
Clashing(S) == \E pair \in Clashes : pair \subseteq S

(* Mods that need a provider when none is asked for or there.               *)
GetInstallChoices(request, there) ==
  IF (request \cup there) \cap Providers = {} THEN WithBrought(request) \cap Wanting ELSE {}

Needed(S) == WithBrought(S) \cap Wanting # {}

(* What goes when S goes, of what is there. *)
SimulateUninstall(S, there) == S \cup {m \in there : Brings[m] \cap S # {}}

(* keptProviders: an answer stays while something still asks for it. *)
keptProvider(q, a) == IF Needed(q) THEN a.provider ELSE None

(* Everything one check of the installs comes to. *)
Solution(c) ==
  LET provider == keptProvider(c.queue, c.answers)
      request  == installRequest(c.queue, [c.answers EXCEPT !.provider = provider])
      held     == GetInstallChoices(request, c.installed)
      there    == c.installed \ c.removals
      tree     == WithBrought(request \ held)
      fails    == Clashing(tree \cup there)
      bare     == WithBrought((request \ held) \ Companions(c.answers))
      settled  == c.answers.settled /\ (fails \/ Gate \in bare)
  IN  [answers  |-> [provider |-> provider, settled |-> settled,
                     companion |-> c.answers.companion /\ settled],
       held     |-> held,
       tree     |-> IF fails THEN {} ELSE tree,
       conflict |-> fails,
       open     |-> (IF held # {} THEN {"provider"} ELSE {}) \cup
                    (IF ~fails /\ Gate \in tree \ c.installed /\ ~settled THEN {"gate"} ELSE {})]

-----------------------------------------------------------------------------
(* Asking for checks                                                        *)

Busy == pc # "idle"

InstallDeps == [queue |-> installQueue, answers |-> answers,
                removals |-> uninstallQueue, installed |-> installed]
solvableInstalls == installRequest(installQueue, answers) \ waiting
RemovalDeps == [removals |-> uninstallQueue, installed |-> installed,
                installs |-> IF osMismatch THEN {} ELSE solvableInstalls]

(* The effect that asks what the installs bring. *)
InstallEffect ==
  IF ~online' \/ installQueue' = {}
  THEN /\ queueConflict' = FALSE /\ implied' = {} /\ openQuestions' = {} /\ waiting' = {}
       /\ installSolving' = FALSE
       /\ answers' = IF installQueue' = {} THEN noInstallAnswers ELSE answers
  ELSE /\ installSolving' = (pc' = "idle" \/ installSolving)
       /\ UNCHANGED <<queueConflict, implied, openQuestions, waiting, answers>>

(* The effect that asks what the removals take with them. *)
RemovalEffect ==
  IF ~online' \/ uninstallQueue' = {}
  THEN impliedRemovals' = {} /\ removalInstallFirst' = FALSE /\ removalSolving' = FALSE
  ELSE /\ removalSolving' = (pc' = "idle" \/ removalSolving)
       /\ UNCHANGED <<impliedRemovals, removalInstallFirst>>

(* While a plan runs both return before they ask.  Of the checks that were  *)
(* asked before, whose answers are dropped, the last are kept.              *)
Ask ==
  checks' = IF pc' # "idle" THEN {}
            ELSE (checks \cap {InstallDeps, RemovalDeps})
                 \cup (IF installSolving' THEN {InstallDeps'} ELSE {})
                 \cup (IF removalSolving' THEN {RemovalDeps'} ELSE {})

Resolve == InstallEffect /\ RemovalEffect /\ Ask /\ UNCHANGED checked

(* A change that was not staged when the result came dismisses the result. *)
NewlyStaged ==
  \/ installQueue' \ stagedAtResult.install # {} \/ uninstallQueue' \ stagedAtResult.remove # {}
  \/ upgradeQueue' \ stagedAtResult.upgrade # {}

dismissApplyResult == plan' = None /\ applyResult' = None /\ stagedAtResult' = None

Queue(installs, removals, upgrades) ==
  /\ installQueue' = installs /\ uninstallQueue' = removals /\ upgradeQueue' = upgrades
  /\ IF applyResult # None /\ NewlyStaged
     THEN dismissApplyResult ELSE UNCHANGED <<plan, applyResult, stagedAtResult>>
  /\ UNCHANGED <<pc, stopRequested, done, interrupted>>
  /\ Resolve

-----------------------------------------------------------------------------
(* Staging                                                                  *)

Click == presses < MaxClicks /\ presses' = presses + 1
Ready == online /\ ~Busy /\ askedQuestion = None
CanStage == Ready /\ Click
OnlyQueues == UNCHANGED <<tablet, known, asked, starring>>

queueInstalls(S) == installQueue \cup (S \ uninstallQueue)

toggleInstallQueue(m) ==
  /\ OnlyQueues
  /\ CanStage /\ ~osMismatch /\ m \notin installed
  /\ \/ m \in installQueue /\ Queue(installQueue \ {m}, uninstallQueue, upgradeQueue)
     \/ /\ m \notin installQueue \cup uninstallQueue
        /\ Queue(queueInstalls({m}), uninstallQueue, upgradeQueue)

addToUninstallQueue(S) == uninstallQueue \cup (S \ installQueue)

(* Mutant: a removal leaves the upgrade of the same mod queued. *)
toggleUninstallQueueOnly(m) ==
  /\ OnlyQueues
  /\ CanStage /\ ~osMismatch /\ m \in installed
  /\ \/ m \in uninstallQueue /\ Queue(installQueue, uninstallQueue \ {m}, upgradeQueue)
     \/ m \notin uninstallQueue /\ Queue(installQueue, addToUninstallQueue({m}), upgradeQueue)

toggleUninstallQueue(m) ==
  /\ OnlyQueues
  /\ CanStage /\ ~osMismatch /\ m \in installed
  /\ \/ m \in uninstallQueue /\ Queue(installQueue, uninstallQueue \ {m}, upgradeQueue)
     \/ m \notin uninstallQueue /\ Queue(installQueue, addToUninstallQueue({m}), upgradeQueue \ {m})

toggleUpgradeQueue(m) ==
  /\ OnlyQueues
  /\ CanStage /\ ~osMismatch /\ m \in candidates
  /\ \/ m \in upgradeQueue /\ Queue(installQueue, uninstallQueue, upgradeQueue \ {m})
     \/ /\ m \notin upgradeQueue \cup uninstallQueue
        /\ Queue(installQueue, uninstallQueue, upgradeQueue \cup {m})

handleUpdateAll ==
  /\ OnlyQueues
  /\ CanStage /\ ~osMismatch
  /\ Queue(installQueue, uninstallQueue, upgradeQueue \cup (candidates \ uninstallQueue))

(* osChangePlan: the mods that have to go before the tablet is synced. *)
incompatible == (installed \cap Incompatible) \ uninstallQueue

StageRemovals ==
  /\ OnlyQueues
  /\ CanStage /\ osMismatch
  /\ \/ incompatible # {} /\ Queue(installQueue, addToUninstallQueue(incompatible), upgradeQueue)
     \/ \E m \in incompatible : Queue(installQueue, addToUninstallQueue({m}), upgradeQueue)
     \/ \E m \in uninstallQueue : Queue(installQueue, uninstallQueue \ {m}, upgradeQueue)

clearAllQueues == ~Busy /\ plan = None /\ Click /\ OnlyQueues /\ Queue({}, {}, {})

installStarred(m) ==
  /\ CanStage /\ ~osMismatch /\ m \notin installed /\ starring = None
  /\ starring' = m
  /\ UNCHANGED <<tablet, known, queues, asked, solved, checked, applying, result>>

(* It queues what it found no conflict for whatever happened since. *)
StarredQueued ==
  /\ starring # None /\ starring' = None
  /\ UNCHANGED <<tablet, known, asked, presses>>
  /\ Queue(queueInstalls({starring}), uninstallQueue, upgradeQueue)

-----------------------------------------------------------------------------
(* What the checks find, and the questions they raise                       *)

Unasked == UNCHANGED <<tablet, known, queues, asked, starring, applying, result, presses>>

(* Mutant: an answer counts although the changes it is about changed. *)
InstallCheckedLate(c) ==
  /\ Unasked
  /\ c \in checks /\ "queue" \in DOMAIN c /\ ~Busy /\ installSolving
  /\ LET s == Solution(c)
     IN  /\ answers' = answers
         /\ waiting' = s.held /\ openQuestions' = s.open /\ queueConflict' = s.conflict
         /\ implied' = s.tree \ (installQueue \cup installed)
         /\ installSolving' = FALSE /\ checked' = c
  /\ RemovalEffect /\ Ask

(* Answers that nothing asks for any more are forgotten, and what is left   *)
(* is checked again.                                                        *)
InstallChecked(c) ==
  /\ Unasked
  /\ c \in checks /\ c = InstallDeps /\ ~Busy /\ installSolving
  /\ LET s == Solution(c)
     IN  \/ /\ s.answers # answers
            /\ answers' = s.answers
            /\ UNCHANGED <<waiting, openQuestions, queueConflict, implied, installSolving, checked>>
         \/ /\ s.answers = answers
            /\ waiting' = s.held /\ openQuestions' = s.open /\ queueConflict' = s.conflict
            /\ implied' = (IF s.conflict THEN installRequest({}, answers) ELSE s.tree)
                          \ (installQueue \cup installed)
            /\ installSolving' = FALSE /\ checked' = c
            /\ UNCHANGED answers
  /\ RemovalEffect /\ Ask

(* What the last check found stays. *)
InstallCheckFails(c) ==
  /\ Unasked
  /\ ChecksFail
  /\ c \in checks /\ c = InstallDeps /\ ~Busy /\ installSolving
  /\ installSolving' = FALSE /\ checked' = c /\ checks' = checks \ {c}
  /\ UNCHANGED <<answers, waiting, openQuestions, queueConflict, implied, impliedRemovals,
                 removalInstallFirst, removalSolving>>

RemovalChecked(c) ==
  /\ Unasked
  /\ c \in checks /\ c = RemovalDeps /\ ~Busy /\ removalSolving
  /\ \/ /\ impliedRemovals' = SimulateUninstall(c.removals, c.installed) \ uninstallQueue
        /\ removalInstallFirst' = (\E m \in c.installs : Brings[m] \cap c.removals # {})
     \/ ChecksFail /\ impliedRemovals' = {} /\ removalInstallFirst' = FALSE
  /\ removalSolving' = FALSE /\ checks' = checks \ {c}
  /\ UNCHANGED <<answers, openQuestions, waiting, queueConflict, implied, installSolving, checked>>

(* Questions and answers are bounded by themselves, and are not counted.    *)
ShowsQuestions == Ready /\ ~osMismatch /\ plan = None /\ UNCHANGED presses

OpenQuestion(q) ==
  /\ ShowsQuestions
  /\ q \in openQuestions \/ (q = "gate" /\ answers.settled)
  /\ askedQuestion' = q
  /\ UNCHANGED <<tablet, known, queues, changing, solved, checked, starring, applying, result>>

changeProvider ==
  /\ ShowsQuestions /\ answers.provider # None /\ ~changing
  /\ changing' = TRUE
  /\ UNCHANGED <<tablet, known, queues, askedQuestion, solved, checked, starring, applying, result>>

(* The question is asked again whatever is under way by then. *)
ProvidersFound ==
  /\ changing /\ changing' = FALSE
  /\ askedQuestion' = IF GetInstallChoices(installQueue \cup Companions(answers), installed) = {}
                      THEN askedQuestion ELSE "provider"
  /\ UNCHANGED <<tablet, known, queues, solved, checked, starring, applying, result, presses>>

Answered(newAnswers, stillOpen) ==
  /\ answers' = newAnswers
  /\ openQuestions' = stillOpen
  /\ installSolving' = (online /\ installQueue # {} /\ (~Busy \/ installSolving))
  /\ UNCHANGED <<waiting, queueConflict, implied, checked>>
  /\ RemovalEffect /\ Ask

findCompanionConflict ==
  Clashing(WithBrought(solvableInstalls \cup {Companion}) \cup (installed \ uninstallQueue))

answerQuestion ==
  /\ askedQuestion # None /\ online /\ installQueue # {}
  /\ askedQuestion' = None
  /\ UNCHANGED <<tablet, known, queues, changing, starring, applying, result, presses>>
  /\ \/ /\ askedQuestion = "provider"
        /\ \E p \in Providers : Answered([answers EXCEPT !.provider = p], openQuestions \ {"provider"})
     \/ /\ askedQuestion = "gate"
        /\ \E yes \in BOOLEAN :
             /\ yes => ~findCompanionConflict
             /\ Answered([answers EXCEPT !.settled = TRUE, !.companion = yes], openQuestions \ {"gate"})

CancelQuestion ==
  /\ askedQuestion # None
  /\ askedQuestion' = None
  /\ UNCHANGED <<tablet, known, queues, changing, solved, checked, starring, applying, result, presses>>

dropCompanion ==
  /\ ShowsQuestions /\ answers.companion
  /\ UNCHANGED <<tablet, known, queues, asked, starring, applying, result>>
  /\ Answered([answers EXCEPT !.companion = FALSE], openQuestions)

-----------------------------------------------------------------------------
(* Applying                                                                 *)

applyBlocked ==
  IF osMismatch THEN incompatible # {} \/ removalSolving
  ELSE queueConflict \/ openQuestions # {} \/ installSolving \/ removalSolving

Names(p, phase) == CASE phase = "remove"  -> p.remove
                     [] phase = "upgrade" -> p.upgrade
                     [] phase = "install" -> p.install

(* runPlan: what it does is fixed now. *)
runPlan ==
  LET installs == IF osMismatch \/ installQueue = {} THEN {} ELSE installRequest(installQueue, answers)
      sync     == osMismatch
      targets  == installed \cap Incompatible = {}
      wanted   == [remove  |-> IF uninstallQueue = {} THEN {} ELSE uninstallQueue \cup impliedRemovals,
                   upgrade |-> IF ~sync THEN upgradeQueue
                               ELSE (IF targets THEN candidates ELSE installed \ Incompatible) \ uninstallQueue,
                   install |-> (installs \cap installQueue) \cup implied,
                   implied |-> implied \cup (impliedRemovals \ uninstallQueue),
                   sync    |-> sync, targets |-> targets,
                   order   |-> <<>>]
      runs(ph) == IF ph = "install" THEN installs # {} ELSE Names(wanted, ph) # {} \/ (sync /\ ph = "upgrade")
      phase(ph) == IF runs(ph) THEN <<ph>> ELSE <<>>
      order    == IF uninstallQueue # {} /\ removalInstallFirst
                  THEN phase("install") \o phase("remove") \o phase("upgrade")
                  ELSE phase("remove") \o phase("upgrade") \o phase("install")
  IN  /\ plan' = [wanted EXCEPT !.order = order]
      /\ wanted.remove \cup wanted.upgrade \cup wanted.install # {} \/ sync
      /\ pc' = "next" /\ stopRequested' = FALSE /\ done' = {} /\ interrupted' = FALSE
      /\ applyResult' = None /\ stagedAtResult' = None
      /\ checks' = {}
      /\ UNCHANGED <<tablet, known, queues, asked, starring, answers, openQuestions, waiting,
                     queueConflict, implied, impliedRemovals, removalInstallFirst,
                     installSolving, removalSolving, checked>>

(* Apply, and Retry after a result that is not a success.  The System tab's *)
(* button asks for less.                                                    *)
handleApplyPlan ==
  /\ CanStage
  /\ applyResult # "succeeded"
  /\ ~applyBlocked \/ (osMismatch /\ incompatible = {})
  /\ runPlan

OnlyPlan == UNCHANGED <<tablet, known, queues, asked, solved, checked, starring, presses>>

(* What each effect sees when a plan is over is asked for again. *)
Over(outcome) ==
  /\ pc' = "idle"
  /\ InstallEffect /\ RemovalEffect /\ Ask /\ UNCHANGED checked
  /\ \/ /\ applyResult' = outcome
        /\ stagedAtResult' = [install |-> installQueue', remove |-> uninstallQueue', upgrade |-> upgradeQueue']
        /\ UNCHANGED plan
     \/ plan.sync /\ outcome = "succeeded" /\ dismissApplyResult
  /\ UNCHANGED <<stopRequested, done, interrupted>>

NextPhase ==
  /\ pc = "next"
  /\ \/ /\ UNCHANGED <<tablet, known, queues, asked, starring, presses>>
        /\ IF plan.order = <<>> THEN Over("succeeded") ELSE stopRequested /\ Over("stopped")
     \/ /\ plan.order # <<>> /\ ~stopRequested
        /\ pc' = IF Head(plan.order) = "upgrade" /\ plan.sync /\ ~plan.targets
                 THEN "candidates" ELSE "running"
        /\ UNCHANGED <<plan, stopRequested, done, interrupted, result>>
        /\ OnlyPlan

(* GetUpgradeCandidates, when the removals it waited for are done. *)
CandidatesFound ==
  /\ pc = "candidates" /\ pc' = "running"
  /\ \/ plan' = [plan EXCEPT !.upgrade = outdated] \/ UNCHANGED plan
  /\ UNCHANGED <<stopRequested, done, interrupted, result>>
  /\ OnlyPlan

(* External: what a phase does to the tablet; S is what it got done. *)
TabletAfter(phase, S) ==
  CASE phase = "remove"  -> onTablet' = onTablet \ S /\ outdated' = outdated \ S /\ UNCHANGED osChanged
    [] phase = "install" -> onTablet' = onTablet \cup S /\ UNCHANGED <<outdated, osChanged>>
    [] phase = "upgrade" -> /\ outdated' = outdated \ S /\ UNCHANGED onTablet
                            /\ osChanged' = (osChanged /\ ~(plan.sync /\ S = plan.upgrade))

(* Mutant: what a phase was to do leaves the queues even if it was not done.*)
UnqueueAll(names) ==
  /\ installQueue' = installQueue \ Names(plan, Head(plan.order))
  /\ uninstallQueue' = uninstallQueue \ Names(plan, Head(plan.order))
  /\ upgradeQueue' = upgradeQueue \ Names(plan, Head(plan.order))

unqueue(names) ==
  /\ installQueue' = installQueue \ names /\ uninstallQueue' = uninstallQueue \ names
  /\ upgradeQueue' = upgradeQueue \ names

(* runPhase: of what is done the page may not hear. *)
PhaseEnds(outcome, S, told) ==
  /\ pc = "running"
  /\ TabletAfter(Head(plan.order), S)
  /\ done' = done \cup told
  /\ unqueue(told)
  /\ osMismatch' = (osMismatch /\ ~(outcome = "succeeded" /\ plan.sync /\ Head(plan.order) = "upgrade"))
  /\ pc' = outcome
  /\ UNCHANGED <<online, installed, candidates, asked, checked, starring, plan, stopRequested,
                 interrupted, result, presses>>
  /\ InstallEffect /\ RemovalEffect /\ Ask

(* An operation that was canceled may have been over already. *)
Operation ==
  /\ pc = "running" /\ online
  /\ LET names == Names(plan, Head(plan.order))
     IN  \/ PhaseEnds("succeeded", names, names)
         \/ \E S \in SUBSET names : \E told \in {S, {}} :
              \/ PhaseEnds("failed", S, told)
              \/ stopRequested /\ PhaseEnds("stopped", S, told)

(* What is installed is read again, and upgrades that are not offered by    *)
(* now leave their queue.                                                   *)
Known ==
  /\ installed' = onTablet /\ candidates' = outdated
  /\ upgradeQueue' = upgradeQueue \cap candidates'
  /\ UNCHANGED <<installQueue, uninstallQueue>>

Refreshed ==
  /\ pc \in {"succeeded", "stopped", "failed"}
  /\ (online /\ Known) \/ UNCHANGED <<installed, candidates, queues>>
  /\ UNCHANGED <<tablet, online, osMismatch, asked, starring, presses>>
  /\ IF pc = "succeeded"
     THEN /\ pc' = "next" /\ plan' = [plan EXCEPT !.order = Tail(@)]
          /\ InstallEffect /\ RemovalEffect /\ Ask
          /\ UNCHANGED <<checked, stopRequested, done, interrupted, result>>
     ELSE Over(pc)

stopApply ==
  /\ Busy /\ ~stopRequested /\ Click
  /\ stopRequested' = TRUE
  /\ UNCHANGED <<tablet, known, queues, asked, solved, checked, starring, plan, pc, done, interrupted, result>>

finishApply ==
  /\ applyResult # None /\ Click
  /\ dismissApplyResult
  /\ UNCHANGED <<tablet, known, queues, asked, solved, checked, starring, pc, stopRequested, done, interrupted>>

-----------------------------------------------------------------------------
(* The connection                                                           *)

(* resetOperationState: every change is dropped; an operation that runs     *)
(* fails with the connection.                                               *)
ConnectionLost ==
  /\ online /\ Click
  /\ online' = FALSE /\ osMismatch' = FALSE
  /\ installQueue' = {} /\ uninstallQueue' = {} /\ upgradeQueue' = {}
  /\ \/ pc = "running" /\ pc' = "failed"
        /\ \E S \in SUBSET Names(plan, Head(plan.order)) : TabletAfter(Head(plan.order), S)
     \/ pc # "running" /\ UNCHANGED <<pc, tablet>>
  /\ interrupted' = TRUE
  /\ UNCHANGED <<installed, candidates, asked, starring, plan, stopRequested, done, result>>
  /\ Resolve

ConnectionRestored ==
  /\ ~online /\ Click
  /\ online' = TRUE /\ installed' = onTablet /\ candidates' = outdated /\ osMismatch' = osChanged
  /\ installQueue' = {} /\ uninstallQueue' = {} /\ upgradeQueue' = {}
  /\ UNCHANGED <<tablet, asked, starring, applying, result>>
  /\ Resolve

Next ==
  \/ \E m \in Mods : toggleInstallQueue(m) \/ toggleUninstallQueue(m) \/ toggleUpgradeQueue(m)
                     \/ installStarred(m)
  \/ handleUpdateAll \/ StageRemovals \/ clearAllQueues \/ StarredQueued
  \/ \E c \in checks : InstallChecked(c) \/ InstallCheckFails(c) \/ RemovalChecked(c)
  \/ \E q \in Questions : OpenQuestion(q)
  \/ changeProvider \/ ProvidersFound \/ answerQuestion \/ CancelQuestion \/ dropCompanion
  \/ handleApplyPlan \/ NextPhase \/ CandidatesFound \/ Operation \/ Refreshed
  \/ stopApply \/ finishApply
  \/ ConnectionLost \/ ConnectionRestored

PlanSpec == Init /\ [][Next]_vars

-----------------------------------------------------------------------------
(* Properties                                                               *)

(* What Apply runs is what the last check was about: the queues, answers,   *)
(* removals and installed mods did not change since, and nothing the page   *)
(* shows as brought along is of an earlier plan.                            *)
AppliesWhatWasChecked ==
  [][ pc = "idle" /\ pc' = "next" /\ ~plan'.sync /\ plan'.install # {} => checked = InstallDeps ]_vars

(* "Retry runs the changes that did not run" (guide.md): when a plan is     *)
(* over, every change it was to make is either made on the tablet or still  *)
(* queued, unless the connection was lost.                                  *)
ChangesDoneOrKept ==
  [][ Busy /\ pc' = "idle" /\ ~interrupted =>
        /\ plan.install \ plan.implied \subseteq onTablet' \cup installQueue'
        /\ (plan.remove \ plan.implied) \cap onTablet' \subseteq uninstallQueue'
        /\ ~plan.sync => plan.upgrade \cap outdated' \subseteq upgradeQueue' ]_vars

(* "To stop the remaining changes, press Stop" (guide.md): no phase starts  *)
(* once Stop was pressed.  It does not hold: pressed while the candidates   *)
(* are read, Stop comes after the check that would have heeded it.          *)
StopStopsTheRest == [][ stopRequested /\ pc # "running" => pc' # "running" ]_vars
=============================================================================
