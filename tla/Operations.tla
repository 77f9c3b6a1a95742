----------------------------- MODULE Operations -----------------------------
(***************************************************************************)
(* Operations that run in the background and ask the user                  *)
(* (operationsservice.go), and the page that shows what they ask           *)
(* (frontend/src/hooks/useOperation.ts, App.tsx).                          *)
(*                                                                         *)
(* Each operation is a goroutine that may raise prompts.  Its events reach *)
(* the page in order; the page's calls reach the backend in any order.  A  *)
(* lost connection takes the prompt off the page, a restored one has the   *)
(* page ask for it again.  What operations do between prompts, their output*)
(* and their progress are left out.                                        *)
(***************************************************************************)
EXTENDS Naturals, Sequences

CONSTANTS
  Ops,          (* the operations that the page may start                    *)
  MaxPrompts,   (* bound on the prompts that an operation raises             *)
  MaxChanges,   (* bound on the times the connection is lost, or dropped     *)
  None

ASSUME OperationsAssumption ==
  /\ MaxPrompts \in Nat
  /\ MaxChanges \in Nat
  /\ None \notin Ops

VARIABLES
  session,      (* up, lost, failed (no more automatic reconnects) or off    *)
  changes,      (* how often the connection was lost or dropped              *)
  sweeping,     (* a failed reconnect is about to cancel waiting operations  *)
  registered,   (* c.operations                                              *)
  pc,           (* where each operation is                                   *)
  asked,        (* the prompts that each operation has raised                *)
  pending,      (* op.pendingPrompt; 0 is none                               *)
  answers,      (* op.prompts, a channel of one: what the answer in it was   *)
                (* given to; 0 when it is empty                              *)
  got,          (* what the answer that a prompt returned was given to       *)
  canceled,     (* operations whose context is done                          *)
  result,       (* how each operation ended                                  *)
  events,       (* events on their way to the page                           *)
  calls,        (* calls on their way to the backend                         *)
  current,      (* the operation that the page shows as running              *)
  prompt,       (* the prompt that the page shows                            *)
  restoring     (* the page's PendingOperationPrompt call                    *)

opVars   == <<registered, pc, asked, pending, answers, got, canceled, result>>
pageVars == <<current, prompt, restoring>>
vars     == <<session, changes, sweeping, opVars, events, calls, pageVars>>

Prompt    == [op : Ops, n : 1..MaxPrompts]
NoPrompt  == [op |-> None, n |-> 0]
Declined  == MaxPrompts + 1      (* "cancel", from a context that is done    *)

(* Events, calls and the answer to a call, all of one shape. *)
Message(is, p) == [is |-> is, op |-> p.op, n |-> p.n]
PromptOf(m)    == [op |-> m.op, n |-> m.n]
Whole(o)       == [op |-> o, n |-> 0]

Asking(p)  == Message("prompt", p)
Done(o)    == Message("done", Whole(o))
Lost       == Message("lost", NoPrompt)
Restored   == Message("restored", NoPrompt)
Event      == {Asking(p) : p \in Prompt} \cup {Done(o) : o \in Ops} \cup {Lost, Restored}

Respond(p) == Message("respond", p)
Cancel(o)  == Message("cancel", Whole(o))
Disconnect == Message("disconnect", NoPrompt)
Call       == {Respond(p) : p \in Prompt} \cup {Cancel(o) : o \in Ops} \cup {Disconnect}

NotAsked   == Message("none", NoPrompt)
Asked      == Message("asking", NoPrompt)
Found(p)   == Message("found", p)

(* Types; and exactly the operations that have begun and not yet finished   *)
(* are registered.                                                          *)
TypeOK ==
  /\ session \in {"up", "lost", "failed", "off"}
  /\ changes \in 0..MaxChanges
  /\ sweeping \in BOOLEAN
  /\ registered \subseteq Ops
  /\ pc \in [Ops -> {"new", "body", "raised", "waiting", "answered", "ending", "finishing", "done"}]
  /\ asked \in [Ops -> 0..MaxPrompts]
  /\ pending \in [Ops -> 0..MaxPrompts]
  /\ answers \in [Ops -> 0..MaxPrompts]
  /\ got \in [Ops -> 0..Declined]
  /\ canceled \subseteq Ops
  /\ result \in [Ops -> {"none", "ok", "failed", "canceled"}]
  /\ events \in Seq(Event)
  /\ calls \subseteq Call
  /\ current \in Ops \cup {None}
  /\ prompt \in Prompt \cup {NoPrompt}
  /\ restoring \in {NotAsked, Asked} \cup {Found(p) : p \in Prompt \cup {NoPrompt}}
  /\ registered = {o \in Ops : pc[o] \notin {"new", "finishing", "done"}}

Init ==
  /\ session = "up" /\ changes = 0 /\ sweeping = FALSE
  /\ registered = {} /\ canceled = {}
  /\ pc = [o \in Ops |-> "new"]
  /\ asked = [o \in Ops |-> 0] /\ pending = [o \in Ops |-> 0]
  /\ answers = [o \in Ops |-> 0] /\ got = [o \in Ops |-> 0]
  /\ result = [o \in Ops |-> "none"]
  /\ events = <<>> /\ calls = {}
  /\ current = None /\ prompt = NoPrompt /\ restoring = NotAsked

-----------------------------------------------------------------------------
(* An operation: runOperation, Prompt and runHook                           *)

Goto(o, from, to) == pc[o] = from /\ pc' = [pc EXCEPT ![o] = to]

Raise(o) ==
  /\ Goto(o, "body", "raised")
  /\ asked[o] < MaxPrompts
  /\ asked' = [asked EXCEPT ![o] = @ + 1]
  /\ pending' = [pending EXCEPT ![o] = asked[o] + 1]
  /\ UNCHANGED <<session, changes, sweeping, registered, answers, got, canceled, result, events,
                 calls, pageVars>>

EmitPrompt(o) ==
  /\ Goto(o, "raised", "waiting")
  /\ events' = Append(events, Asking([op |-> o, n |-> asked[o]]))
  /\ UNCHANGED <<session, changes, sweeping, registered, asked, pending, answers, got, canceled,
                 result, calls, pageVars>>

TakeAnswer(o) ==
  /\ Goto(o, "waiting", "answered")
  /\ answers[o] # 0
  /\ got' = [got EXCEPT ![o] = answers[o]]
  /\ answers' = [answers EXCEPT ![o] = 0]
  /\ UNCHANGED <<session, changes, sweeping, registered, asked, pending, canceled, result, events,
                 calls, pageVars>>

(* Mutant: the prompt waits for an answer alone. *)
TakeCancelAnswered(o) ==
  /\ Goto(o, "waiting", "answered")
  /\ o \in canceled /\ answers[o] # 0
  /\ got' = [got EXCEPT ![o] = Declined]
  /\ UNCHANGED <<session, changes, sweeping, registered, asked, pending, answers, canceled, result,
                 events, calls, pageVars>>

(* A prompt never outlives its operation's context; an answer that is there *)
(* as well may win.                                                         *)
TakeCancel(o) ==
  /\ Goto(o, "waiting", "answered")
  /\ o \in canceled
  /\ got' = [got EXCEPT ![o] = Declined]
  /\ UNCHANGED <<session, changes, sweeping, registered, asked, pending, answers, canceled, result,
                 events, calls, pageVars>>

(* The prompt returns.  An answer may have the operation go on, even a      *)
(* declined one with the next package's hook, or end it as declined.        *)
PromptReturns(o) ==
  /\ \E next \in {"body", "ending"} : Goto(o, "answered", next)
  /\ result' = [result EXCEPT ![o] = IF pc'[o] = "ending" THEN "canceled" ELSE @]
  /\ pending' = [pending EXCEPT ![o] = 0]
  /\ UNCHANGED <<session, changes, sweeping, registered, asked, answers, got, canceled, events,
                 calls, pageVars>>

BodyEnds(o) ==
  /\ Goto(o, "body", "ending")
  /\ \E r \in {"ok", "failed"} :
       result' = [result EXCEPT ![o] = IF o \in canceled THEN "canceled" ELSE r]
  /\ UNCHANGED <<session, changes, sweeping, registered, asked, pending, answers, got, canceled,
                 events, calls, pageVars>>

(* Mutant: the operation stays registered. *)
DeregisterNever(o) ==
  /\ Goto(o, "ending", "finishing")
  /\ UNCHANGED <<session, changes, sweeping, registered, asked, pending, answers, got, canceled, result,
                 events, calls, pageVars>>

Deregister(o) ==
  /\ Goto(o, "ending", "finishing")
  /\ registered' = registered \ {o}
  /\ UNCHANGED <<session, changes, sweeping, asked, pending, answers, got, canceled, result, events,
                 calls, pageVars>>

FinishWith(o) ==
  /\ Goto(o, "finishing", "done")
  /\ canceled' = canceled \cup {o}
  /\ events' = Append(events, Done(o))
  /\ UNCHANGED <<session, changes, sweeping, registered, asked, pending, answers, got, result, calls,
                 pageVars>>

OpStep(o) ==
  \/ EmitPrompt(o) \/ TakeAnswer(o) \/ TakeCancel(o) \/ PromptReturns(o)
  \/ Deregister(o) \/ FinishWith(o)

-----------------------------------------------------------------------------
(* The page                                                                 *)

(* An operation starts when none runs, as far as the page knows, and no     *)
(* dialog is in the way; runOperation registers it.                         *)
Start(o) ==
  /\ session = "up" /\ current = None /\ prompt = NoPrompt
  /\ Goto(o, "new", "body")
  /\ registered' = registered \cup {o}
  /\ current' = o
  /\ UNCHANGED <<session, changes, sweeping, asked, pending, answers, got, canceled, result, events,
                 calls, prompt, restoring>>

(* The dialog of a prompt is modal: nothing else can be pressed. *)
Stop ==
  /\ current # None /\ prompt = NoPrompt
  /\ calls' = calls \cup {Cancel(current)}
  /\ UNCHANGED <<session, changes, sweeping, opVars, events, pageVars>>

(* Mutant: the dialog stays open after it was answered. *)
AnswerKeepsDialog ==
  /\ prompt # NoPrompt
  /\ calls' = calls \cup {Respond(prompt)}
  /\ UNCHANGED <<session, changes, sweeping, opVars, events, pageVars>>

Answer ==
  /\ prompt # NoPrompt
  /\ calls' = calls \cup {Respond(prompt)}
  /\ prompt' = NoPrompt
  /\ UNCHANGED <<session, changes, sweeping, opVars, events, current, restoring>>

(* Mutant: a restored connection does not ask for the prompt again. *)
HandleRestoredOnly ==
  /\ Head(events).is = "restored"
  /\ current' = None /\ prompt' = NoPrompt
  /\ restoring' = restoring

(* The page resets, and asks for the prompt that it took off.  (An earlier  *)
(* ask that is not answered yet is left out.)                               *)
HandleRestored ==
  /\ Head(events).is = "restored"
  /\ current' = None /\ prompt' = NoPrompt
  /\ restoring' = Asked

HandleEvent ==
  /\ events # <<>>
  /\ events' = Tail(events)
  /\ \/ /\ Head(events).is = "prompt"
        /\ prompt' = PromptOf(Head(events))
        /\ UNCHANGED <<current, restoring>>
     \/ /\ Head(events).is = "done"
        /\ current' = IF current = Head(events).op THEN None ELSE current
        /\ UNCHANGED <<prompt, restoring>>
     \/ /\ Head(events).is = "lost"
        /\ current' = None /\ prompt' = NoPrompt
        /\ UNCHANGED restoring
     \/ HandleRestored
  /\ UNCHANGED <<session, changes, sweeping, opVars, calls>>

RestorePrompt ==
  /\ restoring.is = "found"
  /\ prompt' = IF restoring.op = None THEN prompt ELSE PromptOf(restoring)
  /\ restoring' = NotAsked
  /\ UNCHANGED <<session, changes, sweeping, opVars, events, calls, current>>

-----------------------------------------------------------------------------
(* The page's calls                                                         *)

PendingOperationPrompt ==
  /\ restoring = Asked
  /\ LET waiting == {o \in registered : pending[o] # 0}
     IN  IF waiting = {} THEN restoring' = Found(NoPrompt)
         ELSE \E o \in waiting : restoring' = Found([op |-> o, n |-> pending[o]])
  /\ UNCHANGED <<session, changes, sweeping, opVars, events, calls, current, prompt>>

(* An answer to an operation whose channel is full is dropped. *)
RespondToOperation ==
  \E p \in Prompt :
    /\ Respond(p) \in calls
    /\ calls' = calls \ {Respond(p)}
    /\ answers' = [answers EXCEPT ![p.op] = IF p.op \in registered /\ @ = 0 THEN p.n ELSE @]
    /\ UNCHANGED <<session, changes, sweeping, registered, pc, asked, pending, got, canceled, result,
                   events, pageVars>>

CancelOperation ==
  \E o \in Ops :
    /\ Cancel(o) \in calls
    /\ calls' = calls \ {Cancel(o)}
    /\ canceled' = IF o \in registered THEN canceled \cup {o} ELSE canceled
    /\ UNCHANGED <<session, changes, sweeping, registered, pc, asked, pending, answers, got, result,
                   events, pageVars>>

-----------------------------------------------------------------------------
(* The connection                                                           *)

LoseConnection ==
  /\ session = "up" /\ changes < MaxChanges
  /\ session' = "lost"
  /\ changes' = changes + 1
  /\ events' = Append(events, Lost)
  /\ UNCHANGED <<sweeping, opVars, calls, pageVars>>

RestoreConnection ==
  /\ session = "lost"
  /\ session' = "up"
  /\ events' = Append(events, Restored)
  /\ UNCHANGED <<changes, sweeping, opVars, calls, pageVars>>

FailReconnect ==
  /\ session = "lost"
  /\ session' = "failed"
  /\ sweeping' = TRUE
  /\ UNCHANGED <<changes, opVars, events, calls, pageVars>>

CancelWaiting == canceled' = canceled \cup {o \in registered : pending[o] # 0}

(* attemptReconnect's deferred sweep, unless a newer connection is there.   *)
Sweep ==
  /\ sweeping
  /\ sweeping' = FALSE
  /\ CancelWaiting \/ (session \in {"up", "off"} /\ UNCHANGED canceled)
  /\ UNCHANGED <<session, changes, registered, pc, asked, pending, answers, got, result, events,
                 calls, pageVars>>

(* "Reconnect" on the page, which knows by then that the reconnection       *)
(* failed, and does as after connection:restored.                           *)
Reconnect ==
  /\ session = "failed" /\ events = <<>>
  /\ session' = "up"
  /\ current' = None /\ prompt' = NoPrompt
  /\ restoring' = Asked
  /\ UNCHANGED <<changes, sweeping, opVars, events, calls>>

(* The page resets before the backend answers. *)
ClickDisconnect ==
  /\ session # "off" /\ Disconnect \notin calls /\ changes < MaxChanges
  /\ changes' = changes + 1
  /\ calls' = calls \cup {Disconnect}
  /\ current' = None /\ prompt' = NoPrompt
  /\ UNCHANGED <<session, sweeping, opVars, events, restoring>>

DisconnectSweeps ==
  /\ Disconnect \in calls
  /\ calls' = calls \ {Disconnect}
  /\ session' = "off"
  /\ CancelWaiting
  /\ UNCHANGED <<changes, sweeping, registered, pc, asked, pending, answers, got, result, events,
                 pageVars>>

(* A connection from the connect page. *)
Connect ==
  /\ session = "off" /\ events = <<>>
  /\ session' = "up"
  /\ UNCHANGED <<changes, sweeping, opVars, events, calls, pageVars>>

-----------------------------------------------------------------------------

Page    == Stop \/ Answer \/ HandleEvent \/ RestorePrompt
Backend == PendingOperationPrompt \/ RespondToOperation \/ CancelOperation \/ Sweep \/ DisconnectSweeps
Session == LoseConnection \/ RestoreConnection \/ FailReconnect \/ Reconnect \/ ClickDisconnect \/ Connect

Next ==
  \/ \E o \in Ops : Start(o) \/ Raise(o) \/ BodyEnds(o) \/ OpStep(o)
  \/ Page \/ Backend \/ Session

(* Goroutines are scheduled, calls and events arrive, and what a canceled   *)
(* operation runs is stopped.  Users need do nothing.                       *)
Fairness ==
  /\ \A o \in Ops : WF_vars(OpStep(o)) /\ WF_vars(o \in canceled /\ BodyEnds(o))
  /\ WF_vars(HandleEvent) /\ WF_vars(RestorePrompt) /\ WF_vars(Backend)

Spec == Init /\ [][Next]_vars /\ Fairness

-----------------------------------------------------------------------------
(* Properties                                                               *)

Arrived == events = <<>> /\ calls = {} /\ restoring = NotAsked /\ ~sweeping

Waiting(o) == pc[o] = "waiting" /\ o \notin canceled /\ answers[o] = 0

(* An operation that nobody stopped, on a connection that was never lost,   *)
(* gets to each of its prompts what the user answered to that prompt: the   *)
(* channel of one that carries the answers never holds one for later        *)
(* (Prompt, respond).                                                       *)
AnswersMatch ==
  \A o \in Ops :
    pc[o] = "answered" /\ o \notin canceled /\ changes = 0 => got[o] = asked[o]

(* However the connection is lost, comes back, fails or is dropped: when    *)
(* everything under way has arrived, an operation that still waits for the  *)
(* user has its dialog on the page, unless the reconnection is not over     *)
(* (PendingOperationPrompt, cancelOperationsWaitingOnPrompts).              *)
NobodyWaitsUnseen ==
  Arrived /\ session # "lost" => \A o \in Ops : Waiting(o) => prompt.op = o

(* A stop, and the sweep after a connection that is gone, ends the operation *)
(* even if it waits for the user (CancelOperation, Prompt, runOperation).   *)
CancelEnds == \A o \in Ops : o \in canceled ~> pc[o] = "done"

(* What the comment on Prompt says: "a prompt never outlives the run that   *)
(* raised it".  On the page it does.                                        *)
PromptEndsWithRun ==
  Arrived /\ prompt # NoPrompt => pc[prompt.op] # "done"
=============================================================================
