-------------------------- MODULE OperationsProofs --------------------------
(* What TLAPS proves of Operations for any number of prompts and of changes *)
(* of the connection.                                                       *)
EXTENDS Operations, TLAPS

-----------------------------------------------------------------------------
(* The inductive invariants                                                 *)

Events == 1..Len(events)

(* A prompt is pending from the time it is raised until it returns.         *)
PendingInv ==
  \A o \in Ops :
    pc[o] \in {"raised", "waiting", "answered"} => pending[o] = asked[o] /\ asked[o] # 0

(* Before the connection changes for the first time the page asks for no    *)
(* prompt again.                                                            *)
CalmInv ==
  changes = 0 =>
    /\ session = "up" /\ restoring = NotAsked
    /\ \A e \in Events : events[e] # Restored
    /\ Disconnect \notin calls

(* Where the prompt that an operation raised last can be: on its way to the *)
(* page, on the page, answered on the page, or in the channel.              *)
OnItsWay(o)  == \E e \in Events : events[e].is = "prompt" /\ events[e].op = o
Shown(o)     == prompt.op = o
Answered(o)  == \E p \in Prompt : p.op = o /\ Respond(p) \in calls
InChannel(o) == answers[o] # 0

(* It is in one place at most, and only while its operation waits.          *)
OnePlace(o) ==
  /\ OnItsWay(o) \/ Shown(o) \/ Answered(o) \/ InChannel(o) => pc[o] = "waiting"
  /\ OnItsWay(o) => ~Shown(o) /\ ~Answered(o) /\ ~InChannel(o)
  /\ Shown(o) => ~Answered(o) /\ ~InChannel(o)
  /\ Answered(o) => ~InChannel(o)
  /\ \A e, f \in Events :
       events[e].is = "prompt" /\ events[e].op = o /\ events[f].is = "prompt" /\ events[f].op = o => e = f

(* And it is the prompt that the operation raised last.                     *)
LastAsked(o) ==
  /\ \A e \in Events : events[e].is = "prompt" /\ events[e].op = o => events[e].n = asked[o]
  /\ Shown(o) => prompt.n = asked[o]
  /\ \A p \in Prompt : p.op = o /\ Respond(p) \in calls => p.n = asked[o]
  /\ InChannel(o) => answers[o] = asked[o]
  /\ pc[o] = "answered" => got[o] = asked[o]

AnswersInv ==
  changes = 0 => \A o \in Ops : o \notin canceled => OnePlace(o) /\ LastAsked(o)

(* Why an operation that waits will not wait unseen.                        *)
LastLost(e) == \A f \in Events : f > e => events[f] # Lost
Covered(o) ==
  \/ session = "lost"
  \/ session = "failed" /\ sweeping
  \/ \E e \in Events : LastLost(e) /\ events[e] = Restored
  \/ \E e \in Events : LastLost(e) /\ events[e].is = "prompt" /\ events[e].op = o
  \/ /\ \A e \in Events : events[e] # Lost
     /\ \/ Disconnect \in calls
        \/ restoring = Asked
        \/ restoring.is = "found" /\ restoring.op = o
        \/ Shown(o)
        \/ Answered(o)

SeenInv == \A o \in Ops : Waiting(o) => Covered(o)

-----------------------------------------------------------------------------
(* Facts about the messages                                                 *)

LEMMA BoundsType == MaxPrompts \in Nat /\ MaxChanges \in Nat /\ None \notin Ops
  BY OperationsAssumption

LEMMA PromptIs == \A p \in Prompt : p.op \in Ops /\ p.n \in 1..MaxPrompts /\ p = [op |-> p.op, n |-> p.n]
  BY DEF Prompt

LEMMA MessageIs ==
  /\ \A p \in Prompt : Asking(p) \in Event /\ Respond(p) \in Call
  /\ \A o \in Ops : Done(o) \in Event /\ Cancel(o) \in Call
  /\ Lost \in Event /\ Restored \in Event /\ Disconnect \in Call
  BY DEF Event, Call

LEMMA MessageFields ==
  /\ \A p : /\ Asking(p).is = "prompt" /\ Asking(p).op = p.op /\ Asking(p).n = p.n
            /\ Respond(p).is = "respond" /\ Respond(p).op = p.op /\ Respond(p).n = p.n
            /\ Found(p).is = "found" /\ Found(p).op = p.op /\ Found(p).n = p.n
  /\ \A o : Done(o).is = "done" /\ Done(o).op = o /\ Cancel(o).is = "cancel"
  /\ Lost.is = "lost" /\ Restored.is = "restored" /\ Disconnect.is = "disconnect"
  /\ NotAsked.is = "none" /\ Asked.is = "asking"
  BY DEF Asking, Respond, Found, Done, Cancel, Lost, Restored, Disconnect, NotAsked, Asked, Message, Whole, NoPrompt

LEMMA EventIs ==
  ASSUME NEW m \in Event
  PROVE  /\ m.is \in {"prompt", "done", "lost", "restored"}
         /\ m.is = "prompt" => PromptOf(m) \in Prompt /\ PromptOf(m).op = m.op /\ PromptOf(m).n = m.n
         /\ m.is = "lost" => m = Lost
         /\ m.is = "restored" => m = Restored
<1>1. CASE m = Lost \/ m = Restored
  BY <1>1, MessageFields
<1>2. ASSUME NEW o \in Ops, m = Done(o) PROVE m.is = "done"
  BY <1>2, MessageFields
<1>3. ASSUME NEW p \in Prompt, m = Asking(p)
      PROVE  m.is = "prompt" /\ PromptOf(m) \in Prompt /\ PromptOf(m).op = m.op /\ PromptOf(m).n = m.n
  BY <1>3, PromptIs, MessageFields DEF PromptOf, Prompt
<1> QED BY <1>1, <1>2, <1>3 DEF Event

LEMMA RespondIs ==
  ASSUME NEW p \in Prompt, NEW q \in Prompt, Respond(p) = Respond(q)
  PROVE  p = q
<1>1. p.op = q.op /\ p.n = q.n
  BY MessageFields
<1> QED BY <1>1, PromptIs

-----------------------------------------------------------------------------
(* The events on their way                                                  *)

LEMMA EventAdded ==
  ASSUME TypeOK, NEW m \in Event, events' = Append(events, m)
  PROVE  /\ events' \in Seq(Event) /\ Len(events) \in Nat
         /\ Events' = Events \cup {Len(events) + 1} /\ Len(events) + 1 \notin Events
         /\ events'[Len(events) + 1] = m
         /\ \A e \in Events : events'[e] = events[e] /\ e < Len(events) + 1
  BY DEF TypeOK, Events

LEMMA EventTaken ==
  ASSUME TypeOK, events # <<>>, events' = Tail(events)
  PROVE  /\ events' \in Seq(Event) /\ 1 \in Events /\ Head(events) = events[1] /\ events[1] \in Event
         /\ \A e \in Events' : e + 1 \in Events /\ e + 1 # 1 /\ events'[e] = events[e + 1]
         /\ \A e \in Events : e = 1 \/ (e - 1 \in Events' /\ events'[e - 1] = events[e])
<1>1. events \in Seq(Event) /\ Len(events) \in Nat \ {0} /\ Len(events') = Len(events) - 1
  BY DEF TypeOK
<1>2. events' \in Seq(Event) /\ 1 \in Events /\ Head(events) = events[1] /\ events[1] \in Event
  BY <1>1 DEF Events
<1>3. \A e \in Events' : e + 1 \in Events /\ e + 1 # 1 /\ events'[e] = events[e + 1]
  BY <1>1 DEF Events
<1>4. \A e \in Events : e = 1 \/ e - 1 \in Events'
  BY <1>1 DEF Events
<1>5. \A e \in Events : e = 1 \/ events'[e - 1] = events[e]
  <2>1. SUFFICES ASSUME NEW e \in Events, e # 1 PROVE events'[e - 1] = events[e]
    OBVIOUS
  <2>2. e - 1 \in Events' /\ (e - 1) + 1 = e
    BY <1>4, <2>1 DEF Events
  <2> QED BY <1>3, <2>2
<1> QED BY <1>2, <1>3, <1>4, <1>5

-----------------------------------------------------------------------------
(* Type correctness                                                         *)

LEMMA InitType == Init => TypeOK
<1> SUFFICES ASSUME Init PROVE TypeOK
  OBVIOUS
<1>1. 0 \in 0..MaxPrompts /\ 0 \in 0..Declined /\ 0 \in 0..MaxChanges
  BY BoundsType DEF Declined
<1>2. /\ asked \in [Ops -> 0..MaxPrompts] /\ pending \in [Ops -> 0..MaxPrompts]
      /\ answers \in [Ops -> 0..MaxPrompts] /\ got \in [Ops -> 0..Declined]
  BY <1>1 DEF Init
<1>3. events = <<>> /\ <<>> \in Seq(Event)
  BY DEF Init
<1>4. /\ pc \in [Ops -> {"new", "body", "raised", "waiting", "answered", "ending", "finishing", "done"}]
      /\ result \in [Ops -> {"none", "ok", "failed", "canceled"}]
  BY DEF Init
<1>5. registered = {o \in Ops : pc[o] \notin {"new", "finishing", "done"}}
  BY DEF Init
<1> QED BY <1>1, <1>2, <1>3, <1>4, <1>5 DEF Init, TypeOK

LEMMA TypeOps ==
  ASSUME TypeOK, PendingInv, NEW o \in Ops, Start(o) \/ Raise(o) \/ BodyEnds(o) \/ OpStep(o)
  PROVE  TypeOK'
<1> USE BoundsType DEF TypeOK, Goto, pageVars, Declined
<1>1. CASE Start(o)          BY <1>1 DEF Start
<1>2. CASE Raise(o)          
  <2>1. asked[o] \in Nat /\ asked[o] + 1 \in 0..MaxPrompts
    BY <1>2 DEF Raise
  <2>2. asked' \in [Ops -> 0..MaxPrompts] /\ pending' \in [Ops -> 0..MaxPrompts]
    BY <1>2, <2>1 DEF Raise
  <2> QED BY <1>2, <2>2 DEF Raise
<1>3. CASE BodyEnds(o)       BY <1>3 DEF BodyEnds
<1>4. CASE EmitPrompt(o)
  <2>1. asked[o] \in 1..MaxPrompts
    BY <1>4 DEF EmitPrompt, PendingInv
  <2>2. Asking([op |-> o, n |-> asked[o]]) \in Event
    BY <2>1, MessageIs DEF Prompt
  <2>3. events' \in Seq(Event)
    BY <1>4, <2>2, EventAdded DEF EmitPrompt
  <2> QED BY <1>4, <2>3 DEF EmitPrompt
<1>5. CASE TakeAnswer(o)     BY SMTT(30), <1>5 DEF TakeAnswer
<1>6. CASE TakeCancel(o)     BY SMTT(30), <1>6 DEF TakeCancel
<1>7. CASE PromptReturns(o)  BY SMTT(30), <1>7 DEF PromptReturns
<1>8. CASE Deregister(o)     BY <1>8 DEF Deregister
<1>9. CASE FinishWith(o)
  BY <1>9, EventAdded, MessageIs DEF FinishWith
<1> QED BY <1>1, <1>2, <1>3, <1>4, <1>5, <1>6, <1>7, <1>8, <1>9 DEF OpStep

LEMMA TypePage ==
  ASSUME TypeOK, Page
  PROVE  TypeOK'
<1> USE BoundsType DEF TypeOK, opVars
<1>1. CASE Stop
  BY <1>1, MessageIs DEF Stop, pageVars
<1>2. CASE Answer
  <2>1. prompt \in Prompt /\ Respond(prompt) \in Call
    BY <1>2, MessageIs DEF Answer
  <2> QED BY <1>2, <2>1 DEF Answer
<1>3. CASE HandleEvent
  <2>1. events' \in Seq(Event) /\ Head(events) \in Event
    BY <1>3, EventTaken DEF HandleEvent
  <2>2. Head(events).is = "prompt" => PromptOf(Head(events)) \in Prompt
    BY <2>1, EventIs
  <2> QED BY <1>3, <2>1, <2>2 DEF HandleEvent, HandleRestored
<1>4. CASE RestorePrompt
  <2>1. PICK p \in Prompt \cup {NoPrompt} : restoring = Found(p)
    BY <1>4, MessageFields DEF RestorePrompt
  <2>2. restoring.op # None => PromptOf(restoring) \in Prompt
    <3>1. restoring.op = p.op /\ restoring.n = p.n
      BY <2>1, MessageFields
    <3>2. CASE p = NoPrompt   BY <3>1, <3>2 DEF NoPrompt
    <3>3. CASE p \in Prompt   BY <3>1, <3>3, PromptIs DEF PromptOf
    <3> QED BY <3>2, <3>3
  <2> QED BY <1>4, <2>2 DEF RestorePrompt
<1> QED BY <1>1, <1>2, <1>3, <1>4 DEF Page

LEMMA TypeBackend ==
  ASSUME TypeOK, Backend
  PROVE  TypeOK'
<1> USE BoundsType DEF TypeOK, opVars, pageVars
<1>1. CASE PendingOperationPrompt
  <2>1. \A o \in registered : pending[o] # 0 => [op |-> o, n |-> pending[o]] \in Prompt
    BY DEF Prompt
  <2>2. \E p \in Prompt \cup {NoPrompt} : restoring' = Found(p)
    BY <1>1, <2>1 DEF PendingOperationPrompt
  <2> QED BY <1>1, <2>2 DEF PendingOperationPrompt
<1>2. CASE RespondToOperation
  <2>1. answers' \in [Ops -> 0..MaxPrompts]
    <3>1. PICK p \in Prompt :
            answers' = [answers EXCEPT ![p.op] = IF p.op \in registered /\ @ = 0 THEN p.n ELSE @]
      BY <1>2 DEF RespondToOperation
    <3>2. p.op \in Ops /\ p.n \in 0..MaxPrompts
      BY PromptIs
    <3> QED BY <3>1, <3>2
  <2> QED BY SMTT(30), <1>2, <2>1 DEF RespondToOperation
<1>3. CASE CancelOperation
  BY <1>3 DEF CancelOperation
<1>4. CASE Sweep
  BY <1>4 DEF Sweep, CancelWaiting
<1>5. CASE DisconnectSweeps
  BY <1>5 DEF DisconnectSweeps, CancelWaiting
<1> QED BY <1>1, <1>2, <1>3, <1>4, <1>5 DEF Backend

LEMMA TypeSession ==
  ASSUME TypeOK, Session
  PROVE  TypeOK'
<1> USE BoundsType, MessageIs DEF TypeOK, opVars, pageVars
<1>1. CASE LoseConnection
  <2>1. events' \in Seq(Event) /\ changes' \in 0..MaxChanges
    BY <1>1, EventAdded DEF LoseConnection
  <2> QED BY <1>1, <2>1 DEF LoseConnection
<1>2. CASE RestoreConnection
  <2>1. events' \in Seq(Event)
    BY <1>2, EventAdded DEF RestoreConnection
  <2> QED BY <1>2, <2>1 DEF RestoreConnection
<1>3. CASE FailReconnect     BY <1>3 DEF FailReconnect
<1>4. CASE Reconnect         BY <1>4 DEF Reconnect
<1>5. CASE ClickDisconnect
  <2>1. changes' \in 0..MaxChanges
    BY <1>5 DEF ClickDisconnect
  <2> QED BY <1>5, <2>1 DEF ClickDisconnect
<1>6. CASE Connect           BY <1>6 DEF Connect
<1> QED BY <1>1, <1>2, <1>3, <1>4, <1>5, <1>6 DEF Session

LEMMA TypeStep == TypeOK /\ PendingInv /\ [Next]_vars => TypeOK'
<1> SUFFICES ASSUME TypeOK, PendingInv, [Next]_vars PROVE TypeOK'
  OBVIOUS
<1>1. CASE UNCHANGED vars
  BY <1>1 DEF TypeOK, vars, opVars, pageVars
<1> QED BY <1>1, TypeOps, TypePage, TypeBackend, TypeSession DEF Next

LEMMA PendingStep == TypeOK /\ PendingInv /\ [Next]_vars => PendingInv'
<1> SUFFICES ASSUME TypeOK, PendingInv, [Next]_vars PROVE PendingInv'
  OBVIOUS
<1>1. ASSUME NEW o \in Ops, Start(o) \/ Raise(o) \/ BodyEnds(o) PROVE PendingInv'
  <2>1. asked[o] + 1 # 0
    BY BoundsType DEF TypeOK
  <2>2. CASE Start(o)      BY <2>2 DEF PendingInv, TypeOK, Start, Goto
  <2>3. CASE Raise(o)      BY <2>1, <2>3 DEF PendingInv, TypeOK, Raise, Goto
  <2>4. CASE BodyEnds(o)   BY <2>4 DEF PendingInv, TypeOK, BodyEnds, Goto
  <2> QED BY <1>1, <2>2, <2>3, <2>4
<1>2. ASSUME NEW o \in Ops, OpStep(o) PROVE PendingInv'
  BY <1>2 DEF PendingInv, TypeOK, OpStep, EmitPrompt, TakeAnswer, TakeCancel, PromptReturns, Deregister,
              FinishWith, Goto
<1>3. CASE UNCHANGED <<pc, asked, pending>>
  BY <1>3 DEF PendingInv
<1> QED BY <1>1, <1>2, <1>3 DEF Next, Page, Stop, Answer, HandleEvent, RestorePrompt, Backend,
     PendingOperationPrompt, RespondToOperation, CancelOperation, Sweep, DisconnectSweeps, Session,
     LoseConnection, RestoreConnection, FailReconnect, Reconnect, ClickDisconnect, Connect, vars, opVars

LEMMA InitPending == Init => PendingInv
  BY DEF Init, PendingInv

(* Every variable keeps its type, and exactly the operations that have      *)
(* begun and not yet finished are registered (runOperation).                *)
THEOREM TypeCorrect == Spec => []TypeOK
  BY InitType, InitPending, TypeStep, PendingStep, PTL DEF Spec

-----------------------------------------------------------------------------
(* Answers get to the prompts that they were given to                       *)

LEMMA ChangesGrow ==
  ASSUME TypeOK, [Next]_vars, changes' = 0
  PROVE  changes = 0 /\ ~LoseConnection /\ ~ClickDisconnect
<1>1. changes' = changes \/ changes' = changes + 1
  BY DEF Next, Start, Raise, BodyEnds, OpStep, EmitPrompt, TakeAnswer, TakeCancel, PromptReturns, Deregister,
     FinishWith, Page, Stop, Answer, HandleEvent, RestorePrompt, Backend, PendingOperationPrompt,
     RespondToOperation, CancelOperation, Sweep, DisconnectSweeps, Session, LoseConnection, RestoreConnection,
     FailReconnect, Reconnect, ClickDisconnect, Connect, vars
<1>2. changes \in Nat
  BY BoundsType DEF TypeOK
<1> QED BY <1>1, <1>2 DEF LoseConnection, ClickDisconnect

(* What a step of one operation may put on its way to the page.             *)
LEMMA OpEvents ==
  ASSUME TypeOK, PendingInv, NEW o \in Ops, EmitPrompt(o) \/ FinishWith(o)
  PROVE  \E m \in Event :
           /\ events' = Append(events, m)
           /\ EmitPrompt(o) => m.is = "prompt" /\ m.op = o /\ m.n = asked[o]
           /\ FinishWith(o) => m.is = "done"
<1>1. CASE EmitPrompt(o)
  <2>1. asked[o] \in 1..MaxPrompts
    BY <1>1, BoundsType DEF EmitPrompt, Goto, PendingInv, TypeOK
  <2>2. Asking([op |-> o, n |-> asked[o]]) \in Event
    BY <2>1, MessageIs DEF Prompt
  <2>3. ~FinishWith(o)
    BY <1>1 DEF EmitPrompt, FinishWith, Goto
  <2> QED BY <1>1, <2>2, <2>3, MessageFields DEF EmitPrompt
<1>2. CASE FinishWith(o)
  <2>1. ~EmitPrompt(o)
    BY <1>2 DEF EmitPrompt, FinishWith, Goto
  <2> QED BY <1>2, <2>1, MessageIs, MessageFields DEF FinishWith
<1> QED BY <1>1, <1>2

LEMMA CalmStep == TypeOK /\ PendingInv /\ CalmInv /\ [Next]_vars => CalmInv'
<1> SUFFICES ASSUME TypeOK, PendingInv, CalmInv, [Next]_vars, changes' = 0
             PROVE  /\ session' = "up" /\ restoring' = NotAsked
                    /\ \A e \in Events' : events'[e] # Restored
                    /\ Disconnect \notin calls'
  BY DEF CalmInv
<1>1. /\ session = "up" /\ restoring = NotAsked /\ Disconnect \notin calls
      /\ \A e \in Events : events[e] # Restored
  BY ChangesGrow DEF CalmInv
<1>2. CASE UNCHANGED <<session, restoring, events, calls>>
  BY <1>1, <1>2 DEF Events
<1>3. ASSUME NEW o \in Ops, EmitPrompt(o) \/ FinishWith(o)
      PROVE  UNCHANGED <<session, restoring, calls>> /\ \A e \in Events' : events'[e] # Restored
  <2>1. PICK m \in Event : events' = Append(events, m) /\ m.is \in {"prompt", "done"}
    BY <1>3, OpEvents
  <2>2. m # Restored
    BY <2>1, MessageFields
  <2> QED BY <1>1, <1>3, <2>1, <2>2, EventAdded DEF EmitPrompt, FinishWith, pageVars
<1>4. ASSUME NEW o \in Ops, Start(o) \/ Raise(o) \/ BodyEnds(o) \/ OpStep(o)
      PROVE  UNCHANGED <<session, restoring, calls>> /\ \A e \in Events' : events'[e] # Restored
  BY <1>1, <1>3, <1>4 DEF Start, Raise, BodyEnds, OpStep, TakeAnswer, TakeCancel, PromptReturns, Deregister,
     pageVars, Events
<1>5. CASE Stop \/ Answer
  BY <1>1, <1>5, MessageFields DEF Stop, Answer, pageVars, Events
<1>6. CASE HandleEvent
  <2>1. Head(events) # Restored /\ events # <<>> /\ events' = Tail(events)
    BY <1>1, <1>6, EventTaken DEF HandleEvent
  <2>2. Head(events).is # "restored"
    BY <2>1, EventTaken, EventIs
  <2>3. \A e \in Events' : events'[e] # Restored
    BY ZenonT(40), <1>1, <2>1, EventTaken
  <2> QED BY <1>1, <1>6, <2>2, <2>3 DEF HandleEvent, HandleRestored
<1>7. ~RestorePrompt /\ ~PendingOperationPrompt
  BY <1>1, MessageFields DEF RestorePrompt, PendingOperationPrompt
<1>8. CASE RespondToOperation \/ CancelOperation \/ Sweep
  BY <1>1, <1>8 DEF RespondToOperation, CancelOperation, Sweep, pageVars, Events
<1>9. ~DisconnectSweeps /\ ~Session
  BY <1>1, ChangesGrow DEF DisconnectSweeps, Session, RestoreConnection, FailReconnect, Reconnect, Connect
<1>10. CASE UNCHANGED vars
  BY <1>2, <1>10 DEF vars, pageVars
<1> QED BY <1>1, <1>4, <1>5, <1>6, <1>7, <1>8, <1>9, <1>10 DEF Next, Page, Backend

(* Nothing of where the prompt of an operation can be changes.              *)
LEMMA AnswersUntouched ==
  ASSUME TypeOK, NEW o \in Ops, OnePlace(o), LastAsked(o),
         UNCHANGED <<events, prompt, calls>>, pc'[o] = pc[o], asked'[o] = asked[o], answers'[o] = answers[o],
         got'[o] = got[o]
  PROVE  OnePlace(o)' /\ LastAsked(o)'
  BY DEF OnePlace, LastAsked, OnItsWay, Shown, Answered, InChannel, Events

LEMMA AnswersOps ==
  ASSUME TypeOK, PendingInv, NEW o \in Ops, OnePlace(o), LastAsked(o), NEW p \in Ops,
         Start(p) \/ Raise(p) \/ BodyEnds(p) \/ OpStep(p), o \notin canceled'
  PROVE  OnePlace(o)' /\ LastAsked(o)'
<1> USE DEF TypeOK, Goto, pageVars
<1>1. CASE p # o /\ ~EmitPrompt(p) /\ ~FinishWith(p)
  <2>1. /\ UNCHANGED <<events, prompt, calls>> /\ pc'[o] = pc[o] /\ asked'[o] = asked[o]
        /\ answers'[o] = answers[o] /\ got'[o] = got[o]
    BY <1>1 DEF Start, Raise, BodyEnds, OpStep, TakeAnswer, TakeCancel, PromptReturns, Deregister
  <2> QED BY <2>1, AnswersUntouched
<1>2. CASE p # o /\ (EmitPrompt(p) \/ FinishWith(p))
  <2>1. PICK m \in Event : events' = Append(events, m) /\ ~(m.is = "prompt" /\ m.op = o)
    BY SMTT(30), <1>2, OpEvents
  <2>2. /\ UNCHANGED <<prompt, calls>> /\ pc'[o] = pc[o] /\ asked'[o] = asked[o]
        /\ answers'[o] = answers[o] /\ got'[o] = got[o]
    BY <1>2 DEF EmitPrompt, FinishWith
  <2>3. \A e \in Events' : events'[e].is = "prompt" /\ events'[e].op = o => e \in Events /\ events'[e] = events[e]
    BY <2>1, EventAdded
  <2>4. \A e \in Events : e \in Events' /\ events'[e] = events[e]
    BY <2>1, EventAdded
  <2>5. (OnItsWay(o)' => OnItsWay(o)) /\ Shown(o)' = Shown(o) /\ Answered(o)' = Answered(o)
        /\ InChannel(o)' = InChannel(o)
    BY <2>2, <2>3 DEF OnItsWay, Shown, Answered, InChannel
  <2>6. OnePlace(o)'
    <3>1. \A e, f \in Events' :
            events'[e].is = "prompt" /\ events'[e].op = o /\ events'[f].is = "prompt" /\ events'[f].op = o => e = f
      BY ZenonT(40), <2>3 DEF OnePlace
    <3>2. (Shown(o)' <=> Shown(o)) /\ (Answered(o)' <=> Answered(o)) /\ (InChannel(o)' <=> InChannel(o))
      BY <2>5
    <3> QED BY <2>2, <2>5, <3>1, <3>2 DEF OnePlace
  <2>7. LastAsked(o)'
    BY <2>2, <2>3, <2>5 DEF LastAsked
  <2> QED BY <2>6, <2>7
<1>3. CASE Start(o) \/ Raise(o) \/ BodyEnds(o) \/ PromptReturns(o) \/ Deregister(o)
  <2>1. /\ UNCHANGED <<events, prompt, calls>> /\ answers'[o] = answers[o]
        /\ pc[o] # "waiting" /\ pc'[o] # "answered"
    BY <1>3 DEF Start, Raise, BodyEnds, PromptReturns, Deregister
  <2> QED BY <2>1 DEF OnePlace, LastAsked, OnItsWay, Shown, Answered, InChannel, Events
<1>4. CASE EmitPrompt(o)
  <2>1. PICK m \in Event : events' = Append(events, m) /\ m.is = "prompt" /\ m.op = o /\ m.n = asked[o]
    BY <1>4, OpEvents
  <2>2. /\ UNCHANGED <<prompt, calls, asked, answers>> /\ pc[o] = "raised" /\ pc'[o] = "waiting"
    BY <1>4 DEF EmitPrompt
  <2>3. ~OnItsWay(o) /\ ~Shown(o) /\ ~Answered(o) /\ ~InChannel(o)
    BY <2>2 DEF OnePlace
  <2>4. \A e \in Events' : events'[e].is = "prompt" /\ events'[e].op = o => e = Len(events) + 1 /\ events'[e] = m
    BY ZenonT(40), <2>1, <2>3, EventAdded DEF OnItsWay
  <2>5. ~Shown(o)' /\ ~Answered(o)' /\ ~InChannel(o)'
    BY <2>2, <2>3 DEF Shown, Answered, InChannel
  <2> QED BY ZenonT(40), <2>1, <2>2, <2>4, <2>5 DEF OnePlace, LastAsked, Shown, Answered, InChannel
<1>5. CASE TakeAnswer(o)
  <2>1. /\ UNCHANGED <<events, prompt, calls, asked>> /\ InChannel(o) /\ answers'[o] = 0
        /\ got'[o] = answers[o]
    BY <1>5 DEF TakeAnswer, InChannel
  <2>2. ~OnItsWay(o) /\ ~Shown(o) /\ ~Answered(o)
    BY <2>1 DEF OnePlace
  <2> QED BY <2>1, <2>2 DEF OnePlace, LastAsked, OnItsWay, Shown, Answered, InChannel, Events
<1>6. CASE TakeCancel(o) \/ FinishWith(o)
  BY <1>6 DEF TakeCancel, FinishWith
<1> QED BY <1>1, <1>2, <1>3, <1>4, <1>5, <1>6 DEF OpStep

LEMMA AnswersAnswer ==
  ASSUME TypeOK, NEW o \in Ops, OnePlace(o), LastAsked(o), Answer
  PROVE  OnePlace(o)' /\ LastAsked(o)'
<1>1. /\ prompt \in Prompt /\ calls' = calls \cup {Respond(prompt)} /\ prompt' = NoPrompt
      /\ UNCHANGED <<events, pc, asked, answers, got>>
  BY DEF Answer, TypeOK, opVars
<1>2. ~Shown(o)'
  BY <1>1, BoundsType DEF Shown, NoPrompt
<1>3. \A p \in Prompt : Respond(p) \in calls' => Respond(p) \in calls \/ p = prompt
  BY <1>1, RespondIs
<1>4. Answered(o)' => Answered(o) \/ Shown(o)
  BY <1>3 DEF Answered, Shown
<1> QED BY <1>1, <1>2, <1>3, <1>4 DEF OnePlace, LastAsked, OnItsWay, InChannel, Shown, Events

LEMMA AnswersHandle ==
  ASSUME TypeOK, NEW o \in Ops, OnePlace(o), LastAsked(o), HandleEvent
  PROVE  OnePlace(o)' /\ LastAsked(o)'
<1>1. /\ events # <<>> /\ events' = Tail(events)
      /\ UNCHANGED <<pc, asked, answers, got, calls>>
  BY DEF HandleEvent, opVars
<1>2. 1 \in Events /\ Head(events) = events[1] /\ events[1] \in Event
  BY <1>1, EventTaken
<1>3. \A e \in Events' : e + 1 \in Events /\ e + 1 # 1 /\ events'[e] = events[e + 1]
  BY <1>1, EventTaken
<1>4. OnItsWay(o)' => OnItsWay(o)
  BY <1>3 DEF OnItsWay
<1>5. \A e, f \in Events' :
        events'[e].is = "prompt" /\ events'[e].op = o /\ events'[f].is = "prompt" /\ events'[f].op = o => e = f
  <2>1. \A e, f \in Events' : e + 1 = f + 1 => e = f
    BY DEF Events
  <2> QED BY <1>3, <2>1 DEF OnePlace
<1>6. \A e \in Events' : events'[e].is = "prompt" /\ events'[e].op = o => events'[e].n = asked[o]
  BY <1>3 DEF LastAsked
<1>7. CASE events[1].is = "prompt" /\ events[1].op = o
  <2>1. prompt' = PromptOf(events[1]) /\ PromptOf(events[1]).op = o /\ PromptOf(events[1]).n = events[1].n
    BY <1>2, <1>7, EventIs DEF HandleEvent, HandleRestored
  <2>2. OnItsWay(o) /\ events[1].n = asked[o]
    BY <1>2, <1>7 DEF OnItsWay, LastAsked
  <2>3. ~OnItsWay(o)'
    BY <1>2, <1>3, <1>7 DEF OnItsWay, OnePlace
  <2> QED BY <1>1, <1>5, <1>6, <2>1, <2>2, <2>3 DEF OnePlace, LastAsked, Shown, Answered, InChannel
<1>8. CASE ~(events[1].is = "prompt" /\ events[1].op = o)
  <2>1. prompt' = prompt \/ ~Shown(o)'
    <3>1. NoPrompt.op # o
      BY BoundsType DEF NoPrompt
    <3>2. events[1].is = "prompt" => PromptOf(events[1]).op = events[1].op
      BY <1>2, EventIs
    <3> QED BY <1>2, <1>8, <3>1, <3>2 DEF HandleEvent, HandleRestored, Shown
  <2> QED BY <1>1, <1>4, <1>5, <1>6, <2>1 DEF OnePlace, LastAsked, Shown, Answered, InChannel
<1> QED BY <1>7, <1>8

LEMMA AnswersRespond ==
  ASSUME TypeOK, NEW o \in Ops, OnePlace(o), LastAsked(o), RespondToOperation
  PROVE  OnePlace(o)' /\ LastAsked(o)'
<1>1. PICK p \in Prompt :
        /\ Respond(p) \in calls /\ calls' = calls \ {Respond(p)}
        /\ answers' = [answers EXCEPT ![p.op] = IF p.op \in registered /\ @ = 0 THEN p.n ELSE @]
        /\ UNCHANGED <<events, prompt, pc, asked, got>>
  BY DEF RespondToOperation, pageVars
<1>2. p.op \in Ops /\ p.n # 0
  BY PromptIs, BoundsType
<1>3. CASE p.op # o
  <2>1. answers'[o] = answers[o]
    BY <1>1, <1>2, <1>3 DEF TypeOK
  <2>2. \A q \in Prompt : q.op = o => (Respond(q) \in calls' <=> Respond(q) \in calls)
    BY <1>1, <1>3, RespondIs
  <2> QED BY <1>1, <2>1, <2>2 DEF OnePlace, LastAsked, OnItsWay, Shown, Answered, InChannel, Events
<1>4. CASE p.op = o
  <2>1. Answered(o)
    BY <1>1, <1>4 DEF Answered
  <2>2. pc[o] = "waiting" /\ o \in registered /\ answers[o] = 0 /\ ~OnItsWay(o) /\ ~Shown(o) /\ p.n = asked[o]
    BY <1>1, <1>4, <2>1 DEF OnePlace, LastAsked, InChannel, TypeOK
  <2>3. answers'[o] = p.n
    BY <1>1, <1>4, <2>2 DEF TypeOK
  <2>4. ~Answered(o)'
    <3>1. ASSUME NEW q \in Prompt, q.op = o, Respond(q) \in calls' PROVE FALSE
      <4>1. q.n = asked[o]
        BY <1>1, <3>1 DEF LastAsked
      <4>2. q = p
        BY <1>4, <2>2, <3>1, <4>1, PromptIs
      <4> QED BY <1>1, <3>1, <4>2
    <3> QED BY <3>1 DEF Answered
  <2> QED BY <1>1, <2>2, <2>3, <2>4 DEF OnePlace, LastAsked, OnItsWay, Shown, Answered, InChannel, Events
<1> QED BY <1>3, <1>4

LEMMA AnswersStep ==
  TypeOK /\ PendingInv /\ CalmInv /\ AnswersInv /\ [Next]_vars => AnswersInv'
<1> SUFFICES ASSUME TypeOK, PendingInv, CalmInv, AnswersInv, [Next]_vars, changes' = 0,
                    NEW o \in Ops, o \notin canceled'
             PROVE  OnePlace(o)' /\ LastAsked(o)'
  BY DEF AnswersInv
<1>1. changes = 0 /\ ~LoseConnection /\ ~ClickDisconnect
  BY ChangesGrow
<1>2. session = "up" /\ restoring = NotAsked /\ Disconnect \notin calls
  BY <1>1 DEF CalmInv
<1>3. canceled \subseteq canceled'
  BY DEF Next, Start, Raise, BodyEnds, OpStep, EmitPrompt, TakeAnswer, TakeCancel, PromptReturns, Deregister,
     FinishWith, Page, Stop, Answer, HandleEvent, RestorePrompt, Backend, PendingOperationPrompt,
     RespondToOperation, CancelOperation, Sweep, DisconnectSweeps, CancelWaiting, Session, LoseConnection,
     RestoreConnection, FailReconnect, Reconnect, ClickDisconnect, Connect, vars, opVars
<1>4. OnePlace(o) /\ LastAsked(o)
  BY <1>1, <1>3 DEF AnswersInv
<1>5. CASE \E p \in Ops : Start(p) \/ Raise(p) \/ BodyEnds(p) \/ OpStep(p)
  BY <1>4, <1>5, AnswersOps
<1>6. CASE Stop \/ CancelOperation
  <2>1. UNCHANGED <<events, prompt, pc, asked, answers, got>>
    BY <1>6 DEF Stop, CancelOperation, opVars, pageVars
  <2>2. \A p \in Prompt : Respond(p) \in calls' <=> Respond(p) \in calls
    BY <1>6, MessageFields DEF Stop, CancelOperation
  <2> QED BY <1>4, <2>1, <2>2 DEF OnePlace, LastAsked, OnItsWay, Shown, Answered, InChannel, Events
<1>7. CASE Sweep \/ UNCHANGED vars
  BY <1>4, <1>7, AnswersUntouched DEF Sweep, vars, opVars, pageVars
<1>8. ~RestorePrompt /\ ~PendingOperationPrompt /\ ~DisconnectSweeps
  BY <1>2, MessageFields DEF RestorePrompt, PendingOperationPrompt, DisconnectSweeps
<1>9. ~Session
  BY <1>1, <1>2 DEF Session, RestoreConnection, FailReconnect, Reconnect, Connect
<1> QED BY <1>4, <1>5, <1>6, <1>7, <1>8, <1>9, AnswersAnswer, AnswersHandle, AnswersRespond DEF Next, Page, Backend

LEMMA AnswersInit == Init => CalmInv /\ AnswersInv
<1> SUFFICES ASSUME Init PROVE CalmInv /\ AnswersInv
  OBVIOUS
<1>1. Events = {}
  BY DEF Init, Events
<1>2. CalmInv
  BY <1>1 DEF Init, CalmInv
<1>3. \A o \in Ops : o # None
  BY BoundsType
<1> QED BY <1>1, <1>2, <1>3 DEF Init, AnswersInv, OnePlace, LastAsked, OnItsWay, Shown, Answered, InChannel, NoPrompt

(* An operation that nobody stopped, on a connection that was never lost,   *)
(* gets to each of its prompts what the user answered to that prompt        *)
(* (Prompt, respond).                                                       *)
THEOREM AnswersReachTheirPrompts == Spec => []AnswersMatch
<1>1. AnswersInv => AnswersMatch
  BY DEF AnswersInv, AnswersMatch, LastAsked
<1> QED BY <1>1, InitType, InitPending, AnswersInit, TypeStep, PendingStep, CalmStep, AnswersStep, PTL DEF Spec

-----------------------------------------------------------------------------
(* Nobody waits unseen                                                      *)

OneOperation == \A o, p \in Ops : o = p

(* A step that leaves the waiting operation, and what covers it, alone.     *)
LEMMA CoverKept ==
  ASSUME NEW o \in Ops, Covered(o), UNCHANGED <<session, sweeping, events, restoring, prompt>>,
         Disconnect \in calls => Disconnect \in calls', Answered(o) => Answered(o)'
  PROVE  Covered(o)'
  BY DEF Covered, LastLost, Events, Shown

(* A new event covers the operation if it is its prompt or a restored       *)
(* connection, and uncovers none if it is not a lost one.                   *)
LEMMA CoverAdded ==
  ASSUME TypeOK, NEW o \in Ops, NEW m \in Event, events' = Append(events, m), m # Lost,
         \/ m = Restored \/ (m.is = "prompt" /\ m.op = o)
         \/ Covered(o) /\ UNCHANGED <<session, sweeping, restoring, prompt, calls>>
  PROVE  Covered(o)'
<1>1. /\ Events' = Events \cup {Len(events) + 1} /\ events'[Len(events) + 1] = m
      /\ \A e \in Events : events'[e] = events[e] /\ e < Len(events) + 1
  BY EventAdded
<1>2. Events \subseteq Nat /\ Len(events) \in Nat
  BY DEF Events, TypeOK
<1>3. CASE m = Restored \/ (m.is = "prompt" /\ m.op = o)
  <2>1. PICK last \in Events' : last = Len(events) + 1 /\ events'[last] = m
    BY <1>1
  <2>2. \A f \in Events' : f <= last
    BY <1>1, <1>2, <2>1
  <2>3. LastLost(last)'
    BY <1>1, <1>2, <2>1, <2>2 DEF LastLost
  <2> QED BY <1>3, <2>1, <2>3 DEF Covered
<1>4. CASE Covered(o) /\ UNCHANGED <<session, sweeping, restoring, prompt, calls>>
  <2>1. \A e \in Events : LastLost(e) => LastLost(e)'
    BY <1>1 DEF LastLost
  <2>2. Shown(o)' = Shown(o) /\ Answered(o)' = Answered(o)
    BY <1>4 DEF Shown, Answered
  <2> QED BY <1>1, <1>4, <2>1, <2>2 DEF Covered
<1> QED BY <1>3, <1>4

LEMMA CoverHandle ==
  ASSUME OneOperation, TypeOK, NEW o \in Ops, Covered(o), HandleEvent
  PROVE  Covered(o)'
<1>1. /\ events # <<>> /\ events' = Tail(events)
      /\ UNCHANGED <<session, sweeping, calls>>
  BY DEF HandleEvent
<1>2. 1 \in Events /\ Head(events) = events[1] /\ events[1] \in Event
  BY <1>1, EventTaken
<1>3. \A e \in Events' : e + 1 \in Events /\ events'[e] = events[e + 1]
  BY <1>1, EventTaken
<1>4. \A e \in Events : e = 1 \/ (e - 1 \in Events' /\ events'[e - 1] = events[e])
  BY <1>1, EventTaken
<1>5. CASE session = "lost" \/ (session = "failed" /\ sweeping)
  BY <1>1, <1>5 DEF Covered
<1>6. ASSUME NEW e \in Events, LastLost(e), e # 1, events[e] = Restored \/ (events[e].is = "prompt" /\ events[e].op = o)
      PROVE  Covered(o)'
  <2>1. LastLost(e - 1)'
    BY <1>3, <1>6 DEF LastLost, Events
  <2> QED BY <1>4, <1>6, <2>1 DEF Covered
<1>7. ASSUME \A e \in Events' : events'[e] # Lost,
             \/ Disconnect \in calls' \/ restoring' = Asked
             \/ restoring'.is = "found" /\ restoring'.op = o
             \/ Shown(o)' \/ Answered(o)'
      PROVE  Covered(o)'
  BY <1>7 DEF Covered
<1>8. CASE LastLost(1) /\ events[1] = Restored
  <2>1. \A e \in Events' : events'[e] # Lost
    BY <1>3, <1>8 DEF LastLost, Events
  <2>2. restoring' = Asked
    BY <1>2, <1>8, MessageFields DEF HandleEvent, HandleRestored
  <2> QED BY <1>7, <2>1, <2>2
<1>9. CASE LastLost(1) /\ events[1].is = "prompt" /\ events[1].op = o
  <2>1. \A e \in Events' : events'[e] # Lost
    BY <1>3, <1>9 DEF LastLost, Events
  <2>2. Shown(o)'
    BY <1>2, <1>9, EventIs DEF HandleEvent, HandleRestored, Shown
  <2> QED BY <1>7, <2>1, <2>2
<1>10. CASE /\ \A e \in Events : events[e] # Lost
            /\ \/ Disconnect \in calls \/ restoring = Asked
               \/ restoring.is = "found" /\ restoring.op = o
               \/ Shown(o) \/ Answered(o)
  <2>1. \A e \in Events' : events'[e] # Lost
    BY <1>3, <1>10
  <2>2. events[1].is # "lost"
    BY <1>2, <1>10, EventIs
  <2>3. CASE events[1].is = "restored"
    BY <1>2, <1>7, <2>1, <2>3 DEF HandleEvent, HandleRestored
  <2>4. CASE events[1].is = "prompt"
    <3>1. PromptOf(events[1]).op \in Ops
      BY <1>2, <2>4, EventIs, PromptIs
    <3>2. Shown(o)'
      BY <1>2, <2>4, <3>1 DEF HandleEvent, HandleRestored, Shown, OneOperation
    <3> QED BY <1>7, <2>1, <3>2
  <2>5. CASE events[1].is = "done"
    <3>1. UNCHANGED <<prompt, restoring>>
      BY <1>2, <2>5 DEF HandleEvent, HandleRestored
    <3>2. Shown(o)' = Shown(o) /\ Answered(o)' = Answered(o)
      BY <1>1, <3>1 DEF Shown, Answered
    <3> QED BY <1>1, <1>7, <1>10, <2>1, <3>1, <3>2
  <2> QED BY <1>2, <2>2, <2>3, <2>4, <2>5, EventIs
<1> QED BY <1>5, <1>6, <1>8, <1>9, <1>10 DEF Covered

(* A step of an operation: it begins to wait with its prompt on its way.    *)
LEMMA SeenOps ==
  ASSUME TypeOK, PendingInv, SeenInv, NEW o \in Ops, NEW p \in Ops,
         Start(p) \/ Raise(p) \/ BodyEnds(p) \/ OpStep(p), Waiting(o)'
  PROVE  Covered(o)'
<1> USE DEF TypeOK, Goto, pageVars
<1>1. CASE EmitPrompt(o)
  <2>1. PICK m \in Event : events' = Append(events, m) /\ m.is = "prompt" /\ m.op = o
    BY <1>1, OpEvents
  <2>2. m # Lost
    BY <2>1, MessageFields
  <2> QED BY <2>1, <2>2, CoverAdded
<1>2. CASE ~EmitPrompt(o)
  <2>1. Waiting(o)
    BY <1>2 DEF Waiting, Start, Raise, BodyEnds, OpStep, EmitPrompt, TakeAnswer, TakeCancel, PromptReturns,
                Deregister, FinishWith
  <2>2. Covered(o)
    BY <2>1 DEF SeenInv
  <2>3. CASE EmitPrompt(p) \/ FinishWith(p)
    <3>1. PICK m \in Event : events' = Append(events, m) /\ m.is \in {"prompt", "done"}
      BY <2>3, OpEvents
    <3>2. m # Lost
      BY <3>1, MessageFields
    <3>3. UNCHANGED <<session, sweeping, restoring, prompt, calls>>
      BY <2>3 DEF EmitPrompt, FinishWith
    <3> QED BY <2>2, <3>1, <3>2, <3>3, CoverAdded
  <2>4. CASE ~EmitPrompt(p) /\ ~FinishWith(p)
    <3>1. UNCHANGED <<session, sweeping, events, restoring, prompt, calls>>
      BY <2>4 DEF Start, Raise, BodyEnds, OpStep, TakeAnswer, TakeCancel, PromptReturns, Deregister
    <3>2. Answered(o)' <=> Answered(o)
      BY <3>1 DEF Answered
    <3> QED BY <2>2, <3>1, <3>2, CoverKept
  <2> QED BY <2>3, <2>4
<1> QED BY <1>1, <1>2

(* Any other step leaves alone whether an operation waits, or ends that.    *)
LEMMA WaitingElsewhere ==
  ASSUME TypeOK, NEW o \in Ops, Page \/ Backend \/ Session, Waiting(o)'
  PROVE  Waiting(o) /\ o \in registered /\ o \notin canceled'
<1>1. canceled \subseteq canceled' /\ UNCHANGED pc /\ o \notin canceled' /\ answers'[o] = 0 /\ pc'[o] = "waiting"
  BY DEF Waiting, Page, Stop, Answer, HandleEvent, RestorePrompt, Backend, PendingOperationPrompt,
     RespondToOperation, CancelOperation, Sweep, DisconnectSweeps, CancelWaiting, Session, LoseConnection,
     RestoreConnection, FailReconnect, Reconnect, ClickDisconnect, Connect, opVars
<1>2. answers[o] = 0
  <2>1. CASE RespondToOperation
    BY <1>1, <2>1, PromptIs DEF RespondToOperation, TypeOK
  <2>2. CASE ~RespondToOperation
    BY <1>1, <2>2 DEF Page, Stop, Answer, HandleEvent, RestorePrompt, Backend, PendingOperationPrompt,
     CancelOperation, Sweep, DisconnectSweeps, Session, LoseConnection, RestoreConnection, FailReconnect,
     Reconnect, ClickDisconnect, Connect, opVars
  <2> QED BY <2>1, <2>2
<1> QED BY <1>1, <1>2 DEF Waiting, TypeOK

LEMMA SeenPage ==
  ASSUME OneOperation, TypeOK, NEW o \in Ops, Covered(o), Page
  PROVE  Covered(o)'
<1>1. CASE Stop
  <2>1. Answered(o) => Answered(o)'
    BY <1>1 DEF Stop, Answered
  <2> QED BY <1>1, <2>1, CoverKept DEF Stop, pageVars
<1>2. CASE Answer
  <2>1. prompt \in Prompt /\ calls' = calls \cup {Respond(prompt)}
    BY <1>2 DEF Answer, TypeOK
  <2>2. Answered(o)'
    BY <2>1, PromptIs DEF Answered, OneOperation
  <2> QED BY <1>2, <2>2 DEF Answer, Covered, LastLost, Events
<1>3. CASE HandleEvent
  BY <1>3, CoverHandle
<1>4. CASE RestorePrompt
  <2>1. restoring.op # None => restoring.op \in Ops
    <3>1. PICK p \in Prompt \cup {NoPrompt} : restoring = Found(p)
      BY <1>4, MessageFields DEF RestorePrompt, TypeOK
    <3> QED BY <3>1, MessageFields, PromptIs DEF NoPrompt
  <2>2. Shown(o) \/ (restoring.is = "found" /\ restoring.op = o) => Shown(o)'
    <3>1. restoring.op # None => PromptOf(restoring).op = restoring.op
      BY DEF PromptOf
    <3> QED BY <1>4, <2>1, <3>1, BoundsType DEF RestorePrompt, Shown, OneOperation
  <2>3. restoring # Asked
    BY <1>4, MessageFields DEF RestorePrompt
  <2>4. Answered(o)' <=> Answered(o)
    BY <1>4 DEF RestorePrompt, Answered
  <2> QED BY <1>4, <2>2, <2>3, <2>4 DEF RestorePrompt, Covered, LastLost, Events
<1> QED BY <1>1, <1>2, <1>3, <1>4 DEF Page

LEMMA SeenBackend ==
  ASSUME OneOperation, TypeOK, PendingInv, NEW o \in Ops, Waiting(o), o \in registered, o \notin canceled',
         Waiting(o)', Covered(o), Backend
  PROVE  Covered(o)'
<1>0. pending[o] # 0
  BY DEF Waiting, PendingInv
<1>1. CASE PendingOperationPrompt
  <2>1. PICK p \in registered : pending[p] # 0 /\ restoring' = Found([op |-> p, n |-> pending[p]])
    BY <1>0, <1>1 DEF PendingOperationPrompt
  <2>2. restoring'.is = "found" /\ restoring'.op = o
    <3>1. p = o
      BY DEF OneOperation, TypeOK
    <3> QED BY <2>1, <3>1, MessageFields
  <2>3. (Answered(o)' <=> Answered(o)) /\ (Shown(o)' <=> Shown(o))
    BY <1>1 DEF PendingOperationPrompt, Answered, Shown
  <2> QED BY <1>1, <2>2, <2>3 DEF PendingOperationPrompt, Covered, LastLost, Events
<1>2. CASE RespondToOperation
  <2>1. FALSE
    <3>1. PICK p \in Prompt : answers' = [answers EXCEPT ![p.op] = IF p.op \in registered /\ @ = 0 THEN p.n ELSE @]
      BY <1>2 DEF RespondToOperation
    <3>2. p.op = o /\ p.n # 0
      BY PromptIs, BoundsType DEF OneOperation
    <3>3. answers'[o] # 0
      BY <3>1, <3>2 DEF TypeOK
    <3> QED BY <3>3 DEF Waiting
  <2> QED BY <2>1
<1>3. CASE CancelOperation
  <2>1. (Answered(o) => Answered(o)') /\ (Disconnect \in calls => Disconnect \in calls')
    BY <1>3, MessageFields DEF CancelOperation, Answered
  <2> QED BY <1>3, <2>1, CoverKept DEF CancelOperation, pageVars
<1>4. CASE Sweep
  <2>1. ~CancelWaiting
    BY <1>0 DEF CancelWaiting
  <2>2. session \in {"up", "off"}
    BY <1>4, <2>1 DEF Sweep
  <2>3. (Answered(o)' <=> Answered(o)) /\ (Shown(o)' <=> Shown(o))
    BY <1>4 DEF Sweep, Answered, Shown, pageVars
  <2> QED BY <1>4, <2>2, <2>3 DEF Sweep, Covered, LastLost, Events, pageVars
<1>5. ~DisconnectSweeps
  BY <1>0 DEF DisconnectSweeps, CancelWaiting
<1> QED BY <1>1, <1>2, <1>3, <1>4, <1>5 DEF Backend

LEMMA SeenSession ==
  ASSUME TypeOK, NEW o \in Ops, Covered(o), Session
  PROVE  Covered(o)'
<1>1. CASE LoseConnection
  BY <1>1 DEF LoseConnection, Covered
<1>2. CASE RestoreConnection
  <2>1. events' = Append(events, Restored) /\ Restored # Lost
    BY <1>2, MessageFields DEF RestoreConnection
  <2> QED BY <2>1, MessageIs, CoverAdded
<1>3. CASE FailReconnect
  BY <1>3 DEF FailReconnect, Covered
<1>4. CASE Reconnect
  <2>1. Events' = {}
    BY <1>4 DEF Reconnect, Events
  <2> QED BY <1>4, <2>1 DEF Reconnect, Covered
<1>5. CASE ClickDisconnect
  <2>1. Disconnect \in calls'
    BY <1>5 DEF ClickDisconnect
  <2> QED BY <1>5, <2>1 DEF ClickDisconnect, Covered, LastLost, Events
<1>6. CASE Connect
  <2>1. (Answered(o)' <=> Answered(o)) /\ (Shown(o)' <=> Shown(o))
    BY <1>6 DEF Connect, Answered, Shown, pageVars
  <2> QED BY <1>6, <2>1 DEF Connect, Covered, LastLost, Events, pageVars
<1> QED BY <1>1, <1>2, <1>3, <1>4, <1>5, <1>6 DEF Session

LEMMA SeenStep ==
  ASSUME OneOperation
  PROVE  TypeOK /\ PendingInv /\ SeenInv /\ [Next]_vars => SeenInv'
<1> SUFFICES ASSUME TypeOK, PendingInv, SeenInv, [Next]_vars, NEW o \in Ops, Waiting(o)' PROVE Covered(o)'
  BY DEF SeenInv
<1>1. CASE \E p \in Ops : Start(p) \/ Raise(p) \/ BodyEnds(p) \/ OpStep(p)
  BY <1>1, SeenOps
<1>2. CASE Page \/ Backend \/ Session
  <2>1. Waiting(o) /\ o \in registered /\ o \notin canceled'
    BY <1>2, WaitingElsewhere
  <2>2. Covered(o)
    BY <2>1 DEF SeenInv
  <2> QED BY <1>2, <2>1, <2>2, SeenPage, SeenBackend, SeenSession
<1>3. CASE UNCHANGED vars
  <2>1. Waiting(o) /\ (Answered(o)' <=> Answered(o))
    BY <1>3 DEF Waiting, Answered, vars, opVars
  <2> QED BY <1>3, <2>1, CoverKept DEF SeenInv, vars, pageVars
<1> QED BY <1>1, <1>2, <1>3 DEF Next

(* However the connection is lost, comes back, fails or is dropped: when    *)
(* everything under way has arrived, the operation that still waits for the *)
(* user has its dialog on the page, unless the reconnection is not over.    *)
(* For one operation: the page shows one dialog, so of two that wait at     *)
(* once one is unseen (PendingOperationPrompt,                              *)
(* cancelOperationsWaitingOnPrompts).                                       *)
THEOREM NobodyIsUnseen == ASSUME OneOperation PROVE Spec => []NobodyWaitsUnseen
<1>1. Init => SeenInv
  BY DEF Init, SeenInv, Waiting
<1>2. TypeOK /\ SeenInv => NobodyWaitsUnseen
  <2> SUFFICES ASSUME TypeOK, SeenInv, Arrived, session # "lost", NEW o \in Ops, Waiting(o) PROVE prompt.op = o
    BY DEF NobodyWaitsUnseen
  <2>1. Covered(o)
    BY DEF SeenInv
  <2>2. Events = {} /\ calls = {} /\ restoring = NotAsked /\ ~sweeping
    BY DEF Arrived, Events
  <2>3. restoring # Asked /\ restoring.is # "found"
    BY <2>2, MessageFields
  <2> QED BY <2>1, <2>2, <2>3 DEF Covered, Answered, Shown
<1> QED BY <1>1, <1>2, InitType, InitPending, TypeStep, PendingStep, SeenStep, PTL DEF Spec
=============================================================================
