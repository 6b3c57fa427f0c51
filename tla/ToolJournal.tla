---------------------------- MODULE ToolJournal ----------------------------
(***************************************************************************)
(* The tool-execution journal of one turn: the Workflow that calls tools   *)
(* one after another, the ExecuteTool Activity that Temporal may run more  *)
(* than once (a worker that lost its heartbeat keeps running beside its    *)
(* replacement), the journal rows in PostgreSQL and the transaction that   *)
(* completes the turn.  Sources: internal/pg/journal.go,                   *)
(* internal/temporal/activities.go (ExecuteTool),                          *)
(* internal/temporal/agent_workflow_tools.go and interrupt_workflow.go.    *)
(***************************************************************************)
EXTENDS Naturals, FiniteSets

CONSTANTS
    NSteps,       \* tool calls the model makes in this turn
    Kind,         \* Kind[k]: who executes call k
    Workers,      \* slots in which an execution of the Activity can run
    MaxLost,      \* bound: executions Temporal gives up on (crash or timeout)
    Interrupts,   \* BOOLEAN: the user may interrupt the turn
    None          \* no worker

Steps == 1 .. NSteps

Kinds == {"builtin", "mcp", "skill", "advisor", "coordinator"}

ASSUME ToolJournalAssumption ==
    /\ NSteps \in Nat
    /\ Kind \in [Steps -> Kinds]
    /\ MaxLost \in Nat
    /\ Interrupts \in BOOLEAN
    /\ None \notin Workers

\* domain.ToolStepState, and the row not inserted yet
StepStates == {"absent", "prepared", "started", "completed", "ambiguous"}

\* What a journal row can hold as its result.  "stopped" is the synthetic
\* "Advisor execution was interrupted" result.
Results == {"none", "value", "error", "stopped"}

\* What one Activity execution reports.
Replies == Results \cup {"ambiguous", "fatal", "failure"}

\* what the Workflow asks of the completion for its attempt
Verdicts == {"completed", "failed"}

AttemptStates == {"none", "active", "completed", "failed", "interrupted"}

VARIABLES
    attempt,    \* turn_attempts row of the turn
    state,      \* tool_steps.state
    result,     \* tool_steps.result
    effects,    \* how often the outside world was touched for the step
    pc,         \* where each Activity execution is
    seen,       \* the step state that EnsureToolStep returned to it
    reply,      \* the result it holds, later its reply to Temporal
    task,       \* the scheduled Activity: none, scheduled, running
    cur,        \* the execution whose reply Temporal will accept
    lost,       \* executions given up on so far
    wf,         \* the Workflow: tool loop, waiting for the Activity, commit
    step,       \* t.ordinal + 1: the call being made
    named,      \* t.attemptID is set
    preflight,  \* w.preflightDone
    cancel,     \* the Workflow has asked for cancellation
    verdict,    \* the attempt state CompleteWorkflowTurn will ask for
    told,       \* the result the Workflow took for each call
    interrupt,  \* an unprocessed user.interrupt after the trigger
    wakeup      \* a wakeup Signal not received yet

journal == <<attempt, state, result>>
worker  == <<pc, seen, reply>>
temporal == <<task, cur, lost>>
workflow == <<wf, step, named, preflight, cancel, verdict, told>>
client  == <<interrupt, wakeup>>
vars == <<journal, effects, worker, temporal, workflow, client>>

-----------------------------------------------------------------------------
Init ==
    /\ attempt = "none"
    /\ state = [k \in Steps |-> "absent"]
    /\ result = [k \in Steps |-> "none"]
    /\ effects = [k \in Steps |-> 0]
    /\ pc = [w \in Workers |-> "free"]
    /\ seen = [w \in Workers |-> [step |-> 0, state |-> "absent"]]
    /\ reply = [w \in Workers |-> "none"]
    /\ task = "none" /\ cur = None /\ lost = 0
    /\ wf = "loop" /\ step = 1 /\ named = FALSE
    \* a turn that resumes a confirmed tool makes its first call without a
    \* model request, and so without a preflight, before it
    /\ preflight \in BOOLEAN
    /\ cancel = FALSE /\ verdict = "completed"
    /\ told = [k \in Steps |-> "none"]
    /\ interrupt = FALSE /\ wakeup = FALSE

-----------------------------------------------------------------------------
(* The client and the Workflow                                             *)

\* AdmitEvents commits a user.interrupt; its wakeup Signal follows.
AdmitInterrupt ==
    /\ Interrupts /\ ~interrupt /\ wf # "done"
    /\ interrupt' = TRUE /\ wakeup' = TRUE
    /\ UNCHANGED <<journal, effects, worker, temporal, workflow>>

\* executeTool up to the call of the Activity: the attempt id is noted first,
\* then the preflight may find an interrupt and no Activity is scheduled.
CallTool ==
    /\ wf = "loop" /\ step \in Steps
    /\ named' = TRUE
    /\ preflight' = TRUE
    /\ IF ~preflight /\ interrupt
         THEN wf' = "commit" /\ UNCHANGED task
         ELSE wf' = "wait" /\ task' = "scheduled"
    /\ UNCHANGED <<journal, effects, worker, cur, lost, step, cancel, verdict,
                   told, client>>

\* The model ends the turn, or a model request fails it, or is interrupted.
EndTurn(v) ==
    /\ wf = "loop" /\ preflight
    /\ wf' = "commit" /\ verdict' = v
    /\ UNCHANGED <<journal, effects, worker, temporal, step, named, preflight,
                   cancel, told, client>>

\* The selector of executeActivityWithPulseOn receives the Signal and reads
\* the ledger; a scheduled Activity that no worker holds is cancelled at once.
ObserveInterrupt ==
    /\ wf = "wait" /\ wakeup /\ ~cancel
    /\ wakeup' = FALSE
    /\ IF ~interrupt
         THEN UNCHANGED <<wf, cancel, task>>
         ELSE /\ cancel' = TRUE
              /\ IF task = "scheduled"
                   THEN task' = "none" /\ wf' = "commit"
                   ELSE UNCHANGED <<task, wf>>
    /\ UNCHANGED <<journal, effects, worker, cur, lost, step, named, preflight,
                   verdict, told, interrupt>>

\* The Workflow takes the reply of the Activity: executeToolBatch.
TakeReply(r) ==
    /\ task' = "none" /\ cur' = None
    /\ told' = [told EXCEPT ![step] = IF r \in Results THEN r ELSE "none"]
    /\ IF cancel
         THEN wf' = "commit" /\ UNCHANGED <<step, verdict>>
         ELSE IF r \in Results
         THEN wf' = "loop" /\ step' = step + 1 /\ UNCHANGED verdict
         ELSE wf' = "commit" /\ verdict' = "failed" /\ UNCHANGED step

\* The Activity failed: Temporal schedules it again, unless the Workflow has
\* asked for cancellation, when the failure ends it.
Reschedule ==
    /\ cur' = None
    /\ IF cancel THEN task' = "none" /\ wf' = "commit"
                 ELSE task' = "scheduled" /\ UNCHANGED wf

-----------------------------------------------------------------------------
(* Temporal and the workers                                                *)

Dispatch(w) ==
    /\ task = "scheduled" /\ pc[w] = "free"
    /\ task' = "running" /\ cur' = w
    /\ pc' = [pc EXCEPT ![w] = "attempt"]
    /\ seen' = [seen EXCEPT ![w] = [step |-> step, state |-> "absent"]]
    /\ reply' = [reply EXCEPT ![w] = "none"]
    /\ UNCHANGED <<journal, effects, lost, workflow, client>>

\* The heartbeat stops reaching Temporal while the execution carries on.
LoseHeartbeat ==
    /\ task = "running" /\ lost < MaxLost
    /\ lost' = lost + 1
    /\ Reschedule
    /\ UNCHANGED <<journal, effects, worker, step, named, preflight, cancel,
                   verdict, told, client>>

\* A worker process dies, with or without the execution Temporal waits for.
Die(w) ==
    /\ pc[w] # "free" /\ lost < MaxLost
    /\ lost' = lost + 1
    /\ pc' = [pc EXCEPT ![w] = "free"]
    /\ IF cur = w THEN Reschedule ELSE UNCHANGED <<task, cur, wf>>
    /\ UNCHANGED <<journal, effects, seen, reply, step, named, preflight,
                   cancel, verdict, told, client>>

\* The execution answers; Temporal drops the answer of one it gave up on.
Return(w) ==
    /\ pc[w] = "return"
    /\ pc' = [pc EXCEPT ![w] = "free"]
    /\ IF cur # w
         THEN UNCHANGED <<task, cur, workflow>>
         ELSE /\ IF reply[w] = "failure"
                   THEN Reschedule /\ UNCHANGED <<told, step, verdict>>
                   ELSE TakeReply(reply[w])
              /\ UNCHANGED <<named, preflight, cancel>>
    /\ UNCHANGED <<journal, effects, seen, reply, lost, client>>

-----------------------------------------------------------------------------
(* ExecuteTool, one transaction or external call at a time                 *)

\* the step an execution works on
Of(w) == seen[w].step

\* the execution ends with the reply r
Answer(w, r) ==
    /\ pc' = [pc EXCEPT ![w] = "return"]
    /\ reply' = [reply EXCEPT ![w] = r]

Goto(w, l) == pc' = [pc EXCEPT ![w] = l] /\ UNCHANGED reply

\* Mutant: every execution wants to open the attempt itself.
BeginAttempt(w) ==
    /\ pc[w] = "attempt"
    /\ IF attempt = "none"
         THEN attempt' = "active" /\ Goto(w, "step")
         ELSE UNCHANGED attempt /\ Answer(w, "failure")
    /\ UNCHANGED <<state, result, effects, seen, temporal, workflow, client>>

\* EnsureAttempt: the active attempt is reused, a missing one inserted; a
\* closed one is refused, by the prior-execution check or by its primary key.
EnsureAttempt(w) ==
    /\ pc[w] = "attempt"
    /\ IF attempt \in {"none", "active"}
         THEN attempt' = "active" /\ Goto(w, "step")
         ELSE UNCHANGED attempt /\ Answer(w, "failure")
    /\ UNCHANGED <<state, result, effects, seen, temporal, workflow, client>>

\* The switch of ExecuteTool on the step state EnsureToolStep returned.
Proceed(w, k, s) ==
    \/ s = "completed" /\ Answer(w, result[k])
    \/ s = "ambiguous" /\ Answer(w, "ambiguous")
    \/ /\ s = "started" /\ Kind[k] = "advisor"
       /\ pc' = [pc EXCEPT ![w] = "write"]
       /\ reply' = [reply EXCEPT ![w] = "stopped"]
    \/ s = "started" /\ Kind[k] = "skill" /\ Goto(w, "provision")
    \/ s = "started" /\ Kind[k] \in {"builtin", "mcp", "coordinator"} /\ Goto(w, "mark")
    \/ s = "prepared" /\ Kind[k] = "coordinator" /\ Goto(w, "coordinate")
    \/ s = "prepared" /\ Kind[k] = "advisor" /\ Goto(w, "start")
    \/ s = "prepared" /\ Kind[k] \in {"builtin", "mcp", "skill"} /\ Goto(w, "provision")

\* EnsureToolStep: a missing step is inserted as prepared.
EnsureToolStep(w) ==
    LET k == Of(w)
        s == IF state[k] = "absent" THEN "prepared" ELSE state[k]
    IN  /\ pc[w] = "step"
        /\ IF attempt # "active"
             THEN Answer(w, "failure") /\ UNCHANGED <<state, seen>>
             ELSE /\ state' = [state EXCEPT ![k] = s]
                  /\ seen' = [seen EXCEPT ![w] = [step |-> k, state |-> s]]
                  /\ Proceed(w, k, s)
        /\ UNCHANGED <<attempt, result, effects, temporal, workflow, client>>

\* MarkToolStepAmbiguous: never rewrites a completed result.
MarkToolStepAmbiguous(w) ==
    LET k == Of(w)
    IN  /\ pc[w] = "mark"
        /\ IF state[k] \in {"started", "ambiguous"}
             THEN /\ state' = [state EXCEPT ![k] = "ambiguous"]
                  /\ Answer(w, "ambiguous")
             ELSE UNCHANGED state /\ Answer(w, "failure")
        /\ UNCHANGED <<attempt, result, effects, seen, temporal, workflow,
                       client>>

\* Mutant: the effect commits in a transaction of its own, before the result.
CoordinateUnjournalled(w) ==
    /\ pc[w] = "coordinate" /\ attempt = "active" /\ state[Of(w)] = "prepared"
    /\ effects' = [effects EXCEPT ![Of(w)] = @ + 1]
    /\ Answer(w, "failure")
    /\ UNCHANGED <<journal, seen, temporal, workflow, client>>

\* ExecuteCoordinatorToolStep: effect and result in one transaction, under
\* the locks of the attempt and of the step.
ExecuteCoordinatorToolStep(w) ==
    LET k == Of(w)
    IN  /\ pc[w] = "coordinate"
        /\ IF attempt = "active" /\ state[k] = "prepared"
             THEN \E r \in {"value", "error"} :
                    /\ state' = [state EXCEPT ![k] = "completed"]
                    /\ result' = [result EXCEPT ![k] = r]
                    /\ effects' = [effects EXCEPT ![k] = @ + 1]
                    /\ Answer(w, r)
             ELSE /\ UNCHANGED <<state, result, effects>>
                  /\ IF attempt = "active" /\ state[k] = "completed"
                       THEN Answer(w, result[k])
                       ELSE Answer(w, "failure")
        /\ UNCHANGED <<attempt, seen, temporal, workflow, client>>

\* Only a Skill whose step was started before skips StartToolStep.
AfterProvision(w) == IF seen[w].state = "started" THEN "run" ELSE "start"

\* Acquire and reconcile the sandbox before the side-effect boundary; a
\* permanent failure is a fatal reply, a transient one fails the execution.
Provision(w) ==
    /\ pc[w] = "provision"
    /\ \/ /\ Goto(w, AfterProvision(w))
          /\ UNCHANGED lost
       \/ Answer(w, "fatal") /\ UNCHANGED lost
       \/ Answer(w, "failure") /\ lost < MaxLost /\ lost' = lost + 1
    /\ UNCHANGED <<journal, effects, seen, task, cur, workflow, client>>

\* Mutants: a started step may be started again; a closed attempt is no bar.
StartableTwice(k) == attempt = "active" /\ state[k] \in {"prepared", "started"}
StartableLate(k) == state[k] = "prepared"

\* StartToolStep's guard, evaluated under the locks of attempt and step.
Startable(k) == attempt = "active" /\ state[k] = "prepared"

\* StartToolStep: prepared -> started under the lock of the active attempt.
StartToolStep(w) ==
    LET k == Of(w)
    IN  /\ pc[w] = "start"
        /\ IF Startable(k)
             THEN state' = [state EXCEPT ![k] = "started"] /\ Goto(w, "run")
             ELSE UNCHANGED state /\ Answer(w, "failure")
        /\ UNCHANGED <<attempt, result, effects, seen, temporal, workflow,
                       client>>

\* Its context is cancelled, by the Workflow or because Temporal gave up on
\* it: what does not run on the durable context fails.
ContextCancelled(w) ==
    /\ cancel \/ cur # w
    /\ pc[w] \in {"attempt", "step", "provision", "coordinate"}
    /\ Answer(w, "failure")
    /\ UNCHANGED <<journal, effects, seen, temporal, workflow, client>>

\* The executor runs.  An advisor whose context is cancelled records so; an MCP
\* transport error fails the execution after the server may have acted; a Skill
\* whose metadata cannot be read fails, one whose scope changed is fatal.
Run(w) ==
    LET k == Of(w)
    IN  /\ pc[w] = "run"
        /\ effects' = [effects EXCEPT ![k] = @ + 1]
        /\ \/ \E r \in {"value", "error", "stopped"} :
                /\ r = "stopped" => Kind[k] = "advisor" /\ (cancel \/ cur # w)
                /\ pc' = [pc EXCEPT ![w] = "write"]
                /\ reply' = [reply EXCEPT ![w] = r]
                /\ UNCHANGED lost
           \/ Kind[k] = "mcp" /\ Answer(w, "failure") /\ UNCHANGED lost
           \/ Kind[k] = "skill" /\ Answer(w, "failure") /\ lost < MaxLost /\ lost' = lost + 1
           \/ Kind[k] = "skill" /\ Answer(w, "fatal") /\ UNCHANGED lost
        /\ UNCHANGED <<journal, seen, task, cur, workflow, client>>

\* Mutants: the reply is sent and the row forgotten; the last writer wins.
ForgetResult(w) ==
    /\ pc[w] = "write"
    /\ Answer(w, reply[w])
    /\ UNCHANGED <<journal, effects, seen, temporal, workflow, client>>

LastWriterWins(w) ==
    /\ pc[w] = "write"
    /\ state' = [state EXCEPT ![Of(w)] = "completed"]
    /\ result' = [result EXCEPT ![Of(w)] = reply[w]]
    /\ Answer(w, reply[w])
    /\ UNCHANGED <<attempt, effects, seen, temporal, workflow, client>>

\* CompleteToolStep and CompleteAdvisorToolStep: started -> completed, and a
\* repeated write of the same result is accepted.
CompleteToolStep(w) ==
    LET k == Of(w)
    IN  /\ pc[w] = "write"
        /\ \/ /\ state[k] = "started"
              /\ state' = [state EXCEPT ![k] = "completed"]
              /\ result' = [result EXCEPT ![k] = reply[w]]
              /\ Answer(w, reply[w])
           \/ /\ state[k] = "completed" /\ result[k] = reply[w]
              /\ UNCHANGED <<state, result>> /\ Answer(w, reply[w])
           \/ /\ state[k] # "started" /\ ~(state[k] = "completed" /\ result[k] = reply[w])
              /\ UNCHANGED <<state, result>> /\ Answer(w, "failure")
        /\ UNCHANGED <<attempt, effects, seen, temporal, workflow, client>>

-----------------------------------------------------------------------------
(* Completion of the turn                                                  *)

\* Mutant: an attempt state the turn_attempts table does not know.
FinalCancelled == IF interrupt THEN "cancelled" ELSE verdict

\* The attempt state the completion transaction settles on: an interrupt
\* visible under the Session lock overrides what the Workflow asked for.
Final == IF interrupt THEN "interrupted" ELSE verdict

\* Started steps of an interrupted attempt become ambiguous.
Fenced ==
    [k \in Steps |-> IF Final = "interrupted" /\ state[k] = "started"
                       THEN "ambiguous" ELSE state[k]]

\* finishAttemptLocked accepts the completion.
AttemptFinishable ==
    /\ attempt = "active"
    /\ \A k \in Steps : Fenced[k] # "started"
    /\ Final = "completed" =>
         \A k \in Steps : Fenced[k] \in {"absent", "completed"}

\* CompleteWorkflowTurn; a refused completion is retried, that is, waits.
CompleteTurn ==
    /\ wf = "commit"
    /\ IF named
         THEN AttemptFinishable /\ attempt' = Final /\ state' = Fenced
         ELSE UNCHANGED <<attempt, state>>
    /\ wf' = "done"
    /\ interrupt' = FALSE
    /\ UNCHANGED <<result, effects, worker, temporal, step, named, preflight,
                   cancel, verdict, told, wakeup>>

-----------------------------------------------------------------------------
ExecuteTool(w) ==
    \/ EnsureAttempt(w) \/ EnsureToolStep(w) \/ MarkToolStepAmbiguous(w)
    \/ ExecuteCoordinatorToolStep(w) \/ Provision(w) \/ StartToolStep(w)
    \/ ContextCancelled(w) \/ Run(w) \/ CompleteToolStep(w) \/ Return(w)

Next ==
    \/ AdmitInterrupt \/ CallTool \/ ObserveInterrupt
    \/ \E v \in Verdicts : EndTurn(v)
    \/ CompleteTurn
    \/ LoseHeartbeat
    \/ \E w \in Workers : Dispatch(w) \/ Die(w) \/ ExecuteTool(w)

Spec == Init /\ [][Next]_vars

\* Temporal dispatches scheduled Activities and workers make progress; the
\* Workflow takes its next step.  Nothing forces losses or an interrupt.
FairSpec ==
    /\ Spec
    /\ WF_vars(CallTool \/ ObserveInterrupt \/ (\E v \in Verdicts : EndTurn(v)))
    /\ WF_vars(CompleteTurn)
    /\ WF_vars(\E w \in Workers : Dispatch(w))
    /\ \A w \in Workers : WF_vars(ExecuteTool(w))

-----------------------------------------------------------------------------
\* Attempt, steps and executions are in the states the journal's tables allow.
TypeOK ==
    /\ attempt \in AttemptStates
    /\ state \in [Steps -> StepStates]
    /\ result \in [Steps -> Results]
    /\ effects \in [Steps -> Nat]
    /\ pc \in [Workers -> {"free", "attempt", "step", "provision", "start",
                           "coordinate", "mark", "run", "write", "return"}]
    /\ seen \in [Workers -> [step : 0 .. NSteps, state : StepStates]]
    /\ reply \in [Workers -> Replies]
    /\ task \in {"none", "scheduled", "running"}
    /\ cur \in Workers \cup {None}
    /\ lost \in 0 .. MaxLost
    /\ wf \in {"loop", "wait", "commit", "done"}
    /\ step \in 1 .. NSteps + 1
    /\ named \in BOOLEAN /\ preflight \in BOOLEAN /\ cancel \in BOOLEAN
    /\ verdict \in Verdicts
    /\ told \in [Steps -> Results]
    /\ interrupt \in BOOLEAN /\ wakeup \in BOOLEAN

-----------------------------------------------------------------------------
(* Properties                                                              *)

\* A tool that changes the outside world runs at most once for a tool call,
\* however many executions of ExecuteTool Temporal starts and however they
\* overlap ("the side effect will not be retried").  Skills only read.
AtMostOnce ==
    \A k \in Steps : Kind[k] # "skill" => effects[k] <= 1

\* the journal admits that the call may have reached the outside world
Begun(k) == state[k] \in {"started", "completed", "ambiguous"}

\* The journal never hides an effect: a call that reached the outside world
\* is recorded as started, completed or ambiguous, also after the turn ended.
NoHiddenEffect == \A k \in Steps : effects[k] > 0 => Begun(k)

\* What the Workflow told the model about a call is the durable result of it:
\* a late or duplicate execution can neither replace the result of the row nor
\* have its own reply believed (ExecuteTool, CompleteToolStep).
ToldIsDurable ==
    \A k \in Steps : told[k] # "none" =>
        state[k] = "completed" /\ result[k] = told[k]

\* A closed attempt has no unclassified step, and one closed as completed has
\* a durable result for every step it prepared, whatever stale executions do
\* after the turn committed (finishAttemptLocked against StartToolStep).
ClosedAttemptSettled ==
    /\ attempt \in {"completed", "failed", "interrupted"} =>
         \A k \in Steps : state[k] # "started"
    /\ attempt = "completed" =>
         \A k \in Steps : state[k] \in {"absent", "completed"}

\* The scheduled call, the execution Temporal waits for and the Workflow agree.
ControlInv ==
    /\ task # "none" => wf = "wait"
    /\ wf = "wait" => step \in Steps
    /\ cur # None => task = "running" /\ pc[cur] # "free" /\ Of(cur) = step
    /\ \A w \in Workers : pc[w] # "free" => Of(w) \in Steps

\* What an execution knows of the journal at the points where it relies on it.
KnowledgeInv ==
    \A w \in Workers :
        /\ pc[w] \in {"run", "write"} => Begun(Of(w))
        /\ pc[w] = "provision" /\ seen[w].state = "started" =>
             Begun(Of(w)) /\ Kind[Of(w)] = "skill"
        /\ pc[w] = "write" => reply[w] \in Results
        /\ pc[w] = "return" /\ reply[w] \in Results \ {"none"} =>
             state[Of(w)] = "completed" /\ result[Of(w)] = reply[w]

\* Of the executions that overlap on a call that is no Skill, one at most is
\* about to run it, and then nobody has run it before.
RunInv ==
    \A k \in Steps : \A w \in Workers :
        Kind[k] # "skill" /\ pc[w] = "run" /\ Of(w) = k =>
            /\ effects[k] = 0
            /\ \A v \in Workers : pc[v] = "run" /\ Of(v) = k => v = w

\* The order in which ExecuteTool journals and acts leaves every overlap of
\* executions in a state from which no call is run twice or hidden: this is
\* inductive, and the properties above that concern safety follow from it.
ExecutionInv == ControlInv /\ KnowledgeInv /\ RunInv

\* Completed and ambiguous are final, with their result, and no step ever
\* returns to prepared (CompleteToolStep, MarkToolStepAmbiguous).
ClassificationIsFinal ==
    [][\A k \in Steps :
          /\ state[k] \in {"completed", "ambiguous"} =>
               state'[k] = state[k] /\ result'[k] = result[k]
          /\ state[k] = "started" => state'[k] \notin {"absent", "prepared"}
      ]_vars

\* Retries converge: however executions are lost, duplicated or refused, the
\* Workflow's tool call is answered.
ToolCallAnswered == (wf = "wait") ~> (wf # "wait")

\* Every turn is committed in the end; an interrupt in particular is not
\* stranded (interrupt_workflow.go: "so an already-durable interrupt cannot be
\* stranded").
TurnSettles == <>(wf = "done")
=============================================================================
