--------------------------- MODULE SessionRuntime ---------------------------
(***************************************************************************)
(* One Session: its PostgreSQL event ledger and projection, the            *)
(* orchestration outbox with its relays, the API's direct signal, and the  *)
(* Temporal SessionWorkflow that drains the ledger one turn at a time.     *)
(* Every PostgreSQL transaction holds the Session row lock and is one      *)
(* action; between two Activities of the Workflow anything may happen.     *)
(* Sources: internal/pg/store.go, pending.go, outbox.go,                   *)
(* internal/temporal/session_workflow.go, agent_workflow.go,               *)
(* agent_workflow_tools.go, interrupt_workflow.go, activities.go, relay.go.*)
(***************************************************************************)
EXTENDS Naturals, Sequences, FiniteSets, SequencesExt, FiniteSetsExt

CONSTANTS
    Inputs,      \* client event types in use, besides resolutions
    Parks,       \* lists of action types a parking turn may ask for
    Replies,     \* what a model request may come back with
    Relays,      \* relay processes
    MaxInputs,   \* bound: client events admitted
    MaxBatch,    \* bound: client events in one request
    MaxRounds,   \* tool rounds of a turn (maxWorkflowToolRounds)
    MaxTries,    \* model request attempts (maxModelRequestAttempts)
    MaxMore,     \* continuations of a response (maxPauseTurnContinuations)
    MaxGrades,   \* evaluations of an outcome (MaxIterations)
    BatchLimit,  \* events one LoadEvents returns (loadBatchLimit)
    MaxSignals,  \* bound: buffered wakeup Signals told apart
    MaxLost      \* bound: lost replies, failed deliveries and crashes

ActionTypes     == {"ask", "custom"}
TriggerTypes    == {"message", "outcome"}
ResolutionTypes == {"confirmation", "result"}
StatusTypes     == {"running", "idle", "rescheduled", "terminated"}

Continuations == {"pause", "truncated"}
ModelReplies  == {"end", "park", "tools", "overflow", "retry", "fail"} \cup Continuations

ASSUME SessionRuntimeAssumption ==
    /\ Inputs \subseteq TriggerTypes \cup {"interrupt"}
    /\ Parks \subseteq Seq(ActionTypes)
    /\ Replies \subseteq ModelReplies
    /\ {MaxInputs, MaxMore, MaxLost} \subseteq Nat
    /\ {MaxBatch, MaxRounds, MaxTries, MaxGrades, BatchLimit, MaxSignals}
         \subseteq Nat \ {0}

VARIABLES
    log,        \* events in receipt order; an event's seq is its index
    processed,  \* client events with processed_at
    status,     \* sessions.status, the projection
    pending,    \* unresolved pending_actions: action seq -> claiming seq or 0
    outcome,    \* the define_outcome event of the active outcome, or 0
    outbox,     \* orchestration_outbox.max_event_seq, 0 without a row
    inputs,     \* client events admitted so far
    fast,       \* an API process is about to signal directly
    relay,      \* what each relay is doing, and with which seq
    signals,    \* wakeup Signals buffered by Temporal
    lost,       \* faults so far
    pc,         \* where the SessionWorkflow is
    cursor,     \* its durable cursor
    batch,      \* events of the last LoadEvents it has still to look at
    barrier,    \* the pending rows LoadPendingActions returned
    turn        \* the turn it is running

ledger   == <<log, processed, status, pending, outcome, outbox>>
delivery == <<fast, relay>>
workflow == <<pc, cursor, batch, barrier, turn>>
vars     == <<ledger, inputs, delivery, signals, lost, workflow>>

-----------------------------------------------------------------------------
(* The ledger                                                              *)

Event(type, trigger, reason) ==
    [type |-> type, turn |-> trigger, reason |-> reason]

Seqs == DOMAIN log

Unprocessed(types) == {s \in Seqs : log[s].type \in types} \ processed

\* domain.ProcessedOnReceipt
ProcessedOnReceipt(type) == type \in {"outcome", "result"}

\* FirstUnprocessedInterruptAfter; 0 when there is none
InterruptAfter(s) ==
    LET later == {i \in Unprocessed({"interrupt"}) : i > s}
    IN  IF later = {} THEN 0 ELSE Min(later)

Claims(rows) == Range(rows) \ {0}

FullyClaimed(rows) == 0 \notin Range(rows)

NoRows == [a \in {} |-> 0]

NoTurn == [trigger |-> 0, res |-> {}, preflight |-> FALSE, round |-> 1,
           try |-> 1, overflowed |-> FALSE, more |-> [c \in Continuations |-> 0],
           grade |-> 1, acknowledging |-> FALSE, keyed |-> FALSE, ask |-> "none",
           acts |-> <<>>, graded |-> FALSE, committed |-> FALSE, disposition |-> "none"]

Idle == [at |-> "scan", seq |-> 0]

Init ==
    /\ log = <<>> /\ processed = {} /\ status = "idle"
    /\ pending = NoRows /\ outcome = 0 /\ outbox = 0
    /\ inputs = 0 /\ fast = FALSE /\ signals = 0 /\ lost = 0
    /\ relay = [r \in Relays |-> Idle]
    /\ pc = "none" /\ cursor = 0 /\ batch = <<>> /\ barrier = NoRows
    /\ turn = NoTurn

-----------------------------------------------------------------------------
(* Admission                                                               *)

\* A draft names the action it resolves, or 0.
Drafts ==
    {[type |-> t, ref |-> 0] : t \in Inputs} \cup
    {[type |-> IF log[a].type = "ask" THEN "confirmation" ELSE "result",
      ref |-> a] : a \in {b \in DOMAIN pending : pending[b] = 0}}

Has(drafts, type) == \E i \in DOMAIN drafts : drafts[i].type = type

\* AdmitEvents accepts the batch: an action is claimed once and at most one
\* outcome is active.
Admissible(drafts) ==
    /\ status # "terminated"
    /\ \A i, j \in DOMAIN drafts :
         i # j => \/ drafts[i].ref # drafts[j].ref
                  \/ drafts[i].ref = 0 /\ ~(drafts[i].type = "outcome" /\ drafts[j].type = "outcome")
    /\ Has(drafts, "outcome") => outcome = 0

\* claimPendingResolutionsLocked: a resolution takes the row of its action.
ClaimedBy(drafts) ==
    [a \in DOMAIN pending |->
       IF \E i \in DOMAIN drafts : drafts[i].ref = a
         THEN Len(log) + CHOOSE i \in DOMAIN drafts : drafts[i].ref = a
         ELSE pending[a]]

\* The batch makes work the Workflow may take up: it completes the claims of
\* the barrier, or brings a message or an outcome and there is no barrier.
MakesRunnable(drafts) ==
    \/ ClaimedBy(drafts) # pending /\ FullyClaimed(ClaimedBy(drafts))
    \/ DOMAIN pending = {} /\ (Has(drafts, "message") \/ Has(drafts, "outcome"))

\* admitLocked: append, claim, reopen the Session if the batch is runnable, and
\* write the coalescing wakeup, in one transaction.
AdmitEvents(drafts) ==
    LET n        == Len(log)
        reopened == MakesRunnable(drafts) /\ status = "idle"
        enqueued == MakesRunnable(drafts) \/ Has(drafts, "interrupt")
    IN  /\ inputs + Len(drafts) <= MaxInputs
        /\ Admissible(drafts)
        /\ inputs' = inputs + Len(drafts)
        /\ log' = log
                  \o [i \in DOMAIN drafts |-> Event(drafts[i].type, 0, "none")]
                  \o IF reopened THEN <<Event("running", 0, "none")>> ELSE <<>>
        /\ processed' = processed \cup
              {n + i : i \in {j \in DOMAIN drafts : ProcessedOnReceipt(drafts[j].type)}}
        /\ status' = IF reopened THEN "running" ELSE status
        /\ pending' = ClaimedBy(drafts)
        /\ outcome' = IF Has(drafts, "outcome")
                        THEN n + CHOOSE i \in DOMAIN drafts : drafts[i].type = "outcome"
                        ELSE outcome
        /\ outbox' = IF enqueued THEN Len(log') ELSE outbox
        /\ fast' = (fast \/ enqueued)
        /\ UNCHANGED <<relay, signals, lost, workflow>>

Admit == \E n \in 1 .. MaxBatch : \E drafts \in [1 .. n -> Drafts] : AdmitEvents(drafts)

-----------------------------------------------------------------------------
(* Delivery of wakeups                                                     *)

\* SignalWithStartWorkflow: Signals carry no event and are only counted; a
\* closed Workflow is started again at cursor 0.
Wake ==
    /\ signals' = IF signals < MaxSignals THEN signals + 1 ELSE signals
    /\ IF pc = "none"
         THEN /\ pc' = "wait" /\ cursor' = 0 /\ batch' = <<>>
              /\ barrier' = NoRows /\ turn' = NoTurn
         ELSE UNCHANGED workflow

\* Orchestrator.fastPathWake, best effort: it may fail or its process die.
FastPathWake ==
    /\ fast /\ fast' = FALSE
    /\ Wake \/ UNCHANGED <<signals, workflow>>
    /\ UNCHANGED <<ledger, inputs, relay, lost>>

\* Relay.RunOnce: read the row, deliver, delete it if its seq is unchanged.
RelayRead(r) ==
    /\ relay[r].at = "scan" /\ outbox # 0
    /\ relay' = [relay EXCEPT ![r] = [at |-> "deliver", seq |-> outbox]]
    /\ UNCHANGED <<ledger, inputs, fast, signals, lost, workflow>>

RelayDeliver(r) ==
    /\ relay[r].at = "deliver"
    /\ relay' = [relay EXCEPT ![r].at = "delete"]
    /\ Wake
    /\ UNCHANGED <<ledger, inputs, fast, lost>>

\* Mutant: the row is deleted even if it was coalesced with a later event.
DeleteWakeup(r) ==
    /\ relay[r].at = "delete"
    /\ outbox' = 0
    /\ relay' = [relay EXCEPT ![r] = Idle]
    /\ UNCHANGED <<log, processed, status, pending, outcome, inputs, fast,
                   signals, lost, workflow>>

DeleteWakeupIfUnchanged(r) ==
    /\ relay[r].at = "delete"
    /\ outbox' = IF outbox = relay[r].seq THEN 0 ELSE outbox
    /\ relay' = [relay EXCEPT ![r] = Idle]
    /\ UNCHANGED <<log, processed, status, pending, outcome, inputs, fast,
                   signals, lost, workflow>>

\* Temporal is unavailable (the row stays, with an attempt recorded), the
\* delete fails, or the relay process dies and starts over.
RelayFail(r) ==
    /\ relay[r].at # "scan" /\ lost < MaxLost
    /\ lost' = lost + 1
    /\ relay' = [relay EXCEPT ![r] = Idle]
    /\ UNCHANGED <<ledger, inputs, fast, signals, workflow>>

-----------------------------------------------------------------------------
(* The SessionWorkflow: draining the ledger                                *)

Outside == <<ledger, inputs, delivery>>

\* Receive blocks until a wakeup; everything buffered is coalesced.  A run
\* that continues as new starts here with its cursor.
ReceiveWakeup ==
    /\ pc = "wait" /\ signals > 0
    /\ signals' = 0 /\ pc' = "pending"
    /\ UNCHANGED <<Outside, lost, cursor, batch, barrier, turn>>

\* Mutant: wakeups that came in during the drain are forgotten.
EndDrainForgets ==
    /\ pc \in {"drained", "close"}
    /\ signals' = 0
    /\ pc' = IF pc = "close" THEN "none" ELSE "wait"
    /\ UNCHANGED <<Outside, lost, cursor, batch, barrier, turn>>

\* After a drain: wakeups that came in between drain again; a terminated
\* Session closes the run, dropping them.
EndDrain ==
    /\ pc \in {"drained", "close"}
    /\ signals' = 0
    /\ pc' = IF pc = "close" THEN "none"
             ELSE IF signals > 0 THEN "pending" ELSE "wait"
    /\ UNCHANGED <<Outside, lost, cursor, batch, barrier, turn>>

\* Mutant: the drain does not stop at a barrier.
IgnoreBarrier ==
    /\ pc = "pending"
    /\ barrier' = pending
    /\ pc' = "load"
    /\ UNCHANGED <<Outside, signals, lost, cursor, batch, turn>>

LoadPendingActions ==
    /\ pc = "pending"
    /\ barrier' = pending
    /\ pc' = IF DOMAIN pending = {} THEN "load" ELSE "gate"
    /\ UNCHANGED <<Outside, signals, lost, cursor, batch, turn>>

\* runWorkflowTurnInternal begins
BeginTurn(t, res) ==
    /\ turn' = [NoTurn EXCEPT !.trigger = t, !.res = res]
    /\ pc' = "prepare"

\* acknowledgeIdleInterrupt
Acknowledge(i) ==
    /\ turn' = [NoTurn EXCEPT !.trigger = i, !.ask = "ack"]
    /\ pc' = "finish"

\* The barrier wins over ordinary events: an interrupt before it opens is
\* acknowledged, a fully claimed barrier resumes, any other ends the drain.
Gate ==
    LET full == FullyClaimed(barrier)
        t    == IF full THEN Max(Claims(barrier)) ELSE 0
        i    == InterruptAfter(cursor)
    IN  /\ pc = "gate"
        /\ IF i # 0 /\ (~full \/ i < t) THEN Acknowledge(i)
           ELSE IF full THEN BeginTurn(t, Claims(barrier))
           ELSE pc' = "drained" /\ UNCHANGED turn
        /\ UNCHANGED <<Outside, signals, lost, cursor, batch, barrier>>

LoadEvents ==
    /\ pc = "load"
    /\ batch' = SubSeq([s \in Seqs |-> s], cursor + 1,
                       IF cursor + BatchLimit < Len(log)
                         THEN cursor + BatchLimit ELSE Len(log))
    /\ pc' = IF batch' = <<>> THEN "drained" ELSE "each"
    /\ UNCHANGED <<Outside, signals, lost, cursor, barrier, turn>>

\* Mutant: the cursor is the next event's seq.
AdvanceTooFar ==
    /\ cursor' = Head(batch) + 1
    /\ batch' = Tail(batch)
    /\ pc' = IF Len(batch) = 1 THEN "pending" ELSE "each"

\* The loaded event at the head of the batch is done with.
Advance ==
    /\ cursor' = Head(batch)
    /\ batch' = Tail(batch)
    /\ pc' = IF Len(batch) = 1 THEN "pending" ELSE "each"

EachEvent ==
    LET s == Head(batch)
    IN  /\ pc = "each"
        /\ IF log[s].type \in TriggerTypes
             THEN BeginTurn(s, {}) /\ UNCHANGED <<cursor, batch>>
           ELSE IF log[s].type = "interrupt"
             THEN Acknowledge(s) /\ UNCHANGED <<cursor, batch>>
           ELSE Advance /\ UNCHANGED turn
        /\ UNCHANGED <<Outside, signals, lost, barrier>>

\* The disposition of a finished turn steers the drain.  A resumed turn and an
\* interrupt acknowledged at the barrier leave the cursor where it is.
TurnResult(disposition) ==
    /\ turn' = NoTurn
    /\ CASE turn.ask = "ack" \/ disposition = "completed" ->
              IF batch = <<>> THEN pc' = "pending" /\ UNCHANGED <<cursor, batch>>
                              ELSE Advance
         [] turn.ask # "ack" /\ disposition \in {"parked", "terminated"} ->
              /\ pc' = IF disposition = "parked" THEN "drained" ELSE "close"
              /\ cursor' = IF batch = <<>> THEN cursor ELSE turn.trigger
              /\ batch' = <<>>

-----------------------------------------------------------------------------
(* The SessionWorkflow: one turn                                           *)

\* Mutant: a retried completion is never recognised.
NeverCompleted(t) == FALSE

\* completeTurn and PrepareTurn: the trigger's turn has already committed.
\* Resolutions and outcomes are stamped on receipt and need a closer look.
AlreadyCompleted(t) ==
    /\ t \in processed
    /\ t \notin Claims(pending)
    /\ outcome # t

\* The turn asks CompleteWorkflowTurn for its end.
Ask(state, kind) == pc' = "finish" /\ turn' = [state EXCEPT !.ask = kind]

\* terminateTyped: a turn that fails asks for no action.
Fail(state) == Ask([state EXCEPT !.acts = <<>>], "fail")

OutcomeTurn == log[turn.trigger].type = "outcome"

\* Every evaluation of an outcome may use up a whole tool loop.
RoundLimit == IF OutcomeTurn THEN MaxRounds * (MaxGrades + 1) ELSE MaxRounds

\* The loop goes around, which publishes its output first, or is at its limit.
NextRound(state) ==
    IF turn.round < RoundLimit
      THEN /\ pc' = "model"
           /\ turn' = [state EXCEPT !.round = @ + 1, !.try = 1,
                                    !.overflowed = FALSE, !.graded = FALSE]
      ELSE Fail(state)

\* PrepareTurn; a configuration that no longer validates fails the turn, and
\* an approved tool of a resumed turn runs before the first model request.
PrepareTurn ==
    /\ pc = "prepare"
    /\ IF AlreadyCompleted(turn.trigger)
         THEN TurnResult(IF status = "terminated" THEN "terminated" ELSE "completed")
         ELSE /\ UNCHANGED <<cursor, batch>>
              /\ \/ pc' = "model" /\ UNCHANGED turn
                 \/ /\ \E s \in turn.res : log[s].type = "confirmation"
                    /\ pc' = "approved" /\ UNCHANGED turn
                 \/ "fail" \in Replies /\ Fail(turn)
    /\ UNCHANGED <<Outside, signals, lost, barrier>>

\* resumeWorkflowTurn: the approved tools of the barrier have run, or one of
\* them fails the turn.
ResumeTools ==
    /\ pc = "approved" /\ turn.preflight
    /\ \/ pc' = "model" /\ UNCHANGED turn
       \/ "fail" \in Replies /\ Fail(turn)
    /\ UNCHANGED <<Outside, signals, lost, cursor, batch, barrier>>

\* flushOutput and StartModelRequest append progress, which is left out of the
\* log; AppendWorkflowEvents refuses it unless the Session is running.  From
\* here the output of the turn holds events whose ids the turn has chosen.
StartModelRequest ==
    /\ pc = "model" /\ status = "running"
    /\ pc' = "call" /\ turn' = [turn EXCEPT !.keyed = TRUE]
    /\ UNCHANGED <<Outside, signals, lost, cursor, batch, barrier>>

Interruptible == {"approved", "call", "grade", "tool"}

\* The first interruptible Activity of a turn is preceded by one look at the
\* ledger (turnInterruptWatcher.preflightDone).
Preflight ==
    LET looked == [turn EXCEPT !.preflight = TRUE]
    IN  /\ pc \in Interruptible /\ ~turn.preflight
        /\ IF InterruptAfter(turn.trigger) # 0
             THEN Ask(looked, "end") ELSE turn' = looked /\ UNCHANGED pc
        /\ UNCHANGED <<Outside, signals, lost, cursor, batch, barrier>>

\* A wakeup during an Activity: read the ledger, and cancel on an interrupt.
ObserveWakeup ==
    /\ pc \in Interruptible \cup {"backoff"} /\ signals > 0
    /\ pc # "backoff" => turn.preflight
    /\ signals' = signals - 1
    /\ IF InterruptAfter(turn.trigger) # 0 THEN Ask(turn, "end")
                                           ELSE UNCHANGED <<pc, turn>>
    /\ UNCHANGED <<Outside, lost, cursor, batch, barrier>>

\* The request did not fit: it is compacted and sent again, once a round.
Overflow ==
    \/ /\ ~turn.overflowed
       /\ pc' = "model" /\ turn' = [turn EXCEPT !.overflowed = TRUE, !.try = @ + 1]
    \/ turn.overflowed /\ Fail(turn)

\* A paused or truncated response is continued in a round of its own.
Continue(c) ==
    IF turn.more[c] < MaxMore THEN NextRound([turn EXCEPT !.more[c] = @ + 1])
                              ELSE Fail(turn)

\* A response without tool calls ends the turn; that of an outcome is graded
\* first, unless it only acknowledges that the evaluations are used up.
Answer ==
    IF OutcomeTurn /\ ~turn.acknowledging
      THEN pc' = "evaluate" /\ UNCHANGED turn
      ELSE Ask(turn, "end")

\* planToolBatch: acts are the calls that wait for the client.  Only a batch
\* with other calls, too, has something to execute first.
UseTools(acts, executable) ==
    LET planned == [turn EXCEPT !.acts = acts]
    IN  IF executable THEN pc' = "tool" /\ turn' = planned
                      ELSE Ask(planned, "end")

CallModel(r) ==
    /\ pc = "call" /\ turn.preflight
    /\ \/ r = "end" /\ Answer
       \/ r = "park" /\ \E acts \in Parks, b \in {FALSE, "tools" \in Replies} : UseTools(acts, b)
       \/ r = "tools" /\ UseTools(<<>>, TRUE)
       \/ r \in Continuations /\ Continue(r)
       \/ r = "overflow" /\ Overflow
       \/ r = "fail" /\ Fail(turn)
       \/ r = "retry" /\ turn.try < MaxTries /\ pc' = "retry" /\ UNCHANGED turn
       \/ r = "retry" /\ turn.try >= MaxTries /\ Ask(turn, "exhausted")
    /\ UNCHANGED <<Outside, signals, lost, cursor, batch, barrier>>

\* executeToolBatch: the tools that need no client answer (ToolJournal has the
\* rest) and the turn parks or goes on, or one of them fails the turn.
ExecuteTools ==
    /\ pc = "tool" /\ turn.preflight
    /\ \/ IF turn.acts = <<>> THEN NextRound(turn) ELSE Ask(turn, "end")
       \/ "fail" \in Replies /\ Fail(turn)
    /\ UNCHANGED <<Outside, signals, lost, cursor, batch, barrier>>

\* The start of the evaluation is published, and with it all output so far.
StartEvaluation ==
    /\ pc = "evaluate" /\ status = "running"
    /\ pc' = "grade" /\ turn' = [turn EXCEPT !.keyed = FALSE]
    /\ UNCHANGED <<Outside, signals, lost, cursor, batch, barrier>>

\* EvaluateOutcome: the result is an event of the turn's output.  It ends the
\* outcome if the turn's completion holds it, not when the loop publishes it.
EvaluateOutcome ==
    LET result == [turn EXCEPT !.keyed = TRUE, !.graded = TRUE]
    IN  /\ pc = "grade"
        /\ \/ Ask(result, "end")
           \/ "fail" \in Replies /\ Fail(result)
           \/ /\ turn.grade < MaxGrades
              /\ NextRound([turn EXCEPT !.keyed = TRUE, !.grade = @ + 1])
           \/ /\ turn.grade = MaxGrades
              /\ NextRound([result EXCEPT !.acknowledging = TRUE])
        /\ UNCHANGED <<Outside, signals, lost, cursor, batch, barrier>>

\* Mutant: the Session runs again without an event that says so.
ResumeSilently ==
    /\ pc = "resume" /\ turn.trigger \notin processed /\ status = "rescheduling"
    /\ status' = "running"
    /\ pc' = "model"
    /\ UNCHANGED <<log, processed, pending, outcome, outbox, inputs, delivery,
                   signals, lost, cursor, batch, barrier, turn>>

\* lockWorkflowTrigger: the trigger has not been processed
TriggerOpen(t) == t \notin processed

\* flushOutput, then RecordWorkflowRetry.
RecordModelRetry ==
    /\ pc = "retry"
    /\ TriggerOpen(turn.trigger) /\ status = "running"
    /\ log' = Append(log, Event("rescheduled", turn.trigger, "none"))
    /\ status' = "rescheduling"
    /\ pc' = "backoff" /\ turn' = [turn EXCEPT !.try = @ + 1, !.keyed = FALSE]
    /\ UNCHANGED <<processed, pending, outcome, outbox, inputs, delivery,
                   signals, lost, cursor, batch, barrier>>

\* turnInterruptWatcher.wait: the ledger is read when the timer fires, too.
RetryTimer ==
    /\ pc = "backoff"
    /\ IF InterruptAfter(turn.trigger) # 0 THEN Ask(turn, "end")
                                           ELSE pc' = "resume" /\ UNCHANGED turn
    /\ UNCHANGED <<Outside, signals, lost, cursor, batch, barrier>>

\* ResumeWorkflowRetry
ResumeModelRetry ==
    /\ pc = "resume"
    /\ TriggerOpen(turn.trigger) /\ status = "rescheduling"
    /\ log' = Append(log, Event("running", turn.trigger, "none"))
    /\ status' = "running"
    /\ pc' = "model"
    /\ UNCHANGED <<processed, pending, outcome, outbox, inputs, delivery,
                   signals, lost, cursor, batch, barrier, turn>>

-----------------------------------------------------------------------------
(* Completion                                                              *)

\* turnEventsParked: what a replayed completion reports.
ReplayedDisposition(t) ==
    CASE status = "terminated" -> "terminated"
      [] status # "terminated" /\ \E s \in Seqs : log[s].turn = t /\ log[s].reason = "requires_action" ->
           "parked"
      [] OTHER -> "completed"

Replay ==
    /\ turn' = [turn EXCEPT !.disposition = ReplayedDisposition(turn.trigger)]
    /\ UNCHANGED ledger

\* Mutants: nothing is ever waiting; the turn's own trigger counts, too.
NothingWaits(t) == {}
TriggerWaits(t) == Unprocessed({"message"})

\* CountUnprocessedUserMessages, without the trigger of the turn that ends
Waiting(t) == Unprocessed({"message"}) \ {t}

\* The status events that end a turn.  An interrupted turn announces idle first,
\* a turn that goes on with the next message announces nothing.
Terminal(t, i, asked, reopen, reason) ==
    LET idle    == <<Event("idle", t, reason)>>
        running == <<Event("running", t, "none")>>
    IN  IF turn.ask = "ack" THEN <<>>
        ELSE IF i # 0 THEN idle \o IF reopen THEN running ELSE <<>>
        ELSE IF asked = "terminated" THEN <<Event("terminated", t, "none")>>
        ELSE IF reopen THEN <<>> ELSE idle

\* The interrupt that takes the end of the turn over, or 0.
InterruptOf(t) == IF log[t].type = "interrupt" THEN 0 ELSE InterruptAfter(t)

\* resolvePendingBarrierLocked: the barrier a turn resumed is resolved as a
\* whole, and only if its rows are still the ones that were resumed.
BarrierMatches(t) == turn.res # {} => Range(pending) = turn.res /\ t \in turn.res

Unresolved == IF turn.res # {} THEN NoRows ELSE pending

\* turnProcessedEventIDs
AnsweredBy(t) == IF turn.res = {} THEN {t} ELSE turn.res

\* completeTurn: under the Session lock an interrupt admitted after the trigger
\* takes the end of the turn over, the barrier the turn resumed is resolved,
\* and the Session stays running exactly if messages are waiting.
Commit ==
    LET t         == turn.trigger
        i         == InterruptOf(t)
        acts      == IF i # 0 THEN <<>> ELSE turn.acts
        gated     == DOMAIN Unresolved # {} \/ acts # <<>>
        exhausted == i = 0 /\ turn.ask = "exhausted"
        asked     == IF i = 0 /\ turn.ask = "fail" THEN "terminated" ELSE "idle"
        reopen    == asked = "idle" /\ ~gated /\ ~exhausted /\ Waiting(t) # {}
        reason    == IF gated THEN "requires_action"
                     ELSE IF exhausted THEN "retries_exhausted" ELSE "end_turn"
        asks      == [k \in DOMAIN acts |-> Event(acts[k], t, "none")]
        new       == (Len(log) + 1) .. (Len(log) + Len(acts))
    IN  /\ BarrierMatches(t)
        \* refused, and so retried: event ids that are in the ledger already
        /\ ~(turn.keyed /\ turn.committed)
        /\ log' = log \o asks \o Terminal(t, i, asked, reopen, reason)
        /\ processed' = processed \cup AnsweredBy(t) \cup ({i} \ {0})
                          \cup (IF exhausted THEN Waiting(t) ELSE {})
        /\ status' = IF reopen THEN "running" ELSE asked
        /\ pending' = [a \in DOMAIN Unresolved \cup new |->
                         IF a \in new THEN 0 ELSE Unresolved[a]]
        /\ outcome' = IF outcome = t /\ (i # 0 \/ turn.graded) THEN 0 ELSE outcome
        /\ outbox' = IF turn.res # {} /\ reopen THEN Len(log') ELSE outbox
        /\ turn' = [turn EXCEPT !.committed = TRUE, !.disposition =
                      IF status' = "terminated" THEN "terminated"
                      ELSE IF acts # <<>> THEN "parked" ELSE "completed"]

\* CompleteWorkflowTurn
CompleteTurn ==
    /\ pc = "finish"
    /\ IF AlreadyCompleted(turn.trigger) THEN Replay ELSE Commit
    /\ pc' = "reply"
    /\ UNCHANGED <<inputs, delivery, signals, lost, cursor, batch, barrier>>

TakeReply ==
    /\ pc = "reply"
    /\ TurnResult(turn.disposition)
    /\ UNCHANGED <<Outside, signals, lost, barrier>>

\* The Activity timed out or its worker died after the commit: it runs again.
LoseReply ==
    /\ pc = "reply" /\ lost < MaxLost
    /\ lost' = lost + 1 /\ pc' = "finish"
    /\ UNCHANGED <<Outside, signals, cursor, batch, barrier, turn>>

-----------------------------------------------------------------------------
WorkflowStep ==
    \/ ReceiveWakeup \/ EndDrain \/ LoadPendingActions \/ Gate \/ LoadEvents
    \/ EachEvent \/ PrepareTurn \/ StartModelRequest \/ Preflight
    \/ ObserveWakeup \/ (\E r \in Replies : CallModel(r)) \/ ExecuteTools
    \/ ResumeTools \/ StartEvaluation \/ EvaluateOutcome
    \/ RecordModelRetry \/ RetryTimer \/ ResumeModelRetry
    \/ CompleteTurn \/ TakeReply

RelayStep(r) == RelayRead(r) \/ RelayDeliver(r) \/ DeleteWakeupIfUnchanged(r)

Next ==
    \/ Admit \/ FastPathWake \/ WorkflowStep \/ LoseReply
    \/ \E r \in Relays : RelayStep(r) \/ RelayFail(r)

Spec == Init /\ [][Next]_vars

\* A deployed relay keeps polling and the Workflow keeps executing; Activities
\* retry without limit.  Clients and faults are under no obligation.
FairSpec ==
    /\ Spec
    /\ WF_vars(WorkflowStep)
    /\ \A r \in Relays : WF_vars(RelayStep(r))

-----------------------------------------------------------------------------
\* Ledger, rows, cursor and the Workflow's position are of their kinds, and every
\* sequence number names an event of the ledger.
TypeOK ==
    /\ log \in Seq([type : Inputs \cup TriggerTypes \cup {"interrupt"} \cup ResolutionTypes
                             \cup ActionTypes \cup StatusTypes,
                    turn : Nat,
                    reason : {"none", "end_turn", "requires_action", "retries_exhausted"}])
    /\ processed \subseteq Seqs
    /\ status \in {"idle", "running", "rescheduling", "terminated"}
    /\ DOMAIN pending \subseteq Seqs /\ Range(pending) \subseteq Seqs \cup {0}
    /\ {outcome, outbox, cursor} \subseteq Seqs \cup {0}
    /\ inputs \in 0 .. MaxInputs /\ fast \in BOOLEAN
    /\ relay \in [Relays -> [at : {"scan", "deliver", "delete"}, seq : Nat]]
    /\ signals \in 0 .. MaxSignals /\ lost \in 0 .. MaxLost
    /\ pc \in {"none", "wait", "pending", "gate", "load", "each", "prepare",
               "model", "call", "tool", "approved", "evaluate", "grade", "retry",
               "backoff", "resume", "finish", "reply", "drained", "close"}
    /\ Range(batch) \subseteq Seqs
    /\ turn.trigger \in Seqs \cup {0}

-----------------------------------------------------------------------------
(* Properties                                                              *)

\* "The status is a projection of committed events": the status column always
\* equals what the last status event of the ledger announces.
StatusIsProjection ==
    LET announced == {s \in Seqs : log[s].type \in StatusTypes}
        last      == IF announced = {} THEN "idle" ELSE log[Max(announced)].type
    IN  status = IF last = "rescheduled" THEN "rescheduling" ELSE last

\* sequence numbers in receipt order: at k is the one with k - 1 before it
InOrderOf(S) ==
    [k \in 1 .. Cardinality(S) |->
        CHOOSE s \in S : Cardinality({u \in S : u < s}) = k - 1]

\* The detailed Session implements the contract its client sees: messages leave
\* the queue one by one in receipt order, a wait holds them back, and the status
\* follows (session-lifecycle.md, "Public states"), whatever the Workflow, the
\* relays and the retries do.
Contract == INSTANCE SessionContract WITH
    queue   <- InOrderOf(Unprocessed({"message"})),
    waiting <- DOMAIN pending # {},
    stop    <- LET idles == {s \in Seqs : log[s].type = "idle"}
               IN  IF idles = {} THEN "none" ELSE log[Max(idles)].reason

ImplementsContract == Contract!Spec

\* There is work a drain would take up.
Runnable ==
    /\ status # "terminated"
    /\ \/ Unprocessed({"interrupt"}) # {}
       \/ DOMAIN pending # {} /\ FullyClaimed(pending)
       \/ DOMAIN pending = {} /\ Unprocessed({"message"}) # {}

\* Work is never left without a wakeup: when the Workflow is not draining, a
\* row of the outbox or a buffered Signal will make it (admitLocked,
\* completeTurn's wakeup, DeleteOutboxIfSeq, ListOutboxBatch without a lease).
NoLostWakeup ==
    Runnable /\ pc \in {"none", "wait", "drained"} => outbox # 0 \/ signals > 0

\* The cursor never passes work that is still to be done, so loading events
\* after it loses nothing (session_workflow.go: cursor advances monotonically).
CursorSafe ==
    status # "terminated" =>
        \A s \in Unprocessed(TriggerTypes \cup {"interrupt"}) : s > cursor

\* A turn publishes at most one end, also when its completion is retried after
\* a lost reply ("instead of applying it twice").
OneEndPerTurn ==
    \A s, u \in Seqs :
        /\ log[s].type \in {"idle", "terminated"} /\ log[s].turn # 0
        /\ log[u].type \in {"idle", "terminated"} /\ log[u].turn = log[s].turn
        => s = u

\* "idle means the Session is waiting for ordinary input or a required client
\* action": no message is queued and no outcome turn is still to run.
IdleMeansWaiting ==
    status = "idle" /\ DOMAIN pending = {} =>
        /\ Unprocessed({"message"}) = {}
        /\ outcome # 0 => \E s \in Seqs : log[s].type = "idle" /\ log[s].turn = outcome

\* Messages are finished in receipt order, and none while a barrier stays open
\* ("ordinary queued messages cannot overtake an in-flight resolution").
MessagesInOrder ==
    [][LET done == {s \in processed' \ processed : log'[s].type = "message"}
       IN  /\ \A s \in done, u \in Seqs :
                log[u].type = "message" /\ u < s => u \in processed'
           /\ done # {} => DOMAIN pending = {} \/ DOMAIN pending' = {}
      ]_vars

\* Every admitted message is answered in the end, or the Session terminates or
\* waits for the client.  Clients send finitely many, so that a message that was
\* never answered would keep the queue from ever being empty.
MessageSettles ==
    (Unprocessed({"message"}) # {}) ~>
        \/ Unprocessed({"message"}) = {}
        \/ status = "terminated" \/ ~FullyClaimed(pending)

\* A fully answered barrier is resumed in the end: its rows are resolved.
BarrierResumes ==
    (DOMAIN pending # {} /\ FullyClaimed(pending)) ~>
        (~FullyClaimed(pending) \/ DOMAIN pending = {})

\* "an already-durable interrupt cannot be stranded": it is processed.
InterruptSettles ==
    (Unprocessed({"interrupt"}) # {}) ~> (Unprocessed({"interrupt"}) = {})

\* Completing a turn is "one idempotent PostgreSQL transaction": the Activity is
\* accepted in the end, however often it is retried after it has committed.
CompletionAccepted == (pc = "finish") ~> (pc = "reply")

\* "Retryable provider responses ... atomically move through
\* session.status_rescheduled": a retry that is due takes place.
RetryProceeds == (pc = "retry") ~> (pc = "backoff")

\* The Session makes progress: what clients sent is settled, and no step of a
\* turn is refused for ever.
SessionProgress ==
    /\ MessageSettles
    /\ InterruptSettles
    /\ RetryProceeds
    /\ CompletionAccepted
=============================================================================
