---------------------------- MODULE ThreadRuntime ----------------------------
(***************************************************************************)
(* A multi-agent Session: the coordinator's primary Thread, the child      *)
(* Threads it delegates to, their independent Workflows, and the outbox    *)
(* that wakes and terminates them.  Every Thread has a status of its own   *)
(* and the Session shows an aggregate of them.                             *)
(*                                                                         *)
(* The receipt order and the cursor of one ledger are SessionRuntime's     *)
(* subject.  Here a ledger is abstracted to its events that still await    *)
(* processing, a turn to the steps at which it touches the Thread row, and *)
(* a barrier to one pending action.  The primary never parks.              *)
(* Sources: internal/pg/multiagent_runtime.go, session_threads.go,         *)
(* thread_completion.go, thread_retry.go, store.go, pending.go,            *)
(* internal/temporal/session_thread_workflow.go, relay.go, signaler.go.    *)
(***************************************************************************)
EXTENDS Naturals, Sequences, FiniteSets, SequencesExt, FiniteSetsExt

CONSTANTS
    Primary,         \* the coordinator's Thread
    Children,        \* identities of child Threads
    MaxThreads,      \* maxConcurrentSessionThreads
    ThreadRelays,    \* relay processes
    PrimaryOutcomes, \* how a turn of the coordinator may end
    ChildOutcomes,   \* how a turn of a child may end
    MaxUserMessages, \* bound: user messages admitted
    MaxSends,        \* bound: send_to_agent calls
    MaxInterrupts,   \* bound: user interrupts admitted
    MaxModelRetries, \* bound: retryable model failures
    MaxParks,        \* bound: turns of children that ask for an action
    MaxFaults        \* bound: lost replies and failed deliveries

Threads == Children \cup {Primary}

\* a final answer, no text, a pending action, retries used up, a fatal error
Outcomes == {"report", "silent", "park", "exhausted", "terminate"}

ASSUME ThreadRuntimeAssumption ==
    /\ Primary \notin Children
    /\ MaxThreads \in Nat \ {0}
    /\ PrimaryOutcomes \subseteq Outcomes \ {"park"} /\ ChildOutcomes \subseteq Outcomes
    /\ {MaxUserMessages, MaxSends, MaxInterrupts, MaxModelRetries, MaxParks, MaxFaults}
         \subseteq Nat

VARIABLES
    threadStatus,  \* session_threads.status; "absent" before the insert
    archived,      \* Threads with archived_at
    sessionStatus, \* sessions.status
    announced,     \* the last session.status_* event on the primary ledger
    inbox,         \* per Thread: its unprocessed events, in order
    gate,          \* Threads with an unresolved pending action
    threadOutbox,  \* thread_orchestration_outbox.intent, "none" without a row
    held,          \* the row a relay works on
    flow,          \* the Workflow of each Thread
    counts         \* how much of each bound is used

threadVars == <<threadStatus, archived, sessionStatus, announced, inbox, gate,
                threadOutbox, held, flow, counts>>

Use(what, max) ==
    /\ counts[what] < max
    /\ counts' = [counts EXCEPT ![what] = @ + 1]

NoRow == [thread |-> Primary, intent |-> "none", fresh |-> FALSE, delivered |-> FALSE]

NoFlow == [pc |-> "none", signal |-> FALSE, at |-> 0, reply |-> "none"]

ThreadInit ==
    /\ threadStatus = [t \in Threads |-> IF t = Primary THEN "idle" ELSE "absent"]
    /\ archived = {} /\ sessionStatus = "idle" /\ announced = "idle"
    /\ inbox = [t \in Threads |-> <<>>]
    /\ gate = {}
    /\ threadOutbox = [t \in Threads |-> "none"]
    /\ held = [r \in ThreadRelays |-> NoRow]
    /\ flow = [t \in Threads |-> NoFlow]
    /\ counts = [c \in {"message", "send", "interrupt", "retry", "park", "fault"} |-> 0]

-----------------------------------------------------------------------------
(* Projections and the outbox                                              *)

Ended(t) == t \in archived \/ threadStatus[t] = "terminated"

\* aggregateSessionThreadStatus, over the Threads that are not archived
AggregateStatus(st, arch) ==
    LET live == {st[t] : t \in {u \in Threads \ arch : st[u] # "absent"}}
    IN  CASE "running" \in live      -> "running"
          [] "running" \notin live /\ "rescheduling" \in live -> "rescheduling"
          [] live \subseteq {"terminated"} -> "terminated"
          [] OTHER -> "idle"

\* Session status s, with an event when the code writes one.
Project(s, event) ==
    /\ sessionStatus' = s
    /\ announced' = IF event THEN s ELSE announced

\* updateAggregateStatusLocked; no event says that the Session terminated.
UpdateAggregateStatus(st) ==
    LET s == AggregateStatus(st, archived)
    IN  Project(s, s # sessionStatus /\ s # "terminated")

\* UpsertOutbox, UpsertThreadOutbox: a wake never replaces a termination.
UpsertThreadOutbox(ts) ==
    /\ threadOutbox' = [t \in Threads |->
         IF t \in ts /\ threadOutbox[t] # "terminate" THEN "wake" ELSE threadOutbox[t]]
    /\ held' = [r \in ThreadRelays |->
         IF held[r].thread \in ts THEN [held[r] EXCEPT !.fresh = FALSE] ELSE held[r]]

UpsertThreadTermination(t) ==
    /\ threadOutbox' = [threadOutbox EXCEPT ![t] = "terminate"]
    /\ held' = [r \in ThreadRelays |->
         IF held[r].thread = t THEN [held[r] EXCEPT !.fresh = FALSE] ELSE held[r]]

-----------------------------------------------------------------------------
(* Admission of client events                                              *)

\* admitLocked for a user.message: the coordinator has work; an idle Session
\* reopens, a rescheduling one does not.
AdmitUserMessage ==
    /\ sessionStatus # "terminated"
    /\ Use("message", MaxUserMessages)
    /\ inbox' = [inbox EXCEPT ![Primary] = Append(@, "message")]
    /\ threadStatus' = [threadStatus EXCEPT ![Primary] = "running"]
    /\ IF sessionStatus = "idle" THEN Project("running", TRUE)
                                 ELSE UNCHANGED <<sessionStatus, announced>>
    /\ UpsertThreadOutbox({Primary})
    /\ UNCHANGED <<archived, gate, flow>>

\* routeClientDraftsLocked: an interrupt that names a Thread goes to it alone,
\* one that names none to the coordinator and every active child.
RouteInterrupt(target) ==
    IF target # "all" THEN {target}
    ELSE {t \in Threads : t = Primary \/ (threadStatus[t] # "absent" /\ ~Ended(t))}

\* admitLocked for a user.interrupt: control, it makes nothing running
AdmitThreadInterrupt ==
    \E target \in {t \in Threads : threadStatus[t] # "absent" /\ ~Ended(t)} \cup {"all"} :
       /\ sessionStatus # "terminated"
       /\ Use("interrupt", MaxInterrupts)
       /\ inbox' = [t \in Threads |-> IF t \in RouteInterrupt(target)
                                        THEN Append(inbox[t], "interrupt") ELSE inbox[t]]
       /\ UpsertThreadOutbox(RouteInterrupt(target))
       /\ UNCHANGED <<threadStatus, archived, sessionStatus, announced, gate, flow>>

\* admitLocked for the answer to a child's action: the barrier is claimed, the
\* child reopens and is woken in the same transaction.
AdmitChildResult(c) ==
    /\ sessionStatus # "terminated"
    /\ c \in gate /\ ~Contains(inbox[c], "result")
    /\ ~Ended(c)
    /\ inbox' = [inbox EXCEPT ![c] = Append(@, "result")]
    /\ threadStatus' = [threadStatus EXCEPT ![c] = "running"]
    /\ IF sessionStatus = "idle" THEN Project("running", TRUE)
                                 ELSE UNCHANGED <<sessionStatus, announced>>
    /\ UpsertThreadOutbox({c})
    /\ UNCHANGED <<archived, gate, flow, counts>>

-----------------------------------------------------------------------------
(* Delivery                                                                *)

\* Relay.RunOnce, ListWakeupsForDelivery
RelayReadThread(r, t) ==
    /\ held[r].intent = "none" /\ threadOutbox[t] # "none"
    /\ held' = [held EXCEPT ![r] = [thread |-> t, intent |-> threadOutbox[t],
                                    fresh |-> TRUE, delivered |-> FALSE]]
    /\ UNCHANGED <<threadStatus, archived, sessionStatus, announced, inbox, gate,
                   threadOutbox, flow, counts>>

\* Signaler.WakeThread: starts the Workflow when it is closed
WakeThread(t) ==
    flow' = [flow EXCEPT ![t].signal = TRUE, ![t].pc = IF @ = "none" THEN "wait" ELSE @]

\* Signaler.TerminateThread
TerminateThread(t) == flow' = [flow EXCEPT ![t] = NoFlow]

RelayDeliverThread(r) ==
    /\ held[r].intent # "none" /\ ~held[r].delivered
    /\ IF held[r].intent = "wake" THEN WakeThread(held[r].thread)
                                  ELSE TerminateThread(held[r].thread)
    /\ held' = [held EXCEPT ![r].delivered = TRUE]
    /\ UNCHANGED <<threadStatus, archived, sessionStatus, announced, inbox, gate,
                   threadOutbox, counts>>

\* DeleteThreadWakeupIfUnchanged: only the row that was read is deleted.
DeleteThreadWakeupIfUnchanged(r) ==
    /\ held[r].delivered
    /\ threadOutbox' = IF held[r].fresh /\ threadOutbox[held[r].thread] = held[r].intent
                         THEN [threadOutbox EXCEPT ![held[r].thread] = "none"]
                         ELSE threadOutbox
    /\ held' = [held EXCEPT ![r] = NoRow]
    /\ UNCHANGED <<threadStatus, archived, sessionStatus, announced, inbox, gate,
                   flow, counts>>

\* The delivery fails, or the relay stops before the delete.
RelayFailThread(r) ==
    /\ held[r].intent # "none"
    /\ Use("fault", MaxFaults)
    /\ held' = [held EXCEPT ![r] = NoRow]
    /\ UNCHANGED <<threadStatus, archived, sessionStatus, announced, inbox, gate,
                   threadOutbox, flow>>

-----------------------------------------------------------------------------
(* The Workflows                                                           *)

Goto(t, pc) == flow' = [flow EXCEPT ![t].pc = pc]

\* the Thread row and the ledgers are left alone
LedgerUnchanged ==
    UNCHANGED <<threadStatus, archived, sessionStatus, announced, inbox, gate,
                threadOutbox, held>>

\* sessionThreadWorkflow waits for a wakeup and drains.
ReceiveThreadWakeup(t) ==
    /\ flow[t].pc = "wait" /\ flow[t].signal
    /\ flow' = [flow EXCEPT ![t].pc = "drain", ![t].signal = FALSE]
    /\ LedgerUnchanged /\ UNCHANGED counts

First(t, type) == SelectInSeq(inbox[t], LAMBDA e : e = type)

\* What a drain takes up next: 0 when it parks or the ledger is empty.  While a
\* barrier is open only an interrupt gets through, and once it is answered an
\* interrupt that came before the answer still goes first.
NextEvent(t) ==
    LET i == First(t, "interrupt")
        r == First(t, "result")
    IN  IF t \in gate THEN IF i # 0 /\ (r = 0 \/ i < r) THEN i ELSE r
        ELSE IF inbox[t] = <<>> THEN 0 ELSE 1

EndThreadDrain(t) ==
    /\ flow[t].pc = "drain" /\ NextEvent(t) = 0
    /\ Goto(t, "wait")
    /\ LedgerUnchanged /\ UNCHANGED counts

BeginThreadTurn(t) ==
    /\ flow[t].pc = "drain" /\ NextEvent(t) # 0
    /\ inbox[t][NextEvent(t)] # "interrupt"
    /\ flow' = [flow EXCEPT ![t].pc = "start", ![t].at = NextEvent(t)]
    /\ LedgerUnchanged /\ UNCHANGED counts

\* the first unprocessed interrupt after event i of the ledger, or 0
InterruptAfterEvent(t, i) ==
    LET later == {j \in DOMAIN inbox[t] : j > i /\ inbox[t][j] = "interrupt"}
    IN  IF later = {} THEN 0 ELSE Min(later)

Interrupted(t) == InterruptAfterEvent(t, flow[t].at) # 0

\* StartModelRequest, preceded by a look for interrupts; AppendWorkflowEvents
\* refuses, and is retried, unless the Session is running.
StartThreadModelRequest(t) ==
    /\ flow[t].pc = "start"
    /\ \/ Interrupted(t) /\ Goto(t, "interrupted")
       \/ ~Interrupted(t) /\ sessionStatus = "running" /\ Goto(t, "model")
    /\ LedgerUnchanged /\ UNCHANGED counts

\* A wakeup that arrives during a turn makes it look for an interrupt.
ObserveThreadWakeup(t) ==
    /\ flow[t].pc \in {"start", "model", "backoff"} /\ flow[t].signal
    /\ flow' = [flow EXCEPT ![t].signal = FALSE,
                            ![t].pc = IF Interrupted(t) THEN "interrupted" ELSE @]
    /\ LedgerUnchanged /\ UNCHANGED counts

\* RecordThreadWorkflowRetry, recordPrimaryThreadWorkflowRetryLocked
RecordThreadWorkflowRetry(t) ==
    /\ flow[t].pc = "model" /\ threadStatus[t] = "running"
    /\ Use("retry", MaxModelRetries)
    /\ threadStatus' = [threadStatus EXCEPT ![t] = "rescheduling"]
    /\ UpdateAggregateStatus(threadStatus')
    /\ Goto(t, "backoff")
    /\ UNCHANGED <<archived, inbox, gate, threadOutbox, held>>

\* ResumeThreadWorkflowRetry: a child that is not rescheduling is a conflict.
ResumeThreadWorkflowRetry(c) ==
    /\ c \in Children
    /\ flow[c].pc = "backoff" /\ threadStatus[c] = "rescheduling"
    /\ threadStatus' = [threadStatus EXCEPT ![c] = "running"]
    /\ UpdateAggregateStatus(threadStatus')
    /\ Goto(c, "start")
    /\ UNCHANGED <<archived, inbox, gate, threadOutbox, held, counts>>

\* resumePrimaryThreadWorkflowRetryLocked: a coordinator that already runs is
\* taken for a replay and nothing is recomputed.
ResumePrimaryWorkflowRetry ==
    /\ flow[Primary].pc = "backoff"
    /\ \/ /\ threadStatus[Primary] = "running"
          /\ UNCHANGED <<threadStatus, sessionStatus, announced>>
       \/ /\ threadStatus[Primary] = "rescheduling"
          /\ threadStatus' = [threadStatus EXCEPT ![Primary] = "running"]
          /\ UpdateAggregateStatus(threadStatus')
    /\ Goto(Primary, "start")
    /\ UNCHANGED <<archived, inbox, gate, threadOutbox, held, counts>>

-----------------------------------------------------------------------------
(* The coordinator's tools                                                 *)

\* the concurrent Threads, without archived ones
LiveThreads == {t \in Threads \ archived : threadStatus[t] # "absent"}

\* A send without an id starts a child, unless the limit is reached.
NewChild(c) == threadStatus[c] = "absent" /\ Cardinality(LiveThreads) < MaxThreads

\* Mutant: an archived child takes messages again.
ExistingChildAnyStatus(c) == threadStatus[c] # "absent"

\* A send with an id goes to a child that has not ended.
ExistingChild(c) == threadStatus[c] # "absent" /\ ~Ended(c)

\* executeSendToAgentLocked: message, status, wake in one transaction; the
\* Session becomes running without an event of its own.
ExecuteSendToAgent(c) ==
    /\ flow[Primary].pc = "model"
    /\ sessionStatus # "terminated"
    /\ Use("send", MaxSends)
    /\ NewChild(c) \/ ExistingChild(c)
    /\ inbox' = [inbox EXCEPT ![c] = Append(@, "message")]
    /\ threadStatus' = [threadStatus EXCEPT ![c] = "running"]
    /\ Project("running", FALSE)
    /\ UpsertThreadOutbox({c})
    /\ UNCHANGED <<archived, gate, flow>>

\* ArchiveSessionThread: an idle or rescheduling child is ended for good; a
\* second request installs the termination again (a row still there is kept).
ArchiveSessionThread(c) ==
    /\ threadStatus[c] \notin {"absent", "running"}
    /\ c \in archived => threadOutbox[c] = "none" /\ Use("fault", MaxFaults)
    /\ c \notin archived => UNCHANGED counts
    /\ archived' = archived \cup {c}
    /\ threadStatus' = [threadStatus EXCEPT ![c] = "terminated"]
    /\ inbox' = [inbox EXCEPT ![c] = <<>>]
    /\ gate' = gate \ {c}
    /\ IF c \in archived THEN UNCHANGED <<sessionStatus, announced>>
       ELSE LET s == AggregateStatus(threadStatus', archived')
            IN  Project(s, s # sessionStatus \/ (s = "idle" /\ c \in gate))
    /\ UpsertThreadTermination(c)
    /\ UNCHANGED flow

-----------------------------------------------------------------------------
(* Completion                                                              *)

\* an exhausted turn marks the queued messages processed
Flush(s) ==
    LET kept[i \in 0..Len(s)] ==
          IF i = 0 THEN <<>>
          ELSE IF s[i] = "message" THEN kept[i - 1] ELSE Append(kept[i - 1], s[i])
    IN  kept[Len(s)]

Drop(s, i) == IF i = 0 THEN s ELSE RemoveAt(s, i)

\* the ledger of t once trigger i is done: an interrupt that took the turn over
\* goes with it, an exhausted turn flushes the queued messages
Rest(t, i, outcome) ==
    LET j    == IF inbox[t][i] = "interrupt" THEN 0 ELSE InterruptAfterEvent(t, i)
        left == Drop(Drop(inbox[t], j), i)
    IN  IF outcome = "exhausted" /\ j = 0 THEN Flush(left) ELSE left

\* What a turn on trigger i comes to: an interrupt wins over every outcome.
Effective(t, i, outcome) ==
    IF inbox[t][i] # "interrupt" /\ InterruptAfterEvent(t, i) # 0 THEN "silent" ELSE outcome

\* the barrier after the turn: closed by its resume, opened by a park
Gated(t, i, outcome) ==
    outcome = "park" \/ (t \in gate /\ inbox[t][i] # "result")

\* the Thread's own status after the turn
OwnerStatus(t, i, outcome) ==
    CASE outcome = "terminate" -> "terminated"
      [] outcome # "terminate" /\ ~Gated(t, i, outcome) /\ outcome # "exhausted"
           /\ Contains(Rest(t, i, outcome), "message") -> "running"
      [] OTHER -> "idle"

\* Mutant: the report is queued and the coordinator is not woken.
CommitChildNoWake(c, i, o, reports) ==
    LET st == [threadStatus EXCEPT ![c] = OwnerStatus(c, i, o)]
        s  == AggregateStatus(st, archived)
    IN  /\ threadStatus' = st
        /\ inbox' = [inbox EXCEPT ![c] = Rest(c, i, o),
                                  ![Primary] = IF reports THEN Append(@, "message") ELSE @]
        /\ gate' = IF Gated(c, i, o) THEN gate \cup {c} ELSE gate \ {c}
        /\ Project(s, s # "terminated" /\ s # sessionStatus)
        /\ UNCHANGED <<threadOutbox, held>>

\* CompleteThreadWorkflowTurn of a child: its report is queued on the
\* coordinator's ledger, which reopens and is woken unless it has ended.
CommitChild(c, i, o, reports) ==
    LET st    == [threadStatus EXCEPT ![c] = OwnerStatus(c, i, o)]
        wakes == reports /\ ~Ended(Primary)
        st2   == IF wakes /\ st[Primary] = "idle" THEN [st EXCEPT ![Primary] = "running"] ELSE st
        s     == AggregateStatus(st2, archived)
        moved == o = "park" \/ (c \in gate /\ ~Gated(c, i, o))
    IN  /\ threadStatus' = st2
        /\ inbox' = [inbox EXCEPT ![c] = Rest(c, i, o),
                                  ![Primary] = IF reports THEN Append(@, "message") ELSE @]
        /\ gate' = IF Gated(c, i, o) THEN gate \cup {c} ELSE gate \ {c}
        /\ Project(s, s # "terminated" /\ (s # sessionStatus \/ (s = "idle" /\ moved)))
        /\ IF wakes THEN UpsertThreadOutbox({Primary}) ELSE UNCHANGED <<threadOutbox, held>>

\* Mutant: only the coordinator's own turn is looked at.
NoActiveChildren == FALSE

\* HasActiveChildThreads
ActiveChildren ==
    \E c \in Children \ archived : threadStatus[c] \in {"running", "rescheduling"}

\* completeTurn of the coordinator: the Session does not go idle while a child
\* is active, and then no idle event is written.
CommitPrimary(i, o) ==
    LET own == OwnerStatus(Primary, i, o)
        s   == IF own = "idle" /\ ActiveChildren THEN "running" ELSE own
    IN  /\ threadStatus' = [threadStatus EXCEPT ![Primary] = own]
        /\ inbox' = [inbox EXCEPT ![Primary] = Rest(Primary, i, o)]
        /\ Project(s, s # "running" \/ (Effective(Primary, i, "report") = "silent" /\ own = "running"))
        /\ UNCHANGED <<gate, threadOutbox, held>>

Commit(t, i, o, reports) ==
    IF t = Primary THEN CommitPrimary(i, o) ELSE CommitChild(t, i, o, reports)

\* What the Workflow does after the turn (threadDrainBoundary).
Disposition(t, o) ==
    CASE o = "terminate" -> "terminated" [] o = "park" -> "parked" [] OTHER -> "next"

\* A turn ends: CompleteWorkflowTurn commits it.  A Thread that has ended
\* meanwhile takes nothing, and its Workflow stops.
CompleteThreadTurn(t) ==
    /\ flow[t].pc \in {"model", "interrupted"}
    /\ \E outcome \in {"silent"} \cup (IF t = Primary THEN PrimaryOutcomes ELSE ChildOutcomes),
          last \in BOOLEAN :
         LET i == flow[t].at
             o == Effective(t, i, outcome)
         IN  /\ flow[t].pc = "interrupted" => outcome = "silent" /\ ~last
             /\ outcome = "silent" => ~last
             /\ t = Primary => ~last
             /\ outcome \in {"report", "terminate"} /\ t # Primary => last
             /\ IF outcome = "park" THEN Use("park", MaxParks) /\ ~last ELSE UNCHANGED counts
             /\ IF t # Primary /\ Ended(t)
                  THEN /\ flow' = [flow EXCEPT ![t].pc = "reply", ![t].reply = "terminated"]
                       /\ UNCHANGED <<threadStatus, inbox, gate, sessionStatus, announced,
                                      threadOutbox, held>>
                  ELSE /\ Commit(t, i, o, last /\ o = outcome)
                       /\ flow' = [flow EXCEPT ![t].pc = "reply", ![t].reply = Disposition(t, o)]
    /\ UNCHANGED archived

\* The reply is lost: the Activity runs again and replays what it finds.
ReplayThreadTurn(t) ==
    /\ flow[t].pc = "reply"
    /\ Use("fault", MaxFaults)
    /\ flow' = [flow EXCEPT ![t].reply = IF t # Primary /\ Ended(t) THEN "terminated" ELSE @]
    /\ LedgerUnchanged

\* Mutant: the trigger of the finished turn is kept.
TakeReplyKeepsTrigger(t) ==
    /\ flow[t].pc = "reply"
    /\ Goto(t, CASE flow[t].reply = "terminated" -> "none" [] flow[t].reply = "parked" -> "wait"
                 [] OTHER -> "drain")
    /\ LedgerUnchanged /\ UNCHANGED counts

TakeThreadReply(t) ==
    /\ flow[t].pc = "reply"
    /\ flow' = [flow EXCEPT ![t] =
         IF flow[t].reply = "terminated" THEN NoFlow
         ELSE [NoFlow EXCEPT !.pc = IF flow[t].reply = "parked" THEN "wait" ELSE "drain",
                             !.signal = flow[t].signal]]
    /\ LedgerUnchanged /\ UNCHANGED counts

\* acknowledgeIdleInterrupt: an interrupt outside a turn is a turn of its own.
AcknowledgeThreadInterrupt(t) ==
    /\ flow[t].pc = "drain" /\ NextEvent(t) # 0
    /\ inbox[t][NextEvent(t)] = "interrupt"
    /\ Commit(t, NextEvent(t), "silent", FALSE)
    /\ UNCHANGED <<archived, flow, counts>>

ThreadNext ==
    \/ AdmitUserMessage \/ AdmitThreadInterrupt
    \/ \E c \in Children : \/ AdmitChildResult(c) \/ ExecuteSendToAgent(c)
                           \/ ArchiveSessionThread(c) \/ ResumeThreadWorkflowRetry(c)
    \/ \E r \in ThreadRelays : \/ \E t \in Threads : RelayReadThread(r, t)
                               \/ RelayDeliverThread(r) \/ DeleteThreadWakeupIfUnchanged(r)
                               \/ RelayFailThread(r)
    \/ ResumePrimaryWorkflowRetry
    \/ \E t \in Threads : \/ ReceiveThreadWakeup(t) \/ EndThreadDrain(t)
                          \/ BeginThreadTurn(t) \/ StartThreadModelRequest(t)
                          \/ ObserveThreadWakeup(t) \/ RecordThreadWorkflowRetry(t)
                          \/ CompleteThreadTurn(t) \/ ReplayThreadTurn(t)
                          \/ TakeThreadReply(t) \/ AcknowledgeThreadInterrupt(t)

ThreadSpec == ThreadInit /\ [][ThreadNext]_threadVars

\* Relays poll for ever and Temporal runs every Activity and timer until it
\* succeeds.  Clients and the coordinator's model owe nothing.
ThreadFairness ==
    /\ \A r \in ThreadRelays : WF_threadVars(\/ \E t \in Threads : RelayReadThread(r, t)
                                             \/ RelayDeliverThread(r)
                                             \/ DeleteThreadWakeupIfUnchanged(r))
    /\ WF_threadVars(ResumePrimaryWorkflowRetry)
    /\ \A c \in Children : WF_threadVars(ResumeThreadWorkflowRetry(c))
    /\ \A t \in Threads : WF_threadVars(\/ ReceiveThreadWakeup(t) \/ EndThreadDrain(t)
                                        \/ BeginThreadTurn(t) \/ StartThreadModelRequest(t)
                                        \/ CompleteThreadTurn(t) \/ TakeThreadReply(t)
                                        \/ AcknowledgeThreadInterrupt(t))

FairThreadSpec == ThreadSpec /\ ThreadFairness

-----------------------------------------------------------------------------
(* Properties                                                              *)

\* Statuses, ledgers and intents are of the kinds the tables allow, and a turn's
\* trigger is an event of its ledger until the turn is committed.
ThreadTypeOK ==
    /\ threadStatus \in [Threads -> {"absent", "idle", "running", "rescheduling", "terminated"}]
    /\ archived \subseteq Children /\ gate \subseteq Children
    /\ {sessionStatus, announced} \subseteq {"idle", "running", "rescheduling", "terminated"}
    /\ inbox \in [Threads -> Seq({"message", "interrupt", "result"})]
    /\ threadOutbox \in [Threads -> {"none", "wake", "terminate"}]
    /\ \A t \in Threads : flow[t].at \in 0..Len(inbox[t]) \/ flow[t].pc = "reply" \/ Ended(t)

\* A Thread that has something to do is being worked on, or a wakeup for it is
\* on its way: no message, answer, interrupt or report is stranded.
ThreadNoLostWakeup ==
    \A t \in Threads : ~Ended(t) /\ NextEvent(t) # 0 =>
        threadOutbox[t] # "none" \/ flow[t].signal \/ flow[t].pc \notin {"none", "wait"}

\* The Session is idle only when none of its Threads is at work, and clients
\* have been told so by an event.
IdleSessionIsQuiet ==
    /\ sessionStatus = "idle" =>
         \A t \in Threads \ archived : threadStatus[t] \notin {"running", "rescheduling"}
    /\ sessionStatus = "idle" <=> announced = "idle"

\* An archived child is frozen: nothing is queued on it, no step revives it.
ArchivedThreadFrozen ==
    [][\A c \in archived : /\ c \in archived' /\ threadStatus'[c] = "terminated"
                           /\ inbox'[c] = <<>> /\ c \notin gate']_threadVars

\* A message sent to a Thread, and a report sent back, is answered, unless the
\* Thread ends or waits for a client.
DelegationSettles ==
    \A t \in Threads : Contains(inbox[t], "message") ~>
        (~Contains(inbox[t], "message") \/ Ended(t) \/ t \in gate)

\* The Workflow of an archived child is stopped.
ArchivedThreadStops ==
    \A c \in Children : (c \in archived) ~> (flow[c].pc = "none")

\* Work handed to a Thread is finished, and a Thread that is archived stops: the
\* outbox and the Workflows get there whatever is coalesced on the way.
ThreadProgress == DelegationSettles /\ ArchivedThreadStops

\* A model request that is to be retried is retried.
ThreadRetryProceeds ==
    \A t \in Threads : flow[t].pc = "backoff" ~> flow[t].pc \notin {"backoff", "start"}

=============================================================================
