# TLA+ models of the Mango session runtime

Mango is a self-hosted runtime for long-running agent Sessions: an HTTP control
plane, a PostgreSQL ledger that is the source of truth, Temporal Workflows that
drain it, and tools that run in sandboxes, at MCP servers or inside the runtime.
What makes it hard is that every step may be repeated: Temporal re-executes an
Activity whose worker fell silent while the silent worker is still running,
Signals are lost or duplicated, clients interrupt and answer at any moment, and
the only thing that ties it together is what each PostgreSQL transaction checks
under its locks. This project models the runtime and what surrounds it, checks
it with TLC, and proves the safety of its core, for every instance, with TLAPS.

Paths below are relative to `internal/`.

## 1. Inventory

| Component | State it keeps | Operations | Talks to |
|---|---|---|---|
| Tool-execution journal (`pg/journal.go`, `ExecuteTool` in `temporal/activities.go`) | `turn_attempts`, `tool_steps` | EnsureAttempt, EnsureToolStep, StartToolStep, CompleteToolStep, MarkToolStepAmbiguous, finishAttemptLocked | called by the turn loop through a retried Activity; closed by the turn's completion |
| Session ledger and admission (`pg/store.go`, `pg/pending.go`, `pg/turn_completion.go`) | `events`, `sessions.status`, `pending_actions`, outcome | AdmitEvents, AppendWorkflowEvents, RecordWorkflowRetry, ResumeWorkflowRetry, CompleteTurn | API processes and Activities, always under the Session row lock |
| Orchestration outbox, relay, direct signal (`pg/outbox.go`, `temporal/relay.go`, `signaler.go`, `orchestrator.go`) | one coalescing row a Session and a Thread, with an intent | enqueue, read, deliver, delete if unchanged, fastPathWake | ledger → Temporal `SignalWithStart` |
| SessionWorkflow and turn loop (`temporal/session_workflow.go`, `agent_workflow*.go`, `interrupt_workflow.go`) | cursor, loaded batch, turn state | drain, barrier gate, turn, model retry, interrupt watch, completion | Activities on the ledger, the journal, the model |
| Child Session Threads (`temporal/session_thread_workflow.go`, `pg/session_threads.go`, `thread_completion.go`, `thread_retry.go`, `multiagent_runtime.go`) | thread rows, thread outbox, aggregated status | send, report, park, retry, interrupt, archive, terminate | coordinator tools, parent Session status |
| Sandbox binding (`sandbox/session.go`, `pg/sandbox.go`) | provisioning intents, bindings, process cache | Acquire, AcquireExisting, Release, ReconcileProvisioning | providers |
| Session deletion (`controlplane/session_service.go`, `temporal/lifecycle_reconciler.go`, `sandbox_cleanup_workflow.go`) | `deleting_at` | prepare, terminate, clean up, finalize, resume | PostgreSQL, Temporal, provider |
| Sandbox providers (`sandbox/docker.go`, `e2b.go`, `daytona.go`, `opensandbox.go`, `local.go`) | boxes, Docker's host directories | Create, Attach, Destroy, reap | sandbox manager, external services |
| Environment work (`pg/environment_work.go`) | work rows with poll, ack and heartbeat times | enqueue, Poll, Ack, Heartbeat, Stop | self-hosted workers |
| Budgets (`pg/budget.go`, `domain/budget.go`) | ceiling, usage rows, paused Threads | AdmitModelRequest, AccountModelRequest, update | turn loops of all Threads |
| Memory stores (`pg/memory.go`, `app/session_memory_materializer.go`) | heads and versions, the copy in a sandbox | API writes, converge | tools, API clients |
| Files, outputs, Skills (`pg/files.go`, `pg/skills.go`, `app/file_service.go`, ...) | rows and objects | upload, copy, publish, pin, delete, reconcile | object store, API, workers |
| Materialisation (`sandbox/remote_file_resources.go`, `git_repositories.go`, `remote_skills.go`, Docker twins) | marker, staging, target | Has, Import, Remove | sandbox files |
| Vaults (`pg/vault.go`, `app/vault_oauth.go`) | credentials | create, rotate, archive, delete, refresh | OAuth servers |
| Deployments (`pg/deployment.go`, `app/deployment_service.go`) | schedule, claim, runs | ClaimDue, RunScheduled, CompleteSchedule, edits | Session creation |
| Live event stream (`live/nats.go`, `app/stream.go`) | tail cursor, frame buffer | publish, reconcile, forward, drop | SSE clients |
| Agents, environments, Session creation (`pg/resources.go`, `app/agent_service.go`, `controlplane/session_service.go`) | versions, rosters, archive marks | create, update, archive, delete, admit a Session | all API clients |
| HTTP API (`httpapi/`, `pg/api_store.go`) | none; cursors are with the client | decode, list, encode | everything above |
| Model context and provider transcript (`pg/transcript.go`, `pg/context_snapshots.go`, `temporal/context.go`, `domain/message.go`, `domain/context.go`) | transcript rows, tool-use mappings, context snapshots | rebuild, resume, compact, record, close | turn loop, ledger |
| Model and MCP clients (`model/`, `mcpclient/`) | none | network I/O | turn loop |

**Interactions.** An API process admits events in one transaction that appends
to the ledger, claims barrier rows, changes the status and writes the outbox
row; it then signals Temporal directly if it lives long enough. A relay delivers
the row at least once and deletes it only if it has not been coalesced with a
later event. The Workflow, woken by a Signal that carries nothing, reads the
ledger from its cursor and runs one turn for each trigger. A coordinator's tools
write messages into the ledgers of child Threads, each with a Workflow and an
outbox row of its own, and the Session's status is aggregated over them. Inside a
turn each tool call is an `ExecuteTool` Activity that moves one journal row from
prepared over started to completed or ambiguous; a tool that needs a sandbox
acquires the bound one, materialises the Session's resources in it and writes
memory back. `CompleteWorkflowTurn` commits output, barrier, status and the
attempt's end together. Deletion fences the row, terminates the Workflows, has a
worker release the sandbox, and only then removes the row.

**What has to be right.** Journal: a tool that acts on the world runs at most
once for a call, and the journal never hides or rewrites what happened. Ledger:
the status is what the events say, messages are answered in order and never
overtake a barrier, a repeated completion is recognised. Delivery: no work without
a wakeup, for Sessions and for Threads. Sandbox: one box for all tools, no box
nobody knows of, deletion that ends. Control plane: one worker a lease, one run an
occurrence, streams and lists without gaps, a request paid once, a client's write
never undone by a slower process. Data: rows and objects agree, a mount is whole
or absent. Context: every request shows the model a legal conversation in which
nothing that was settled is missing or repeated. The hazards, each at its line, are in `PROJECT.json`.

## 2. Modules

| Module | What it is |
|---|---|
| `ToolJournal` | One turn's tool calls: Workflow, Temporal's dispatch, every execution of `ExecuteTool` step by step, the journal rows, the completion |
| `ToolJournalProofs` | The inductive invariant and the theorems about `ToolJournal` |
| `SessionContract`, `SessionContractProofs` | What the client of a Session is promised, and what that entails |
| `SessionRuntime` | Ledger, admission, outbox, relays, SessionWorkflow and turns of one Session; implements `SessionContract` |
| `SessionRuntimeProofs` | The inductive invariant of a Session, seven theorems about `SessionRuntime`, and that it implements `SessionContract` |
| `ThreadRuntime` | A coordinator and its child Threads: delegation, reports, archival, the outbox with wake and terminate, the aggregated status |
| `ThreadRuntimeProofs`, `SandboxLifecycleProofs` | Inductive invariants and theorems about Threads and the sandbox |
| `SandboxDataProofs` | The same about mounts, providers, files, memory stores and the model context, and about their composition |
| `ControlPlaneProofs`, `CatalogProofs` | The same about leases, budgets, credentials, deployments, streams and the control plane as a whole; about the catalogue and the lists |
| `SandboxLifecycle` | Intent, provisioning, binding, election, release and reconciliation by several workers, and the deletion of the Session around it |
| `SandboxProviders` | What five providers do behind Create, Attach and Destroy |
| `EnvironmentWork` | Leases of self-hosted work |
| `Deployment` | Schedule, claims, runs and the edits of the user |
| `LiveStream` | One SSE subscription between lossy hints and the ledger |
| `Listing` | Keyset pagination of every list of the API |
| `Budget` | Ceiling, admission, accounting, pause and resume for several Threads |
| `Vault` | Refresh of OAuth credentials against rotation, archival, deletion |
| `Catalog` | Agents with versions and rosters, environments, and the admission of Sessions against them, under PostgreSQL's row locks |
| `MemoryStore` | Memories with versions, written by API clients and by the writeback of tools |
| `FileStore` | Files, Session outputs, resources and Skill versions as rows and objects |
| `Materializer` | How a file, a repository or a Skill gets to its path and off it |
| `ModelContext` | The messages of a Thread's model requests: transcript or ledger, resumption, compaction, the rows a turn leaves |
| `MCToolJournal`, `MCSessionRuntime`, `MCThreadRuntime`, `MCSandboxLifecycle`, `MCCatalog` | Instances for TLC |
| `MCControlPlane`, `MCSandboxData` | Instances that run components without shared state side by side: `part` names the one that moves |

### ToolJournal

`attempt`, `state` and `result` are the rows of `turn_attempts` and
`tool_steps`; `effects[k]` counts how often the world was touched for call `k`
and is history only. Each slot in `Workers` holds one execution of the Activity:
`pc` is the next transaction or external call it will make, `seen` the row that
`EnsureToolStep` showed it, `reply` the result it holds. `task`, `cur` and `lost`
are Temporal's view: whether the Activity is scheduled, which execution's answer
it will accept, how many it has given up on. An execution that `LoseHeartbeat`
abandoned keeps running with its context cancelled, which is why only the calls
on the request's context may fail (`ContextCancelled`) while the journal write
after the effect still happens (`durableCtx`). `wf`, `step`, `named`,
`preflight`, `cancel`, `verdict` and `told` are the Workflow's variables;
`told[k]` is the result it took for call `k`, which is what the model reads.

One action is one transaction or one external call. `Proceed` is the switch of
`ExecuteTool` on the row's state: it depends on the kind of tool. A started
built-in or MCP call is marked ambiguous, a started advisor is completed with a
synthetic result, a Skill runs again, a coordinator call is one transaction that
both acts and records. `CompleteTurn` is `CompleteWorkflowTurn` with
`finishAttemptLocked`: it is *disabled* exactly when PostgreSQL would refuse, and
since the Activity retries without limit, "refused for ever" is "never enabled".

### SessionRuntime and SessionContract

`log` is the event table of the primary Thread, in sequence; `processed` the
events with `processed_at`; `status` the column; `pending` the unresolved
`pending_actions` with the event that claimed each; `outcome` the active
outcome; `outbox` the coalescing row's `max_event_seq`. `relay`, `fast` and
`signals` are deliveries under way. `pc`, `cursor`, `batch`, `barrier` and
`turn` are the Workflow. Transactions hold the Session row lock, so that each is
one action; between two Activities anything may happen. Output events of a turn
(text, tool use, usage) are left out of `log`; the flag `turn.keyed` remembers
that the output holds events with ids the Workflow chose, because a second
insert of them is refused.

The model's answer is a choice from `Replies`: end, park on client actions, call
tools, pause or be truncated (continued in a further round), overflow the context
(compacted and sent again once a round), fail retryably, fail. Approved tools of
a resumed turn run before its first round. The answer of an outcome turn is graded:
the turn ends, revises, or, with its evaluations used up, makes one more round.
Tools of a round are one step here, because `ToolJournal` has their detail;
`Budget` has the admission of a request, `FileStore` the publication of outputs,
`ThreadRuntime` the Sessions with more than one Thread.

`SessionContract` has four variables. `SessionRuntime` maps its `queue` to the
unprocessed messages in sequence, `waiting` to the existence of pending rows,
`stop` to the reason of the last idle event, and `status` to itself; TLC checks
`Contract!Spec` as a property. What the contract says is not in any transaction:
that a message that finds the Session idle starts it, that the turn that resumes
a barrier takes nothing from the queue, that an idle Session that waits for
nobody has an empty queue, and that an interrupt never swallows a message.

### ThreadRuntime

`inbox[t]` is the unprocessed part of the ledger of Thread `t`, `gate` the Threads
with an open pending action, `threadOutbox` the intent of each outbox row, `held`
what a relay has read, `flow[t]` the Workflow of `t`. `announced` is the last
status event of the Session. `ExecuteSendToAgent` is the transaction of the
coordinator's tool: it creates a child or finds the live one, appends the message,
sets the status and upserts the wake. `Commit` is the end of a turn for both kinds
of owner: it processes the trigger, reports to the coordinator, reopens or ends
the Thread, recomputes the aggregate and writes the wakeups. A terminate intent
absorbs later wakes (`UpsertThreadOutbox`). What a single ledger does in detail
(cursor, batches, barriers of several actions) is `SessionRuntime`'s.

### SandboxLifecycle and SandboxProviders

Each worker has one `SessionManager`, whose mutex makes its operations on a
Session one at a time; `worker[w].pc` is the next call to PostgreSQL or to the
provider. `FailWorker` is an error, a timeout or a death at any of these calls, and
`LoseElection` the loser of `PutSandboxBinding`. `cleanup` is Temporal's view of
`SandboxCleanupWorkflow`, `deleter` the two processes (the API call and the
reconciler) that carry a deletion through. `SandboxProviders` opens up
`CreateBox`, `Attach` and `DestroyBox`: which lookup a provider uses, whether it
refuses a second box of the same name, and, for Docker, the host directory that
every container mounts and the reaper that removes the unused ones. Its clock ages
a directory; `CreateTimeout < Grace` is the assumption under which the reaper is
right (an Activity that creates has timed out before its directory is stale).

### The control plane

`EnvironmentWork`: the clock, the rows with their NULLs as 0, and what each worker
believes about its lease. A lease that is stopped by force is the documented
exception to exclusion and is remembered in `forced`. An admission takes two steps:
`EnqueueEnvironmentWork` decides on the committed items, and `CommitAdmission` makes
event and item visible (or `AbortAdmission` neither); `admitting` holds the decision
in between. One is under way at a time, because admission locks the Session's row.
`StopWork` locks its item only and sees the committed input; where it has to queue a
successor it waits for an uncommitted item of an admission, as the unique index makes
it do. Input that is committed after the live item it was left to has stopped is
remembered in `overtaken`. `Deployment`: an occurrence
is claimed, looked up, run (the Session and its run are one transaction) and
completed in separate steps by several schedulers, while the user edits.
`LiveStream`: hints and previews may be lost, delayed and reordered; `tail` is the
goroutine's state. `Listing`: a list is a record (key, orders, cursor, what may
happen to its rows) with the parameters its cursor is bound to; all 18 queries and
19 handlers are in the run. `Budget`: one unit a request and a unit of runtime;
`nudge` is the wakeup a resumed Thread gets. `Vault`: a token is the grant it comes
from and its generation. `Catalog`: READ COMMITTED is modelled as it is: a
statement decides on its snapshot, waits for the locks of the rows it found, then
sees their last contents and no new rows. A version the client expects explicitly
only adds refusals and is left out.

### Data in sandboxes

`MemoryStore`: `heads` and `versions` are the tables, `mtool[t]` a tool with its
copy; `Synced` is the one transaction of `SyncMemoryStore`, refused on the first
head that is not the baseline's. `FileStore`: one row and one object an
identifier; API requests, worker attempts and the startup pass interleave, and
an attempt may fail or die at any step (`AttemptFails`); a mount that one leaves
behind although its resource has gone is remembered in `leftover`.
`Materializer`: one import or removal at a time in a sandbox
(`sandbox/remote_resource_sync.go:11-14`), marker uploads are atomic, a remote
`Has` of a Skill looks at `SKILL.md` only; a tool with root may damage a Skill.

### ModelContext

`ledger` holds the public events of one Thread with the trigger of the turn that
wrote them, `rows` the `provider_transcript_turns` (what a turn represents, its
messages, its mappings from public to provider ids), `snapshots` the
`thread_context_snapshots`, `awaited` the open barrier. `PrepareTurn` chooses the
transcript if `Covers` finds every prior trigger in it and every awaited action has
a provider id, and the ledger (`HistoryThrough`, `ProjectMessages`) otherwise, then
compacts and records or reuses the snapshot; `cturn.msgs` is the request from
there on and `cturn.delta` what the turn will add to the transcript. The response
ends, continues, asks for tools or cannot be used; `ExecuteTools`, `Resume` and
their interrupted and failing forms add results; `CompleteTurn` commits output,
row, barrier and processed marks, and repairs the delta if an interrupt won.
Messages are sequences of blocks that carry the identities of what they show; a
summary carries all it replaced. Sizes are left out: a request may be found too
large at any time and be cut at any message. `ContextInit` is a new Session or one
whose first turn is older than transcripts. What a client sends is read at the
turn's completion, and an interrupt whenever the turn looks, so admission at one
place of a turn stands for all; events that `flushOutput` publishes early are whole
tool rounds, which the interrupt projection keeps, and appear at completion here.

## 3. Runs

All run with two TLC workers and finish in under four minutes.
Deadlock checking is off, because these systems may stop: clients send finitely
many events, and every component is at rest when its bounds are used up.

| Run | Instance | Properties | Result |
|---|---|---|---|
| `tool_journal` | advisor, coordinator, Skill and MCP call in one turn; 2 overlapping executions, 2 losses, interrupt; fair | TypeOK, AtMostOnce, NoHiddenEffect, ToldIsDurable, ClosedAttemptSettled, ClassificationIsFinal, ToolCallAnswered | hold |
| `session_turns` | messages and interrupts, 2 inputs in batches of up to 2, retries, failures, 2 relays, 1 fault; fair | TypeOK, StatusIsProjection, NoLostWakeup, CursorSafe, OneEndPerTurn, ImplementsContract, SessionProgress | hold |
| `session_barrier` | messages, barriers of an approval and a custom result, 4 inputs, tool rounds, continuations, overflows, 1 fault | IdleMeansWaiting, MessagesInOrder | hold |
| `session_resume` | messages, an outcome with 2 evaluations, barriers of two actions, failures, 4 inputs; fair | BarrierResumes | holds |
| `threads` | coordinator and child; a message, 2 sends, an interrupt, a retry, a park, 1 fault | ThreadTypeOK, ThreadNoLostWakeup, IdleSessionIsQuiet, ArchivedThreadFrozen | hold |
| `threads_progress` | coordinator and child; a message, a send, an interrupt, a park, no fault; fair | ThreadProgress | holds |
| `threads_retry` | coordinator; 2 messages, a retry; fair | ThreadRetryProceeds | **violated**, finding 1 |
| `sandbox` | 2 workers, 3 boxes, 1 tool, 1 fault, deletion; fair | SandboxTypeOK, ToolsShareTheBoundBox, NoOrphanBox, DeletionCompletes | hold |
| `sandbox_memory` | as above with a memory store and no fault; fair | DeletionCompletes | **violated**, finding 2 |
| `control_plane` | work, deployment, stream, lists, budget, vault, catalog side by side | ControlTypeOK, WorkIsExact, ScheduleIsExact, StreamIsExact, EveryRowListed, BudgetIsExact, ClientRotationWins, ReadsAreRechecked | hold |
| `sandbox_data` | memory, files, providers, materialisation, model context side by side | DataTypeOK, MemoryIsConsistent, FilesAreConsistent, ProvidersAreIdempotent, MountIsExact, ContextIsExact | hold |
| `environment_deleted` | one Agent, 2 clients, 2 calls | NoOrphanedSession | **violated**, finding 3 |

**Bounds.** Two executions are enough to have a stale one beside its
replacement, and two losses let both roles be lost in turn (the proofs remove
both bounds). Four calls give one of each kind of tool; a built-in is an MCP call
without transport errors. Two to four client events hold what the ordering
arguments need: a turn, something queued behind it, and the answers of a barrier
or an interrupt. `BatchLimit` 2 makes a batch end in the middle of the queue;
`MaxSignals` 2 tells one buffered Signal from more than one; `MaxTries` 2 has a
retry and an exhaustion; `MaxRounds` 2 a tool round and its limit, `MaxMore` 1 a
continuation and its limit, `MaxGrades` 2 a revision and the exhaustion of the
evaluations. `MaxLost` bounds lost replies, failed deliveries and relay crashes
together. Threads: one child is every role a Thread has towards the coordinator,
two sends are a message queued behind another; the coordinator does not park.
Sandbox: two workers, so that one can lose the election or die beside the other,
and a third box for the retry. Work: three items and a clock of 3 with leases of 1
let an item expire, be recovered and have a successor. Deployment: two schedulers,
two occurrences, two edits. Stream: two requests, a buffer of two. Lists: pages of
one row, four rows, timestamps that coincide. Budget: a ceiling below, at and above
what is spent. Vault: two credentials, two resolvers, two refreshes. Catalog: a
coordinator and a member, two concurrent calls, three versions. Data: two tools of
a Session and one path, two files, two attempts, one restart, two provider faults,
two cuts of an import and an identity that replaces another. Context: two messages,
one queued behind the turn of the other; a Skill, or a tool beside an approval and
a client's tool; two model rounds, a barrier, an interrupt, a compaction and a
retried preparation. Three messages with a Skill beside an approval were checked as
well (2.8 million states) and are too slow for the run.

**Fairness.** `FairSpec` of `ToolJournal` is weak fairness of the Workflow's
steps, of Temporal's dispatch of a scheduled Activity, of each live execution
and of `CompleteTurn`: Activities have unlimited attempts
(`temporal/session_workflow.go:46-59`) and workers poll. `FairSpec` of
`SessionRuntime` is weak fairness of the Workflow and of each relay's polling
loop (`temporal/relay.go`); the direct signal has none, since its process may
die, so that what holds, holds through the outbox alone. `ThreadFairness` is the
same for every Thread's Workflow and its retry timer. `SandboxFairness` is weak
fairness of each worker's steps, of the cleanup Activity that Temporal schedules
again, of the periodic `ReconcileProvisioning`, and of the lifecycle reconciler;
the API process that began a deletion has none. Nothing obliges a client to act, a
worker to die or a message to be lost.

**Properties worth a remark.** `NoLostWakeup` relates the ledger to the outbox
and Temporal's buffer whenever the Workflow is not draining, and fails if the
relay deletes a coalesced row or a drain forgets a Signal; `ThreadNoLostWakeup` is
the same for every Thread and fails if a child's report does not wake the
coordinator. `CursorSafe` fails if the cursor follows a resolution, whose sequence
is higher than that of messages queued before it. `OneEndPerTurn` and the part
`CompletionAccepted` of `SessionProgress` are the two halves of idempotence: a
repeated completion is neither applied twice nor refused. `IdleSessionIsQuiet`
ties the aggregate to all Threads and to what was announced. `NoOrphanBox` fails if
the intent is dropped before the binding is written. `ToolsOverwriteWhatTheySaw`
(in `MemoryIsConsistent`) fails if the three-way comparison goes by identity
instead of content. `ClientRotationWins` fails if the refresh is not conditional on
the row it read. `ContextIsExact` speaks of every request, whichever turns before it
parked, resumed, failed or were interrupted: its roles alternate, each tool use is
answered in the next message, each processed message, published result and loaded
Skill is in it exactly once; it fails if a transcript that misses a turn is used. It
excepts the histories of findings 17 and 18 by name (`Overtaken`, `Unrepresented`).
`RosterAdmissible` (in `ReadsAreRechecked`) fails without the
implicit pin of the owner's version. `ActivationKept` (in `WorkIsExact`) and
`StaleMountsAreLeftovers` (in `FilesAreConsistent`) are what remains of two claims of
comments in the code, `NoLostActivation` and `NoStaleMount`, which findings 20 and 21
refute: the exception is the history variable `overtaken` or `leftover`, nothing else.

## 4. Findings

Checked by a run that expects the violation:

1. **A message during the coordinator's model retry** (`threads_retry`). Admission
   sets the primary Thread running and leaves the Session rescheduling
   (`pg/store.go:894-905`); the retry then resumes nothing (`:1745`) and its request
   is refused for ever (`:1445`).
2. **Deletion of a Session with a memory store and no sandbox** (`sandbox_memory`).
   `ReleaseSandbox` acquires a sandbox for the writeback, the deletion fence refuses
   to provision one, and the cleanup never succeeds (`temporal/activities.go:2699`).
3. **Deletion of an environment while a Session is created** (`environment_deleted`).
   The `NOT EXISTS` is decided in a snapshot older than the Session whose lock the
   DELETE waits for (`pg/resources.go:482`).

Found with other values of the constants, or with a property that is kept out of
the runs so that the rest can be checked:

4. *A failed outcome turn ends twice.* A repeated completion of an outcome's turn is
   recognised by the outcome being over (`pg/store.go:2102-2122`), but a turn that
   fails leaves it active: if the reply is lost, the end is committed again, against
   the comment at `:2108-2109` ("instead of applying it twice"). Once the output holds
   events whose ids the turn has chosen, the repetition is refused instead (finding
   9). `OneEndPerTurn` with input outcome, replies end and fail, and `MaxLost = 1`.
5. *An interrupt before the first tool call's attempt exists.* The Workflow notes
   the attempt id before the Activity inserts the row
   (`temporal/agent_workflow_tools.go:488`); cancelled in between, the completion
   names an attempt that does not exist. `TurnSettles` of `ToolJournal` with
   `Kind <- MCBuiltinKinds`, `NSteps = 1`, `MaxLost = 0`, interrupts on.
6. *A fatal Skill result* after `StartToolStep` leaves the step started
   (`temporal/activities.go:2140`); `finishAttemptLocked` refuses the failing
   completion for ever. `TurnSettles` with `MCSkillKinds`, `NSteps = 2`, interrupts
   off.
7. *An interrupt that precedes the last answer of a barrier* is acknowledged after
   it, and the Session becomes idle without an event; so is one that precedes a
   `define_outcome`, because only messages count as waiting. `StatusIsProjection` with
   `MCAskPark` and inputs message and interrupt, or with inputs outcome and interrupt.
   The turn that the answered barrier resumes then finds no running Session, and
   its `StartModelRequest` is refused (`pg/store.go:1445`) until a client sends
   something else: `BarrierResumes` with the same inputs.
8. *Retries after a custom result or in an outcome's turn* cannot be recorded,
   because their trigger is stamped processed on receipt and `lockWorkflowTrigger`
   refuses it (`pg/store.go:1781`). `RetryProceeds` with `MCCustomPark` and replies
   park and retry.
9. *A repeated completion of an outcome turn* whose evaluations are used up is not
   recognised and inserts event ids that exist (`pg/store.go:2122`).
   `CompletionAccepted` with input outcome and `MaxLost = 1`.
10. *`IdleMeansWaiting` with outcomes:* a message's turn that ends with a
   `define_outcome` queued behind it makes the Session idle for a moment, since
   `CountUnprocessedUserMessages` (`pg/queries/queries.sql:164-178`) counts messages
   only.
11. *The ascending list of events* orders by `processed_at` with NULLS LAST
    (`pg/api_store.go:737-838`): an event processed between two pages moves to a
    place before the cursor and is never listed, against `docs/api/events.md:135-139`.
    `EveryRowListed` with `EventQuery` ascending, `MaxStamp = 4`, `MaxRowMoves = 0`.
12. *Archive of an Agent* (`pg/resources.go:109-162`) racing an update removes the
    Skill pins of a version it did not archive, against the comment at `:121-125`.
    `ActiveVersionPinned` of `Catalog` with three clients, versions and calls.
13. *Budget pause and admission:* a message that arrives while the coordinator is
    paused by its budget makes the paused Thread running (`pg/store.go:894-905`),
    against `docs/api/sessions.md:261`. `PausedThreadIsIdle` of `Budget`.
14. *Memory writeback:* the copy of a tool whose write was refused is replaced on the
    next convergence, and with two tools in one sandbox nobody may report it
    (`app/session_memory_materializer.go:139`). `DiscardedWritesAreReported` of
    `MemoryStore`.
15. *Restart of the API beside a publishing worker:* the startup pass removes an
    upload that a worker still writes, and the worker completes it without its object,
    against `docs/api/files.md:118,126-127`. `FilesAreConsistent` with
    `QuietRestarts = FALSE`.
16. *Terminated is not final with Threads.* When the coordinator terminates while a
    child works, the Session becomes terminated, and the child's next retry or commit
    recomputes the aggregate and revives it, against
    `docs/architecture/session-lifecycle.md:33`. `PrimaryOutcomes` with terminate.
    In the window of finding 1 the Session is also rescheduling while its primary
    Thread is running, against `docs/api/session-threads.md:34`.
17. *A message queued behind a barrier whose resumption is interrupted.* The resumed
    turn commits no transcript delta and so no row (`pg/store.go:2402`), and
    `transcriptCoversPriorTurns` (`temporal/activities.go:1376`) looks for triggers
    before the queued message only, not for the answers, which came later: the
    transcript is used although its last tool use is unanswered, and the request is
    the unpaired one that `domain/message.go:115-116` calls illegal. `RequestsLegal` of
    `ModelContext` alone, with the bounds of `sandbox_data`.
18. *The ledger's order of an answered barrier.* Where the transcript misses a turn,
    history is rebuilt in receipt order (`pg/store.go:1304`). A message that waited
    behind the barrier precedes its answer: its own turn does not see what the resumed
    turn did, against the comment at `:1298` that later turns retain that output, and
    a later turn sees tool use and result apart. `NothingForgotten` with three and
    `RequestsLegal` with four messages, `ToolBatches` a single custom tool, no
    interrupts or compactions.
19. *A Skill reattached while a barrier resumes* follows the assistant's tool use, so
    that the tool result comes after text in its message, although
    `agentruntime/skills.go:263` takes care of that order elsewhere. Seen with
    `ToolBatches` a Skill beside an approval and one compaction.
20. *An admission that commits after Stop.* `EnqueueEnvironmentWork` is
    `INSERT ... ON CONFLICT DO NOTHING` in the admission's transaction
    (`pg/store.go:939`): it finds a live item and does not lock it. `StopWork` locks
    the item only, does not see the uncommitted event, stops the item and queues no
    successor (`pg/environment_work.go:384-404`). The admission then commits input
    that no item covers until a later admission queues one, against the comment at
    `:380-383` that the successor "closes the admission-before-Stop race".
    `NoLostActivation` of `EnvironmentWork`, with one runner, `MaxWork = 3`,
    `MaxWorkEvents = 2`, `MaxWorkTime = 2` and the rest 1, violated after 5 steps.
21. *A mount left by an attempt that failed.* `Reconcile` returns before its
    revalidation when the import reports an error, with the bytes possibly in place
    (`sandbox/remote_file_resources.go:123,145,148`), when the lookup fails or when
    the removal does (`app/session_resource_materializer.go:111,138,145`), and the
    worker may die in between. If another attempt has finalized the tombstone, the
    resource is not listed again and the mount stays, against the comment at
    `:117-119` ("so a late attempt cannot keep a resource whose tombstone another
    attempt already finalized"). `NoStaleMount` of `FileStore`, with `MaxFiles = 2`, one
    request, two attempts, no outputs and no restarts, violated after 14 steps.

Limits of the code that the properties step around, as the code's comments or docs
do: providers without unique names may keep the loser's box when two workers create
at once; a worker that lives on after the Session is gone can leave a box behind
(`NoOrphanBox` speaks of live Sessions); a forced Stop may overlap the stopped
worker; a stale scheduler may pause a deployment again after Unpause; two updates of
an environment that read the same row both succeed and the later wins.

## 5. Proofs

`ToolJournalProofs` proves, for every number of calls, every assignment of kinds,
every set of workers and every number of losses, from `ToolJournalAssumption`
(the constants have their types and `None` is no worker):

| Theorem | Statement |
|---|---|
| `TypeCorrect` | `Spec => []TypeOK` |
| `ToolRunsAtMostOnce` | `Spec => []AtMostOnce` |
| `EffectsAreJournalled` | `Spec => []NoHiddenEffect` |
| `ResultsAreDurable` | `Spec => []ToldIsDurable` |
| `ClosedAttemptsStaySettled` | `Spec => []ClosedAttemptSettled` |
| `ClassificationStands` | `Spec => ClassificationIsFinal` |

The argument. `AtMostOnce` is not inductive: it says nothing of an execution
that is about to run the tool. `RunInv` adds that of the executions that overlap
on a call that is no Skill, at most one is between `StartToolStep` and the
effect, and then nobody has run it. It holds because only a prepared row can be
started, under the row's lock, and starting it makes it started. That no later
execution finds the row prepared again needs `KnowledgeInv`: an execution that is
about to act or to write knows that its row has begun, and an execution that is
about to return a result knows that the row holds this result. `ControlInv` ties
the execution Temporal waits for to the call the Workflow is making, so that an
accepted answer is an answer to that call; `ToldIsDurable` follows.
`JournalInv` is the conjunction of all of them with `TypeOK`. There is one lemma
for each conjunct (`TypeStep`, `ControlStep`, `KnowledgeStep`, `EffectStep`,
`RunStep`, `ToldStep`, `ClosedStep`), each with a step for every action, and
`JournalStep` states once what a step may do to the journal, from which
`ClassificationStands` and most of the others draw. `ExecutionInv` names the parts
of it that speak of executions; it is the proof's strengthening and not one of
the runs' properties.

`SessionContractProofs` proves `StatusTrue`: the contract entails, for queues of
any length, that an idle Session that waits for nobody has nothing queued and
that a terminated one does not wait.

### The Session

`SessionRuntimeProofs` proves, for every set of relays, every choice of inputs,
replies and parking turns, and every bound, from `SessionRuntimeAssumption` (the
constants have their types; the bounds a loop counts up to are positive):

| Theorem | Statement |
|---|---|
| `SessionTypes` | `Spec => []TypeOK` |
| `CursorSafety` | `Spec => []CursorSafe` |
| `SessionWakeups` | `Spec => []NoLostWakeup` |
| `InOrder` | `Spec => MessagesInOrder` |
| `OneEnd` | `Spec => []("outcome" \notin Inputs \/ "fail" \notin Replies => OneEndPerTurn)` |
| `Projection` | `Spec => []("interrupt" \notin Inputs \/ ("outcome" \notin Inputs /\ Parks = {}) => StatusIsProjection)` |
| `IdleWaits` | `Spec => []("outcome" \notin Inputs => IdleMeansWaiting)` |
| `Refinement` | `"outcome" \notin Inputs` and `"interrupt" \notin Inputs \/ Parks = {}` entail `Spec => ImplementsContract` |

The hypotheses of `OneEnd`, `Projection` and `IdleWaits` are findings 4, 7 and 10:
without them the properties are false of the code, and TLC shows it on at most two
events. Those of `Refinement` are finding 7, after which a Session with queued
messages is idle, and the scope of the contract, which knows no outcomes. The runs that
check the properties satisfy them.

The argument. None of the properties is inductive. A completion that reports
"completed" moves the cursor past its trigger, so `CursorSafe` needs that the trigger
has been processed by then and that it is the event behind the cursor. That is known
only because the turn began with the head of a batch and the batch is what follows
the cursor. `SessionInv` carries such facts through the Workflow, one part for each
thing it relies on:

- `BatchFollows`, `BarrierRead` and `TurnSubject` tie what the Workflow has read
  (batch, barrier, trigger, resolutions) to the ledger, which admission may extend at
  any moment: rows are only claimed further, a barrier appears through a turn's
  commit alone, and an interrupt admitted during a turn has a higher number than its
  trigger.
- `TurnProgress` says where a turn may still be uncommitted, unrecognised or have
  chosen ids. A repetition of a committed completion (`LoseReply`) is recognised by
  `AlreadyCompleted`, or is refused, or is the one case of finding 4.
- `DispositionTrue` ties the disposition in the reply, first or replayed, to the
  ledger: "parked" has been announced there, "terminated" is the status.
- `TerminationStands` and `EndsAreEnds` make an end final: its trigger is processed
  and no row claims it, so that no later turn has the same trigger. `OneEndPerTurn`
  follows, as far as an outcome that failed does not get in.
- `WakeupsComing` strengthens `NoLostWakeup` in three places: a relay that is about
  to delete the row it delivered counts only with the Signal it sent; a Workflow that
  was told "parked" is already asleep; at the gate, a barrier that was read before its
  last claim has a wakeup on the way.
- `IdleIsDrained`, `FailsInLoop` and `StatusFollows` relate the status to the queue and
  to the place in the loop. `TerminationStands`, `IdleIsDrained` and `CursorBehind`
  need no hypothesis.

One lemma per action (`AdmitStep`, `GateStep`, ... , `CompleteTurnStep`) shows that it
keeps `SessionInv`. Most steps of a turn change the turn alone and share
`ProceedStep`, those of the drain `DrainStep`, those of relays `DeliveryStep`.
Admission and completion are first reduced to what they do to the ledger
(`Admission`, `Completion`), so that the proof of each part of the invariant does not
look into their bodies. A completion is one of four: replayed (`ReplayStep`), the
silent acknowledgement of an interrupt (`AcknowledgeStep`), first (`CompletionStep`),
or repeated without being recognised (`RecommitStep`). TLC checked `SessionInv` by simulation,
on instances with all inputs, parks and replies, before it was proved.

`Refinement` maps the contract's queue to the unprocessed messages in the order of
their numbers (`InOrderOf`). The library's operators on sequences of a set say
nothing to the prover, so the queue is characterised by what determines it, the
number of messages below each one: a message that is admitted is the end of the
queue (`QueueGrows`), and one that is processed was its head if no unprocessed
message precedes it (`QueueShrinks`). What the contract's guards ask of a step and
`SessionInv` does not know is `ContractInv`. A turn takes the first message
(`InReceiptOrder`), and a message waits while a barrier is open (`BarrierFollows`,
`AnswersRun`). A turn under way runs in a Session that is running (`TurnIsLive`).
The hard part is the end of a Session. A late wakeup may start the Workflow of a
terminated Session again, at cursor 0: it must then first find the message whose
turn failed, and commit nothing that the contract forbids after the end
(`TerminationFollows`, `TerminationIsTold`). One lemma per step of the contract
says which change of the ledger is that step; `CompletionMoves` and
`CompletionStop` assign a turn's commit to one of them, a repeated one to a stutter.
TLC checked `ContractInv` before it was proved.

### Threads

`ThreadRuntimeProofs` proves, for every set of Threads and relays, every bound on
messages, interrupts and faults and every set of outcomes:

| Theorem | Statement |
|---|---|
| `ThreadTypes` | `ThreadSpec => []ThreadTypeOK` |
| `ThreadWakeups` | `ThreadSpec => []("terminate" \notin PrimaryOutcomes => ThreadNoLostWakeup)` |
| `SessionQuiet` | `ThreadSpec => []("terminate" \notin PrimaryOutcomes => IdleSessionIsQuiet)` |
| `ArchivedFrozen` | `ThreadSpec => ArchivedThreadFrozen` |

The hypothesis is the finding about a coordinator that ends in a fatal error: its
Session is terminated and its Threads are left as they are, and both properties
are then false of the code. `ThreadTypes` and `ArchivedFrozen` need no hypothesis.

The argument. `ThreadNoLostWakeup` excuses a Workflow that is at work, so it is
not inductive: the commit of a turn may leave the Workflow asleep a step later,
and the deletion of an outbox row may take away the only wakeup. `WakeupOnItsWay`
closes both gaps. A Workflow counts as asleep (`Asleep`) from the moment its turn
has been answered "parked", and a relay that has delivered a row and is about to
delete it (`Delivered`) guarantees that the signal is still there: a row that was
upserted in between is no longer fresh and is not deleted. For a turn's commit to
report truly whether anything is left, the turn's trigger has to be what it was
when the turn began: `TriggerInLedger` says that it is the answer to the barrier
or the first message, that no interrupt precedes it, and that events are only
appended behind it. `OneResult` bounds the answers of a barrier. An archived child
is frozen because `EndedIsFinal` and `TerminationsAreArchived` leave no interrupt
that would revive it and no termination for a child that lives. `IdleSessionIsQuiet`
needs `PrimaryLives`: the status that is published is an aggregate over all
Threads (`AggregateFacts`), and the coordinator is running or retrying while
messages wait for it. `ThreadInv` is the conjunction. One lemma per action, over a
layer of lemmas about the operators (`FlushFacts`, `NextEventFacts`, `RestFacts`,
`Upserted`, `Appended`) shows that it is kept.

### Sandboxes

`SandboxLifecycleProofs` proves, for every set of workers and deleters and every
number of boxes, tools and faults, from `SandboxAssumption` (the constants have
their types, and "none" and "due" are no workers):

| Theorem | Statement |
|---|---|
| `SandboxTypes` | `SandboxSpec => []SandboxTypeOK` |
| `ToolsShare` | `SandboxSpec => []ToolsShareTheBoundBox` |
| `OrphanFree` | `SandboxSpec => [](UniqueNames => NoOrphanBox)` |

`OnlyReadyBoxes` says that whatever a worker may take for usable (the binding, its
cache, its own box once it is about to bind) has had its setup; `LiveIsQuiet` that
nobody releases the sandbox of a live Session; `LiveBinding` that in a live Session
the winner's binding names an existing box until the reconciler clears it.
`OneAnnouncedBox` is what makes the create-before-binding window safe: with unique
names there is at most one box, and before it is bound the intent that announces it
is on record or a worker holds it. Without unique names the loser of a race can
leave a box behind, so the theorem states the hypothesis.

### Mounts, providers, files and memory stores

`SandboxDataProofs` proves, for every number of resources attached at a path, of
crashes, workers, sandboxes, directories and lost answers, for every number of
files, API requests, overlapping attempts, outputs and restarts of the API, and
for every set of Sessions, tools and paths of a memory store, any limit, any
number of writes of API clients and of interrupted refreshes:

| Theorem | Statement |
|---|---|
| `MountExact` | `MaterializerSpec => []MountIsExact` |
| `ProvidersIdempotent` | `ProviderSpec => []ProvidersAreIdempotent` |
| `FilesConsistent` | `QuietRestarts = TRUE` entails `FileStoreSpec => []FilesAreConsistent` |
| `HistoryIsKept` | `MemorySpec => [](MemoryIsConsistent /\ MemoryTypeOK)` |
| `ContextTypes` | `ContextSpec => [](ContextTypeOK /\ SnapshotIsShown)` |
| `SandboxDataHolds` | `QuietRestarts = TRUE` entails that `DataSpec` keeps `DataTypeOK` and all of the above at once |

They assume that the protocols are among the five and the providers among the five
that the code has (`MaterializerAssumption`, `ProviderAssumption`), and that an
Activity that creates a container ends before `dockerResourceReapGrace` has passed.

`MountIsExact` speaks only of a path with no operation under way; the invariant
`MountInv` says what each write may leave behind. `OpInStep` ties the place of an
operation to the copies and the marker (an import that is about to publish has all
of the bytes in the staging copy and its own marker on the path). What remains
after a crash is the matter of one conjunct per protocol: a remote file's marker
becomes ready only over whole bytes (`RemoteFileMarked`), Docker's rename publishes
only a whole copy that is at least as new as the marker (`DockerFileWhole`), a
repository is visible only behind its marker (`RepositoryMarked`), and a Skill
without all of its bytes has lost `SKILL.md` or is measured (`SkillWhole`).
`MountIsOwed` makes removal complete: what is on the path or marked belongs to an
identity that is attached or still has its tombstone.

`ProvidersAreIdempotent` needs, at providers with unique names, nothing but that
there is at most one sandbox (`OneUniqueBox`); at the others, that without a race
whoever creates has found nothing and is alone (`OneBoxUnlessRaced`). That the
reaper takes no directory that is in use is the harder half. A directory is made
before its container, so it is in use before anything mounts it: it is known to one
worker only (`NewRootsPrivate`) and too young to be on the reaper's list
(`NewRootsYoung`, the reason for the assumption on the grace period), while every
old directory that is mounted is in the list of containers that the reaper asked
for after it had listed the directories (`AuditIsComplete`). A worker that gives a
container up removes a directory that no other one mounts (`HeldRoots`).

`FilesConsistent` has the hypothesis that no attempt publishes while the API
restarts. Without it the statement is false: that is finding 15. The
invariant `FileInv` divides the identifiers into those that are hidden or deleted
for good (`Gone`: identifiers are never issued twice), those that wait for their
object (`Underway`) and those that are ready, and says who may still act on which.
Only a request or an attempt that owns an unfinished file completes it
(`RequestSound`, `AttemptSound`, `RequestsApart`, `PublishersApart`), and every
listing of garbage, of a request, of an attempt's sweep or of the startup pass,
names only files that are gone or that nobody will complete (`Abandoned`, or the
outputs of a Session that is closing, whose completion is refused under its lock).
So the object of a file that becomes ready has not been removed in between, and
what is removed never becomes ready. The mounts need one more conjunct: an attempt
that works off a tombstone took the mount away first, and if the file is mounted
again by then, a late import did so and has yet to recheck it (`MountSound`), or has
failed in doing so: for such mounts (`leftover`) the claim of the code's comment,
`NoStaleMount`, is false (finding 21), and `StaleMountsAreLeftovers` says that there
are no others.
The steps are proved against a common frame (`Frame`, `RequestMoves`,
`AttemptMoves`, `StoreMoves`): what a step lets go of and what it completes decides
what everybody else still may rely on.

`HistoryIsKept` is about the writeback of tools. Its invariant `MemoryInv` has no
word about locks: that a write of a tool replaces only what a tool of its Session
had seen does not depend on the sandbox's lock but on the preconditions of
`SyncMemoryStore`. `ChangesWereSeen` says of every sandbox that a file that differs
from the baseline was written by a tool of the Session, and that some tool of the
Session found there what the baseline has; this stays true when several tools write
the same file between two synchronizations. A synchronization that is not refused
changes only Memories whose head still has the baseline's content
(`TouchedAreTheBaselines`), so what a version replaces is what was seen
(`OverwritesWereSeen`). The other half, that a Memory's head is its last version,
needs that versions are numbered in order (`VersionsNumbered`) and that a Memory has
one path (`OnePathEach`): the versions a synchronization appends belong to different
Memories, of which those it creates get ids nobody had (`IdsAfter`). The limit is
kept because a synchronization counts what it creates against what it deletes
(`SyncedFits`). `DiscardedWritesAreReported` is not among the properties: it is
false (finding 14).

`ContextTypes` says that a preparation that is repeated shows the model the
snapshot of the first one, and that every row of the transcript stands for events
the ledger has handled. Its invariant `ContextInv` adds that the ledger, which
only grows, and the transcript are sequences and that the trigger and the
resolutions of the turn under way are events of that ledger (`TurnTyped`). Nothing
is assumed about what a fold over rows returns.

`SandboxDataHolds` composes the five: a step of `DataNext` is a step of one
component and leaves the variables of the others alone, so the composition implements
each component's specification.

### Leases, budgets, credentials, deployments, streams

`ControlPlaneProofs` proves, for every number of items, runners, Threads, requests,
credentials, resolvers and scheduler replicas, and for a stream over a ledger of any
length with any number of hints lost, delayed or reordered and any buffer:

| Theorem | Statement |
|---|---|
| `WorkExact` | `WorkSpec => []WorkIsExact` |
| `BudgetExact` | `BudgetSpec => []BudgetIsExact` |
| `RotationWins` | `VaultSpec => [](ClientRotationWins /\ VaultTypeOK)` |
| `ScheduleExact` | `DeploymentSpec => ScheduleIsExact` |
| `StreamExact` | `LiveSpec => [](StreamIsExact /\ LiveTypeOK)` |
| `ControlPlaneHolds` | `Listings \subseteq ApiLists` and positive `MaxWorkTime` and `MaxStamp` entail that `ControlSpec` keeps `ControlTypeOK`, the five above, `EveryRowListed` and `ReadsAreRechecked` |

`WorkIsExact` has two halves. `ActivationKept`: for input that is waiting an item is
live, or was activated by it or by later input. It excepts the input in `overtaken`,
for which it is false (`NoLostActivation`, finding 20). The reason is
`AdmissionWaits`: while an admission that found no live item is uncommitted nobody
else queues one, so that its own is there when its input becomes visible; and what
was visible when an item stopped had a successor. `ExclusiveLease` excludes two
executing workers. That needs `OneAtATime` (no second live item beside a busy one),
`StopIsLast` and `ForcedIsStopped` (a stop is not undone), and the two facts that
make a heartbeat a compare-and-swap: a runner that holds a lease knows the heartbeat
that is on the row or has lost the lease (`LeaseIsHeartbeat`), and no two runners
know the same one (`LeaseIsUnique`).
`BudgetIsExact` needs `RequestsAreOwned` (a request id that is being accounted for
belongs to one turn, so that inserting its record tells whether it is a repetition)
and `PausedWhileReached`. `ClientRotationWins` needs `RefreshNamesItsGrant` and
`ExchangeKnowsItsGrant`: the token in the hands of a resolver names the refresh
token it was exchanged for, so that the comparison in `PersistOAuthRefresh` decides
whether the client rotated it in the meantime.

`ScheduleIsExact` holds for every positive period, from `DeploymentAssumption`. Its
invariant `DeployInv` ties the columns of the row to its body (`Derived`) and says
what the two writers that work from a copy of the row still know of it. Update has
read a row whose stamp tells under the lock whether it is the same row, and every
change of the status brings a later stamp (`EditorKnows`), so a merged patch never
undoes a pause. `completeSchedule` writes an occurrence later than its own, or has
found none to come; then the row has left the caller's occurrence and nobody is left
who could bring it back (`Overtaken`, `CallerKnows`), and the comparison with
`next_run_at` refuses the write. That is why an active schedule is never left
without a next run. The proof is for the model's one Update at a time.

`StreamExact` says of every event that was sent that it is the event of the ledger
at its place: the cursor at which the stream began and the number of events sent so
far (`EventsSent`). The invariant `LiveInv` relates what the reader goroutine holds
to the ledger: the cursor counts what was sent (`CursorCounts`) and the batch that
a reconcile has read holds the next events (`BatchIsNext`), although more are
recorded while it sends. That a preview stays inside its request is the harder half.
A preview that is published has the start of its request in the ledger, and the
reconcile that the preview itself sets off has read that start
(`PreviewsFollowStart`), so that at the time of forwarding the start is behind the
cursor: it was sent, or the stream began after it (`StartIsBehind`,
`PreparedAreBehind`). The fences know every message and every end that was sent
(`FencesAreUp`).

### The catalogue and the lists

`CatalogProofs` proves, for every set of Agents, models and clients, every number of
versions and calls and every order in which their reads, locks and commits
interleave, from `CatalogAssumption` (the bounds are naturals and "kept", which a
patch says of a model it leaves alone, is not a model):

| Theorem | Statement |
|---|---|
| `CatalogRechecked` | `CatalogSpec => []ReadsAreRechecked` |
| `RowsListed` | `Listings \subseteq ApiLists` entails `ListingSpec => []EveryRowListed` |

`CatalogInv` says of every call in progress what it may still rely on (`CallSound`).
A call that creates an Agent is alone with its id, so the geo and the roster it
resolved meet no other version (`CreatorAlone`, `CreateResolved`). What an update
resolved before its lock stays right because a version is immutable but for its
archival, and what it compared the roster with is the version it expects: the lock
refuses another one, and a patch that keeps the roster may change the model only
without external members (`UpdateResolved`, `RostersExist`). The rows a Session
creation has locked in share mode stay active, since archival waits for an update
lock on each row of its statement and rows inserted later were never read
(`SessionLocked`); at the insert these are all rows the Session names. Lemmas treat
a step that leaves the tables alone (`CallSteps`) and one that writes and ends
(`CallEnds`), over `OtherCalls`: the calls that do not move stay sound while
versions are added.

`ApiLists` is every list of the API in each of its orders but the ascending list of
events, for which the statement is false (finding 11). `ApiListsArePaged` goes
through them and finds what the proof needs (`Paged`): the cursor is bound to
whatever may filter rows, and the key of a row stays, except that an event gets one
when it is processed. In the descending list that moves the event forward: those
without a key come first, so it was received or is still ahead (`MarkStep`). The
invariant is `OwedAreAhead`: what the walk still owes is after its boundary. A page
is a prefix of what lies there (`PageIsPrefix`, from `OrderIsStrict` and the fact
that finitely many rows have a first one, `FirstOfOrder`), so that what it leaves out
is after the new boundary (`BehindTheCursor`).

### How the proofs deal with the prover

Facts about `Min` and about natural induction are derived from a least
counterexample (`WFMin`), because the library's induction theorems take an
operator. `Flush` in `ThreadRuntime` is a recursive function for the same reason:
nothing can be proved about `SelectSeq`, and `StreamHasNoGap` counts the events
among the frames instead of selecting them. An attempted proof also corrected the
model: `Numbering` of `MemoryStore` had one number too many to choose from, so that
a Store could number a version ahead of the versions it had, which no run noticed
because TLC chooses the least.

`ControlPlaneHolds` is the same kind of composition as `SandboxDataHolds`, over the
seven components of the control plane; it is also where their type invariants are
proved.

Only model-checked: all liveness (fairness and ENABLED are beyond the prover); of
`ContextIsExact`, that a request is legal and complete, since a request is a fold
over rows of any length and what a fold computes for every input is induction over
data. What of it speaks of snapshots is proved (`ContextTypes`).

## 6. Not modelled, and what is left

Left out of the modelled parts: the content of messages, prompts and results and
their token estimates; in the model context also outcome feedback, results of
coordinator tools and advisors, and the limit on history; companion system messages; archival of the Session; continue-as-new
other than keeping the cursor; the price table, cron expressions, encryption of
credentials, DTOs and request decoding; commands and byte copies in sandboxes. The
model and MCP clients are network I/O whose answers are nondeterministic choices
here. Workspaces and API keys are one row and one statement each.
