--------------------------- MODULE SandboxLifecycle ---------------------------
(***************************************************************************)
(* The sandbox of one Session: worker processes acquire, bind, reconcile   *)
(* and release it while the control plane and the lifecycle reconciler     *)
(* delete the Session.  The provisioning intent, the binding and the       *)
(* Session row are in PostgreSQL, the boxes at a provider, and every step  *)
(* between them can be the last one of a process.                          *)
(*                                                                         *)
(* A SessionManager serialises its own operations on a Session, so each    *)
(* worker does one at a time.  All workers serve the same provider with    *)
(* the Session's pinned spec.                                              *)
(* Sources: internal/sandbox/session.go and the providers,                 *)
(* internal/pg/sandbox.go, api_store.go, internal/controlplane,            *)
(* internal/temporal/lifecycle_reconciler.go.                              *)
(***************************************************************************)
EXTENDS Naturals, FiniteSets, FiniteSetsExt

CONSTANTS
    Workers,       \* worker processes, each with one SessionManager
    UniqueNames,   \* the provider refuses a second box with the Session's name
    MemoryMounted, \* a memory store is attached to the Session
    MaxBoxes,      \* bound: boxes ever created
    MaxTools,      \* bound: tool calls that acquire the sandbox
    MaxSandboxFaults \* bound: failed operations, crashes and lost replies

ASSUME SandboxAssumption ==
    /\ {UniqueNames, MemoryMounted} \subseteq BOOLEAN
    /\ {MaxBoxes, MaxTools, MaxSandboxFaults} \subseteq Nat
    /\ {"none", "due"} \cap Workers = {}

VARIABLES
    life,      \* the sessions row: "live", "deleting" (deleting_at) or "gone"
    turn,      \* the Session is running a turn
    rows,      \* its session_resources rows and output files
    intent,    \* the sandbox_provisioning_intents row exists
    binding,   \* session_sandboxes.external_id, 0 without a row
    boxes,     \* boxes that exist at the provider
    ready,     \* boxes whose package and network setup completed
    created,   \* how many boxes were ever created; ids come from the provider
    worker,    \* what each worker is doing
    cached,    \* SessionManager.boxes, 0 without an entry
    cleanup,   \* SandboxCleanupWorkflow: "none", "due" or the worker at it
    deleter,   \* the two processes that carry a deletion through
    spent      \* how much of each bound is used

sandboxVars == <<life, turn, rows, intent, binding, boxes, ready, created, worker,
                 cached, cleanup, deleter, spent>>

sessionRow == <<life, turn, rows>>
record     == <<intent, binding>>
provider   == <<boxes, ready, created>>
others     == <<cleanup, deleter, spent>>

Deleters == {"api", "reconciler"}

Free == [pc |-> "free", box |-> 0, job |-> "none"]

SandboxInit ==
    /\ life = "live" /\ turn = FALSE
    /\ rows = IF MemoryMounted THEN {"file", "output", "memory"} ELSE {"file", "output"}
    /\ intent = FALSE /\ binding = 0
    /\ boxes = {} /\ ready = {} /\ created = {}
    /\ worker = [w \in Workers |-> Free]
    /\ cached = [w \in Workers |-> 0]
    /\ cleanup = "none"
    /\ deleter = [d \in Deleters |-> "idle"]
    /\ spent = [c \in {"tool", "fault"} |-> 0]

Spend(what, max) == spent[what] < max /\ spent' = [spent EXCEPT ![what] = @ + 1]

\* worker w goes on at pc with box b
At(w, pc, b) == worker' = [worker EXCEPT ![w].pc = pc, ![w].box = b]

-----------------------------------------------------------------------------
(* Jobs that need the sandbox                                              *)

\* ExecuteTool; the turn may be interrupted while the Activity goes on.
StartTool(w) ==
    /\ worker[w] = Free /\ life = "live"
    /\ Spend("tool", MaxTools)
    /\ turn' = TRUE
    /\ worker' = [worker EXCEPT ![w] = [pc |-> "lookup", box |-> 0, job |-> "tool"]]
    /\ UNCHANGED <<life, rows, record, provider, cached, cleanup, deleter>>

EndToolTurn ==
    /\ turn /\ turn' = FALSE
    /\ UNCHANGED <<life, rows, record, provider, worker, cached, others>>

\* ReconcileProvisioning lists the intents and whether their Session is going.
StartReconcile(w) ==
    /\ worker[w] = Free /\ intent
    /\ worker' = [worker EXCEPT ![w] =
         [pc |-> IF life = "deleting" THEN "release" ELSE "lookup", box |-> 0, job |-> "reconcile"]]
    /\ UNCHANGED <<sessionRow, record, provider, cached, others>>

\* ReleaseSandbox: memory stores are written back from the sandbox first.  An
\* attempt that timed out may still be at work when the next one starts.
StartCleanup(w) ==
    /\ worker[w] = Free /\ cleanup # "none"
    /\ IF cleanup = "due" THEN UNCHANGED spent ELSE Spend("fault", MaxSandboxFaults)
    /\ cleanup' = w
    /\ worker' = [worker EXCEPT ![w] =
         [pc |-> IF "memory" \in rows THEN "lookup" ELSE "release", box |-> 0, job |-> "cleanup"]]
    /\ UNCHANGED <<sessionRow, record, provider, cached, deleter>>

\* Mutant: a release that failed is not tried again.
RetriedNever(w) == IF cleanup = w THEN "none" ELSE cleanup

\* What a worker does when it ends without a result: Temporal retries.
Retried(w) == IF cleanup = w THEN "due" ELSE cleanup

Fails(w) ==
    /\ worker' = [worker EXCEPT ![w] = Free]
    /\ cleanup' = Retried(w)

\* What follows Acquire with box b: the tool runs, the intent is cleared, or the
\* memory is written back and the sandbox released.
Acquired(w, b) ==
    /\ cached' = [cached EXCEPT ![w] = b]
    /\ CASE worker[w].job = "tool"      -> At(w, "using", b)
         [] worker[w].job = "reconcile" -> At(w, "clear", b)
         [] worker[w].job = "cleanup"   -> At(w, "release", b)

-----------------------------------------------------------------------------
(* SessionManager.Acquire                                                  *)

\* acquireExistingLocked: the cache, else the binding
Lookup(w) ==
    /\ worker[w].pc = "lookup"
    /\ IF cached[w] # 0 THEN Acquired(w, cached[w])
       ELSE /\ UNCHANGED cached
            /\ IF binding # 0 THEN At(w, "attach", binding) ELSE At(w, "intent", 0)
    /\ UNCHANGED <<sessionRow, record, provider, others>>

\* attach, Provider.Attach: a box that is gone is an error, never replaced.
Attach(w) ==
    /\ worker[w].pc = "attach"
    /\ IF worker[w].box \in boxes
         THEN Acquired(w, worker[w].box) /\ UNCHANGED cleanup
         ELSE Fails(w) /\ UNCHANGED cached
    /\ UNCHANGED <<sessionRow, record, provider, deleter, spent>>

\* PutSandboxProvisioningIntent: only for a live Session without a binding
Provisionable == life = "live" /\ binding = 0

PutIntent(w) ==
    /\ worker[w].pc = "intent"
    /\ intent' = (intent \/ Provisionable)
    /\ At(w, IF Provisionable THEN "find" ELSE "reload", 0)
    /\ UNCHANGED <<sessionRow, binding, provider, cached, others>>

\* Acquire after ErrProvisioningUnavailable
ReloadBinding(w) ==
    /\ worker[w].pc = "reload"
    /\ IF binding # 0 THEN At(w, "attach", binding) /\ UNCHANGED cleanup ELSE Fails(w)
    /\ UNCHANGED <<sessionRow, record, provider, cached, deleter, spent>>

\* where a box goes once the provider returned it
AfterCreate(w) == IF worker[w].pc \in {"find", "create"} THEN "setup" ELSE "destroy"

\* Provider.Create: the box of this Session, of the smallest id if several
FindBox(w) ==
    /\ worker[w].pc \in {"find", "refind"}
    /\ IF boxes # {} THEN At(w, AfterCreate(w), Min(boxes))
       ELSE At(w, IF worker[w].pc = "find" THEN "create" ELSE "recreate", 0)
    /\ UNCHANGED <<sessionRow, record, provider, cached, others>>

\* ... or a new one.  With unique names the loser of a race attaches to the
\* winner's box; the others create a second one.
CreateBox(w) ==
    /\ worker[w].pc \in {"create", "recreate"}
    /\ IF UniqueNames /\ boxes # {}
         THEN At(w, AfterCreate(w), Min(boxes)) /\ UNCHANGED <<boxes, created>>
         ELSE \E b \in 1..MaxBoxes \ created :
                /\ boxes' = boxes \cup {b} /\ created' = created \cup {b}
                /\ At(w, AfterCreate(w), b)
    /\ UNCHANGED <<sessionRow, record, ready, cached, others>>

\* Mutant: the binding is published before the setup ran.
SetUpLater(w) ==
    /\ worker[w].pc = "setup"
    /\ At(w, "bind", worker[w].box)
    /\ UNCHANGED <<sessionRow, record, provider, cached, others>>

\* applyLimitedNetwork, initializeSandbox: setup precedes the binding.
SetUp(w) ==
    /\ worker[w].pc = "setup"
    /\ IF worker[w].box \in boxes
         THEN /\ ready' = ready \cup {worker[w].box}
              /\ At(w, "bind", worker[w].box) /\ UNCHANGED cleanup
         ELSE Fails(w) /\ UNCHANGED ready
    /\ UNCHANGED <<sessionRow, record, boxes, created, cached, deleter, spent>>

\* Mutant: the intent is dropped before the binding is elected.
PutBindingTwoSteps(w) ==
    /\ worker[w].pc = "bind"
    /\ IF intent THEN intent' = FALSE /\ UNCHANGED <<binding, worker, cleanup>>
       ELSE /\ binding' = IF binding = 0 THEN worker[w].box ELSE binding
            /\ At(w, IF binding' = worker[w].box THEN "bound" ELSE "lost", worker[w].box)
            /\ UNCHANGED <<intent, cleanup>>
    /\ UNCHANGED <<sessionRow, provider, cached, deleter, spent>>

\* PutSandboxBinding: the first binding wins and the intent goes with it.
PutBinding(w) ==
    /\ worker[w].pc = "bind"
    /\ IF life = "gone" THEN Fails(w) /\ UNCHANGED record
       ELSE /\ binding' = IF binding = 0 THEN worker[w].box ELSE binding
            /\ intent' = FALSE
            /\ At(w, IF binding' = worker[w].box THEN "bound" ELSE "lost", worker[w].box)
            /\ UNCHANGED cleanup
    /\ UNCHANGED <<sessionRow, provider, cached, deleter, spent>>

Bound(w) ==
    /\ worker[w].pc = "bound"
    /\ Acquired(w, worker[w].box)
    /\ UNCHANGED <<sessionRow, record, provider, others>>

\* The loser destroys its own box and attaches to the authoritative one.
LoseElection(w) ==
    /\ worker[w].pc = "lost"
    /\ boxes' = boxes \ {worker[w].box}
    /\ IF binding # 0 THEN At(w, "attach", binding) /\ UNCHANGED cleanup ELSE Fails(w)
    /\ UNCHANGED <<sessionRow, record, ready, created, cached, deleter, spent>>

FinishTool(w) ==
    /\ worker[w].pc = "using"
    /\ worker' = [worker EXCEPT ![w] = Free]
    /\ UNCHANGED <<sessionRow, record, provider, cached, others>>

\* clearBoundProvisioningIntent
ClearBoundIntent(w) ==
    /\ worker[w].pc = "clear"
    /\ intent' = (intent /\ binding = 0)
    /\ worker' = [worker EXCEPT ![w] = Free]
    /\ UNCHANGED <<sessionRow, binding, provider, cached, others>>

-----------------------------------------------------------------------------
(* SessionManager.Release                                                  *)

\* Release forgets the cached box and goes by the binding, else by the intent.
Release(w) ==
    /\ worker[w].pc = "release"
    /\ cached' = [cached EXCEPT ![w] = 0]
    /\ IF binding # 0 THEN At(w, IF cached[w] # 0 THEN "unbox" ELSE "reattach",
                              IF cached[w] # 0 THEN cached[w] ELSE binding)
       ELSE IF intent THEN At(w, "refind", 0)
       ELSE At(w, IF cached[w] # 0 THEN "discard" ELSE "released", cached[w])
    /\ UNCHANGED <<sessionRow, record, provider, others>>

\* Provider.Attach for a release: a box that is gone leaves the rows to clear.
ReattachForRelease(w) ==
    /\ worker[w].pc = "reattach"
    /\ At(w, IF worker[w].box \in boxes THEN "unbox" ELSE "unbind", worker[w].box)
    /\ UNCHANGED <<sessionRow, record, provider, cached, others>>

\* Sandbox.Destroy: idempotent, a box that is gone counts as destroyed
DestroyBox(w) ==
    /\ worker[w].pc \in {"unbox", "destroy", "discard"}
    /\ boxes' = boxes \ {worker[w].box}
    /\ At(w, CASE worker[w].pc = "unbox"   -> "unbind"
               [] worker[w].pc = "destroy" -> "unintend"
               [] worker[w].pc = "discard" -> "released", worker[w].box)
    /\ UNCHANGED <<sessionRow, record, ready, created, cached, others>>

\* DeleteSandboxBinding deletes the binding that was read; another is an error.
DeleteBinding(w) ==
    /\ worker[w].pc = "unbind"
    /\ IF binding \in {0, worker[w].box}
         THEN binding' = 0 /\ At(w, "unintend", worker[w].box) /\ UNCHANGED cleanup
         ELSE Fails(w) /\ UNCHANGED binding
    /\ UNCHANGED <<sessionRow, intent, provider, cached, deleter, spent>>

\* DeleteSandboxProvisioningIntent, clearMatchingProvisioningIntent
DeleteIntent(w) ==
    /\ worker[w].pc = "unintend"
    /\ intent' = FALSE
    /\ At(w, "released", worker[w].box)
    /\ UNCHANGED <<sessionRow, binding, provider, cached, others>>

\* The attempt the cleanup Workflow waits for ends it, and all who joined it.
Released(w) ==
    /\ worker[w].pc = "released"
    /\ worker' = [worker EXCEPT ![w] = Free]
    /\ IF cleanup = w
         THEN /\ cleanup' = "none"
              /\ deleter' = [d \in Deleters |->
                   IF deleter[d] = "waiting" THEN "rows" ELSE deleter[d]]
         ELSE UNCHANGED <<cleanup, deleter>>
    /\ UNCHANGED <<sessionRow, record, provider, cached, spent>>

\* Any step may fail, or be cancelled, with its effect done; a crash also
\* empties the cache.
FailWorker(w) ==
    /\ worker[w].pc # "free"
    /\ Spend("fault", MaxSandboxFaults)
    /\ Fails(w)
    /\ cached' \in {cached, [cached EXCEPT ![w] = 0]}
    /\ UNCHANGED <<sessionRow, record, provider, deleter>>

-----------------------------------------------------------------------------
(* Deletion of the Session                                                 *)

\* PrepareSessionDeletion: refuses a running Session, fences admission
PrepareSessionDeletion ==
    /\ deleter["api"] = "idle" /\ life # "gone" /\ ~turn
    /\ life = "deleting" => Spend("fault", MaxSandboxFaults)  \* the client repeats DELETE
    /\ life = "live" => UNCHANGED spent
    /\ life' = "deleting"
    /\ deleter' = [deleter EXCEPT !["api"] = "terminate"]
    /\ UNCHANGED <<turn, rows, record, provider, worker, cached, cleanup>>

\* LifecycleReconciler.RunOnce, ListDeletingSessionIDs
ResumeDeletion ==
    /\ deleter["reconciler"] = "idle" /\ life = "deleting"
    /\ deleter' = [deleter EXCEPT !["reconciler"] = "terminate"]
    /\ UNCHANGED <<sessionRow, record, provider, worker, cached, cleanup, spent>>

\* TerminateSession: stops the Workflow and starts or joins the cleanup
TerminateSession(d) ==
    /\ deleter[d] = "terminate"
    /\ cleanup' = IF cleanup = "none" THEN "due" ELSE cleanup
    /\ deleter' = [deleter EXCEPT ![d] = "waiting"]
    /\ UNCHANGED <<sessionRow, record, provider, worker, cached, spent>>

\* CleanupSession removes outputs, files and memory rows one by one; the API
\* then deletes what memory rows are left.
CleanupRow(d) ==
    /\ deleter[d] = "rows" /\ rows # {}
    /\ rows' = rows \ {IF "output" \in rows THEN "output" ELSE CHOOSE r \in rows : TRUE}
    /\ UNCHANGED <<life, turn, record, provider, worker, cached, others>>

\* Mutant: the row goes although the sandbox tables still refer to it.
FinalizeUnchecked(d) ==
    /\ deleter[d] = "rows" /\ rows = {}
    /\ life' = "gone"
    /\ deleter' = [deleter EXCEPT ![d] = "idle"]
    /\ UNCHANGED <<turn, rows, record, provider, worker, cached, cleanup, spent>>

\* FinalizeSessionDeletion: the foreign keys of the sandbox tables and of the
\* resources hold the row back.
FinalizeSessionDeletion(d) ==
    /\ deleter[d] = "rows" /\ rows = {}
    /\ life' = IF binding = 0 /\ ~intent THEN "gone" ELSE life
    /\ deleter' = [deleter EXCEPT ![d] = "idle"]
    /\ UNCHANGED <<turn, rows, record, provider, worker, cached, cleanup, spent>>

\* The process stops, its client goes away, or a call times out.
FailDeleter(d) ==
    /\ deleter[d] # "idle"
    /\ Spend("fault", MaxSandboxFaults)
    /\ deleter' = [deleter EXCEPT ![d] = "idle"]
    /\ UNCHANGED <<sessionRow, record, provider, worker, cached, cleanup>>

WorkerStep(w) ==
    \/ Lookup(w) \/ Attach(w) \/ PutIntent(w) \/ ReloadBinding(w) \/ FindBox(w)
    \/ CreateBox(w) \/ SetUp(w) \/ PutBinding(w) \/ Bound(w) \/ LoseElection(w)
    \/ FinishTool(w) \/ ClearBoundIntent(w) \/ Release(w) \/ ReattachForRelease(w)
    \/ DestroyBox(w) \/ DeleteBinding(w) \/ DeleteIntent(w) \/ Released(w)

DeleterStep(d) == TerminateSession(d) \/ CleanupRow(d) \/ FinalizeSessionDeletion(d)

SandboxNext ==
    \/ \E w \in Workers : \/ StartTool(w) \/ StartReconcile(w) \/ StartCleanup(w)
                          \/ WorkerStep(w) \/ FailWorker(w)
    \/ EndToolTurn \/ PrepareSessionDeletion \/ ResumeDeletion
    \/ \E d \in Deleters : DeleterStep(d) \/ FailDeleter(d)

SandboxSpec == SandboxInit /\ [][SandboxNext]_sandboxVars

\* Temporal retries the release, every worker polls for intents, and the
\* reconciler for Sessions that are being deleted.  Clients owe nothing.
SandboxFairness ==
    /\ \A w \in Workers : WF_sandboxVars(WorkerStep(w))
    /\ WF_sandboxVars(\E w \in Workers : cleanup = "due" /\ StartCleanup(w))
    /\ WF_sandboxVars(\E w \in Workers : StartReconcile(w))
    /\ WF_sandboxVars(ResumeDeletion \/ DeleterStep("reconciler"))

FairSandboxSpec == SandboxSpec /\ SandboxFairness

-----------------------------------------------------------------------------
(* Properties                                                              *)

\* The rows are well formed, name boxes that were created, and refer to a Session
\* that exists.
SandboxTypeOK ==
    /\ life \in {"live", "deleting", "gone"} /\ {turn, intent} \subseteq BOOLEAN
    /\ rows \subseteq {"file", "output", "memory"}
    /\ binding \in created \cup {0} /\ boxes \subseteq created /\ ready \subseteq created
    /\ \A w \in Workers : cached[w] \in created \cup {0} /\ worker[w].box \in created \cup {0}
    /\ cleanup \in {"none", "due"} \cup Workers
    /\ life = "gone" => binding = 0 /\ ~intent /\ rows = {}

\* While the Session is live every tool works in one and the same box, the one
\* that is bound, and only after its setup.
ToolsShareTheBoundBox ==
    \A w \in Workers : worker[w].pc = "using" =>
        /\ worker[w].box \in ready
        /\ life = "live" => worker[w].box = binding /\ binding \in boxes

\* The create-before-binding window is closed: a box of a live Session is bound,
\* announced by an intent, or in the hands of a worker.
NoOrphanBox ==
    life = "live" =>
        \A b \in boxes : b = binding \/ intent \/ \E w \in Workers : worker[w].box = b

\* A Session that is being deleted is deleted in the end.
DeletionCompletes == life = "deleting" ~> life = "gone"
=============================================================================
