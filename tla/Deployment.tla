----------------------------- MODULE Deployment -----------------------------
(***************************************************************************)
(* One Deployment: its cron schedule, the scheduler replicas that claim    *)
(* due occurrences and create their Sessions, manual runs, and the user    *)
(* who edits, pauses, unpauses and archives it.  The schedule fires at     *)
(* every multiple of Period; 0 is NULL; only the head of upcoming_runs_at  *)
(* is kept.  Sources: internal/app/deployment_service.go and               *)
(* deployment_reconciler.go, internal/pg/deployment.go and store.go.       *)
(***************************************************************************)
EXTENDS Naturals

CONSTANTS
    Schedulers,     \* replicas of the DeploymentReconciler
    ManualRunner,   \* a client that starts runs through the API
    Period,         \* distance of two occurrences
    ClaimLease,     \* ScheduleClaimLease
    MaxDeployTime,  \* bound: the clock
    MaxEdits,       \* bound: calls of Update, Pause, Unpause and Archive
    MaxCalls        \* bound: claims and manual runs

ASSUME DeploymentAssumption ==
    /\ Period \in Nat \ {0} /\ {ClaimLease, MaxDeployTime, MaxEdits, MaxCalls} \subseteq Nat
    /\ ManualRunner \notin Schedulers

VARIABLES
    depNow,  \* the clock
    dep,     \* the deployments row: body, next_run_at, schedule_claimed_at
    runs,    \* deployment_runs
    caller,  \* each scheduler's RunScheduled, the client's Run
    editor,  \* the Update in flight: the body it read, and what it writes
    edits,   \* calls made by the user
    calls    \* claims and manual runs so far

depVars == <<depNow, dep, runs, caller, editor, edits, calls>>

NoCaller == [pc |-> "idle", at |-> 0, error |-> "none", upcoming |-> 0, created |-> 0]
NoEditor == [pc |-> "idle", read |-> 0, scheduled |-> FALSE, upcoming |-> 0]

\* deploymentOccurrences: strictly after the given time
NextOccurrence(t) == ((t \div Period) + 1) * Period

DeploymentInit ==
    /\ depNow = 1 /\ runs = {} /\ edits = 0 /\ calls = 0
    /\ dep = [status |-> "active", reason |-> "none", archived |-> FALSE,
              scheduled |-> TRUE, upcoming |-> NextOccurrence(1),
              nextRun |-> NextOccurrence(1), claimed |-> 0, updated |-> 1]
    /\ caller = [c \in Schedulers \cup {ManualRunner} |-> NoCaller]
    /\ editor = NoEditor

\* deploymentNextRun: the column derived from the body on every write
DeploymentNextRun(d) ==
    IF d.archived \/ d.status # "active" \/ ~d.scheduled THEN 0 ELSE d.upcoming

\* DeploymentRepository.Update writes the body, derives the column, drops the claim.
Written(d) == [d EXCEPT !.nextRun = DeploymentNextRun(d), !.claimed = 0]

ChangedAt(previous) == IF depNow > previous THEN depNow ELSE previous + 1

-----------------------------------------------------------------------------
(* The user                                                                *)

Edit(d) ==
    /\ edits < MaxEdits /\ edits' = edits + 1
    /\ dep' = Written([d EXCEPT !.updated = ChangedAt(dep.updated)])
    /\ UNCHANGED <<depNow, runs, caller, editor, calls>>

PauseDeployment ==
    /\ ~dep.archived /\ ~(dep.status = "paused" /\ dep.reason = "manual")
    /\ Edit([dep EXCEPT !.status = "paused", !.reason = "manual"])

UnpauseDeployment ==
    /\ ~dep.archived /\ dep.status = "paused"
    /\ Edit([dep EXCEPT !.status = "active", !.reason = "none",
              !.upcoming = IF dep.scheduled
                             THEN NextOccurrence(ChangedAt(dep.updated)) ELSE @])

ArchiveDeployment ==
    /\ ~dep.archived
    /\ Edit([dep EXCEPT !.archived = TRUE, !.upcoming = 0])

\* Update reads the row, merges the patch, and only then locks it.  The patch
\* sets or clears the schedule, or leaves it alone and changes other fields.
ReadForUpdate(scheduled, scheduleSet) ==
    /\ editor = NoEditor /\ ~dep.archived /\ edits < MaxEdits
    /\ scheduleSet \/ scheduled = dep.scheduled
    /\ editor' = [pc |-> "write", read |-> dep, scheduled |-> scheduled,
                  upcoming |-> IF scheduleSet
                                 THEN IF scheduled THEN NextOccurrence(depNow) ELSE 0
                                 ELSE dep.upcoming]
    /\ edits' = edits + 1
    /\ UNCHANGED <<depNow, dep, runs, caller, calls>>

\* the optimistic check of Update under the row lock
Unchanged(read) == dep.updated = read.updated

WriteUpdate ==
    /\ editor.pc = "write" /\ editor' = NoEditor
    /\ dep' = IF ~Unchanged(editor.read) THEN dep   \* Conflict
              ELSE Written([editor.read EXCEPT !.scheduled = editor.scheduled,
                              !.upcoming = editor.upcoming,
                              !.updated = ChangedAt(editor.read.updated)])
    /\ UNCHANGED <<depNow, runs, caller, edits, calls>>

-----------------------------------------------------------------------------
(* Runs                                                                    *)

Goto(c, pc) == caller' = [caller EXCEPT ![c].pc = pc]

\* ClaimDue: a claim whose holder is gone is taken over after its lease.
ClaimDue(c) ==
    /\ caller[c].pc = "idle" /\ calls < MaxCalls /\ calls' = calls + 1
    /\ ~dep.archived /\ dep.status = "active" /\ dep.nextRun # 0 /\ dep.nextRun <= depNow
    /\ dep.claimed = 0 \/ dep.claimed + ClaimLease < depNow
    /\ dep' = [dep EXCEPT !.claimed = depNow]
    /\ caller' = [caller EXCEPT ![c] = [NoCaller EXCEPT !.pc = "lookup", !.at = dep.nextRun]]
    /\ UNCHANGED <<depNow, runs, editor, edits>>

StartManualRun ==
    /\ caller[ManualRunner].pc = "idle" /\ ~\E r \in runs : r.at = 0
    /\ calls < MaxCalls /\ calls' = calls + 1
    /\ Goto(ManualRunner, "read")
    /\ UNCHANGED <<depNow, dep, runs, editor, edits>>

RunsAt(at) == {r \in runs : at # 0 /\ r.at = at}

\* GetScheduledRun: an occurrence that ran is only settled.
Settle(c, r) ==
    caller' = [caller EXCEPT ![c].pc = "recover", ![c].error = r.error,
                             ![c].created = r.created]

LookupRun(c) ==
    /\ caller[c].pc = "lookup"
    /\ \/ \E r \in RunsAt(caller[c].at) : Settle(c, r)
       \/ RunsAt(caller[c].at) = {} /\ Goto(c, "read")
    /\ UNCHANGED <<depNow, dep, runs, editor, edits, calls>>

\* run: an archived Deployment never runs, a paused one only by hand.
ReadDeployment(c) ==
    /\ caller[c].pc = "read"
    /\ IF dep.archived \/ (caller[c].at # 0 /\ dep.status # "active")
         THEN caller' = [caller EXCEPT ![c] = NoCaller]
         ELSE caller' = [caller EXCEPT ![c].pc = "create", ![c].created = depNow]
    /\ UNCHANGED <<depNow, dep, runs, editor, edits, calls>>

\* CreateDeploymentSession: the run row and the Session are one transaction.
\* It fails on an occurrence that ran, or because of what the Session needs
\* (error "pausing": a missing Agent, Environment, File...; "other": a limit).
CreateDeploymentSession(c) ==
    /\ caller[c].pc = "create"
    /\ \/ /\ RunsAt(caller[c].at) = {}
          /\ runs' = runs \cup {[at |-> caller[c].at, error |-> "none",
                                 created |-> caller[c].created]}
          /\ Goto(c, "recover")
       \/ /\ UNCHANGED runs
          /\ \E e \in {"pausing", "other"} :
               caller' = [caller EXCEPT ![c].pc = "failed", ![c].error = e]
    /\ UNCHANGED <<depNow, dep, editor, edits, calls>>

\* CreateRun records the failure, unless the occurrence has its row by now.
CreateRun(c) ==
    /\ caller[c].pc = "failed"
    /\ \/ \E r \in RunsAt(caller[c].at) : Settle(c, r) /\ UNCHANGED runs
       \/ /\ RunsAt(caller[c].at) = {}
          /\ runs' = runs \cup {[at |-> caller[c].at, error |-> caller[c].error,
                                 created |-> caller[c].created]}
          /\ Goto(c, "pause")
    /\ UNCHANGED <<depNow, dep, editor, edits, calls>>

\* pauseForError: not when archived, and an explicit pause wins.
PausedForError ==
    IF dep.archived \/ dep.status = "paused" THEN dep
    ELSE Written([dep EXCEPT !.status = "paused", !.reason = "error",
                             !.updated = ChangedAt(dep.updated)])

\* run pauses after a failure it recorded; recoverScheduledFailure repeats it.
RecoverScheduledFailure(c) ==
    /\ caller[c].pc \in {"pause", "recover"}
    /\ dep' = IF caller[c].error = "pausing" THEN PausedForError ELSE dep
    /\ caller' = [caller EXCEPT ![c] =
         IF caller[c].at = 0 THEN NoCaller
         ELSE [caller[c] EXCEPT !.pc = IF caller[c].pc = "pause" THEN "recover" ELSE "complete"]]
    /\ UNCHANGED <<depNow, runs, editor, edits, calls>>

\* completeSchedule computes the next occurrences from a copy of the row.
ReadSchedule(c) ==
    /\ caller[c].pc = "complete"
    /\ caller' = [caller EXCEPT ![c].pc = "advance",
         ![c].upcoming = IF dep.scheduled /\ ~dep.archived THEN NextOccurrence(depNow) ELSE 0]
    /\ UNCHANGED <<depNow, dep, runs, editor, edits, calls>>

\* Mutant: the schedule advances whatever next_run_at says.
StillDueAnyway(c) == TRUE

\* the occurrence is still the one next_run_at names
StillDue(c) == dep.nextRun # 0 /\ dep.nextRun = caller[c].at

CompleteSchedule(c) ==
    /\ caller[c].pc = "advance"
    /\ dep' = IF ~StillDue(c) \/ ~dep.scheduled THEN dep
              ELSE Written([dep EXCEPT !.upcoming = caller[c].upcoming,
                              !.updated = IF @ < caller[c].created THEN caller[c].created ELSE @])
    /\ caller' = [caller EXCEPT ![c] = NoCaller]
    /\ UNCHANGED <<depNow, runs, editor, edits, calls>>

\* A replica dies or loses the database: the claim stays until it is stale.
RunAbandoned(c) ==
    /\ caller[c].pc # "idle"
    /\ caller' = [caller EXCEPT ![c] = NoCaller]
    /\ UNCHANGED <<depNow, dep, runs, editor, edits, calls>>

DeployTick ==
    /\ depNow < MaxDeployTime /\ depNow' = depNow + 1
    /\ UNCHANGED <<dep, runs, caller, editor, edits, calls>>

RunStep(c) ==
    \/ LookupRun(c) \/ ReadDeployment(c) \/ CreateDeploymentSession(c) \/ CreateRun(c)
    \/ RecoverScheduledFailure(c) \/ ReadSchedule(c) \/ CompleteSchedule(c) \/ RunAbandoned(c)

DeploymentNext ==
    \/ PauseDeployment \/ UnpauseDeployment \/ ArchiveDeployment \/ WriteUpdate
    \/ \E scheduled, scheduleSet \in BOOLEAN : ReadForUpdate(scheduled, scheduleSet)
    \/ \E c \in Schedulers : ClaimDue(c)
    \/ StartManualRun \/ DeployTick
    \/ \E c \in Schedulers \cup {ManualRunner} : RunStep(c)

DeploymentSpec == DeploymentInit /\ [][DeploymentNext]_depVars

-----------------------------------------------------------------------------
(* Properties                                                              *)

\* Status and reason agree, and nobody works on an occurrence still to come.
DeploymentTypeOK ==
    /\ dep.status \in {"active", "paused"} /\ dep.reason \in {"none", "manual", "error"}
    /\ (dep.status = "active") <=> (dep.reason = "none")
    /\ \A c \in DOMAIN caller : caller[c].at # 0 => caller[c].at <= depNow

\* An occurrence has one run for ever, whichever replicas raced for it, and it
\* ran only once it was due.
OneRunPerOccurrence ==
    \A r, s \in runs : /\ r.at # 0 /\ r.at = s.at => r = s
                       /\ r.at <= r.created

\* An active Deployment with a schedule always has a next occurrence: no race of
\* a scheduler's bookkeeping with an edit leaves it unscheduled for ever.
ScheduleStaysArmed ==
    dep.status = "active" /\ ~dep.archived /\ dep.scheduled => dep.nextRun # 0

\* Only the user ends an explicit pause: neither the delayed recovery of an
\* earlier failure nor an Update that read the row before the pause undoes it.
ManualPauseSticks ==
    [][dep.reason = "manual" /\ dep'.reason # "manual" => edits' = edits + 1]_depVars

\* Each occurrence runs once, the next one is always armed and a pause holds,
\* whichever replicas claim, crash or race an edit.
ScheduleIsExact ==
    [](OneRunPerOccurrence /\ ScheduleStaysArmed) /\ ManualPauseSticks
=============================================================================
