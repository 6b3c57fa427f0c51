--------------------------- MODULE EnvironmentWork ---------------------------
(***************************************************************************)
(* The activation and lease protocol of self-hosted Environments: a Work   *)
(* item asks some worker to serve a Session, and workers poll, acknowledge,*)
(* heartbeat and stop it.  One Session; time is a bounded clock, 0 is NULL.*)
(* Workers follow the documented flow: every heartbeat names the last one. *)
(* Sources: internal/pg/environment_work.go, internal/app and              *)
(* internal/httpapi/environment_work.go.                                   *)
(***************************************************************************)
EXTENDS Naturals, FiniteSets, FiniteSetsExt

CONSTANTS
    Runners,     \* self-hosted workers
    TTL,         \* ttl_seconds
    ReclaimAge,  \* reclaim_older_than_ms: an unacknowledged poll is offered again
    MaxWorkTime, \* bound: the clock
    MaxWork,     \* bound: Work items
    MaxWorkEvents \* bound: runnable events of the Session

ASSUME EnvironmentWorkAssumption ==
    /\ TTL \in Nat \ {0}
    /\ {ReclaimAge, MaxWorkTime, MaxWork, MaxWorkEvents} \subseteq Nat

VARIABLES
    workNow,    \* the clock of the database
    work,       \* environment_work, per id
    workSeq,    \* events.seq of the last runnable event
    workOpen,   \* runnable events without processed_at
    admitting,  \* the admission under way, past its INSERT but not committed
    runner,     \* what each worker believes: its item, last heartbeat and lease
    forced,     \* items that were stopped by force (history)
    overtaken   \* input committed after the item it was left to stopped (history)

workVars == <<workNow, work, workSeq, workOpen, admitting, runner, forced, overtaken>>

WorkIds == 1..MaxWork

NoWork == [state |-> "none", activation |-> 0, polled |-> 0, acked |-> 0,
           heartbeat |-> 0, stopRequested |-> 0]

\* seq 0: no admission; inserts: it has queued an item, visible when it commits
NoAdmission == [seq |-> 0, inserts |-> FALSE]

NoRunner == [item |-> 0, phase |-> "none", expected |-> 0, lease |-> 0]

WorkInit ==
    /\ workNow = 1 /\ work = [i \in WorkIds |-> NoWork]
    /\ workSeq = 0 /\ workOpen = {} /\ admitting = NoAdmission
    /\ runner = [r \in Runners |-> NoRunner] /\ forced = {} /\ overtaken = {}

\* environment_work_live_session_idx: one queued or executable item at a time
LiveWork(items) == {i \in WorkIds : items[i].state \in {"queued", "starting", "active"}}

\* INSERT ... ON CONFLICT DO NOTHING
InsertWork(items, seq) ==
    LET free == {i \in WorkIds : items[i].state = "none"}
    IN  IF LiveWork(items) # {} \/ free = {} THEN items
        ELSE [items EXCEPT ![Min(free)] = [NoWork EXCEPT !.state = "queued", !.activation = seq]]

\* admitLocked appends the event and reaches EnqueueEnvironmentWork: DO NOTHING
\* decides on the committed live item without locking it, and nothing of the
\* transaction is visible yet.  The Session's row lock admits one at a time.
EnqueueEnvironmentWork ==
    /\ admitting = NoAdmission
    /\ workSeq < MaxWorkEvents
    /\ \E i \in WorkIds : work[i].state = "none"
    /\ admitting' = [seq |-> workSeq + 1, inserts |-> LiveWork(work) = {}]
    /\ UNCHANGED <<workNow, work, workSeq, workOpen, runner, forced, overtaken>>

\* withPGXTx commits: the event and the item become visible together.
CommitAdmission ==
    /\ admitting # NoAdmission
    /\ workSeq' = admitting.seq
    /\ workOpen' = workOpen \cup {admitting.seq}
    /\ work' = IF admitting.inserts THEN InsertWork(work, admitting.seq) ELSE work
    /\ overtaken' = IF ~admitting.inserts /\ LiveWork(work) = {}
                      THEN overtaken \cup {admitting.seq} ELSE overtaken
    /\ admitting' = NoAdmission
    /\ UNCHANGED <<workNow, runner, forced>>

\* withPGXTx rolls back: a later step of the admission failed, or its process died.
AbortAdmission ==
    /\ admitting # NoAdmission
    /\ admitting' = NoAdmission
    /\ UNCHANGED <<workNow, work, workSeq, workOpen, runner, forced, overtaken>>

\* a turn of the Session takes an event up
ProcessRunnable ==
    /\ \E e \in workOpen : workOpen' = workOpen \ {e}
    /\ UNCHANGED <<workNow, work, workSeq, admitting, runner, forced, overtaken>>

Elapsed(since) == workNow > since + TTL

\* Mutant: the lease of an active item is counted from its acknowledgement.
RecoveredSinceAck(w) ==
    CASE w.state = "stopping" /\ Elapsed(w.stopRequested) -> [w EXCEPT !.state = "stopped"]
      [] w.state \in {"starting", "active"} /\ Elapsed(w.acked)
           -> [w EXCEPT !.state = "queued", !.acked = 0, !.heartbeat = 0, !.polled = 0]
      [] OTHER -> w

\* PollWork first gives up on workers that are gone: a stopping item is stopped,
\* and one that was acknowledged or active is queued again under its id.
Recovered(w) ==
    CASE w.state = "stopping" /\ Elapsed(w.stopRequested) -> [w EXCEPT !.state = "stopped"]
      [] \/ w.state = "starting" /\ Elapsed(w.acked)
         \/ w.state = "active" /\ Elapsed(w.heartbeat)
           -> [w EXCEPT !.state = "queued", !.acked = 0, !.heartbeat = 0, !.polled = 0]
      [] OTHER -> w

\* an item a poll may hand out: nobody else is at the Session
Candidates(items) ==
    {i \in WorkIds : /\ items[i].state = "queued"
                     /\ items[i].polled = 0 \/ items[i].polled + ReclaimAge <= workNow
                     /\ \A j \in WorkIds \ {i} :
                          items[j].state \notin {"starting", "active", "stopping"}}

PollWork(r) ==
    LET items == [i \in WorkIds |-> Recovered(work[i])]
        found == Candidates(items)
    IN  /\ runner[r].phase = "none"
        /\ work' = IF found = {} THEN items ELSE [items EXCEPT ![Min(found)].polled = workNow]
        /\ runner' = IF found = {} THEN runner
                     ELSE [runner EXCEPT ![r] = [NoRunner EXCEPT !.item = Min(found), !.phase = "polled"]]
        /\ work' # work \/ found # {}
        /\ UNCHANGED <<workNow, workSeq, workOpen, admitting, forced, overtaken>>

\* AckWork: a claim that another worker acknowledged is a conflict.
AckWork(r) ==
    LET w == work[runner[r].item]
    IN  /\ runner[r].phase = "polled"
        /\ IF w.state = "queued" /\ w.polled # 0
             THEN /\ work' = [work EXCEPT ![runner[r].item].state = "starting",
                                          ![runner[r].item].acked = workNow]
                  /\ runner' = [runner EXCEPT ![r].phase = "acked"]
             ELSE /\ runner' = [runner EXCEPT ![r] = NoRunner]
                  /\ UNCHANGED work
        /\ UNCHANGED <<workNow, workSeq, workOpen, admitting, forced, overtaken>>

\* the heartbeat precondition, 0 is NO_HEARTBEAT
HeartbeatMatches(r) == runner[r].expected = work[runner[r].item].heartbeat

\* HeartbeatWork: a mismatch or an item that is not executable ends the worker.
HeartbeatWork(r) ==
    /\ runner[r].phase \in {"acked", "leased"}
    /\ IF HeartbeatMatches(r) /\ work[runner[r].item].state \in {"starting", "active"}
         THEN /\ work' = [work EXCEPT ![runner[r].item].state = "active",
                                      ![runner[r].item].heartbeat = workNow]
              /\ runner' = [runner EXCEPT ![r].phase = "leased", ![r].expected = workNow,
                                          ![r].lease = workNow + TTL]
         ELSE /\ runner' = [runner EXCEPT ![r] = NoRunner]
              /\ UNCHANGED work
    /\ UNCHANGED <<workNow, workSeq, workOpen, admitting, forced, overtaken>>

\* committed input the item was not activated by
NewInput(i) == {e \in workOpen : e > work[i].activation}

\* StopWork locks its item only, READ COMMITTED: it does not see the event of an
\* admission under way, and queues a successor for the new input it does see.  Its
\* INSERT waits for an uncommitted one; MaxEventSeq is a statement before it, so
\* what was admitted in between is new input of the successor too.
StopWork(i, force) ==
    LET over == force \/ work[i].state \in {"queued", "starting"}
        stopped == [work EXCEPT
          ![i].state = IF over THEN "stopped" ELSE "stopping",
          ![i].stopRequested = IF @ = 0 THEN workNow ELSE @]
    IN  /\ work[i].state \notin {"none", "stopped"}
        /\ \E j \in WorkIds : work[j].state = "none"
        /\ NewInput(i) # {} => ~admitting.inserts
        /\ \E seq \in work[i].activation..workSeq :
             work' = IF NewInput(i) # {} THEN InsertWork(stopped, seq) ELSE stopped
        /\ work' # work
        /\ forced' = IF force /\ work[i].state \in {"active", "stopping"}
                       THEN forced \cup {i} ELSE forced
        /\ UNCHANGED <<workNow, workSeq, workOpen, admitting, runner, overtaken>>

\* A worker that ends, gracefully or not, forgets its item.
RunnerQuits(r) ==
    /\ runner[r] # NoRunner
    /\ runner' = [runner EXCEPT ![r] = NoRunner]
    /\ UNCHANGED <<workNow, work, workSeq, workOpen, admitting, forced, overtaken>>

WorkTick ==
    /\ workNow < MaxWorkTime
    /\ workNow' = workNow + 1
    /\ UNCHANGED <<work, workSeq, workOpen, admitting, runner, forced, overtaken>>

WorkNext ==
    \/ EnqueueEnvironmentWork \/ CommitAdmission \/ AbortAdmission
    \/ ProcessRunnable \/ WorkTick
    \/ \E r \in Runners : PollWork(r) \/ AckWork(r) \/ HeartbeatWork(r) \/ RunnerQuits(r)
    \/ \E i \in WorkIds, force \in BOOLEAN : StopWork(i, force)

WorkSpec == WorkInit /\ [][WorkNext]_workVars

-----------------------------------------------------------------------------
(* Properties                                                              *)

\* Work items are in one of their states and no timestamp is ahead of the clock.
WorkTypeOK ==
    /\ workNow \in 1..MaxWorkTime /\ workOpen \subseteq 1..workSeq
    /\ admitting.seq \in {0, workSeq + 1} /\ admitting.inserts \in BOOLEAN
    /\ overtaken \subseteq 1..workSeq
    /\ \A i \in WorkIds :
         /\ work[i].state \in {"none", "queued", "starting", "active", "stopping", "stopped"}
         /\ {work[i].polled, work[i].acked, work[i].heartbeat, work[i].stopRequested}
              \subseteq 0..workNow
    /\ \A r \in Runners : runner[r].item \in WorkIds \cup {0} /\ runner[r].expected <= workNow

\* a worker that may execute: its lease has not run out on its own clock
Executing(r) == runner[r].phase = "leased" /\ workNow <= runner[r].lease

\* Two workers never execute the Session at the same time, unless one of them
\* was stopped by force and has not heard of it.
ExclusiveLease ==
    \A r, s \in Runners :
        /\ Executing(r) /\ runner[r].item \notin forced
        /\ Executing(s) /\ runner[s].item \notin forced
        => r = s

\* some worker is to serve the event: an item is live, or was activated by it
Covered(e) == \/ LiveWork(work) # {}
              \/ \E i \in WorkIds : work[i].state # "none" /\ work[i].activation >= e

\* The claim of the comment in StopWork: its successor closes the race between
\* an admission and Stop, so that no input is left without an item.
NoLostActivation == \A e \in workOpen : Covered(e)

\* What the successor does achieve: input is left without an item only if it was
\* committed after the live item its admission had found was stopped.
ActivationKept == \A e \in workOpen \ overtaken : Covered(e)

\* A Session's work is executed by one worker at a time, and no input that found
\* an item when it was committed loses it: expiry, recovery and Stop included.
WorkIsExact == ExclusiveLease /\ ActivationKept
=============================================================================
