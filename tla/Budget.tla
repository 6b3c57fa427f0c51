------------------------------- MODULE Budget -------------------------------
(***************************************************************************)
(* The shared list-cost ceiling of a Session: every Thread asks for        *)
(* admission before a model request, accounts for the response once, and   *)
(* is paused durably when the ceiling is reached, until the budget is      *)
(* raised or removed.  One request costs one unit.                         *)
(* Sources: internal/pg/budget.go, advisor.go and api_store.go             *)
(* (UpdateSession), internal/domain/budget.go, the model loop of           *)
(* internal/temporal/agent_workflow.go and agent_workflow_tools.go.        *)
(***************************************************************************)
EXTENDS Naturals, FiniteSets

CONSTANTS
    Coordinator,   \* the primary Thread
    Helpers,       \* child Threads
    Ceilings,      \* values of max_list_cost; 0 is no budget
    MaxRequests,   \* bound: provider requests
    MaxInputs,     \* bound: user.message and user.interrupt
    MaxRuntime     \* bound: units of list cost of active time

ASSUME BudgetAssumption ==
    /\ Coordinator \notin Helpers /\ Ceilings \subseteq Nat
    /\ {MaxRequests, MaxInputs, MaxRuntime} \subseteq Nat

VARIABLES
    ceiling,   \* sessions.budget, 0 is NULL
    cost,      \* ModelListCostNanoUSD, ListCostKnown and the cost of active time
    thr,       \* per Thread: status, BudgetPaused, its own model cost
    btotal,    \* the Session's status
    usage,     \* model_request_usage: <<request, Thread>>
    turn,      \* the Workflow of each Thread: pc, its request, its messages
    nudge,     \* a wakeup on its way: outbox row or signal
    inputs     \* client events so far

budgetVars == <<ceiling, cost, thr, btotal, usage, turn, nudge, inputs>>

BudgetThreads == {Coordinator} \cup Helpers

BudgetInit ==
    /\ ceiling \in Ceilings \ {0} /\ cost = [model |-> 0, runtime |-> 0, known |-> TRUE]
    /\ thr = [t \in BudgetThreads |-> [status |-> "running", paused |-> FALSE, model |-> 0]]
    /\ btotal = "running" /\ usage = {}
    /\ turn = [t \in BudgetThreads |-> [pc |-> "admit", kind |-> "model", req |-> 0]]
    /\ nudge = [t \in BudgetThreads |-> FALSE] /\ inputs = 0

Consumed == cost.model + cost.runtime

\* BudgetReached: an unknown cost counts as reached
BudgetReached == ceiling # 0 /\ (~cost.known \/ Consumed >= ceiling)

\* aggregateSessionThreadStatus, of Threads that are running or idle
Aggregate(threads) ==
    IF \E t \in BudgetThreads : threads[t].status = "running" THEN "running" ELSE "idle"

Put(threads) == thr' = threads /\ btotal' = Aggregate(threads)

-----------------------------------------------------------------------------
(* The model loop of a Thread                                              *)

AdmitModelRequest(t) ==
    /\ turn[t].pc = "admit"
    /\ IF ~BudgetReached
         THEN /\ turn' = [turn EXCEPT ![t].pc = "call"]
              /\ UNCHANGED <<thr, btotal>>
         ELSE /\ turn' = [turn EXCEPT ![t].pc = "waiting"]
              /\ IF thr[t].paused THEN UNCHANGED <<thr, btotal>>
                 ELSE Put([thr EXCEPT ![t].paused = TRUE, ![t].status = "idle"])
    /\ UNCHANGED <<ceiling, cost, usage, nudge, inputs>>

\* waitForWakeup: any wakeup, then admission is asked again
WaitForWakeup(t) ==
    /\ turn[t].pc = "waiting" /\ nudge[t]
    /\ nudge' = [nudge EXCEPT ![t] = FALSE]
    /\ turn' = [turn EXCEPT ![t].pc = "admit"]
    /\ UNCHANGED <<ceiling, cost, thr, btotal, usage, inputs>>

Requests == {u[1] : u \in usage} \cup {turn[t].req : t \in BudgetThreads}

CallProvider(t) ==
    /\ turn[t].pc = "call"
    /\ \E r \in 1..MaxRequests \ Requests :
         /\ \A q \in 1..MaxRequests \ Requests : r <= q
         /\ turn' = [turn EXCEPT ![t].pc = "account", ![t].req = r]
    /\ UNCHANGED <<ceiling, cost, thr, btotal, usage, nudge, inputs>>

\* Mutant: a repeated Activity accounts again.
RecordedNever(t) == FALSE

\* INSERT INTO model_request_usage ... ON CONFLICT DO NOTHING; RowsAffected() = 0
Recorded(t) == \E u \in usage : u[1] = turn[t].req

\* AccountModelRequest, or CompleteAdvisorToolStep for a consultation: the
\* advisor's cost is the Session's but not the Thread's, and may be unknown.
\* The reply may get lost: the Activity is repeated.
AccountModelRequest(t, known, acked) ==
    /\ turn[t].pc = "account" /\ (known \/ turn[t].kind = "advisor")
    /\ usage' = usage \cup {<<turn[t].req, t>>}
    /\ IF Recorded(t) THEN UNCHANGED <<cost, thr>>
       ELSE /\ cost' = [cost EXCEPT !.model = IF known THEN @ + 1 ELSE @, !.known = @ /\ known]
            /\ thr' = IF turn[t].kind = "advisor" THEN thr
                      ELSE [thr EXCEPT ![t].model = @ + 1]
    /\ turn' = IF acked THEN [turn EXCEPT ![t].pc = "next"] ELSE turn
    /\ acked \/ ~Recorded(t)
    /\ UNCHANGED <<ceiling, btotal, nudge, inputs>>

\* another round, or a consultation of the advisor by the primary Thread
NextRequest(t, kind) ==
    /\ turn[t].pc = "next" /\ (kind = "advisor" => t = Coordinator)
    /\ turn' = [turn EXCEPT ![t] = [pc |-> "admit", kind |-> kind, req |-> 0]]
    /\ UNCHANGED <<ceiling, cost, thr, btotal, usage, nudge, inputs>>

\* the turn ends; queued input starts the next one at once
EndTurn(t) ==
    /\ turn[t].pc = "next"
    /\ IF nudge[t]
         THEN /\ turn' = [turn EXCEPT ![t] = [pc |-> "admit", kind |-> "model", req |-> 0]]
              /\ nudge' = [nudge EXCEPT ![t] = FALSE]
              /\ UNCHANGED <<thr, btotal>>
         ELSE /\ turn' = [turn EXCEPT ![t] = [pc |-> "idle", kind |-> "model", req |-> 0]]
              /\ Put([thr EXCEPT ![t].status = "idle"])
              /\ UNCHANGED nudge
    /\ UNCHANGED <<ceiling, cost, usage, inputs>>

BeginTurn(t) ==
    /\ turn[t].pc = "idle" /\ nudge[t] /\ thr[t].status = "running"
    /\ nudge' = [nudge EXCEPT ![t] = FALSE]
    /\ turn' = [turn EXCEPT ![t].pc = "admit"]
    /\ UNCHANGED <<ceiling, cost, thr, btotal, usage, inputs>>

-----------------------------------------------------------------------------
(* Clients                                                                 *)

\* admitLocked: runnable input marks the primary Thread running and wakes it.
AdmitUserMessage ==
    /\ inputs < MaxInputs /\ inputs' = inputs + 1
    /\ Put([thr EXCEPT ![Coordinator].status = "running"])
    /\ nudge' = [nudge EXCEPT ![Coordinator] = TRUE]
    /\ UNCHANGED <<ceiling, cost, usage, turn>>

\* an interrupt is only a wakeup for a paused turn
AdmitBudgetInterrupt(t) ==
    /\ inputs < MaxInputs /\ inputs' = inputs + 1
    /\ turn[t].pc = "waiting"
    /\ nudge' = [nudge EXCEPT ![t] = TRUE]
    /\ UNCHANGED <<ceiling, cost, thr, btotal, usage, turn>>

\* the Threads resumeBudgetPausedThreadsLocked wakes
Resumed == {t \in BudgetThreads : thr[t].paused}

\* UpdateSession: a new ceiling exceeds what is consumed, a removed one stays
\* removed; the paused Threads are resumed and woken in the same transaction.
UpdateBudget(new) ==
    /\ ceiling # 0 /\ new # ceiling
    /\ new # 0 => cost.known /\ new > Consumed
    /\ ceiling' = new
    /\ IF \E t \in BudgetThreads : thr[t].paused
         THEN Put([t \in BudgetThreads |-> IF thr[t].paused
                     THEN [thr[t] EXCEPT !.paused = FALSE, !.status = "running"] ELSE thr[t]])
         ELSE UNCHANGED <<thr, btotal>>
    /\ nudge' = [t \in BudgetThreads |-> nudge[t] \/ t \in Resumed]
    /\ UNCHANGED <<cost, usage, turn, inputs>>

\* active time of the Session has a list price too
AccrueRuntime ==
    /\ btotal = "running" /\ cost.runtime < MaxRuntime
    /\ cost' = [cost EXCEPT !.runtime = @ + 1]
    /\ UNCHANGED <<ceiling, thr, btotal, usage, turn, nudge, inputs>>

BudgetNext ==
    \/ \E t \in BudgetThreads :
         \/ AdmitModelRequest(t) \/ WaitForWakeup(t) \/ CallProvider(t)
         \/ EndTurn(t) \/ BeginTurn(t) \/ AdmitBudgetInterrupt(t)
         \/ \E known, acked \in BOOLEAN : AccountModelRequest(t, known, acked)
         \/ \E kind \in {"model", "advisor"} : NextRequest(t, kind)
    \/ AdmitUserMessage \/ AccrueRuntime
    \/ \E new \in Ceilings : UpdateBudget(new)

BudgetSpec == BudgetInit /\ [][BudgetNext]_budgetVars

-----------------------------------------------------------------------------
(* Properties                                                              *)

\* Threads, requests and the ceiling are of their kinds.
BudgetTypeOK ==
    /\ ceiling \in Ceilings /\ cost.runtime \in 0..MaxRuntime
    /\ \A t \in BudgetThreads :
         /\ thr[t].status \in {"running", "idle"} /\ turn[t].req \in 0..MaxRequests
         /\ turn[t].pc \in {"admit", "call", "account", "waiting", "next", "idle"}

\* Every provider response is paid for once: the Session's cost is the number of
\* distinct requests recorded (or unknown), and a Thread's at most its own.
RequestsPaidOnce ==
    /\ cost.known => cost.model = Cardinality(usage)
    /\ \A t \in BudgetThreads : thr[t].model <= Cardinality({u \in usage : u[2] = t})

\* A turn waits for a wakeup only while its Thread is marked paused, or with a
\* wakeup on its way: raising the budget strands no Thread.  A Thread is marked
\* paused only while its turn is at the admission check.
BudgetPauseResumes ==
    \A t \in BudgetThreads :
        /\ turn[t].pc = "waiting" => thr[t].paused \/ nudge[t]
        /\ thr[t].paused => turn[t].pc \in {"waiting", "admit"}

\* docs/api/sessions.md: when the ceiling is reached, affected Threads become
\* idle with budget_reached.
PausedThreadIsIdle == \A t \in BudgetThreads : thr[t].paused => thr[t].status = "idle"

\* Retried accounting never pays twice, and a pause always has its way out.
BudgetIsExact == RequestsPaidOnce /\ BudgetPauseResumes
=============================================================================
