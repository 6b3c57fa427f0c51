-------------------------- MODULE SessionContract ---------------------------
(***************************************************************************)
(* What a Session promises its client, without Workflow, outbox, Signals   *)
(* or retried Activities: a queue of messages answered one at a time in    *)
(* receipt order, a wait for client actions that holds the queue back, and *)
(* a public status that is never idle while there is work it could do      *)
(* (docs/architecture/session-lifecycle.md, "Public states" and "Required  *)
(* actions").  SessionRuntime implements it.                               *)
(***************************************************************************)
EXTENDS Naturals, Sequences

VARIABLES
    status,   \* the public status
    queue,    \* messages accepted and not yet answered, in receipt order
    waiting,  \* client actions are outstanding or their answers in progress
    stop      \* the stop_reason of the last idle the client was told about

vars == <<status, queue, waiting, stop>>

Active == status \in {"running", "rescheduling"}

Init == status = "idle" /\ queue = <<>> /\ waiting = FALSE /\ stop = "none"

\* more is some messages after all of queue
Extends(more) ==
    /\ Len(more) >= Len(queue)
    /\ SubSeq(more, 1, Len(queue)) = queue

\* Input is queued behind a turn that is under way or behind a wait.
Accept ==
    /\ Active \/ (status = "idle" /\ waiting)
    /\ Extends(queue')
    /\ UNCHANGED <<status, waiting, stop>>

\* The message that finds the Session idle starts it; so does the last answer.
Start ==
    /\ status = "idle" /\ status' = "running"
    /\ Extends(queue')
    /\ waiting \/ queue' # queue
    /\ UNCHANGED <<waiting, stop>>

\* A retryable model failure and the resumption after it.
Reschedule ==
    /\ <<status, status'>> \in {<<"running", "rescheduling">>, <<"rescheduling", "running">>}
    /\ UNCHANGED <<queue, waiting, stop>>

\* What the end of a turn does to the queue: the turn of the oldest message
\* removes it, the turn that resumes after a wait removes none.
Answered ==
    \/ ~waiting /\ queue # <<>> /\ queue' = Tail(queue)
    \/ waiting /\ queue' = queue

\* A turn ends, and may leave a new wait.  The Session goes on with the next
\* message, after telling the client it was idle if it was interrupted.
EndTurn ==
    /\ Active
    /\ Answered
    /\ waiting' \in BOOLEAN
    /\ \/ /\ waiting' \/ queue' = <<>>
          /\ status' = "idle"
          /\ stop' = IF waiting' THEN "requires_action" ELSE "end_turn"
       \/ /\ ~waiting' /\ queue' # <<>>
          /\ status' = "running"
          /\ stop' \in {stop, "end_turn"}

\* The model's retries are exhausted: the queue is flushed, and the client told.
GiveUp ==
    /\ status = "running" /\ status' = "idle"
    /\ queue' = <<>> /\ waiting' = FALSE
    /\ stop' = "retries_exhausted"

\* A turn fails for good; what is still queued is never answered.
Terminate ==
    /\ status = "running" /\ status' = "terminated"
    /\ waiting' = FALSE
    /\ Answered
    /\ UNCHANGED stop

Next == Accept \/ Start \/ Reschedule \/ EndTurn \/ GiveUp \/ Terminate

Spec == Init /\ [][Next]_vars

-----------------------------------------------------------------------------
\* What the status tells the client is true: an idle Session has nothing queued
\* unless it waits for the client, and it never waits while it is terminated.
StatusIsTrue ==
    /\ status = "idle" /\ ~waiting => queue = <<>>
    /\ status = "terminated" => ~waiting
=============================================================================
