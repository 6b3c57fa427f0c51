------------------------ MODULE SessionRuntimeProofs ------------------------
(***************************************************************************)
(* Proofs about one Session (SessionRuntime): its types, that the cursor   *)
(* passes no work, that no wakeup is lost, that a turn ends once, that     *)
(* the status is the projection of the ledger, that an idle Session has    *)
(* nothing queued, and that messages are finished in receipt order.  One   *)
(* inductive invariant, SessionInv, carries them all: each of its parts    *)
(* needs others of them to survive every action.  With ContractInv beside  *)
(* it a Session implements SessionContract.                                *)
(***************************************************************************)
EXTENDS SessionRuntime, FiniteSetTheorems, WellFoundedInduction, SequenceTheorems, TLAPS

\* where the Workflow is while it runs a turn
TurnPcs == {"prepare", "model", "call", "tool", "approved", "evaluate", "grade", "retry",
            "backoff", "resume", "finish", "reply"}
Pcs == {"none", "wait", "pending", "gate", "load", "each", "drained", "close"} \cup TurnPcs

EventTypes == TriggerTypes \cup {"interrupt"} \cup ResolutionTypes \cup ActionTypes \cup StatusTypes
Reasons == {"none", "end_turn", "requires_action", "retries_exhausted"}
EventType == [type : EventTypes, turn : Nat, reason : Reasons]
RelayType == [at : {"scan", "deliver", "delete"}, seq : Nat]
TurnType == [trigger : Nat, res : SUBSET Nat, preflight : BOOLEAN, round : Nat, try : Nat,
             overflowed : BOOLEAN, more : [Continuations -> Nat], grade : Nat,
             acknowledging : BOOLEAN, keyed : BOOLEAN,
             ask : {"none", "ack", "end", "exhausted", "fail"}, acts : Seq(ActionTypes),
             graded : BOOLEAN, committed : BOOLEAN,
             disposition : {"none", "completed", "parked", "terminated"}]

\* rows of pending_actions: actions of the ledger, each with the event that claims it
IsRows(rows) == /\ DOMAIN rows \subseteq Seqs
                /\ rows \in [DOMAIN rows -> Seqs \cup {0}]

\* what the variables hold
SessionTyped ==
    /\ log \in Seq(EventType) /\ processed \subseteq Seqs
    /\ status \in {"idle", "running", "rescheduling", "terminated"}
    /\ IsRows(pending) /\ IsRows(barrier)
    /\ outcome \in 0..Len(log) /\ outbox \in 0..Len(log) /\ cursor \in 0..Len(log)
    /\ inputs \in 0..MaxInputs /\ fast \in BOOLEAN
    /\ relay \in [Relays -> RelayType] /\ \A r \in Relays : relay[r].seq <= Len(log)
    /\ signals \in 0..MaxSignals /\ lost \in 0..MaxLost
    /\ pc \in Pcs /\ batch \in Seq(Nat) /\ turn \in TurnType

\* rows are claimed by resolutions, the active outcome is an outcome's event, and
\* outcomes are stamped on receipt
LedgerTyped ==
    /\ \A a \in DOMAIN pending : pending[a] # 0 => log[pending[a]].type \in ResolutionTypes
    /\ outcome # 0 => log[outcome].type = "outcome"
    /\ \A s \in Seqs : log[s].type = "outcome" => s \in processed

\* the events of a batch follow the cursor, and a batch outlives its turn alone
BatchFollows ==
    /\ cursor + Len(batch) <= Len(log)
    /\ \A i \in 1..Len(batch) : batch[i] = cursor + i
    /\ pc \notin TurnPcs \cup {"each"} => batch = <<>>
    /\ pc = "each" => batch # <<>>
    /\ pc \notin TurnPcs => turn = NoTurn

\* the barrier the Workflow has read is the ledger's, as it was or claimed further
BarrierRead ==
    /\ pc \in {"load", "each"} => DOMAIN pending = {}
    /\ pc = "gate" => /\ DOMAIN barrier # {} /\ DOMAIN barrier = DOMAIN pending
                      /\ \A a \in DOMAIN barrier : barrier[a] \in {0, pending[a]}

\* work behind the cursor is done
CursorBehind == \A s \in Unprocessed({"message", "interrupt"}) : s > cursor

Acking == turn.ask = "ack"
Interrupts == Unprocessed({"interrupt"})

\* a turn that parked the Session has said so
Parked(t) == \E s \in Seqs : log[s].turn = t /\ log[s].reason = "requires_action"

\* what a turn is about: an event of the batch, or the barrier of the ledger
TurnSubject ==
    pc \in TurnPcs =>
        /\ turn.trigger \in Seqs /\ turn.res \subseteq Seqs
        /\ batch # <<>> => turn.trigger = cursor + 1
        /\ Acking => log[turn.trigger].type = "interrupt" /\ turn.res = {} /\ turn.acts = <<>>
        /\ ~Acking /\ batch # <<>> => turn.res = {} /\ log[turn.trigger].type \in TriggerTypes
        /\ ~Acking /\ batch = <<>> => /\ turn.trigger \in turn.res /\ 0 \notin turn.res
                                      /\ log[turn.trigger].type \in ResolutionTypes
        /\ ~Acking /\ ~turn.committed =>
             IF batch = <<>> THEN Range(pending) = turn.res ELSE DOMAIN pending = {}
        /\ Acking /\ batch # <<>> => DOMAIN pending = {}
        /\ turn.committed /\ batch # <<>> => DOMAIN pending = {} \/ Parked(turn.trigger)
        /\ ~Acking => \A i \in Interrupts : i > turn.trigger

\* how far a turn has come
TurnProgress ==
    pc \in TurnPcs =>
        /\ turn.ask = "none" <=> pc \notin {"finish", "reply"}
        /\ turn.committed => /\ pc \in {"finish", "reply"} /\ turn.trigger \in processed
                             /\ turn.trigger \notin Claims(pending)
        /\ pc = "reply" => turn.trigger \in processed /\ (~Acking => turn.committed)
        /\ ~turn.committed /\ ~Acking /\ pc # "prepare" => ~AlreadyCompleted(turn.trigger)
        /\ turn.acts # <<>> => pc \in {"tool", "finish", "reply"} /\ turn.ask \in {"none", "end"}
        /\ pc \in {"call", "tool", "evaluate", "retry"} \/ turn.ask = "exhausted" \/ turn.acts # <<>> => turn.keyed
        /\ turn.ask = "end" /\ ~turn.keyed /\ ~turn.committed => Interrupts # {}
        /\ ~Acking /\ turn.committed /\ ~turn.keyed /\ outcome = turn.trigger =>
             turn.ask = "fail" /\ status = "terminated"

DispositionTrue ==
    pc = "reply" /\ ~Acking =>
        /\ turn.disposition = "parked" => Parked(turn.trigger)
        /\ turn.disposition = "terminated" => status = "terminated"
        /\ turn.disposition = "completed" => ~Parked(turn.trigger)
        /\ turn.disposition # "none"

\* a terminated Session stays terminated
TerminationStands ==
    /\ status = "terminated" => Interrupts = {}
    /\ pc \in {"call", "tool", "evaluate", "grade", "retry", "backoff", "resume"} => status # "terminated"
    /\ pc \in {"finish", "reply"} /\ turn.ask \in {"end", "exhausted"} => status # "terminated"
    /\ pc = "none" => cursor = 0 \/ status = "terminated"
    /\ pc = "close" => status = "terminated"

EndTypes == {"idle", "terminated"}
IsEnd(s) == log[s].type \in EndTypes /\ log[s].turn # 0

\* the end of a turn is an end: its trigger is done with and left behind
EndsAreEnds ==
    \A s \in Seqs :
        /\ log[s].reason # "none" => log[s].type = "idle" /\ log[s].turn # 0
        /\ IsEnd(s) => /\ log[s].turn \in processed /\ log[s].turn \notin Claims(pending)
                       /\ log[log[s].turn].type = "outcome" /\ status # "terminated" =>
                            log[s].turn <= cursor \/ (turn.committed /\ turn.trigger = log[s].turn)

\* a wakeup that nobody is about to take away
WakeupComing ==
    /\ outbox # 0 \/ signals > 0
    /\ \A r \in Relays : relay[r].at = "delete" /\ relay[r].seq = outbox => outbox = 0 \/ signals > 0

\* the Workflow will not look at the ledger again unless it is woken
Asleep ==
    \/ pc \in {"none", "wait", "drained"}
    \/ pc \in {"finish", "reply"} /\ turn.committed /\ ~Acking /\ Parked(turn.trigger)

WakeupsComing ==
    /\ Runnable /\ Asleep => WakeupComing
    /\ pc = "gate" /\ FullyClaimed(pending) /\ ~FullyClaimed(barrier) => WakeupComing

\* an idle Session without a barrier has nothing queued
IdleIsDrained == status = "idle" /\ DOMAIN pending = {} => Unprocessed({"message"}) = {}

NoOutcomes == "outcome" \notin Inputs
NoFailures == "fail" \notin Replies

\* without failing replies a turn fails in its model loop alone
FailsInLoop ==
    /\ NoOutcomes => outcome = 0
    /\ NoFailures /\ pc \in {"finish", "reply"} /\ turn.ask = "fail" =>
         turn.keyed /\ (~turn.committed => status # "terminated")

\* the status of a Session while a turn is on its way
Quiet == "interrupt" \notin Inputs
Plain == NoOutcomes /\ Parks = {}
StatusFollows ==
    /\ pc \in {"call", "tool", "evaluate", "grade", "retry"} => status = "running"
    /\ pc \in {"backoff", "resume"} => status = "rescheduling"
    /\ pc = "finish" /\ turn.ask \in {"end", "exhausted"} /\ ~turn.committed => status = "running" \/ Interrupts # {}
    /\ status = "rescheduling" => \/ pc \in {"backoff", "resume"}
                                  \/ pc = "finish" /\ turn.ask = "end" /\ ~turn.committed
    /\ Quiet => Interrupts = {} /\ \A s \in Seqs : log[s].type # "interrupt"
    /\ Plain => /\ DOMAIN pending = {} /\ turn.acts = <<>>
                /\ status \in {"running", "rescheduling"} => Unprocessed({"message"}) # {}

SessionInv == /\ SessionTyped /\ LedgerTyped /\ BatchFollows /\ BarrierRead /\ CursorBehind
              /\ TurnSubject /\ TurnProgress /\ DispositionTrue /\ TerminationStands /\ EndsAreEnds
              /\ WakeupsComing /\ IdleIsDrained /\ FailsInLoop /\ StatusFollows
              /\ (NoOutcomes \/ NoFailures => OneEndPerTurn)
              /\ (Quiet \/ Plain => StatusIsProjection)

-----------------------------------------------------------------------------
(* Operators of the model                                                  *)

\* Min of a non-empty set of naturals is its least element.
LEMMA MinIsLeast ==
    ASSUME NEW S \in SUBSET Nat, S # {}
    PROVE  Min(S) \in S /\ \A x \in S : Min(S) <= x
<1> DEFINE R == {p \in Nat \X Nat : p[1] < p[2]}
<1>1. IsWellFoundedOn(R, Nat)
  BY NatLessThanWellFounded, Zenon DEF OpToRel
<1>2. PICK m \in S : \A x \in S : <<x, m>> \notin R
  <2> HIDE DEF R
  <2> QED BY <1>1, WFMin
<1>3. \A x \in S : m <= x
  <2> TAKE x \in S
  <2>1. <<x, m>> \in Nat \X Nat /\ <<x, m>>[1] = x /\ <<x, m>>[2] = m
    OBVIOUS
  <2>2. ~(<<x, m>>[1] < <<x, m>>[2])
    BY <1>2, <2>1, Zenon
  <2> QED BY <2>1, <2>2
<1> QED BY <1>3 DEF Min

\* Max of a non-empty set of numbers up to n is its greatest element.
LEMMA MaxIsGreatest ==
    ASSUME NEW n \in Nat, NEW S \in SUBSET (0..n), S # {}
    PROVE  Max(S) \in S /\ \A x \in S : x <= Max(S)
<1> DEFINE T == {n - x : x \in S}
<1>1. T \in SUBSET Nat /\ T # {}
  <2>1. \A x \in S : n - x \in Nat
    OBVIOUS
  <2>2. T \subseteq Nat
    BY <2>1, Zenon
  <2>3. PICK x \in S : TRUE
    OBVIOUS
  <2>4. n - x \in T
    OBVIOUS
  <2> QED BY <2>2, <2>4
<1>2. PICK m \in T : \A y \in T : m <= y
  <2> HIDE DEF T
  <2> QED BY <1>1, MinIsLeast
<1>3. PICK g \in S : m = n - g
  OBVIOUS
<1>4. \A x \in S : x <= g
  <2> TAKE x \in S
  <2>1. n - x \in T
    OBVIOUS
  <2>2. m <= n - x
    BY <1>2, <2>1
  <2> QED BY <1>3, <2>2
<1> QED BY <1>3, <1>4 DEF Max

\* What appending does to a sequence.
LEMMA Concat ==
    ASSUME NEW S, NEW s \in Seq(S), NEW t \in Seq(S)
    PROVE  /\ s \o t \in Seq(S) /\ Len(s \o t) = Len(s) + Len(t)
           /\ \A i \in 1..Len(s) : (s \o t)[i] = s[i]
           /\ \A i \in 1..Len(t) : (s \o t)[Len(s) + i] = t[i]
           /\ \A i \in 1..Len(s \o t) : i \in 1..Len(s) \/ \E j \in 1..Len(t) : i = Len(s) + j
<1>1. /\ s \o t \in Seq(S) /\ Len(s \o t) = Len(s) + Len(t)
      /\ \A i \in 1..Len(s) : (s \o t)[i] = s[i]
      /\ \A i \in 1..Len(t) : (s \o t)[Len(s) + i] = t[i]
  OBVIOUS
<1>2. ASSUME NEW i \in 1..Len(s \o t), i \notin 1..Len(s) PROVE \E j \in 1..Len(t) : i = Len(s) + j
  <2>1. i - Len(s) \in 1..Len(t) /\ i = Len(s) + (i - Len(s))
    BY <1>1, <1>2
  <2> QED BY <2>1
<1> QED BY <1>1, <1>2

\* The events of the ledger are the numbers up to its length.
LEMMA Numbered ==
    ASSUME SessionTyped
    PROVE  /\ Seqs = 1..Len(log) /\ Len(log) \in Nat
           /\ \A s \in Seqs : /\ log[s] \in EventType /\ log[s].type \in EventTypes
                              /\ log[s].turn \in Nat /\ log[s].reason \in Reasons
<1>1. Seqs = 1..Len(log) /\ Len(log) \in Nat /\ \A s \in Seqs : log[s] \in EventType
  BY DEF SessionTyped, Seqs
<1> QED BY <1>1 DEF EventType

\* InterruptAfter is the first unprocessed interrupt after an event.
LEMMA InterruptAfterFacts ==
    ASSUME SessionTyped, NEW s \in Nat
    PROVE  \/ InterruptAfter(s) = 0 /\ \A j \in Interrupts : j <= s
           \/ /\ InterruptAfter(s) \in Interrupts /\ InterruptAfter(s) > s
              /\ InterruptAfter(s) # 0
              /\ \A j \in Interrupts : j > s => InterruptAfter(s) <= j
<1> DEFINE later == {i \in Unprocessed({"interrupt"}) : i > s}
<1>1. Interrupts \subseteq Seqs /\ Seqs \subseteq Nat
  BY Numbered DEF Interrupts, Unprocessed
<1>2. CASE later = {}
  <2>1. InterruptAfter(s) = 0
    BY <1>2 DEF InterruptAfter
  <2>2. \A j \in Interrupts : ~(j > s)
    BY <1>2 DEF Interrupts
  <2>3. \A j \in Interrupts : j \in Nat
    BY <1>1, Zenon
  <2>4. \A j \in Interrupts : j <= s
    BY <2>2, <2>3
  <2> QED BY <2>1, <2>4
<1>3. CASE later # {}
  <2>1. later \in SUBSET Nat
    BY <1>1 DEF Interrupts
  <2>2. InterruptAfter(s) = Min(later)
    BY <1>3 DEF InterruptAfter
  <2>3. Min(later) \in later /\ \A x \in later : Min(later) <= x
    <3> HIDE DEF later
    <3> QED BY <1>3, <2>1, MinIsLeast
  <2> QED BY <1>1, <2>2, <2>3 DEF Interrupts
<1> QED BY <1>2, <1>3

\* What a row claims.
LEMMA ClaimsFacts ==
    ASSUME NEW rows
    PROVE  /\ \A a \in DOMAIN rows : rows[a] # 0 => rows[a] \in Claims(rows)
           /\ \A c \in Claims(rows) : c # 0 /\ \E a \in DOMAIN rows : rows[a] = c
           /\ \A a \in DOMAIN rows : rows[a] \in Range(rows)
           /\ FullyClaimed(rows) <=> \A a \in DOMAIN rows : rows[a] # 0
           /\ FullyClaimed(rows) => Claims(rows) = Range(rows)
           /\ DOMAIN rows = {} => Claims(rows) = {} /\ FullyClaimed(rows)
BY DEF Claims, FullyClaimed, Range

\* Claims are resolutions of the ledger.
LEMMA ClaimsAreResolutions ==
    ASSUME SessionTyped, LedgerTyped
    PROVE  \A c \in Claims(pending) : c \in Seqs /\ log[c].type \in ResolutionTypes
<1>1. \A a \in DOMAIN pending : pending[a] \in Seqs \cup {0}
  BY DEF SessionTyped, IsRows
<1> QED BY <1>1, ClaimsFacts DEF LedgerTyped

-----------------------------------------------------------------------------
(* A turn on its way                                                       *)

SameTurn(t, u) == t.trigger = u.trigger /\ t.res = u.res /\ t.committed = u.committed

\* what a step of the model loop may do: it keeps the turn's subject and goes on
\* where the Session's status lets it
Proceeds ==
    /\ pc \in TurnPcs \ {"finish", "reply"} /\ pc' \in TurnPcs \ {"prepare", "reply"}
    /\ turn' \in TurnType /\ SameTurn(turn', turn)
    /\ turn'.ask = "none" <=> pc' # "finish"
    /\ turn'.ask # "ack"
    /\ turn'.acts # <<>> => turn'.keyed /\ pc' \in {"tool", "finish"} /\ turn'.ask \in {"none", "end"}
    /\ Plain => turn'.acts = <<>>
    /\ pc' \in {"call", "tool", "evaluate", "retry"} \/ turn'.ask = "exhausted" => turn'.keyed
    /\ turn'.ask = "end" /\ ~turn'.keyed => Interrupts # {}
    /\ NoFailures /\ turn'.ask = "fail" => turn'.keyed /\ status # "terminated"
    /\ pc' \in {"call", "tool", "evaluate", "grade", "retry"} => status = "running"
    /\ pc' \in {"backoff", "resume"} => status = "rescheduling"
    /\ turn'.ask \in {"end", "exhausted"} => status = "running" \/ Interrupts # {}
    /\ status = "rescheduling" => pc' \in {"backoff", "resume"} \/ turn'.ask = "end"

\* A step of the model loop keeps the invariant.
LEMMA ProceedStep ==
    ASSUME SessionInv, Proceeds, ~AlreadyCompleted(turn.trigger),
           UNCHANGED <<ledger, inputs, delivery, lost, cursor, batch, barrier>>,
           signals' \in 0..MaxSignals
    PROVE  SessionInv'
<1>1. /\ log' = log /\ processed' = processed /\ status' = status /\ pending' = pending
      /\ outcome' = outcome /\ outbox' = outbox /\ inputs' = inputs /\ fast' = fast
      /\ relay' = relay /\ lost' = lost /\ cursor' = cursor /\ batch' = batch /\ barrier' = barrier
  BY DEF ledger, delivery
<1>2. /\ Seqs' = Seqs /\ Interrupts' = Interrupts /\ Claims(pending)' = Claims(pending)
      /\ AlreadyCompleted(turn.trigger)' = AlreadyCompleted(turn'.trigger)
      /\ Unprocessed({"message"})' = Unprocessed({"message"})
      /\ Unprocessed({"message", "interrupt"})' = Unprocessed({"message", "interrupt"})
      /\ Range(pending)' = Range(pending)
  BY <1>1 DEF Seqs, Interrupts, Unprocessed, Claims, AlreadyCompleted, Range
<1>3. /\ turn' \in TurnType /\ turn'.trigger = turn.trigger /\ turn'.res = turn.res
      /\ turn'.committed = turn.committed /\ turn'.ask # "ack"
  BY DEF Proceeds, SameTurn
<1>4. /\ pc \in TurnPcs /\ pc' \in TurnPcs /\ pc' # "reply" /\ pc' # "prepare"
      /\ pc # "finish" /\ pc # "reply"
  BY DEF Proceeds
<1>5. ~turn.committed /\ turn.ask = "none"
  BY <1>4 DEF SessionInv, TurnProgress
<1>6. ~turn'.committed /\ ~Acking /\ ~Acking'
  BY <1>3, <1>5 DEF Acking
<1>7. SessionTyped'
  <2>1. pc' \in Pcs
    BY <1>4 DEF Pcs
  <2> QED BY <1>1, <1>3, <2>1 DEF SessionInv, SessionTyped, IsRows, Seqs
<1>8. LedgerTyped' /\ CursorBehind' /\ IdleIsDrained'
  BY <1>1, <1>2 DEF SessionInv, LedgerTyped, CursorBehind, IdleIsDrained
<1>9. BatchFollows' /\ BarrierRead'
  BY <1>1, <1>4 DEF SessionInv, BatchFollows, BarrierRead, TurnPcs
<1>10. TurnSubject'
  BY <1>1, <1>2, <1>3, <1>4, <1>5, <1>6 DEF SessionInv, TurnSubject
<1>11. AlreadyCompleted(turn'.trigger) = AlreadyCompleted(turn.trigger)
  BY <1>3
<1>12. TurnProgress'
  <2>1. ~AlreadyCompleted(turn.trigger)'
    BY <1>2, <1>11
  <2>2. /\ turn'.ask = "none" <=> pc' \notin {"finish", "reply"}
        /\ turn'.acts # <<>> => pc' \in {"tool", "finish", "reply"} /\ turn'.ask \in {"none", "end"}
        /\ pc' \in {"call", "tool", "evaluate", "retry"} \/ turn'.ask = "exhausted" \/ turn'.acts # <<>> => turn'.keyed
        /\ turn'.ask = "end" /\ ~turn'.keyed => Interrupts' # {}
    BY <1>2, <1>4 DEF Proceeds
  <2> QED BY <1>4, <1>6, <2>1, <2>2 DEF TurnProgress
<1>13. DispositionTrue'
  BY <1>4 DEF DispositionTrue
<1>14. TerminationStands'
  <2>1. status = "terminated" => Interrupts = {}
    BY DEF SessionInv, TerminationStands
  <2>2. turn'.ask \in {"end", "exhausted"} => status # "terminated"
    BY <2>1 DEF Proceeds
  <2>3. pc' \in {"call", "tool", "evaluate", "grade", "retry", "backoff", "resume"} => status # "terminated"
    BY DEF Proceeds
  <2>4. pc' # "none" /\ pc' # "close"
    BY <1>4 DEF TurnPcs
  <2> QED BY <1>1, <1>2, <2>1, <2>2, <2>3, <2>4 DEF TerminationStands
<1>15. EndsAreEnds'
  BY <1>1, <1>2, <1>3, <1>5, <1>6 DEF SessionInv, EndsAreEnds, IsEnd
<1>16. WakeupsComing'
  <2>1. ~Asleep'
    BY <1>4, <1>6 DEF Asleep, TurnPcs
  <2> QED BY <1>4, <2>1 DEF WakeupsComing, TurnPcs
<1>17. FailsInLoop'
  BY <1>1, <1>4, <1>6 DEF SessionInv, FailsInLoop, Proceeds
<1>18. StatusFollows'
  <2>1. /\ Quiet => Interrupts' = {} /\ \A s \in Seqs' : log'[s].type # "interrupt"
        /\ Plain => DOMAIN pending' = {} /\ (status' \in {"running", "rescheduling"} => Unprocessed({"message"})' # {})
    BY <1>1, <1>2 DEF SessionInv, StatusFollows
  <2>2. /\ pc' \in {"call", "tool", "evaluate", "grade", "retry"} => status' = "running"
        /\ pc' \in {"backoff", "resume"} => status' = "rescheduling"
        /\ pc' = "finish" /\ turn'.ask \in {"end", "exhausted"} /\ ~turn'.committed =>
             status' = "running" \/ Interrupts' # {}
        /\ status' = "rescheduling" => \/ pc' \in {"backoff", "resume"}
                                       \/ pc' = "finish" /\ turn'.ask = "end" /\ ~turn'.committed
        /\ Plain => turn'.acts = <<>>
    BY <1>1, <1>2, <1>6 DEF Proceeds
  <2> QED BY <2>1, <2>2 DEF StatusFollows, Quiet, Plain, NoOutcomes
<1>19. NoOutcomes \/ NoFailures => OneEndPerTurn'
  BY <1>1, <1>2 DEF SessionInv, OneEndPerTurn
<1>20. Quiet \/ Plain => StatusIsProjection'
  BY <1>1, <1>2 DEF SessionInv, StatusIsProjection
<1> QED
  BY <1>7, <1>8, <1>9, <1>10, <1>12, <1>13, <1>14, <1>15, <1>16, <1>17, <1>18, <1>19, <1>20
  DEF SessionInv, NoOutcomes, NoFailures, Quiet, Plain

\* what an update of a turn keeps besides its subject
Alike(t, u) == SameTurn(t, u) /\ t.keyed = u.keyed /\ t.acts = u.acts

\* A turn that asks for its end is at "finish" and else as it was.
LEMMA Asked ==
    ASSUME NEW t \in TurnType, NEW k \in {"ack", "end", "exhausted", "fail"}, Ask(t, k)
    PROVE  /\ pc' = "finish" /\ turn' \in TurnType /\ turn'.ask = k /\ Alike(turn', t)
<1>1. turn' = [t EXCEPT !.ask = k] /\ pc' = "finish"
  BY DEF Ask
<1> QED BY <1>1 DEF TurnType, Alike, SameTurn

\* A turn that fails asks for no action.
LEMMA Failed ==
    ASSUME NEW t \in TurnType, Fail(t)
    PROVE  /\ pc' = "finish" /\ turn' \in TurnType /\ turn'.ask = "fail"
           /\ SameTurn(turn', t) /\ turn'.keyed = t.keyed /\ turn'.acts = <<>>
<1>1. PICK u \in TurnType : u = [t EXCEPT !.acts = <<>>]
  <2>1. [t EXCEPT !.acts = <<>>] \in TurnType
    BY EmptySeq DEF TurnType
  <2> QED BY <2>1
<1>2. SameTurn(u, t) /\ u.keyed = t.keyed /\ u.acts = <<>>
  BY <1>1 DEF TurnType, SameTurn
<1>3. Ask(u, "fail")
  BY <1>1 DEF Fail
<1> QED BY <1>2, <1>3, Asked DEF Alike, SameTurn

\* A turn goes around its loop or fails at the limit.
LEMMA Rounds ==
    ASSUME NEW t \in TurnType, t.ask = "none", NextRound(t)
    PROVE  \/ pc' = "model" /\ turn' \in TurnType /\ turn'.ask = "none" /\ Alike(turn', t)
           \/ /\ pc' = "finish" /\ turn' \in TurnType /\ turn'.ask = "fail"
              /\ SameTurn(turn', t) /\ turn'.keyed = t.keyed /\ turn'.acts = <<>>
<1>1. CASE turn.round < RoundLimit
  <2>1. /\ pc' = "model"
        /\ turn' = [t EXCEPT !.round = @ + 1, !.try = 1, !.overflowed = FALSE, !.graded = FALSE]
    BY <1>1 DEF NextRound
  <2>2. PICK n \in Nat : n = t.round + 1
    BY DEF TurnType
  <2>3. turn' = [t EXCEPT !.round = n, !.try = 1, !.overflowed = FALSE, !.graded = FALSE]
    BY <2>1, <2>2
  <2>4. turn' \in TurnType
    BY <2>3 DEF TurnType
  <2>5. turn'.ask = t.ask /\ Alike(turn', t)
    BY <2>3 DEF TurnType, Alike, SameTurn
  <2> QED BY <2>1, <2>4, <2>5
<1>2. CASE ~(turn.round < RoundLimit)
  <2>1. Fail(t)
    BY <1>2 DEF NextRound
  <2> QED BY <2>1, Failed
<1> QED BY <1>1, <1>2

\* A turn that has passed its preparation.
LEMMA OnItsWay ==
    ASSUME SessionInv, pc \in TurnPcs \ {"finish", "reply"}
    PROVE  /\ turn \in TurnType /\ turn.ask = "none" /\ ~turn.committed
           /\ turn.trigger \in Seqs /\ turn.trigger \in Nat
           /\ \A i \in Interrupts : i > turn.trigger
           /\ InterruptAfter(turn.trigger) # 0 <=> Interrupts # {}
           /\ pc # "prepare" => ~AlreadyCompleted(turn.trigger)
           /\ turn.acts # <<>> => pc = "tool" /\ turn.keyed
           /\ Plain => turn.acts = <<>>
           /\ pc \in {"call", "tool", "evaluate", "retry"} => turn.keyed
           /\ status = "terminated" => Interrupts = {}
           /\ signals \in 0..MaxSignals
<1>1. /\ SessionTyped /\ turn \in TurnType /\ turn.ask = "none" /\ ~turn.committed /\ turn.trigger \in Seqs
      /\ pc # "prepare" => ~AlreadyCompleted(turn.trigger)
      /\ \A i \in Interrupts : i > turn.trigger
      /\ signals \in 0..MaxSignals
  BY DEF SessionInv, SessionTyped, TurnSubject, TurnProgress, Acking
<1>2. turn.trigger \in Nat /\ Interrupts \subseteq Nat
  BY <1>1, Numbered DEF Interrupts, Unprocessed
<1>3. InterruptAfter(turn.trigger) # 0 <=> Interrupts # {}
  <2>1. \/ InterruptAfter(turn.trigger) = 0 /\ \A j \in Interrupts : j <= turn.trigger
        \/ InterruptAfter(turn.trigger) \in Interrupts /\ InterruptAfter(turn.trigger) # 0
    BY <1>1, <1>2, InterruptAfterFacts
  <2>2. (\A j \in Interrupts : j <= turn.trigger) => Interrupts = {}
    BY <1>1, <1>2
  <2> QED BY <2>1, <2>2
<1>4. /\ turn.acts # <<>> => pc = "tool" /\ turn.keyed
      /\ pc \in {"call", "tool", "evaluate", "retry"} => turn.keyed
  BY DEF SessionInv, TurnProgress
<1>5. Plain => turn.acts = <<>>
  BY DEF SessionInv, StatusFollows
<1>6. status = "terminated" => Interrupts = {}
  BY DEF SessionInv, TerminationStands
<1> QED BY <1>1, <1>2, <1>3, <1>4, <1>5, <1>6

\* A turn that an interrupt stops.
LEMMA Stopped ==
    ASSUME SessionInv, pc \in TurnPcs \ {"finish", "reply"}, NEW t \in TurnType, Alike(t, turn),
           Interrupts # {}, Ask(t, "end")
    PROVE  Proceeds
<1>1. pc' = "finish" /\ turn' \in TurnType /\ turn'.ask = "end" /\ Alike(turn', t)
  BY Asked
<1>2. /\ SameTurn(turn', turn) /\ turn'.keyed = turn.keyed /\ turn'.acts = turn.acts
  BY <1>1 DEF Alike, SameTurn
<1>3. turn.acts # <<>> => turn.keyed
  BY OnItsWay
<1>4. Plain => turn.acts = <<>>
  BY OnItsWay
<1> QED BY <1>1, <1>2, <1>3, <1>4 DEF Proceeds, TurnPcs

\* A turn that ends by itself, with what it asks of the client.
LEMMA Ended ==
    ASSUME SessionInv, pc \in {"call", "tool", "evaluate", "grade"}, NEW t \in TurnType, SameTurn(t, turn),
           NEW k \in {"end", "exhausted"}, t.keyed, k = "exhausted" => t.acts = <<>>,
           Plain => t.acts = <<>>, Ask(t, k)
    PROVE  Proceeds
<1>1. pc' = "finish" /\ turn' \in TurnType /\ turn'.ask = k /\ Alike(turn', t)
  BY Asked
<1>2. SameTurn(turn', turn) /\ turn'.keyed /\ turn'.acts = t.acts
  BY <1>1 DEF Alike, SameTurn
<1>3. status = "running"
  BY DEF SessionInv, StatusFollows
<1> QED BY <1>1, <1>2, <1>3 DEF Proceeds, TurnPcs

\* A turn that fails: in its loop with the ids it has chosen, elsewhere by a
\* failing reply.
LEMMA FailsStep ==
    ASSUME SessionInv, pc \in {"prepare", "approved", "call", "tool", "grade"}, NEW t \in TurnType,
           SameTurn(t, turn), Fail(t),
           NoFailures => t.keyed /\ pc \in {"call", "tool", "grade"}
    PROVE  Proceeds
<1>1. /\ pc' = "finish" /\ turn' \in TurnType /\ turn'.ask = "fail"
      /\ SameTurn(turn', t) /\ turn'.keyed = t.keyed /\ turn'.acts = <<>>
  BY Failed
<1>2. SameTurn(turn', turn)
  BY <1>1 DEF SameTurn
<1>3. /\ pc \in {"call", "tool", "grade"} => status = "running"
      /\ status # "rescheduling"
  BY DEF SessionInv, StatusFollows
<1> QED BY <1>1, <1>2, <1>3 DEF Proceeds, TurnPcs

\* A turn that goes around its loop.
LEMMA RoundStep ==
    ASSUME SessionInv, pc \in {"call", "tool", "grade"}, NEW t \in TurnType, SameTurn(t, turn),
           t.ask = "none", t.keyed, t.acts = <<>>, NextRound(t)
    PROVE  Proceeds
<1>1. status = "running"
  BY DEF SessionInv, StatusFollows
<1>2. \/ pc' = "model" /\ turn' \in TurnType /\ turn'.ask = "none" /\ Alike(turn', t)
      \/ /\ pc' = "finish" /\ turn' \in TurnType /\ turn'.ask = "fail"
         /\ SameTurn(turn', t) /\ turn'.keyed = t.keyed /\ turn'.acts = <<>>
  BY Rounds
<1>3. SameTurn(turn', turn) /\ turn'.keyed /\ turn'.acts = <<>>
  BY <1>2 DEF Alike, SameTurn
<1> QED BY <1>1, <1>2, <1>3 DEF Proceeds, TurnPcs

-----------------------------------------------------------------------------
(* The steps of a turn                                                     *)

\* A prepared turn goes on to its approved tools or its first request.
LEMMA PrepareGoesOn ==
    ASSUME SessionInv, PrepareTurn, ~AlreadyCompleted(turn.trigger) PROVE SessionInv'
<1>1. pc = "prepare" /\ pc \in TurnPcs \ {"finish", "reply"}
  BY DEF PrepareTurn, TurnPcs
<1>2. /\ turn \in TurnType /\ turn.ask = "none" /\ signals \in 0..MaxSignals
      /\ turn.acts = <<>>
  BY <1>1, OnItsWay
<1>3. /\ UNCHANGED <<ledger, inputs, delivery, lost, cursor, batch, barrier>> /\ signals' = signals
      /\ \/ pc' \in {"model", "approved"} /\ turn' = turn
         \/ "fail" \in Replies /\ Fail(turn)
  BY DEF PrepareTurn, Outside
<1>4. Proceeds
  <2>1. CASE pc' \in {"model", "approved"} /\ turn' = turn
    <3>1. SameTurn(turn', turn)
      BY <2>1 DEF SameTurn
    <3>2. status # "rescheduling"
      BY <1>1 DEF SessionInv, StatusFollows
    <3> QED BY <1>1, <1>2, <2>1, <3>1, <3>2 DEF Proceeds, TurnPcs
  <2>2. CASE "fail" \in Replies /\ Fail(turn)
    <3>1. SameTurn(turn, turn)
      BY DEF SameTurn
    <3> QED BY <1>1, <1>2, <2>2, <3>1, FailsStep DEF NoFailures
  <2> QED BY <1>3, <2>1, <2>2
<1> QED BY <1>2, <1>3, <1>4, ProceedStep

\* The approved tools of a barrier keep the invariant, also when one fails the turn.
LEMMA ResumeToolsStep == ASSUME SessionInv, ResumeTools PROVE SessionInv'
<1>1. pc = "approved" /\ pc \in TurnPcs \ {"finish", "reply"}
  BY DEF ResumeTools, TurnPcs
<1>2. /\ turn \in TurnType /\ turn.ask = "none" /\ signals \in 0..MaxSignals
      /\ turn.acts = <<>> /\ ~AlreadyCompleted(turn.trigger)
  BY <1>1, OnItsWay
<1>3. /\ UNCHANGED <<ledger, inputs, delivery, lost, cursor, batch, barrier>> /\ signals' = signals
      /\ \/ pc' = "model" /\ turn' = turn
         \/ "fail" \in Replies /\ Fail(turn)
  BY DEF ResumeTools, Outside
<1>4. Proceeds
  <2>1. CASE pc' = "model" /\ turn' = turn
    <3>1. SameTurn(turn', turn)
      BY <2>1 DEF SameTurn
    <3>2. status # "rescheduling"
      BY <1>1 DEF SessionInv, StatusFollows
    <3> QED BY <1>1, <1>2, <2>1, <3>1, <3>2 DEF Proceeds, TurnPcs
  <2>2. CASE "fail" \in Replies /\ Fail(turn)
    <3>1. SameTurn(turn, turn)
      BY DEF SameTurn
    <3> QED BY <1>1, <1>2, <2>2, <3>1, FailsStep DEF NoFailures
  <2> QED BY <1>3, <2>1, <2>2
<1> QED BY <1>2, <1>3, <1>4, ProceedStep

\* A started request finds the Session running, and from there on the turn is
\* keyed: its output holds ids that the turn has chosen.
LEMMA StartModelRequestStep == ASSUME SessionInv, StartModelRequest PROVE SessionInv'
<1>1. pc = "model" /\ status = "running" /\ pc \in TurnPcs \ {"finish", "reply"}
  BY DEF StartModelRequest, TurnPcs
<1>2. /\ turn \in TurnType /\ turn.ask = "none" /\ signals \in 0..MaxSignals
      /\ turn.acts = <<>> /\ ~AlreadyCompleted(turn.trigger)
  BY <1>1, OnItsWay
<1>3. /\ UNCHANGED <<ledger, inputs, delivery, lost, cursor, batch, barrier>> /\ signals' = signals
      /\ pc' = "call" /\ turn' = [turn EXCEPT !.keyed = TRUE]
  BY DEF StartModelRequest, Outside
<1>4. turn' \in TurnType /\ turn'.keyed /\ SameTurn(turn', turn) /\ turn'.acts = <<>> /\ turn'.ask = "none"
  BY <1>2, <1>3 DEF TurnType, SameTurn
<1>5. Proceeds
  BY <1>1, <1>3, <1>4 DEF Proceeds, TurnPcs
<1> QED BY <1>2, <1>3, <1>5, ProceedStep

\* A look at the ledger that found no interrupt.
LEMMA StaysStep ==
    ASSUME SessionInv, pc \in {"approved", "call", "grade", "tool", "backoff"}, pc' = pc,
           turn' \in TurnType, Alike(turn', turn), turn'.ask = "none"
    PROVE  Proceeds
<1>1. pc \in TurnPcs \ {"finish", "reply"}
  BY DEF TurnPcs
<1>2. /\ turn.acts # <<>> => pc = "tool" /\ turn.keyed
      /\ Plain => turn.acts = <<>>
      /\ pc \in {"call", "tool", "evaluate", "retry"} => turn.keyed
  BY <1>1, OnItsWay
<1>3. SameTurn(turn', turn) /\ turn'.keyed = turn.keyed /\ turn'.acts = turn.acts
  BY DEF Alike
<1>4. /\ pc \in {"call", "grade", "tool"} => status = "running"
      /\ pc = "backoff" => status = "rescheduling"
      /\ pc = "approved" => status # "rescheduling"
  BY DEF SessionInv, StatusFollows
<1> QED BY <1>1, <1>2, <1>3, <1>4 DEF Proceeds, TurnPcs

\* The first look at the ledger ends the turn or lets it go on.
LEMMA PreflightStep == ASSUME SessionInv, Preflight PROVE SessionInv'
<1>1. pc \in {"approved", "call", "grade", "tool"} /\ pc \in TurnPcs \ {"finish", "reply"}
  BY DEF Preflight, Interruptible, TurnPcs
<1>2. /\ turn \in TurnType /\ turn.ask = "none" /\ signals \in 0..MaxSignals
      /\ ~AlreadyCompleted(turn.trigger)
      /\ InterruptAfter(turn.trigger) # 0 <=> Interrupts # {}
  BY <1>1, OnItsWay
<1>3. PICK t \in TurnType : t = [turn EXCEPT !.preflight = TRUE]
  <2>1. [turn EXCEPT !.preflight = TRUE] \in TurnType
    BY <1>2 DEF TurnType
  <2> QED BY <2>1
<1>4. Alike(t, turn) /\ t.ask = "none"
  BY <1>2, <1>3 DEF TurnType, Alike, SameTurn
<1>5. /\ UNCHANGED <<ledger, inputs, delivery, lost, cursor, batch, barrier>> /\ signals' = signals
      /\ IF InterruptAfter(turn.trigger) # 0 THEN Ask(t, "end") ELSE turn' = t /\ pc' = pc
  BY <1>3 DEF Preflight, Outside
<1>6. Proceeds
  <2>1. CASE InterruptAfter(turn.trigger) # 0
    BY <1>1, <1>2, <1>4, <1>5, <2>1, Stopped
  <2>2. CASE InterruptAfter(turn.trigger) = 0
    BY <1>1, <1>2, <1>4, <1>5, <2>2, StaysStep
  <2> QED BY <2>1, <2>2
<1> QED BY <1>2, <1>5, <1>6, ProceedStep

\* A wakeup taken during an Activity may be consumed: whoever ends the turn reads
\* the ledger again.
LEMMA ObserveWakeupStep == ASSUME SessionInv, ObserveWakeup PROVE SessionInv'
<1>1. pc \in {"approved", "call", "grade", "tool", "backoff"} /\ pc \in TurnPcs \ {"finish", "reply"}
  BY DEF ObserveWakeup, Interruptible, TurnPcs
<1>2. /\ turn \in TurnType /\ turn.ask = "none" /\ signals \in 0..MaxSignals
      /\ ~AlreadyCompleted(turn.trigger)
      /\ InterruptAfter(turn.trigger) # 0 <=> Interrupts # {}
  BY <1>1, OnItsWay
<1>3. Alike(turn, turn)
  BY DEF Alike, SameTurn
<1>4. /\ UNCHANGED <<ledger, inputs, delivery, lost, cursor, batch, barrier>>
      /\ signals > 0 /\ signals' = signals - 1
      /\ IF InterruptAfter(turn.trigger) # 0 THEN Ask(turn, "end") ELSE turn' = turn /\ pc' = pc
  BY DEF ObserveWakeup, Outside
<1>5. signals' \in 0..MaxSignals
  BY <1>2, <1>4, SessionRuntimeAssumption
<1>6. Proceeds
  <2>1. CASE InterruptAfter(turn.trigger) # 0
    BY <1>1, <1>2, <1>3, <1>4, <2>1, Stopped
  <2>2. CASE InterruptAfter(turn.trigger) = 0
    BY <1>1, <1>2, <1>3, <1>4, <2>2, StaysStep
  <2> QED BY <2>1, <2>2
<1> QED BY <1>2, <1>4, <1>5, <1>6, ProceedStep

\* The timer of a retry ends the turn on an interrupt or resumes it.
LEMMA RetryTimerStep == ASSUME SessionInv, RetryTimer PROVE SessionInv'
<1>1. pc = "backoff" /\ pc \in TurnPcs \ {"finish", "reply"}
  BY DEF RetryTimer, TurnPcs
<1>2. /\ turn \in TurnType /\ turn.ask = "none" /\ signals \in 0..MaxSignals
      /\ ~AlreadyCompleted(turn.trigger) /\ turn.acts = <<>>
      /\ InterruptAfter(turn.trigger) # 0 <=> Interrupts # {}
  BY <1>1, OnItsWay
<1>3. Alike(turn, turn) /\ SameTurn(turn, turn)
  BY DEF Alike, SameTurn
<1>4. /\ UNCHANGED <<ledger, inputs, delivery, lost, cursor, batch, barrier>> /\ signals' = signals
      /\ IF InterruptAfter(turn.trigger) # 0 THEN Ask(turn, "end") ELSE turn' = turn /\ pc' = "resume"
  BY DEF RetryTimer, Outside
<1>5. Proceeds
  <2>1. CASE InterruptAfter(turn.trigger) # 0
    BY <1>1, <1>2, <1>3, <1>4, <2>1, Stopped
  <2>2. CASE InterruptAfter(turn.trigger) = 0
    <3>1. status = "rescheduling"
      BY <1>1 DEF SessionInv, StatusFollows
    <3> QED BY <1>1, <1>2, <1>3, <1>4, <2>2, <3>1 DEF Proceeds, TurnPcs
  <2> QED BY <2>1, <2>2
<1> QED BY <1>2, <1>4, <1>5, ProceedStep

\* Executed tools park the turn, go around the loop or fail the turn.
LEMMA ExecuteToolsStep == ASSUME SessionInv, ExecuteTools PROVE SessionInv'
<1>1. pc = "tool" /\ pc \in TurnPcs \ {"finish", "reply"}
  BY DEF ExecuteTools, TurnPcs
<1>2. /\ turn \in TurnType /\ turn.ask = "none" /\ signals \in 0..MaxSignals
      /\ ~AlreadyCompleted(turn.trigger) /\ turn.keyed
      /\ Plain => turn.acts = <<>>
  BY <1>1, OnItsWay
<1>3. SameTurn(turn, turn)
  BY DEF SameTurn
<1>4. /\ UNCHANGED <<ledger, inputs, delivery, lost, cursor, batch, barrier>> /\ signals' = signals
      /\ \/ turn.acts = <<>> /\ NextRound(turn)
         \/ turn.acts # <<>> /\ Ask(turn, "end")
         \/ Fail(turn)
  BY DEF ExecuteTools, Outside
<1>5. Proceeds
  <2>1. CASE turn.acts = <<>> /\ NextRound(turn)
    BY <1>1, <1>2, <1>3, <2>1, RoundStep
  <2>2. CASE turn.acts # <<>> /\ Ask(turn, "end")
    BY <1>1, <1>2, <1>3, <2>2, Ended
  <2>3. CASE Fail(turn)
    BY <1>1, <1>2, <1>3, <2>3, FailsStep
  <2> QED BY <1>4, <2>1, <2>2, <2>3
<1> QED BY <1>2, <1>4, <1>5, ProceedStep

\* An evaluation that starts has published the output of the loop.
LEMMA StartEvaluationStep == ASSUME SessionInv, StartEvaluation PROVE SessionInv'
<1>1. pc = "evaluate" /\ status = "running" /\ pc \in TurnPcs \ {"finish", "reply"}
  BY DEF StartEvaluation, TurnPcs
<1>2. /\ turn \in TurnType /\ turn.ask = "none" /\ signals \in 0..MaxSignals
      /\ turn.acts = <<>> /\ ~AlreadyCompleted(turn.trigger)
  BY <1>1, OnItsWay
<1>3. /\ UNCHANGED <<ledger, inputs, delivery, lost, cursor, batch, barrier>> /\ signals' = signals
      /\ pc' = "grade" /\ turn' = [turn EXCEPT !.keyed = FALSE]
  BY DEF StartEvaluation, Outside
<1>4. turn' \in TurnType /\ SameTurn(turn', turn) /\ turn'.acts = <<>> /\ turn'.ask = "none"
  BY <1>2, <1>3 DEF TurnType, SameTurn
<1>5. Proceeds
  BY <1>1, <1>3, <1>4 DEF Proceeds, TurnPcs
<1> QED BY <1>2, <1>3, <1>5, ProceedStep

\* The result of an evaluation keeps the invariant, whatever it is.
LEMMA EvaluateOutcomeStep == ASSUME SessionInv, EvaluateOutcome PROVE SessionInv'
<1>1. pc = "grade" /\ pc \in TurnPcs \ {"finish", "reply"}
  BY DEF EvaluateOutcome, TurnPcs
<1>2. /\ turn \in TurnType /\ turn.ask = "none" /\ signals \in 0..MaxSignals
      /\ ~AlreadyCompleted(turn.trigger) /\ turn.acts = <<>>
  BY <1>1, OnItsWay
<1>3. PICK r \in TurnType : r = [turn EXCEPT !.keyed = TRUE, !.graded = TRUE]
  <2>1. [turn EXCEPT !.keyed = TRUE, !.graded = TRUE] \in TurnType
    BY <1>2 DEF TurnType
  <2> QED BY <2>1
<1>4. SameTurn(r, turn) /\ r.keyed /\ r.acts = <<>> /\ r.ask = "none"
  BY <1>2, <1>3 DEF TurnType, SameTurn
<1>5. PICK a \in TurnType : a = [r EXCEPT !.acknowledging = TRUE]
  <2>1. [r EXCEPT !.acknowledging = TRUE] \in TurnType
    BY <1>3 DEF TurnType
  <2> QED BY <2>1
<1>6. SameTurn(a, turn) /\ a.keyed /\ a.acts = <<>> /\ a.ask = "none"
  BY <1>4, <1>5 DEF TurnType, SameTurn
<1>7. PICK g \in TurnType : g = [turn EXCEPT !.keyed = TRUE, !.grade = @ + 1]
  <2>1. PICK n \in Nat : n = turn.grade + 1
    BY <1>2 DEF TurnType
  <2>2. [turn EXCEPT !.keyed = TRUE, !.grade = n] \in TurnType
    BY <1>2 DEF TurnType
  <2>3. [turn EXCEPT !.keyed = TRUE, !.grade = @ + 1] = [turn EXCEPT !.keyed = TRUE, !.grade = n]
    BY <1>2, <2>1 DEF TurnType
  <2> QED BY <2>2, <2>3
<1>8. SameTurn(g, turn) /\ g.keyed /\ g.acts = <<>> /\ g.ask = "none"
  BY <1>2, <1>7 DEF TurnType, SameTurn
<1>9. /\ UNCHANGED <<ledger, inputs, delivery, lost, cursor, batch, barrier>> /\ signals' = signals
      /\ Ask(r, "end") \/ Fail(r) \/ NextRound(g) \/ NextRound(a)
  BY <1>3, <1>5, <1>7 DEF EvaluateOutcome, Outside
<1>10. Proceeds
  <2>1. CASE Ask(r, "end")
    BY <1>1, <1>4, <2>1, Ended
  <2>2. CASE Fail(r)
    BY <1>1, <1>4, <2>2, FailsStep
  <2>3. CASE NextRound(g)
    BY <1>1, <1>8, <2>3, RoundStep
  <2>4. CASE NextRound(a)
    BY <1>1, <1>6, <2>4, RoundStep
  <2> QED BY <1>9, <2>1, <2>2, <2>3, <2>4
<1> QED BY <1>2, <1>9, <1>10, ProceedStep

\* A model reply keeps the invariant, whatever it is.
LEMMA CallModelStep ==
    ASSUME SessionInv, NEW r \in Replies, CallModel(r) PROVE SessionInv'
<1>1. pc = "call" /\ pc \in TurnPcs \ {"finish", "reply"}
  BY DEF CallModel, TurnPcs
<1>2. /\ turn \in TurnType /\ turn.ask = "none" /\ signals \in 0..MaxSignals
      /\ ~AlreadyCompleted(turn.trigger) /\ turn.acts = <<>> /\ turn.keyed
  BY <1>1, OnItsWay
<1>3. SameTurn(turn, turn)
  BY DEF SameTurn
<1>4. status = "running"
  BY <1>1 DEF SessionInv, StatusFollows
<1>5. /\ UNCHANGED <<ledger, inputs, delivery, lost, cursor, batch, barrier>> /\ signals' = signals
      /\ \/ Answer
         \/ \E acts \in Parks, b \in {FALSE, "tools" \in Replies} : UseTools(acts, b)
         \/ UseTools(<<>>, TRUE)
         \/ r \in Continuations /\ Continue(r)
         \/ Overflow
         \/ Fail(turn)
         \/ pc' = "retry" /\ turn' = turn
         \/ Ask(turn, "exhausted")
  BY DEF CallModel, Outside
<1>6. ASSUME pc' \in {"evaluate", "retry"}, turn' = turn PROVE Proceeds
  BY <1>1, <1>2, <1>3, <1>4, <1>6 DEF Proceeds, TurnPcs
<1>7. ASSUME Fail(turn) PROVE Proceeds
  BY <1>1, <1>2, <1>3, <1>7, FailsStep
<1>8. ASSUME NEW k \in {"end", "exhausted"}, Ask(turn, k) PROVE Proceeds
  BY <1>1, <1>2, <1>3, <1>8, Ended
<1>9. ASSUME NEW acts \in Seq(ActionTypes), NEW b, UseTools(acts, b), Plain => acts = <<>> PROVE Proceeds
  <2>1. PICK p \in TurnType : p = [turn EXCEPT !.acts = acts]
    <3>1. [turn EXCEPT !.acts = acts] \in TurnType
      BY <1>2 DEF TurnType
    <3> QED BY <3>1
  <2>2. SameTurn(p, turn) /\ p.keyed /\ p.acts = acts /\ p.ask = "none"
    BY <1>2, <2>1 DEF TurnType, SameTurn
  <2>3. CASE b
    <3>1. pc' = "tool" /\ turn' = p
      BY <1>9, <2>1, <2>3 DEF UseTools
    <3>2. /\ turn' \in TurnType /\ SameTurn(turn', turn) /\ turn'.keyed /\ turn'.ask = "none"
          /\ Plain => turn'.acts = <<>>
      BY <1>9, <2>2, <3>1
    <3> QED BY <1>1, <1>4, <3>1, <3>2 DEF Proceeds, TurnPcs
  <2>4. CASE ~b
    <3>1. Ask(p, "end")
      BY <1>9, <2>1, <2>4 DEF UseTools
    <3> QED BY <1>1, <1>9, <2>2, <3>1, Ended
  <2> QED BY <2>3, <2>4
<1>10. ASSUME r \in Continuations, Continue(r) PROVE Proceeds
  <2>1. CASE turn.more[r] < MaxMore
    <3>1. turn.more[r] \in Nat /\ turn.more \in [Continuations -> Nat]
      BY <1>2, <1>10 DEF TurnType
    <3>2. PICK m \in [Continuations -> Nat] : m = [turn.more EXCEPT ![r] = @ + 1]
      <4>1. [turn.more EXCEPT ![r] = @ + 1] \in [Continuations -> Nat]
        BY <1>10, <3>1
      <4> QED BY <4>1
    <3>3. PICK t \in TurnType : t = [turn EXCEPT !.more = m]
      <4>1. [turn EXCEPT !.more = m] \in TurnType
        BY <1>2 DEF TurnType
      <4> QED BY <4>1
    <3>4. [turn EXCEPT !.more[r] = @ + 1] = [turn EXCEPT !.more = m]
      BY <1>2, <3>2 DEF TurnType
    <3>5. SameTurn(t, turn) /\ t.keyed /\ t.acts = <<>> /\ t.ask = "none"
      BY <1>2, <3>3 DEF TurnType, SameTurn
    <3>6. NextRound(t)
      BY <1>10, <2>1, <3>3, <3>4 DEF Continue
    <3> QED BY <1>1, <3>5, <3>6, RoundStep
  <2>2. CASE ~(turn.more[r] < MaxMore)
    BY <1>7, <1>10, <2>2 DEF Continue
  <2> QED BY <2>1, <2>2
<1>11. ASSUME Overflow PROVE Proceeds
  <2>1. CASE pc' = "model" /\ turn' = [turn EXCEPT !.overflowed = TRUE, !.try = @ + 1]
    <3>1. PICK n \in Nat : n = turn.try + 1
      BY <1>2 DEF TurnType
    <3>2. turn' = [turn EXCEPT !.overflowed = TRUE, !.try = n]
      BY <1>2, <2>1, <3>1 DEF TurnType
    <3>3. turn' \in TurnType
      BY <1>2, <3>2 DEF TurnType
    <3>4. SameTurn(turn', turn) /\ turn'.keyed /\ turn'.acts = <<>> /\ turn'.ask = "none"
      BY <1>2, <3>2 DEF TurnType, SameTurn
    <3> QED BY <1>1, <1>4, <2>1, <3>3, <3>4 DEF Proceeds, TurnPcs
  <2>2. CASE Fail(turn)
    BY <1>7, <2>2
  <2> QED BY <1>11, <2>1, <2>2 DEF Overflow
<1>12. ASSUME Answer PROVE Proceeds
  BY <1>6, <1>8, <1>12 DEF Answer
<1>13. Proceeds
  <2>1. ASSUME NEW acts \in Parks, NEW b \in {FALSE, "tools" \in Replies}, UseTools(acts, b) PROVE Proceeds
    <3>1. acts \in Seq(ActionTypes) /\ ~Plain
      BY SessionRuntimeAssumption DEF Plain
    <3> QED BY <1>9, <2>1, <3>1
  <2>2. ASSUME UseTools(<<>>, TRUE) PROVE Proceeds
    BY <1>9, <2>2, EmptySeq
  <2> QED BY <1>5, <1>6, <1>7, <1>8, <1>10, <1>11, <1>12, <2>1, <2>2
<1> QED BY <1>2, <1>5, <1>13, ProceedStep

-----------------------------------------------------------------------------
(* Delivery of wakeups                                                     *)

\* The absent turn is a turn.
LEMMA NoTurnTyped ==
    /\ NoTurn \in TurnType /\ NoTurn.ask = "none" /\ ~NoTurn.committed /\ NoTurn.acts = <<>>
    /\ NoTurn.res = {} /\ NoTurn.trigger = 0 /\ ~NoTurn.keyed
<1>1. [c \in Continuations |-> 0] \in [Continuations -> Nat]
  OBVIOUS
<1> QED BY <1>1, EmptySeq DEF NoTurn, TurnType

\* No rows are rows of any ledger.
LEMMA NoRowsTyped == DOMAIN NoRows = {} /\ IsRows(NoRows) /\ IsRows(NoRows)'
<1>1. NoRows = [a \in {} |-> 0]
  BY DEF NoRows
<1>2. NoRows' = NoRows
  BY DEF NoRows
<1>3. DOMAIN NoRows = {}
  BY <1>1
<1>4. NoRows \in [{} -> Seqs \cup {0}] /\ NoRows \in [{} -> Seqs' \cup {0}]
  BY <1>1
<1> QED BY <1>2, <1>3, <1>4 DEF IsRows

\* A relay, a Signal or the API's direct wakeup keeps the invariant if it keeps a
\* coming wakeup coming.
LEMMA DeliveryStep ==
    ASSUME SessionInv,
           UNCHANGED <<log, processed, status, pending, outcome, inputs>>,
           outbox' \in 0..Len(log), fast' \in BOOLEAN, lost' \in 0..MaxLost, signals' \in 0..MaxSignals,
           relay' \in [Relays -> RelayType], \A r \in Relays : relay'[r].seq <= Len(log),
           \/ UNCHANGED workflow
           \/ /\ pc = "none" /\ pc' = "wait" /\ cursor' = 0 /\ batch' = <<>>
              /\ barrier' = NoRows /\ turn' = NoTurn,
           WakeupComing => WakeupComing'
    PROVE  SessionInv'
<1>1. /\ log' = log /\ processed' = processed /\ status' = status /\ pending' = pending
      /\ outcome' = outcome /\ inputs' = inputs
  OBVIOUS
<1>2. /\ Seqs' = Seqs /\ Interrupts' = Interrupts /\ Claims(pending)' = Claims(pending)
      /\ Unprocessed({"message"})' = Unprocessed({"message"})
      /\ Unprocessed({"message", "interrupt"})' = Unprocessed({"message", "interrupt"})
      /\ Range(pending)' = Range(pending) /\ FullyClaimed(pending)' = FullyClaimed(pending)
      /\ Runnable' = Runnable
  BY <1>1 DEF Seqs, Interrupts, Unprocessed, Claims, Range, FullyClaimed, Runnable
<1>3. LedgerTyped' /\ IdleIsDrained'
  BY <1>1, <1>2 DEF SessionInv, LedgerTyped, IdleIsDrained
<1>4. (NoOutcomes \/ NoFailures => OneEndPerTurn') /\ (Quiet \/ Plain => StatusIsProjection')
  BY <1>1, <1>2 DEF SessionInv, OneEndPerTurn, StatusIsProjection
<1>5. CASE UNCHANGED workflow
  <2>1. pc' = pc /\ cursor' = cursor /\ batch' = batch /\ barrier' = barrier /\ turn' = turn
    BY <1>5 DEF workflow
  <2>2. SessionTyped'
    BY <1>1, <2>1 DEF SessionInv, SessionTyped, IsRows, Seqs
  <2>3. BatchFollows' /\ BarrierRead' /\ CursorBehind' /\ Acking' = Acking
    BY <1>1, <1>2, <2>1 DEF SessionInv, BatchFollows, BarrierRead, CursorBehind, Acking
  <2>4. TurnSubject' /\ DispositionTrue' /\ TerminationStands' /\ EndsAreEnds'
    BY <1>1, <1>2, <2>1, <2>3 DEF SessionInv, TurnSubject, DispositionTrue, TerminationStands, EndsAreEnds, IsEnd, Parked
  <2>5. TurnProgress' /\ FailsInLoop' /\ StatusFollows'
    BY <1>1, <1>2, <2>1, <2>3 DEF SessionInv, TurnProgress, FailsInLoop, StatusFollows, AlreadyCompleted
  <2>6. WakeupsComing'
    <3>1. Asleep' = Asleep /\ FullyClaimed(barrier)' = FullyClaimed(barrier)
      BY <1>1, <1>2, <2>1, <2>3 DEF Asleep, Parked, FullyClaimed, Range
    <3> QED BY <1>2, <2>1, <3>1 DEF SessionInv, WakeupsComing
  <2> QED BY <1>3, <1>4, <2>2, <2>3, <2>4, <2>5, <2>6 DEF SessionInv, NoOutcomes, NoFailures, Quiet, Plain
<1>6. CASE /\ pc = "none" /\ pc' = "wait" /\ cursor' = 0 /\ batch' = <<>>
           /\ barrier' = NoRows /\ turn' = NoTurn
  <2>1. turn = NoTurn /\ batch = <<>> /\ turn' = turn /\ batch' = batch
    BY <1>6 DEF SessionInv, BatchFollows, TurnPcs
  <2>2. SessionTyped'
    <3>1. IsRows(barrier)'
      BY <1>6, NoRowsTyped DEF IsRows
    <3>2. cursor' \in 0..Len(log)
      BY <1>6, Numbered DEF SessionInv
    <3>3. IsRows(pending)' /\ pc' \in Pcs
      BY <1>1, <1>2, <1>6 DEF SessionInv, SessionTyped, IsRows, Pcs
    <3> QED BY <1>1, <1>2, <2>1, <3>1, <3>2, <3>3 DEF SessionInv, SessionTyped
  <2>3. BatchFollows'
    <3>1. Len(batch') = 0 /\ cursor' + Len(batch') <= Len(log')
      BY <1>1, <1>6, Numbered DEF SessionInv
    <3> QED BY <1>6, <3>1 DEF BatchFollows
  <2>4. BarrierRead' /\ pc' \notin TurnPcs /\ Acking' = Acking
    BY <1>6, <2>1 DEF BarrierRead, TurnPcs, Acking
  <2>5. CursorBehind'
    <3>1. \A s \in Unprocessed({"message", "interrupt"}) : s > 0
      BY Numbered DEF SessionInv, Unprocessed
    <3> QED BY <1>2, <1>6, <3>1 DEF CursorBehind
  <2>6. TurnSubject' /\ TurnProgress' /\ DispositionTrue'
    BY <1>6, <2>4 DEF TurnSubject, TurnProgress, DispositionTrue
  <2>7. TerminationStands'
    BY <1>1, <1>2, <1>6 DEF SessionInv, TerminationStands
  <2>8. EndsAreEnds'
    <3>1. status # "terminated" => cursor' = cursor
      BY <1>6 DEF SessionInv, TerminationStands
    <3> QED BY <1>1, <1>2, <2>1, <3>1 DEF SessionInv, EndsAreEnds, IsEnd
  <2>9. WakeupsComing'
    BY <1>2, <1>6 DEF SessionInv, WakeupsComing, Asleep
  <2>10. FailsInLoop' /\ StatusFollows'
    BY <1>1, <1>2, <1>6, <2>1 DEF SessionInv, FailsInLoop, StatusFollows
  <2> QED BY <1>3, <1>4, <2>2, <2>3, <2>4, <2>5, <2>6, <2>7, <2>8, <2>9, <2>10
          DEF SessionInv, NoOutcomes, NoFailures, Quiet, Plain
<1> QED BY <1>5, <1>6

\* A Signal that is delivered is buffered.
LEMMA Woken ==
    ASSUME SessionInv, Wake
    PROVE  /\ signals' \in 0..MaxSignals /\ signals' > 0
           /\ \/ UNCHANGED workflow
              \/ /\ pc = "none" /\ pc' = "wait" /\ cursor' = 0 /\ batch' = <<>>
                 /\ barrier' = NoRows /\ turn' = NoTurn
<1>1. signals \in 0..MaxSignals /\ MaxSignals \in Nat \ {0}
  BY SessionRuntimeAssumption DEF SessionInv, SessionTyped
<1> QED BY <1>1 DEF Wake

\* The direct signal of an API process keeps the invariant, sent or not.
LEMMA FastPathWakeStep == ASSUME SessionInv, FastPathWake PROVE SessionInv'
<1>1. /\ UNCHANGED <<log, processed, status, pending, outcome, outbox, inputs, relay, lost>>
      /\ fast' = FALSE /\ (Wake \/ UNCHANGED <<signals, workflow>>)
  BY DEF FastPathWake, ledger
<1>2. SessionTyped
  BY DEF SessionInv
<1>3. /\ outbox' \in 0..Len(log) /\ lost' \in 0..MaxLost /\ fast' \in BOOLEAN
      /\ relay' \in [Relays -> RelayType] /\ \A r \in Relays : relay'[r].seq <= Len(log)
  BY <1>1, <1>2 DEF SessionTyped
<1>4. CASE Wake
  <2>1. WakeupComing'
    BY <1>1, <1>4, Woken DEF WakeupComing
  <2> QED BY <1>1, <1>3, <1>4, <2>1, Woken, DeliveryStep
<1>5. CASE UNCHANGED <<signals, workflow>>
  <2>1. WakeupComing => WakeupComing'
    BY <1>1, <1>5 DEF WakeupComing
  <2>2. signals' \in 0..MaxSignals
    BY <1>2, <1>5 DEF SessionTyped
  <2> QED BY <1>1, <1>3, <1>5, <2>1, <2>2, DeliveryStep
<1> QED BY <1>1, <1>4, <1>5

\* A relay changes its own place.
LEMMA RelayMoves ==
    ASSUME SessionInv, NEW r \in Relays, NEW v \in RelayType, v.seq <= Len(log),
           relay' = [relay EXCEPT ![r] = v]
    PROVE  /\ relay' \in [Relays -> RelayType] /\ relay'[r] = v
           /\ \A q \in Relays : relay'[q].seq <= Len(log) /\ (q # r => relay'[q] = relay[q])
<1>1. relay \in [Relays -> RelayType] /\ \A q \in Relays : relay[q].seq <= Len(log)
  BY DEF SessionInv, SessionTyped
<1>2. relay' \in [Relays -> RelayType]
  BY <1>1
<1>3. \A q \in Relays : relay'[q] = IF q = r THEN v ELSE relay[q]
  BY <1>1
<1> QED BY <1>1, <1>2, <1>3

\* A relay that scans.
LEMMA IdleTyped == Idle \in RelayType /\ Idle.seq = 0 /\ Idle.at = "scan"
BY DEF Idle, RelayType

\* A relay keeps the invariant: the row it deletes has been delivered or has a later
\* seq, and a row whose delivery failed stays.
LEMMA RelaySteps ==
    ASSUME SessionInv, NEW r \in Relays, RelayStep(r) \/ RelayFail(r) PROVE SessionInv'
<1>1. SessionTyped /\ relay[r] \in RelayType /\ Len(log) \in Nat /\ relay[r].seq <= Len(log)
  BY Numbered DEF SessionInv, SessionTyped
<1>2. /\ outbox \in 0..Len(log) /\ fast \in BOOLEAN /\ lost \in 0..MaxLost /\ signals \in 0..MaxSignals
      /\ MaxLost \in Nat
  BY <1>1, SessionRuntimeAssumption DEF SessionTyped
<1>3. CASE RelayRead(r)
  <2>1. PICK v \in RelayType : v = [at |-> "deliver", seq |-> outbox]
    <3>1. [at |-> "deliver", seq |-> outbox] \in RelayType
      BY <1>2, <1>1 DEF RelayType
    <3> QED BY <3>1
  <2>2. v.at = "deliver" /\ v.seq <= Len(log)
    BY <1>1, <1>2, <2>1
  <2>3. /\ relay' = [relay EXCEPT ![r] = v] /\ UNCHANGED workflow
        /\ UNCHANGED <<log, processed, status, pending, outcome, outbox, inputs, fast, signals, lost>>
    BY <1>3, <2>1 DEF RelayRead, ledger
  <2>4. /\ relay' \in [Relays -> RelayType] /\ relay'[r] = v
        /\ \A q \in Relays : relay'[q].seq <= Len(log) /\ (q # r => relay'[q] = relay[q])
    BY <2>2, <2>3, RelayMoves
  <2>5. WakeupComing => WakeupComing'
    BY <2>2, <2>3, <2>4 DEF WakeupComing
  <2> QED BY <1>2, <2>3, <2>4, <2>5, DeliveryStep
<1>4. CASE RelayDeliver(r)
  <2>1. PICK v \in RelayType : v = [relay[r] EXCEPT !.at = "delete"]
    <3>1. [relay[r] EXCEPT !.at = "delete"] \in RelayType
      BY <1>1 DEF RelayType
    <3> QED BY <3>1
  <2>2. v.seq = relay[r].seq
    BY <1>1, <2>1 DEF RelayType
  <2>3. /\ relay' = [relay EXCEPT ![r] = v] /\ Wake
        /\ UNCHANGED <<log, processed, status, pending, outcome, outbox, inputs, fast, lost>>
    BY <1>4, <2>1 DEF RelayDeliver, ledger
  <2>4. /\ relay' \in [Relays -> RelayType]
        /\ \A q \in Relays : relay'[q].seq <= Len(log)
    BY <1>1, <2>2, <2>3, RelayMoves
  <2>5. WakeupComing'
    BY <2>3, Woken DEF WakeupComing
  <2> QED BY <1>2, <2>3, <2>4, <2>5, Woken, DeliveryStep
<1>5. CASE DeleteWakeupIfUnchanged(r)
  <2>1. /\ relay' = [relay EXCEPT ![r] = Idle] /\ UNCHANGED workflow
        /\ relay[r].at = "delete" /\ outbox' = IF outbox = relay[r].seq THEN 0 ELSE outbox
        /\ UNCHANGED <<log, processed, status, pending, outcome, inputs, fast, signals, lost>>
    BY <1>5 DEF DeleteWakeupIfUnchanged
  <2>2. /\ relay' \in [Relays -> RelayType] /\ relay'[r] = Idle
        /\ \A q \in Relays : relay'[q].seq <= Len(log) /\ (q # r => relay'[q] = relay[q])
    <3>1. Idle \in RelayType /\ Idle.seq <= Len(log)
      BY <1>1, IdleTyped
    <3> HIDE DEF Idle
    <3> QED BY <2>1, <3>1, RelayMoves
  <2>3. WakeupComing => WakeupComing'
    <3>1. \A q \in Relays : relay'[q].at = "delete" => relay'[q] = relay[q]
      BY <2>2, IdleTyped
    <3> QED BY <1>2, <2>1, <3>1 DEF WakeupComing
  <2>4. outbox' \in 0..Len(log)
    BY <1>1, <1>2, <2>1
  <2> QED BY <1>2, <2>1, <2>2, <2>3, <2>4, DeliveryStep
<1>6. CASE RelayFail(r)
  <2>1. /\ relay' = [relay EXCEPT ![r] = Idle] /\ UNCHANGED workflow /\ lost < MaxLost /\ lost' = lost + 1
        /\ UNCHANGED <<log, processed, status, pending, outcome, outbox, inputs, fast, signals>>
    BY <1>6 DEF RelayFail, ledger
  <2>2. /\ relay' \in [Relays -> RelayType] /\ relay'[r] = Idle
        /\ \A q \in Relays : relay'[q].seq <= Len(log) /\ (q # r => relay'[q] = relay[q])
    <3>1. Idle \in RelayType /\ Idle.seq <= Len(log)
      BY <1>1, IdleTyped
    <3> HIDE DEF Idle
    <3> QED BY <2>1, <3>1, RelayMoves
  <2>3. WakeupComing => WakeupComing'
    <3>1. \A q \in Relays : relay'[q].at = "delete" => relay'[q] = relay[q]
      BY <2>2, IdleTyped
    <3> QED BY <1>2, <2>1, <3>1 DEF WakeupComing
  <2>4. lost' \in 0..MaxLost
    BY <1>2, <2>1
  <2> QED BY <1>2, <2>1, <2>2, <2>3, <2>4, DeliveryStep
<1> QED BY <1>3, <1>4, <1>5, <1>6 DEF RelayStep

-----------------------------------------------------------------------------
(* The drain                                                               *)

\* A step of the drain between turns keeps the invariant if it keeps the batch and
\* the barrier in line with the ledger, leaves no end of a turn before the cursor,
\* and does not put the Workflow to sleep without a wakeup.
LEMMA DrainStep ==
    ASSUME SessionInv, UNCHANGED <<ledger, inputs, delivery, lost>>, signals' \in 0..MaxSignals,
           pc' \in Pcs \ TurnPcs, turn' = NoTurn, batch' \in Seq(Nat), cursor' \in 0..Len(log),
           IsRows(barrier)', BatchFollows', BarrierRead', CursorBehind',
           status # "rescheduling", pc' \in {"none", "close"} => status = "terminated",
           cursor <= cursor',
           turn.committed /\ log[turn.trigger].type = "outcome" => turn.trigger <= cursor',
           Runnable /\ pc' \in {"none", "wait", "drained"} => WakeupComing',
           pc' = "gate" /\ FullyClaimed(pending) => FullyClaimed(barrier')
    PROVE  SessionInv'
<1>1. /\ log' = log /\ processed' = processed /\ status' = status /\ pending' = pending
      /\ outcome' = outcome /\ outbox' = outbox /\ inputs' = inputs /\ fast' = fast
      /\ relay' = relay /\ lost' = lost
  BY DEF ledger, delivery
<1>2. /\ Seqs' = Seqs /\ Interrupts' = Interrupts /\ Claims(pending)' = Claims(pending)
      /\ Unprocessed({"message"})' = Unprocessed({"message"})
      /\ FullyClaimed(pending)' = FullyClaimed(pending) /\ Runnable' = Runnable
  BY <1>1 DEF Seqs, Interrupts, Unprocessed, Claims, Range, FullyClaimed, Runnable
<1>3. LedgerTyped' /\ IdleIsDrained'
  BY <1>1, <1>2 DEF SessionInv, LedgerTyped, IdleIsDrained
<1>4. (NoOutcomes \/ NoFailures => OneEndPerTurn') /\ (Quiet \/ Plain => StatusIsProjection')
  BY <1>1, <1>2 DEF SessionInv, OneEndPerTurn, StatusIsProjection
<1>5. pc' \in Pcs /\ pc' \notin TurnPcs
  OBVIOUS
<1>6. SessionTyped'
  <2>1. IsRows(pending)'
    BY <1>1, <1>2 DEF SessionInv, SessionTyped, IsRows
  <2> QED BY <1>1, <1>2, <1>5, <2>1, NoTurnTyped DEF SessionInv, SessionTyped
<1>7. TurnSubject' /\ TurnProgress' /\ DispositionTrue'
  BY <1>5 DEF TurnSubject, TurnProgress, DispositionTrue, TurnPcs
<1>8. TerminationStands'
  <2>1. status = "terminated" => Interrupts = {}
    BY DEF SessionInv, TerminationStands
  <2> QED BY <1>1, <1>2, <1>5, <2>1 DEF TerminationStands, TurnPcs
<1>9. EndsAreEnds'
  <2>1. turn.trigger \in Nat /\ cursor \in Nat /\ cursor' \in Nat
    BY Numbered DEF SessionInv, SessionTyped, TurnType
  <2>2. ASSUME NEW s \in Seqs, IsEnd(s), log[log[s].turn].type = "outcome", status # "terminated"
        PROVE  log[s].turn <= cursor'
    <3>1. log[s].turn <= cursor \/ (turn.committed /\ turn.trigger = log[s].turn)
      BY <2>2 DEF SessionInv, EndsAreEnds
    <3>2. log[s].turn \in Nat
      BY Numbered DEF SessionInv
    <3> QED BY <2>1, <2>2, <3>1, <3>2
  <2>3. \A s \in Seqs' : IsEnd(s)' = IsEnd(s)
    BY <1>1 DEF IsEnd
  <2> QED BY <1>1, <1>2, <2>2, <2>3 DEF SessionInv, EndsAreEnds
<1>10. WakeupsComing'
  <2>1. FullyClaimed(barrier)' = FullyClaimed(barrier')
    BY DEF FullyClaimed, Range
  <2> QED BY <1>2, <1>5, <2>1 DEF WakeupsComing, Asleep, TurnPcs
<1>11. FailsInLoop' /\ StatusFollows'
  BY <1>1, <1>2, <1>5, NoTurnTyped DEF SessionInv, FailsInLoop, StatusFollows, TurnPcs
<1> QED BY <1>3, <1>4, <1>6, <1>7, <1>8, <1>9, <1>10, <1>11
        DEF SessionInv, NoOutcomes, NoFailures, Quiet, Plain

\* Between turns nothing is loaded and no retry is due.
LEMMA BetweenTurns ==
    ASSUME SessionInv, pc \notin TurnPcs
    PROVE  /\ turn = NoTurn /\ ~turn.committed /\ status # "rescheduling"
           /\ pc # "each" => batch = <<>>
           /\ cursor \in 0..Len(log) /\ batch \in Seq(Nat) /\ IsRows(barrier)
           /\ signals \in 0..MaxSignals /\ SessionTyped /\ Len(log) \in Nat
<1>1. /\ turn = NoTurn /\ (pc # "each" => batch = <<>>)
  BY DEF SessionInv, BatchFollows
<1>2. status # "rescheduling"
  BY DEF SessionInv, StatusFollows, TurnPcs
<1> QED BY <1>1, <1>2, NoTurnTyped, Numbered DEF SessionInv, SessionTyped

\* Between turns, and after a drain that loaded nothing.
LEMMA BatchEmpty ==
    ASSUME SessionInv, pc' \notin TurnPcs \cup {"each"}, batch' = <<>>, turn' = NoTurn,
           cursor' \in 0..Len(log), log' = log
    PROVE  BatchFollows'
<1>1. Len(log) \in Nat /\ Len(batch') = 0
  BY Numbered DEF SessionInv
<1> QED BY <1>1 DEF BatchFollows

\* Buffered wakeups are coalesced into one drain.
LEMMA ReceiveWakeupStep == ASSUME SessionInv, ReceiveWakeup PROVE SessionInv'
<1>1. pc = "wait" /\ pc \notin TurnPcs /\ pc # "each"
  BY DEF ReceiveWakeup, TurnPcs
<1>2. /\ turn = NoTurn /\ ~turn.committed /\ status # "rescheduling" /\ batch = <<>>
      /\ cursor \in 0..Len(log) /\ batch \in Seq(Nat) /\ IsRows(barrier) /\ SessionTyped /\ Len(log) \in Nat
  BY <1>1, BetweenTurns
<1>3. /\ UNCHANGED <<ledger, inputs, delivery, lost>> /\ signals' = 0 /\ pc' = "pending"
      /\ cursor' = cursor /\ batch' = batch /\ barrier' = barrier /\ turn' = turn /\ log' = log
  BY DEF ReceiveWakeup, Outside, ledger
<1>4. pc' \in Pcs \ TurnPcs /\ pc' # "each"
  BY <1>3 DEF Pcs, TurnPcs
<1>5. IsRows(barrier)' /\ BarrierRead' /\ BatchFollows'
  BY <1>2, <1>3, <1>4, BatchEmpty DEF IsRows, Seqs, BarrierRead
<1>6. CursorBehind'
  BY <1>3 DEF SessionInv, CursorBehind, Unprocessed, Seqs, ledger
<1>7. signals' \in 0..MaxSignals
  BY <1>3, SessionRuntimeAssumption
<1>8. cursor <= cursor'
  BY <1>2, <1>3
<1> QED BY <1>2, <1>3, <1>4, <1>5, <1>6, <1>7, <1>8, DrainStep

\* A drain that ends starts over if it was woken meanwhile; only a terminated Session
\* drops its wakeups.
LEMMA EndDrainStep == ASSUME SessionInv, EndDrain PROVE SessionInv'
<1>1. pc \in {"drained", "close"} /\ pc \notin TurnPcs /\ pc # "each"
  BY DEF EndDrain, TurnPcs
<1>2. /\ turn = NoTurn /\ ~turn.committed /\ status # "rescheduling" /\ batch = <<>>
      /\ cursor \in 0..Len(log) /\ batch \in Seq(Nat) /\ IsRows(barrier) /\ SessionTyped /\ Len(log) \in Nat
      /\ signals \in 0..MaxSignals
  BY <1>1, BetweenTurns
<1>3. /\ UNCHANGED <<ledger, inputs, delivery, lost>> /\ signals' = 0
      /\ pc' = IF pc = "close" THEN "none" ELSE IF signals > 0 THEN "pending" ELSE "wait"
      /\ cursor' = cursor /\ batch' = batch /\ barrier' = barrier /\ turn' = turn /\ log' = log
      /\ outbox' = outbox /\ relay' = relay
  BY DEF EndDrain, Outside, ledger, delivery
<1>4. pc' \in Pcs \ TurnPcs /\ pc' \in {"none", "pending", "wait"} /\ pc' # "each"
  BY <1>3 DEF Pcs, TurnPcs
<1>5. IsRows(barrier)' /\ BarrierRead' /\ BatchFollows'
  BY <1>2, <1>3, <1>4, BatchEmpty DEF IsRows, Seqs, BarrierRead
<1>6. CursorBehind'
  BY <1>3 DEF SessionInv, CursorBehind, Unprocessed, Seqs, ledger
<1>7. signals' \in 0..MaxSignals
  BY <1>3, SessionRuntimeAssumption
<1>8. cursor <= cursor'
  BY <1>2, <1>3
<1>9. pc = "close" => status = "terminated"
  BY DEF SessionInv, TerminationStands
<1>10. ASSUME Runnable, pc' \in {"none", "wait", "drained"} PROVE WakeupComing'
  <2>1. pc = "drained" /\ signals = 0
    BY <1>1, <1>2, <1>3, <1>9, <1>10 DEF Runnable
  <2>2. WakeupComing
    BY <1>10, <2>1 DEF SessionInv, WakeupsComing, Asleep
  <2> QED BY <1>3, <2>1, <2>2 DEF WakeupComing
<1>11. pc' \in {"none", "close"} => status = "terminated"
  BY <1>3, <1>9
<1>12. pc' # "gate"
  BY <1>4
<1> QED BY <1>2, <1>3, <1>4, <1>5, <1>6, <1>7, <1>8, <1>10, <1>11, <1>12, DrainStep

\* The drain reads the barrier before it loads events.
LEMMA LoadPendingActionsStep == ASSUME SessionInv, LoadPendingActions PROVE SessionInv'
<1>1. pc = "pending" /\ pc \notin TurnPcs /\ pc # "each"
  BY DEF LoadPendingActions, TurnPcs
<1>2. /\ turn = NoTurn /\ ~turn.committed /\ status # "rescheduling" /\ batch = <<>>
      /\ cursor \in 0..Len(log) /\ batch \in Seq(Nat) /\ SessionTyped /\ Len(log) \in Nat
      /\ signals \in 0..MaxSignals
  BY <1>1, BetweenTurns
<1>3. /\ UNCHANGED <<ledger, inputs, delivery, lost>> /\ signals' = signals
      /\ pc' = IF DOMAIN pending = {} THEN "load" ELSE "gate"
      /\ cursor' = cursor /\ batch' = batch /\ barrier' = pending /\ turn' = turn /\ log' = log
      /\ pending' = pending
  BY DEF LoadPendingActions, Outside, ledger
<1>4. pc' \in Pcs \ TurnPcs /\ pc' \in {"load", "gate"} /\ pc' # "each"
  BY <1>3 DEF Pcs, TurnPcs
<1>5. IsRows(barrier)' /\ BarrierRead' /\ BatchFollows'
  BY <1>2, <1>3, <1>4, BatchEmpty DEF SessionTyped, IsRows, Seqs, BarrierRead
<1>6. CursorBehind'
  BY <1>3 DEF SessionInv, CursorBehind, Unprocessed, Seqs, ledger
<1>7. cursor <= cursor'
  BY <1>2, <1>3
<1> QED BY <1>2, <1>3, <1>4, <1>5, <1>6, <1>7, DrainStep

\* The head of a batch is the event after the cursor.
LEMMA BatchHead ==
    ASSUME SessionInv, batch # <<>>
    PROVE  /\ Head(batch) = cursor + 1 /\ cursor + 1 \in Seqs /\ cursor \in Nat
           /\ Tail(batch) \in Seq(Nat) /\ Len(Tail(batch)) = Len(batch) - 1
           /\ \A i \in 1..Len(Tail(batch)) : Tail(batch)[i] = cursor + 1 + i
           /\ Len(batch) = 1 <=> Tail(batch) = <<>>
           /\ Len(batch) \in Nat \ {0} /\ cursor + Len(batch) <= Len(log)
<1>1. /\ batch \in Seq(Nat) /\ cursor \in Nat /\ Len(log) \in Nat /\ Seqs = 1..Len(log)
      /\ cursor + Len(batch) <= Len(log)
      /\ \A i \in 1..Len(batch) : batch[i] = cursor + i
  BY Numbered DEF SessionInv, SessionTyped, BatchFollows
<1>2. Len(batch) \in Nat \ {0}
  BY <1>1, EmptySeq
<1>3. /\ Head(batch) = batch[1] /\ Tail(batch) \in Seq(Nat) /\ Len(Tail(batch)) = Len(batch) - 1
      /\ \A i \in 1..Len(Tail(batch)) : Tail(batch)[i] = batch[i + 1]
  BY <1>1, HeadTailProperties
<1>4. \A i \in 1..Len(Tail(batch)) : Tail(batch)[i] = cursor + 1 + i
  <2> TAKE i \in 1..Len(Tail(batch))
  <2>1. i + 1 \in 1..Len(batch) /\ i \in Nat
    BY <1>2, <1>3
  <2>2. batch[i + 1] = cursor + (i + 1)
    BY <1>1, <2>1
  <2> QED BY <1>1, <1>3, <2>1, <2>2
<1>5. Tail(batch) = <<>> <=> Len(Tail(batch)) = 0
  BY <1>3, EmptySeq
<1>6. Len(batch) = 1 <=> Tail(batch) = <<>>
  BY <1>2, <1>3, <1>5
<1>7. Head(batch) = cursor + 1
  BY <1>1, <1>2, <1>3
<1>8. cursor + 1 \in Seqs
  BY <1>1, <1>2
<1> QED BY <1>1, <1>2, <1>3, <1>4, <1>6, <1>7, <1>8

\* The event after the cursor is left behind once it is done with.
LEMMA AdvanceStep ==
    ASSUME SessionInv, batch # <<>>, Advance, turn' = NoTurn,
           UNCHANGED <<ledger, inputs, delivery, lost, signals, barrier>>,
           cursor + 1 \notin Unprocessed({"message", "interrupt"}), DOMAIN pending = {},
           status # "rescheduling", turn.committed => turn.trigger = cursor + 1
    PROVE  SessionInv'
<1>1. /\ Head(batch) = cursor + 1 /\ cursor + 1 \in Seqs /\ cursor \in Nat
      /\ Tail(batch) \in Seq(Nat) /\ Len(Tail(batch)) = Len(batch) - 1
      /\ \A i \in 1..Len(Tail(batch)) : Tail(batch)[i] = cursor + 1 + i
      /\ Len(batch) = 1 <=> Tail(batch) = <<>>
      /\ Len(batch) \in Nat \ {0} /\ cursor + Len(batch) <= Len(log)
  BY BatchHead
<1>2. /\ cursor' = cursor + 1 /\ batch' = Tail(batch)
      /\ pc' = IF Len(batch) = 1 THEN "pending" ELSE "each"
      /\ log' = log /\ pending' = pending /\ processed' = processed /\ barrier' = barrier /\ signals' = signals
  BY <1>1 DEF Advance, ledger
<1>3. pc' \in Pcs \ TurnPcs /\ pc' \in {"pending", "each"}
  BY <1>2 DEF Pcs, TurnPcs
<1>4. SessionTyped /\ Len(log) \in Nat /\ Seqs = 1..Len(log) /\ IsRows(barrier) /\ signals \in 0..MaxSignals
  BY Numbered DEF SessionInv, SessionTyped
<1>5. IsRows(barrier)'
  BY <1>2, <1>4 DEF IsRows, Seqs
<1>6. BatchFollows'
  <2>1. cursor' + Len(batch') <= Len(log')
    BY <1>1, <1>2, <1>4
  <2>2. \A i \in 1..Len(batch') : batch'[i] = cursor' + i
    BY <1>1, <1>2
  <2>3. pc' = "each" <=> batch' # <<>>
    BY <1>1, <1>2
  <2> QED BY <1>3, <2>1, <2>2, <2>3 DEF BatchFollows
<1>7. BarrierRead'
  BY <1>2, <1>3 DEF BarrierRead
<1>8. CursorBehind'
  <2>1. \A s \in Unprocessed({"message", "interrupt"}) : s > cursor /\ s # cursor + 1 /\ s \in Nat
    BY <1>4 DEF SessionInv, CursorBehind, Unprocessed
  <2>2. Unprocessed({"message", "interrupt"})' = Unprocessed({"message", "interrupt"})
    BY <1>2 DEF Unprocessed, Seqs
  <2>3. \A s \in Unprocessed({"message", "interrupt"}) : s > cursor + 1
    BY <1>1, <2>1
  <2> QED BY <1>2, <2>2, <2>3 DEF CursorBehind
<1>9. cursor' \in 0..Len(log) /\ cursor <= cursor' /\ batch' \in Seq(Nat) /\ signals' \in 0..MaxSignals
  BY <1>1, <1>2, <1>4
<1>10. turn.committed /\ log[turn.trigger].type = "outcome" => turn.trigger <= cursor'
  BY <1>1, <1>2
<1> QED BY <1>3, <1>5, <1>6, <1>7, <1>8, <1>9, <1>10, DrainStep

\* The batch is what follows the cursor; an empty one means that nothing waits.
LEMMA LoadEventsStep == ASSUME SessionInv, LoadEvents PROVE SessionInv'
<1>1. pc = "load" /\ pc \notin TurnPcs /\ pc # "each"
  BY DEF LoadEvents, TurnPcs
<1>2. /\ turn = NoTurn /\ ~turn.committed /\ status # "rescheduling" /\ batch = <<>>
      /\ cursor \in 0..Len(log) /\ SessionTyped /\ Len(log) \in Nat /\ IsRows(barrier)
      /\ signals \in 0..MaxSignals
  BY <1>1, BetweenTurns
<1>3. PICK n \in Nat : n = IF cursor + BatchLimit < Len(log) THEN cursor + BatchLimit ELSE Len(log)
  BY <1>2, SessionRuntimeAssumption
<1>4. n <= Len(log) /\ (n <= cursor => cursor = Len(log))
  BY <1>2, <1>3, SessionRuntimeAssumption
<1>5. PICK all : all = [s \in Seqs |-> s]
  OBVIOUS
<1>6. /\ UNCHANGED <<ledger, inputs, delivery, lost>> /\ signals' = signals
      /\ cursor' = cursor /\ barrier' = barrier /\ turn' = turn /\ log' = log /\ pending' = pending
      /\ batch' = SubSeq(all, cursor + 1, n) /\ pc' = IF batch' = <<>> THEN "drained" ELSE "each"
  BY <1>3, <1>5 DEF LoadEvents, Outside, ledger
<1>7. \A i \in (cursor + 1)..n : all[i] \in Nat /\ all[i] = i
  BY <1>2, <1>4, <1>5, Numbered
<1>8. cursor + 1 \in Int /\ n \in Int /\ n - (cursor + 1) + 1 = n - cursor
  BY <1>2
<1>9. /\ batch' \in Seq(Nat) /\ Len(batch') = IF cursor + 1 <= n THEN n - cursor ELSE 0
      /\ \A i \in 1..(n - cursor) : batch'[i] = all[cursor + 1 + i - 1]
  BY <1>6, <1>7, <1>8, SubSeqProperties
<1>10. \A i \in 1..Len(batch') : batch'[i] = cursor + i
  <2> TAKE i \in 1..Len(batch')
  <2>1. i \in 1..(n - cursor) /\ cursor + 1 + i - 1 = cursor + i /\ cursor + i \in (cursor + 1)..n
    BY <1>2, <1>9
  <2> QED BY <1>7, <1>9, <2>1
<1>11. pc' \in Pcs \ TurnPcs /\ pc' \in {"drained", "each"}
  BY <1>6 DEF Pcs, TurnPcs
<1>12. BatchFollows'
  <2>1. cursor' + Len(batch') <= Len(log')
    BY <1>2, <1>4, <1>6, <1>9
  <2> QED BY <1>2, <1>6, <1>10, <1>11, <2>1 DEF BatchFollows
<1>13. DOMAIN pending = {}
  BY <1>1 DEF SessionInv, BarrierRead
<1>14. BarrierRead' /\ IsRows(barrier)'
  BY <1>2, <1>6, <1>11, <1>13 DEF BarrierRead, IsRows, Seqs
<1>15. CursorBehind'
  BY <1>6 DEF SessionInv, CursorBehind, Unprocessed, Seqs, ledger
<1>16. cursor <= cursor'
  BY <1>2, <1>6
<1>17. ASSUME pc' = "drained" PROVE ~Runnable
  <2>1. cursor = Len(log)
    <3>1. Len(batch') = 0
      BY <1>6, <1>17, EmptySeq
    <3>2. n <= cursor
      BY <1>2, <1>9, <3>1
    <3> QED BY <1>4, <3>2
  <2>2. Unprocessed({"message", "interrupt"}) = {}
    <3>1. \A s \in Unprocessed({"message", "interrupt"}) : s > Len(log) /\ s \in 1..Len(log)
      BY <1>2, <2>1, Numbered DEF SessionInv, CursorBehind, Unprocessed
    <3> QED BY <1>2, <3>1
  <2>3. Unprocessed({"message"}) = {} /\ Unprocessed({"interrupt"}) = {}
    BY <2>2 DEF Unprocessed
  <2> QED BY <1>13, <2>3 DEF Runnable
<1> QED BY <1>2, <1>6, <1>9, <1>11, <1>12, <1>14, <1>15, <1>16, <1>17, DrainStep

\* The disposition of a turn that is over steers the drain.
LEMMA TurnResultStep ==
    ASSUME SessionInv, pc \in {"prepare", "reply"}, NEW d \in {"completed", "parked", "terminated"},
           TurnResult(d), UNCHANGED <<ledger, inputs, delivery, lost, signals, barrier>>,
           turn.trigger \in processed,
           (d = "completed" \/ Acking) /\ batch # <<>> => DOMAIN pending = {},
           d = "parked" /\ ~Acking /\ Runnable => WakeupComing,
           d = "terminated" /\ ~Acking => status = "terminated"
    PROVE  SessionInv'
<1>1. pc \in TurnPcs /\ turn' = NoTurn
  BY DEF TurnPcs, TurnResult
<1>2. /\ SessionTyped /\ Len(log) \in Nat /\ Seqs = 1..Len(log) /\ IsRows(barrier) /\ signals \in 0..MaxSignals
      /\ cursor \in 0..Len(log) /\ batch \in Seq(Nat)
  BY Numbered DEF SessionInv, SessionTyped
<1>3. turn.trigger \in Seqs /\ (batch # <<>> => turn.trigger = cursor + 1)
  BY <1>1 DEF SessionInv, TurnSubject
<1>4. status # "rescheduling"
  BY <1>1 DEF SessionInv, StatusFollows
<1>5. turn.trigger \notin Unprocessed({"message", "interrupt"})
  BY DEF Unprocessed
<1>6. turn.committed /\ log[turn.trigger].type = "outcome" => batch # <<>>
  <2>1. ~Acking \/ log[turn.trigger].type = "interrupt"
    BY <1>1 DEF SessionInv, TurnSubject
  <2>2. ~Acking /\ batch = <<>> => log[turn.trigger].type \in ResolutionTypes
    BY <1>1 DEF SessionInv, TurnSubject
  <2> QED BY <2>1, <2>2 DEF ResolutionTypes
<1>7. /\ log' = log /\ pending' = pending /\ processed' = processed /\ barrier' = barrier /\ signals' = signals
      /\ outbox' = outbox /\ relay' = relay
  BY DEF ledger, delivery
<1>8. IsRows(barrier)' /\ signals' \in 0..MaxSignals
  BY <1>2, <1>7 DEF IsRows, Seqs
<1>9. Unprocessed({"message", "interrupt"})' = Unprocessed({"message", "interrupt"})
  BY <1>7 DEF Unprocessed, Seqs
<1>10. CASE turn.ask = "ack" \/ d = "completed"
  <2>1. IF batch = <<>> THEN pc' = "pending" /\ UNCHANGED <<cursor, batch>> ELSE Advance
    BY <1>10 DEF TurnResult
  <2>2. CASE batch # <<>>
    <3>1. DOMAIN pending = {} /\ Advance
      BY <1>10, <2>1, <2>2 DEF Acking
    <3> QED BY <1>1, <1>3, <1>4, <1>5, <2>2, <3>1, AdvanceStep
  <2>3. CASE batch = <<>>
    <3>1. pc' = "pending" /\ cursor' = cursor /\ batch' = batch /\ pc' \in Pcs \ TurnPcs /\ pc' # "each"
      BY <2>1, <2>3 DEF Pcs, TurnPcs
    <3>2. BatchFollows' /\ BarrierRead' /\ CursorBehind'
      BY <1>1, <1>2, <1>7, <1>9, <2>3, <3>1, BatchEmpty DEF BarrierRead, SessionInv, CursorBehind
    <3>3. cursor <= cursor' /\ batch' \in Seq(Nat)
      BY <1>2, <3>1
    <3> QED BY <1>1, <1>2, <1>4, <1>6, <1>8, <2>3, <3>1, <3>2, <3>3, DrainStep
  <2> QED BY <2>2, <2>3
<1>11. CASE turn.ask # "ack" /\ d \in {"parked", "terminated"}
  <2>1. /\ pc' = IF d = "parked" THEN "drained" ELSE "close"
        /\ cursor' = IF batch = <<>> THEN cursor ELSE turn.trigger
        /\ batch' = <<>>
    BY <1>11 DEF TurnResult
  <2>2. pc' \in Pcs \ TurnPcs /\ pc' \in {"drained", "close"} /\ pc' # "each"
    BY <2>1 DEF Pcs, TurnPcs
  <2>3. cursor' \in 0..Len(log) /\ cursor <= cursor' /\ batch' \in Seq(Nat)
    BY <1>2, <1>3, <2>1, EmptySeq
  <2>4. BatchFollows' /\ BarrierRead'
    BY <1>1, <1>2, <1>7, <2>1, <2>2, <2>3, BatchEmpty DEF BarrierRead
  <2>5. CursorBehind'
    <3>1. \A s \in Unprocessed({"message", "interrupt"}) : s > cursor /\ s # turn.trigger /\ s \in Nat
      BY <1>2, <1>5 DEF SessionInv, CursorBehind, Unprocessed
    <3>2. \A s \in Unprocessed({"message", "interrupt"}) : s > cursor'
      BY <1>2, <1>3, <2>1, <3>1
    <3> QED BY <1>9, <3>2 DEF CursorBehind
  <2>6. turn.committed /\ log[turn.trigger].type = "outcome" => turn.trigger <= cursor'
    BY <1>2, <1>3, <1>6, <2>1
  <2>7. ASSUME Runnable, pc' \in {"none", "wait", "drained"} PROVE WakeupComing'
    <3>1. d = "parked"
      BY <1>11, <2>1, <2>7
    <3>2. WakeupComing
      BY <1>11, <2>7, <3>1 DEF Acking
    <3> QED BY <1>7, <3>2 DEF WakeupComing
  <2>8. pc' \in {"none", "close"} => status = "terminated"
    BY <1>11, <2>1 DEF Acking
  <2> QED BY <1>1, <1>4, <1>8, <2>2, <2>3, <2>4, <2>5, <2>6, <2>7, <2>8, DrainStep
<1> QED BY <1>10, <1>11

\* A turn, or the acknowledgement of an interrupt, begins.
LEMMA BeginStep ==
    ASSUME SessionInv, pc \in {"gate", "each"},
           UNCHANGED <<ledger, inputs, delivery, lost, signals, cursor, batch, barrier>>,
           turn' \in TurnType, ~turn'.committed, turn'.acts = <<>>,
           (pc' = "prepare" /\ turn'.ask = "none") \/ (pc' = "finish" /\ turn'.ask = "ack"),
           TurnSubject'
    PROVE  SessionInv'
<1>1. /\ log' = log /\ processed' = processed /\ status' = status /\ pending' = pending
      /\ outcome' = outcome /\ outbox' = outbox /\ inputs' = inputs /\ fast' = fast
      /\ relay' = relay /\ lost' = lost /\ cursor' = cursor /\ batch' = batch /\ barrier' = barrier
      /\ signals' = signals
  BY DEF ledger, delivery
<1>2. /\ Seqs' = Seqs /\ Interrupts' = Interrupts /\ Claims(pending)' = Claims(pending)
      /\ Unprocessed({"message"})' = Unprocessed({"message"})
      /\ Unprocessed({"message", "interrupt"})' = Unprocessed({"message", "interrupt"})
  BY <1>1 DEF Seqs, Interrupts, Unprocessed, Claims, Range
<1>3. /\ pc' \in TurnPcs /\ pc \notin TurnPcs /\ pc' \in Pcs /\ pc' \in {"prepare", "finish"}
      /\ Acking' <=> turn'.ask = "ack"
  BY DEF TurnPcs, Pcs, Acking
<1>4. status # "rescheduling" /\ ~turn.committed
  BY <1>3, BetweenTurns
<1>5. SessionTyped'
  BY <1>1, <1>3 DEF SessionInv, SessionTyped, IsRows, Seqs
<1>6. LedgerTyped' /\ CursorBehind' /\ IdleIsDrained'
  BY <1>1, <1>2 DEF SessionInv, LedgerTyped, CursorBehind, IdleIsDrained
<1>7. BatchFollows' /\ BarrierRead'
  BY <1>1, <1>3 DEF SessionInv, BatchFollows, BarrierRead, TurnPcs
<1>8. TurnProgress' /\ DispositionTrue'
  BY <1>3 DEF TurnProgress, DispositionTrue
<1>9. TerminationStands'
  BY <1>1, <1>2 DEF SessionInv, TerminationStands
<1>10. EndsAreEnds'
  BY <1>1, <1>2, <1>4 DEF SessionInv, EndsAreEnds, IsEnd
<1>11. WakeupsComing'
  BY <1>3 DEF WakeupsComing, Asleep
<1>12. FailsInLoop' /\ StatusFollows'
  BY <1>1, <1>2, <1>3, <1>4 DEF SessionInv, FailsInLoop, StatusFollows
<1>13. (NoOutcomes \/ NoFailures => OneEndPerTurn') /\ (Quiet \/ Plain => StatusIsProjection')
  BY <1>1, <1>2 DEF SessionInv, OneEndPerTurn, StatusIsProjection
<1> QED BY <1>5, <1>6, <1>7, <1>8, <1>9, <1>10, <1>11, <1>12, <1>13
        DEF SessionInv, NoOutcomes, NoFailures, Quiet, Plain

\* The turns that begin.
LEMMA Begun ==
    ASSUME NEW t \in Nat, NEW res \in SUBSET Nat
    PROVE  /\ BeginTurn(t, res) =>
                /\ pc' = "prepare" /\ turn' \in TurnType /\ ~turn'.committed /\ turn'.acts = <<>>
                /\ turn'.ask = "none" /\ turn'.trigger = t /\ turn'.res = res
           /\ Acknowledge(t) =>
                /\ pc' = "finish" /\ turn' \in TurnType /\ ~turn'.committed /\ turn'.acts = <<>>
                /\ turn'.ask = "ack" /\ turn'.trigger = t /\ turn'.res = {}
<1>1. PICK n \in TurnType : n = NoTurn
  BY NoTurnTyped
<1>2. ~n.committed /\ n.acts = <<>> /\ n.ask = "none" /\ n.res = {}
  BY <1>1, NoTurnTyped
<1>3. ASSUME BeginTurn(t, res)
      PROVE  /\ pc' = "prepare" /\ turn' \in TurnType /\ ~turn'.committed /\ turn'.acts = <<>>
             /\ turn'.ask = "none" /\ turn'.trigger = t /\ turn'.res = res
  <2>1. turn' = [n EXCEPT !.trigger = t, !.res = res] /\ pc' = "prepare"
    BY <1>1, <1>3 DEF BeginTurn
  <2>2. turn' \in TurnType
    BY <2>1 DEF TurnType
  <2> QED BY <1>2, <2>1, <2>2 DEF TurnType
<1>4. ASSUME Acknowledge(t)
      PROVE  /\ pc' = "finish" /\ turn' \in TurnType /\ ~turn'.committed /\ turn'.acts = <<>>
             /\ turn'.ask = "ack" /\ turn'.trigger = t /\ turn'.res = {}
  <2>1. turn' = [n EXCEPT !.trigger = t, !.ask = "ack"] /\ pc' = "finish"
    BY <1>1, <1>4 DEF Acknowledge
  <2>2. turn' \in TurnType
    BY <2>1 DEF TurnType
  <2> QED BY <1>2, <2>1, <2>2 DEF TurnType
<1> QED BY <1>3, <1>4

\* The head of the batch begins a turn, is acknowledged or is passed over.
LEMMA EachEventStep == ASSUME SessionInv, EachEvent PROVE SessionInv'
<1>1. pc = "each" /\ batch # <<>> /\ pc \notin TurnPcs /\ DOMAIN pending = {}
  BY DEF EachEvent, SessionInv, BatchFollows, BarrierRead, TurnPcs
<1>2. Head(batch) = cursor + 1 /\ cursor + 1 \in Seqs /\ cursor \in Nat /\ cursor + 1 \in Nat
  BY <1>1, BatchHead
<1>3. PICK s \in Nat : s = cursor + 1
  BY <1>2
<1>4. /\ turn = NoTurn /\ ~turn.committed /\ status # "rescheduling" /\ SessionTyped /\ batch \in Seq(Nat)
  BY <1>1, BetweenTurns
<1>5. /\ UNCHANGED <<ledger, inputs, delivery, lost, signals, barrier>>
      /\ \/ log[s].type \in TriggerTypes /\ BeginTurn(s, {}) /\ UNCHANGED <<cursor, batch>>
         \/ log[s].type = "interrupt" /\ Acknowledge(s) /\ UNCHANGED <<cursor, batch>>
         \/ log[s].type \notin TriggerTypes \cup {"interrupt"} /\ Advance /\ turn' = turn
  BY <1>2, <1>3 DEF EachEvent, Outside
<1>6. log' = log /\ pending' = pending /\ processed' = processed
  BY <1>5 DEF ledger
<1>7. Seqs' = Seqs /\ Interrupts' = Interrupts /\ Interrupts \subseteq Nat
  BY <1>4, <1>6, Numbered DEF Seqs, Interrupts, Unprocessed
<1>8. \A i \in Interrupts : i > cursor
  BY DEF SessionInv, CursorBehind, Interrupts, Unprocessed
<1>9. CASE log[s].type \in TriggerTypes /\ BeginTurn(s, {}) /\ UNCHANGED <<cursor, batch>>
  <2>1. /\ pc' = "prepare" /\ turn' \in TurnType /\ ~turn'.committed /\ turn'.acts = <<>>
        /\ turn'.ask = "none" /\ turn'.trigger = s /\ turn'.res = {}
    BY <1>9, Begun
  <2>2. \A i \in Interrupts : i > s
    <3>1. \A i \in Interrupts : i # s
      BY <1>9 DEF Interrupts, Unprocessed, TriggerTypes
    <3> QED BY <1>2, <1>3, <1>7, <1>8, <3>1
  <2>3. TurnSubject'
    BY <1>1, <1>2, <1>3, <1>6, <1>7, <1>9, <2>1, <2>2 DEF TurnSubject, Acking
  <2> QED BY <1>1, <1>5, <1>9, <2>1, <2>3, BeginStep
<1>10. CASE log[s].type = "interrupt" /\ Acknowledge(s) /\ UNCHANGED <<cursor, batch>>
  <2>1. /\ pc' = "finish" /\ turn' \in TurnType /\ ~turn'.committed /\ turn'.acts = <<>>
        /\ turn'.ask = "ack" /\ turn'.trigger = s /\ turn'.res = {}
    BY <1>10, Begun
  <2>2. TurnSubject'
    BY <1>1, <1>2, <1>3, <1>6, <1>7, <1>10, <2>1 DEF TurnSubject, Acking
  <2> QED BY <1>1, <1>5, <1>10, <2>1, <2>2, BeginStep
<1>11. CASE log[s].type \notin TriggerTypes \cup {"interrupt"} /\ Advance /\ turn' = turn
  <2>1. cursor + 1 \notin Unprocessed({"message", "interrupt"})
    BY <1>3, <1>11 DEF Unprocessed, TriggerTypes
  <2>2. turn' = NoTurn /\ Advance
    BY <1>4, <1>11
  <2> QED BY <1>1, <1>4, <1>5, <2>1, <2>2, AdvanceStep
<1> QED BY <1>5, <1>9, <1>10, <1>11

\* At the barrier the drain acknowledges an interrupt, resumes or stops.
LEMMA GateStep == ASSUME SessionInv, Gate PROVE SessionInv'
<1> DEFINE full == FullyClaimed(barrier)
<1>1. pc = "gate" /\ pc \notin TurnPcs /\ pc # "each"
  BY DEF Gate, TurnPcs
<1>2. /\ turn = NoTurn /\ ~turn.committed /\ status # "rescheduling" /\ batch = <<>>
      /\ cursor \in 0..Len(log) /\ SessionTyped /\ Len(log) \in Nat /\ IsRows(barrier)
      /\ signals \in 0..MaxSignals /\ batch \in Seq(Nat)
  BY <1>1, BetweenTurns
<1>3. /\ DOMAIN barrier # {} /\ DOMAIN barrier = DOMAIN pending
      /\ \A a \in DOMAIN barrier : barrier[a] \in {0, pending[a]}
      /\ full \/ ~FullyClaimed(pending) \/ WakeupComing
  BY <1>1 DEF SessionInv, BarrierRead, WakeupsComing
<1>4. Seqs = 1..Len(log) /\ Interrupts \subseteq Nat /\ cursor \in Nat /\ Interrupts \subseteq Seqs
  BY <1>2, Numbered DEF Interrupts, Unprocessed
<1>5. PICK t : t = IF full THEN Max(Claims(barrier)) ELSE 0
  OBVIOUS
<1>6. PICK i : i = InterruptAfter(cursor)
  OBVIOUS
<1>7. \A j \in Interrupts : j > cursor
  BY DEF SessionInv, CursorBehind, Interrupts, Unprocessed
<1>8. \/ i = 0 /\ Interrupts = {}
      \/ i \in Interrupts /\ i # 0 /\ \A j \in Interrupts : i <= j
  <2>1. \/ i = 0 /\ \A j \in Interrupts : j <= cursor
        \/ i \in Interrupts /\ i # 0 /\ \A j \in Interrupts : j > cursor => i <= j
    BY <1>2, <1>4, <1>6, InterruptAfterFacts
  <2>2. (\A j \in Interrupts : j <= cursor) => Interrupts = {}
    BY <1>4, <1>7
  <2> QED BY <1>7, <2>1, <2>2
<1>9. full => /\ barrier = pending /\ Claims(barrier) = Range(pending)
              /\ t \in Claims(barrier) /\ Claims(barrier) \subseteq Seqs
  <2> SUFFICES ASSUME full PROVE /\ barrier = pending /\ Claims(barrier) = Range(pending)
                                 /\ t \in Claims(barrier) /\ Claims(barrier) \subseteq Seqs
    OBVIOUS
  <2>1. \A a \in DOMAIN barrier : barrier[a] # 0 /\ barrier[a] = pending[a] /\ barrier[a] \in Seqs
    <3>1. \A a \in DOMAIN barrier : barrier[a] # 0
      BY ClaimsFacts
    <3> QED BY <1>2, <1>3, <3>1 DEF IsRows
  <2>2. barrier = pending
    <3>1. barrier \in [DOMAIN barrier -> Seqs \cup {0}] /\ pending \in [DOMAIN barrier -> Seqs \cup {0}]
      BY <1>2, <1>3 DEF SessionTyped, IsRows
    <3> QED BY <2>1, <3>1
  <2>3. Claims(barrier) = Range(barrier) /\ Claims(barrier) # {}
    BY <1>3, <2>1, ClaimsFacts
  <2>4. Claims(barrier) \subseteq Seqs
    BY <2>1, ClaimsFacts
  <2>5. Claims(barrier) \in SUBSET (0..Len(log))
    BY <1>4, <2>4
  <2>6. Max(Claims(barrier)) \in Claims(barrier)
    BY <1>2, <2>3, <2>5, MaxIsGreatest
  <2> QED BY <1>5, <2>2, <2>3, <2>4, <2>6
<1>10. /\ UNCHANGED <<ledger, inputs, delivery, lost, signals, cursor, batch, barrier>>
       /\ \/ i # 0 /\ (~full \/ i < t) /\ Acknowledge(i)
          \/ ~(i # 0 /\ (~full \/ i < t)) /\ full /\ BeginTurn(t, Claims(barrier))
          \/ i = 0 /\ ~full /\ pc' = "drained" /\ turn' = turn
  BY <1>5, <1>6 DEF Gate, Outside
<1>11. /\ log' = log /\ pending' = pending /\ processed' = processed /\ cursor' = cursor /\ batch' = batch
       /\ barrier' = barrier /\ signals' = signals /\ outbox' = outbox /\ relay' = relay
  BY <1>10 DEF ledger, delivery
<1>12. Seqs' = Seqs /\ Interrupts' = Interrupts /\ Range(pending)' = Range(pending)
  BY <1>11 DEF Seqs, Interrupts, Unprocessed, Range
<1>13. CASE i # 0 /\ Acknowledge(i)
  <2>1. i \in Seqs /\ i \in Nat /\ log[i].type = "interrupt"
    BY <1>4, <1>8, <1>13 DEF Interrupts, Unprocessed
  <2>2. /\ pc' = "finish" /\ turn' \in TurnType /\ ~turn'.committed /\ turn'.acts = <<>>
        /\ turn'.ask = "ack" /\ turn'.trigger = i /\ turn'.res = {}
    BY <1>13, <2>1, Begun
  <2>3. TurnSubject'
    BY <1>2, <1>11, <1>12, <2>1, <2>2 DEF TurnSubject, Acking
  <2> QED BY <1>1, <1>10, <2>2, <2>3, BeginStep
<1>14. CASE ~(i # 0 /\ (~full \/ i < t)) /\ full /\ BeginTurn(t, Claims(barrier))
  <2>1. /\ t \in Claims(barrier) /\ t \in Seqs /\ t \in Nat /\ Claims(barrier) \in SUBSET Nat
        /\ Claims(barrier) \subseteq Seqs /\ Claims(barrier) = Range(pending) /\ barrier = pending
    BY <1>4, <1>9, <1>14
  <2>2. log[t].type \in ResolutionTypes /\ 0 \notin Claims(barrier)
    BY <2>1, <1>2, ClaimsAreResolutions DEF SessionInv, Claims
  <2>3. /\ pc' = "prepare" /\ turn' \in TurnType /\ ~turn'.committed /\ turn'.acts = <<>>
        /\ turn'.ask = "none" /\ turn'.trigger = t /\ turn'.res = Claims(barrier)
    BY <1>14, <2>1, Begun
  <2>4. \A j \in Interrupts : j > t
    <3>1. \A j \in Interrupts : j # t
      BY <2>2 DEF Interrupts, Unprocessed, ResolutionTypes
    <3>2. i # 0 => ~(i < t)
      BY <1>14
    <3>3. CASE i = 0
      BY <1>8, <3>3
    <3>4. CASE i # 0
      <4>1. i \in Interrupts /\ i \in Nat /\ i >= t
        <5>1. i \in Interrupts
          BY <1>8, <3>4
        <5>2. i \in Nat
          BY <1>4, <5>1
        <5> QED BY <2>1, <3>2, <3>4, <5>1, <5>2
      <4>2. \A j \in Interrupts : i <= j /\ j # t /\ j \in Nat
        BY <1>4, <1>8, <3>1, <3>4
      <4> QED BY <2>1, <4>1, <4>2
    <3> QED BY <3>3, <3>4
  <2>5. TurnSubject'
    BY <1>2, <1>11, <1>12, <2>1, <2>2, <2>3, <2>4 DEF TurnSubject, Acking
  <2> QED BY <1>1, <1>10, <2>3, <2>5, BeginStep
<1>15. CASE i = 0 /\ ~full /\ pc' = "drained" /\ turn' = turn
  <2>1. pc' \in Pcs \ TurnPcs /\ pc' # "each" /\ pc' = "drained"
    BY <1>15 DEF Pcs, TurnPcs
  <2>2. BatchFollows' /\ BarrierRead' /\ IsRows(barrier)'
    BY <1>2, <1>11, <1>12, <1>15, <2>1, BatchEmpty DEF BarrierRead, IsRows
  <2>3. CursorBehind'
    BY <1>11 DEF SessionInv, CursorBehind, Unprocessed, Seqs
  <2>4. Runnable => WakeupComing
    BY <1>3, <1>8, <1>15 DEF Runnable, Interrupts
  <2>5. Runnable => WakeupComing'
    BY <1>11, <2>4 DEF WakeupComing
  <2>6. cursor <= cursor'
    BY <1>4, <1>11
  <2> QED BY <1>2, <1>10, <1>11, <1>15, <2>1, <2>2, <2>3, <2>5, <2>6, DrainStep
<1> QED BY <1>10, <1>13, <1>14, <1>15

\* The disposition of a turn steers the drain, and the ledger confirms it.
LEMMA TakeReplyStep == ASSUME SessionInv, TakeReply PROVE SessionInv'
<1>1. /\ pc = "reply" /\ pc \in TurnPcs /\ TurnResult(turn.disposition)
      /\ UNCHANGED <<ledger, inputs, delivery, lost, signals, barrier>>
  BY DEF TakeReply, Outside, TurnPcs
<1>2. turn.trigger \in processed /\ (~Acking => turn.committed)
  BY <1>1 DEF SessionInv, TurnProgress
<1>3. turn.disposition \in {"none", "completed", "parked", "terminated"}
  BY DEF SessionInv, SessionTyped, TurnType
<1>4. ~Acking => /\ turn.disposition # "none"
                 /\ turn.disposition = "parked" => Parked(turn.trigger)
                 /\ turn.disposition = "terminated" => status = "terminated"
                 /\ turn.disposition = "completed" => ~Parked(turn.trigger)
  BY <1>1 DEF SessionInv, DispositionTrue
<1>5. /\ Acking /\ batch # <<>> => DOMAIN pending = {}
      /\ turn.committed /\ batch # <<>> => DOMAIN pending = {} \/ Parked(turn.trigger)
  BY <1>1 DEF SessionInv, TurnSubject
<1>6. turn.disposition = "parked" /\ ~Acking /\ Runnable => WakeupComing
  BY <1>1, <1>2, <1>4 DEF SessionInv, WakeupsComing, Asleep
<1>7. CASE turn.disposition = "none"
  <2>1. Acking /\ TurnResult("completed")
    BY <1>1, <1>4, <1>7 DEF TurnResult, Acking
  <2> QED BY <1>1, <1>2, <1>5, <2>1, TurnResultStep
<1>8. CASE turn.disposition # "none"
  <2>1. PICK d \in {"completed", "parked", "terminated"} : d = turn.disposition
    BY <1>3, <1>8
  <2>2. (d = "completed" \/ Acking) /\ batch # <<>> => DOMAIN pending = {}
    BY <1>2, <1>4, <1>5, <2>1
  <2>3. TurnResult(d)
    BY <1>1, <2>1
  <2>4. d = "terminated" /\ ~Acking => status = "terminated"
    BY <1>4, <2>1
  <2>5. d = "parked" /\ ~Acking /\ Runnable => WakeupComing
    BY <1>6, <2>1
  <2> QED BY <1>1, <1>2, <2>2, <2>3, <2>4, <2>5, TurnResultStep
<1> QED BY <1>7, <1>8

\* A turn that has already been completed is skipped at its preparation.
LEMMA PrepareTurnStep == ASSUME SessionInv, PrepareTurn PROVE SessionInv'
<1>1. CASE AlreadyCompleted(turn.trigger)
  <2>1. PICK d \in {"completed", "terminated"} : d = IF status = "terminated" THEN "terminated" ELSE "completed"
    OBVIOUS
  <2>2. /\ pc = "prepare" /\ pc \in TurnPcs /\ TurnResult(d)
        /\ UNCHANGED <<ledger, inputs, delivery, lost, signals, barrier>>
    BY <1>1, <2>1 DEF PrepareTurn, Outside, TurnPcs
  <2>3. turn.trigger \in processed
    BY <1>1 DEF AlreadyCompleted
  <2>4. ~Acking /\ ~turn.committed
    BY <2>2 DEF SessionInv, TurnProgress, Acking
  <2>5. batch # <<>> => DOMAIN pending = {}
    BY <2>2, <2>4 DEF SessionInv, TurnSubject
  <2>6. d = "terminated" => status = "terminated"
    BY <2>1
  <2> QED BY <2>2, <2>3, <2>4, <2>5, <2>6, TurnResultStep
<1>2. CASE ~AlreadyCompleted(turn.trigger)
  BY <1>2, PrepareGoesOn
<1> QED BY <1>1, <1>2

\* The reply of a completion is lost, and the Activity runs again.
LEMMA LoseReplyStep == ASSUME SessionInv, LoseReply PROVE SessionInv'
<1>1. /\ pc = "reply" /\ pc \in TurnPcs /\ pc' = "finish" /\ pc' \in TurnPcs /\ pc' \in Pcs
      /\ lost < MaxLost /\ lost' = lost + 1
      /\ log' = log /\ processed' = processed /\ status' = status /\ pending' = pending
      /\ outcome' = outcome /\ outbox' = outbox /\ inputs' = inputs /\ fast' = fast
      /\ relay' = relay /\ cursor' = cursor /\ batch' = batch /\ barrier' = barrier
      /\ signals' = signals /\ turn' = turn
  BY DEF LoseReply, Outside, ledger, delivery, TurnPcs, Pcs
<1>2. /\ Seqs' = Seqs /\ Interrupts' = Interrupts /\ Claims(pending)' = Claims(pending)
      /\ Unprocessed({"message"})' = Unprocessed({"message"})
      /\ Unprocessed({"message", "interrupt"})' = Unprocessed({"message", "interrupt"})
      /\ Range(pending)' = Range(pending) /\ Runnable' = Runnable /\ Acking' = Acking
      /\ WakeupComing' = WakeupComing /\ Parked(turn.trigger)' = Parked(turn.trigger)
      /\ AlreadyCompleted(turn.trigger)' = AlreadyCompleted(turn.trigger)
  BY <1>1 DEF Seqs, Interrupts, Unprocessed, Claims, Range, FullyClaimed, Runnable, Acking,
              WakeupComing, Parked, AlreadyCompleted
<1>3. turn.ask # "none" /\ (~Acking => turn.committed) /\ status # "rescheduling"
  BY <1>1 DEF SessionInv, TurnProgress, StatusFollows
<1>4. SessionTyped'
  <2>1. lost' \in 0..MaxLost
    BY <1>1, SessionRuntimeAssumption DEF SessionInv, SessionTyped
  <2> QED BY <1>1, <2>1 DEF SessionInv, SessionTyped, IsRows, Seqs
<1>5. LedgerTyped' /\ CursorBehind' /\ IdleIsDrained'
  BY <1>1, <1>2 DEF SessionInv, LedgerTyped, CursorBehind, IdleIsDrained
<1>6. BatchFollows' /\ BarrierRead' /\ DispositionTrue'
  BY <1>1 DEF SessionInv, BatchFollows, BarrierRead, DispositionTrue
<1>7. TurnSubject' /\ EndsAreEnds' /\ TerminationStands'
  BY <1>1, <1>2 DEF SessionInv, TurnSubject, EndsAreEnds, IsEnd, TerminationStands
<1>8. TurnProgress' /\ FailsInLoop' /\ StatusFollows'
  BY <1>1, <1>2, <1>3 DEF SessionInv, TurnProgress, FailsInLoop, StatusFollows, Acking
<1>9. WakeupsComing'
  <2>1. Asleep' <=> Asleep
    BY <1>1, <1>2 DEF Asleep
  <2> QED BY <1>1, <1>2, <2>1 DEF SessionInv, WakeupsComing
<1>10. (NoOutcomes \/ NoFailures => OneEndPerTurn') /\ (Quiet \/ Plain => StatusIsProjection')
  BY <1>1, <1>2 DEF SessionInv, OneEndPerTurn, StatusIsProjection
<1> QED BY <1>4, <1>5, <1>6, <1>7, <1>8, <1>9, <1>10
        DEF SessionInv, NoOutcomes, NoFailures, Quiet, Plain

-----------------------------------------------------------------------------
(* A ledger that grows                                                     *)

\* What is known of a ledger to which events are appended.
LEMMA Grown ==
    ASSUME SessionTyped, NEW new \in Seq(EventType), log' = log \o new
    PROVE  /\ log' \in Seq(EventType) /\ Seqs = 1..Len(log) /\ Seqs' = 1..Len(log')
           /\ Len(log) \in Nat /\ Len(new) \in Nat /\ Len(log') = Len(log) + Len(new)
           /\ Seqs \subseteq Seqs' /\ \A s \in Seqs : log'[s] = log[s]
           /\ \A k \in 1..Len(new) : /\ log'[Len(log) + k] = new[k] /\ new[k] \in EventType
                                     /\ Len(log) + k \in Seqs' \ Seqs
           /\ \A s \in Seqs' : s \in Seqs \/ \E k \in 1..Len(new) : s = Len(log) + k
<1>1. log \in Seq(EventType)
  BY DEF SessionTyped
<1>2. /\ log' \in Seq(EventType) /\ Len(log') = Len(log) + Len(new)
      /\ \A i \in 1..Len(log) : log'[i] = log[i]
      /\ \A i \in 1..Len(new) : log'[Len(log) + i] = new[i]
      /\ \A i \in 1..Len(log') : i \in 1..Len(log) \/ \E j \in 1..Len(new) : i = Len(log) + j
  BY <1>1, Concat
<1>3. /\ Seqs = 1..Len(log) /\ Seqs' = 1..Len(log') /\ Len(log) \in Nat /\ Len(new) \in Nat
      /\ \A k \in 1..Len(new) : new[k] \in EventType
  BY <1>1, <1>2 DEF Seqs
<1>4. Seqs \subseteq Seqs' /\ \A k \in 1..Len(new) : Len(log) + k \in Seqs' \ Seqs
  BY <1>2, <1>3
<1> QED BY <1>2, <1>3, <1>4

Shown(type) == IF type = "rescheduled" THEN "rescheduling" ELSE type

\* the status st is what the last status event of the ledger l announces
LastShows(l, st) ==
    \/ st = "idle" /\ \A s \in DOMAIN l : l[s].type \notin StatusTypes
    \/ \E m \in DOMAIN l : /\ l[m].type \in StatusTypes /\ st = Shown(l[m].type)
                           /\ \A s \in DOMAIN l : l[s].type \in StatusTypes => s <= m

Announced(l) == {s \in DOMAIN l : l[s].type \in StatusTypes}
LastType(l) == IF Announced(l) = {} THEN "idle" ELSE l[Max(Announced(l))].type

\* The status a ledger's last status event announces, without its maximum.
LEMMA ProjectionFacts ==
    ASSUME NEW n \in Nat, NEW l, DOMAIN l = 1..n, NEW st
    PROVE  st = Shown(LastType(l)) <=> LastShows(l, st)
<1>1. Announced(l) \in SUBSET (0..n)
  BY DEF Announced
<1>2. CASE Announced(l) = {}
  <2>1. Shown(LastType(l)) = "idle"
    BY <1>2 DEF Shown, LastType
  <2>2. \A s \in DOMAIN l : l[s].type \notin StatusTypes
    BY <1>2 DEF Announced
  <2> QED BY <2>1, <2>2 DEF LastShows
<1>3. CASE Announced(l) # {}
  <2>1. PICK m : m = Max(Announced(l))
    OBVIOUS
  <2>2. m \in Announced(l) /\ \A x \in Announced(l) : x <= m
    BY <1>1, <1>3, <2>1, MaxIsGreatest
  <2>3. LastType(l) = l[m].type
    BY <1>3, <2>1 DEF LastType
  <2>4. m \in DOMAIN l /\ l[m].type \in StatusTypes
    BY <2>2 DEF Announced
  <2>5. \A s \in DOMAIN l : l[s].type \in StatusTypes => s <= m
    BY <2>2 DEF Announced
  <2>6. st = Shown(l[m].type) => LastShows(l, st)
    BY <2>4, <2>5 DEF LastShows
  <2>7. ASSUME LastShows(l, st) PROVE st = Shown(l[m].type)
    <3>1. PICK k \in DOMAIN l : /\ l[k].type \in StatusTypes /\ st = Shown(l[k].type)
                                /\ \A s \in DOMAIN l : l[s].type \in StatusTypes => s <= k
      BY <2>4, <2>7 DEF LastShows
    <3>2. k = m
      <4>1. k <= m /\ m <= k /\ k \in Nat /\ m \in Nat
        BY <2>4, <2>5, <3>1
      <4> QED BY <4>1
    <3> QED BY <3>1, <3>2
  <2> QED BY <2>3, <2>6, <2>7
<1> QED BY <1>2, <1>3

\* The projection in terms of the last status event.
LEMMA ProjectionIs == ASSUME SessionTyped PROVE StatusIsProjection <=> LastShows(log, status)
<1>1. DOMAIN log = 1..Len(log) /\ Len(log) \in Nat
  BY DEF SessionTyped
<1>2. status = Shown(LastType(log)) <=> LastShows(log, status)
  BY <1>1, ProjectionFacts
<1> QED BY <1>2 DEF StatusIsProjection, Seqs, Shown, LastType, Announced

\* The projection follows what is appended.
LEMMA ProjectionGrows ==
    ASSUME SessionTyped, NEW new \in Seq(EventType), log' = log \o new,
           \/ /\ StatusIsProjection /\ status' = status
              /\ \A k \in 1..Len(new) : new[k].type \notin StatusTypes
           \/ \E k \in 1..Len(new) :
                /\ new[k].type \in StatusTypes /\ status' = Shown(new[k].type)
                /\ \A j \in 1..Len(new) : new[j].type \in StatusTypes => j <= k
    PROVE  StatusIsProjection'
<1>1. /\ log' \in Seq(EventType) /\ Seqs = 1..Len(log) /\ Seqs' = 1..Len(log')
      /\ Len(log) \in Nat /\ Len(new) \in Nat /\ Len(log') = Len(log) + Len(new)
      /\ Seqs \subseteq Seqs' /\ \A s \in Seqs : log'[s] = log[s]
      /\ \A k \in 1..Len(new) : log'[Len(log) + k] = new[k] /\ Len(log) + k \in Seqs'
      /\ \A s \in Seqs' : s \in Seqs \/ \E k \in 1..Len(new) : s = Len(log) + k
  BY Grown
<1>2. DOMAIN log' = 1..Len(log') /\ Len(log') \in Nat /\ Seqs' = DOMAIN log' /\ Seqs = DOMAIN log
  BY <1>1 DEF Seqs
<1>3. LastShows(log', status')
  <2>1. CASE /\ StatusIsProjection /\ status' = status
             /\ \A k \in 1..Len(new) : new[k].type \notin StatusTypes
    <3>1. LastShows(log, status)
      BY <2>1, ProjectionIs
    <3>2. \A s \in Seqs' : log'[s].type \in StatusTypes => s \in Seqs
      BY <1>1, <2>1
    <3>3. CASE status = "idle" /\ \A s \in Seqs : log[s].type \notin StatusTypes
      BY <1>1, <1>2, <2>1, <3>2, <3>3 DEF LastShows
    <3>4. CASE \E m \in Seqs : /\ log[m].type \in StatusTypes /\ status = Shown(log[m].type)
                               /\ \A s \in Seqs : log[s].type \in StatusTypes => s <= m
      <4>1. PICK m \in Seqs : /\ log[m].type \in StatusTypes /\ status = Shown(log[m].type)
                              /\ \A s \in Seqs : log[s].type \in StatusTypes => s <= m
        BY <3>4
      <4>2. /\ m \in Seqs' /\ log'[m].type \in StatusTypes /\ status' = Shown(log'[m].type)
            /\ \A s \in Seqs' : log'[s].type \in StatusTypes => s <= m
        BY <1>1, <2>1, <3>2, <4>1
      <4> QED BY <1>2, <4>2 DEF LastShows
    <3> QED BY <1>2, <3>1, <3>3, <3>4 DEF LastShows
  <2>2. CASE \E k \in 1..Len(new) :
                /\ new[k].type \in StatusTypes /\ status' = Shown(new[k].type)
                /\ \A j \in 1..Len(new) : new[j].type \in StatusTypes => j <= k
    <3>1. PICK k \in 1..Len(new) :
                /\ new[k].type \in StatusTypes /\ status' = Shown(new[k].type)
                /\ \A j \in 1..Len(new) : new[j].type \in StatusTypes => j <= k
      BY <2>2
    <3>2. PICK m \in Seqs' : m = Len(log) + k
      BY <1>1
    <3>3. log'[m].type \in StatusTypes /\ status' = Shown(log'[m].type)
      BY <1>1, <3>1, <3>2
    <3>4. ASSUME NEW s \in Seqs', log'[s].type \in StatusTypes PROVE s <= m
      <4>1. CASE s \in Seqs
        BY <1>1, <3>2, <4>1
      <4>2. CASE \E j \in 1..Len(new) : s = Len(log) + j
        <5>1. PICK j \in 1..Len(new) : s = Len(log) + j
          BY <4>2
        <5>2. new[j].type \in StatusTypes
          BY <1>1, <3>4, <5>1
        <5>3. j <= k
          BY <3>1, <5>2
        <5> QED BY <1>1, <3>2, <5>1, <5>3
      <4> QED BY <1>1, <4>1, <4>2
    <3> QED BY <1>2, <3>3, <3>4 DEF LastShows
  <2> QED BY <2>1, <2>2
<1>4. StatusIsProjection' <=> LastShows(log', status')
  <2>1. status' = Shown(LastType(log')) <=> LastShows(log', status')
    BY <1>2, ProjectionFacts
  <2> QED BY <2>1 DEF StatusIsProjection, Seqs, Shown, LastType, Announced
<1> QED BY <1>3, <1>4

-----------------------------------------------------------------------------
(* A retry of the model request is announced                               *)

\* A turn that announces that it waits for a retry, or that it runs again, keeps
\* the invariant.
LEMMA RetryAnnounced ==
    ASSUME SessionInv, NEW type \in {"rescheduled", "running"},
           \/ pc = "retry" /\ type = "rescheduled" /\ pc' = "backoff"
           \/ pc = "resume" /\ type = "running" /\ pc' = "model",
           log' = Append(log, Event(type, turn.trigger, "none")), status' = Shown(type),
           turn' \in TurnType, SameTurn(turn', turn), turn'.ask = "none", turn'.acts = turn.acts,
           UNCHANGED <<processed, pending, outcome, outbox, inputs, fast, relay, signals, lost,
                       cursor, batch, barrier>>
    PROVE  SessionInv'
<1>1. /\ processed' = processed /\ pending' = pending
      /\ outcome' = outcome /\ outbox' = outbox /\ inputs' = inputs /\ fast' = fast
      /\ relay' = relay /\ lost' = lost /\ cursor' = cursor /\ batch' = batch /\ barrier' = barrier
      /\ signals' = signals
  OBVIOUS
<1>2. /\ pc \in TurnPcs \ {"finish", "reply"} /\ pc # "prepare" /\ pc' \in TurnPcs /\ pc' \in Pcs
      /\ pc' \in {"backoff", "model"} /\ pc # "tool"
      /\ pc' = "backoff" => status' = "rescheduling"
      /\ pc' = "model" => status' = "running"
  BY DEF TurnPcs, Pcs, Shown
<1>3. /\ turn \in TurnType /\ turn.ask = "none" /\ ~turn.committed /\ turn.trigger \in Seqs
      /\ turn.trigger \in Nat /\ ~AlreadyCompleted(turn.trigger) /\ turn.acts = <<>>
  BY <1>2, OnItsWay
<1>4. status \in {"running", "rescheduling"}
  BY DEF SessionInv, StatusFollows
<1>5. PICK e \in EventType : /\ e = Event(type, turn.trigger, "none") /\ e.type = type /\ e.reason = "none"
                             /\ e.type \in StatusTypes
  BY <1>3 DEF EventType, EventTypes, Reasons, Event, StatusTypes
<1>6. /\ <<e>> \in Seq(EventType) /\ Len(<<e>>) = 1 /\ <<e>>[1] = e /\ log' = log \o <<e>>
  <2>1. log \in Seq(EventType)
    BY DEF SessionInv, SessionTyped
  <2>2. Append(log, e) = log \o <<e>>
    BY <2>1, AppendIsConcat
  <2> QED BY <1>5, <2>2
<1>7. /\ SessionTyped /\ log' \in Seq(EventType) /\ Seqs = 1..Len(log) /\ Seqs' = 1..Len(log')
      /\ Len(log) \in Nat /\ Len(log') = Len(log) + 1
      /\ Seqs \subseteq Seqs' /\ \A s \in Seqs : log'[s] = log[s]
      /\ \A k \in 1..1 : log'[Len(log) + k] = <<e>>[k]
      /\ \A s \in Seqs' : s \in Seqs \/ \E k \in 1..1 : s = Len(log) + k
  <2>1. SessionTyped
    BY DEF SessionInv
  <2> QED BY <1>6, <2>1, Grown
<1>8. \A s \in Seqs' \ Seqs : log'[s] = e
  BY <1>6, <1>7
<1>9. \A s \in Seqs' : s \in Seqs \/ (log'[s].type \in StatusTypes /\ log'[s].type = type /\ log'[s].reason = "none")
  BY <1>5, <1>8
<1>10. /\ Unprocessed({"message"})' = Unprocessed({"message"})
       /\ Unprocessed({"message", "interrupt"})' = Unprocessed({"message", "interrupt"})
       /\ Interrupts' = Interrupts
  <2>1. {s \in Seqs' : log'[s].type \in {"message"}} = {s \in Seqs : log[s].type \in {"message"}}
    BY <1>7, <1>9 DEF StatusTypes
  <2>2. {s \in Seqs' : log'[s].type \in {"message", "interrupt"}} = {s \in Seqs : log[s].type \in {"message", "interrupt"}}
    BY <1>7, <1>9 DEF StatusTypes
  <2>3. {s \in Seqs' : log'[s].type \in {"interrupt"}} = {s \in Seqs : log[s].type \in {"interrupt"}}
    BY <1>7, <1>9 DEF StatusTypes
  <2> QED BY <1>1, <2>1, <2>2, <2>3 DEF Unprocessed, Interrupts
<1>11. /\ Claims(pending)' = Claims(pending) /\ Range(pending)' = Range(pending)
       /\ turn'.trigger = turn.trigger /\ turn'.res = turn.res /\ ~turn'.committed
       /\ AlreadyCompleted(turn.trigger)' = AlreadyCompleted(turn.trigger)
       /\ ~Acking /\ ~Acking'
  BY <1>1, <1>3 DEF Claims, Range, SameTurn, AlreadyCompleted, Acking
<1>12. SessionTyped'
  <2>1. IsRows(pending)' /\ IsRows(barrier)'
    <3>1. ASSUME NEW rows, DOMAIN rows \subseteq Seqs, rows \in [DOMAIN rows -> Seqs \cup {0}]
          PROVE  DOMAIN rows \subseteq Seqs' /\ rows \in [DOMAIN rows -> Seqs' \cup {0}]
      BY <1>7, <3>1
    <3> QED BY <1>1, <1>7, <3>1 DEF SessionTyped, IsRows
  <2>2. outcome' \in 0..Len(log') /\ outbox' \in 0..Len(log') /\ cursor' \in 0..Len(log')
    BY <1>1, <1>7 DEF SessionTyped
  <2>3. relay' \in [Relays -> RelayType] /\ \A r \in Relays : relay'[r].seq <= Len(log')
    <3>1. \A r \in Relays : relay[r].seq \in Nat /\ relay[r].seq <= Len(log)
      BY <1>7 DEF SessionTyped, RelayType
    <3>2. \A r \in Relays : relay[r].seq <= Len(log')
      BY <1>7, <3>1
    <3> QED BY <1>1, <1>7, <3>2 DEF SessionTyped
  <2>4. status' \in {"idle", "running", "rescheduling", "terminated"} /\ processed' \subseteq Seqs'
    BY <1>1, <1>2, <1>7 DEF SessionTyped
  <2> QED BY <1>1, <1>2, <1>7, <2>1, <2>2, <2>3, <2>4 DEF SessionTyped
<1>13. LedgerTyped' /\ CursorBehind' /\ IdleIsDrained'
  <2>1. \A a \in DOMAIN pending : pending[a] \in Seqs \cup {0}
    BY DEF SessionInv, SessionTyped, IsRows
  <2>2. outcome \in Seqs \cup {0}
    BY <1>7 DEF SessionInv, SessionTyped
  <2>3. \A s \in Seqs' : log'[s].type = "outcome" => s \in processed'
    BY <1>1, <1>7, <1>9 DEF SessionInv, LedgerTyped, StatusTypes
  <2>4. LedgerTyped'
    BY <1>1, <1>7, <2>1, <2>2, <2>3 DEF SessionInv, LedgerTyped
  <2> QED BY <1>1, <1>2, <1>10, <2>4 DEF SessionInv, CursorBehind, IdleIsDrained
<1>14. BatchFollows' /\ BarrierRead'
  <2>1. cursor + Len(batch) <= Len(log) /\ cursor \in Nat /\ Len(batch) \in Nat
    BY <1>7 DEF SessionInv, SessionTyped, BatchFollows
  <2>2. cursor + Len(batch) <= Len(log')
    BY <1>7, <2>1
  <2>3. \A i \in 1..Len(batch) : batch[i] = cursor + i
    BY DEF SessionInv, BatchFollows
  <2>4. pc' # "each" /\ pc' # "load" /\ pc' # "gate"
    BY <1>2
  <2> QED BY <1>1, <1>2, <2>2, <2>3, <2>4 DEF BatchFollows, BarrierRead
<1>15. TurnSubject'
  BY <1>1, <1>2, <1>3, <1>7, <1>10, <1>11 DEF SessionInv, TurnSubject
<1>16. TurnProgress'
  <2>1. ~AlreadyCompleted(turn.trigger)'
    BY <1>3, <1>11
  <2>2. turn'.acts = <<>>
    BY <1>3
  <2> QED BY <1>2, <1>11, <2>1, <2>2 DEF TurnProgress
<1>17. DispositionTrue' /\ TerminationStands'
  <2>1. status' # "terminated" /\ pc' # "none" /\ pc' # "close" /\ pc' # "finish" /\ pc' # "reply"
    BY <1>2
  <2> QED BY <2>1 DEF DispositionTrue, TerminationStands
<1>18. EndsAreEnds'
  <2>1. ASSUME NEW s \in Seqs'
        PROVE /\ log'[s].reason # "none" => log'[s].type = "idle" /\ log'[s].turn # 0
              /\ IsEnd(s)' => /\ log'[s].turn \in processed' /\ log'[s].turn \notin Claims(pending)'
                              /\ log'[log'[s].turn].type = "outcome" /\ status' # "terminated" =>
                                   log'[s].turn <= cursor' \/ (turn'.committed /\ turn'.trigger = log'[s].turn)
    <3>1. CASE s \in Seqs
      <4>1. log'[s] = log[s] /\ (IsEnd(s)' <=> IsEnd(s))
        BY <1>7, <3>1 DEF IsEnd
      <4>2. /\ log[s].reason # "none" => log[s].type = "idle" /\ log[s].turn # 0
            /\ IsEnd(s) => /\ log[s].turn \in processed /\ log[s].turn \notin Claims(pending)
                           /\ log[log[s].turn].type = "outcome" /\ status # "terminated" =>
                                log[s].turn <= cursor \/ (turn.committed /\ turn.trigger = log[s].turn)
        BY <3>1 DEF SessionInv, EndsAreEnds
      <4>3. IsEnd(s) => log[s].turn \in Seqs
        BY <4>2 DEF SessionInv, SessionTyped
      <4>4. IsEnd(s) => log'[log[s].turn] = log[log[s].turn]
        BY <1>7, <4>3
      <4>5. status # "terminated"
        BY <1>4
      <4> QED BY <1>1, <1>3, <1>11, <4>1, <4>2, <4>4, <4>5
    <3>2. CASE s \notin Seqs
      <4>1. log'[s].reason = "none" /\ ~IsEnd(s)'
        BY <1>9, <3>2 DEF IsEnd, EndTypes
      <4> QED BY <4>1
    <3> QED BY <3>1, <3>2
  <2> QED BY <2>1 DEF EndsAreEnds
<1>19. WakeupsComing'
  <2>1. ~Asleep' /\ pc' # "gate"
    BY <1>2, <1>11 DEF Asleep
  <2> QED BY <2>1 DEF WakeupsComing
<1>20. FailsInLoop'
  BY <1>1, <1>2 DEF SessionInv, FailsInLoop
<1>21. StatusFollows'
  <2>1. /\ pc' \in {"call", "tool", "evaluate", "grade", "retry"} => status' = "running"
        /\ pc' \in {"backoff", "resume"} => status' = "rescheduling"
        /\ pc' # "finish" /\ (status' = "rescheduling" => pc' \in {"backoff", "resume"})
    BY <1>2
  <2>2. Quiet => Interrupts' = {} /\ \A s \in Seqs' : log'[s].type # "interrupt"
    <3>1. Quiet => Interrupts = {} /\ \A s \in Seqs : log[s].type # "interrupt"
      BY DEF SessionInv, StatusFollows
    <3> QED BY <1>7, <1>9, <1>10, <3>1
  <2>3. Plain => /\ DOMAIN pending' = {} /\ turn'.acts = <<>> /\ Unprocessed({"message"})' # {}
    BY <1>1, <1>3, <1>4, <1>10 DEF SessionInv, StatusFollows
  <2> QED BY <2>1, <2>2, <2>3 DEF StatusFollows, Quiet, Plain, NoOutcomes
<1>22. NoOutcomes \/ NoFailures => OneEndPerTurn'
  <2>1. \A s \in Seqs' : log'[s].type \in EndTypes => s \in Seqs /\ log'[s] = log[s]
    BY <1>7, <1>9 DEF EndTypes
  <2> QED BY <2>1 DEF SessionInv, OneEndPerTurn, EndTypes
<1>23. StatusIsProjection'
  <2>1. \E k \in 1..Len(<<e>>) :
                /\ <<e>>[k].type \in StatusTypes /\ status' = Shown(<<e>>[k].type)
                /\ \A j \in 1..Len(<<e>>) : <<e>>[j].type \in StatusTypes => j <= k
    <3>1. 1 \in 1..Len(<<e>>) /\ <<e>>[1].type \in StatusTypes /\ status' = Shown(<<e>>[1].type)
      BY <1>5, <1>6
    <3>2. \A j \in 1..Len(<<e>>) : j <= 1
      BY <1>6
    <3> QED BY <3>1, <3>2
  <2> QED BY <1>6, <1>7, <2>1, ProjectionGrows
<1> QED
  BY <1>12, <1>13, <1>14, <1>15, <1>16, <1>17, <1>18, <1>19, <1>20, <1>21, <1>22, <1>23
  DEF SessionInv, NoOutcomes, NoFailures, Quiet, Plain

\* The model request is to be tried again: the Session waits for the timer.
LEMMA RecordModelRetryStep == ASSUME SessionInv, RecordModelRetry PROVE SessionInv'
<1>1. /\ pc = "retry" /\ pc' = "backoff" /\ status' = "rescheduling"
      /\ log' = Append(log, Event("rescheduled", turn.trigger, "none"))
      /\ turn' = [turn EXCEPT !.try = @ + 1, !.keyed = FALSE]
      /\ UNCHANGED <<processed, pending, outcome, outbox, inputs, fast, relay, signals, lost,
                     cursor, batch, barrier>>
  BY DEF RecordModelRetry, delivery
<1>2. turn \in TurnType /\ turn.ask = "none"
  BY <1>1, OnItsWay DEF TurnPcs
<1>3. PICK n \in Nat : n = turn.try + 1
  BY <1>2 DEF TurnType
<1>4. turn' = [turn EXCEPT !.try = n, !.keyed = FALSE]
  BY <1>1, <1>2, <1>3 DEF TurnType
<1>5. turn' \in TurnType
  BY <1>2, <1>4 DEF TurnType
<1>6. SameTurn(turn', turn) /\ turn'.ask = "none" /\ turn'.acts = turn.acts
  BY <1>2, <1>4 DEF TurnType, SameTurn
<1>7. status' = Shown("rescheduled")
  BY <1>1 DEF Shown
<1> QED BY <1>1, <1>5, <1>6, <1>7, RetryAnnounced

\* The timer has fired: the Session runs again.
LEMMA ResumeModelRetryStep == ASSUME SessionInv, ResumeModelRetry PROVE SessionInv'
<1>1. /\ pc = "resume" /\ pc' = "model" /\ status' = "running" /\ turn' = turn
      /\ log' = Append(log, Event("running", turn.trigger, "none"))
      /\ UNCHANGED <<processed, pending, outcome, outbox, inputs, fast, relay, signals, lost,
                     cursor, batch, barrier>>
  BY DEF ResumeModelRetry, delivery
<1>2. turn \in TurnType /\ turn.ask = "none"
  BY <1>1, OnItsWay DEF TurnPcs
<1>3. SameTurn(turn', turn) /\ turn' \in TurnType /\ turn'.ask = "none" /\ turn'.acts = turn.acts
  BY <1>1, <1>2 DEF SameTurn
<1>4. status' = Shown("running")
  BY <1>1 DEF Shown
<1> QED BY <1>1, <1>3, <1>4, RetryAnnounced

-----------------------------------------------------------------------------
(* Admission                                                               *)

\* what a batch of client events does: made says that it makes work, woken
\* that it leaves a wakeup
Admission(made, woken) ==
    /\ status # "terminated"
    /\ log' \in Seq(EventType) /\ Seqs' = 1..Len(log') /\ Len(log') \in Nat /\ Len(log) < Len(log')
    /\ \A s \in Seqs : s \in Seqs' /\ log'[s] = log[s]
    /\ \A s \in Seqs' \ Seqs : /\ log'[s].turn = 0 /\ log'[s].reason = "none" /\ s > Len(log)
                               /\ log'[s].type \in Inputs \cup ResolutionTypes \cup {"running"}
    /\ processed \subseteq processed' /\ processed' \subseteq Seqs'
    /\ \A s \in processed' \ processed : s \notin Seqs /\ log'[s].type \notin {"message", "interrupt"}
    /\ \A s \in Seqs' \ Seqs : log'[s].type = "outcome" => s \in processed'
    /\ pending' \in [DOMAIN pending -> Seqs' \cup {0}]
    /\ \A a \in DOMAIN pending :
         \/ pending'[a] = pending[a]
         \/ pending[a] = 0 /\ pending'[a] \in Seqs' \ Seqs /\ log'[pending'[a]].type \in ResolutionTypes
    /\ \/ outcome' = outcome
       \/ outcome = 0 /\ outcome' \in Seqs' \ Seqs /\ log'[outcome'].type = "outcome"
    /\ status' = IF made /\ status = "idle" THEN "running" ELSE status
    /\ outbox' = IF woken THEN Len(log') ELSE outbox
    /\ made => /\ woken
               /\ pending' # pending \/ \E s \in Seqs' \ Seqs : log'[s].type \in TriggerTypes
    /\ (\E s \in Seqs' \ Seqs : log'[s].type = "interrupt") => woken
    /\ DOMAIN pending = {} /\ (\E s \in Seqs' \ Seqs : log'[s].type = "message") => made
    /\ pending' # pending /\ FullyClaimed(pending') => made
    /\ StatusIsProjection => StatusIsProjection'
    /\ inputs' \in 0..MaxInputs /\ fast' \in BOOLEAN
    /\ UNCHANGED <<relay, signals, lost, workflow>>

\* A draft is an input of its own or the resolution of an open action.
LEMMA DraftFacts ==
    ASSUME SessionInv, NEW d \in Drafts
    PROVE  \/ d.ref = 0 /\ d.type \in Inputs /\ d.type \in TriggerTypes \cup {"interrupt"}
           \/ d.ref \in DOMAIN pending /\ pending[d.ref] = 0 /\ d.type \in ResolutionTypes
<1>1. CASE \E t \in Inputs : d = [type |-> t, ref |-> 0]
  BY <1>1, SessionRuntimeAssumption
<1>2. CASE \E a \in {b \in DOMAIN pending : pending[b] = 0} :
             d = [type |-> IF log[a].type = "ask" THEN "confirmation" ELSE "result", ref |-> a]
  BY <1>2 DEF ResolutionTypes
<1> QED BY <1>1, <1>2 DEF Drafts

\* What AdmitEvents does.
LEMMA Admits ==
    ASSUME SessionInv, NEW n \in 1..MaxBatch, NEW drafts \in [1..n -> Drafts], AdmitEvents(drafts)
    PROVE  \E made, woken \in BOOLEAN : Admission(made, woken)
<1>1. /\ n \in Nat /\ DOMAIN drafts = 1..n /\ Len(drafts) = n
  <2>1. n \in Nat
    BY SessionRuntimeAssumption
  <2> QED BY <2>1
<1>2. /\ SessionTyped /\ log \in Seq(EventType) /\ Seqs = 1..Len(log) /\ Len(log) \in Nat
      /\ DOMAIN pending \subseteq Seqs /\ pending \in [DOMAIN pending -> Seqs \cup {0}]
      /\ inputs \in 0..MaxInputs /\ MaxInputs \in Nat /\ fast \in BOOLEAN /\ processed \subseteq Seqs
  BY Numbered, SessionRuntimeAssumption DEF SessionInv, SessionTyped, IsRows
<1>3. ASSUME NEW i \in 1..n
      PROVE /\ \/ drafts[i].ref = 0 /\ drafts[i].type \in Inputs /\ drafts[i].type \in TriggerTypes \cup {"interrupt"}
               \/ drafts[i].ref \in DOMAIN pending /\ pending[drafts[i].ref] = 0 /\ drafts[i].type \in ResolutionTypes
            /\ drafts[i].ref # 0 => drafts[i].ref \in DOMAIN pending /\ pending[drafts[i].ref] = 0 /\ drafts[i].type \in ResolutionTypes
            /\ drafts[i].type \in EventTypes /\ drafts[i].type \notin StatusTypes
            /\ drafts[i].type \in Inputs \cup ResolutionTypes
  <2>1. drafts[i] \in Drafts
    OBVIOUS
  <2>2. \/ drafts[i].ref = 0 /\ drafts[i].type \in Inputs /\ drafts[i].type \in TriggerTypes \cup {"interrupt"}
        \/ drafts[i].ref \in DOMAIN pending /\ pending[drafts[i].ref] = 0 /\ drafts[i].type \in ResolutionTypes
    BY <2>1, DraftFacts
  <2> QED BY <2>2 DEF EventTypes, StatusTypes, TriggerTypes, ResolutionTypes
<1>4. PICK made \in BOOLEAN : made = MakesRunnable(drafts)
  BY DEF MakesRunnable
<1>5. PICK woken \in BOOLEAN : woken = (MakesRunnable(drafts) \/ Has(drafts, "interrupt"))
  OBVIOUS
<1>6. PICK A \in Seq(EventType) : /\ A = [i \in DOMAIN drafts |-> Event(drafts[i].type, 0, "none")]
                                  /\ Len(A) = n
                                  /\ \A i \in 1..n : A[i].type = drafts[i].type /\ A[i].turn = 0 /\ A[i].reason = "none"
  <2>1. \A i \in 1..n : /\ Event(drafts[i].type, 0, "none") \in EventType
                        /\ Event(drafts[i].type, 0, "none").type = drafts[i].type
                        /\ Event(drafts[i].type, 0, "none").turn = 0
                        /\ Event(drafts[i].type, 0, "none").reason = "none"
    BY <1>3 DEF Event, EventType, Reasons
  <2>2. [i \in 1..n |-> Event(drafts[i].type, 0, "none")] \in Seq(EventType)
    BY <1>1, <2>1
  <2>3. Len([i \in 1..n |-> Event(drafts[i].type, 0, "none")]) = n
    BY <1>1
  <2> QED BY <1>1, <2>1, <2>2, <2>3
<1>7. PICK B \in Seq(EventType) : /\ B = IF made /\ status = "idle" THEN <<Event("running", 0, "none")>> ELSE <<>>
                                  /\ made /\ status = "idle" => /\ Len(B) = 1 /\ B[1].type = "running"
                                                                /\ B[1].turn = 0 /\ B[1].reason = "none"
                                  /\ ~(made /\ status = "idle") => Len(B) = 0
  <2>1. /\ Event("running", 0, "none") \in EventType /\ Event("running", 0, "none").type = "running"
        /\ Event("running", 0, "none").turn = 0 /\ Event("running", 0, "none").reason = "none"
    BY DEF Event, EventType, EventTypes, StatusTypes, Reasons
  <2>2. PICK e \in EventType : e = Event("running", 0, "none")
    BY <2>1
  <2>3. <<e>> \in Seq(EventType) /\ Len(<<e>>) = 1 /\ <<e>>[1] = e
    OBVIOUS
  <2>4. <<>> \in Seq(EventType) /\ Len(<<>>) = 0
    BY EmptySeq
  <2>5. CASE made /\ status = "idle"
    BY <2>1, <2>2, <2>3, <2>5
  <2>6. CASE ~(made /\ status = "idle")
    BY <2>4, <2>6
  <2> QED BY <2>5, <2>6
<1>8. /\ A \o B \in Seq(EventType) /\ Len(A \o B) = n + Len(B) /\ Len(B) \in Nat
      /\ \A i \in 1..n : (A \o B)[i] = A[i]
      /\ \A i \in 1..Len(B) : (A \o B)[n + i] = B[i]
      /\ \A i \in 1..Len(A \o B) : i \in 1..n \/ \E j \in 1..Len(B) : i = n + j
  <2>1. Len(B) \in Nat
    OBVIOUS
  <2> QED BY <1>6, <2>1, Concat
<1>9. log' = log \o (A \o B)
  <2>1. log' = (log \o A) \o B
    BY <1>4, <1>6, <1>7 DEF AdmitEvents
  <2>2. log \in Seq(EventType) /\ A \in Seq(EventType) /\ B \in Seq(EventType)
    BY <1>2
  <2>3. (log \o A) \o B = log \o (A \o B)
    BY <2>2, ConcatAssociative, SMT
  <2> QED BY <2>1, <2>3, Zenon
<1>10. PICK new \in Seq(EventType) : new = A \o B
  BY <1>8
<1>11. /\ log' \in Seq(EventType) /\ Seqs' = 1..Len(log')
       /\ Len(new) \in Nat /\ Len(log') = Len(log) + Len(new)
       /\ Seqs \subseteq Seqs' /\ \A s \in Seqs : log'[s] = log[s]
       /\ \A k \in 1..Len(new) : log'[Len(log) + k] = new[k] /\ Len(log) + k \in Seqs' \ Seqs
       /\ \A s \in Seqs' : s \in Seqs \/ \E k \in 1..Len(new) : s = Len(log) + k
  BY <1>2, <1>9, <1>10, Grown
<1>12. \A i \in 1..n : /\ i \in 1..Len(new) /\ new[i] = A[i] /\ Len(log) + i \in Seqs' \ Seqs
                       /\ log'[Len(log) + i] = A[i] /\ log'[Len(log) + i].type = drafts[i].type
  BY <1>6, <1>8, <1>10, <1>11
<1>13. \A s \in Seqs' \ Seqs :
         \/ \E i \in 1..n : s = Len(log) + i /\ log'[s] = A[i]
         \/ log'[s].type = "running" /\ log'[s].turn = 0 /\ log'[s].reason = "none"
  <2> TAKE s \in Seqs' \ Seqs
  <2>1. PICK k \in 1..Len(new) : s = Len(log) + k /\ log'[s] = new[k]
    BY <1>11
  <2>2. CASE k \in 1..n
    BY <1>12, <2>1, <2>2
  <2>3. CASE \E j \in 1..Len(B) : k = n + j
    <3>1. PICK j \in 1..Len(B) : k = n + j
      BY <2>3
    <3>2. Len(B) = 1 /\ j = 1
      BY <1>7, <3>1
    <3>3. new[k] = B[1]
      BY <1>8, <1>10, <3>1, <3>2
    <3> QED BY <1>7, <2>1, <3>2, <3>3
  <2> QED BY <1>8, <1>10, <2>1, <2>2, <2>3
<1>14. \A s \in Seqs' \ Seqs :
         /\ log'[s].turn = 0 /\ log'[s].reason = "none" /\ s > Len(log)
         /\ log'[s].type \in Inputs \cup ResolutionTypes \cup {"running"}
  <2> TAKE s \in Seqs' \ Seqs
  <2>1. s > Len(log)
    BY <1>2, <1>11
  <2>2. CASE \E i \in 1..n : s = Len(log) + i /\ log'[s] = A[i]
    BY <1>3, <1>6, <2>1, <2>2
  <2>3. CASE log'[s].type = "running" /\ log'[s].turn = 0 /\ log'[s].reason = "none"
    BY <2>1, <2>3
  <2> QED BY <1>13, <2>2, <2>3
<1>15. ASSUME NEW type, type # "running"
       PROVE  Has(drafts, type) <=> \E s \in Seqs' \ Seqs : log'[s].type = type
  <2>1. ASSUME Has(drafts, type) PROVE \E s \in Seqs' \ Seqs : log'[s].type = type
    BY <1>1, <1>12, <2>1 DEF Has
  <2>2. ASSUME NEW s \in Seqs' \ Seqs, log'[s].type = type PROVE Has(drafts, type)
    <3>1. PICK i \in 1..n : s = Len(log) + i /\ log'[s] = A[i]
      BY <1>13, <1>15, <2>2
    <3> QED BY <1>1, <1>6, <2>2, <3>1 DEF Has
  <2> QED BY <2>1, <2>2
<1>16. /\ processed \subseteq processed' /\ processed' \subseteq Seqs'
       /\ \A s \in processed' \ processed : s \notin Seqs /\ log'[s].type \notin {"message", "interrupt"}
       /\ \A s \in Seqs' \ Seqs : log'[s].type = "outcome" => s \in processed'
  <2>1. processed' = processed \cup {Len(log) + i : i \in {j \in DOMAIN drafts : ProcessedOnReceipt(drafts[j].type)}}
    BY DEF AdmitEvents
  <2>2. ASSUME NEW s \in processed', s \notin processed
        PROVE s \in Seqs' \ Seqs /\ log'[s].type \notin {"message", "interrupt"}
    <3>1. PICK i \in 1..n : s = Len(log) + i /\ ProcessedOnReceipt(drafts[i].type)
      BY <1>1, <2>1, <2>2
    <3> QED BY <1>12, <3>1 DEF ProcessedOnReceipt
  <2>3. processed \subseteq processed'
    BY <2>1
  <2>4. ASSUME NEW s \in Seqs' \ Seqs, log'[s].type = "outcome" PROVE s \in processed'
    <3>1. PICK i \in 1..n : s = Len(log) + i /\ log'[s] = A[i]
      BY <1>13, <2>4
    <3>2. drafts[i].type = "outcome"
      BY <1>6, <2>4, <3>1
    <3> QED BY <1>1, <2>1, <3>1, <3>2 DEF ProcessedOnReceipt
  <2> QED BY <1>2, <1>11, <2>2, <2>3, <2>4
<1>17. /\ pending' = ClaimedBy(drafts) /\ pending' \in [DOMAIN pending -> Seqs' \cup {0}]
       /\ \A a \in DOMAIN pending :
            \/ pending'[a] = pending[a]
            \/ pending[a] = 0 /\ pending'[a] \in Seqs' \ Seqs /\ log'[pending'[a]].type \in ResolutionTypes
  <2>1. pending' = ClaimedBy(drafts) /\ DOMAIN pending' = DOMAIN pending
    BY DEF AdmitEvents, ClaimedBy
  <2>2. ASSUME NEW a \in DOMAIN pending
        PROVE \/ pending'[a] = pending[a]
              \/ pending[a] = 0 /\ pending'[a] \in Seqs' \ Seqs /\ log'[pending'[a]].type \in ResolutionTypes
    <3>1. CASE \E i \in DOMAIN drafts : drafts[i].ref = a
      <4>1. PICK i \in DOMAIN drafts : i = CHOOSE j \in DOMAIN drafts : drafts[j].ref = a
        BY <3>1
      <4>2. drafts[i].ref = a
        BY <3>1, <4>1
      <4>3. pending'[a] = Len(log) + i
        BY <2>1, <3>1, <4>1 DEF ClaimedBy
      <4>4. a # 0
        BY <1>2
      <4>5. i \in 1..n
        BY <1>1
      <4>6. pending[a] = 0 /\ drafts[i].type \in ResolutionTypes
        BY <1>3, <4>2, <4>4, <4>5
      <4>7. Len(log) + i \in Seqs' \ Seqs /\ log'[Len(log) + i].type = drafts[i].type
        BY <1>12, <4>5
      <4> QED BY <4>3, <4>6, <4>7, Zenon
    <3>2. CASE ~\E i \in DOMAIN drafts : drafts[i].ref = a
      BY <2>1, <3>2 DEF ClaimedBy
    <3> QED BY <3>1, <3>2
  <2>3. pending' = [a \in DOMAIN pending |-> pending'[a]]
    BY <2>1 DEF ClaimedBy
  <2>4. \A a \in DOMAIN pending : pending'[a] \in Seqs' \cup {0}
    BY <1>2, <1>11, <2>2
  <2> QED BY <2>1, <2>2, <2>3, <2>4
<1>18. \/ outcome' = outcome
       \/ outcome = 0 /\ outcome' \in Seqs' \ Seqs /\ log'[outcome'].type = "outcome"
  <2>1. CASE Has(drafts, "outcome")
    <3>1. PICK i \in DOMAIN drafts : i = CHOOSE j \in DOMAIN drafts : drafts[j].type = "outcome"
      BY <2>1 DEF Has
    <3>2. drafts[i].type = "outcome"
      BY <2>1, <3>1 DEF Has
    <3>3. outcome' = Len(log) + i /\ outcome = 0
      BY <2>1, <3>1 DEF AdmitEvents, Admissible
    <3> QED BY <1>1, <1>12, <3>2, <3>3
  <2>2. CASE ~Has(drafts, "outcome")
    BY <2>2 DEF AdmitEvents
  <2> QED BY <2>1, <2>2
<1>19. /\ status # "terminated"
       /\ status' = IF made /\ status = "idle" THEN "running" ELSE status
       /\ outbox' = IF woken THEN Len(log') ELSE outbox
       /\ fast' \in BOOLEAN /\ UNCHANGED <<relay, signals, lost, workflow>>
  BY <1>2, <1>4, <1>5 DEF AdmitEvents, Admissible
<1>20. inputs' \in 0..MaxInputs
  <2>1. inputs + n <= MaxInputs /\ inputs' = inputs + n
    BY <1>1 DEF AdmitEvents
  <2> QED BY <1>1, <1>2, <2>1
<1>21. /\ made => /\ woken
                  /\ pending' # pending \/ \E s \in Seqs' \ Seqs : log'[s].type \in TriggerTypes
       /\ (\E s \in Seqs' \ Seqs : log'[s].type = "interrupt") => woken
       /\ DOMAIN pending = {} /\ (\E s \in Seqs' \ Seqs : log'[s].type = "message") => made
       /\ pending' # pending /\ FullyClaimed(pending') => made
  <2>1. /\ Has(drafts, "interrupt") <=> \E s \in Seqs' \ Seqs : log'[s].type = "interrupt"
        /\ Has(drafts, "message") <=> \E s \in Seqs' \ Seqs : log'[s].type = "message"
        /\ Has(drafts, "outcome") <=> \E s \in Seqs' \ Seqs : log'[s].type = "outcome"
    BY <1>15
  <2>2. made <=> \/ pending' # pending /\ FullyClaimed(pending')
                 \/ DOMAIN pending = {} /\ (Has(drafts, "message") \/ Has(drafts, "outcome"))
    BY <1>4, <1>17 DEF MakesRunnable
  <2>3. woken <=> made \/ Has(drafts, "interrupt")
    BY <1>4, <1>5
  <2>4. Has(drafts, "message") \/ Has(drafts, "outcome") => \E s \in Seqs' \ Seqs : log'[s].type \in TriggerTypes
    BY <2>1 DEF TriggerTypes
  <2> QED BY <2>1, <2>2, <2>3, <2>4
<1>22. ASSUME StatusIsProjection PROVE StatusIsProjection'
  <2>1. CASE made /\ status = "idle"
    <3>1. /\ n + 1 \in 1..Len(new) /\ Len(new) = n + 1 /\ new[n + 1].type = "running"
      BY <1>1, <1>7, <1>8, <1>10, <2>1
    <3>2. /\ new[n + 1].type \in StatusTypes /\ status' = Shown(new[n + 1].type)
          /\ \A j \in 1..Len(new) : j <= n + 1
      BY <1>1, <1>19, <2>1, <3>1 DEF Shown, StatusTypes
    <3> QED BY <1>2, <1>9, <1>10, <3>1, <3>2, ProjectionGrows
  <2>2. CASE ~(made /\ status = "idle")
    <3>1. Len(new) = n
      BY <1>1, <1>7, <1>8, <1>10, <2>2
    <3>2. \A k \in 1..Len(new) : new[k].type \notin StatusTypes
      BY <1>3, <1>6, <1>12, <3>1
    <3>3. status' = status
      BY <1>19, <2>2
    <3> QED BY <1>2, <1>9, <1>10, <1>22, <3>2, <3>3, ProjectionGrows
  <2> QED BY <2>1, <2>2
<1>23. Len(log') \in Nat /\ Len(log) < Len(log')
  BY <1>1, <1>2, <1>8, <1>10, <1>11
<1>24. Admission(made, woken)
  BY <1>11, <1>14, <1>16, <1>17, <1>18, <1>19, <1>20, <1>21, <1>22, <1>23 DEF Admission
<1> QED BY <1>24

\* What an admission leaves of the state the invariant speaks of.
LEMMA AdmissionFacts ==
    ASSUME SessionInv, NEW made \in BOOLEAN, NEW woken \in BOOLEAN, Admission(made, woken)
    PROVE  /\ Unprocessed({"message"}) \subseteq Unprocessed({"message"})'
           /\ \A s \in Unprocessed({"message"})' : s \in Unprocessed({"message"}) \/ s > Len(log)
           /\ DOMAIN pending = {} /\ ~made => Unprocessed({"message"})' = Unprocessed({"message"})
           /\ Interrupts \subseteq Interrupts'
           /\ \A s \in Interrupts' : s \in Interrupts \/ s > Len(log)
           /\ ~woken => Interrupts' = Interrupts
           /\ \A s \in Unprocessed({"message", "interrupt"})' :
                s \in Unprocessed({"message", "interrupt"}) \/ s > Len(log)
           /\ \A s \in Seqs : s \in Claims(pending)' => s \in Claims(pending)
           /\ Claims(pending) \subseteq Claims(pending)'
           /\ FullyClaimed(pending) => pending' = pending
           /\ \A t : Parked(t)' <=> Parked(t)
           /\ \A t \in Seqs : AlreadyCompleted(t)' => AlreadyCompleted(t)
<1>1. /\ Seqs = 1..Len(log) /\ Len(log) \in Nat /\ pending \in [DOMAIN pending -> Seqs \cup {0}]
      /\ outcome \in Seqs \cup {0} /\ processed \subseteq Seqs
  BY Numbered DEF SessionInv, SessionTyped, IsRows
<1>2. /\ \A s \in Seqs : s \in Seqs' /\ log'[s] = log[s]
      /\ \A s \in Seqs' \ Seqs : log'[s].turn = 0 /\ log'[s].reason = "none" /\ s > Len(log)
      /\ processed \subseteq processed' /\ processed' \subseteq Seqs'
      /\ \A s \in processed' \ processed : s \notin Seqs /\ log'[s].type \notin {"message", "interrupt"}
  BY DEF Admission
<1>3. ASSUME NEW types, types \subseteq {"message", "interrupt"}
      PROVE /\ Unprocessed(types) \subseteq Unprocessed(types)'
            /\ \A s \in Unprocessed(types)' :
                 \/ s \in Unprocessed(types)
                 \/ s \in Seqs' \ Seqs /\ log'[s].type \in types
  BY <1>1, <1>2, <1>3 DEF Unprocessed
<1>4. /\ Unprocessed({"message"}) \subseteq Unprocessed({"message"})'
      /\ \A s \in Unprocessed({"message"})' :
           \/ s \in Unprocessed({"message"})
           \/ s \in Seqs' \ Seqs /\ log'[s].type = "message"
  BY <1>3
<1>5. /\ Interrupts \subseteq Interrupts'
      /\ \A s \in Interrupts' : s \in Interrupts \/ (s \in Seqs' \ Seqs /\ log'[s].type = "interrupt")
  BY <1>3 DEF Interrupts
<1>6. \A s \in Unprocessed({"message", "interrupt"})' :
        s \in Unprocessed({"message", "interrupt"}) \/ s \in Seqs' \ Seqs
  BY <1>3
<1>7. DOMAIN pending = {} /\ ~made => Unprocessed({"message"})' = Unprocessed({"message"})
  BY <1>4 DEF Admission
<1>8. ~woken => Interrupts' = Interrupts
  BY <1>5 DEF Admission
<1>9. /\ pending' \in [DOMAIN pending -> Seqs' \cup {0}] /\ DOMAIN pending' = DOMAIN pending
      /\ \A a \in DOMAIN pending : \/ pending'[a] = pending[a]
                                   \/ pending[a] = 0 /\ pending'[a] \in Seqs' \ Seqs
  BY DEF Admission
<1>10. ASSUME NEW s \in Seqs, s \in Claims(pending)' PROVE s \in Claims(pending)
  <2>1. PICK a \in DOMAIN pending : pending'[a] = s /\ s # 0
    BY <1>9, <1>10 DEF Claims, Range
  <2>2. pending[a] = s
    BY <1>9, <1>10, <2>1
  <2> QED BY <2>1, <2>2 DEF Claims, Range
<1>11. Claims(pending) \subseteq Claims(pending)'
  <2>1. ASSUME NEW c \in Claims(pending) PROVE c \in Claims(pending)'
    <3>1. PICK a \in DOMAIN pending : pending[a] = c /\ c # 0
      BY <2>1 DEF Claims, Range
    <3>2. pending'[a] = c /\ a \in DOMAIN pending'
      BY <1>9, <3>1
    <3> QED BY <3>1, <3>2 DEF Claims, Range
  <2> QED BY <2>1
<1>12. ASSUME FullyClaimed(pending) PROVE pending' = pending
  <2>1. \A a \in DOMAIN pending : pending[a] # 0
    BY <1>12 DEF FullyClaimed, Range
  <2>2. \A a \in DOMAIN pending : pending'[a] = pending[a]
    BY <1>9, <2>1
  <2> QED BY <1>1, <1>9, <2>2
<1>13. \A t : Parked(t)' <=> Parked(t)
  <2>1. ASSUME NEW t, NEW s \in Seqs', log'[s].turn = t, log'[s].reason = "requires_action"
        PROVE s \in Seqs /\ log[s].turn = t /\ log[s].reason = "requires_action"
    BY <1>2, <2>1
  <2> QED BY <1>2, <2>1 DEF Parked
<1>14. ASSUME NEW t \in Seqs, AlreadyCompleted(t)' PROVE AlreadyCompleted(t)
  <2>1. t \in processed' /\ t \notin Claims(pending)' /\ outcome' # t
    BY <1>14 DEF AlreadyCompleted
  <2>2. t \in processed
    BY <1>2, <2>1
  <2>3. outcome # t
    <3>1. t # 0
      BY <1>1
    <3> QED BY <2>1, <3>1 DEF Admission
  <2> QED BY <1>11, <2>1, <2>2, <2>3 DEF AlreadyCompleted
<1> QED BY <1>2, <1>4, <1>5, <1>6, <1>7, <1>8, <1>10, <1>11, <1>12, <1>13, <1>14

\* An admission keeps the invariant: what it makes runnable it announces with
\* a wakeup that no relay is about to delete.
LEMMA AdmissionStep ==
    ASSUME SessionInv, NEW made \in BOOLEAN, NEW woken \in BOOLEAN, Admission(made, woken)
    PROVE  SessionInv'
<1>1. /\ Unprocessed({"message"}) \subseteq Unprocessed({"message"})'
      /\ \A s \in Unprocessed({"message"})' : s \in Unprocessed({"message"}) \/ s > Len(log)
      /\ DOMAIN pending = {} /\ ~made => Unprocessed({"message"})' = Unprocessed({"message"})
      /\ Interrupts \subseteq Interrupts'
      /\ \A s \in Interrupts' : s \in Interrupts \/ s > Len(log)
      /\ ~woken => Interrupts' = Interrupts
      /\ \A s \in Unprocessed({"message", "interrupt"})' :
           s \in Unprocessed({"message", "interrupt"}) \/ s > Len(log)
      /\ \A s \in Seqs : s \in Claims(pending)' => s \in Claims(pending)
      /\ FullyClaimed(pending) => pending' = pending
      /\ \A t : Parked(t)' <=> Parked(t)
      /\ \A t \in Seqs : AlreadyCompleted(t)' => AlreadyCompleted(t)
  BY AdmissionFacts
<1>2. /\ SessionTyped /\ Seqs = 1..Len(log) /\ Len(log) \in Nat /\ pending \in [DOMAIN pending -> Seqs \cup {0}]
      /\ DOMAIN pending \subseteq Seqs /\ outcome \in Seqs \cup {0} /\ processed \subseteq Seqs
      /\ outbox \in 0..Len(log) /\ cursor \in 0..Len(log)
      /\ \A r \in Relays : relay[r].seq \in Nat /\ relay[r].seq <= Len(log)
  BY Numbered DEF SessionInv, SessionTyped, IsRows, RelayType
<1>3. /\ relay' = relay /\ signals' = signals /\ lost' = lost /\ pc' = pc /\ cursor' = cursor
      /\ batch' = batch /\ barrier' = barrier /\ turn' = turn
  BY DEF Admission, workflow
<1>4. /\ log' \in Seq(EventType) /\ Seqs' = 1..Len(log') /\ Len(log') \in Nat /\ Len(log) < Len(log')
      /\ \A s \in Seqs : s \in Seqs' /\ log'[s] = log[s]
      /\ \A s \in Seqs' \ Seqs : /\ log'[s].turn = 0 /\ log'[s].reason = "none" /\ s > Len(log)
                                 /\ log'[s].type \in Inputs \cup ResolutionTypes \cup {"running"}
      /\ processed \subseteq processed' /\ processed' \subseteq Seqs'
      /\ \A s \in processed' \ processed : s \notin Seqs /\ log'[s].type \notin {"message", "interrupt"}
  BY DEF Admission
<1>5. /\ pending' \in [DOMAIN pending -> Seqs' \cup {0}] /\ DOMAIN pending' = DOMAIN pending
      /\ \A a \in DOMAIN pending :
           \/ pending'[a] = pending[a]
           \/ pending[a] = 0 /\ pending'[a] \in Seqs' \ Seqs /\ log'[pending'[a]].type \in ResolutionTypes
  BY DEF Admission
<1>6. /\ \/ outcome' = outcome
         \/ outcome = 0 /\ outcome' \in Seqs' \ Seqs /\ log'[outcome'].type = "outcome"
      /\ status # "terminated" /\ status' # "terminated"
      /\ status' = IF made /\ status = "idle" THEN "running" ELSE status
      /\ outbox' = IF woken THEN Len(log') ELSE outbox
      /\ made => woken
  BY DEF Admission
<1>7. SessionTyped'
  <2>1. IsRows(pending)' /\ IsRows(barrier)'
    <3>1. ASSUME NEW rows, DOMAIN rows \subseteq Seqs, rows \in [DOMAIN rows -> Seqs \cup {0}]
          PROVE  DOMAIN rows \subseteq Seqs' /\ rows \in [DOMAIN rows -> Seqs' \cup {0}]
      BY <1>4, <3>1
    <3>2. IsRows(barrier)'
      BY <1>2, <1>3, <3>1 DEF SessionTyped, IsRows
    <3>3. IsRows(pending)'
      BY <1>2, <1>4, <1>5 DEF IsRows
    <3> QED BY <3>2, <3>3
  <2>2. outcome' \in 0..Len(log') /\ outbox' \in 0..Len(log') /\ cursor' \in 0..Len(log')
    BY <1>2, <1>3, <1>4, <1>6
  <2>3. relay' \in [Relays -> RelayType] /\ \A r \in Relays : relay'[r].seq <= Len(log')
    <3>1. \A r \in Relays : relay[r].seq <= Len(log')
      BY <1>2, <1>4
    <3> QED BY <1>2, <1>3, <3>1 DEF SessionTyped
  <2>4. status' \in {"idle", "running", "rescheduling", "terminated"} /\ processed' \subseteq Seqs'
    BY <1>2, <1>4, <1>6 DEF SessionTyped
  <2>5. inputs' \in 0..MaxInputs /\ fast' \in BOOLEAN
    BY DEF Admission
  <2> QED BY <1>2, <1>3, <1>4, <2>1, <2>2, <2>3, <2>4, <2>5 DEF SessionTyped
<1>8. LedgerTyped'
  <2>1. ASSUME NEW a \in DOMAIN pending', pending'[a] # 0 PROVE log'[pending'[a]].type \in ResolutionTypes
    <3>1. CASE pending'[a] = pending[a]
      BY <1>2, <1>4, <1>5, <2>1, <3>1 DEF SessionInv, LedgerTyped
    <3>2. CASE pending'[a] # pending[a]
      BY <1>5, <2>1, <3>2
    <3> QED BY <3>1, <3>2
  <2>2. outcome' # 0 => log'[outcome'].type = "outcome"
    BY <1>2, <1>4, <1>6 DEF SessionInv, LedgerTyped
  <2>3. ASSUME NEW s \in Seqs', log'[s].type = "outcome" PROVE s \in processed'
    <3>1. CASE s \in Seqs
      BY <1>4, <2>3, <3>1 DEF SessionInv, LedgerTyped
    <3>2. CASE s \notin Seqs
      BY <2>3, <3>2 DEF Admission
    <3> QED BY <3>1, <3>2
  <2> QED BY <2>1, <2>2, <2>3 DEF LedgerTyped
<1>9. BatchFollows' /\ CursorBehind'
  <2>1. cursor + Len(batch) <= Len(log) /\ cursor \in Nat /\ Len(batch) \in Nat
    BY <1>2 DEF SessionInv, SessionTyped, BatchFollows
  <2>2. cursor + Len(batch) <= Len(log')
    BY <1>2, <1>4, <2>1
  <2>3. BatchFollows'
    BY <1>3, <2>2 DEF SessionInv, BatchFollows
  <2>4. ASSUME NEW s \in Unprocessed({"message", "interrupt"})' PROVE s > cursor
    <3>1. s \in Nat
      BY <1>4 DEF Unprocessed
    <3> QED BY <1>1, <1>2, <2>4, <3>1 DEF SessionInv, CursorBehind
  <2> QED BY <1>3, <2>3, <2>4 DEF CursorBehind
<1>10. BarrierRead'
  <2>1. ASSUME pc = "gate", NEW a \in DOMAIN barrier PROVE barrier[a] \in {0, pending'[a]}
    <3>1. a \in DOMAIN pending /\ barrier[a] \in {0, pending[a]}
      BY <2>1 DEF SessionInv, BarrierRead
    <3> QED BY <1>5, <3>1
  <2> QED BY <1>3, <1>5, <2>1 DEF SessionInv, BarrierRead
<1>11. pc \in TurnPcs => turn.trigger \in Seqs /\ turn.trigger \in Nat
  BY <1>2 DEF SessionInv, TurnSubject
<1>12. Acking' <=> Acking
  BY <1>3 DEF Acking
<1>13. TurnSubject'
  <2> SUFFICES ASSUME pc \in TurnPcs PROVE TurnSubject'
    BY <1>3 DEF TurnSubject
  <2>1. /\ turn.trigger \in Seqs /\ turn.res \subseteq Seqs
        /\ batch # <<>> => turn.trigger = cursor + 1
        /\ Acking => log[turn.trigger].type = "interrupt" /\ turn.res = {} /\ turn.acts = <<>>
        /\ ~Acking /\ batch # <<>> => turn.res = {} /\ log[turn.trigger].type \in TriggerTypes
        /\ ~Acking /\ batch = <<>> => /\ turn.trigger \in turn.res /\ 0 \notin turn.res
                                      /\ log[turn.trigger].type \in ResolutionTypes
        /\ ~Acking /\ ~turn.committed /\ batch = <<>> => Range(pending) = turn.res
        /\ ~Acking /\ ~turn.committed /\ batch # <<>> => DOMAIN pending = {}
        /\ Acking /\ batch # <<>> => DOMAIN pending = {}
        /\ turn.committed /\ batch # <<>> => DOMAIN pending = {} \/ Parked(turn.trigger)
        /\ ~Acking => \A i \in Interrupts : i > turn.trigger
    BY DEF SessionInv, TurnSubject
  <2>2. turn.trigger \in Seqs' /\ turn.res \subseteq Seqs' /\ log'[turn.trigger] = log[turn.trigger]
    BY <1>4, <2>1
  <2>3. ~Acking /\ ~turn.committed /\ batch = <<>> => Range(pending)' = turn.res
    <3>1. ~Acking /\ ~turn.committed /\ batch = <<>> => FullyClaimed(pending)
      BY <2>1 DEF FullyClaimed
    <3> QED BY <1>1, <2>1, <3>1 DEF Range
  <2>4. ~Acking => \A i \in Interrupts' : i > turn.trigger
    <3>1. \A i \in Interrupts' : i \in Nat
      BY <1>4 DEF Interrupts, Unprocessed
    <3> QED BY <1>1, <1>2, <2>1, <3>1
  <2>5. Parked(turn.trigger)' <=> Parked(turn.trigger)
    BY <1>1, <1>3 DEF Parked
  <2> QED BY <1>3, <1>5, <1>12, <2>1, <2>2, <2>3, <2>4, <2>5 DEF TurnSubject
<1>14. TurnProgress'
  <2> SUFFICES ASSUME pc \in TurnPcs PROVE TurnProgress'
    BY <1>3 DEF TurnProgress
  <2>1. /\ turn.ask = "none" <=> pc \notin {"finish", "reply"}
        /\ turn.committed => /\ pc \in {"finish", "reply"} /\ turn.trigger \in processed
                             /\ turn.trigger \notin Claims(pending)
        /\ pc = "reply" => turn.trigger \in processed /\ (~Acking => turn.committed)
        /\ ~turn.committed /\ ~Acking /\ pc # "prepare" => ~AlreadyCompleted(turn.trigger)
        /\ turn.acts # <<>> => pc \in {"tool", "finish", "reply"} /\ turn.ask \in {"none", "end"}
        /\ pc \in {"call", "tool", "evaluate", "retry"} \/ turn.ask = "exhausted" \/ turn.acts # <<>> => turn.keyed
        /\ turn.ask = "end" /\ ~turn.keyed /\ ~turn.committed => Interrupts # {}
        /\ ~Acking /\ turn.committed /\ ~turn.keyed => outcome # turn.trigger
    BY <1>6 DEF SessionInv, TurnProgress
  <2>2. AlreadyCompleted(turn.trigger)' => AlreadyCompleted(turn.trigger)
    <3>1. PICK t : t = turn.trigger
      OBVIOUS
    <3>2. AlreadyCompleted(t)' => AlreadyCompleted(t)
      BY <1>1, <1>11, <3>1
    <3>3. AlreadyCompleted(turn.trigger)' <=> AlreadyCompleted(t)'
      BY <1>3, <3>1 DEF AlreadyCompleted
    <3> QED BY <3>1, <3>2, <3>3
  <2>3. turn.trigger \in processed => turn.trigger \in processed'
    BY <1>4
  <2>4. turn.trigger \notin Claims(pending) => turn.trigger \notin Claims(pending)'
    BY <1>1, <1>11
  <2>5. Interrupts # {} => Interrupts' # {}
    BY <1>1
  <2>6. outcome' = turn.trigger => outcome = turn.trigger
    BY <1>6, <1>11
  <2> QED BY <1>3, <1>12, <2>1, <2>2, <2>3, <2>4, <2>5, <2>6 DEF TurnProgress
<1>15. DispositionTrue'
  <2>1. Parked(turn.trigger)' <=> Parked(turn.trigger)
    BY <1>1, <1>3 DEF Parked
  <2> QED BY <1>3, <1>6, <1>12, <2>1 DEF SessionInv, DispositionTrue
<1>16. TerminationStands'
  BY <1>3, <1>6 DEF SessionInv, TerminationStands
<1>17. EndsAreEnds'
  <2>1. ASSUME NEW s \in Seqs'
        PROVE /\ log'[s].reason # "none" => log'[s].type = "idle" /\ log'[s].turn # 0
              /\ IsEnd(s)' => /\ log'[s].turn \in processed' /\ log'[s].turn \notin Claims(pending)'
                              /\ log'[log'[s].turn].type = "outcome" /\ status' # "terminated" =>
                                   log'[s].turn <= cursor' \/ (turn'.committed /\ turn'.trigger = log'[s].turn)
    <3>1. CASE s \in Seqs
      <4>1. log'[s] = log[s] /\ (IsEnd(s)' <=> IsEnd(s))
        BY <1>4, <3>1 DEF IsEnd
      <4>2. /\ log[s].reason # "none" => log[s].type = "idle" /\ log[s].turn # 0
            /\ IsEnd(s) => /\ log[s].turn \in processed /\ log[s].turn \notin Claims(pending)
                           /\ log[log[s].turn].type = "outcome" /\ status # "terminated" =>
                                log[s].turn <= cursor \/ (turn.committed /\ turn.trigger = log[s].turn)
        BY <3>1 DEF SessionInv, EndsAreEnds
      <4>3. IsEnd(s) => log[s].turn \in Seqs
        BY <1>2, <4>2
      <4>4. IsEnd(s) => log'[log[s].turn] = log[log[s].turn] /\ log[s].turn \notin Claims(pending)'
        BY <1>1, <1>4, <4>2, <4>3
      <4> QED BY <1>3, <1>4, <1>6, <4>1, <4>2, <4>4
    <3>2. CASE s \notin Seqs
      <4>1. log'[s].reason = "none" /\ ~IsEnd(s)'
        BY <1>4, <3>2 DEF IsEnd
      <4> QED BY <4>1
    <3> QED BY <3>1, <3>2
  <2> QED BY <2>1 DEF EndsAreEnds
<1>18. WakeupsComing'
  <2>1. CASE woken
    <3>1. outbox' = Len(log') /\ outbox' # 0 /\ \A r \in Relays : relay'[r].seq # outbox'
      BY <1>2, <1>3, <1>4, <1>6, <2>1
    <3>2. WakeupComing'
      BY <3>1 DEF WakeupComing
    <3> QED BY <3>2 DEF WakeupsComing
  <2>2. CASE ~woken
    <3>1. ~made /\ outbox' = outbox /\ status' = status /\ Interrupts' = Interrupts
      BY <1>1, <1>6, <2>2
    <3>2. FullyClaimed(pending') => pending' = pending
      BY <3>1 DEF Admission
    <3>3. FullyClaimed(pending') => FullyClaimed(pending)
      BY <3>2
    <3>4. FullyClaimed(pending)' <=> FullyClaimed(pending')
      BY DEF FullyClaimed, Range
    <3>5. Runnable' => Runnable
      BY <1>1, <1>5, <1>6, <3>1, <3>3, <3>4 DEF Runnable, Interrupts
    <3>6. Asleep' <=> Asleep
      <4>1. Parked(turn.trigger)' <=> Parked(turn.trigger)
        BY <1>1, <1>3 DEF Parked
      <4> QED BY <1>3, <1>12, <4>1 DEF Asleep
    <3>7. WakeupComing' <=> WakeupComing
      BY <1>3, <3>1 DEF WakeupComing
    <3>8. FullyClaimed(barrier)' <=> FullyClaimed(barrier)
      BY <1>3 DEF FullyClaimed, Range
    <3> QED BY <1>3, <3>3, <3>4, <3>5, <3>6, <3>7, <3>8 DEF SessionInv, WakeupsComing
  <2> QED BY <2>1, <2>2
<1>19. IdleIsDrained'
  BY <1>1, <1>5, <1>6 DEF SessionInv, IdleIsDrained
<1>20. FailsInLoop'
  <2>1. NoOutcomes => outcome' = 0
    <3>1. NoOutcomes => outcome = 0
      BY DEF SessionInv, FailsInLoop
    <3>2. NoOutcomes => \A s \in Seqs' \ Seqs : log'[s].type # "outcome"
      BY <1>4 DEF NoOutcomes, ResolutionTypes
    <3> QED BY <1>6, <3>1, <3>2
  <2> QED BY <1>3, <1>6, <2>1 DEF SessionInv, FailsInLoop, NoOutcomes
<1>21. StatusFollows'
  <2>1. /\ pc' \in {"call", "tool", "evaluate", "grade", "retry"} => status' = "running"
        /\ pc' \in {"backoff", "resume"} => status' = "rescheduling"
        /\ status' = "rescheduling" => \/ pc' \in {"backoff", "resume"}
                                       \/ pc' = "finish" /\ turn'.ask = "end" /\ ~turn'.committed
    BY <1>3, <1>6 DEF SessionInv, StatusFollows
  <2>2. pc' = "finish" /\ turn'.ask \in {"end", "exhausted"} /\ ~turn'.committed => status' = "running" \/ Interrupts' # {}
    <3>1. pc = "finish" /\ turn.ask \in {"end", "exhausted"} /\ ~turn.committed => status = "running" \/ Interrupts # {}
      BY DEF SessionInv, StatusFollows
    <3> QED BY <1>1, <1>3, <1>6, <3>1
  <2>3. Quiet => Interrupts' = {} /\ \A s \in Seqs' : log'[s].type # "interrupt"
    <3>1. Quiet => Interrupts = {} /\ \A s \in Seqs : log[s].type # "interrupt"
      BY DEF SessionInv, StatusFollows
    <3>2. Quiet => \A s \in Seqs' : log'[s].type # "interrupt"
      BY <1>4, <3>1 DEF Quiet, ResolutionTypes
    <3> QED BY <3>2 DEF Interrupts, Unprocessed
  <2>4. Plain => /\ DOMAIN pending' = {} /\ turn'.acts = <<>>
                 /\ status' \in {"running", "rescheduling"} => Unprocessed({"message"})' # {}
    <3> SUFFICES ASSUME Plain
                 PROVE  /\ DOMAIN pending' = {} /\ turn'.acts = <<>>
                        /\ status' \in {"running", "rescheduling"} => Unprocessed({"message"})' # {}
      OBVIOUS
    <3>1. /\ DOMAIN pending = {} /\ turn.acts = <<>>
          /\ status \in {"running", "rescheduling"} => Unprocessed({"message"}) # {}
      BY DEF SessionInv, StatusFollows
    <3>2. pending' = pending
      BY <1>2, <1>5, <3>1
    <3>3. ASSUME made PROVE Unprocessed({"message"})' # {}
      <4>1. PICK s \in Seqs' \ Seqs : log'[s].type \in TriggerTypes
        BY <3>2, <3>3 DEF Admission
      <4>2. log'[s].type = "message"
        BY <1>4, <4>1 DEF TriggerTypes, Plain, NoOutcomes, ResolutionTypes
      <4>3. s \notin processed'
        BY <1>2, <1>4, <4>1, <4>2
      <4> QED BY <4>1, <4>2, <4>3 DEF Unprocessed
    <3> QED BY <1>1, <1>3, <1>5, <1>6, <3>1, <3>3
  <2> QED BY <2>1, <2>2, <2>3, <2>4 DEF StatusFollows, Quiet, Plain, NoOutcomes
<1>22. NoOutcomes \/ NoFailures => OneEndPerTurn'
  <2>1. \A s \in Seqs' : log'[s].type \in EndTypes /\ log'[s].turn # 0 => s \in Seqs /\ log'[s] = log[s]
    BY <1>4
  <2> QED BY <2>1 DEF SessionInv, OneEndPerTurn, EndTypes
<1>23. Quiet \/ Plain => StatusIsProjection'
  BY DEF SessionInv, Admission
<1> QED
  BY <1>7, <1>8, <1>9, <1>10, <1>13, <1>14, <1>15, <1>16, <1>17, <1>18, <1>19, <1>20, <1>21, <1>22, <1>23
  DEF SessionInv, NoOutcomes, NoFailures, Quiet, Plain

\* Admitting client events keeps the invariant.
LEMMA AdmitStep == ASSUME SessionInv, Admit PROVE SessionInv'
<1>1. PICK n \in 1..MaxBatch : \E drafts \in [1..n -> Drafts] : AdmitEvents(drafts)
  BY DEF Admit
<1>2. PICK drafts \in [1..n -> Drafts] : AdmitEvents(drafts)
  BY <1>1
<1>3. \E made, woken \in BOOLEAN : Admission(made, woken)
  BY <1>2, Admits
<1> QED BY <1>3, AdmissionStep

-----------------------------------------------------------------------------
(* Completion                                                              *)

\* A completion that has committed before is answered from the ledger.
LEMMA ReplayStep ==
    ASSUME SessionInv, CompleteTurn, AlreadyCompleted(turn.trigger) PROVE SessionInv'
<1>1. /\ pc = "finish" /\ pc \in TurnPcs /\ pc' = "reply" /\ pc' \in TurnPcs /\ pc' \in Pcs
      /\ log' = log /\ processed' = processed /\ status' = status /\ pending' = pending
      /\ outcome' = outcome /\ outbox' = outbox /\ inputs' = inputs /\ fast' = fast
      /\ relay' = relay /\ cursor' = cursor /\ batch' = batch /\ barrier' = barrier
      /\ signals' = signals /\ lost' = lost
      /\ turn' = [turn EXCEPT !.disposition = ReplayedDisposition(turn.trigger)]
  BY DEF CompleteTurn, Replay, ledger, delivery, TurnPcs, Pcs
<1>2. PICK d \in {"completed", "parked", "terminated"} :
        /\ d = ReplayedDisposition(turn.trigger)
        /\ d = "terminated" => status = "terminated"
        /\ d = "parked" => Parked(turn.trigger)
        /\ d = "completed" => ~Parked(turn.trigger)
  <2>1. CASE status = "terminated"
    BY <2>1 DEF ReplayedDisposition
  <2>2. CASE status # "terminated" /\ Parked(turn.trigger)
    BY <2>2 DEF ReplayedDisposition, Parked
  <2>3. CASE status # "terminated" /\ ~Parked(turn.trigger)
    BY <2>3 DEF ReplayedDisposition, Parked
  <2> QED BY <2>1, <2>2, <2>3
<1>3. turn \in TurnType
  BY DEF SessionInv, SessionTyped
<1>4. turn' \in TurnType
  BY <1>1, <1>2, <1>3 DEF TurnType
<1>5. /\ turn'.trigger = turn.trigger /\ turn'.res = turn.res /\ turn'.committed = turn.committed
      /\ turn'.ask = turn.ask /\ turn'.acts = turn.acts /\ turn'.keyed = turn.keyed
      /\ turn'.disposition = d
  BY <1>1, <1>2, <1>3 DEF TurnType
<1>6. /\ Seqs' = Seqs /\ Interrupts' = Interrupts /\ Claims(pending)' = Claims(pending)
      /\ Unprocessed({"message"})' = Unprocessed({"message"})
      /\ Unprocessed({"message", "interrupt"})' = Unprocessed({"message", "interrupt"})
      /\ Range(pending)' = Range(pending) /\ Runnable' = Runnable /\ Acking' = Acking
      /\ WakeupComing' = WakeupComing /\ Parked(turn.trigger)' = Parked(turn.trigger)
      /\ AlreadyCompleted(turn.trigger)' = AlreadyCompleted(turn.trigger)
  BY <1>1, <1>5 DEF Seqs, Interrupts, Unprocessed, Claims, Range, FullyClaimed, Runnable, Acking,
                    WakeupComing, Parked, AlreadyCompleted
<1>7. turn.ask # "none" /\ (~Acking => turn.committed) /\ turn.trigger \in processed
  <2>1. turn.ask # "none" /\ (~turn.committed /\ ~Acking => ~AlreadyCompleted(turn.trigger))
    BY <1>1 DEF SessionInv, TurnProgress
  <2> QED BY <2>1 DEF AlreadyCompleted
<1>8. status # "rescheduling"
  BY <1>1, <1>7 DEF SessionInv, StatusFollows, Acking
<1>9. SessionTyped'
  BY <1>1, <1>4 DEF SessionInv, SessionTyped, IsRows, Seqs
<1>10. LedgerTyped' /\ CursorBehind' /\ IdleIsDrained'
  BY <1>1, <1>6 DEF SessionInv, LedgerTyped, CursorBehind, IdleIsDrained
<1>11. BatchFollows' /\ BarrierRead'
  BY <1>1 DEF SessionInv, BatchFollows, BarrierRead
<1>12. TurnSubject' /\ TerminationStands'
  BY <1>1, <1>5, <1>6 DEF SessionInv, TurnSubject, TerminationStands
<1>13. EndsAreEnds'
  BY <1>1, <1>5, <1>6 DEF SessionInv, EndsAreEnds, IsEnd
<1>14. DispositionTrue'
  <2>1. Parked(turn.trigger)' <=> Parked(turn.trigger)
    BY <1>6
  <2> QED BY <1>1, <1>2, <1>5, <2>1 DEF DispositionTrue
<1>15. TurnProgress'
  <2>1. AlreadyCompleted(turn.trigger)' <=> AlreadyCompleted(turn.trigger)
    BY <1>6
  <2>2. turn.committed => turn.trigger \notin Claims(pending)
    BY <1>1 DEF SessionInv, TurnProgress
  <2>3. /\ turn.acts # <<>> => turn.ask \in {"none", "end"} /\ turn.keyed
        /\ turn.ask = "exhausted" => turn.keyed
        /\ turn.ask = "end" /\ ~turn.keyed /\ ~turn.committed => Interrupts # {}
        /\ ~Acking /\ turn.committed /\ ~turn.keyed /\ outcome = turn.trigger =>
             turn.ask = "fail" /\ status = "terminated"
    BY <1>1 DEF SessionInv, TurnProgress
  <2> QED BY <1>1, <1>5, <1>6, <1>7, <2>1, <2>2, <2>3 DEF TurnProgress
<1>16. FailsInLoop' /\ StatusFollows'
  BY <1>1, <1>5, <1>6, <1>8 DEF SessionInv, FailsInLoop, StatusFollows, NoOutcomes, NoFailures, Quiet, Plain
<1>17. WakeupsComing'
  <2>1. Asleep' <=> Asleep
    BY <1>1, <1>5, <1>6 DEF Asleep
  <2> QED BY <1>1, <1>6, <2>1 DEF SessionInv, WakeupsComing
<1>18. (NoOutcomes \/ NoFailures => OneEndPerTurn') /\ (Quiet \/ Plain => StatusIsProjection')
  BY <1>1, <1>6 DEF SessionInv, OneEndPerTurn, StatusIsProjection
<1> QED BY <1>9, <1>10, <1>11, <1>12, <1>13, <1>14, <1>15, <1>16, <1>17, <1>18
        DEF SessionInv, NoOutcomes, NoFailures, Quiet, Plain

\* An interrupt of an idle Session, or of one that waits for its client, is
\* acknowledged without an event.
LEMMA AcknowledgeStep ==
    ASSUME SessionInv, CompleteTurn, Acking, ~AlreadyCompleted(turn.trigger) PROVE SessionInv'
<1>1. /\ pc = "finish" /\ pc \in TurnPcs /\ pc' = "reply" /\ pc' \in TurnPcs /\ pc' \in Pcs /\ Commit
      /\ inputs' = inputs /\ fast' = fast /\ relay' = relay /\ cursor' = cursor /\ batch' = batch
      /\ barrier' = barrier /\ signals' = signals /\ lost' = lost
  BY DEF CompleteTurn, delivery, TurnPcs, Pcs
<1>2. /\ turn \in TurnType /\ turn.ask = "ack" /\ turn.trigger \in Seqs /\ turn.trigger \in Nat /\ turn.trigger # 0
      /\ log[turn.trigger].type = "interrupt" /\ turn.res = {} /\ turn.acts = <<>>
      /\ batch # <<>> => turn.trigger = cursor + 1 /\ DOMAIN pending = {}
  BY <1>1, Numbered DEF SessionInv, TurnSubject, SessionTyped, Acking
<1>3. /\ SessionTyped /\ Seqs = 1..Len(log) /\ pending \in [DOMAIN pending -> Seqs \cup {0}]
      /\ processed \subseteq Seqs /\ log \in Seq(EventType)
  BY Numbered DEF SessionInv, SessionTyped, IsRows
<1>4. turn.trigger \notin processed /\ turn.trigger \notin Claims(pending) /\ outcome # turn.trigger
  <2>1. turn.trigger \notin Claims(pending)
    BY <1>2, ClaimsAreResolutions DEF SessionInv, ResolutionTypes
  <2>2. outcome # turn.trigger
    BY <1>2 DEF SessionInv, LedgerTyped
  <2> QED BY <2>1, <2>2 DEF AlreadyCompleted
<1>5. turn.trigger \in Interrupts /\ status # "terminated" /\ status # "rescheduling"
  <2>1. turn.trigger \in Interrupts
    BY <1>2, <1>4 DEF Interrupts, Unprocessed
  <2> QED BY <1>1, <1>2, <2>1 DEF SessionInv, TerminationStands, StatusFollows
<1>6. InterruptOf(turn.trigger) = 0 /\ Unresolved = pending /\ AnsweredBy(turn.trigger) = {turn.trigger}
  BY <1>2 DEF InterruptOf, Unresolved, AnsweredBy
<1>7. PICK reopen \in BOOLEAN : reopen = (DOMAIN pending = {} /\ Waiting(turn.trigger) # {})
  OBVIOUS
<1>8. /\ log' = log /\ processed' = processed \cup {turn.trigger}
      /\ status' = IF reopen THEN "running" ELSE "idle"
      /\ pending' = pending /\ outcome' = outcome /\ outbox' = outbox
      /\ turn' = [turn EXCEPT !.committed = TRUE, !.disposition = "completed"]
  <2> DEFINE t         == turn.trigger
             i         == InterruptOf(t)
             acts      == IF i # 0 THEN <<>> ELSE turn.acts
             gated     == DOMAIN Unresolved # {} \/ acts # <<>>
             exhausted == i = 0 /\ turn.ask = "exhausted"
             asked     == IF i = 0 /\ turn.ask = "fail" THEN "terminated" ELSE "idle"
             reopens   == asked = "idle" /\ ~gated /\ ~exhausted /\ Waiting(t) # {}
             reason    == IF gated THEN "requires_action"
                          ELSE IF exhausted THEN "retries_exhausted" ELSE "end_turn"
             asks      == [k \in DOMAIN acts |-> Event(acts[k], t, "none")]
             new       == (Len(log) + 1) .. (Len(log) + Len(acts))
  <2>1. /\ log' = log \o asks \o Terminal(t, i, asked, reopens, reason)
        /\ processed' = processed \cup AnsweredBy(t) \cup ({i} \ {0})
                          \cup (IF exhausted THEN Waiting(t) ELSE {})
        /\ status' = IF reopens THEN "running" ELSE asked
        /\ pending' = [a \in DOMAIN Unresolved \cup new |->
                         IF a \in new THEN 0 ELSE Unresolved[a]]
        /\ outcome' = IF outcome = t /\ (i # 0 \/ turn.graded) THEN 0 ELSE outcome
        /\ outbox' = IF turn.res # {} /\ reopens THEN Len(log') ELSE outbox
        /\ turn' = [turn EXCEPT !.committed = TRUE, !.disposition =
                      IF status' = "terminated" THEN "terminated"
                      ELSE IF acts # <<>> THEN "parked" ELSE "completed"]
    BY <1>1 DEF Commit
  <2>2. /\ i = 0 /\ acts = <<>> /\ ~exhausted /\ asked = "idle"
    BY <1>2, <1>6
  <2>3. Terminal(t, i, asked, reopens, reason) = <<>>
    BY <1>2 DEF Terminal
  <2>4. asks = <<>>
    <3>1. acts = <<>>
      BY <2>2
    <3>2. \A f : f = <<>> => [k \in DOMAIN f |-> Event(f[k], t, "none")] = <<>>
      OBVIOUS
    <3> QED BY <3>1, <3>2
  <2>5. log \o <<>> \o <<>> = log
    BY <1>3, ConcatEmptySeq
  <2>6. new = {}
    <3>1. Len(acts) = 0 /\ Len(log) \in Nat
      BY <1>3, <2>2
    <3> HIDE DEF acts
    <3> QED BY <3>1
  <2>7. reopens = reopen
    BY <1>6, <1>7, <2>2
  <2>8. pending' = pending
    <3> HIDE DEF new
    <3>1. pending' = [a \in DOMAIN pending |-> pending[a]]
      BY <1>6, <2>1, <2>6
    <3> QED BY <1>3, <3>1
  <2> HIDE DEF i, acts, exhausted, asked, reopens, reason, asks, new, gated
  <2>9. /\ log' = log /\ processed' = processed \cup {turn.trigger}
        /\ status' = IF reopen THEN "running" ELSE "idle"
        /\ outcome' = outcome /\ outbox' = outbox
    BY <1>2, <1>4, <1>6, <2>1, <2>2, <2>3, <2>4, <2>5, <2>7
  <2>10. turn' = [turn EXCEPT !.committed = TRUE, !.disposition = "completed"]
    BY <2>1, <2>2, <2>9
  <2> QED BY <2>8, <2>9, <2>10
<1>9. turn' \in TurnType
  BY <1>2, <1>8 DEF TurnType
<1>10. /\ turn'.trigger = turn.trigger /\ turn'.res = {} /\ turn'.committed
       /\ turn'.ask = "ack" /\ turn'.acts = <<>> /\ turn'.keyed = turn.keyed
  BY <1>2, <1>8 DEF TurnType
<1>11. /\ Seqs' = Seqs /\ Interrupts' \subseteq Interrupts /\ Claims(pending)' = Claims(pending)
       /\ Unprocessed({"message"})' = Unprocessed({"message"})
       /\ Unprocessed({"message", "interrupt"})' \subseteq Unprocessed({"message", "interrupt"})
       /\ Range(pending)' = Range(pending) /\ Acking' /\ Waiting(turn.trigger) = Unprocessed({"message"})
  BY <1>2, <1>8, <1>10 DEF Seqs, Interrupts, Unprocessed, Claims, Range, Acking, Waiting
<1>12. SessionTyped'
  <2>1. processed' \subseteq Seqs' /\ status' \in {"idle", "running", "rescheduling", "terminated"}
    BY <1>2, <1>3, <1>8, <1>11
  <2> QED BY <1>1, <1>8, <1>9, <2>1 DEF SessionInv, SessionTyped, IsRows, Seqs
<1>13. LedgerTyped' /\ CursorBehind' /\ IdleIsDrained'
  BY <1>1, <1>7, <1>8, <1>11 DEF SessionInv, LedgerTyped, CursorBehind, IdleIsDrained
<1>14. BatchFollows' /\ BarrierRead'
  BY <1>1, <1>8 DEF SessionInv, BatchFollows, BarrierRead
<1>15. TurnSubject'
  BY <1>1, <1>2, <1>8, <1>10, <1>11 DEF TurnSubject
<1>16. TurnProgress'
  BY <1>1, <1>4, <1>8, <1>10, <1>11 DEF TurnProgress
<1>17. DispositionTrue' /\ FailsInLoop'
  BY <1>1, <1>8, <1>10, <1>11 DEF SessionInv, DispositionTrue, FailsInLoop, NoOutcomes, NoFailures
<1>18. TerminationStands'
  BY <1>1, <1>8, <1>10 DEF TerminationStands
<1>19. EndsAreEnds'
  <2>1. ASSUME NEW s \in Seqs
        PROVE /\ log[s].reason # "none" => log[s].type = "idle" /\ log[s].turn # 0
              /\ IsEnd(s) => /\ log[s].turn \in processed' /\ log[s].turn \notin Claims(pending)
                             /\ log[log[s].turn].type = "outcome" => log[s].turn <= cursor
    <3>1. /\ log[s].reason # "none" => log[s].type = "idle" /\ log[s].turn # 0
          /\ IsEnd(s) => /\ log[s].turn \in processed /\ log[s].turn \notin Claims(pending)
                         /\ log[log[s].turn].type = "outcome" /\ status # "terminated" =>
                              log[s].turn <= cursor \/ (turn.committed /\ turn.trigger = log[s].turn)
      BY <2>1 DEF SessionInv, EndsAreEnds
    <3> QED BY <1>2, <1>5, <1>8, <3>1
  <2>2. \A s \in Seqs : IsEnd(s)' <=> IsEnd(s)
    BY <1>8 DEF IsEnd
  <2> QED BY <1>1, <1>8, <1>11, <2>1, <2>2 DEF EndsAreEnds
<1>20. WakeupsComing'
  BY <1>1, <1>11 DEF WakeupsComing, Asleep
<1>21. ~Quiet
  BY <1>2 DEF SessionInv, StatusFollows
<1>22. Plain => status' = status
  <2> SUFFICES ASSUME Plain PROVE status' = status
    OBVIOUS
  <2>1. DOMAIN pending = {} /\ (status \in {"running", "rescheduling"} => Unprocessed({"message"}) # {})
    BY DEF SessionInv, StatusFollows
  <2>2. status = "idle" => Unprocessed({"message"}) = {}
    BY <2>1 DEF SessionInv, IdleIsDrained
  <2>3. status \in {"idle", "running"}
    BY <1>3, <1>5 DEF SessionTyped
  <2> QED BY <1>7, <1>8, <1>11, <2>1, <2>2, <2>3
<1>23. StatusFollows'
  <2>1. Plain => /\ DOMAIN pending' = {} /\ turn'.acts = <<>>
                 /\ status' \in {"running", "rescheduling"} => Unprocessed({"message"})' # {}
    BY <1>8, <1>10, <1>11, <1>22 DEF SessionInv, StatusFollows
  <2>2. status' # "rescheduling" /\ pc' = "reply"
    BY <1>1, <1>8
  <2> QED BY <1>21, <2>1, <2>2 DEF StatusFollows, Quiet, Plain, NoOutcomes
<1>24. (NoOutcomes \/ NoFailures => OneEndPerTurn') /\ (Quiet \/ Plain => StatusIsProjection')
  BY <1>8, <1>11, <1>21, <1>22 DEF SessionInv, OneEndPerTurn, StatusIsProjection
<1> QED BY <1>12, <1>13, <1>14, <1>15, <1>16, <1>17, <1>18, <1>19, <1>20, <1>23, <1>24
        DEF SessionInv, NoOutcomes, NoFailures, Quiet, Plain

\* A turn at its completion: what it is about, and whether it may have ended
\* before.
LEMMA Completing ==
    ASSUME SessionInv, pc = "finish", ~Acking, ~AlreadyCompleted(turn.trigger)
    PROVE  /\ turn \in TurnType /\ turn.trigger \in Seqs /\ turn.trigger \in Nat /\ turn.trigger # 0
           /\ turn.ask \in {"end", "exhausted", "fail"} /\ turn.res \subseteq Seqs
           /\ turn.acts # <<>> => turn.ask = "end" /\ turn.keyed
           /\ log[turn.trigger].type \in TriggerTypes \cup ResolutionTypes
           /\ InterruptOf(turn.trigger) = 0 => Interrupts = {}
           /\ InterruptOf(turn.trigger) # 0 => InterruptOf(turn.trigger) \in Interrupts
           /\ status = "terminated" => turn.ask = "fail" /\ Interrupts = {}
           /\ turn.committed /\ ~turn.keyed =>
                /\ turn.ask = "fail" /\ status = "terminated" /\ outcome = turn.trigger /\ turn.res = {}
                /\ ~NoOutcomes /\ ~NoFailures
           /\ ~turn.committed =>
                /\ DOMAIN Unresolved = {}
                /\ turn.trigger \in AnsweredBy(turn.trigger) /\ AnsweredBy(turn.trigger) \subseteq Seqs
                /\ \A s \in AnsweredBy(turn.trigger) : s = turn.trigger \/ log[s].type \in ResolutionTypes
                /\ status # "terminated" \/ NoOutcomes \/ NoFailures =>
                     \A s \in Seqs : IsEnd(s) => log[s].turn # turn.trigger
<1>1. /\ SessionTyped /\ Seqs = 1..Len(log) /\ Len(log) \in Nat /\ turn \in TurnType /\ cursor \in Nat
      /\ pc \in TurnPcs /\ pending \in [DOMAIN pending -> Seqs \cup {0}]
  BY Numbered DEF SessionInv, SessionTyped, TurnPcs, IsRows
<1>2. /\ turn.trigger \in Seqs /\ turn.res \subseteq Seqs
      /\ batch # <<>> => turn.trigger = cursor + 1
      /\ batch # <<>> => turn.res = {} /\ log[turn.trigger].type \in TriggerTypes
      /\ batch = <<>> => /\ turn.trigger \in turn.res /\ 0 \notin turn.res
                         /\ log[turn.trigger].type \in ResolutionTypes
      /\ ~turn.committed /\ batch = <<>> => Range(pending) = turn.res
      /\ ~turn.committed /\ batch # <<>> => DOMAIN pending = {}
      /\ \A i \in Interrupts : i > turn.trigger
  BY <1>1 DEF SessionInv, TurnSubject
<1>3. /\ turn.ask \in {"end", "exhausted", "fail"}
      /\ turn.committed => turn.trigger \in processed /\ turn.trigger \notin Claims(pending)
      /\ turn.acts # <<>> => turn.ask \in {"none", "end"} /\ turn.keyed
      /\ turn.committed /\ ~turn.keyed /\ outcome = turn.trigger =>
             turn.ask = "fail" /\ status = "terminated"
  BY <1>1 DEF SessionInv, TurnProgress, TurnType, Acking
<1>4. turn.trigger \in Nat /\ turn.trigger # 0
  BY <1>1, <1>2
<1>5. log[turn.trigger].type \in TriggerTypes \cup ResolutionTypes
  BY <1>2
<1>6. /\ InterruptOf(turn.trigger) = 0 => Interrupts = {}
      /\ InterruptOf(turn.trigger) # 0 => InterruptOf(turn.trigger) \in Interrupts
  <2>1. InterruptOf(turn.trigger) = InterruptAfter(turn.trigger)
    BY <1>5 DEF InterruptOf, TriggerTypes, ResolutionTypes
  <2>2. \/ InterruptAfter(turn.trigger) = 0 /\ \A j \in Interrupts : j <= turn.trigger
        \/ InterruptAfter(turn.trigger) \in Interrupts /\ InterruptAfter(turn.trigger) # 0
    BY <1>1, <1>4, InterruptAfterFacts
  <2>3. (\A j \in Interrupts : j <= turn.trigger) => Interrupts = {}
    <3>1. Interrupts \subseteq Nat
      BY <1>1 DEF Interrupts, Unprocessed
    <3> QED BY <1>2, <1>4, <3>1
  <2> QED BY <2>1, <2>2, <2>3
<1>7. status = "terminated" => turn.ask = "fail" /\ Interrupts = {}
  BY <1>3 DEF SessionInv, TerminationStands
<1>8. ASSUME turn.committed, ~turn.keyed
      PROVE  /\ turn.ask = "fail" /\ status = "terminated" /\ outcome = turn.trigger /\ turn.res = {}
             /\ ~NoOutcomes /\ ~NoFailures
  <2>1. outcome = turn.trigger
    BY <1>3, <1>8 DEF AlreadyCompleted
  <2>2. log[turn.trigger].type = "outcome"
    BY <1>4, <2>1 DEF SessionInv, LedgerTyped
  <2>3. turn.res = {}
    BY <1>2, <2>2 DEF ResolutionTypes
  <2>4. ~NoOutcomes
    BY <1>4, <2>1 DEF SessionInv, FailsInLoop
  <2>5. ~NoFailures
    BY <1>3, <1>8, <2>1 DEF SessionInv, FailsInLoop
  <2> QED BY <1>3, <1>8, <2>1, <2>3, <2>4, <2>5
<1>9. ASSUME ~turn.committed
      PROVE  /\ DOMAIN Unresolved = {}
             /\ turn.trigger \in AnsweredBy(turn.trigger) /\ AnsweredBy(turn.trigger) \subseteq Seqs
             /\ \A s \in AnsweredBy(turn.trigger) : s = turn.trigger \/ log[s].type \in ResolutionTypes
  <2>1. CASE batch = <<>>
    <3>1. turn.res # {} /\ Unresolved = NoRows /\ AnsweredBy(turn.trigger) = turn.res
      BY <1>2, <2>1 DEF Unresolved, AnsweredBy
    <3>2. turn.res \subseteq Claims(pending)
      BY <1>2, <1>9, <2>1 DEF Claims
    <3>3. \A c \in Claims(pending) : log[c].type \in ResolutionTypes
      BY ClaimsAreResolutions DEF SessionInv
    <3> QED BY <1>2, <2>1, <3>1, <3>2, <3>3 DEF NoRows
  <2>2. CASE batch # <<>>
    BY <1>2, <1>9, <2>2 DEF Unresolved, AnsweredBy
  <2> QED BY <2>1, <2>2
<1>10. ASSUME ~turn.committed, status # "terminated" \/ NoOutcomes \/ NoFailures,
              NEW s \in Seqs, IsEnd(s), log[s].turn = turn.trigger
       PROVE  FALSE
  <2>1. /\ turn.trigger \in processed /\ turn.trigger \notin Claims(pending)
        /\ log[turn.trigger].type = "outcome" /\ status # "terminated" => turn.trigger <= cursor
    BY <1>10 DEF SessionInv, EndsAreEnds
  <2>2. outcome = turn.trigger
    BY <2>1 DEF AlreadyCompleted
  <2>3. log[turn.trigger].type = "outcome"
    BY <1>4, <2>2 DEF SessionInv, LedgerTyped
  <2>4. turn.trigger = cursor + 1
    BY <1>2, <2>3 DEF ResolutionTypes
  <2>5. status = "terminated"
    BY <1>1, <2>1, <2>3, <2>4
  <2>6. ~NoOutcomes
    BY <1>4, <2>2 DEF SessionInv, FailsInLoop
  <2>7. ~NoFailures
    BY <1>7, <1>10, <2>5 DEF SessionInv, FailsInLoop
  <2> QED BY <1>10, <2>5, <2>6, <2>7
<1> QED BY <1>1, <1>2, <1>3, <1>4, <1>5, <1>6, <1>7, <1>8, <1>9, <1>10

\* what a turn that asks for acts says of the idle it leaves
EndReason(acts) ==
    IF acts # <<>> THEN "requires_action"
    ELSE IF InterruptOf(turn.trigger) = 0 /\ turn.ask = "exhausted" THEN "retries_exhausted" ELSE "end_turn"

\* what the first commit of a turn does: acts are the actions it asks for,
\* new the events it appends
Completion(acts, new) ==
    /\ acts \in Seq(ActionTypes)
    /\ acts # <<>> => acts = turn.acts /\ InterruptOf(turn.trigger) = 0
    /\ acts = <<>> => turn.acts = <<>> \/ InterruptOf(turn.trigger) # 0
    /\ new \in Seq(EventType) /\ log' = log \o new
    /\ \A k \in 1..Len(new) :
         /\ new[k].turn = turn.trigger
         /\ new[k].type \in ActionTypes \cup {"idle", "terminated", "running"}
         /\ new[k].type \in EndTypes => k = Len(acts) + 1
         /\ new[k].reason # "none" => new[k].type = "idle"
         /\ new[k].reason = "requires_action" => acts # <<>>
         /\ new[k].type = "idle" => new[k].reason = EndReason(acts)
    /\ acts # <<>> => \E k \in 1..Len(new) : new[k].reason = "requires_action"
    /\ pending' \in [{Len(log) + k : k \in 1..Len(acts)} -> {0}]
    /\ {Len(log) + k : k \in 1..Len(acts)} \subseteq Seqs'
    /\ processed' = processed \cup AnsweredBy(turn.trigger) \cup ({InterruptOf(turn.trigger)} \ {0})
                      \cup IF InterruptOf(turn.trigger) = 0 /\ turn.ask = "exhausted"
                             THEN Waiting(turn.trigger) ELSE {}
    /\ status' \in {"idle", "running", "terminated"}
    /\ status' = "terminated" <=> InterruptOf(turn.trigger) = 0 /\ turn.ask = "fail"
    /\ status' = "running" => /\ acts = <<>> /\ Waiting(turn.trigger) # {}
                              /\ InterruptOf(turn.trigger) # 0 \/ turn.ask = "end"
    /\ status' = "idle" /\ acts = <<>> =>
         \/ Waiting(turn.trigger) = {}
         \/ InterruptOf(turn.trigger) = 0 /\ turn.ask = "exhausted"
    /\ \/ \E k \in 1..Len(new) : /\ new[k].type \in StatusTypes /\ status' = Shown(new[k].type)
                                 /\ \A j \in 1..Len(new) : new[j].type \in StatusTypes => j <= k
       \/ /\ status' = "running" /\ InterruptOf(turn.trigger) = 0
          /\ \A k \in 1..Len(new) : new[k].type \notin StatusTypes
    /\ outcome' = outcome \/ (outcome = turn.trigger /\ outcome' = 0)
    /\ outcome = turn.trigger /\ InterruptOf(turn.trigger) # 0 => outcome' = 0
    /\ outbox' \in {outbox, Len(log')}
    /\ turn' \in TurnType /\ turn'.trigger = turn.trigger /\ turn'.res = turn.res /\ turn'.ask = turn.ask
    /\ turn'.acts = turn.acts /\ turn'.keyed = turn.keyed /\ turn'.committed
    /\ turn'.disposition = IF status' = "terminated" THEN "terminated"
                           ELSE IF acts # <<>> THEN "parked" ELSE "completed"

\* An event of a turn has its fields.
LEMMA EventFacts ==
    ASSUME NEW type \in EventTypes, NEW t \in Nat, NEW reason \in Reasons
    PROVE  /\ Event(type, t, reason) \in EventType /\ Event(type, t, reason).type = type
           /\ Event(type, t, reason).turn = t /\ Event(type, t, reason).reason = reason
BY DEF Event, EventType

\* the events T that end turn t
Closing(T, t, i, asked, reopen, reason) ==
    /\ T \in Seq(EventType)
    /\ \A k \in 1..Len(T) :
         /\ T[k].turn = t
         /\ \/ k = 1 /\ T[k].type = "idle" /\ T[k].reason = reason
            \/ k = 1 /\ T[k].type = "terminated" /\ T[k].reason = "none"
            \/ k = 2 /\ T[k].type = "running" /\ T[k].reason = "none"
    /\ \/ Len(T) = 0 /\ i = 0 /\ reopen
       \/ Len(T) = 1 /\ ~reopen /\ T[1].type = asked /\ (asked = "idle" => T[1].reason = reason)
       \/ Len(T) = 2 /\ reopen /\ T[2].type = "running"

\* The status events that end a turn, an acknowledgement apart: an end, an end
\* and a new start, or none.
LEMMA TerminalFacts ==
    ASSUME turn.ask # "ack", NEW t \in Nat, NEW i \in Nat, NEW asked \in {"idle", "terminated"},
           NEW reopen \in BOOLEAN, NEW reason \in Reasons \ {"none"}, i # 0 => asked = "idle",
           reopen => asked = "idle", NEW T, T = Terminal(t, i, asked, reopen, reason)
    PROVE  Closing(T, t, i, asked, reopen, reason)
<1> USE DEF Closing
<1>1. /\ "idle" \in EventTypes /\ "running" \in EventTypes /\ "terminated" \in EventTypes
      /\ "none" \in Reasons /\ reason \in Reasons
  BY DEF EventTypes, StatusTypes, Reasons
<1>2. PICK e \in EventType : e = Event("idle", t, reason) /\ e.type = "idle" /\ e.turn = t /\ e.reason = reason
  BY <1>1, EventFacts
<1>3. PICK r \in EventType : r = Event("running", t, "none") /\ r.type = "running" /\ r.turn = t /\ r.reason = "none"
  BY <1>1, EventFacts
<1>4. PICK x \in EventType : x = Event("terminated", t, "none") /\ x.type = "terminated" /\ x.turn = t /\ x.reason = "none"
  BY <1>1, EventFacts
<1>5. /\ <<e>> \in Seq(EventType) /\ <<r>> \in Seq(EventType) /\ <<x>> \in Seq(EventType)
      /\ Len(<<e>>) = 1 /\ Len(<<r>>) = 1 /\ Len(<<x>>) = 1
      /\ <<e>>[1] = e /\ <<r>>[1] = r /\ <<x>>[1] = x
  OBVIOUS
<1>6. \/ T = <<>> /\ i = 0 /\ reopen
      \/ T = <<e>> /\ ~reopen /\ asked = "idle"
      \/ T = <<x>> /\ ~reopen /\ asked = "terminated"
      \/ T = <<e>> \o <<r>> /\ reopen
  <2>1. <<e>> \o <<>> = <<e>>
    BY <1>5, ConcatEmptySeq
  <2>2. CASE i # 0 /\ reopen
    BY <1>2, <1>3, <2>2 DEF Terminal
  <2>3. CASE i # 0 /\ ~reopen
    BY <1>2, <2>1, <2>3 DEF Terminal
  <2>4. CASE i = 0
    BY <1>2, <1>4, <2>4 DEF Terminal
  <2> QED BY <2>2, <2>3, <2>4
<1>7. CASE T = <<>> /\ i = 0 /\ reopen
  <2>1. T \in Seq(EventType) /\ Len(T) = 0
    BY <1>7, EmptySeq
  <2>2. \A k \in 1..Len(T) : FALSE
    BY <2>1
  <2> QED BY <1>7, <2>1, <2>2
<1>8. CASE T = <<e>> /\ ~reopen /\ asked = "idle"
  <2>1. T \in Seq(EventType) /\ Len(T) = 1 /\ T[1] = e /\ \A k \in 1..Len(T) : k = 1
    BY <1>5, <1>8
  <2> QED BY <1>2, <1>8, <2>1
<1>9. CASE T = <<x>> /\ ~reopen /\ asked = "terminated"
  <2>1. T \in Seq(EventType) /\ Len(T) = 1 /\ T[1] = x /\ \A k \in 1..Len(T) : k = 1
    BY <1>5, <1>9
  <2> QED BY <1>4, <1>9, <2>1
<1>10. CASE T = <<e>> \o <<r>> /\ reopen
  <2>1. PICK f \in Seq(EventType), g \in Seq(EventType) :
          f = <<e>> /\ g = <<r>> /\ Len(f) = 1 /\ Len(g) = 1 /\ f[1] = e /\ g[1] = r
    BY <1>5
  <2>2. T = f \o g
    BY <1>10, <2>1
  <2>3. /\ T \in Seq(EventType) /\ Len(T) = Len(f) + Len(g)
        /\ \A k \in 1..Len(f) : T[k] = f[k]
        /\ \A k \in 1..Len(g) : T[Len(f) + k] = g[k]
    BY <2>2, Concat
  <2>4. Len(T) = 2 /\ T[1] = e /\ T[2] = r
    <3>1. 1 \in 1..Len(f) /\ 1 \in 1..Len(g) /\ Len(f) + 1 = 2
      BY <2>1
    <3> QED BY <2>1, <2>3, <3>1
  <2>5. \A k \in 1..Len(T) : k = 1 \/ k = 2
    BY <2>4
  <2> QED BY <1>2, <1>3, <1>10, <2>3, <2>4, <2>5
<1> QED BY <1>6, <1>7, <1>8, <1>9, <1>10

\* What Commit does, the first time and for other turns than an acknowledgement.
LEMMA Commits ==
    ASSUME SessionInv, pc = "finish", ~Acking, ~turn.committed, ~AlreadyCompleted(turn.trigger), Commit
    PROVE  \E acts, new : Completion(acts, new)
<1> DEFINE tr        == turn.trigger
           in        == InterruptOf(tr)
           ac        == IF in # 0 THEN <<>> ELSE turn.acts
           gated     == DOMAIN Unresolved # {} \/ ac # <<>>
           exhausted == in = 0 /\ turn.ask = "exhausted"
           asked     == IF in = 0 /\ turn.ask = "fail" THEN "terminated" ELSE "idle"
           reopens   == asked = "idle" /\ ~gated /\ ~exhausted /\ Waiting(tr) # {}
           reason    == IF gated THEN "requires_action"
                        ELSE IF exhausted THEN "retries_exhausted" ELSE "end_turn"
           asks      == [k \in DOMAIN ac |-> Event(ac[k], tr, "none")]
           rows      == (Len(log) + 1) .. (Len(log) + Len(ac))
<1>1. /\ log' = log \o asks \o Terminal(tr, in, asked, reopens, reason)
      /\ processed' = processed \cup AnsweredBy(tr) \cup ({in} \ {0})
                        \cup (IF exhausted THEN Waiting(tr) ELSE {})
      /\ status' = IF reopens THEN "running" ELSE asked
      /\ pending' = [a \in DOMAIN Unresolved \cup rows |->
                       IF a \in rows THEN 0 ELSE Unresolved[a]]
      /\ outcome' = IF outcome = tr /\ (in # 0 \/ turn.graded) THEN 0 ELSE outcome
      /\ outbox' = IF turn.res # {} /\ reopens THEN Len(log') ELSE outbox
      /\ turn' = [turn EXCEPT !.committed = TRUE, !.disposition =
                    IF status' = "terminated" THEN "terminated"
                    ELSE IF ac # <<>> THEN "parked" ELSE "completed"]
  BY DEF Commit
<1>2. /\ turn \in TurnType /\ turn.trigger \in Seqs /\ turn.trigger \in Nat /\ turn.trigger # 0
      /\ turn.ask \in {"end", "exhausted", "fail"}
      /\ turn.acts # <<>> => turn.ask = "end"
      /\ DOMAIN Unresolved = {} /\ turn.acts \in Seq(ActionTypes)
  BY Completing DEF TurnType
<1>3. /\ log \in Seq(EventType) /\ Len(log) \in Nat /\ SessionTyped /\ Seqs = 1..Len(log)
  BY Numbered DEF SessionInv, SessionTyped
<1>4. PICK acts \in Seq(ActionTypes) : acts = ac
  BY <1>2, EmptySeq
<1>5. PICK i \in Nat : i = in
  <2>1. InterruptOf(turn.trigger) = 0 \/ InterruptOf(turn.trigger) \in Interrupts
    BY Completing
  <2>2. Interrupts \subseteq Nat
    BY <1>3 DEF Interrupts, Unprocessed
  <2> QED BY <2>1, <2>2
<1>6. PICK ex \in BOOLEAN : ex = exhausted
  OBVIOUS
<1>7. PICK ask \in {"idle", "terminated"} : ask = asked
  OBVIOUS
<1>8. PICK reopen \in BOOLEAN : reopen = reopens
  OBVIOUS
<1>9. PICK why \in Reasons \ {"none"} : why = reason /\ (why = "requires_action" <=> acts # <<>>)
                                     /\ why = EndReason(acts)
  BY <1>2, <1>4 DEF Reasons, EndReason
<1>10. /\ acts # <<>> => acts = turn.acts /\ i = 0
       /\ acts = <<>> => turn.acts = <<>> \/ i # 0
       /\ ex <=> i = 0 /\ turn.ask = "exhausted"
       /\ ask = IF i = 0 /\ turn.ask = "fail" THEN "terminated" ELSE "idle"
       /\ reopen <=> ask = "idle" /\ acts = <<>> /\ ~ex /\ Waiting(tr) # {}
  BY <1>2, <1>4, <1>5, <1>6, <1>7, <1>8
<1>11. \A k \in 1..Len(acts) : /\ Event(acts[k], turn.trigger, "none") \in EventType
                               /\ Event(acts[k], turn.trigger, "none").type = acts[k]
                               /\ Event(acts[k], turn.trigger, "none").turn = turn.trigger
                               /\ Event(acts[k], turn.trigger, "none").reason = "none"
                               /\ acts[k] \in ActionTypes
  <2>1. \A k \in 1..Len(acts) : acts[k] \in ActionTypes
    OBVIOUS
  <2>2. ActionTypes \subseteq EventTypes /\ "none" \in Reasons
    BY DEF EventTypes, Reasons
  <2> QED BY <1>2, <2>1, <2>2, EventFacts
<1>12. PICK A \in Seq(EventType) : /\ A = asks /\ Len(A) = Len(acts)
                                   /\ \A k \in 1..Len(acts) : A[k] = Event(acts[k], turn.trigger, "none")
  <2>1. asks = [k \in 1..Len(acts) |-> Event(acts[k], turn.trigger, "none")]
    BY <1>4
  <2>2. [k \in 1..Len(acts) |-> Event(acts[k], turn.trigger, "none")] \in Seq(EventType)
    BY <1>11
  <2>3. Len([k \in 1..Len(acts) |-> Event(acts[k], turn.trigger, "none")]) = Len(acts)
    OBVIOUS
  <2> HIDE DEF asks
  <2> QED BY <2>1, <2>2, <2>3
<1> HIDE DEF in, ac, gated, exhausted, asked, reopens, reason, asks
<1>13. PICK T \in Seq(EventType) :
         /\ T = Terminal(turn.trigger, i, ask, reopen, why)
         /\ \A k \in 1..Len(T) :
              /\ T[k].turn = turn.trigger
              /\ \/ k = 1 /\ T[k].type = "idle" /\ T[k].reason = why
                 \/ k = 1 /\ T[k].type = "terminated" /\ T[k].reason = "none"
                 \/ k = 2 /\ T[k].type = "running" /\ T[k].reason = "none"
         /\ \/ Len(T) = 0 /\ i = 0 /\ reopen
            \/ /\ Len(T) = 1 /\ ~reopen /\ T[1].type = ask /\ (ask = "idle" => T[1].reason = why)
            \/ /\ Len(T) = 2 /\ reopen /\ T[2].type = "running"
  <2>1. turn.ask # "ack" /\ (i # 0 => ask = "idle") /\ (reopen => ask = "idle")
    BY <1>10 DEF Acking
  <2>2. PICK T : T = Terminal(turn.trigger, i, ask, reopen, why)
    OBVIOUS
  <2>3. /\ T \in Seq(EventType)
        /\ \A k \in 1..Len(T) :
             /\ T[k].turn = turn.trigger
             /\ \/ k = 1 /\ T[k].type = "idle" /\ T[k].reason = why
                \/ k = 1 /\ T[k].type = "terminated" /\ T[k].reason = "none"
                \/ k = 2 /\ T[k].type = "running" /\ T[k].reason = "none"
        /\ \/ Len(T) = 0 /\ i = 0 /\ reopen
           \/ Len(T) = 1 /\ ~reopen /\ T[1].type = ask /\ (ask = "idle" => T[1].reason = why)
           \/ Len(T) = 2 /\ reopen /\ T[2].type = "running"
    <3>1. Closing(T, turn.trigger, i, ask, reopen, why)
      BY <1>2, <2>1, <2>2, TerminalFacts, Zenon
    <3> QED BY <3>1 DEF Closing
  <2> QED BY <2>2, <2>3
<1>14. log' = log \o (A \o T)
  <2>1. log' = (log \o A) \o T
    BY <1>1, <1>5, <1>7, <1>8, <1>9, <1>12, <1>13, Zenon
  <2>2. log \in Seq(EventType) /\ A \in Seq(EventType) /\ T \in Seq(EventType)
    BY <1>3
  <2>3. (log \o A) \o T = log \o (A \o T)
    BY <2>2, ConcatAssociative, SMT
  <2> QED BY <2>1, <2>3, Zenon
<1>15a. PICK new : new = A \o T
  OBVIOUS
<1>15. /\ new \in Seq(EventType) /\ Len(new) = Len(acts) + Len(T) /\ Len(T) \in Nat /\ Len(acts) \in Nat
       /\ \A k \in 1..Len(acts) : k \in 1..Len(new) /\ new[k] = A[k]
       /\ \A k \in 1..Len(T) : Len(acts) + k \in 1..Len(new) /\ new[Len(acts) + k] = T[k]
       /\ \A k \in 1..Len(new) : k \in 1..Len(acts) \/ \E j \in 1..Len(T) : k = Len(acts) + j
  <2>1. Len(A) = Len(acts)
    BY <1>12
  <2>2. /\ new \in Seq(EventType) /\ Len(new) = Len(A) + Len(T)
        /\ \A k \in 1..Len(A) : new[k] = A[k]
        /\ \A k \in 1..Len(T) : new[Len(A) + k] = T[k]
        /\ \A k \in 1..Len(new) : k \in 1..Len(A) \/ \E j \in 1..Len(T) : k = Len(A) + j
    BY <1>15a, Concat
  <2>3. Len(T) \in Nat /\ Len(acts) \in Nat
    OBVIOUS
  <2>4. \A k \in 1..Len(acts) : k \in 1..Len(new)
    BY <2>1, <2>2, <2>3
  <2>5. \A k \in 1..Len(T) : Len(acts) + k \in 1..Len(new)
    BY <2>1, <2>2, <2>3
  <2> QED BY <2>1, <2>2, <2>3, <2>4, <2>5
<1>16. /\ log' = log \o new /\ log' \in Seq(EventType) /\ Seqs' = 1..Len(log') /\ Len(log') = Len(log) + Len(new)
  <2>1. log' = log \o new
    BY <1>14, <1>15a
  <2> QED BY <1>3, <1>15, <2>1, Grown
<1>17. ASSUME NEW k \in 1..Len(new)
       PROVE  /\ new[k].turn = turn.trigger
              /\ new[k].type \in ActionTypes \cup {"idle", "terminated", "running"}
              /\ new[k].type \in EndTypes => k = Len(acts) + 1
              /\ new[k].reason # "none" => new[k].type = "idle"
              /\ new[k].reason = "requires_action" => acts # <<>>
              /\ new[k].type = "idle" => new[k].reason = why
              /\ k \in 1..Len(acts) => new[k].type \notin StatusTypes
  <2>1. CASE k \in 1..Len(acts)
    <3>1. /\ new[k].type \in ActionTypes /\ new[k].turn = turn.trigger /\ new[k].reason = "none"
      BY <1>11, <1>12, <1>15, <2>1
    <3> QED BY <3>1 DEF ActionTypes, EndTypes, StatusTypes
  <2>2. CASE \E j \in 1..Len(T) : k = Len(acts) + j
    <3>1. PICK j \in 1..Len(T) : k = Len(acts) + j /\ new[k] = T[j]
      BY <1>15, <2>2
    <3>2. k \notin 1..Len(acts)
      BY <1>15, <3>1
    <3> QED BY <1>9, <1>13, <3>1, <3>2 DEF EndTypes
  <2> QED BY <1>15, <2>1, <2>2
<1>18. ASSUME acts # <<>> PROVE \E k \in 1..Len(new) : new[k].reason = "requires_action"
  <2>1. ask = "idle" /\ ~reopen /\ Len(T) = 1 /\ T[1].reason = why
    BY <1>2, <1>10, <1>13, <1>18
  <2>2. Len(acts) + 1 \in 1..Len(new) /\ new[Len(acts) + 1] = T[1]
    BY <1>15, <2>1
  <2> QED BY <1>9, <1>18, <2>1, <2>2
<1>19. rows = {Len(log) + k : k \in 1..Len(acts)} /\ rows \subseteq Seqs'
  <2>1. rows = (Len(log) + 1) .. (Len(log) + Len(acts))
    BY <1>4
  <2>2. ASSUME NEW a \in rows PROVE a \in {Len(log) + k : k \in 1..Len(acts)} /\ a \in Seqs'
    <3>1. a - Len(log) \in 1..Len(acts) /\ a = Len(log) + (a - Len(log))
      BY <1>3, <1>15, <2>1, <2>2
    <3>2. a \in 1..Len(log')
      BY <1>3, <1>15, <1>16, <2>1, <2>2
    <3> QED BY <1>16, <3>1, <3>2
  <2>3. ASSUME NEW k \in 1..Len(acts) PROVE Len(log) + k \in rows
    BY <1>3, <1>15, <2>1, <2>3
  <2> HIDE DEF rows
  <2> QED BY <2>2, <2>3
<1> HIDE DEF rows
<1>20. pending' \in [{Len(log) + k : k \in 1..Len(acts)} -> {0}]
  <2>1. pending' = [a \in rows |-> IF a \in rows THEN 0 ELSE Unresolved[a]]
    BY <1>1, <1>2
  <2>2. pending' = [a \in rows |-> 0]
    BY <2>1
  <2> QED BY <1>19, <2>2
<1>21. processed' = processed \cup AnsweredBy(turn.trigger) \cup ({i} \ {0})
                      \cup IF i = 0 /\ turn.ask = "exhausted" THEN Waiting(turn.trigger) ELSE {}
  BY <1>1, <1>5, <1>6, <1>10
<1>22. status' = IF reopen THEN "running" ELSE ask
  BY <1>1, <1>7, <1>8
<1>23. \/ \E k \in 1..Len(new) : /\ new[k].type \in StatusTypes /\ status' = Shown(new[k].type)
                                 /\ \A j \in 1..Len(new) : new[j].type \in StatusTypes => j <= k
       \/ /\ status' = "running" /\ i = 0
          /\ \A k \in 1..Len(new) : new[k].type \notin StatusTypes
  <2>1. CASE Len(T) = 0
    <3>1. \A k \in 1..Len(new) : k \in 1..Len(acts)
      BY <1>15, <2>1
    <3> QED BY <1>13, <1>17, <1>22, <2>1, <3>1
  <2>2. CASE Len(T) # 0
    <3>1. PICK m \in 1..Len(new) : m = Len(new) /\ m = Len(acts) + Len(T) /\ new[m] = T[Len(T)]
      BY <1>15, <2>2
    <3>2. T[Len(T)].type \in {"idle", "running", "terminated"} /\ T[Len(T)].type = status'
      BY <1>13, <1>22, <2>2
    <3>3. \A j \in 1..Len(new) : j <= m
      BY <3>1
    <3>4. new[m].type \in StatusTypes /\ status' = Shown(new[m].type)
      BY <3>1, <3>2 DEF StatusTypes, Shown
    <3> QED BY <3>3, <3>4
  <2> QED BY <2>1, <2>2
<1>24. PICK d \in {"terminated", "parked", "completed"} :
         /\ d = IF status' = "terminated" THEN "terminated" ELSE IF acts # <<>> THEN "parked" ELSE "completed"
         /\ turn' = [turn EXCEPT !.committed = TRUE, !.disposition = d]
  BY <1>1, <1>4
<1>25. turn' \in TurnType
  BY <1>2, <1>24 DEF TurnType
<1>26. /\ turn'.trigger = turn.trigger /\ turn'.res = turn.res /\ turn'.ask = turn.ask
       /\ turn'.acts = turn.acts /\ turn'.keyed = turn.keyed /\ turn'.committed
       /\ turn'.disposition = d
  BY <1>2, <1>24 DEF TurnType
<1>27. /\ outcome' = outcome \/ (outcome = turn.trigger /\ outcome' = 0)
       /\ outcome = turn.trigger /\ i # 0 => outcome' = 0
       /\ outbox' \in {outbox, Len(log')}
  BY <1>1, <1>5
<1>28. i = InterruptOf(turn.trigger)
  BY <1>5 DEF in
<1>29. /\ status' \in {"idle", "running", "terminated"}
       /\ status' = "terminated" <=> i = 0 /\ turn.ask = "fail"
       /\ status' = "running" => acts = <<>> /\ Waiting(turn.trigger) # {} /\ (i # 0 \/ turn.ask = "end")
       /\ status' = "idle" /\ acts = <<>> => Waiting(turn.trigger) = {} \/ (i = 0 /\ turn.ask = "exhausted")
  BY <1>2, <1>10, <1>22
<1>30. Completion(acts, new)
  BY <1>9, <1>10, <1>16, <1>17, <1>18, <1>19, <1>20, <1>21, <1>23, <1>24, <1>25, <1>26, <1>27, <1>28, <1>29 DEF Completion
<1> QED BY <1>30

\* The first commit of a turn keeps the invariant.
LEMMA CompletionStep ==
    ASSUME SessionInv, pc = "finish", ~Acking, ~turn.committed, ~AlreadyCompleted(turn.trigger),
           NEW acts, NEW new, Completion(acts, new), pc' = "reply",
           UNCHANGED <<inputs, fast, relay, signals, lost, cursor, batch, barrier>>
    PROVE  SessionInv'
<1>1. /\ pc \in TurnPcs /\ pc' = "reply" /\ pc' \in TurnPcs /\ pc' \in Pcs
      /\ inputs' = inputs /\ fast' = fast /\ relay' = relay /\ cursor' = cursor /\ batch' = batch
      /\ barrier' = barrier /\ signals' = signals /\ lost' = lost
  BY DEF TurnPcs, Pcs
<1>2. PICK t : t = turn.trigger
  OBVIOUS
<1>3. PICK i : i = InterruptOf(turn.trigger)
  OBVIOUS
<1>4. /\ turn \in TurnType /\ t \in Seqs /\ t \in Nat /\ t # 0
      /\ turn.ask \in {"end", "exhausted", "fail"} /\ turn.res \subseteq Seqs
      /\ turn.acts # <<>> => turn.ask = "end" /\ turn.keyed
      /\ log[t].type \in TriggerTypes \cup ResolutionTypes
      /\ i = 0 => Interrupts = {}
      /\ i # 0 => i \in Interrupts
      /\ status = "terminated" => turn.ask = "fail" /\ Interrupts = {}
      /\ t \in AnsweredBy(t) /\ AnsweredBy(t) \subseteq Seqs
      /\ \A s \in AnsweredBy(t) : s = t \/ log[s].type \in ResolutionTypes
      /\ status # "terminated" \/ NoOutcomes \/ NoFailures => \A s \in Seqs : IsEnd(s) => log[s].turn # t
  BY <1>2, <1>3, Completing
<1>5. /\ SessionTyped /\ log \in Seq(EventType) /\ Seqs = 1..Len(log) /\ Len(log) \in Nat
      /\ processed \subseteq Seqs /\ outcome \in 0..Len(log) /\ outbox \in 0..Len(log) /\ cursor \in 0..Len(log)
      /\ \A r \in Relays : relay[r].seq \in Nat /\ relay[r].seq <= Len(log)
  BY Numbered DEF SessionInv, SessionTyped, RelayType
<1>6. /\ new \in Seq(EventType) /\ log' = log \o new /\ acts \in Seq(ActionTypes) /\ Len(acts) \in Nat
  <2>1. acts \in Seq(ActionTypes)
    BY DEF Completion
  <2> QED BY <2>1 DEF Completion
<1>7. /\ log' \in Seq(EventType) /\ Seqs' = 1..Len(log')
      /\ Len(new) \in Nat /\ Len(log') = Len(log) + Len(new)
      /\ Seqs \subseteq Seqs' /\ \A s \in Seqs : log'[s] = log[s]
      /\ \A k \in 1..Len(new) : log'[Len(log) + k] = new[k] /\ Len(log) + k \in Seqs' \ Seqs
      /\ \A s \in Seqs' : s \in Seqs \/ \E k \in 1..Len(new) : s = Len(log) + k
  BY <1>5, <1>6, Grown
<1>8. /\ \A k \in 1..Len(new) :
           /\ new[k].turn = t
           /\ new[k].type \in ActionTypes \cup {"idle", "terminated", "running"}
           /\ new[k].type \in EndTypes => k = Len(acts) + 1
           /\ new[k].reason # "none" => new[k].type = "idle"
           /\ new[k].reason = "requires_action" => acts # <<>>
      /\ acts # <<>> => \E k \in 1..Len(new) : new[k].reason = "requires_action"
  BY <1>2 DEF Completion
<1>9. \A s \in Seqs' \ Seqs :
        /\ log'[s].turn = t
        /\ log'[s].type \in ActionTypes \cup {"idle", "terminated", "running"}
        /\ log'[s].type \in EndTypes => s = Len(log) + Len(acts) + 1
        /\ log'[s].reason # "none" => log'[s].type = "idle"
        /\ log'[s].reason = "requires_action" => acts # <<>>
  <2> TAKE s \in Seqs' \ Seqs
  <2>1. PICK k \in 1..Len(new) : s = Len(log) + k /\ log'[s] = new[k]
    BY <1>7
  <2>2. k = Len(acts) + 1 => s = Len(log) + Len(acts) + 1
    BY <1>5, <1>6, <2>1
  <2>3. /\ new[k].turn = t
        /\ new[k].type \in ActionTypes \cup {"idle", "terminated", "running"}
        /\ new[k].type \in EndTypes => k = Len(acts) + 1
        /\ new[k].reason # "none" => new[k].type = "idle"
        /\ new[k].reason = "requires_action" => acts # <<>>
    BY <1>8
  <2> QED BY <2>1, <2>2, <2>3, Zenon
<1>10. /\ turn' \in TurnType /\ turn'.trigger = t /\ turn'.res = turn.res /\ turn'.ask = turn.ask
       /\ turn'.acts = turn.acts /\ turn'.keyed = turn.keyed /\ turn'.committed
       /\ turn'.disposition = IF status' = "terminated" THEN "terminated"
                              ELSE IF acts # <<>> THEN "parked" ELSE "completed"
  BY <1>2 DEF Completion
<1>11. ~Acking' /\ turn.ask # "ack"
  BY <1>4, <1>10 DEF Acking
<1>12. /\ pending' \in [{Len(log) + k : k \in 1..Len(acts)} -> {0}]
       /\ {Len(log) + k : k \in 1..Len(acts)} \subseteq Seqs'
  BY DEF Completion
<1>13. /\ DOMAIN pending' \subseteq Seqs' /\ pending' \in [DOMAIN pending' -> {0}]
       /\ Claims(pending)' = {} /\ (\A a \in DOMAIN pending' : pending'[a] = 0)
       /\ acts = <<>> => DOMAIN pending' = {}
       /\ DOMAIN pending' # {} => ~FullyClaimed(pending)' /\ acts # <<>>
  <2>1. DOMAIN pending' = {Len(log) + k : k \in 1..Len(acts)}
    BY <1>12
  <2>2. acts = <<>> => DOMAIN pending' = {}
    <3>1. acts = <<>> => Len(acts) = 0
      OBVIOUS
    <3>2. Len(acts) = 0 => \A k \in 1..Len(acts) : FALSE
      OBVIOUS
    <3> QED BY <2>1, <3>1, <3>2
  <2>3. \A a \in DOMAIN pending' : pending'[a] = 0
    BY <1>12, <2>1
  <2>4. Claims(pending)' = {}
    BY <2>3 DEF Claims, Range
  <2>5. DOMAIN pending' # {} => ~FullyClaimed(pending)'
    BY <2>3 DEF FullyClaimed, Range
  <2> QED BY <1>12, <2>1, <2>2, <2>3, <2>4, <2>5
<1>14. processed' = processed \cup AnsweredBy(t) \cup ({i} \ {0})
                      \cup IF i = 0 /\ turn.ask = "exhausted" THEN Waiting(t) ELSE {}
  BY <1>2, <1>3 DEF Completion
<1>15. Interrupts \subseteq Seqs /\ \A s \in Interrupts : log[s].type = "interrupt" /\ s \notin processed
  BY DEF Interrupts, Unprocessed
<1>16. Waiting(t) \subseteq Seqs /\ \A s \in Waiting(t) : log[s].type = "message" /\ s # t
  BY DEF Waiting, Unprocessed
<1>17. processed' \subseteq Seqs /\ processed \subseteq processed' /\ t \in processed'
  BY <1>4, <1>5, <1>14, <1>15, <1>16
<1>18. /\ Interrupts' \subseteq Interrupts
       /\ Unprocessed({"message", "interrupt"})' \subseteq Unprocessed({"message", "interrupt"})
       /\ Unprocessed({"message"})' \subseteq Unprocessed({"message"})
  <2>1. ASSUME NEW types \in SUBSET {"message", "interrupt"} PROVE Unprocessed(types)' \subseteq Unprocessed(types)
    <3>1. ASSUME NEW s \in Unprocessed(types)' PROVE s \in Unprocessed(types)
      <4>1. s \in Seqs' /\ log'[s].type \in types /\ s \notin processed'
        BY <3>1 DEF Unprocessed
      <4>2. s \in Seqs
        BY <1>9, <2>1, <4>1 DEF ActionTypes
      <4> QED BY <1>7, <1>17, <4>1, <4>2 DEF Unprocessed
    <3> QED BY <3>1
  <2>2. {"message"} \in SUBSET {"message", "interrupt"} /\ {"interrupt"} \in SUBSET {"message", "interrupt"}
    OBVIOUS
  <2> QED BY <2>1, <2>2 DEF Interrupts
<1>19. /\ Waiting(t) # {} /\ ~(i = 0 /\ turn.ask = "exhausted") => Unprocessed({"message"})' # {}
       /\ Waiting(t) = {} \/ (i = 0 /\ turn.ask = "exhausted") => Unprocessed({"message"})' = {}
  <2>1. ASSUME ~(i = 0 /\ turn.ask = "exhausted"), NEW s \in Waiting(t) PROVE s \in Unprocessed({"message"})'
    <3>1. s \in Seqs /\ log[s].type = "message" /\ s # t /\ s \notin processed
      BY <2>1 DEF Waiting, Unprocessed
    <3>2. s \notin AnsweredBy(t) /\ s # i
      <4>1. i # 0 => log[i].type = "interrupt"
        BY <1>4, <1>15
      <4>2. s # 0
        BY <1>5, <3>1
      <4> QED BY <1>4, <3>1, <4>1, <4>2 DEF ResolutionTypes
    <3>3. s \notin processed'
      BY <1>14, <2>1, <3>1, <3>2
    <3> QED BY <1>7, <3>1, <3>3 DEF Unprocessed
  <2>2. ASSUME Waiting(t) = {} \/ (i = 0 /\ turn.ask = "exhausted"), NEW s \in Unprocessed({"message"})' PROVE FALSE
    <3>1. s \in Unprocessed({"message"}) /\ s \notin processed'
      BY <1>18, <2>2 DEF Unprocessed
    <3>2. s # t
      BY <1>17, <3>1
    <3>3. s \in Waiting(t)
      BY <3>1, <3>2 DEF Waiting
    <3> QED BY <1>14, <2>2, <3>1, <3>3
  <2> QED BY <2>1, <2>2
<1>20. /\ status' \in {"idle", "running", "terminated"}
       /\ status' = "terminated" <=> i = 0 /\ turn.ask = "fail"
       /\ status' = "running" => acts = <<>> /\ Waiting(t) # {} /\ (i # 0 \/ turn.ask = "end")
       /\ status' = "idle" /\ acts = <<>> => Waiting(t) = {} \/ (i = 0 /\ turn.ask = "exhausted")
       /\ acts # <<>> => acts = turn.acts /\ i = 0
       /\ acts = <<>> => turn.acts = <<>> \/ i # 0
       /\ outcome' = outcome \/ (outcome = t /\ outcome' = 0)
       /\ outcome = t /\ i # 0 => outcome' = 0
       /\ outbox' \in {outbox, Len(log')}
  BY <1>2, <1>3 DEF Completion
<1>21. status = "terminated" => status' = "terminated"
  <2>1. status = "terminated" => i = 0
    BY <1>4
  <2> QED BY <1>4, <1>20, <2>1
<1>22. Parked(turn.trigger)' <=> \E s \in Seqs' : log'[s].turn = t /\ log'[s].reason = "requires_action"
  BY <1>10 DEF Parked
<1>23. acts # <<>> => Parked(turn.trigger)'
  BY <1>7, <1>8, <1>22
<1>24. acts = <<>> /\ status' # "terminated" => ~Parked(turn.trigger)'
  <2> SUFFICES ASSUME acts = <<>>, status' # "terminated", NEW s \in Seqs',
                      log'[s].turn = t, log'[s].reason = "requires_action"
               PROVE  FALSE
    BY <1>22
  <2>1. s \in Seqs /\ log[s].turn = t /\ log[s].reason = "requires_action"
    BY <1>7, <1>9
  <2>2. IsEnd(s)
    BY <2>1 DEF SessionInv, EndsAreEnds, IsEnd, EndTypes
  <2> QED BY <1>4, <1>21, <2>1, <2>2
<1>25. SessionTyped'
  <2>1. IsRows(barrier)'
    BY <1>1, <1>5, <1>7 DEF SessionTyped, IsRows
  <2>2. IsRows(pending)'
    BY <1>13 DEF IsRows
  <2>3. outcome' \in 0..Len(log') /\ outbox' \in 0..Len(log') /\ cursor' \in 0..Len(log')
    BY <1>1, <1>5, <1>7, <1>20
  <2>4. relay' \in [Relays -> RelayType] /\ \A r \in Relays : relay'[r].seq <= Len(log')
    <3>1. \A r \in Relays : relay[r].seq <= Len(log')
      BY <1>5, <1>7
    <3> QED BY <1>1, <1>5, <3>1 DEF SessionTyped
  <2>5. status' \in {"idle", "running", "rescheduling", "terminated"} /\ processed' \subseteq Seqs'
    BY <1>7, <1>17, <1>20
  <2> QED BY <1>1, <1>5, <1>7, <1>10, <2>1, <2>2, <2>3, <2>4, <2>5 DEF SessionTyped
<1>26. LedgerTyped'
  <2>1. outcome' # 0 => log'[outcome'].type = "outcome"
    BY <1>5, <1>7, <1>20 DEF SessionInv, LedgerTyped
  <2>2. ASSUME NEW s \in Seqs', log'[s].type = "outcome" PROVE s \in processed'
    <3>1. s \in Seqs
      BY <1>9, <2>2 DEF ActionTypes
    <3> QED BY <1>7, <1>17, <2>2, <3>1 DEF SessionInv, LedgerTyped
  <2> QED BY <1>13, <2>1, <2>2 DEF LedgerTyped
<1>27. BatchFollows' /\ BarrierRead' /\ CursorBehind'
  <2>1. cursor + Len(batch) <= Len(log) /\ cursor \in Nat /\ Len(batch) \in Nat
    BY <1>5 DEF SessionInv, SessionTyped, BatchFollows
  <2>2. cursor + Len(batch) <= Len(log')
    BY <1>5, <1>7, <2>1
  <2>3. BatchFollows'
    BY <1>1, <2>2 DEF SessionInv, BatchFollows
  <2>4. BarrierRead'
    BY <1>1 DEF BarrierRead
  <2> QED BY <1>1, <1>18, <2>3, <2>4 DEF SessionInv, CursorBehind
<1>28. TurnSubject'
  <2>1. /\ batch # <<>> => t = cursor + 1
        /\ batch # <<>> => turn.res = {} /\ log[t].type \in TriggerTypes
        /\ batch = <<>> => t \in turn.res /\ 0 \notin turn.res /\ log[t].type \in ResolutionTypes
        /\ \A j \in Interrupts : j > t
    BY <1>1, <1>2 DEF SessionInv, TurnSubject
  <2>2. DOMAIN pending' = {} \/ Parked(turn.trigger)'
    BY <1>13, <1>23
  <2>3. t \in Seqs' /\ turn.res \subseteq Seqs' /\ log'[t] = log[t]
    BY <1>4, <1>7
  <2> QED BY <1>1, <1>10, <1>11, <1>18, <2>1, <2>2, <2>3 DEF TurnSubject
<1>29. TurnProgress'
  <2>1. /\ turn.acts # <<>> => turn.ask \in {"none", "end"} /\ turn.keyed
        /\ turn.ask = "exhausted" => turn.keyed
        /\ turn.ask = "end" /\ ~turn.keyed => Interrupts # {}
    BY <1>1 DEF SessionInv, TurnProgress
  <2>2. ~turn.keyed /\ outcome' = t => turn.ask = "fail" /\ status' = "terminated"
    <3> SUFFICES ASSUME ~turn.keyed, outcome' = t PROVE turn.ask = "fail" /\ status' = "terminated"
      OBVIOUS
    <3>1. outcome = t /\ i = 0
      BY <1>4, <1>20
    <3>2. turn.ask = "fail"
      BY <1>4, <2>1, <3>1
    <3> QED BY <1>20, <3>1, <3>2
  <2> QED BY <1>1, <1>4, <1>10, <1>13, <1>17, <2>1, <2>2 DEF TurnProgress
<1>30. DispositionTrue'
  <2>1. acts # <<>> => status' # "terminated"
    BY <1>4, <1>20
  <2> QED BY <1>10, <1>23, <1>24, <2>1 DEF DispositionTrue
<1>31. TerminationStands'
  BY <1>1, <1>4, <1>10, <1>18, <1>20 DEF TerminationStands
<1>32. EndsAreEnds'
  <2>1. ASSUME NEW s \in Seqs'
        PROVE /\ log'[s].reason # "none" => log'[s].type = "idle" /\ log'[s].turn # 0
              /\ IsEnd(s)' => /\ log'[s].turn \in processed' /\ log'[s].turn \notin Claims(pending)'
                              /\ log'[log'[s].turn].type = "outcome" /\ status' # "terminated" =>
                                   log'[s].turn <= cursor' \/ (turn'.committed /\ turn'.trigger = log'[s].turn)
    <3>1. CASE s \in Seqs
      <4>1. log'[s] = log[s] /\ (IsEnd(s)' <=> IsEnd(s))
        BY <1>7, <3>1 DEF IsEnd
      <4>2. /\ log[s].reason # "none" => log[s].type = "idle" /\ log[s].turn # 0
            /\ IsEnd(s) => /\ log[s].turn \in processed
                           /\ log[log[s].turn].type = "outcome" /\ status # "terminated" => log[s].turn <= cursor
        BY <3>1 DEF SessionInv, EndsAreEnds
      <4>3. IsEnd(s) => log'[log[s].turn] = log[log[s].turn]
        BY <1>5, <1>7, <4>2
      <4> QED BY <1>1, <1>13, <1>17, <1>21, <4>1, <4>2, <4>3
    <3>2. CASE s \notin Seqs
      BY <1>4, <1>9, <1>10, <1>13, <1>17, <3>2
    <3> QED BY <3>1, <3>2
  <2> QED BY <2>1 DEF EndsAreEnds
<1>33. WakeupsComing'
  <2>1. Asleep' => Parked(turn.trigger)'
    BY <1>1 DEF Asleep
  <2>2. status' # "terminated" /\ Asleep' => acts # <<>>
    BY <1>24, <2>1
  <2>3. acts # <<>> => Interrupts' = {} /\ DOMAIN pending' # {} /\ ~FullyClaimed(pending)'
    <3>1. acts # <<>> => i = 0 /\ Interrupts = {}
      BY <1>4, <1>20
    <3>2. acts # <<>> => DOMAIN pending' # {}
      <4>1. acts # <<>> => 1 \in 1..Len(acts)
        BY <1>6
      <4> QED BY <1>12, <4>1
    <3> QED BY <1>13, <1>18, <3>1, <3>2
  <2>4. Runnable' => ~Asleep'
    BY <2>2, <2>3 DEF Runnable, Interrupts
  <2> QED BY <1>1, <2>4 DEF WakeupsComing
<1>34. IdleIsDrained'
  <2> SUFFICES ASSUME status' = "idle", DOMAIN pending' = {} PROVE Unprocessed({"message"})' = {}
    BY DEF IdleIsDrained
  <2>1. acts = <<>>
    <3>1. acts # <<>> => 1 \in 1..Len(acts)
      BY <1>6
    <3> QED BY <1>12, <3>1
  <2> QED BY <1>19, <1>20, <2>1
<1>35. FailsInLoop'
  <2>1. NoOutcomes => outcome' = 0
    BY <1>20 DEF SessionInv, FailsInLoop
  <2>2. NoFailures /\ turn.ask = "fail" => turn.keyed
    BY DEF SessionInv, FailsInLoop
  <2> QED BY <1>10, <2>1, <2>2 DEF FailsInLoop, NoOutcomes, NoFailures
<1>36. StatusFollows'
  <2>1. Quiet => Interrupts' = {} /\ \A s \in Seqs' : log'[s].type # "interrupt"
    <3>1. Quiet => \A s \in Seqs : log[s].type # "interrupt"
      BY DEF SessionInv, StatusFollows
    <3>2. Quiet => \A s \in Seqs' : log'[s].type # "interrupt"
      BY <1>7, <1>9, <3>1 DEF ActionTypes
    <3> QED BY <3>2 DEF Interrupts, Unprocessed
  <2>2. Plain => /\ DOMAIN pending' = {} /\ turn'.acts = <<>>
                 /\ status' \in {"running", "rescheduling"} => Unprocessed({"message"})' # {}
    <3>1. Plain => turn.acts = <<>>
      BY DEF SessionInv, StatusFollows
    <3>2. Plain => acts = <<>>
      BY <1>20, <3>1
    <3> QED BY <1>4, <1>10, <1>13, <1>19, <1>20, <3>1, <3>2
  <2>3. status' # "rescheduling"
    BY <1>20
  <2> QED BY <1>1, <2>1, <2>2, <2>3 DEF StatusFollows, Quiet, Plain, NoOutcomes
<1>37. NoOutcomes \/ NoFailures => OneEndPerTurn'
  <2> SUFFICES ASSUME NoOutcomes \/ NoFailures, NEW s \in Seqs', NEW u \in Seqs',
                      log'[s].type \in EndTypes, log'[s].turn # 0,
                      log'[u].type \in EndTypes, log'[u].turn = log'[s].turn
               PROVE  s = u
    BY DEF OneEndPerTurn, EndTypes
  <2>1. \A x \in Seqs : IsEnd(x) => log[x].turn # t
    BY <1>4
  <2>2. \A x \in Seqs : log'[x] = log[x]
    BY <1>7
  <2>3. CASE s \in Seqs /\ u \in Seqs
    BY <2>2, <2>3 DEF SessionInv, OneEndPerTurn, EndTypes
  <2>4. CASE s \in Seqs /\ u \notin Seqs
    BY <1>9, <2>1, <2>2, <2>4 DEF IsEnd
  <2>5. CASE s \notin Seqs /\ u \in Seqs
    BY <1>4, <1>9, <2>1, <2>2, <2>5 DEF IsEnd
  <2>6. CASE s \notin Seqs /\ u \notin Seqs
    BY <1>9, <2>6
  <2> QED BY <2>3, <2>4, <2>5, <2>6
<1>38. Quiet \/ Plain => StatusIsProjection'
  <2> SUFFICES ASSUME Quiet \/ Plain PROVE StatusIsProjection'
    OBVIOUS
  <2>1. StatusIsProjection
    BY DEF SessionInv
  <2>2. CASE \E k \in 1..Len(new) : /\ new[k].type \in StatusTypes /\ status' = Shown(new[k].type)
                                    /\ \A j \in 1..Len(new) : new[j].type \in StatusTypes => j <= k
    BY <1>5, <1>6, <2>2, ProjectionGrows
  <2>3. CASE /\ status' = "running" /\ i = 0
             /\ \A k \in 1..Len(new) : new[k].type \notin StatusTypes
    <3>1. turn.ask = "end" /\ Interrupts = {}
      BY <1>4, <1>20, <2>3
    <3>2. status = "running"
      BY <3>1 DEF SessionInv, StatusFollows
    <3> QED BY <1>5, <1>6, <2>1, <2>3, <3>2, ProjectionGrows
  <2> QED BY <1>3, <2>2, <2>3 DEF Completion
<1> QED BY <1>25, <1>26, <1>27, <1>28, <1>29, <1>30, <1>31, <1>32, <1>33, <1>34, <1>35, <1>36, <1>37, <1>38
        DEF SessionInv, NoOutcomes, NoFailures, Quiet, Plain

\* An outcome's turn that failed before it chose an id commits its end again when
\* the reply is lost: the Session stays terminated.
LEMMA RecommitStep ==
    ASSUME SessionInv, CompleteTurn, ~Acking, turn.committed, ~AlreadyCompleted(turn.trigger) PROVE SessionInv'
<1>1. /\ pc = "finish" /\ pc \in TurnPcs /\ pc' = "reply" /\ pc' \in TurnPcs /\ pc' \in Pcs /\ Commit
      /\ inputs' = inputs /\ fast' = fast /\ relay' = relay /\ cursor' = cursor /\ batch' = batch
      /\ barrier' = barrier /\ signals' = signals /\ lost' = lost
  BY DEF CompleteTurn, delivery, TurnPcs, Pcs
<1>2. ~turn.keyed
  BY <1>1 DEF Commit
<1>3. /\ turn \in TurnType /\ turn.trigger \in Seqs /\ turn.trigger \in Nat /\ turn.trigger # 0
      /\ turn.ask = "fail" /\ status = "terminated" /\ outcome = turn.trigger /\ turn.res = {}
      /\ ~NoOutcomes /\ ~NoFailures /\ Interrupts = {} /\ turn.acts = <<>>
      /\ InterruptOf(turn.trigger) = 0
  <2>1. /\ turn \in TurnType /\ turn.trigger \in Seqs /\ turn.trigger \in Nat /\ turn.trigger # 0
        /\ turn.ask = "fail" /\ status = "terminated" /\ outcome = turn.trigger /\ turn.res = {}
        /\ ~NoOutcomes /\ ~NoFailures
        /\ turn.acts # <<>> => turn.ask = "end"
        /\ status = "terminated" => Interrupts = {}
        /\ InterruptOf(turn.trigger) # 0 => InterruptOf(turn.trigger) \in Interrupts
    BY <1>1, <1>2, Completing
  <2> QED BY <2>1
<1>4. /\ SessionTyped /\ Seqs = 1..Len(log) /\ Len(log) \in Nat /\ pending \in [DOMAIN pending -> Seqs \cup {0}]
      /\ processed \subseteq Seqs /\ log \in Seq(EventType) /\ outbox \in 0..Len(log) /\ cursor \in 0..Len(log)
      /\ \A r \in Relays : relay[r].seq \in Nat /\ relay[r].seq <= Len(log)
  BY Numbered DEF SessionInv, SessionTyped, IsRows, RelayType
<1>5. /\ turn.trigger \in processed /\ turn.trigger \notin Claims(pending)
  BY <1>1 DEF SessionInv, TurnProgress
<1>6. PICK e \in EventType : /\ e = Event("terminated", turn.trigger, "none") /\ e.type = "terminated"
                             /\ e.turn = turn.trigger /\ e.reason = "none"
  <2>1. "terminated" \in EventTypes /\ "none" \in Reasons
    BY DEF EventTypes, StatusTypes, Reasons
  <2> QED BY <1>3, <2>1, EventFacts
<1>7. /\ log' = log \o <<e>> /\ processed' = processed /\ status' = "terminated"
      /\ pending' = pending /\ outcome' \in {0, outcome} /\ outbox' = outbox
      /\ turn' = [turn EXCEPT !.committed = TRUE, !.disposition = "terminated"]
  <2> DEFINE t         == turn.trigger
             i         == InterruptOf(t)
             acts      == IF i # 0 THEN <<>> ELSE turn.acts
             gated     == DOMAIN Unresolved # {} \/ acts # <<>>
             exhausted == i = 0 /\ turn.ask = "exhausted"
             asked     == IF i = 0 /\ turn.ask = "fail" THEN "terminated" ELSE "idle"
             reopens   == asked = "idle" /\ ~gated /\ ~exhausted /\ Waiting(t) # {}
             reason    == IF gated THEN "requires_action"
                          ELSE IF exhausted THEN "retries_exhausted" ELSE "end_turn"
             asks      == [k \in DOMAIN acts |-> Event(acts[k], t, "none")]
             new       == (Len(log) + 1) .. (Len(log) + Len(acts))
  <2>1. /\ log' = log \o asks \o Terminal(t, i, asked, reopens, reason)
        /\ processed' = processed \cup AnsweredBy(t) \cup ({i} \ {0})
                          \cup (IF exhausted THEN Waiting(t) ELSE {})
        /\ status' = IF reopens THEN "running" ELSE asked
        /\ pending' = [a \in DOMAIN Unresolved \cup new |->
                         IF a \in new THEN 0 ELSE Unresolved[a]]
        /\ outcome' = IF outcome = t /\ (i # 0 \/ turn.graded) THEN 0 ELSE outcome
        /\ outbox' = IF turn.res # {} /\ reopens THEN Len(log') ELSE outbox
        /\ turn' = [turn EXCEPT !.committed = TRUE, !.disposition =
                      IF status' = "terminated" THEN "terminated"
                      ELSE IF acts # <<>> THEN "parked" ELSE "completed"]
    BY <1>1 DEF Commit
  <2>2. /\ i = 0 /\ acts = <<>> /\ ~exhausted /\ asked = "terminated" /\ ~reopens
        /\ AnsweredBy(t) = {t} /\ Unresolved = pending
    BY <1>3 DEF AnsweredBy, Unresolved
  <2>3. Terminal(t, i, asked, reopens, reason) = <<e>>
    <3>1. turn.ask # "ack" /\ i = 0 /\ asked = "terminated" /\ e = Event("terminated", t, "none")
      BY <1>3, <1>6, <2>2
    <3> HIDE DEF i, acts, exhausted, asked, reopens, reason, asks, new, gated, t
    <3> QED BY <3>1 DEF Terminal
  <2>4. asks = <<>>
    <3>1. acts = <<>>
      BY <2>2
    <3>2. \A f : f = <<>> => [k \in DOMAIN f |-> Event(f[k], t, "none")] = <<>>
      OBVIOUS
    <3> QED BY <3>1, <3>2
  <2>5. log \o <<>> = log
    BY <1>4, ConcatEmptySeq
  <2>6. new = {}
    <3>1. Len(acts) = 0 /\ Len(log) \in Nat
      BY <1>4, <2>2
    <3> HIDE DEF acts
    <3> QED BY <3>1
  <2>7. pending' = pending
    <3> HIDE DEF new
    <3>1. pending' = [a \in DOMAIN pending |-> pending[a]]
      BY <2>1, <2>2, <2>6
    <3> QED BY <1>4, <3>1
  <2>8. processed' = processed
    BY <1>5, <2>1, <2>2
  <2> HIDE DEF i, acts, exhausted, asked, reopens, reason, asks, new, gated
  <2>9. log' = log \o <<e>>
    BY <2>1, <2>3, <2>4, <2>5
  <2>10. status' = "terminated" /\ outcome' \in {0, outcome} /\ outbox' = outbox
    BY <1>3, <2>1, <2>2
  <2>11. turn' = [turn EXCEPT !.committed = TRUE, !.disposition = "terminated"]
    BY <2>1, <2>10
  <2> QED BY <2>7, <2>8, <2>9, <2>10, <2>11
<1>8. turn' \in TurnType
  BY <1>3, <1>7 DEF TurnType
<1>9. /\ turn'.trigger = turn.trigger /\ turn'.res = {} /\ turn'.committed /\ turn'.disposition = "terminated"
      /\ turn'.ask = "fail" /\ turn'.acts = <<>> /\ turn'.keyed = turn.keyed /\ ~Acking'
  BY <1>3, <1>7 DEF TurnType, Acking
<1>10. <<e>> \in Seq(EventType) /\ Len(<<e>>) = 1 /\ <<e>>[1] = e
  OBVIOUS
<1>11. /\ log' \in Seq(EventType) /\ Seqs' = 1..Len(log')
       /\ Len(log') = Len(log) + 1
       /\ Seqs \subseteq Seqs' /\ \A s \in Seqs : log'[s] = log[s]
       /\ \A s \in Seqs' \ Seqs : log'[s] = e
  <2>1. PICK new \in Seq(EventType) : new = <<e>>
    BY <1>10
  <2>2. log' = log \o new /\ Len(new) = 1 /\ new[1] = e
    BY <1>7, <1>10, <2>1
  <2>3. /\ log' \in Seq(EventType) /\ Seqs' = 1..Len(log')
        /\ Len(log') = Len(log) + Len(new)
        /\ Seqs \subseteq Seqs' /\ \A s \in Seqs : log'[s] = log[s]
        /\ \A k \in 1..Len(new) : log'[Len(log) + k] = new[k]
        /\ \A s \in Seqs' : s \in Seqs \/ \E k \in 1..Len(new) : s = Len(log) + k
    BY <1>4, <2>2, Grown
  <2> QED BY <2>2, <2>3
<1>12. /\ Interrupts' = Interrupts /\ Unprocessed({"message"})' = Unprocessed({"message"})
       /\ Unprocessed({"message", "interrupt"})' = Unprocessed({"message", "interrupt"})
  <2>1. ASSUME NEW types \in SUBSET {"message", "interrupt"} PROVE Unprocessed(types)' = Unprocessed(types)
    <3>1. {s \in Seqs' : log'[s].type \in types} = {s \in Seqs : log[s].type \in types}
      BY <1>6, <1>11
    <3> QED BY <1>7, <3>1 DEF Unprocessed
  <2>2. {"message"} \in SUBSET {"message", "interrupt"} /\ {"interrupt"} \in SUBSET {"message", "interrupt"}
    OBVIOUS
  <2> QED BY <2>1, <2>2 DEF Interrupts
<1>13. Claims(pending)' = Claims(pending) /\ ~Runnable'
  BY <1>7 DEF Claims, Range, Runnable
<1>14. SessionTyped'
  <2>1. IsRows(barrier)' /\ IsRows(pending)'
    BY <1>1, <1>4, <1>7, <1>11 DEF SessionTyped, IsRows
  <2>2. outcome' \in 0..Len(log') /\ outbox' \in 0..Len(log') /\ cursor' \in 0..Len(log')
    BY <1>1, <1>3, <1>4, <1>7, <1>11
  <2>3. relay' \in [Relays -> RelayType] /\ \A r \in Relays : relay'[r].seq <= Len(log')
    <3>1. \A r \in Relays : relay[r].seq <= Len(log')
      BY <1>4, <1>11
    <3> QED BY <1>1, <1>4, <3>1 DEF SessionTyped
  <2>4. status' \in {"idle", "running", "rescheduling", "terminated"} /\ processed' \subseteq Seqs'
    BY <1>4, <1>7, <1>11
  <2> QED BY <1>1, <1>4, <1>8, <1>11, <2>1, <2>2, <2>3, <2>4 DEF SessionTyped
<1>15. LedgerTyped'
  <2>1. outcome' # 0 => log'[outcome'].type = "outcome"
    BY <1>3, <1>7, <1>11 DEF SessionInv, LedgerTyped
  <2>2. ASSUME NEW s \in Seqs', log'[s].type = "outcome" PROVE s \in processed'
    <3>1. s \in Seqs
      BY <1>6, <1>11, <2>2
    <3> QED BY <1>7, <1>11, <2>2, <3>1 DEF SessionInv, LedgerTyped
  <2>3. ASSUME NEW a \in DOMAIN pending', pending'[a] # 0 PROVE log'[pending'[a]].type \in ResolutionTypes
    BY <1>4, <1>7, <1>11, <2>3 DEF SessionInv, LedgerTyped
  <2> QED BY <2>1, <2>2, <2>3 DEF LedgerTyped
<1>16. BatchFollows' /\ BarrierRead' /\ CursorBehind' /\ IdleIsDrained'
  <2>1. cursor + Len(batch) <= Len(log) /\ cursor \in Nat /\ Len(batch) \in Nat
    BY <1>4 DEF SessionInv, SessionTyped, BatchFollows
  <2>2. cursor + Len(batch) <= Len(log')
    BY <1>4, <1>11, <2>1
  <2>3. BatchFollows'
    BY <1>1, <2>2 DEF SessionInv, BatchFollows
  <2> QED BY <1>1, <1>7, <1>12, <2>3 DEF SessionInv, CursorBehind, BarrierRead, IdleIsDrained
<1>17. Parked(turn.trigger)' <=> Parked(turn.trigger)
  BY <1>6, <1>9, <1>11 DEF Parked
<1>18. TurnSubject'
  <2>1. /\ batch # <<>> => turn.trigger = cursor + 1
        /\ batch # <<>> => turn.res = {} /\ log[turn.trigger].type \in TriggerTypes
        /\ batch # <<>>
        /\ DOMAIN pending = {} \/ Parked(turn.trigger)
    BY <1>1, <1>3 DEF SessionInv, TurnSubject
  <2> QED BY <1>1, <1>3, <1>7, <1>9, <1>11, <1>12, <1>17, <2>1 DEF TurnSubject
<1>19. TurnProgress'
  BY <1>1, <1>5, <1>7, <1>9, <1>13 DEF TurnProgress
<1>20. DispositionTrue' /\ TerminationStands'
  BY <1>1, <1>3, <1>7, <1>9, <1>12 DEF DispositionTrue, TerminationStands
<1>21. EndsAreEnds'
  <2>1. ASSUME NEW s \in Seqs'
        PROVE /\ log'[s].reason # "none" => log'[s].type = "idle" /\ log'[s].turn # 0
              /\ IsEnd(s)' => /\ log'[s].turn \in processed' /\ log'[s].turn \notin Claims(pending)'
                              /\ log'[log'[s].turn].type = "outcome" /\ status' # "terminated" =>
                                   log'[s].turn <= cursor' \/ (turn'.committed /\ turn'.trigger = log'[s].turn)
    <3>1. CASE s \in Seqs
      <4>1. log'[s] = log[s] /\ (IsEnd(s)' <=> IsEnd(s))
        BY <1>11, <3>1 DEF IsEnd
      <4>2. /\ log[s].reason # "none" => log[s].type = "idle" /\ log[s].turn # 0
            /\ IsEnd(s) => log[s].turn \in processed /\ log[s].turn \notin Claims(pending)
        BY <3>1 DEF SessionInv, EndsAreEnds
      <4> QED BY <1>7, <1>13, <4>1, <4>2
    <3>2. CASE s \notin Seqs
      BY <1>5, <1>6, <1>7, <1>11, <1>13, <3>2
    <3> QED BY <3>1, <3>2
  <2> QED BY <2>1 DEF EndsAreEnds
<1>22. WakeupsComing'
  BY <1>1, <1>13 DEF WakeupsComing
<1>23. FailsInLoop'
  BY <1>3 DEF FailsInLoop, NoOutcomes, NoFailures
<1>24. StatusFollows'
  <2>1. Quiet => Interrupts' = {} /\ \A s \in Seqs' : log'[s].type # "interrupt"
    <3>1. Quiet => \A s \in Seqs : log[s].type # "interrupt"
      BY DEF SessionInv, StatusFollows
    <3> QED BY <1>3, <1>6, <1>11, <1>12, <3>1
  <2>2. ~Plain
    BY <1>3 DEF Plain
  <2> QED BY <1>1, <1>7, <2>1, <2>2 DEF StatusFollows, Quiet, Plain, NoOutcomes
<1>25. StatusIsProjection'
  <2>1. \E k \in 1..Len(<<e>>) :
                /\ <<e>>[k].type \in StatusTypes /\ status' = Shown(<<e>>[k].type)
                /\ \A j \in 1..Len(<<e>>) : <<e>>[j].type \in StatusTypes => j <= k
    <3>1. 1 \in 1..Len(<<e>>) /\ <<e>>[1].type \in StatusTypes /\ status' = Shown(<<e>>[1].type)
      BY <1>6, <1>7, <1>10 DEF StatusTypes, Shown
    <3>2. \A j \in 1..Len(<<e>>) : j <= 1
      BY <1>10
    <3> QED BY <3>1, <3>2
  <2> QED BY <1>4, <1>7, <1>10, <2>1, ProjectionGrows
<1> QED BY <1>3, <1>14, <1>15, <1>16, <1>18, <1>19, <1>20, <1>21, <1>22, <1>23, <1>24, <1>25
        DEF SessionInv, NoOutcomes, NoFailures, Quiet, Plain

\* Completing a turn keeps the invariant, also when it is retried.
LEMMA CompleteTurnStep == ASSUME SessionInv, CompleteTurn PROVE SessionInv'
<1>1. CASE AlreadyCompleted(turn.trigger)
  BY <1>1, ReplayStep
<1>2. CASE ~AlreadyCompleted(turn.trigger) /\ Acking
  BY <1>2, AcknowledgeStep
<1>3. CASE ~AlreadyCompleted(turn.trigger) /\ ~Acking /\ turn.committed
  BY <1>3, RecommitStep
<1>4. CASE ~AlreadyCompleted(turn.trigger) /\ ~Acking /\ ~turn.committed
  <2>1. /\ pc = "finish" /\ pc' = "reply" /\ Commit
        /\ UNCHANGED <<inputs, fast, relay, signals, lost, cursor, batch, barrier>>
    BY <1>4 DEF CompleteTurn, delivery
  <2>2. PICK acts, new : Completion(acts, new)
    BY <1>4, <2>1, Commits
  <2> QED BY <1>4, <2>1, <2>2, CompletionStep
<1> QED BY <1>1, <1>2, <1>3, <1>4

-----------------------------------------------------------------------------
(* The invariant                                                           *)

\* A new Session satisfies the invariant.
LEMMA SessionInit == Init => SessionInv
<1> SUFFICES ASSUME Init PROVE SessionInv
  OBVIOUS
<1>1. /\ log = <<>> /\ processed = {} /\ status = "idle"
      /\ pending = NoRows /\ outcome = 0 /\ outbox = 0
      /\ inputs = 0 /\ fast = FALSE /\ signals = 0 /\ lost = 0
      /\ relay = [r \in Relays |-> Idle]
      /\ pc = "none" /\ cursor = 0 /\ batch = <<>> /\ barrier = NoRows
      /\ turn = NoTurn
  BY DEF Init
<1>2. Seqs = {} /\ Len(log) = 0 /\ log \in Seq(EventType) /\ batch \in Seq(Nat) /\ Len(batch) = 0
  BY <1>1, EmptySeq DEF Seqs
<1>3. IsRows(NoRows) /\ DOMAIN NoRows = {}
  BY NoRowsTyped
<1>4. \A types : Unprocessed(types) = {}
  BY <1>2 DEF Unprocessed
<1>5. NoTurn \in TurnType /\ NoTurn.ask = "none" /\ NoTurn.acts = <<>> /\ ~NoTurn.committed
  BY NoTurnTyped DEF NoTurn
<1>6. pc \in Pcs /\ pc \notin TurnPcs
  BY <1>1 DEF Pcs, TurnPcs
<1>7. SessionTyped
  <2>1. relay \in [Relays -> RelayType] /\ \A r \in Relays : relay[r].seq <= Len(log)
    BY <1>1, <1>2 DEF RelayType, Idle
  <2>2. inputs \in 0..MaxInputs /\ signals \in 0..MaxSignals /\ lost \in 0..MaxLost
    BY <1>1, SessionRuntimeAssumption
  <2>3. outcome \in 0..Len(log) /\ outbox \in 0..Len(log) /\ cursor \in 0..Len(log) /\ processed \subseteq Seqs
    BY <1>1, <1>2
  <2>4. IsRows(pending) /\ IsRows(barrier)
    BY <1>1, <1>3
  <2> QED BY <1>1, <1>2, <1>5, <1>6, <2>1, <2>2, <2>3, <2>4 DEF SessionTyped
<1>8. LedgerTyped /\ BatchFollows /\ BarrierRead /\ CursorBehind
  <2>1. BatchFollows
    BY <1>1, <1>2, <1>6 DEF BatchFollows
  <2> QED BY <1>1, <1>2, <1>3, <1>4, <2>1 DEF LedgerTyped, BarrierRead, CursorBehind
<1>9. TurnSubject /\ TurnProgress /\ DispositionTrue /\ TerminationStands /\ EndsAreEnds
  BY <1>1, <1>2, <1>4, <1>6 DEF TurnSubject, TurnProgress, DispositionTrue, TerminationStands, EndsAreEnds
<1>10. WakeupsComing /\ IdleIsDrained /\ FailsInLoop /\ StatusFollows
  <2>1. ~Runnable
    BY <1>1, <1>3, <1>4 DEF Runnable
  <2>2. Interrupts = {}
    BY <1>4 DEF Interrupts
  <2> QED BY <1>1, <1>2, <1>3, <1>4, <1>5, <2>1, <2>2 DEF WakeupsComing, IdleIsDrained, FailsInLoop, StatusFollows
<1>11. OneEndPerTurn
  BY <1>2 DEF OneEndPerTurn
<1>12. StatusIsProjection
  <2>1. LastShows(log, status)
    BY <1>1, <1>2 DEF LastShows, Seqs
  <2> QED BY <1>7, <2>1, ProjectionIs
<1> QED BY <1>7, <1>8, <1>9, <1>10, <1>11, <1>12 DEF SessionInv

\* A step that changes nothing keeps the invariant.
LEMMA SessionStutter == ASSUME SessionInv, UNCHANGED vars PROVE SessionInv'
<1>1. /\ log' = log /\ processed' = processed /\ status' = status /\ pending' = pending
      /\ outcome' = outcome /\ outbox' = outbox /\ inputs' = inputs /\ fast' = fast
      /\ relay' = relay /\ lost' = lost /\ signals' = signals /\ pc' = pc /\ cursor' = cursor
      /\ batch' = batch /\ barrier' = barrier /\ turn' = turn
  BY DEF vars, ledger, delivery, workflow
<1>2. Seqs' = Seqs /\ (\A types : Unprocessed(types)' = Unprocessed(types)) /\ Interrupts' = Interrupts
      /\ Claims(pending)' = Claims(pending) /\ Range(pending)' = Range(pending) /\ Acking' = Acking
      /\ FullyClaimed(pending)' = FullyClaimed(pending) /\ FullyClaimed(barrier)' = FullyClaimed(barrier)
      /\ Runnable' = Runnable /\ WakeupComing' = WakeupComing
      /\ Parked(turn.trigger)' = Parked(turn.trigger)
      /\ AlreadyCompleted(turn.trigger)' = AlreadyCompleted(turn.trigger)
  BY <1>1 DEF Seqs, Unprocessed, Interrupts, Claims, Range, Acking, FullyClaimed, Runnable,
              WakeupComing, Parked, AlreadyCompleted
<1>3. SessionTyped' /\ LedgerTyped' /\ BatchFollows' /\ BarrierRead' /\ CursorBehind'
  BY <1>1, <1>2 DEF SessionInv, SessionTyped, IsRows, LedgerTyped, BatchFollows, BarrierRead, CursorBehind
<1>4. TurnSubject' /\ DispositionTrue' /\ TerminationStands' /\ EndsAreEnds'
  BY <1>1, <1>2 DEF SessionInv, TurnSubject, DispositionTrue, TerminationStands, EndsAreEnds, IsEnd
<1>5. TurnProgress'
  BY <1>1, <1>2 DEF SessionInv, TurnProgress
<1>6. WakeupsComing' /\ IdleIsDrained' /\ FailsInLoop' /\ StatusFollows'
  <2>1. Asleep' = Asleep
    BY <1>1, <1>2 DEF Asleep
  <2> QED BY <1>1, <1>2, <2>1 DEF SessionInv, WakeupsComing, IdleIsDrained, FailsInLoop, StatusFollows,
                                  NoOutcomes, NoFailures, Quiet, Plain
<1>7. (NoOutcomes \/ NoFailures => OneEndPerTurn') /\ (Quiet \/ Plain => StatusIsProjection')
  BY <1>1, <1>2 DEF SessionInv, OneEndPerTurn, StatusIsProjection
<1> QED BY <1>3, <1>4, <1>5, <1>6, <1>7 DEF SessionInv, NoOutcomes, NoFailures, Quiet, Plain

\* Every step of the Session keeps the invariant.
LEMMA SessionStep == SessionInv /\ [Next]_vars => SessionInv'
<1> SUFFICES ASSUME SessionInv, [Next]_vars PROVE SessionInv'
  OBVIOUS
<1>1. CASE Admit
  BY <1>1, AdmitStep
<1>2. CASE FastPathWake
  BY <1>2, FastPathWakeStep
<1>3. CASE ReceiveWakeup \/ EndDrain \/ LoadPendingActions
  BY <1>3, ReceiveWakeupStep, EndDrainStep, LoadPendingActionsStep
<1>4. CASE Gate \/ LoadEvents \/ EachEvent
  BY <1>4, GateStep, LoadEventsStep, EachEventStep
<1>5. CASE PrepareTurn \/ StartModelRequest \/ Preflight \/ ObserveWakeup
  BY <1>5, PrepareTurnStep, StartModelRequestStep, PreflightStep, ObserveWakeupStep
<1>6. CASE \E r \in Replies : CallModel(r)
  BY <1>6, CallModelStep
<1>7. CASE ExecuteTools \/ ResumeTools \/ StartEvaluation \/ EvaluateOutcome
  BY <1>7, ExecuteToolsStep, ResumeToolsStep, StartEvaluationStep, EvaluateOutcomeStep
<1>8. CASE RecordModelRetry \/ RetryTimer \/ ResumeModelRetry
  BY <1>8, RecordModelRetryStep, RetryTimerStep, ResumeModelRetryStep
<1>9. CASE CompleteTurn \/ TakeReply \/ LoseReply
  BY <1>9, CompleteTurnStep, TakeReplyStep, LoseReplyStep
<1>10. CASE \E r \in Relays : RelayStep(r) \/ RelayFail(r)
  BY <1>10, RelaySteps
<1>11. CASE UNCHANGED vars
  BY <1>11, SessionStutter
<1> QED BY <1>1, <1>2, <1>3, <1>4, <1>5, <1>6, <1>7, <1>8, <1>9, <1>10, <1>11, Zenon DEF Next, WorkflowStep

\* SessionInv is an invariant of the Session, whatever clients, relays, the
\* Workflow, lost replies and crashes do.
THEOREM SessionInvariant == Spec => []SessionInv
BY SessionInit, SessionStep, PTL DEF Spec

\* Every sequence number the ledger, the outbox and the Workflow hold names an
\* event of the ledger, and the Workflow is at a place of its code.
THEOREM SessionTypes == Spec => []TypeOK
<1>1. SessionInv => TypeOK
  <2> SUFFICES ASSUME SessionInv PROVE TypeOK
    OBVIOUS
  <2>1. SessionTyped /\ Seqs = 1..Len(log) /\ Len(log) \in Nat
    BY Numbered DEF SessionInv
  <2>2. EventTypes = Inputs \cup TriggerTypes \cup {"interrupt"} \cup ResolutionTypes
                       \cup ActionTypes \cup StatusTypes
    BY SessionRuntimeAssumption DEF EventTypes
  <2>3. log \in Seq([type : Inputs \cup TriggerTypes \cup {"interrupt"} \cup ResolutionTypes
                             \cup ActionTypes \cup StatusTypes,
                     turn : Nat,
                     reason : {"none", "end_turn", "requires_action", "retries_exhausted"}])
    <3>1. log \in Seq(EventType)
      BY <2>1 DEF SessionTyped
    <3> QED BY <2>2, <3>1, Zenon DEF EventType, Reasons
  <2>4. DOMAIN pending \subseteq Seqs /\ Range(pending) \subseteq Seqs \cup {0}
    BY <2>1 DEF SessionTyped, IsRows, Range
  <2>5. {outcome, outbox, cursor} \subseteq Seqs \cup {0}
    BY <2>1 DEF SessionTyped
  <2>6. relay \in [Relays -> [at : {"scan", "deliver", "delete"}, seq : Nat]]
    BY <2>1 DEF SessionTyped, RelayType
  <2>7. Range(batch) \subseteq Seqs
    <3>1. /\ batch \in Seq(Nat) /\ cursor \in Nat /\ cursor + Len(batch) <= Len(log)
          /\ \A i \in 1..Len(batch) : batch[i] = cursor + i
      BY <2>1 DEF SessionTyped, SessionInv, BatchFollows
    <3>2. DOMAIN batch = 1..Len(batch) /\ Len(batch) \in Nat
      BY <3>1
    <3> QED BY <2>1, <3>1, <3>2 DEF Range
  <2>8. turn.trigger \in Seqs \cup {0}
    <3>1. CASE pc \in TurnPcs
      BY <3>1 DEF SessionInv, TurnSubject
    <3>2. CASE pc \notin TurnPcs
      BY <3>2 DEF SessionInv, BatchFollows, NoTurn
    <3> QED BY <3>1, <3>2
  <2>9. pc \in {"none", "wait", "pending", "gate", "load", "each", "prepare",
               "model", "call", "tool", "approved", "evaluate", "grade", "retry",
               "backoff", "resume", "finish", "reply", "drained", "close"}
    BY <2>1 DEF SessionTyped, Pcs, TurnPcs
  <2> QED BY <2>1, <2>3, <2>4, <2>5, <2>6, <2>7, <2>8, <2>9 DEF TypeOK, SessionTyped
<1> QED BY <1>1, SessionInvariant, PTL

\* The cursor never passes a message, outcome or interrupt that is still to be
\* done: LoadEvents after the cursor loses nothing.
THEOREM CursorSafety == Spec => []CursorSafe
<1>1. SessionInv => CursorSafe
  <2> SUFFICES ASSUME SessionInv, NEW s \in Unprocessed(TriggerTypes \cup {"interrupt"}) PROVE s > cursor
    BY DEF CursorSafe
  <2>1. s \in Seqs /\ s \notin processed /\ log[s].type \in {"message", "outcome", "interrupt"}
    BY DEF Unprocessed, TriggerTypes
  <2>2. log[s].type # "outcome"
    BY <2>1 DEF SessionInv, LedgerTyped
  <2>3. s \in Unprocessed({"message", "interrupt"})
    BY <2>1, <2>2 DEF Unprocessed
  <2> QED BY <2>3 DEF SessionInv, CursorBehind
<1> QED BY <1>1, SessionInvariant, PTL

\* Work that a drain would take up is never left without a wakeup, although
\* relays deliver and delete outbox rows without a lease, replies are lost and
\* Signals of a closed run are dropped.
THEOREM SessionWakeups == Spec => []NoLostWakeup
<1>1. SessionInv => NoLostWakeup
  BY DEF SessionInv, WakeupsComing, Asleep, WakeupComing, NoLostWakeup
<1> QED BY <1>1, SessionInvariant, PTL

\* A turn publishes at most one end, however often its completion is retried,
\* unless outcomes meet failing requests: an outcome's turn that fails before its
\* first model request is not recognised when its completion comes again.
THEOREM OneEnd == Spec => []("outcome" \notin Inputs \/ "fail" \notin Replies => OneEndPerTurn)
<1>1. SessionInv => ("outcome" \notin Inputs \/ "fail" \notin Replies => OneEndPerTurn)
  BY DEF SessionInv, NoOutcomes, NoFailures
<1> QED BY <1>1, SessionInvariant, PTL

\* The status column is the projection of the ledger's status events in every
\* Session without interrupts, and in every Session without outcomes and client
\* actions: only the acknowledgement of an interrupt changes the status in silence.
THEOREM Projection ==
    Spec => []("interrupt" \notin Inputs \/ ("outcome" \notin Inputs /\ Parks = {}) => StatusIsProjection)
<1>1. SessionInv => ("interrupt" \notin Inputs \/ ("outcome" \notin Inputs /\ Parks = {}) => StatusIsProjection)
  BY DEF SessionInv, Quiet, Plain, NoOutcomes
<1> QED BY <1>1, SessionInvariant, PTL

\* An idle Session without a barrier has nothing queued, as long as clients define
\* no outcomes.
THEOREM IdleWaits == Spec => []("outcome" \notin Inputs => IdleMeansWaiting)
<1>1. SessionInv => ("outcome" \notin Inputs => IdleMeansWaiting)
  BY DEF SessionInv, IdleIsDrained, FailsInLoop, NoOutcomes, IdleMeansWaiting
<1> QED BY <1>1, SessionInvariant, PTL

\* what a step may do to the queue
InTurn ==
    LET done == {s \in processed' \ processed : log'[s].type = "message"}
    IN  /\ \A s \in done, u \in Seqs :
             log[u].type = "message" /\ u < s => u \in processed'
        /\ done # {} => DOMAIN pending = {} \/ DOMAIN pending' = {}

\* A step that processes no message keeps the queue's order.
LEMMA NothingDone ==
    ASSUME \A s \in processed' \ processed : log'[s].type # "message" PROVE InTurn
BY DEF InTurn

\* The first completion of a turn finishes the message that is next, or after
\* exhausted retries all of them.
LEMMA CompletionInTurn ==
    ASSUME SessionInv, pc = "finish", ~Acking, ~turn.committed, ~AlreadyCompleted(turn.trigger),
           NEW acts, NEW new, Completion(acts, new)
    PROVE  InTurn
<1>1. PICK t : t = turn.trigger
  OBVIOUS
<1>2. PICK i : i = InterruptOf(turn.trigger)
  OBVIOUS
<1>3. /\ t \in Seqs
      /\ turn.acts # <<>> => turn.ask = "end"
      /\ i # 0 => i \in Interrupts
      /\ AnsweredBy(t) \subseteq Seqs
      /\ \A s \in AnsweredBy(t) : s = t \/ log[s].type \in ResolutionTypes
  BY <1>1, <1>2, Completing
<1>4. /\ SessionTyped /\ log \in Seq(EventType) /\ Seqs = 1..Len(log) /\ Len(log) \in Nat
      /\ processed \subseteq Seqs /\ cursor \in Nat
  BY Numbered DEF SessionInv, SessionTyped
<1>5. new \in Seq(EventType) /\ log' = log \o new
  BY DEF Completion
<1>6. \A s \in Seqs : log'[s] = log[s]
  BY <1>4, <1>5, Grown
<1>7. processed' = processed \cup AnsweredBy(t) \cup ({i} \ {0})
                     \cup IF i = 0 /\ turn.ask = "exhausted" THEN Waiting(t) ELSE {}
  BY <1>1, <1>2 DEF Completion
<1>8. \A s \in Interrupts : s \in Seqs /\ log[s].type = "interrupt"
  BY DEF Interrupts, Unprocessed
<1>9. CASE i = 0 /\ turn.ask = "exhausted"
  <2>1. \A u \in Seqs : log[u].type = "message" => u \in processed'
    <3> TAKE u \in Seqs
    <3>1. t \in AnsweredBy(t)
      BY <1>1, Completing
    <3> QED BY <1>7, <1>9, <3>1 DEF Waiting, Unprocessed
  <2>2. acts = <<>>
    BY <1>3, <1>9 DEF Completion
  <2>3. DOMAIN pending' = {}
    <3>1. Len(acts) = 0
      BY <2>2
    <3>2. {Len(log) + k : k \in 1..Len(acts)} = {}
      <4>1. 1..Len(acts) = {}
        BY <3>1
      <4> QED BY <4>1
    <3>3. pending' \in [{Len(log) + k : k \in 1..Len(acts)} -> {0}]
      BY DEF Completion
    <3> QED BY <3>2, <3>3
  <2> QED BY <2>1, <2>3 DEF InTurn
<1>10. CASE ~(i = 0 /\ turn.ask = "exhausted")
  <2>1. ASSUME NEW s \in processed' \ processed, log'[s].type = "message"
        PROVE  s = t /\ log[t].type = "message"
    <3>1. s \in AnsweredBy(t) \cup ({i} \ {0})
      BY <1>7, <1>10, <2>1
    <3>2. s \in Seqs /\ log[s].type = "message"
      BY <1>3, <1>6, <1>8, <2>1, <3>1
    <3>3. s # i
      BY <1>3, <1>8, <1>4, <3>2
    <3> QED BY <1>3, <3>1, <3>2, <3>3 DEF ResolutionTypes
  <2>2. ASSUME log[t].type = "message"
        PROVE  DOMAIN pending = {} /\ \A u \in Seqs : log[u].type = "message" /\ u < t => u \in processed'
    <3>1. pc \in TurnPcs
      BY DEF TurnPcs
    <3>2. batch # <<>>
      BY <1>1, <2>2, <3>1 DEF SessionInv, TurnSubject, ResolutionTypes
    <3>3. t = cursor + 1 /\ DOMAIN pending = {}
      BY <1>1, <3>1, <3>2 DEF SessionInv, TurnSubject
    <3>4. ASSUME NEW u \in Seqs, log[u].type = "message", u < t PROVE u \in processed'
      <4>1. ~(u > cursor)
        BY <1>4, <3>3, <3>4
      <4>2. u \notin Unprocessed({"message", "interrupt"})
        BY <4>1 DEF SessionInv, CursorBehind
      <4>3. u \in processed
        BY <3>4, <4>2 DEF Unprocessed
      <4> QED BY <1>7, <4>3
    <3> QED BY <3>3, <3>4
  <2> QED BY <2>1, <2>2 DEF InTurn
<1> QED BY <1>9, <1>10

\* Completing a turn keeps the queue's order.
LEMMA CompleteTurnInTurn == ASSUME SessionInv, CompleteTurn PROVE InTurn
<1>1. pc = "finish" /\ pc \in TurnPcs
  BY DEF CompleteTurn, TurnPcs
<1>2. CASE AlreadyCompleted(turn.trigger)
  <2>1. processed' = processed
    BY <1>2 DEF CompleteTurn, Replay, ledger
  <2> QED BY <2>1, NothingDone
<1>3. CASE ~AlreadyCompleted(turn.trigger) /\ ~Acking /\ ~turn.committed
  <2>1. Commit
    BY <1>3 DEF CompleteTurn
  <2>2. PICK acts, new : Completion(acts, new)
    BY <1>1, <1>3, <2>1, Commits
  <2> QED BY <1>1, <1>3, <2>2, CompletionInTurn
<1>4. CASE ~AlreadyCompleted(turn.trigger) /\ (Acking \/ turn.committed)
  <2>1. Commit
    BY <1>4 DEF CompleteTurn
  <2>2. PICK t : t = turn.trigger
    OBVIOUS
  <2>3. PICK i : i = InterruptOf(turn.trigger)
    OBVIOUS
  <2>4. processed' = processed \cup AnsweredBy(t) \cup ({i} \ {0})
                       \cup (IF i = 0 /\ turn.ask = "exhausted" THEN Waiting(t) ELSE {})
    BY <2>1, <2>2, <2>3 DEF Commit
  <2>5. log \in Seq(EventType) /\ SessionTyped
    BY DEF SessionInv, SessionTyped
  <2>6. CASE Acking
    <3>1. /\ t \in Seqs /\ log[t].type = "interrupt" /\ turn.res = {} /\ turn.acts = <<>> /\ turn.ask = "ack"
      BY <1>1, <2>2, <2>6 DEF SessionInv, TurnSubject, Acking
    <3>2. i = 0 /\ AnsweredBy(t) = {t}
      BY <2>2, <2>3, <3>1 DEF InterruptOf, AnsweredBy
    <3>3. processed' = processed \cup {t}
      BY <2>4, <3>1, <3>2
    <3>4. log'[t] = log[t]
      <4>1. log' = log \o [k \in DOMAIN <<>> |-> Event(<<>>[k], t, "none")] \o <<>>
        <5>1. (IF i # 0 THEN <<>> ELSE turn.acts) = <<>>
          BY <3>1, <3>2
        <5> QED BY <2>1, <2>2, <2>3, <3>1, <3>2, <5>1 DEF Commit, Terminal
      <4>2. [k \in DOMAIN <<>> |-> Event(<<>>[k], t, "none")] = <<>>
        OBVIOUS
      <4>3. log \o <<>> \o <<>> = log
        BY <2>5
      <4> QED BY <4>1, <4>2, <4>3
    <3> QED BY <3>1, <3>3, <3>4, NothingDone
  <2>7. CASE ~Acking /\ turn.committed
    <3>1. ~turn.keyed
      BY <2>1, <2>7 DEF Commit
    <3>2. /\ turn.ask = "fail" /\ status = "terminated" /\ turn.res = {}
          /\ status = "terminated" => Interrupts = {}
          /\ i # 0 => i \in Interrupts
      BY <1>1, <1>4, <2>3, <2>7, <3>1, Completing
    <3>3. t \in processed
      BY <1>1, <2>2, <2>7 DEF SessionInv, TurnProgress
    <3>4. processed' = processed
      BY <2>4, <3>2, <3>3 DEF AnsweredBy
    <3> QED BY <3>4, NothingDone
  <2> QED BY <1>4, <2>6, <2>7
<1> QED BY <1>2, <1>3, <1>4

\* Admission stamps what needs no turn, never a message.
LEMMA AdmitInTurn == ASSUME SessionInv, Admit PROVE InTurn
<1>1. PICK n \in 1..MaxBatch : \E drafts \in [1..n -> Drafts] : AdmitEvents(drafts)
  BY DEF Admit
<1>2. PICK drafts \in [1..n -> Drafts] : AdmitEvents(drafts)
  BY <1>1
<1>3. \E made, woken \in BOOLEAN : Admission(made, woken)
  BY <1>2, Admits
<1>4. \A s \in processed' \ processed : log'[s].type # "message"
  BY <1>3 DEF Admission
<1> QED BY <1>4, NothingDone

\* Only admission and completion stamp events.
LEMMA OnlyTheseStamp == ASSUME Next, ~Admit, ~CompleteTurn PROVE processed' = processed
<1>1. CASE \E r \in Relays : RelayStep(r) \/ RelayFail(r)
  BY <1>1 DEF RelayStep, RelayRead, RelayDeliver, DeleteWakeupIfUnchanged, RelayFail, ledger
<1>2. CASE FastPathWake \/ LoseReply \/ TakeReply
  BY <1>2 DEF FastPathWake, LoseReply, TakeReply, Outside, ledger
<1>3. CASE ReceiveWakeup \/ EndDrain \/ LoadPendingActions \/ Gate \/ LoadEvents \/ EachEvent
  BY <1>3 DEF ReceiveWakeup, EndDrain, LoadPendingActions, Gate, LoadEvents, EachEvent, Outside, ledger
<1>4. CASE PrepareTurn \/ StartModelRequest \/ Preflight \/ ObserveWakeup
  BY <1>4 DEF PrepareTurn, StartModelRequest, Preflight, ObserveWakeup, Outside, ledger
<1>5. CASE \E r \in Replies : CallModel(r)
  BY <1>5 DEF CallModel, Outside, ledger
<1>6. CASE ExecuteTools \/ ResumeTools \/ StartEvaluation \/ EvaluateOutcome
  BY <1>6 DEF ExecuteTools, ResumeTools, StartEvaluation, EvaluateOutcome, Outside, ledger
<1>7. CASE RecordModelRetry \/ RetryTimer \/ ResumeModelRetry
  BY <1>7 DEF RecordModelRetry, RetryTimer, ResumeModelRetry, Outside, ledger
<1> QED BY <1>1, <1>2, <1>3, <1>4, <1>5, <1>6, <1>7, Zenon DEF Next, WorkflowStep

\* Messages are finished in receipt order, and none while a barrier stays open:
\* no interleaving of admission, turns, interrupts and retried completions lets
\* one overtake another.
THEOREM InOrder == Spec => MessagesInOrder
<1>1. SessionInv /\ [Next]_vars =>
        [LET done == {s \in processed' \ processed : log'[s].type = "message"}
         IN  /\ \A s \in done, u \in Seqs :
                  log[u].type = "message" /\ u < s => u \in processed'
             /\ done # {} => DOMAIN pending = {} \/ DOMAIN pending' = {}]_vars
  <2> SUFFICES ASSUME SessionInv, Next PROVE InTurn
    BY DEF InTurn
  <2>1. CASE Admit
    BY <2>1, AdmitInTurn
  <2>2. CASE CompleteTurn
    BY <2>2, CompleteTurnInTurn
  <2>3. CASE ~Admit /\ ~CompleteTurn
    BY <2>3, OnlyTheseStamp, NothingDone
  <2> QED BY <2>1, <2>2, <2>3
<1> QED BY <1>1, SessionInvariant, PTL DEF Spec, MessagesInOrder

-----------------------------------------------------------------------------
(* The queue of the contract                                               *)

\* The queue of a set is a sequence, as long as the set is large.
LEMMA QueueIs ==
    ASSUME NEW S, IsFiniteSet(S)
    PROVE  /\ Len(InOrderOf(S)) = Cardinality(S) /\ Cardinality(S) \in Nat
           /\ InOrderOf(S) \in Seq({InOrderOf(S)[k] : k \in 1..Cardinality(S)})
           /\ DOMAIN InOrderOf(S) = 1..Cardinality(S)
           /\ S = {} <=> InOrderOf(S) = <<>>
<1>1. Cardinality(S) \in Nat
  BY FS_CardinalityType
<1>2. /\ DOMAIN InOrderOf(S) = 1..Cardinality(S)
      /\ InOrderOf(S) = [k \in 1..Cardinality(S) |-> InOrderOf(S)[k]]
  BY DEF InOrderOf
<1>3. InOrderOf(S) \in [1..Cardinality(S) -> {InOrderOf(S)[k] : k \in 1..Cardinality(S)}]
  BY <1>2
<1>4. InOrderOf(S) \in Seq({InOrderOf(S)[k] : k \in 1..Cardinality(S)})
  BY <1>1, <1>3
<1>5. Len(InOrderOf(S)) = Cardinality(S)
  BY <1>1, <1>2, <1>4
<1>6. InOrderOf(S) = <<>> <=> Len(InOrderOf(S)) = 0
  BY <1>4, EmptySeq
<1> QED BY <1>1, <1>2, <1>4, <1>5, <1>6, FS_EmptySet

\* Messages of higher numbers are queued behind those that are there.
LEMMA QueueGrows ==
    ASSUME NEW n \in Nat, NEW S \in SUBSET (1..n), NEW T \in SUBSET Nat, IsFiniteSet(T), S \subseteq T,
           \A x \in T : x \in S \/ x > n
    PROVE  /\ Len(InOrderOf(T)) >= Len(InOrderOf(S))
           /\ SubSeq(InOrderOf(T), 1, Len(InOrderOf(S))) = InOrderOf(S)
           /\ T # S => InOrderOf(T) # InOrderOf(S)
<1>1. /\ IsFiniteSet(S) /\ Cardinality(S) <= Cardinality(T)
      /\ Cardinality(T) = Cardinality(S) => S = T
  BY FS_Subset
<1>2. /\ Len(InOrderOf(T)) = Cardinality(T) /\ Len(InOrderOf(S)) = Cardinality(S)
      /\ Cardinality(S) \in Nat /\ Cardinality(T) \in Nat
      /\ DOMAIN InOrderOf(S) = 1..Cardinality(S)
  BY <1>1, QueueIs
<1>3. ASSUME NEW k \in 1..Cardinality(S) PROVE InOrderOf(S)[k] = InOrderOf(T)[k]
  <2>1. k \in 1..Cardinality(T) /\ k \in Nat
    BY <1>1, <1>2
  <2>2. ASSUME NEW x \in S PROVE {u \in T : u < x} = {u \in S : u < x}
    <3>1. x \in 1..n /\ x \in Nat
      OBVIOUS
    <3>2. ASSUME NEW u \in T, u < x PROVE u \in S
      BY <3>1, <3>2
    <3> QED BY <3>2
  <2>3. ASSUME NEW x \in T, Cardinality({u \in T : u < x}) = k - 1 PROVE x \in S
    <3>1. SUFFICES ASSUME x \notin S PROVE FALSE
      OBVIOUS
    <3>2. x > n /\ x \in Nat
      BY <3>1
    <3>3. S \subseteq {u \in T : u < x}
      <4> SUFFICES ASSUME NEW u \in S PROVE u \in T /\ u < x
        OBVIOUS
      <4>1. u \in 1..n
        OBVIOUS
      <4> QED BY <3>2, <4>1
    <3>4. IsFiniteSet({u \in T : u < x})
      BY FS_Subset
    <3>5. Cardinality(S) <= Cardinality({u \in T : u < x})
      BY <3>3, <3>4, FS_Subset
    <3> QED BY <1>2, <2>3, <3>5
  <2>4. \A x : (x \in S /\ Cardinality({u \in S : u < x}) = k - 1)
                 <=> (x \in T /\ Cardinality({u \in T : u < x}) = k - 1)
    BY <2>2, <2>3
  <2>5. (CHOOSE x \in S : Cardinality({u \in S : u < x}) = k - 1)
          = CHOOSE x \in T : Cardinality({u \in T : u < x}) = k - 1
    BY <2>4, Zenon
  <2>6. /\ InOrderOf(S)[k] = CHOOSE x \in S : Cardinality({u \in S : u < x}) = k - 1
        /\ InOrderOf(T)[k] = CHOOSE x \in T : Cardinality({u \in T : u < x}) = k - 1
    BY <2>1 DEF InOrderOf
  <2> QED BY <2>5, <2>6
<1>4. SubSeq(InOrderOf(T), 1, Len(InOrderOf(S))) = InOrderOf(S)
  <2>1. PICK s \in Seq({InOrderOf(S)[k] : k \in 1..Cardinality(S)}) : s = InOrderOf(S)
    BY <1>1, QueueIs
  <2>2. PICK t \in Seq({InOrderOf(T)[k] : k \in 1..Cardinality(T)}) : t = InOrderOf(T)
    BY QueueIs
  <2>3. Len(s) \in Nat /\ Len(t) \in Nat /\ Len(s) <= Len(t) /\ \A k \in 1..Len(s) : s[k] = t[k]
    BY <1>1, <1>2, <1>3, <2>1, <2>2
  <2>4. SubSeq(t, 1, Len(s)) = [k \in 1..Len(s) |-> t[k]]
    BY <2>3, SubSeqProperties
  <2>5. s = [k \in 1..Len(s) |-> s[k]]
    OBVIOUS
  <2> QED BY <2>1, <2>2, <2>3, <2>4, <2>5
<1> QED BY <1>1, <1>2, <1>4

\* The first of a queue is its least; without it the others move up.
LEMMA QueueShrinks ==
    ASSUME NEW S \in SUBSET Nat, IsFiniteSet(S), NEW m \in S, \A x \in S : m <= x
    PROVE  InOrderOf(S) # <<>> /\ InOrderOf(S \ {m}) = Tail(InOrderOf(S))
<1>1. /\ IsFiniteSet(S \ {m}) /\ Cardinality(S \ {m}) = Cardinality(S) - 1
  BY FS_RemoveElement
<1>2. /\ Len(InOrderOf(S)) = Cardinality(S) /\ Len(InOrderOf(S \ {m})) = Cardinality(S) - 1
      /\ Cardinality(S) \in Nat /\ Cardinality(S) - 1 \in Nat
      /\ InOrderOf(S) # <<>>
  <2>1. Len(InOrderOf(S)) = Cardinality(S) /\ Cardinality(S) \in Nat /\ InOrderOf(S) # <<>>
    <3>1. S # {}
      OBVIOUS
    <3> QED BY <3>1, QueueIs
  <2>2. /\ Len(InOrderOf(S \ {m})) = Cardinality(S \ {m}) /\ Cardinality(S \ {m}) \in Nat
    BY <1>1, QueueIs
  <2> QED BY <1>1, <2>1, <2>2
<1>3. ASSUME NEW k \in 1..(Cardinality(S) - 1) PROVE InOrderOf(S \ {m})[k] = InOrderOf(S)[k + 1]
  <2>1. k + 1 \in 1..Cardinality(S) /\ k \in 1..Cardinality(S \ {m}) /\ k \in Nat /\ k >= 1
    BY <1>1, <1>2
  <2>2. ASSUME NEW x \in S \ {m}
        PROVE  Cardinality({u \in S : u < x}) = Cardinality({u \in S \ {m} : u < x}) + 1
    <3>1. m < x
      <4>1. m <= x /\ m # x /\ m \in Nat /\ x \in Nat
        OBVIOUS
      <4> QED BY <4>1
    <3>2. {u \in S : u < x} = {u \in S \ {m} : u < x} \cup {m}
      BY <3>1
    <3>3. IsFiniteSet({u \in S \ {m} : u < x}) /\ m \notin {u \in S \ {m} : u < x}
      BY <1>1, FS_Subset
    <3> QED BY <3>2, <3>3, FS_AddElement
  <2>3. Cardinality({u \in S : u < m}) = 0
    <3>1. \A u \in S : ~(u < m)
      <4> SUFFICES ASSUME NEW u \in S PROVE ~(u < m)
        OBVIOUS
      <4>1. m <= u /\ m \in Nat /\ u \in Nat
        OBVIOUS
      <4> QED BY <4>1
    <3>2. {u \in S : u < m} = {}
      BY <3>1
    <3> QED BY <3>2, FS_EmptySet
  <2>4. \A x \in S \ {m} : Cardinality({u \in S \ {m} : u < x}) \in Nat
    <3> SUFFICES ASSUME NEW x \in S \ {m} PROVE Cardinality({u \in S \ {m} : u < x}) \in Nat
      OBVIOUS
    <3>1. IsFiniteSet({u \in S \ {m} : u < x})
      BY <1>1, FS_Subset
    <3> QED BY <3>1, FS_CardinalityType
  <2>5. \A x : (x \in S \ {m} /\ Cardinality({u \in S \ {m} : u < x}) = k - 1)
                 <=> (x \in S /\ Cardinality({u \in S : u < x}) = (k + 1) - 1)
    <3> TAKE x
    <3>1. CASE x = m
      BY <2>1, <2>3, <3>1
    <3>2. CASE x # m /\ x \in S
      BY <2>1, <2>2, <2>4, <3>2
    <3> QED BY <3>1, <3>2
  <2>6. (CHOOSE x \in S \ {m} : Cardinality({u \in S \ {m} : u < x}) = k - 1)
          = CHOOSE x \in S : Cardinality({u \in S : u < x}) = (k + 1) - 1
    BY <2>5, Zenon
  <2>7. /\ InOrderOf(S \ {m})[k]
             = CHOOSE x \in S \ {m} : Cardinality({u \in S \ {m} : u < x}) = k - 1
        /\ InOrderOf(S)[k + 1] = CHOOSE x \in S : Cardinality({u \in S : u < x}) = (k + 1) - 1
    BY <2>1 DEF InOrderOf
  <2> QED BY <2>6, <2>7
<1>4. PICK q \in Seq({InOrderOf(S)[k] : k \in 1..Cardinality(S)}) : q = InOrderOf(S)
  BY QueueIs
<1>5. PICK r \in Seq({InOrderOf(S \ {m})[k] : k \in 1..Cardinality(S \ {m})}) : r = InOrderOf(S \ {m})
  BY <1>1, QueueIs
<1>6. q # <<>> /\ Len(r) = Len(q) - 1 /\ Len(q) \in Nat /\ \A k \in 1..Len(r) : r[k] = q[k + 1]
  BY <1>2, <1>3, <1>4, <1>5
<1>7. PICK u \in Seq({InOrderOf(S)[k] : k \in 1..Cardinality(S)}) :
        u = Tail(q) /\ Len(u) = Len(q) - 1 /\ \A k \in 1..Len(u) : u[k] = q[k + 1]
  <2> DEFINE A == {InOrderOf(S)[k] : k \in 1..Cardinality(S)}
  <2>1. q \in Seq(A) /\ q # <<>>
    BY <1>6
  <2>2. /\ Tail(q) \in Seq(A) /\ Len(Tail(q)) = Len(q) - 1
        /\ \A k \in 1..Len(Tail(q)) : Tail(q)[k] = q[k + 1]
    <3> HIDE DEF A
    <3> QED BY <2>1, HeadTailProperties
  <2> QED BY <2>2
<1>8. Len(u) = Len(r) /\ Len(r) \in Nat /\ \A k \in 1..Len(r) : u[k] = r[k]
  BY <1>6, <1>7
<1>9. r = Tail(q)
  <2>1. r = [k \in 1..Len(r) |-> r[k]] /\ u = [k \in 1..Len(u) |-> u[k]]
    OBVIOUS
  <2> QED BY <1>7, <1>8, <2>1
<1> QED BY <1>4, <1>5, <1>6, <1>9

-----------------------------------------------------------------------------
(* What the contract needs to know                                         *)

\* messages that wait for their turn, and those that had it
Queued == Unprocessed({"message"})
Finished == {s \in Seqs : log[s].type = "message"} \cap processed

\* messages had their turn in receipt order
InReceiptOrder == \A s \in Finished, u \in Queued : s < u

\* a barrier comes from the turn of a message
BarrierFollows == DOMAIN pending # {} => Finished # {}

\* what a terminated Session leaves: no barrier, and a Workflow that a late wakeup
\* starts again finds a finished message before it finds anything else to do
TerminationFollows ==
    status = "terminated" =>
        /\ DOMAIN pending = {}
        /\ \E e \in Finished :
             pc \notin {"none", "close"} /\ (pc \in {"finish", "reply"} => Acking) => cursor < e

\* a turn that has begun and not ended is one of a Session that is not terminated
TurnIsLive == pc \in TurnPcs \ {"prepare"} /\ ~Acking /\ ~turn.committed => status # "terminated"

TerminationIsTold == pc = "reply" /\ ~Acking /\ status = "terminated" => turn.disposition = "terminated"

\* a barrier that is answered runs the Session
AnswersRun == Quiet => (DOMAIN pending # {} /\ FullyClaimed(pending) => status # "idle")

ContractInv == /\ InReceiptOrder /\ BarrierFollows /\ TerminationFollows
               /\ TurnIsLive /\ TerminationIsTold /\ AnswersRun

\* Only these steps change the ledger's events, stamps, rows and status.
LEMMA OnlyTheseWrite ==
    ASSUME Next, ~Admit, ~CompleteTurn, ~RecordModelRetry, ~ResumeModelRetry
    PROVE  UNCHANGED <<log, processed, status, pending>>
<1>1. CASE \E r \in Relays : RelayStep(r) \/ RelayFail(r)
  BY <1>1 DEF RelayStep, RelayRead, RelayDeliver, DeleteWakeupIfUnchanged, RelayFail, ledger
<1>2. CASE FastPathWake \/ LoseReply \/ TakeReply
  BY <1>2 DEF FastPathWake, LoseReply, TakeReply, Outside, ledger
<1>3. CASE ReceiveWakeup \/ EndDrain \/ LoadPendingActions \/ Gate \/ LoadEvents \/ EachEvent
  BY <1>3 DEF ReceiveWakeup, EndDrain, LoadPendingActions, Gate, LoadEvents, EachEvent, Outside, ledger
<1>4. CASE PrepareTurn \/ StartModelRequest \/ Preflight \/ ObserveWakeup
  BY <1>4 DEF PrepareTurn, StartModelRequest, Preflight, ObserveWakeup, Outside, ledger
<1>5. CASE \E r \in Replies : CallModel(r)
  BY <1>5 DEF CallModel, Outside, ledger
<1>6. CASE ExecuteTools \/ ResumeTools \/ StartEvaluation \/ EvaluateOutcome
  BY <1>6 DEF ExecuteTools, ResumeTools, StartEvaluation, EvaluateOutcome, Outside, ledger
<1>7. CASE RetryTimer
  BY <1>7 DEF RetryTimer, Outside, ledger
<1> QED BY <1>1, <1>2, <1>3, <1>4, <1>5, <1>6, <1>7, Zenon DEF Next, WorkflowStep

\* While the ledger stays, so does what is said of it alone.
LEMMA LedgerStays ==
    ASSUME ContractInv, UNCHANGED <<log, processed, status, pending>>
    PROVE  /\ Seqs' = Seqs /\ Queued' = Queued /\ Finished' = Finished
           /\ InReceiptOrder' /\ BarrierFollows' /\ AnswersRun'
<1>1. Seqs' = Seqs /\ Queued' = Queued /\ Finished' = Finished /\ Quiet' = Quiet
      /\ FullyClaimed(pending)' = FullyClaimed(pending)
  BY DEF Seqs, Queued, Unprocessed, Finished, Quiet, FullyClaimed, Range
<1> QED BY <1>1 DEF ContractInv, InReceiptOrder, BarrierFollows, AnswersRun

\* A turn of a message that is terminated has been completed before.
LEMMA FinishedBefore ==
    ASSUME SessionInv, ContractInv, NoOutcomes, status = "terminated", pc = "prepare"
    PROVE  AlreadyCompleted(turn.trigger)
<1>1. /\ SessionTyped /\ Seqs = 1..Len(log) /\ Len(log) \in Nat /\ cursor \in Nat
      /\ pc \in TurnPcs /\ pc \notin {"finish", "reply"} /\ outcome = 0
  BY Numbered DEF SessionInv, SessionTyped, TurnPcs, FailsInLoop
<1>2. ~Acking /\ ~turn.committed
  BY <1>1 DEF SessionInv, TurnProgress, Acking
<1>3. DOMAIN pending = {}
  BY DEF ContractInv, TerminationFollows
<1>4. Range(pending) = {} /\ Claims(pending) = {}
  BY <1>3 DEF Range, Claims
<1>5. batch # <<>> /\ turn.trigger = cursor + 1 /\ turn.trigger \in Seqs /\ turn.trigger # 0
      /\ log[turn.trigger].type \in TriggerTypes
  <2>1. /\ turn.trigger \in Seqs
        /\ batch # <<>> => turn.trigger = cursor + 1 /\ log[turn.trigger].type \in TriggerTypes
        /\ batch = <<>> => Range(pending) = turn.res /\ turn.trigger \in turn.res
    BY <1>1, <1>2 DEF SessionInv, TurnSubject
  <2> QED BY <1>1, <1>4, <2>1
<1>6. PICK e \in Finished : cursor < e
  BY DEF ContractInv, TerminationFollows
<1>7. turn.trigger \in processed
  <2>1. CASE log[turn.trigger].type = "outcome"
    BY <1>5, <2>1 DEF SessionInv, LedgerTyped
  <2>2. CASE log[turn.trigger].type = "message"
    <3>1. SUFFICES ASSUME turn.trigger \notin processed PROVE FALSE
      OBVIOUS
    <3>2. turn.trigger \in Queued
      BY <1>5, <2>2, <3>1 DEF Queued, Unprocessed
    <3>3. e < turn.trigger /\ e \in Nat
      BY <1>1, <3>2 DEF ContractInv, InReceiptOrder, Finished
    <3> QED BY <1>1, <1>5, <1>6, <3>3
  <2> QED BY <1>5, <2>1, <2>2 DEF TriggerTypes
<1> QED BY <1>1, <1>4, <1>5, <1>7 DEF AlreadyCompleted

\* In a terminated Session only a finished turn is left, or one that finds itself
\* finished, or an interrupt that is acknowledged again.
LEMMA TerminatedPlaces ==
    ASSUME SessionInv, ContractInv, NoOutcomes, status = "terminated"
    PROVE  /\ pc \in {"none", "wait", "pending", "load", "each", "drained", "close", "prepare", "finish", "reply"}
           /\ pc \in {"finish", "reply"} => Acking \/ turn.committed
           /\ pc \in {"finish", "reply"} => AlreadyCompleted(turn.trigger)
           /\ pc = "prepare" => AlreadyCompleted(turn.trigger) /\ turn.ask = "none"
<1>1. SessionTyped /\ pc \in Pcs /\ outcome = 0 /\ DOMAIN pending = {}
  BY DEF SessionInv, SessionTyped, FailsInLoop, ContractInv, TerminationFollows
<1>2. pc # "gate"
  BY <1>1 DEF SessionInv, BarrierRead
<1>3. Claims(pending) = {}
  BY <1>1 DEF Claims, Range
<1>4. ASSUME pc \in TurnPcs \ {"prepare", "finish", "reply"} PROVE FALSE
  <2>1. turn.ask = "none" /\ ~turn.committed
    BY <1>4 DEF SessionInv, TurnProgress
  <2> QED BY <1>4, <2>1 DEF ContractInv, TurnIsLive, Acking
<1>5. ASSUME pc \in {"finish", "reply"} PROVE (Acking \/ turn.committed) /\ AlreadyCompleted(turn.trigger)
  <2>1. pc \in TurnPcs \ {"prepare"}
    BY <1>5 DEF TurnPcs
  <2>2. Acking \/ turn.committed
    BY <2>1 DEF ContractInv, TurnIsLive
  <2>3. turn.trigger \in Seqs /\ turn.trigger # 0
    <3>1. turn.trigger \in Seqs
      BY <2>1 DEF SessionInv, TurnSubject
    <3> QED BY <1>1, <3>1, Numbered
  <2>4. turn.trigger \in processed
    <3>1. CASE turn.committed
      BY <2>1, <3>1 DEF SessionInv, TurnProgress
    <3>2. CASE Acking
      <4>1. log[turn.trigger].type = "interrupt" /\ Interrupts = {}
        BY <2>1, <3>2 DEF SessionInv, TurnSubject, TerminationStands
      <4> QED BY <2>3, <4>1 DEF Interrupts, Unprocessed
    <3> QED BY <2>2, <3>1, <3>2
  <2> QED BY <1>1, <1>3, <2>2, <2>3, <2>4 DEF AlreadyCompleted
<1>6. ASSUME pc = "prepare" PROVE AlreadyCompleted(turn.trigger) /\ turn.ask = "none"
  BY <1>6, FinishedBefore DEF SessionInv, TurnProgress, TurnPcs
<1> QED BY <1>1, <1>2, <1>4, <1>5, <1>6 DEF Pcs

-----------------------------------------------------------------------------
(* A terminated Session                                                    *)

\* what a step may do while the Session is terminated: the Workflow closes, or
\* starts again, or goes on behind a message that was finished, or replays
WindsDown ==
    \/ UNCHANGED <<pc, cursor, turn>>
    \/ pc' \in {"none", "close"}
    \/ pc' = "wait" /\ cursor' = 0
    \/ /\ pc \in {"wait", "pending", "load", "each", "drained"} \/ (Acking /\ pc = "reply")
       /\ pc' \in {"wait", "pending", "load", "each", "drained", "prepare", "finish"}
       /\ pc' = "finish" => turn'.ask = "ack"
       /\ cursor' = cursor \/ (cursor' = cursor + 1 /\ cursor + 1 \in Seqs /\ log[cursor + 1].type # "message")
    \/ /\ pc \in {"finish", "reply"} /\ pc' \in {"finish", "reply"} /\ cursor' = cursor
       /\ turn'.ask = turn.ask /\ turn'.committed = turn.committed
       /\ pc' = "reply" => turn'.disposition = "terminated"

\* Winding down keeps the invariant.
LEMMA WindsDownStep ==
    ASSUME SessionInv, ContractInv, NoOutcomes, status = "terminated", WindsDown,
           UNCHANGED <<log, processed, status, pending>>
    PROVE  ContractInv'
<1>1. /\ Seqs' = Seqs /\ Finished' = Finished /\ InReceiptOrder' /\ BarrierFollows' /\ AnswersRun'
  BY LedgerStays
<1>2. /\ Seqs = 1..Len(log) /\ Len(log) \in Nat /\ cursor \in Nat
  BY Numbered DEF SessionInv, SessionTyped
<1>3. PICK e \in Finished : pc \notin {"none", "close"} /\ (pc \in {"finish", "reply"} => Acking) => cursor < e
  BY DEF ContractInv, TerminationFollows
<1>4. e \in Seqs /\ log[e].type = "message" /\ e \in Nat /\ 0 < e
  <2>1. e \in Seqs /\ log[e].type = "message"
    BY DEF Finished
  <2> QED BY <1>2, <2>1
<1>5. DOMAIN pending' = {}
  BY DEF ContractInv, TerminationFollows
<1>6. pc' \notin {"none", "close"} /\ (pc' \in {"finish", "reply"} => Acking') => cursor' < e
  <2>1. CASE UNCHANGED <<pc, cursor, turn>>
    BY <1>3, <2>1 DEF Acking
  <2>2. CASE pc' \in {"none", "close"}
    BY <2>2
  <2>3. CASE pc' = "wait" /\ cursor' = 0
    BY <1>4, <2>3
  <2>4. CASE /\ pc \in {"wait", "pending", "load", "each", "drained"} \/ (Acking /\ pc = "reply")
             /\ cursor' = cursor \/ (cursor' = cursor + 1 /\ cursor + 1 \in Seqs /\ log[cursor + 1].type # "message")
    <3>1. cursor < e
      BY <1>3, <2>4
    <3>2. CASE cursor' = cursor
      BY <3>1, <3>2
    <3>3. CASE cursor' = cursor + 1 /\ log[cursor + 1].type # "message"
      <4>1. e # cursor + 1
        BY <1>4, <3>3
      <4> QED BY <1>2, <1>4, <3>1, <3>3, <4>1
    <3> QED BY <2>4, <3>2, <3>3
  <2>5. CASE /\ pc \in {"finish", "reply"} /\ pc' \in {"finish", "reply"} /\ cursor' = cursor
             /\ turn'.ask = turn.ask
    BY <1>3, <2>5 DEF Acking
  <2> QED BY <2>1, <2>2, <2>3, <2>4, <2>5 DEF WindsDown
<1>7. TerminationFollows'
  BY <1>1, <1>5, <1>6 DEF TerminationFollows
<1>8. pc \in {"finish", "reply"} => Acking \/ turn.committed
  BY TerminatedPlaces
<1>9. TurnIsLive'
  <2>1. TurnIsLive
    BY DEF ContractInv
  <2>2. CASE UNCHANGED <<pc, cursor, turn>>
    BY <2>1, <2>2 DEF TurnIsLive, Acking
  <2>3. CASE ~UNCHANGED <<pc, cursor, turn>>
    BY <1>8, <2>3 DEF WindsDown, TurnIsLive, Acking, TurnPcs
  <2> QED BY <2>2, <2>3
<1>10. TerminationIsTold'
  <2>1. TerminationIsTold
    BY DEF ContractInv
  <2> QED BY <2>1 DEF WindsDown, TerminationIsTold, Acking
<1> QED BY <1>1, <1>7, <1>9, <1>10 DEF ContractInv

\* A wakeup finds the Workflow where it is, or starts it again.
LEMMA WakeWindsDown == ASSUME Wake PROVE WindsDown
BY DEF Wake, WindsDown, workflow

\* The drain of a terminated Session winds down.
LEMMA DrainWindsDown ==
    ASSUME SessionInv, ContractInv, NoOutcomes, status = "terminated",
           ReceiveWakeup \/ EndDrain \/ LoadPendingActions \/ Gate \/ LoadEvents \/ EachEvent
    PROVE  WindsDown
<1>1. DOMAIN pending = {} /\ pc # "gate"
  BY TerminatedPlaces DEF ContractInv, TerminationFollows
<1>2. CASE ReceiveWakeup
  BY <1>2 DEF ReceiveWakeup, WindsDown
<1>3. CASE EndDrain
  BY <1>3 DEF EndDrain, WindsDown
<1>4. CASE LoadPendingActions \/ Gate
  BY <1>1, <1>4 DEF LoadPendingActions, Gate, WindsDown
<1>5. CASE LoadEvents
  BY <1>5 DEF LoadEvents, WindsDown
<1>6. CASE EachEvent
  <2>1. pc = "each" /\ batch # <<>>
    BY <1>6 DEF EachEvent, SessionInv, BatchFollows
  <2>2. PICK s : s = Head(batch) /\ s = cursor + 1 /\ s \in Seqs
    BY <2>1, BatchHead
  <2>3. turn \in TurnType
    BY DEF SessionInv, SessionTyped
  <2>4. CASE log[s].type \in TriggerTypes
    BY <1>6, <2>1, <2>2, <2>4 DEF EachEvent, BeginTurn, WindsDown
  <2>5. CASE log[s].type = "interrupt"
    <3>1. pc' = "finish" /\ turn'.ask = "ack" /\ cursor' = cursor
      BY <1>6, <2>1, <2>2, <2>5 DEF EachEvent, Acknowledge, NoTurn, TriggerTypes
    <3> QED BY <2>1, <3>1 DEF WindsDown
  <2>6. CASE log[s].type \notin TriggerTypes \cup {"interrupt"}
    <3>1. pc' \in {"pending", "each"} /\ cursor' = s
      BY <1>6, <2>1, <2>2, <2>6 DEF EachEvent, Advance
    <3>2. cursor + 1 \in Seqs /\ log[cursor + 1].type # "message"
      BY <2>2, <2>6 DEF TriggerTypes
    <3> QED BY <2>1, <2>2, <3>1, <3>2 DEF WindsDown
  <2> QED BY <2>4, <2>5, <2>6
<1> QED BY <1>2, <1>3, <1>4, <1>5, <1>6

\* So do what is left of its turns.
LEMMA TurnWindsDown ==
    ASSUME SessionInv, ContractInv, NoOutcomes, status = "terminated",
           PrepareTurn \/ CompleteTurn \/ TakeReply \/ LoseReply
    PROVE  WindsDown
<1>1. /\ pc \in {"finish", "reply"} => AlreadyCompleted(turn.trigger) /\ (Acking \/ turn.committed)
      /\ pc = "prepare" => AlreadyCompleted(turn.trigger) /\ turn.ask = "none"
  BY TerminatedPlaces
<1>2. turn \in TurnType
  BY DEF SessionInv, SessionTyped
<1>3. CASE PrepareTurn
  <2>1. TurnResult("terminated") /\ turn.ask = "none"
    BY <1>1, <1>3 DEF PrepareTurn
  <2> QED BY <2>1 DEF TurnResult, WindsDown
<1>4. CASE CompleteTurn
  <2>1. /\ pc = "finish" /\ pc' = "reply" /\ cursor' = cursor
        /\ turn' = [turn EXCEPT !.disposition = "terminated"]
    BY <1>1, <1>4 DEF CompleteTurn, Replay, ReplayedDisposition
  <2>2. turn'.ask = turn.ask /\ turn'.committed = turn.committed /\ turn'.disposition = "terminated"
    BY <1>2, <2>1 DEF TurnType
  <2> QED BY <2>1, <2>2 DEF WindsDown
<1>5. CASE TakeReply
  <2>1. pc = "reply" /\ pc \in TurnPcs /\ TurnResult(turn.disposition)
    BY <1>5 DEF TakeReply, TurnPcs
  <2>2. CASE ~Acking
    <3>1. turn.disposition = "terminated"
      BY <2>1, <2>2 DEF ContractInv, TerminationIsTold
    <3> QED BY <2>1, <2>2, <3>1 DEF TurnResult, WindsDown, Acking
  <2>3. CASE Acking /\ batch = <<>>
    <3>1. pc' = "pending" /\ cursor' = cursor
      BY <2>1, <2>3 DEF TurnResult, Acking
    <3> QED BY <2>1, <2>3, <3>1 DEF WindsDown
  <2>4. CASE Acking /\ batch # <<>>
    <3>1. pc' \in {"pending", "each"} /\ cursor' = Head(batch)
      BY <2>1, <2>4 DEF TurnResult, Acking, Advance
    <3>2. Head(batch) = cursor + 1 /\ cursor + 1 \in Seqs
      BY <2>4, BatchHead
    <3>3. log[cursor + 1].type # "message"
      BY <2>1, <2>4 DEF SessionInv, TurnSubject
    <3> QED BY <2>1, <2>4, <3>1, <3>2, <3>3 DEF WindsDown
  <2> QED BY <2>2, <2>3, <2>4
<1>6. CASE LoseReply
  <2>1. pc = "reply" /\ pc' = "finish" /\ cursor' = cursor /\ turn' = turn
    BY <1>6 DEF LoseReply
  <2> QED BY <2>1 DEF WindsDown
<1> QED BY <1>3, <1>4, <1>5, <1>6

\* Every step of a terminated Session leaves its ledger alone.
LEMMA TerminatedStep ==
    ASSUME SessionInv, ContractInv, NoOutcomes, status = "terminated", Next
    PROVE  ContractInv' /\ UNCHANGED <<log, processed, status, pending>>
<1>1. /\ pc \in {"none", "wait", "pending", "load", "each", "drained", "close", "prepare", "finish", "reply"}
      /\ pc \in {"finish", "reply"} => AlreadyCompleted(turn.trigger)
  BY TerminatedPlaces
<1>2. ASSUME Admit PROVE FALSE
  BY <1>2 DEF Admit, AdmitEvents, Admissible
<1>3. ASSUME \/ StartModelRequest \/ Preflight \/ ObserveWakeup \/ (\E r \in Replies : CallModel(r))
             \/ ExecuteTools \/ ResumeTools \/ StartEvaluation \/ EvaluateOutcome
             \/ RecordModelRetry \/ RetryTimer \/ ResumeModelRetry
      PROVE  FALSE
  BY <1>1, <1>3 DEF StartModelRequest, Preflight, ObserveWakeup, CallModel, ExecuteTools, ResumeTools,
       StartEvaluation, EvaluateOutcome, RecordModelRetry, RetryTimer, ResumeModelRetry, Interruptible
<1>4. ASSUME FastPathWake PROVE WindsDown
  BY <1>4, WakeWindsDown DEF FastPathWake, WindsDown, workflow
<1>5. ASSUME \E r \in Relays : RelayStep(r) \/ RelayFail(r) PROVE WindsDown
  <2>1. PICK r \in Relays : RelayRead(r) \/ RelayDeliver(r) \/ DeleteWakeupIfUnchanged(r) \/ RelayFail(r)
    BY <1>5 DEF RelayStep
  <2>2. CASE RelayDeliver(r)
    BY <2>2, WakeWindsDown DEF RelayDeliver
  <2>3. CASE RelayRead(r) \/ DeleteWakeupIfUnchanged(r) \/ RelayFail(r)
    BY <2>3 DEF RelayRead, DeleteWakeupIfUnchanged, RelayFail, WindsDown, workflow
  <2> QED BY <2>1, <2>2, <2>3
<1>6. WindsDown
  BY <1>2, <1>3, <1>4, <1>5, DrainWindsDown, TurnWindsDown, Zenon DEF Next, WorkflowStep
<1>7. UNCHANGED <<log, processed, status, pending>>
  <2>1. CASE CompleteTurn
    <3>1. pc = "finish"
      BY <2>1 DEF CompleteTurn
    <3>2. UNCHANGED ledger
      BY <1>1, <2>1, <3>1 DEF CompleteTurn, Replay
    <3> QED BY <3>2 DEF ledger
  <2>2. CASE ~CompleteTurn
    BY <1>2, <1>3, <2>2, OnlyTheseWrite
  <2> QED BY <2>1, <2>2
<1> QED BY <1>6, <1>7, WindsDownStep

-----------------------------------------------------------------------------
(* The steps of the contract                                               *)

\* the contract's variables, as the refinement maps them
Queue == InOrderOf(Queued)
Awaits == DOMAIN pending # {}
IdlesOf(l) == {s \in DOMAIN l : l[s].type = "idle"}
StopOf(l) == IF IdlesOf(l) = {} THEN "none" ELSE l[Max(IdlesOf(l))].reason

\* A step that keeps what the contract sees.
LEMMA Unseen ==
    ASSUME status' = status, Queued' = Queued, Awaits' = Awaits, StopOf(log') = StopOf(log)
    PROVE  UNCHANGED Contract!vars
<1>1. Queue' = Queue
  BY DEF Queue, InOrderOf
<1> QED BY <1>1 DEF Contract!vars, Queue, Queued, Awaits, StopOf, IdlesOf, Seqs

\* What the step of the contract is that accepts input, through the mapping.
LEMMA Accepts ==
    ASSUME status \in {"running", "rescheduling"} \/ (status = "idle" /\ Awaits),
           Len(Queue') >= Len(Queue), SubSeq(Queue', 1, Len(Queue)) = Queue,
           status' = status, Awaits' = Awaits, StopOf(log') = StopOf(log)
    PROVE  Contract!Next
BY DEF Contract!Next, Contract!Accept, Contract!Extends, Contract!Active, Queue, Queued, Awaits, StopOf, IdlesOf, Seqs

\* The step that starts the Session,
LEMMA Starts ==
    ASSUME status = "idle", status' = "running",
           Len(Queue') >= Len(Queue), SubSeq(Queue', 1, Len(Queue)) = Queue, Awaits \/ Queue' # Queue,
           Awaits' = Awaits, StopOf(log') = StopOf(log)
    PROVE  Contract!Next
BY DEF Contract!Next, Contract!Start, Contract!Extends, Queue, Queued, Awaits, StopOf, IdlesOf, Seqs

\* a retry or the resumption after it,
LEMMA Reschedules ==
    ASSUME <<status, status'>> \in {<<"running", "rescheduling">>, <<"rescheduling", "running">>},
           Queue' = Queue, Awaits' = Awaits, StopOf(log') = StopOf(log)
    PROVE  Contract!Next
BY DEF Contract!Next, Contract!Reschedule, Queue, Queued, Awaits, StopOf, IdlesOf, Seqs

\* the queue after the end of a turn
Answers ==
    \/ ~Awaits /\ Queue # <<>> /\ Queue' = Tail(Queue)
    \/ Awaits /\ Queue' = Queue

\* the end of a turn that leaves the Session idle,
LEMMA EndsIdle ==
    ASSUME status \in {"running", "rescheduling"}, Answers, Awaits' \/ Queue' = <<>>, status' = "idle",
           StopOf(log') = IF Awaits' THEN "requires_action" ELSE "end_turn"
    PROVE  Contract!Next
BY DEF Contract!Next, Contract!EndTurn, Contract!Answered, Contract!Active, Answers, Queue, Queued, Awaits,
       StopOf, IdlesOf, Seqs

\* the end of a turn that leaves it running,
LEMMA EndsRunning ==
    ASSUME status \in {"running", "rescheduling"}, Answers, ~Awaits', Queue' # <<>>, status' = "running",
           StopOf(log') \in {StopOf(log), "end_turn"}
    PROVE  Contract!Next
BY DEF Contract!Next, Contract!EndTurn, Contract!Answered, Contract!Active, Answers, Queue, Queued, Awaits,
       StopOf, IdlesOf, Seqs

\* the end of exhausted retries,
LEMMA GivesUp ==
    ASSUME status = "running", status' = "idle", Queue' = <<>>, ~Awaits', StopOf(log') = "retries_exhausted"
    PROVE  Contract!Next
BY DEF Contract!Next, Contract!GiveUp, Queue, Queued, Awaits, StopOf, IdlesOf, Seqs

\* and a failure for good.
LEMMA Terminates ==
    ASSUME status = "running", status' = "terminated", ~Awaits', Answers, StopOf(log') = StopOf(log)
    PROVE  Contract!Next
BY DEF Contract!Next, Contract!Terminate, Contract!Answered, Answers, Queue, Queued, Awaits,
       StopOf, IdlesOf, Seqs

\* The reason of the last idle of a ledger.
LEMMA StopFacts ==
    ASSUME NEW n \in Nat, NEW l, DOMAIN l = 1..n, NEW k \in DOMAIN l, l[k].type = "idle",
           \A s \in DOMAIN l : l[s].type = "idle" => s <= k
    PROVE  StopOf(l) = l[k].reason
<1>1. IdlesOf(l) \in SUBSET (0..n) /\ k \in IdlesOf(l)
  BY DEF IdlesOf
<1>2. PICK m : m = Max(IdlesOf(l))
  OBVIOUS
<1>3. m \in IdlesOf(l) /\ \A x \in IdlesOf(l) : x <= m
  BY <1>1, <1>2, MaxIsGreatest
<1>4. m = k
  <2>1. m <= k /\ k <= m
    BY <1>1, <1>3 DEF IdlesOf
  <2>2. m \in Nat /\ k \in Nat
    BY <1>3 DEF IdlesOf
  <2> QED BY <2>1, <2>2
<1> QED BY <1>1, <1>2, <1>4 DEF StopOf

\* A ledger that grows by other events keeps it.
LEMMA StopStays ==
    ASSUME NEW n \in Nat, NEW l, DOMAIN l = 1..n, NEW m, DOMAIN l \subseteq DOMAIN m,
           \A s \in DOMAIN l : m[s] = l[s],
           \A s \in DOMAIN m \ DOMAIN l : m[s].type # "idle"
    PROVE  StopOf(m) = StopOf(l)
<1>1. IdlesOf(m) = IdlesOf(l) /\ IdlesOf(l) \in SUBSET (0..n) /\ IdlesOf(l) \subseteq DOMAIN l
  BY DEF IdlesOf
<1>2. CASE IdlesOf(l) = {}
  BY <1>1, <1>2 DEF StopOf
<1>3. CASE IdlesOf(l) # {}
  <2>1. Max(IdlesOf(l)) \in IdlesOf(l)
    BY <1>1, <1>3, MaxIsGreatest
  <2> QED BY <1>1, <2>1 DEF StopOf
<1> QED BY <1>2, <1>3

\* The messages of a ledger are finitely many numbers.
LEMMA QueuedFacts ==
    ASSUME NEW n \in Nat, NEW S \in SUBSET (1..n)
    PROVE  S \in SUBSET Nat /\ IsFiniteSet(S) /\ (S = {} <=> InOrderOf(S) = <<>>)
<1>1. IsFiniteSet(1..n)
  BY FS_Interval
<1>2. IsFiniteSet(S)
  BY <1>1, FS_Subset
<1>3. S = {} <=> InOrderOf(S) = <<>>
  BY <1>2, QueueIs
<1>4. S \in SUBSET Nat
  OBVIOUS
<1> QED BY <1>2, <1>3, <1>4

\* Admission accepts input, or starts the Session, or is not seen.
LEMMA AdmissionSeen ==
    ASSUME SessionInv, NoOutcomes,
           NEW made \in BOOLEAN, NEW woken \in BOOLEAN, Admission(made, woken)
    PROVE  Contract!Next \/ UNCHANGED Contract!vars
<1>1. /\ SessionTyped /\ Seqs = 1..Len(log) /\ Len(log) \in Nat
      /\ pending \in [DOMAIN pending -> Seqs \cup {0}]
      /\ status \in {"idle", "running", "rescheduling", "terminated"}
  BY Numbered DEF SessionInv, SessionTyped, IsRows
<1>2. /\ status # "terminated"
      /\ \A s \in Seqs : s \in Seqs' /\ log'[s] = log[s]
      /\ \A s \in Seqs' \ Seqs : log'[s].type \in Inputs \cup ResolutionTypes \cup {"running"}
      /\ \A s \in processed' \ processed : s \notin Seqs /\ log'[s].type \notin {"message", "interrupt"}
      /\ pending' \in [DOMAIN pending -> Seqs' \cup {0}] /\ DOMAIN pending' = DOMAIN pending
      /\ status' = IF made /\ status = "idle" THEN "running" ELSE status
      /\ made => pending' # pending \/ \E s \in Seqs' \ Seqs : log'[s].type \in TriggerTypes
      /\ processed \subseteq processed'
  BY DEF Admission
<1>3. /\ Queued \subseteq Queued' /\ \A s \in Queued' : s \in Queued \/ s > Len(log)
      /\ DOMAIN pending = {} /\ ~made => Queued' = Queued
  BY AdmissionFacts DEF Queued
<1>4. Awaits' = Awaits
  BY <1>2 DEF Awaits
<1>5. StopOf(log') = StopOf(log)
  <2>1. \A s \in Seqs' \ Seqs : log'[s].type # "idle"
    BY <1>2, SessionRuntimeAssumption DEF TriggerTypes, ResolutionTypes
  <2> QED BY <1>1, <1>2, <2>1, StopStays DEF Seqs
<1>6. /\ Len(Queue') >= Len(Queue) /\ SubSeq(Queue', 1, Len(Queue)) = Queue
      /\ Queued' # Queued => Queue' # Queue
  <2>1. Queued \in SUBSET (1..Len(log))
    BY <1>1 DEF Queued, Unprocessed
  <2>3. Queued' \in SUBSET (1..Len(log')) /\ Len(log') \in Nat
    BY DEF Admission, Queued, Unprocessed
  <2>4. Queued' \in SUBSET Nat /\ IsFiniteSet(Queued')
    BY <2>3, QueuedFacts
  <2>2. Queue' = InOrderOf(Queued')
    BY DEF Queue, InOrderOf
  <2> QED BY <1>1, <1>3, <2>1, <2>2, <2>4, QueueGrows DEF Queue
<1>7. CASE status \in {"running", "rescheduling"} \/ (status = "idle" /\ Awaits /\ ~made)
  BY <1>2, <1>4, <1>5, <1>6, <1>7, Accepts
<1>8. CASE status = "idle" /\ made
  <2>1. Awaits \/ Queue' # Queue
    <3>1. SUFFICES ASSUME ~Awaits PROVE Queued' # Queued
      BY <1>6
    <3>2. pending' = pending
      BY <1>1, <1>2, <3>1 DEF Awaits
    <3>3. PICK s \in Seqs' \ Seqs : log'[s].type \in TriggerTypes
      BY <1>2, <1>8, <3>2
    <3>4. log'[s].type = "message"
      BY <1>2, <3>3 DEF NoOutcomes, TriggerTypes, ResolutionTypes
    <3>5. s \notin processed'
      <4>1. processed \subseteq Seqs
        BY <1>1 DEF SessionTyped
      <4> QED BY <1>2, <3>4, <4>1
    <3>6. s \in Queued' /\ s \notin Queued
      BY <3>4, <3>5 DEF Queued, Unprocessed
    <3> QED BY <3>6
  <2> QED BY <1>2, <1>4, <1>5, <1>6, <1>8, <2>1, Starts
<1>9. CASE status = "idle" /\ ~Awaits /\ ~made
  <2>1. Queued' = Queued
    BY <1>3, <1>9 DEF Awaits
  <2> QED BY <1>2, <1>4, <1>5, <1>9, <2>1, Unseen
<1> QED BY <1>1, <1>2, <1>7, <1>8, <1>9

\* A retryable failure and the resumption after it.
LEMMA RetrySeen ==
    ASSUME SessionInv, RecordModelRetry \/ ResumeModelRetry
    PROVE  Contract!Next
<1>1. SessionTyped /\ Seqs = 1..Len(log) /\ Len(log) \in Nat /\ log \in Seq(EventType) /\ turn.trigger \in Nat
  BY Numbered DEF SessionInv, SessionTyped, TurnType
<1>2. PICK type \in {"rescheduled", "running"} :
        /\ log' = Append(log, Event(type, turn.trigger, "none"))
        /\ <<status, status'>> \in {<<"running", "rescheduling">>, <<"rescheduling", "running">>}
        /\ processed' = processed /\ pending' = pending
  BY DEF RecordModelRetry, ResumeModelRetry
<1>3. PICK e \in EventType : e = Event(type, turn.trigger, "none") /\ e.type = type
  <2>1. type \in EventTypes /\ "none" \in Reasons
    BY DEF EventTypes, StatusTypes, Reasons
  <2> QED BY <1>1, <2>1, EventFacts
<1>4. /\ Seqs' = 1..(Len(log) + 1) /\ Seqs \subseteq Seqs'
      /\ \A s \in Seqs : log'[s] = log[s]
      /\ \A s \in Seqs' : s \in Seqs \/ (s = Len(log) + 1 /\ log'[s] = e)
  BY <1>1, <1>2, <1>3 DEF Seqs
<1>5. Queued' = Queued
  BY <1>2, <1>3, <1>4 DEF Queued, Unprocessed
<1>6. Queue' = Queue
  BY <1>5 DEF Queue, InOrderOf
<1>7. StopOf(log') = StopOf(log)
  <2>1. \A s \in Seqs' \ Seqs : log'[s].type # "idle"
    BY <1>3, <1>4
  <2> QED BY <1>1, <1>4, <2>1, StopStays DEF Seqs
<1>8. Awaits' = Awaits
  BY <1>2 DEF Awaits
<1> QED BY <1>2, <1>6, <1>7, <1>8, Reschedules

\* The reason a completion gives is the last one that was given.
LEMMA CompletionStop ==
    ASSUME SessionInv, NEW acts, NEW new, Completion(acts, new)
    PROVE  \/ StopOf(log') = EndReason(acts) /\ status' # "terminated"
           \/ StopOf(log') = StopOf(log) /\ status' # "idle"
<1>1. SessionTyped /\ new \in Seq(EventType) /\ log' = log \o new /\ Len(acts) \in Nat
  BY DEF SessionInv, Completion
<1>2. /\ Seqs = 1..Len(log) /\ Seqs' = 1..Len(log') /\ Len(log) \in Nat /\ Len(log') \in Nat /\ Len(new) \in Nat
      /\ Seqs \subseteq Seqs' /\ \A s \in Seqs : log'[s] = log[s]
      /\ \A k \in 1..Len(new) : log'[Len(log) + k] = new[k] /\ Len(log) + k \in Seqs' \ Seqs
      /\ \A s \in Seqs' : s \in Seqs \/ \E k \in 1..Len(new) : s = Len(log) + k
  <2>1. log' \in Seq(EventType) /\ Seqs' = 1..Len(log')
    BY <1>1, Grown
  <2>2. Len(log') \in Nat
    BY <2>1
  <2> QED BY <1>1, <2>2, Grown
<1>3. /\ \A k \in 1..Len(new) : /\ new[k].type \in EndTypes => k = Len(acts) + 1
                                /\ new[k].type = "idle" => new[k].reason = EndReason(acts)
      /\ \/ \E k \in 1..Len(new) : new[k].type \in StatusTypes /\ status' = Shown(new[k].type)
         \/ status' = "running"
  BY DEF Completion
<1>4. CASE \E k \in 1..Len(new) : new[k].type = "idle"
  <2>1. PICK k \in 1..Len(new) : new[k].type = "idle"
    BY <1>4
  <2>2. PICK s \in Seqs' : s = Len(log) + k /\ log'[s].type = "idle" /\ log'[s].reason = EndReason(acts)
    BY <1>2, <1>3, <2>1
  <2>3. \A j \in 1..Len(new) : new[j].type \in EndTypes => j = k
    BY <1>3, <2>1 DEF EndTypes
  <2>4. ASSUME NEW u \in Seqs', log'[u].type = "idle" PROVE u <= s
    <3>1. CASE u \in Seqs
      BY <1>2, <2>1, <2>2, <3>1
    <3>2. CASE u \notin Seqs
      <4>1. PICK j \in 1..Len(new) : u = Len(log) + j
        BY <1>2, <3>2
      <4>2. j = k
        BY <1>2, <2>3, <2>4, <4>1 DEF EndTypes
      <4> QED BY <1>2, <2>2, <4>1, <4>2
    <3> QED BY <3>1, <3>2
  <2>5. StopOf(log') = EndReason(acts)
    BY <1>2, <2>2, <2>4, StopFacts DEF Seqs
  <2>6. status' # "terminated"
    <3>1. SUFFICES ASSUME status' = "terminated" PROVE FALSE
      OBVIOUS
    <3>2. PICK j \in 1..Len(new) : new[j].type \in StatusTypes /\ status' = Shown(new[j].type)
      BY <1>3, <3>1
    <3>3. new[j].type = "terminated"
      BY <3>1, <3>2 DEF Shown, StatusTypes
    <3> QED BY <2>1, <2>3, <3>3 DEF EndTypes
  <2> QED BY <2>5, <2>6
<1>5. CASE \A k \in 1..Len(new) : new[k].type # "idle"
  <2>1. ASSUME NEW s \in Seqs' \ Seqs PROVE log'[s].type # "idle"
    <3>1. PICK k \in 1..Len(new) : s = Len(log) + k
      BY <1>2
    <3>2. log'[s] = new[k]
      BY <1>2, <3>1
    <3> QED BY <1>5, <3>2
  <2>2. StopOf(log') = StopOf(log)
    BY <1>2, <2>1, StopStays DEF Seqs
  <2>3. status' # "idle"
    <3>1. ASSUME NEW k \in 1..Len(new), new[k].type \in StatusTypes, status' = Shown(new[k].type)
          PROVE  status' # "idle"
      <4>1. new[k].type # "idle"
        BY <1>5
      <4> QED BY <3>1, <4>1 DEF Shown, StatusTypes
    <3> QED BY <1>3, <3>1
  <2> QED BY <2>2, <2>3
<1> QED BY <1>4, <1>5

\* What the first completion of a turn finds, and does to the queue: the turn of
\* a message is the turn of the first one, the others resume a barrier.
LEMMA CompletionMoves ==
    ASSUME SessionInv, NoOutcomes, pc = "finish", ~Acking, ~turn.committed, ~AlreadyCompleted(turn.trigger),
           NEW acts, NEW new, Completion(acts, new)
    PROVE  /\ Seqs \subseteq Seqs' /\ (\A s \in Seqs : log'[s] = log[s])
           /\ \/ /\ turn.trigger \in Queued /\ DOMAIN pending = {}
                 /\ \A x \in Queued : turn.trigger <= x
              \/ turn.trigger \notin Queued /\ DOMAIN pending # {} /\ FullyClaimed(pending)
           /\ Queued' = IF InterruptOf(turn.trigger) = 0 /\ turn.ask = "exhausted"
                          THEN {} ELSE Queued \ {turn.trigger}
           /\ Finished' = Finished \cup (Queued \ Queued')
           /\ DOMAIN pending' # {} <=> acts # <<>>
           /\ \A a \in DOMAIN pending' : pending'[a] = 0
           /\ Waiting(turn.trigger) = Queued \ {turn.trigger}
<1>1. PICK t : t = turn.trigger
  OBVIOUS
<1>2. PICK i : i = InterruptOf(turn.trigger)
  OBVIOUS
<1>3. /\ t \in Seqs /\ t \in Nat /\ t # 0
      /\ i # 0 => i \in Interrupts
      /\ AnsweredBy(t) \subseteq Seqs /\ t \in AnsweredBy(t)
      /\ \A s \in AnsweredBy(t) : s = t \/ log[s].type \in ResolutionTypes
  BY <1>1, <1>2, Completing
<1>4. /\ SessionTyped /\ log \in Seq(EventType) /\ Seqs = 1..Len(log) /\ Len(log) \in Nat
      /\ processed \subseteq Seqs /\ cursor \in Nat /\ pc \in TurnPcs /\ outcome = 0
  BY Numbered DEF SessionInv, SessionTyped, TurnPcs, FailsInLoop
<1>5. new \in Seq(EventType) /\ log' = log \o new /\ acts \in Seq(ActionTypes)
  BY DEF Completion
<1>6. /\ Seqs \subseteq Seqs' /\ \A s \in Seqs : log'[s] = log[s]
      /\ \A k \in 1..Len(new) : log'[Len(log) + k] = new[k]
      /\ \A s \in Seqs' : s \in Seqs \/ \E k \in 1..Len(new) : s = Len(log) + k
  BY <1>4, <1>5, Grown
<1>7. \A s \in Seqs' \ Seqs : log'[s].type # "message"
  <2>1. \A k \in 1..Len(new) : new[k].type # "message"
    BY DEF Completion, ActionTypes
  <2> QED BY <1>6, <2>1
<1>8. processed' = processed \cup AnsweredBy(t) \cup ({i} \ {0})
                     \cup IF i = 0 /\ turn.ask = "exhausted" THEN Waiting(t) ELSE {}
  BY <1>1, <1>2 DEF Completion
<1>9. \A s \in Interrupts : s \in Seqs /\ log[s].type = "interrupt"
  BY DEF Interrupts, Unprocessed
<1>10. Waiting(t) = Queued \ {t}
  BY DEF Waiting, Queued
<1>11. \A s : s \in Queued <=> s \in Seqs /\ log[s].type = "message" /\ s \notin processed
  BY DEF Queued, Unprocessed
<1>12. \A s : s \in Queued' <=> s \in Seqs /\ log[s].type = "message" /\ s \notin processed'
  <2>1. \A s : s \in Queued' <=> s \in Seqs' /\ log'[s].type = "message" /\ s \notin processed'
    BY DEF Queued, Unprocessed
  <2> QED BY <1>6, <1>7, <2>1
<1>13. Queued' = IF i = 0 /\ turn.ask = "exhausted" THEN {} ELSE Queued \ {t}
  <2>1. \A s \in Seqs : log[s].type = "message" => s # i
    BY <1>3, <1>9, <1>4
  <2>2. \A s \in Seqs : log[s].type = "message" => (s \in AnsweredBy(t) <=> s = t)
    BY <1>3 DEF ResolutionTypes
  <2>3. CASE i = 0 /\ turn.ask = "exhausted"
    BY <1>3, <1>8, <1>10, <1>11, <1>12, <2>1, <2>2, <2>3
  <2>4. CASE ~(i = 0 /\ turn.ask = "exhausted")
    <3>1. \A s \in Seqs : log[s].type = "message" => (s \in processed' <=> s \in processed \/ s = t)
      BY <1>8, <2>1, <2>2, <2>4
    <3>2. \A s : s \in Queued' <=> s \in Queued \ {t}
      BY <1>11, <1>12, <3>1
    <3> QED BY <2>4, <3>2
  <2> QED BY <2>3, <2>4
<1>14. Finished' = Finished \cup (Queued \ Queued')
  <2>1. \A s : s \in Finished <=> s \in Seqs /\ log[s].type = "message" /\ s \in processed
    BY DEF Finished
  <2>2. \A s : s \in Finished' <=> s \in Seqs' /\ log'[s].type = "message" /\ s \in processed'
    BY DEF Finished
  <2>3. processed \subseteq processed'
    BY <1>8
  <2>4. \A s : s \in Finished' <=> s \in Finished \/ (s \in Queued /\ s \notin Queued')
    BY <1>6, <1>7, <1>11, <1>12, <2>1, <2>2, <2>3
  <2> QED BY <2>4
<1>15. /\ DOMAIN pending' # {} <=> acts # <<>>
       /\ \A a \in DOMAIN pending' : pending'[a] = 0
  <2>1. pending' \in [{Len(log) + k : k \in 1..Len(acts)} -> {0}]
    BY DEF Completion
  <2>2. DOMAIN pending' = {Len(log) + k : k \in 1..Len(acts)} /\ \A a \in DOMAIN pending' : pending'[a] = 0
    BY <2>1
  <2>3. CASE acts = <<>>
    <3>1. 1..Len(acts) = {}
      BY <2>3
    <3> QED BY <2>2, <2>3, <3>1
  <2>4. CASE acts # <<>>
    <3>1. 1 \in 1..Len(acts)
      BY <1>5, <2>4, EmptySeq
    <3> QED BY <2>2, <2>4, <3>1
  <2> QED BY <2>3, <2>4
<1>16. /\ batch # <<>> => t = cursor + 1 /\ log[t].type \in TriggerTypes /\ DOMAIN pending = {}
       /\ batch = <<>> => t \in turn.res /\ 0 \notin turn.res /\ Range(pending) = turn.res
                          /\ log[t].type \in ResolutionTypes
  BY <1>1, <1>4 DEF SessionInv, TurnSubject
<1>17. CASE batch = <<>>
  <2>1. t \notin Queued
    BY <1>11, <1>16, <1>17 DEF ResolutionTypes
  <2>2. DOMAIN pending # {} /\ FullyClaimed(pending)
    BY <1>16, <1>17 DEF Range, FullyClaimed
  <2> QED BY <1>1, <1>2, <1>6, <1>10, <1>13, <1>14, <1>15, <2>1, <2>2
<1>18. CASE batch # <<>>
  <2>1. t \notin processed
    <3>1. t \notin Claims(pending)
      BY <1>16, <1>18 DEF Claims, Range
    <3> QED BY <1>1, <1>3, <1>4, <3>1 DEF AlreadyCompleted
  <2>2. log[t].type = "message"
    BY <1>3, <1>16, <1>18, <2>1 DEF SessionInv, LedgerTyped, TriggerTypes
  <2>3. t \in Queued
    BY <1>3, <1>11, <2>1, <2>2
  <2>4. ASSUME NEW x \in Queued PROVE t <= x
    <3>1. x > cursor /\ x \in Nat
      BY <1>4, <1>11 DEF SessionInv, CursorBehind, Unprocessed
    <3> QED BY <1>4, <1>16, <1>18, <3>1
  <2> QED BY <1>1, <1>2, <1>6, <1>10, <1>13, <1>14, <1>15, <1>16, <1>18, <2>3, <2>4
<1> QED BY <1>17, <1>18

\* The first completion of a turn ends it in the contract, too.
LEMMA CompletionSeen ==
    ASSUME SessionInv, ContractInv, NoOutcomes, Quiet \/ Plain,
           pc = "finish", ~Acking, ~turn.committed, ~AlreadyCompleted(turn.trigger),
           NEW acts, NEW new, Completion(acts, new)
    PROVE  Contract!Next
<1>1. PICK t : t = turn.trigger
  OBVIOUS
<1>2. PICK i : i = InterruptOf(turn.trigger)
  OBVIOUS
<1>3. PICK ex \in BOOLEAN : ex <=> (i = 0 /\ turn.ask = "exhausted")
  OBVIOUS
<1>4. /\ \/ t \in Queued /\ ~Awaits /\ \A x \in Queued : t <= x
         \/ t \notin Queued /\ Awaits /\ FullyClaimed(pending)
      /\ Queued' = IF ex THEN {} ELSE Queued \ {t}
      /\ Awaits' <=> acts # <<>>
      /\ Waiting(t) = Queued \ {t}
  BY <1>1, <1>2, <1>3, CompletionMoves DEF Awaits
<1>5. /\ turn.ask \in {"end", "exhausted", "fail"}
      /\ turn.acts # <<>> => turn.ask = "end"
  BY Completing
<1>6. /\ status' \in {"idle", "running", "terminated"}
      /\ status' = "terminated" <=> i = 0 /\ turn.ask = "fail"
      /\ status' = "running" => acts = <<>> /\ Waiting(t) # {} /\ (i # 0 \/ turn.ask = "end")
      /\ status' = "idle" /\ acts = <<>> => Waiting(t) = {} \/ ex
      /\ acts # <<>> => acts = turn.acts /\ i = 0
  BY <1>1, <1>2, <1>3 DEF Completion
<1>7. SessionTyped /\ Seqs = 1..Len(log) /\ Len(log) \in Nat /\ status \in {"idle", "running", "rescheduling", "terminated"}
  BY Numbered DEF SessionInv, SessionTyped
<1>8. status \in {"running", "rescheduling"} /\ (turn.ask # "end" => status = "running")
  <2>1. status # "terminated"
    BY DEF ContractInv, TurnIsLive, TurnPcs
  <2>2. status # "idle"
    <3>1. CASE ~Awaits
      BY <1>4, <3>1 DEF SessionInv, IdleIsDrained, Queued, Awaits
    <3>2. CASE Awaits
      <4>1. Quiet
        BY <3>2 DEF SessionInv, StatusFollows, Awaits
      <4> QED BY <1>4, <3>2, <4>1 DEF ContractInv, AnswersRun, Awaits
    <3> QED BY <3>1, <3>2
  <2>3. status = "rescheduling" => turn.ask = "end"
    BY DEF SessionInv, StatusFollows
  <2> QED BY <1>7, <2>1, <2>2, <2>3
<1>9. Queue' = InOrderOf(Queued') /\ Queue = InOrderOf(Queued)
  BY DEF Queue, InOrderOf
<1>10. /\ Queued \in SUBSET (1..Len(log)) /\ Queued \in SUBSET Nat /\ IsFiniteSet(Queued)
  <2>1. Queued \in SUBSET (1..Len(log))
    BY <1>7 DEF Queued, Unprocessed
  <2> QED BY <1>7, <2>1, QueuedFacts
<1>11. Queued' = {} <=> Queue' = <<>>
  <2>1. Queued' \in SUBSET (1..Len(log))
    BY <1>4, <1>10
  <2> QED BY <1>7, <1>9, <2>1, QueuedFacts
<1>12. ~ex => Answers
  <2>1. SUFFICES ASSUME ~ex PROVE Answers
    OBVIOUS
  <2>2. CASE t \in Queued /\ ~Awaits /\ \A x \in Queued : t <= x
    <3>1. Queue # <<>> /\ InOrderOf(Queued \ {t}) = Tail(Queue)
      BY <1>9, <1>10, <2>2, QueueShrinks
    <3> QED BY <1>4, <1>9, <2>1, <2>2, <3>1 DEF Answers
  <2>3. CASE t \notin Queued /\ Awaits
    <3>1. Queued' = Queued
      BY <1>4, <2>1, <2>3
    <3> QED BY <1>9, <2>3, <3>1 DEF Answers
  <2> QED BY <1>4, <2>2, <2>3
<1>13. \/ StopOf(log') = EndReason(acts) /\ status' # "terminated"
       \/ StopOf(log') = StopOf(log) /\ status' # "idle"
  BY CompletionStop
<1>14. EndReason(acts) = IF acts # <<>> THEN "requires_action" ELSE IF ex THEN "retries_exhausted" ELSE "end_turn"
  BY <1>2, <1>3 DEF EndReason
<1>15. CASE status' = "terminated"
  <2>1. ~ex /\ acts = <<>> /\ status = "running"
    BY <1>3, <1>5, <1>6, <1>8, <1>15
  <2> QED BY <1>4, <1>12, <1>13, <1>15, <2>1, Terminates
<1>16. CASE status' = "idle" /\ ex
  <2>1. acts = <<>> /\ status = "running"
    BY <1>3, <1>5, <1>6, <1>8, <1>16
  <2> QED BY <1>4, <1>11, <1>13, <1>14, <1>16, <2>1, GivesUp
<1>17. CASE status' = "idle" /\ ~ex
  <2>1. Awaits' \/ Queue' = <<>>
    BY <1>4, <1>6, <1>11, <1>17
  <2>2. StopOf(log') = IF Awaits' THEN "requires_action" ELSE "end_turn"
    BY <1>4, <1>13, <1>14, <1>17
  <2> QED BY <1>8, <1>12, <1>17, <2>1, <2>2, EndsIdle
<1>18. CASE status' = "running"
  <2>1. ~ex /\ acts = <<>> /\ Waiting(t) # {}
    BY <1>3, <1>6, <1>18
  <2>2. ~Awaits' /\ Queue' # <<>>
    BY <1>4, <1>11, <2>1
  <2>3. StopOf(log') \in {StopOf(log), "end_turn"}
    BY <1>13, <1>14, <2>1
  <2> QED BY <1>8, <1>12, <1>18, <2>1, <2>2, <2>3, EndsRunning
<1> QED BY <1>6, <1>15, <1>16, <1>17, <1>18

\* The acknowledgement of an interrupt is not seen in Sessions without barriers.
LEMMA AcknowledgementSeen ==
    ASSUME SessionInv, NoOutcomes, Plain, pc = "finish", Acking, ~AlreadyCompleted(turn.trigger), Commit
    PROVE  /\ log' = log /\ status' = status /\ Queued' = Queued
           /\ DOMAIN pending = {} /\ DOMAIN pending' = {}
           /\ Finished' = Finished
<1>1. PICK t : t = turn.trigger
  OBVIOUS
<1>2. PICK i : i = InterruptOf(turn.trigger)
  OBVIOUS
<1>3. /\ SessionTyped /\ log \in Seq(EventType) /\ outcome = 0 /\ pc \in TurnPcs
      /\ status \in {"idle", "running", "rescheduling", "terminated"} /\ 0 \notin Seqs
  BY Numbered DEF SessionInv, SessionTyped, FailsInLoop, TurnPcs
<1>4. /\ t \in Seqs /\ log[t].type = "interrupt" /\ turn.res = {} /\ turn.acts = <<>> /\ turn.ask = "ack"
  BY <1>1, <1>3 DEF SessionInv, TurnSubject, Acking
<1>5. i = 0 /\ AnsweredBy(t) = {t} /\ Unresolved = pending
  BY <1>1, <1>2, <1>4 DEF InterruptOf, AnsweredBy, Unresolved
<1>6. DOMAIN pending = {} /\ (status \in {"running", "rescheduling"} => Queued # {})
  BY DEF SessionInv, StatusFollows, Queued
<1>7. status # "terminated"
  <2>1. Claims(pending) = {}
    BY <1>6 DEF Claims, Range
  <2>2. t \notin processed
    BY <1>1, <1>3, <1>4, <2>1 DEF AlreadyCompleted
  <2>3. t \in Interrupts
    BY <1>4, <2>2 DEF Interrupts, Unprocessed
  <2> QED BY <2>3 DEF SessionInv, TerminationStands
<1>8. status # "rescheduling"
  BY <1>4 DEF SessionInv, StatusFollows
<1>9. status = "idle" => Queued = {}
  BY <1>6 DEF SessionInv, IdleIsDrained, Queued
<1>10. Waiting(t) = Queued
  BY <1>4 DEF Waiting, Queued, Unprocessed
<1>11. (IF i # 0 THEN <<>> ELSE turn.acts) = <<>>
  BY <1>4
<1>12. log' = log
  <2>1. log' = log \o [k \in DOMAIN <<>> |-> Event(<<>>[k], t, "none")] \o <<>>
    BY <1>1, <1>2, <1>4, <1>5, <1>11 DEF Commit, Terminal
  <2>2. [k \in DOMAIN <<>> |-> Event(<<>>[k], t, "none")] = <<>>
    OBVIOUS
  <2>3. log \o <<>> \o <<>> = log
    BY <1>3
  <2> QED BY <2>1, <2>2, <2>3
<1>13. processed' = processed \cup {t}
  BY <1>1, <1>2, <1>4, <1>5 DEF Commit
<1>14. Queued' = Queued /\ Finished' = Finished
  BY <1>4, <1>12, <1>13 DEF Queued, Finished, Unprocessed, Seqs
<1>15. status' = IF Waiting(t) # {} THEN "running" ELSE "idle"
  BY <1>1, <1>2, <1>4, <1>5, <1>6, <1>11 DEF Commit
<1>16. DOMAIN pending' = {}
  <2>1. (Len(log) + 1) .. (Len(log) + Len(<<>>)) = {}
    <3>1. Len(log) \in Nat /\ Len(<<>>) = 0
      BY <1>3
    <3> QED BY <3>1
  <2>2. DOMAIN pending' = {} \cup ((Len(log) + 1) .. (Len(log) + Len(<<>>)))
    BY <1>1, <1>2, <1>5, <1>6, <1>11 DEF Commit
  <2> QED BY <2>1, <2>2
<1> QED BY <1>3, <1>6, <1>7, <1>8, <1>9, <1>10, <1>12, <1>14, <1>15, <1>16

-----------------------------------------------------------------------------
(* The invariant of the refinement                                         *)

\* A step that leaves the Session alive keeps what is said of a terminated one.
LEMMA AliveStep ==
    ASSUME status' # "terminated"
    PROVE  TerminationFollows' /\ TurnIsLive' /\ TerminationIsTold'
BY DEF TerminationFollows, TurnIsLive, TerminationIsTold

\* Admission keeps the invariant.
LEMMA AdmissionKeeps ==
    ASSUME SessionInv, ContractInv, NEW made \in BOOLEAN, NEW woken \in BOOLEAN, Admission(made, woken)
    PROVE  ContractInv'
<1>1. /\ SessionTyped /\ Seqs = 1..Len(log) /\ Len(log) \in Nat /\ pending \in [DOMAIN pending -> Seqs \cup {0}]
  BY Numbered DEF SessionInv, SessionTyped, IsRows
<1>2. /\ status # "terminated"
      /\ \A s \in Seqs : s \in Seqs' /\ log'[s] = log[s]
      /\ processed \subseteq processed'
      /\ \A s \in processed' \ processed : s \notin Seqs /\ log'[s].type \notin {"message", "interrupt"}
      /\ pending' \in [DOMAIN pending -> Seqs' \cup {0}] /\ DOMAIN pending' = DOMAIN pending
      /\ status' = IF made /\ status = "idle" THEN "running" ELSE status
      /\ pending' # pending /\ FullyClaimed(pending') => made
  BY DEF Admission
<1>3. \A s \in Queued' : s \in Queued \/ s > Len(log)
  BY AdmissionFacts DEF Queued
<1>4. Finished' = Finished
  <2>1. processed \subseteq Seqs
    BY DEF SessionInv, SessionTyped
  <2>2. \A s : s \in Finished' <=> s \in Seqs' /\ log'[s].type = "message" /\ s \in processed'
    BY DEF Finished
  <2>3. \A s : s \in Finished <=> s \in Seqs /\ log[s].type = "message" /\ s \in processed
    BY DEF Finished
  <2>4. \A s : s \in Finished' <=> s \in Finished
    BY <1>2, <2>1, <2>2, <2>3
  <2> QED BY <2>4
<1>5. InReceiptOrder'
  <2>1. ASSUME NEW s \in Finished, NEW u \in Queued' PROVE s < u
    <3>1. CASE u \in Queued
      BY <3>1 DEF ContractInv, InReceiptOrder
    <3>2. CASE u > Len(log)
      <4>1. s \in Seqs
        BY DEF Finished
      <4>2. u \in Nat
        BY DEF Queued, Unprocessed, Admission
      <4> QED BY <1>1, <3>2, <4>1, <4>2
    <3> QED BY <1>3, <3>1, <3>2
  <2> QED BY <1>4, <2>1 DEF InReceiptOrder
<1>6. BarrierFollows'
  BY <1>2, <1>4 DEF ContractInv, BarrierFollows
<1>7. AnswersRun'
  <2>1. SUFFICES ASSUME Quiet, DOMAIN pending' # {}, FullyClaimed(pending') PROVE status' # "idle"
    BY DEF AnswersRun, Quiet
  <2>2. CASE pending' # pending
    BY <1>2, <2>1, <2>2
  <2>3. CASE pending' = pending
    <3>1. status # "idle"
      BY <2>1, <2>3 DEF ContractInv, AnswersRun
    <3> QED BY <1>2, <3>1
  <2> QED BY <2>2, <2>3
<1>8. status' # "terminated"
  BY <1>2
<1> QED BY <1>5, <1>6, <1>7, <1>8, AliveStep DEF ContractInv

\* So does the first completion of a turn.
LEMMA CompletionKeeps ==
    ASSUME SessionInv, ContractInv, NoOutcomes,
           pc = "finish", ~Acking, ~turn.committed, ~AlreadyCompleted(turn.trigger), pc' = "reply",
           NEW acts, NEW new, Completion(acts, new)
    PROVE  ContractInv'
<1>1. PICK t : t = turn.trigger
  OBVIOUS
<1>2. PICK ex \in BOOLEAN : ex <=> (InterruptOf(turn.trigger) = 0 /\ turn.ask = "exhausted")
  OBVIOUS
<1>3. /\ \/ t \in Queued /\ DOMAIN pending = {} /\ \A x \in Queued : t <= x
         \/ t \notin Queued /\ DOMAIN pending # {}
      /\ Queued' = IF ex THEN {} ELSE Queued \ {t}
      /\ Finished' = Finished \cup (Queued \ Queued')
      /\ DOMAIN pending' # {} <=> acts # <<>>
      /\ \A a \in DOMAIN pending' : pending'[a] = 0
  BY <1>1, <1>2, CompletionMoves
<1>4. /\ SessionTyped /\ Seqs = 1..Len(log) /\ Len(log) \in Nat
  BY Numbered DEF SessionInv, SessionTyped
<1>5. Queued \subseteq Nat
  BY <1>4 DEF Queued, Unprocessed
<1>6. Finished' # {}
  <2>1. CASE t \in Queued
    <3>1. t \notin Queued'
      BY <1>3
    <3> QED BY <1>3, <2>1, <3>1
  <2>2. CASE DOMAIN pending # {}
    BY <1>3, <2>2 DEF ContractInv, BarrierFollows
  <2> QED BY <1>3, <2>1, <2>2
<1>7. InReceiptOrder'
  <2>1. ASSUME NEW s \in Finished', NEW u \in Queued' PROVE s < u
    <3>1. ~ex /\ u \in Queued /\ u # t
      BY <1>3
    <3>2. CASE s \in Finished
      BY <3>1, <3>2 DEF ContractInv, InReceiptOrder
    <3>3. CASE s \in Queued \ Queued'
      <4>1. s = t /\ t \in Queued
        BY <1>3, <3>1, <3>3
      <4>2. t <= u /\ t \in Nat /\ u \in Nat
        BY <1>3, <1>5, <3>1, <4>1
      <4> QED BY <3>1, <4>1, <4>2
    <3> QED BY <1>3, <3>2, <3>3
  <2> QED BY <2>1 DEF InReceiptOrder
<1>8. BarrierFollows'
  BY <1>6 DEF BarrierFollows
<1>9. AnswersRun'
  <2>1. ASSUME DOMAIN pending' # {} PROVE ~FullyClaimed(pending')
    BY <1>3, <2>1 DEF FullyClaimed, Range
  <2> QED BY <2>1 DEF AnswersRun
<1>10. /\ status' = "terminated" <=> InterruptOf(turn.trigger) = 0 /\ turn.ask = "fail"
       /\ acts # <<>> => acts = turn.acts
       /\ turn'.ask = turn.ask /\ turn'.committed
       /\ turn'.disposition = IF status' = "terminated" THEN "terminated"
                              ELSE IF acts # <<>> THEN "parked" ELSE "completed"
  BY DEF Completion
<1>11. turn.acts # <<>> => turn.ask = "end"
  BY Completing
<1>12. TerminationFollows'
  <2>1. SUFFICES ASSUME status' = "terminated" PROVE TerminationFollows'
    BY AliveStep
  <2>2. DOMAIN pending' = {}
    BY <1>3, <1>10, <1>11, <2>1
  <2>3. PICK e : e \in Finished'
    BY <1>6
  <2>4. ~Acking'
    BY <1>10 DEF Acking
  <2> QED BY <2>2, <2>3, <2>4 DEF TerminationFollows
<1>13. TurnIsLive' /\ TerminationIsTold'
  BY <1>10 DEF TurnIsLive, TerminationIsTold
<1> QED BY <1>7, <1>8, <1>9, <1>12, <1>13 DEF ContractInv

\* What completing a turn does to the contract and to the invariant.
LEMMA CompleteTurnKeeps ==
    ASSUME SessionInv, ContractInv, NoOutcomes, Quiet \/ Plain, status # "terminated", CompleteTurn
    PROVE  ContractInv' /\ (Contract!Next \/ UNCHANGED Contract!vars)
<1>1. pc = "finish" /\ pc' = "reply" /\ pc \in TurnPcs
  BY DEF CompleteTurn, TurnPcs
<1>2. CASE AlreadyCompleted(turn.trigger)
  <2>1. UNCHANGED <<log, processed, status, pending>>
    BY <1>2 DEF CompleteTurn, Replay, ledger
  <2>2. InReceiptOrder' /\ BarrierFollows' /\ AnswersRun' /\ Queued' = Queued
    BY <2>1, LedgerStays
  <2>3. ContractInv'
    BY <2>1, <2>2, AliveStep DEF ContractInv
  <2>4. Awaits' = Awaits /\ StopOf(log') = StopOf(log)
    BY <2>1 DEF Awaits
  <2> QED BY <2>1, <2>2, <2>3, <2>4, Unseen
<1>3. CASE ~AlreadyCompleted(turn.trigger) /\ Acking
  <2>1. Commit
    BY <1>3 DEF CompleteTurn
  <2>2. turn.trigger \in Seqs /\ log[turn.trigger].type = "interrupt"
    BY <1>1, <1>3 DEF SessionInv, TurnSubject
  <2>3. Plain
    BY <2>2 DEF SessionInv, StatusFollows
  <2>4. /\ log' = log /\ status' = status /\ Queued' = Queued /\ Finished' = Finished
        /\ DOMAIN pending = {} /\ DOMAIN pending' = {}
    BY <1>1, <1>3, <2>1, <2>3, AcknowledgementSeen
  <2>5. ContractInv'
    <3>1. InReceiptOrder' /\ BarrierFollows' /\ AnswersRun'
      BY <2>4 DEF ContractInv, InReceiptOrder, BarrierFollows, AnswersRun
    <3> QED BY <2>4, <3>1, AliveStep DEF ContractInv
  <2> QED BY <2>4, <2>5, Unseen DEF Awaits
<1>4. CASE ~AlreadyCompleted(turn.trigger) /\ ~Acking /\ turn.committed
  <2>1. ~turn.keyed
    BY <1>4 DEF CompleteTurn, Commit
  <2> QED BY <1>1, <1>4, <2>1, Completing
<1>5. CASE ~AlreadyCompleted(turn.trigger) /\ ~Acking /\ ~turn.committed
  <2>1. Commit
    BY <1>5 DEF CompleteTurn
  <2>2. PICK acts, new : Completion(acts, new)
    BY <1>1, <1>5, <2>1, Commits
  <2> QED BY <1>1, <1>5, <2>2, CompletionSeen, CompletionKeeps
<1> QED BY <1>2, <1>3, <1>4, <1>5

\* A retryable failure and the resumption after it keep the invariant.
LEMMA RetryKeeps ==
    ASSUME SessionInv, ContractInv, RecordModelRetry \/ ResumeModelRetry
    PROVE  ContractInv'
<1>1. /\ Seqs = 1..Len(log) /\ Len(log) \in Nat /\ log \in Seq(EventType) /\ turn.trigger \in Nat
      /\ processed \subseteq Seqs
  BY Numbered DEF SessionInv, SessionTyped, TurnType
<1>2. PICK type \in {"rescheduled", "running"} :
        /\ log' = Append(log, Event(type, turn.trigger, "none"))
        /\ status' \in {"running", "rescheduling"}
        /\ processed' = processed /\ pending' = pending
  BY DEF RecordModelRetry, ResumeModelRetry
<1>3. PICK e \in EventType : e = Event(type, turn.trigger, "none") /\ e.type = type
  <2>1. type \in EventTypes /\ "none" \in Reasons
    BY DEF EventTypes, StatusTypes, Reasons
  <2> QED BY <1>1, <2>1, EventFacts
<1>4. /\ Seqs' = 1..(Len(log) + 1) /\ Seqs \subseteq Seqs'
      /\ \A s \in Seqs : log'[s] = log[s]
      /\ \A s \in Seqs' : s \in Seqs \/ (s = Len(log) + 1 /\ log'[s] = e)
  BY <1>1, <1>2, <1>3 DEF Seqs
<1>5. Queued' = Queued /\ Finished' = Finished
  BY <1>1, <1>2, <1>3, <1>4 DEF Queued, Unprocessed, Finished
<1>6. InReceiptOrder' /\ BarrierFollows' /\ AnswersRun'
  BY <1>2, <1>5 DEF ContractInv, InReceiptOrder, BarrierFollows, AnswersRun
<1> QED BY <1>2, <1>6, AliveStep DEF ContractInv

-----------------------------------------------------------------------------
(* The refinement                                                          *)

\* A new Session is one of the contract.
LEMMA ContractInit == Init => ContractInv /\ Contract!Init
<1> SUFFICES ASSUME Init PROVE ContractInv /\ Contract!Init
  OBVIOUS
<1>1. /\ log = <<>> /\ processed = {} /\ status = "idle" /\ pending = NoRows /\ Seqs = {}
  BY DEF Init, Seqs
<1>2. DOMAIN pending = {} /\ Queued = {} /\ Finished = {}
  BY <1>1 DEF NoRows, Queued, Unprocessed, Finished
<1>3. ContractInv
  BY <1>1, <1>2 DEF ContractInv, InReceiptOrder, BarrierFollows, TerminationFollows, TurnIsLive,
                    TerminationIsTold, AnswersRun
<1>4. InOrderOf(Queued) = <<>>
  <2>1. Queued \in SUBSET (1..0)
    BY <1>2
  <2> QED BY <1>2, <2>1, QueuedFacts
<1> QED BY <1>1, <1>2, <1>3, <1>4 DEF Contract!Init, Queued, Seqs

\* Every step keeps the invariant, and is one of the contract or is not seen.
LEMMA ContractStep ==
    ASSUME SessionInv, ContractInv, NoOutcomes, Quiet \/ Plain, [Next]_vars
    PROVE  ContractInv' /\ (Contract!Next \/ UNCHANGED Contract!vars)
<1>1. ASSUME UNCHANGED <<log, processed, status, pending>> PROVE UNCHANGED Contract!vars
  <2>1. Queued' = Queued
    BY <1>1, LedgerStays
  <2> QED BY <1>1, <2>1, Unseen DEF Awaits
<1>2. CASE UNCHANGED vars
  <2>1. UNCHANGED <<log, processed, status, pending>> /\ UNCHANGED <<pc, cursor, turn>>
    BY <1>2 DEF vars, ledger, workflow
  <2>2. InReceiptOrder' /\ BarrierFollows' /\ AnswersRun' /\ Finished' = Finished
    BY <2>1, LedgerStays
  <2>3. ContractInv'
    BY <2>1, <2>2 DEF ContractInv, TerminationFollows, TurnIsLive, TerminationIsTold, Acking
  <2> QED BY <1>1, <2>1, <2>3
<1>3. CASE Next /\ status = "terminated"
  BY <1>1, <1>3, TerminatedStep
<1>4. CASE Admit
  <2>1. PICK n \in 1..MaxBatch : \E drafts \in [1..n -> Drafts] : AdmitEvents(drafts)
    BY <1>4 DEF Admit
  <2>2. PICK drafts \in [1..n -> Drafts] : AdmitEvents(drafts)
    BY <2>1
  <2>3. PICK made \in BOOLEAN, woken \in BOOLEAN : Admission(made, woken)
    BY <2>2, Admits
  <2> QED BY <2>3, AdmissionSeen, AdmissionKeeps
<1>5. CASE CompleteTurn /\ status # "terminated"
  BY <1>5, CompleteTurnKeeps
<1>6. CASE RecordModelRetry \/ ResumeModelRetry
  BY <1>6, RetrySeen, RetryKeeps
<1>7. CASE Next /\ status # "terminated" /\ ~Admit /\ ~CompleteTurn /\ ~RecordModelRetry /\ ~ResumeModelRetry
  <2>1. UNCHANGED <<log, processed, status, pending>>
    BY <1>7, OnlyTheseWrite
  <2>2. InReceiptOrder' /\ BarrierFollows' /\ AnswersRun'
    BY <2>1, LedgerStays
  <2>3. ContractInv'
    BY <1>7, <2>1, <2>2, AliveStep DEF ContractInv
  <2> QED BY <1>1, <2>1, <2>3
<1> QED BY <1>2, <1>3, <1>4, <1>5, <1>6, <1>7

\* The Session implements what its client is promised: through every interleaving
\* of admission, turns, retries and lost replies the messages leave the queue one by
\* one in receipt order, a wait holds them back, and status and stop_reason follow.
\* Outcomes are no part of the contract, and an interrupt of a turn that resumes a
\* barrier breaks it.
THEOREM Refinement ==
    ASSUME "outcome" \notin Inputs, "interrupt" \notin Inputs \/ Parks = {}
    PROVE  Spec => ImplementsContract
<1>1. NoOutcomes /\ (Quiet \/ Plain)
  BY DEF NoOutcomes, Quiet, Plain
<1>2. Init => ContractInv /\ Contract!Init
  BY ContractInit
<1>3. SessionInv /\ ContractInv /\ [Next]_vars => ContractInv' /\ [Contract!Next]_Contract!vars
  BY <1>1, ContractStep
<1> QED BY <1>2, <1>3, SessionInvariant, PTL DEF Spec, ImplementsContract, Contract!Spec

=============================================================================
