------------------------- MODULE ToolJournalProofs --------------------------
(***************************************************************************)
(* Proofs about ToolJournal, for every number of calls, kinds of tools and *)
(* set of workers.                                                         *)
(***************************************************************************)
EXTENDS ToolJournal, TLAPS

\* the points at which an execution of ExecuteTool can be
Points == {"free", "attempt", "step", "provision", "start",
           "coordinate", "mark", "run", "write", "return"}

\* An execution that ends or moves on keeps the types of what executions hold.
LEMMA MoveType ==
    ASSUME TypeOK, NEW w \in Workers,
           \/ \E r \in Replies : Answer(w, r)
           \/ \E l \in Points : Goto(w, l)
    PROVE  pc' \in [Workers -> Points] /\ reply' \in [Workers -> Replies]
<1>1. pc \in [Workers -> Points] /\ reply \in [Workers -> Replies]
  BY DEF TypeOK, Points
<1>2. CASE \E r \in Replies : Answer(w, r)
  BY <1>1, <1>2 DEF Answer, Points
<1>3. CASE \E l \in Points : Goto(w, l)
  BY <1>1, <1>3 DEF Goto
<1> QED
  BY <1>2, <1>3

\* Every step keeps the variables in their types: results written to the
\* journal are results, and the Workflow calls no more tools than there are.
LEMMA TypeStep ==
    ASSUME TypeOK, ControlInv, KnowledgeInv, [Next]_vars
    PROVE  TypeOK'
<1> USE ToolJournalAssumption
<1> USE DEF TypeOK
<1>1. CASE AdmitInterrupt
  BY <1>1 DEF AdmitInterrupt, journal, worker, temporal, workflow
<1>2. CASE CallTool
  BY <1>2 DEF CallTool, journal, worker, client
<1>3. CASE ObserveInterrupt
  BY <1>3 DEF ObserveInterrupt, journal, worker
<1>4. ASSUME NEW v \in Verdicts, EndTurn(v) PROVE TypeOK'
  BY <1>4 DEF EndTurn, journal, worker, temporal, client
<1>5. CASE CompleteTurn
  <2>1. Final \in AttemptStates
    BY <1>5 DEF Final, Verdicts, AttemptStates
  <2>2. Fenced \in [Steps -> StepStates]
    BY DEF Fenced, StepStates
  <2> QED
    BY <1>5, <2>1, <2>2 DEF CompleteTurn, worker, temporal
<1>6. CASE LoseHeartbeat
  BY <1>6 DEF LoseHeartbeat, Reschedule, journal, worker, client
<1>7. ASSUME NEW w \in Workers, Dispatch(w) PROVE TypeOK'
  <2>1. step \in 0 .. NSteps
    BY <1>7 DEF Dispatch, ControlInv, Steps
  <2> QED
    BY <1>7, <2>1 DEF Dispatch, journal, workflow, client, StepStates, Replies, Results
<1>8. ASSUME NEW w \in Workers, Die(w) PROVE TypeOK'
  BY <1>8 DEF Die, Reschedule, journal, client
<1>9. ASSUME NEW w \in Workers, ExecuteTool(w) PROVE TypeOK'
  <2>1. Of(w) \in Steps \/ pc[w] = "free"
    BY DEF ControlInv
  <2>2. CASE EnsureAttempt(w)
    <3>1. \/ \E r \in Replies : Answer(w, r)
          \/ \E l \in Points : Goto(w, l)
      BY <2>2 DEF EnsureAttempt, Points, Replies
    <3>2. pc' \in [Workers -> Points] /\ reply' \in [Workers -> Replies]
      BY <3>1, MoveType
    <3>3. attempt' \in AttemptStates
      BY <2>2 DEF EnsureAttempt, AttemptStates
    <3>4. UNCHANGED <<state, result, effects, seen, temporal, workflow, client>>
      BY <2>2 DEF EnsureAttempt
    <3> QED
      BY <3>2, <3>3, <3>4 DEF Points, temporal, workflow, client
  <2>3. CASE EnsureToolStep(w)
    <3>1. Of(w) \in Steps
      BY <2>1, <2>3 DEF EnsureToolStep
    <3> DEFINE s == IF state[Of(w)] = "absent" THEN "prepared" ELSE state[Of(w)]
    <3>2. s \in StepStates
      BY <3>1 DEF StepStates
    <3>3. pc' \in [Workers -> Points] /\ reply' \in [Workers -> Replies]
      <4>1. CASE attempt # "active"
        BY <2>3, <4>1, MoveType DEF EnsureToolStep, Replies
      <4>2. CASE attempt = "active"
        <5>1. Proceed(w, Of(w), s)
          BY <2>3, <4>2 DEF EnsureToolStep
        <5>2. CASE s = "started" /\ Kind[Of(w)] = "advisor"
          BY <5>1, <5>2 DEF Proceed, Answer, Goto, Points, Replies, Results
        <5>3. CASE ~(s = "started" /\ Kind[Of(w)] = "advisor")
          <6>1. result[Of(w)] \in Replies
            BY <3>1 DEF Replies
          <6>2. \/ \E r \in Replies : Answer(w, r)
                \/ \E l \in Points : Goto(w, l)
            BY <5>1, <5>3, <6>1 DEF Proceed, Points, Replies
          <6> QED
            BY <6>2, MoveType
        <5> QED
          BY <5>2, <5>3
      <4> QED
        BY <4>1, <4>2
    <3>4. state' \in [Steps -> StepStates]
      BY <2>3, <3>1, <3>2 DEF EnsureToolStep
    <3>5. seen' \in [Workers -> [step : 0 .. NSteps, state : StepStates]]
      <4>1. [step |-> Of(w), state |-> s] \in [step : 0 .. NSteps, state : StepStates]
        BY <3>1, <3>2 DEF Steps
      <4>2. seen' = seen \/ seen' = [seen EXCEPT ![w] = [step |-> Of(w), state |-> s]]
        BY <2>3 DEF EnsureToolStep
      <4> QED
        BY <4>1, <4>2
    <3>6. UNCHANGED <<attempt, result, effects, temporal, workflow, client>>
      BY <2>3 DEF EnsureToolStep
    <3> QED
      BY <3>3, <3>4, <3>5, <3>6 DEF Points, temporal, workflow, client
  <2>4. CASE MarkToolStepAmbiguous(w)
    <3>1. \E r \in Replies : Answer(w, r)
      BY <2>4 DEF MarkToolStepAmbiguous, Replies
    <3>2. pc' \in [Workers -> Points] /\ reply' \in [Workers -> Replies]
      BY <3>1, MoveType
    <3>3. state' \in [Steps -> StepStates]
      BY <2>1, <2>4 DEF MarkToolStepAmbiguous, StepStates
    <3>4. UNCHANGED <<attempt, result, effects, seen, temporal, workflow, client>>
      BY <2>4 DEF MarkToolStepAmbiguous
    <3> QED
      BY <3>2, <3>3, <3>4 DEF Points, temporal, workflow, client
  <2>5. CASE ExecuteCoordinatorToolStep(w)
    <3>1. Of(w) \in Steps
      BY <2>1, <2>5 DEF ExecuteCoordinatorToolStep
    <3>2. effects' \in [Steps -> Nat]
      BY <2>5, <3>1 DEF ExecuteCoordinatorToolStep
    <3>3. result' \in [Steps -> Results]
      BY <2>5, <3>1 DEF ExecuteCoordinatorToolStep, Results
    <3>6. reply' \in [Workers -> Replies]
      BY <2>5, <3>1 DEF ExecuteCoordinatorToolStep, Answer, Replies, Results
    <3>4. state' \in [Steps -> StepStates] /\ pc' = [pc EXCEPT ![w] = "return"]
      BY <2>5, <3>1 DEF ExecuteCoordinatorToolStep, Answer, StepStates
    <3>5. UNCHANGED <<attempt, seen, temporal, workflow, client>>
      BY <2>5 DEF ExecuteCoordinatorToolStep
    <3> QED
      BY <3>2, <3>3, <3>4, <3>5, <3>6 DEF temporal, workflow, client
  <2>6. CASE Provision(w)
    BY <2>6 DEF Provision, AfterProvision, Goto, Answer, journal, workflow, client, Replies
  <2>7. CASE StartToolStep(w)
    <3>1. \/ \E r \in Replies : Answer(w, r)
          \/ \E l \in Points : Goto(w, l)
      BY <2>7 DEF StartToolStep, Points, Replies
    <3>2. pc' \in [Workers -> Points] /\ reply' \in [Workers -> Replies]
      BY <3>1, MoveType
    <3>3. state' \in [Steps -> StepStates]
      BY <2>1, <2>7 DEF StartToolStep, StepStates
    <3>4. UNCHANGED <<attempt, result, effects, seen, temporal, workflow, client>>
      BY <2>7 DEF StartToolStep
    <3> QED
      BY <3>2, <3>3, <3>4 DEF Points, temporal, workflow, client
  <2>8. CASE ContextCancelled(w)
    BY <2>8 DEF ContextCancelled, Answer, journal, temporal, workflow, client, Replies
  <2>9. CASE Run(w)
    <3>1. effects' \in [Steps -> Nat]
      BY <2>1, <2>9 DEF Run
    <3>2. pc' \in [Workers -> Points]
      BY <2>9 DEF Run, Answer, Points
    <3>3. reply' \in [Workers -> Replies]
      BY <2>9 DEF Run, Answer, Replies, Results
    <3>4. lost' \in 0 .. MaxLost
      BY <2>9 DEF Run
    <3>5. UNCHANGED <<journal, seen, task, cur, workflow, client>>
      BY <2>9 DEF Run
    <3> QED
      BY <3>1, <3>2, <3>3, <3>4, <3>5 DEF Points, journal, workflow, client
  <2>10. CASE CompleteToolStep(w)
    <3>1. reply[w] \in Results
      BY <2>10 DEF CompleteToolStep, KnowledgeInv
    <3>2. state' \in [Steps -> StepStates]
      BY <2>10 DEF CompleteToolStep, StepStates
    <3>3. result' \in [Steps -> Results]
      BY <2>10, <3>1 DEF CompleteToolStep
    <3>4. \E r \in Replies : Answer(w, r)
      BY <2>10, <3>1 DEF CompleteToolStep, Replies
    <3>5. pc' \in [Workers -> Points] /\ reply' \in [Workers -> Replies]
      BY <3>4, MoveType
    <3>6. UNCHANGED <<attempt, effects, seen, temporal, workflow, client>>
      BY <2>10 DEF CompleteToolStep
    <3> QED
      BY <3>2, <3>3, <3>5, <3>6 DEF Points, temporal, workflow, client
  <2>11. CASE Return(w)
    BY <2>1, <2>11 DEF Return, TakeReply, Reschedule, ControlInv, journal, workflow, client, Steps, Results, Verdicts
  <2> QED
    BY <1>9, <2>2, <2>3, <2>4, <2>5, <2>6, <2>7, <2>8, <2>9, <2>10, <2>11 DEF ExecuteTool
<1>10. CASE UNCHANGED vars
  BY <1>10 DEF vars, journal, worker, temporal, workflow, client
<1> QED
  BY <1>1, <1>2, <1>3, <1>4, <1>5, <1>6, <1>7, <1>8, <1>9, <1>10 DEF Next

\* Every step keeps Workflow, Temporal and executions in agreement.
LEMMA ControlStep ==
    ASSUME TypeOK, ControlInv, [Next]_vars
    PROVE  ControlInv'
<1> USE ToolJournalAssumption
<1> USE DEF ControlInv, Of
<1>1. CASE AdmitInterrupt
  BY <1>1 DEF AdmitInterrupt, journal, worker, temporal, workflow
<1>2. CASE CallTool
  BY <1>2 DEF CallTool, journal, worker, client
<1>3. CASE ObserveInterrupt
  BY <1>3 DEF ObserveInterrupt, journal, worker
<1>4. ASSUME NEW v \in Verdicts, EndTurn(v) PROVE ControlInv'
  BY <1>4 DEF EndTurn, journal, worker, temporal, client
<1>5. CASE CompleteTurn
  BY <1>5 DEF CompleteTurn, worker, temporal
<1>6. CASE LoseHeartbeat
  BY <1>6 DEF LoseHeartbeat, Reschedule, journal, worker, client
<1>7. ASSUME NEW w \in Workers, Dispatch(w) PROVE ControlInv'
  BY <1>7 DEF Dispatch, TypeOK, workflow
<1>8. ASSUME NEW w \in Workers, Die(w) PROVE ControlInv'
  BY <1>8 DEF Die, Reschedule, TypeOK
<1>9. ASSUME NEW w \in Workers, ExecuteTool(w) PROVE ControlInv'
  <2>1. CASE Return(w)
    BY <1>9, <2>1 DEF Return, TakeReply, Reschedule, TypeOK, workflow
  <2>2. CASE ~Return(w)
    <3>1. /\ pc[w] # "free" /\ pc'[w] # "free"
          /\ \A v \in Workers \ {w} : pc'[v] = pc[v]
          /\ \A v \in Workers : seen'[v].step = seen[v].step
      <4>1. CASE EnsureToolStep(w)
        BY <4>1 DEF EnsureToolStep, Proceed, Answer, Goto, TypeOK
      <4>2. CASE ~EnsureToolStep(w)
        BY <1>9, <2>2, <4>2 DEF ExecuteTool, EnsureAttempt, MarkToolStepAmbiguous,
           ExecuteCoordinatorToolStep, Provision, AfterProvision, StartToolStep,
           ContextCancelled, Run, CompleteToolStep, Answer, Goto, TypeOK
      <4> QED
        BY <4>1, <4>2
    <3>2. UNCHANGED <<task, cur, workflow>>
      BY <1>9, <2>2 DEF ExecuteTool, EnsureAttempt, EnsureToolStep, MarkToolStepAmbiguous,
           ExecuteCoordinatorToolStep, Provision, StartToolStep,
           ContextCancelled, Run, CompleteToolStep, temporal
    <3> QED
      BY <3>1, <3>2 DEF workflow, TypeOK
  <2> QED
    BY <2>1, <2>2
<1>10. CASE UNCHANGED vars
  BY <1>10 DEF vars, journal, worker, temporal, workflow, client
<1> QED
  BY <1>1, <1>2, <1>3, <1>4, <1>5, <1>6, <1>7, <1>8, <1>9, <1>10 DEF Next

\* No step takes a classification or a result back, or forgets that a call was
\* started.
LEMMA JournalStep ==
    ASSUME TypeOK, ControlInv, [Next]_vars
    PROVE  \A k \in Steps :
             /\ state[k] \in {"completed", "ambiguous"} =>
                  state'[k] = state[k] /\ result'[k] = result[k]
             /\ state[k] = "started" => state'[k] \notin {"absent", "prepared"}
<1> USE DEF TypeOK
<1>1. CASE UNCHANGED <<state, result>>
  BY <1>1
<1>2. CASE CompleteTurn
  BY <1>2 DEF CompleteTurn, Fenced
<1>3. ASSUME NEW w \in Workers, ExecuteTool(w)
      PROVE  \A k \in Steps :
               /\ state[k] \in {"completed", "ambiguous"} =>
                    state'[k] = state[k] /\ result'[k] = result[k]
               /\ state[k] = "started" => state'[k] \notin {"absent", "prepared"}
  <2>1. pc[w] # "free" => Of(w) \in Steps
    BY DEF ControlInv
  <2>2. CASE EnsureToolStep(w)
    BY <2>1, <2>2 DEF EnsureToolStep
  <2>3. CASE MarkToolStepAmbiguous(w)
    BY <2>1, <2>3 DEF MarkToolStepAmbiguous
  <2>4. CASE ExecuteCoordinatorToolStep(w)
    BY <2>1, <2>4 DEF ExecuteCoordinatorToolStep
  <2>5. CASE StartToolStep(w)
    BY <2>1, <2>5 DEF StartToolStep, Startable
  <2>6. CASE CompleteToolStep(w)
    BY <2>1, <2>6 DEF CompleteToolStep
  <2>7. CASE EnsureAttempt(w) \/ Provision(w) \/ ContextCancelled(w) \/ Run(w) \/ Return(w)
    BY <2>7 DEF EnsureAttempt, Provision, ContextCancelled, Run, Return, journal
  <2> QED
    BY <1>3, <2>2, <2>3, <2>4, <2>5, <2>6, <2>7 DEF ExecuteTool
<1>4. CASE \/ AdmitInterrupt \/ CallTool \/ ObserveInterrupt \/ LoseHeartbeat
           \/ (\E v \in Verdicts : EndTurn(v))
           \/ (\E w \in Workers : Dispatch(w) \/ Die(w))
  BY <1>1, <1>4 DEF AdmitInterrupt, CallTool, ObserveInterrupt, LoseHeartbeat,
     EndTurn, Dispatch, Die, journal
<1>5. CASE UNCHANGED vars
  BY <1>1, <1>5 DEF vars, journal
<1> QED
  BY <1>2, <1>3, <1>4, <1>5 DEF Next

\* What an execution knows of the journal stays true while others act, and is
\* established by its own steps.
LEMMA KnowledgeStep ==
    ASSUME TypeOK, ControlInv, KnowledgeInv, [Next]_vars
    PROVE  KnowledgeInv'
<1>1. TypeOK' /\ ControlInv'
  BY TypeStep, ControlStep
<1> DEFINE Knows(v) ==
      /\ pc[v] \in {"run", "write"} => Begun(Of(v))
      /\ pc[v] = "provision" /\ seen[v].state = "started" =>
           Begun(Of(v)) /\ Kind[Of(v)] = "skill"
      /\ pc[v] = "write" => reply[v] \in Results
      /\ pc[v] = "return" /\ reply[v] \in Results \ {"none"} =>
           state[Of(v)] = "completed" /\ result[Of(v)] = reply[v]
<1>2. ASSUME NEW v \in Workers, pc'[v] = pc[v], seen'[v] = seen[v], reply'[v] = reply[v]
      PROVE  Knows(v)'
  BY <1>1, <1>2, JournalStep DEF KnowledgeInv, ControlInv, Of, Begun, TypeOK, StepStates
<1>3. ASSUME NEW v \in Workers, pc'[v] \in {"free", "attempt", "step", "mark", "start", "coordinate"}
      PROVE  Knows(v)'
  BY <1>3
<1>4. CASE UNCHANGED worker
  BY <1>2, <1>4 DEF KnowledgeInv, worker
<1>5. CASE \/ AdmitInterrupt \/ CallTool \/ ObserveInterrupt \/ LoseHeartbeat
           \/ CompleteTurn \/ (\E v \in Verdicts : EndTurn(v)) \/ UNCHANGED vars
  BY <1>4, <1>5 DEF AdmitInterrupt, CallTool, ObserveInterrupt, LoseHeartbeat,
     CompleteTurn, EndTurn, vars
<1>6. ASSUME NEW w \in Workers, Dispatch(w) \/ Die(w) PROVE KnowledgeInv'
  BY <1>2, <1>3, <1>6 DEF Dispatch, Die, KnowledgeInv, TypeOK
<1>7. ASSUME NEW w \in Workers, ExecuteTool(w) PROVE KnowledgeInv'
  <2>1. ASSUME NEW v \in Workers \ {w} PROVE Knows(v)'
    <3>1. pc'[v] = pc[v] /\ seen'[v] = seen[v] /\ reply'[v] = reply[v]
      <4>1. CASE EnsureToolStep(w)
        BY <4>1 DEF EnsureToolStep, Proceed, Answer, Goto, TypeOK
      <4>2. CASE ~EnsureToolStep(w)
        BY <1>7, <4>2 DEF ExecuteTool, EnsureAttempt, MarkToolStepAmbiguous,
           ExecuteCoordinatorToolStep, Provision, StartToolStep,
           ContextCancelled, Run, CompleteToolStep, Return, Answer, Goto, TypeOK
      <4> QED
        BY <4>1, <4>2
    <3> QED
      BY <1>2, <3>1
  <2>2. Knows(w)'
    <3>1. pc[w] # "free" => Of(w) \in Steps
      BY DEF ControlInv
    <3>2. CASE EnsureAttempt(w) \/ ContextCancelled(w)
      BY <3>2 DEF EnsureAttempt, ContextCancelled, Goto, Answer, TypeOK, Results
    <3>3. CASE EnsureToolStep(w)
      <4>1. CASE attempt # "active"
        BY <3>3, <4>1 DEF EnsureToolStep, Answer, TypeOK, Results
      <4>2. CASE attempt = "active"
        <5> DEFINE s == IF state[Of(w)] = "absent" THEN "prepared" ELSE state[Of(w)]
        <5>1. /\ state' = [state EXCEPT ![Of(w)] = s]
              /\ seen'[w] = [step |-> Of(w), state |-> s]
              /\ Proceed(w, Of(w), s)
              /\ result' = result
              /\ Of(w) \in Steps
          BY <3>1, <3>3, <4>2 DEF EnsureToolStep, TypeOK
        <5>2. state'[Of(w)] = s /\ seen'[w].step = Of(w) /\ seen'[w].state = s
          BY <5>1 DEF TypeOK
        <5> HIDE DEF s
        <5> QED
          BY <5>1, <5>2 DEF Proceed, Answer, Goto, TypeOK, Results, Of, Begun
      <4> QED
        BY <4>1, <4>2
    <3>4. CASE MarkToolStepAmbiguous(w)
      BY <3>4 DEF MarkToolStepAmbiguous, Answer, TypeOK, Results
    <3>5. CASE ExecuteCoordinatorToolStep(w)
      <4>1. Of(w)' = Of(w) /\ Of(w) \in Steps /\ pc'[w] = "return"
        BY <3>1, <3>5 DEF ExecuteCoordinatorToolStep, Answer, TypeOK, Of
      <4>2. reply'[w] \in Results => state'[Of(w)] = "completed" /\ result'[Of(w)] = reply'[w]
        BY <3>5, <4>1 DEF ExecuteCoordinatorToolStep, Answer, TypeOK, Results
      <4> QED
        BY <4>1, <4>2
    <3>6. CASE Provision(w)
      BY <3>6 DEF Provision, AfterProvision, KnowledgeInv, Goto, Answer, journal, TypeOK, Results, Of, Begun
    <3>7. CASE StartToolStep(w)
      BY <3>1, <3>7 DEF StartToolStep, Goto, Answer, TypeOK, Results, Of, Begun
    <3>8. CASE Run(w)
      BY <3>8 DEF Run, KnowledgeInv, Answer, journal, TypeOK, Results, Of, Begun
    <3>9. CASE CompleteToolStep(w)
      BY <3>1, <3>9 DEF CompleteToolStep, Answer, TypeOK, Results, Of
    <3>10. CASE Return(w)
      BY <1>3, <3>10 DEF Return, TypeOK
    <3> QED
      BY <1>7, <3>2, <3>3, <3>4, <3>5, <3>6, <3>7, <3>8, <3>9, <3>10 DEF ExecuteTool
  <2> QED
    BY <2>1, <2>2 DEF KnowledgeInv
<1> QED
  BY <1>5, <1>6, <1>7 DEF Next

\* An effect is journalled before it happens, and stays journalled.
LEMMA EffectStep ==
    ASSUME TypeOK, ControlInv, KnowledgeInv, NoHiddenEffect, [Next]_vars
    PROVE  NoHiddenEffect'
<1>1. TypeOK'
  BY TypeStep
<1> USE DEF NoHiddenEffect, Begun
<1>2. ASSUME NEW k \in Steps, effects'[k] = effects[k] \/ Begun(k)
      PROVE  effects'[k] > 0 => Begun(k)'
  BY <1>1, <1>2, JournalStep DEF TypeOK, StepStates
<1>3. CASE effects' = effects
  BY <1>2, <1>3
<1>4. ASSUME NEW w \in Workers, Run(w) PROVE NoHiddenEffect'
  <2>1. Begun(Of(w))
    BY <1>4 DEF Run, KnowledgeInv
  <2>2. \A k \in Steps \ {Of(w)} : effects'[k] = effects[k]
    BY <1>4 DEF Run, TypeOK
  <2> QED
    BY <1>2, <2>1, <2>2
<1>5. ASSUME NEW w \in Workers, ExecuteCoordinatorToolStep(w) PROVE NoHiddenEffect'
  <2>1. effects' = effects \/ state' = [state EXCEPT ![Of(w)] = "completed"]
    BY <1>5 DEF ExecuteCoordinatorToolStep
  <2>2. \A k \in Steps \ {Of(w)} : effects'[k] = effects[k]
    BY <1>5 DEF ExecuteCoordinatorToolStep, TypeOK
  <2>3. ASSUME NEW k \in Steps, effects' # effects PROVE effects'[k] > 0 => Begun(k)'
    BY <1>2, <2>1, <2>2, <2>3 DEF TypeOK
  <2> QED
    BY <1>3, <2>3
<1>6. CASE \A w \in Workers : ~Run(w) /\ ~ExecuteCoordinatorToolStep(w)
  <2>1. effects' = effects
    BY <1>6 DEF Next, vars, AdmitInterrupt, CallTool, ObserveInterrupt, EndTurn,
       CompleteTurn, LoseHeartbeat, Dispatch, Die, ExecuteTool, EnsureAttempt,
       EnsureToolStep, MarkToolStepAmbiguous, Provision, StartToolStep,
       ContextCancelled, CompleteToolStep, Return
  <2> QED
    BY <1>3, <2>1
<1> QED
  BY <1>4, <1>5, <1>6

\* A call that is no Skill is entered by one execution, once: StartToolStep lets
\* the first one through, and no step is prepared again.
LEMMA RunStep ==
    ASSUME TypeOK, ControlInv, KnowledgeInv, RunInv, NoHiddenEffect, AtMostOnce, [Next]_vars
    PROVE  RunInv' /\ AtMostOnce'
<1> USE DEF RunInv, AtMostOnce
<1>1. ASSUME effects' = effects,
             \A v \in Workers : pc'[v] = "run" =>
                /\ Of(v)' = Of(v)
                /\ pc[v] = "run" \/ Kind[Of(v)] = "skill"
      PROVE  RunInv' /\ AtMostOnce'
  BY <1>1
<1>2. CASE \/ AdmitInterrupt \/ CallTool \/ ObserveInterrupt \/ LoseHeartbeat
           \/ CompleteTurn \/ (\E v \in Verdicts : EndTurn(v)) \/ UNCHANGED vars
  BY <1>1, <1>2 DEF AdmitInterrupt, CallTool, ObserveInterrupt, LoseHeartbeat,
     CompleteTurn, EndTurn, vars, worker, Of
<1>3. ASSUME NEW w \in Workers, Dispatch(w) \/ Die(w) PROVE RunInv' /\ AtMostOnce'
  BY <1>1, <1>3 DEF Dispatch, Die, TypeOK, Of
<1>4. ASSUME NEW w \in Workers, ExecuteTool(w) PROVE RunInv' /\ AtMostOnce'
  <2>1. pc[w] # "free" => Of(w) \in Steps
    BY DEF ControlInv
  <2>2. CASE EnsureToolStep(w)
    <3>1. effects' = effects /\ pc'[w] # "run"
      BY <2>2 DEF EnsureToolStep, Proceed, Answer, Goto, TypeOK
    <3>2. \A v \in Workers \ {w} : pc'[v] = pc[v] /\ seen'[v] = seen[v]
      BY <2>2 DEF EnsureToolStep, Proceed, Answer, Goto, TypeOK
    <3> QED
      BY <1>1, <3>1, <3>2 DEF Of
  <2>3. CASE EnsureAttempt(w) \/ MarkToolStepAmbiguous(w) \/ ContextCancelled(w)
             \/ CompleteToolStep(w) \/ Return(w)
    BY <1>1, <2>3 DEF EnsureAttempt, MarkToolStepAmbiguous, ContextCancelled,
       CompleteToolStep, Return, Answer, Goto, TypeOK, Of
  <2>4. CASE Provision(w)
    BY <1>1, <2>4 DEF Provision, AfterProvision, KnowledgeInv, Answer, Goto, TypeOK, Of
  <2>5. CASE ExecuteCoordinatorToolStep(w)
    <3>1. CASE effects' = effects
      BY <1>1, <2>5, <3>1 DEF ExecuteCoordinatorToolStep, Answer, TypeOK, Of
    <3>2. CASE effects' # effects
      <4>1. Of(w) \in Steps /\ state[Of(w)] = "prepared"
        BY <2>1, <2>5, <3>2 DEF ExecuteCoordinatorToolStep
      <4>2. effects[Of(w)] = 0
        BY <4>1 DEF NoHiddenEffect, Begun, TypeOK
      <4>3. \A v \in Workers : pc[v] = "run" => Of(v) # Of(w)
        BY <4>1 DEF KnowledgeInv, Begun
      <4>4. /\ effects'[Of(w)] = 1
            /\ \A k \in Steps \ {Of(w)} : effects'[k] = effects[k]
            /\ seen' = seen
            /\ \A v \in Workers : pc'[v] = "run" => pc[v] = "run"
        BY <2>5, <3>2, <4>1, <4>2 DEF ExecuteCoordinatorToolStep, Answer, TypeOK
      <4> QED
        BY <4>1, <4>2, <4>3, <4>4 DEF Of
    <3> QED
      BY <3>1, <3>2
  <2>6. CASE StartToolStep(w)
    <3>1. CASE pc'[w] # "run"
      BY <1>1, <2>6, <3>1 DEF StartToolStep, Answer, Goto, TypeOK, Of
    <3>2. CASE pc'[w] = "run"
      <4>1. Of(w) \in Steps /\ state[Of(w)] = "prepared"
        BY <2>1, <2>6, <3>2 DEF StartToolStep, Startable, Answer, TypeOK
      <4>2. effects[Of(w)] = 0
        BY <4>1 DEF NoHiddenEffect, Begun, TypeOK
      <4>3. \A v \in Workers : pc[v] = "run" => Of(v) # Of(w)
        BY <4>1 DEF KnowledgeInv, Begun
      <4>4. effects' = effects /\ seen' = seen /\ \A v \in Workers \ {w} : pc'[v] = pc[v]
        BY <2>6 DEF StartToolStep, Answer, Goto, TypeOK
      <4> QED
        BY <4>2, <4>3, <4>4 DEF Of
    <3> QED
      BY <3>1, <3>2
  <2>7. CASE Run(w)
    <3>1. Of(w) \in Steps
      BY <2>1, <2>7 DEF Run
    <3>2. /\ effects'[Of(w)] = effects[Of(w)] + 1
          /\ \A k \in Steps \ {Of(w)} : effects'[k] = effects[k]
          /\ seen' = seen
      BY <2>7, <3>1 DEF Run, TypeOK
    <3>3. pc'[w] # "run" /\ \A v \in Workers \ {w} : pc'[v] = pc[v]
      BY <2>7 DEF Run, Answer, TypeOK
    <3>4. Kind[Of(w)] # "skill" => effects[Of(w)] = 0 /\ \A v \in Workers : pc'[v] = "run" => Of(v) # Of(w)
      BY <2>7, <3>1, <3>3 DEF Run
    <3>5. AtMostOnce'
      BY <3>1, <3>2, <3>4 DEF TypeOK
    <3>6. RunInv'
      BY <3>1, <3>2, <3>3, <3>4 DEF Of
    <3> QED
      BY <3>5, <3>6
  <2> QED
    BY <1>4, <2>2, <2>3, <2>4, <2>5, <2>6, <2>7 DEF ExecuteTool
<1> QED
  BY <1>2, <1>3, <1>4 DEF Next

\* The Workflow believes only the reply of the execution Temporal waits for,
\* and that reply is in the journal.
LEMMA ToldStep ==
    ASSUME TypeOK, ControlInv, KnowledgeInv, ToldIsDurable, [Next]_vars
    PROVE  ToldIsDurable'
<1>1. ASSUME NEW k \in Steps, told'[k] = told[k]
      PROVE  told'[k] # "none" => state'[k] = "completed" /\ result'[k] = told'[k]
  BY <1>1, JournalStep DEF ToldIsDurable
<1>2. CASE told' = told
  BY <1>1, <1>2 DEF ToldIsDurable
<1>3. ASSUME NEW w \in Workers, Return(w), told' # told PROVE ToldIsDurable'
  <2>1. cur = w /\ TakeReply(reply[w]) /\ UNCHANGED <<state, result>>
    BY <1>3 DEF Return, workflow, journal
  <2>2. Of(w) = step /\ step \in Steps
    BY <2>1, ToolJournalAssumption DEF ControlInv
  <2>3. told' = [told EXCEPT ![step] = IF reply[w] \in Results THEN reply[w] ELSE "none"]
    BY <2>1 DEF TakeReply
  <2>4. told'[step] # "none" => state'[step] = "completed" /\ result'[step] = told'[step]
    BY <1>3, <2>1, <2>2, <2>3 DEF Return, KnowledgeInv, TypeOK
  <2>5. \A k \in Steps \ {step} : told'[k] = told[k]
    BY <2>3 DEF TypeOK
  <2> QED
    BY <1>1, <2>4, <2>5 DEF ToldIsDurable
<1>4. CASE \A w \in Workers : ~Return(w)
  <2>1. told' = told
    BY <1>4 DEF Next, vars, workflow, AdmitInterrupt, CallTool, ObserveInterrupt,
       EndTurn, CompleteTurn, LoseHeartbeat, Dispatch, Die, ExecuteTool,
       EnsureAttempt, EnsureToolStep, MarkToolStepAmbiguous, Provision,
       ExecuteCoordinatorToolStep, StartToolStep, ContextCancelled, Run,
       CompleteToolStep
  <2> QED
    BY <1>2, <2>1
<1> QED
  BY <1>2, <1>3, <1>4

\* A closed attempt stays settled: finishAttemptLocked checks under the lock
\* that StartToolStep and EnsureToolStep take, and no attempt is reopened.
LEMMA ClosedStep ==
    ASSUME TypeOK, ControlInv, ClosedAttemptSettled, [Next]_vars
    PROVE  ClosedAttemptSettled'
<1> USE DEF ClosedAttemptSettled
<1>1. CASE CompleteTurn
  <2>1. CASE ~named
    BY <1>1, <2>1 DEF CompleteTurn, TypeOK
  <2>2. CASE named
    <3>1. AttemptFinishable /\ attempt' = Final /\ state' = Fenced
      BY <1>1, <2>2 DEF CompleteTurn
    <3>2. \A k \in Steps : state'[k] # "started"
      BY <3>1 DEF AttemptFinishable
    <3>3. attempt' = "completed" => \A k \in Steps : state'[k] \in {"absent", "completed"}
      BY <3>1 DEF AttemptFinishable
    <3> QED
      BY <3>2, <3>3
  <2> QED
    BY <2>1, <2>2 DEF TypeOK
<1>2. CASE UNCHANGED <<attempt, state>>
  BY <1>2
<1>3. ASSUME NEW w \in Workers, ExecuteTool(w) PROVE ClosedAttemptSettled'
  <2>1. pc[w] # "free" => Of(w) \in Steps
    BY DEF ControlInv
  <2>2. CASE EnsureAttempt(w)
    BY <2>2 DEF EnsureAttempt
  <2>3. CASE EnsureToolStep(w)
    BY <2>3 DEF EnsureToolStep
  <2>4. CASE MarkToolStepAmbiguous(w)
    BY <2>1, <2>4 DEF MarkToolStepAmbiguous, TypeOK
  <2>5. CASE ExecuteCoordinatorToolStep(w)
    BY <2>5 DEF ExecuteCoordinatorToolStep
  <2>6. CASE StartToolStep(w)
    BY <2>6 DEF StartToolStep, Startable
  <2>7. CASE CompleteToolStep(w)
    BY <2>1, <2>7 DEF CompleteToolStep, TypeOK
  <2>8. CASE Provision(w) \/ ContextCancelled(w) \/ Run(w) \/ Return(w)
    BY <1>2, <2>8 DEF Provision, ContextCancelled, Run, Return, journal
  <2> QED
    BY <1>3, <2>2, <2>3, <2>4, <2>5, <2>6, <2>7, <2>8 DEF ExecuteTool
<1>4. CASE \/ AdmitInterrupt \/ CallTool \/ ObserveInterrupt \/ LoseHeartbeat
           \/ (\E v \in Verdicts : EndTurn(v))
           \/ (\E w \in Workers : Dispatch(w) \/ Die(w)) \/ UNCHANGED vars
  BY <1>2, <1>4 DEF AdmitInterrupt, CallTool, ObserveInterrupt, LoseHeartbeat,
     EndTurn, Dispatch, Die, journal, vars
<1> QED
  BY <1>1, <1>3, <1>4 DEF Next

-----------------------------------------------------------------------------
\* the inductive invariant of the tool journal
JournalInv ==
    /\ TypeOK /\ ExecutionInv
    /\ NoHiddenEffect /\ AtMostOnce /\ ToldIsDurable /\ ClosedAttemptSettled

\* The journal's inductive invariant holds of every state a turn can reach.
THEOREM JournalInvariant == Spec => []JournalInv
<1>1. Init => JournalInv
  <2> SUFFICES ASSUME Init PROVE JournalInv
    OBVIOUS
  <2>1. TypeOK
    <3>1. step \in 1 .. NSteps + 1 /\ lost \in 0 .. MaxLost
      BY ToolJournalAssumption DEF Init
    <3>2. seen \in [Workers -> [step : 0 .. NSteps, state : StepStates]]
      BY ToolJournalAssumption DEF Init, StepStates
    <3> QED
      BY <3>1, <3>2 DEF Init, TypeOK, AttemptStates, StepStates, Results, Replies, Verdicts
  <2>2. ExecutionInv
    BY DEF Init, ExecutionInv, ControlInv, KnowledgeInv, RunInv
  <2>3. NoHiddenEffect /\ AtMostOnce
    BY DEF Init, NoHiddenEffect, AtMostOnce
  <2>4. ToldIsDurable /\ ClosedAttemptSettled
    BY DEF Init, ToldIsDurable, ClosedAttemptSettled
  <2> QED
    BY <2>1, <2>2, <2>3, <2>4 DEF JournalInv
<1>2. JournalInv /\ [Next]_vars => JournalInv'
  BY TypeStep, ControlStep, KnowledgeStep, RunStep, EffectStep, ToldStep, ClosedStep
  DEF JournalInv, ExecutionInv
<1> QED
  BY <1>1, <1>2, PTL DEF Spec

\* The variables stay in their types, whatever Temporal and the workers do.
THEOREM TypeCorrect == Spec => []TypeOK
<1>1. JournalInv => TypeOK
  BY DEF JournalInv
<1> QED
  BY <1>1, JournalInvariant, PTL

\* No tool call other than a Skill's reaches the outside world twice, for any
\* number of overlapping, lost and repeated executions of ExecuteTool.
THEOREM ToolRunsAtMostOnce == Spec => []AtMostOnce
<1>1. JournalInv => AtMostOnce
  BY DEF JournalInv
<1> QED
  BY <1>1, JournalInvariant, PTL

\* A call that reached the outside world is never recorded as absent or only
\* prepared, so recovery cannot take it for one that is safe to run.
THEOREM EffectsAreJournalled == Spec => []NoHiddenEffect
<1>1. JournalInv => NoHiddenEffect
  BY DEF JournalInv
<1> QED
  BY <1>1, JournalInvariant, PTL

\* The result the model is told is the result the journal keeps.
THEOREM ResultsAreDurable == Spec => []ToldIsDurable
<1>1. JournalInv => ToldIsDurable
  BY DEF JournalInv
<1> QED
  BY <1>1, JournalInvariant, PTL

\* Completing a turn closes its attempt for good: stale executions can start no
\* step of it and leave none unclassified.
THEOREM ClosedAttemptsStaySettled == Spec => []ClosedAttemptSettled
<1>1. JournalInv => ClosedAttemptSettled
  BY DEF JournalInv
<1> QED
  BY <1>1, JournalInvariant, PTL

\* Completed and ambiguous steps keep their state and result in every step.
THEOREM ClassificationStands == Spec => ClassificationIsFinal
<1>1. JournalInv /\ [Next]_vars =>
        [\A k \in Steps :
           /\ state[k] \in {"completed", "ambiguous"} =>
                state'[k] = state[k] /\ result'[k] = result[k]
           /\ state[k] = "started" => state'[k] \notin {"absent", "prepared"}]_vars
  BY JournalStep DEF JournalInv, ExecutionInv
<1> QED
  BY <1>1, JournalInvariant, PTL DEF Spec, ClassificationIsFinal
=============================================================================
