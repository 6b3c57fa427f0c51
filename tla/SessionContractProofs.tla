----------------------- MODULE SessionContractProofs ------------------------
(***************************************************************************)
(* What the contract of a Session entails, for queues of any length.       *)
(***************************************************************************)
EXTENDS SessionContract, TLAPS

\* An idle Session that waits for nobody has answered everything, and a
\* terminated one never waits: the contract that SessionRuntime implements
\* keeps the public status honest.
THEOREM StatusTrue == Spec => []StatusIsTrue
<1>1. Init => StatusIsTrue
  BY DEF Init, StatusIsTrue
<1>2. StatusIsTrue /\ [Next]_vars => StatusIsTrue'
  <2> SUFFICES ASSUME StatusIsTrue, [Next]_vars PROVE StatusIsTrue'
    OBVIOUS
  <2> USE DEF StatusIsTrue
  <2>1. CASE Accept
    BY <2>1 DEF Accept, Active
  <2>2. CASE Start
    BY <2>2 DEF Start
  <2>3. CASE Reschedule
    BY <2>3 DEF Reschedule
  <2>4. CASE EndTurn
    BY <2>4 DEF EndTurn
  <2>5. CASE GiveUp
    BY <2>5 DEF GiveUp
  <2>6. CASE Terminate
    BY <2>6 DEF Terminate
  <2>7. CASE UNCHANGED vars
    BY <2>7 DEF vars
  <2> QED
    BY <2>1, <2>2, <2>3, <2>4, <2>5, <2>6, <2>7 DEF Next
<1> QED
  BY <1>1, <1>2, PTL DEF Spec
=============================================================================
