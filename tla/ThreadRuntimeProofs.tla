------------------------- MODULE ThreadRuntimeProofs -------------------------
(***************************************************************************)
(* Proofs about the Threads of a multi-agent Session (ThreadRuntime): its  *)
(* types, that no wakeup of a Thread is lost, that an idle Session is      *)
(* quiet, and that an archived child is frozen.  One inductive invariant   *)
(* carries the four: ThreadBase holds of every instance, ThreadLive of     *)
(* those in which no turn of the coordinator ends in a fatal error.        *)
(***************************************************************************)
EXTENDS ThreadRuntime, WellFoundedInduction, SequenceTheorems, TLAPS

\* what a ledger holds
EventTypes == {"message", "interrupt", "result"}
ThreadStatuses == {"absent", "idle", "running", "rescheduling", "terminated"}
FlowType == [pc : {"none", "wait", "drain", "start", "model", "backoff", "interrupted", "reply"},
             signal : BOOLEAN, at : Nat, reply : {"none", "next", "parked", "terminated"}]
RowType == [thread : Threads, intent : {"none", "wake", "terminate"}, fresh : BOOLEAN, delivered : BOOLEAN]
Bounded == {"message", "send", "interrupt", "retry", "park", "fault"}

\* the tables and the Workflows
ThreadTyped ==
    /\ threadStatus \in [Threads -> ThreadStatuses] /\ threadStatus[Primary] # "absent"
    /\ archived \subseteq Children /\ gate \subseteq Children
    /\ sessionStatus \in ThreadStatuses \ {"absent"} /\ announced \in ThreadStatuses \ {"absent"}
    /\ inbox \in [Threads -> Seq(EventTypes)]
    /\ threadOutbox \in [Threads -> {"none", "wake", "terminate"}]
    /\ held \in [ThreadRelays -> RowType] /\ flow \in [Threads -> FlowType]
    /\ counts \in [Bounded -> Nat]

\* an archived child: ended, nothing queued, no barrier
Frozen(c) == threadStatus[c] = "terminated" /\ inbox[c] = <<>> /\ c \notin gate

\* between the start of a turn and its commit
InTurn(t) == flow[t].pc \in {"start", "model", "backoff", "interrupted"}

\* the trigger of a turn is an event of the ledger, the answer when a barrier is
\* open and a message otherwise, and no interrupt came before it
TriggerInLedger(t) ==
    /\ flow[t].at \in 1..Len(inbox[t])
    /\ inbox[t][flow[t].at] = IF t \in gate THEN "result" ELSE "message"
    /\ \A k \in 1..Len(inbox[t]) : k < flow[t].at => inbox[t][k] # "interrupt"

\* one answer at most is queued, while its barrier is open
OneResult(t) ==
    \A i \in 1..Len(inbox[t]) : inbox[t][i] = "result" =>
        /\ t \in gate
        /\ \A j \in 1..Len(inbox[t]) : inbox[t][j] = "result" => j = i

\* a child that has ended holds no interrupt that could revive it
EndedIsFinal(c) ==
    /\ threadStatus[c] = "terminated" => \A i \in 1..Len(inbox[c]) : inbox[c][i] # "interrupt"
    /\ flow[c].pc = "reply" /\ flow[c].reply = "terminated" => Ended(c)

\* what holds of one Thread, its ledger and its Workflow
ThreadOK(t) ==
    /\ t \in archived => Frozen(t)
    /\ flow[t].pc \in {"none", "wait", "drain"} => flow[t].at = 0
    /\ InTurn(t) /\ t \notin archived => TriggerInLedger(t)
    /\ OneResult(t)
    /\ t \in Children => EndedIsFinal(t)

\* the outbox asks to terminate archived children alone
TerminationsAreArchived ==
    /\ \A t \in Threads : threadOutbox[t] = "terminate" => t \in archived
    /\ \A r \in ThreadRelays : held[r].intent = "terminate" => held[r].thread \in archived

\* what holds of every multi-agent Session
ThreadBase == /\ ThreadTyped /\ (\A t \in Threads : ThreadOK(t)) /\ TerminationsAreArchived
              /\ flow[Primary].reply # "parked"

\* the coordinator has not ended, and it runs or retries while messages wait for it
PrimaryLives ==
    /\ threadStatus[Primary] # "terminated" /\ flow[Primary].reply # "terminated"
    /\ Contains(inbox[Primary], "message") => threadStatus[Primary] \in {"running", "rescheduling"}

\* a Workflow that will not look at its ledger unless it is woken
Asleep(t) == flow[t].pc \in {"none", "wait"} \/ (flow[t].pc = "reply" /\ flow[t].reply = "parked")

\* a wakeup that a relay has delivered and is about to delete
Delivered(r, t) ==
    /\ held[r].thread = t /\ held[r].intent = "wake"
    /\ held[r].delivered /\ held[r].fresh

\* A sleeping Thread with something to do has a row in the outbox or a signal, and
\* a relay about to delete the row has seen the signal arrive.
WakeupOnItsWay(t) ==
    ~Ended(t) /\ NextEvent(t) # 0 /\ Asleep(t) =>
        /\ threadOutbox[t] # "none" \/ flow[t].signal
        /\ \A r \in ThreadRelays : Delivered(r, t) => flow[t].signal

\* what holds while the coordinator cannot end in a fatal error
ThreadLive == PrimaryLives /\ (\A t \in Threads : WakeupOnItsWay(t)) /\ IdleSessionIsQuiet

\* the inductive invariant
ThreadInv == ThreadBase /\ ("terminate" \notin PrimaryOutcomes => ThreadLive)

-----------------------------------------------------------------------------
(* Operators of the model                                                  *)

\* Min of a non-empty set of naturals is its least element.
LEMMA MinIsLeast ==
    ASSUME NEW S \in SUBSET Nat, S # {}
    PROVE  Min(S) \in S /\ \A x \in S : Min(S) <= x
<1> DEFINE R == {p \in Nat \X Nat : p[1] < p[2]}
<1>1. IsWellFoundedOn(R, Nat)
  BY NatLessThanWellFounded, Zenon DEF OpToRel
<1>2. PICK m \in S : \A x \in S : <<x, m>> \notin R
  <2> HIDE DEF R
  <2> QED BY <1>1, WFMin
<1>3. \A x \in S : m <= x
  <2> TAKE x \in S
  <2>1. <<x, m>> \in Nat \X Nat /\ <<x, m>>[1] = x /\ <<x, m>>[2] = m
    OBVIOUS
  <2>2. ~(<<x, m>>[1] < <<x, m>>[2])
    BY <1>2, <2>1, Zenon
  <2> QED BY <2>1, <2>2
<1> QED BY <1>3 DEF Min

\* Induction over the naturals, from a least counterexample.
LEMMA NatInd ==
    ASSUME NEW S, 0 \in S, \A n \in Nat : n \in S => n + 1 \in S
    PROVE  Nat \subseteq S
<1> DEFINE R == {p \in Nat \X Nat : p[1] < p[2]}
           T == {n \in Nat : n \notin S}
<1>1. IsWellFoundedOn(R, Nat)
  BY NatLessThanWellFounded, Zenon DEF OpToRel
<1> SUFFICES ASSUME T # {} PROVE FALSE
  OBVIOUS
<1>2. PICK m \in T : \A x \in T : <<x, m>> \notin R
  <2> HIDE DEF R
  <2> QED BY <1>1, WFMin
<1>3. m # 0 /\ m - 1 \in Nat /\ m - 1 < m /\ (m-1)+1 = m
  OBVIOUS
<1>4. <<m-1, m>> \in R
  <2>1. <<m-1, m>> \in Nat \X Nat /\ <<m-1, m>>[1] < <<m-1, m>>[2]
    BY <1>3
  <2> QED BY <2>1, Zenon
<1>5. m - 1 \notin T
  BY <1>2, <1>4
<1> QED BY <1>3, <1>5

\* FlushQueuedThreadMessages keeps events of the ledger, and no message.
LEMMA FlushFacts ==
    ASSUME NEW s \in Seq(EventTypes)
    PROVE  Flush(s) \in Seq({s[i] : i \in {k \in 1..Len(s) : s[k] # "message"}})
<1> DEFINE C == {s[i] : i \in {k \in 1..Len(s) : s[k] # "message"}}
           Upto(n) == \E f : f = [i \in 0..n |->
                       IF i = 0 THEN <<>> ELSE IF s[i] = "message" THEN f[i - 1] ELSE Append(f[i - 1], s[i])]
           S == {n \in Nat : Upto(n)}
<1>1. 0 \in S
  <2> SUFFICES Upto(0)
    OBVIOUS
  <2> DEFINE g == [i \in 0..0 |-> <<>>]
  <2>1. g = [i \in 0..0 |->
              IF i = 0 THEN <<>> ELSE IF s[i] = "message" THEN g[i - 1] ELSE Append(g[i - 1], s[i])]
    OBVIOUS
  <2> HIDE DEF g
  <2> WITNESS g
  <2> QED BY <2>1
<1>2. ASSUME NEW n \in Nat, n \in S PROVE n + 1 \in S
  <2>1. PICK f : f = [i \in 0..n |->
              IF i = 0 THEN <<>> ELSE IF s[i] = "message" THEN f[i - 1] ELSE Append(f[i - 1], s[i])]
    BY <1>2
  <2> DEFINE g == [i \in 0..n+1 |->
              IF i <= n THEN f[i] ELSE IF s[i] = "message" THEN f[n] ELSE Append(f[n], s[i])]
  <2>2. ASSUME NEW i \in 0..n+1
        PROVE  g[i] = IF i = 0 THEN <<>> ELSE IF s[i] = "message" THEN g[i - 1] ELSE Append(g[i - 1], s[i])
    <3>1. CASE i = 0
      <4>1. f[0] = <<>>
        BY <2>1
      <4> QED BY <3>1, <4>1
    <3>2. CASE i # 0 /\ i <= n
      <4>1. i \in 0..n /\ i - 1 \in 0..n /\ i - 1 \in 0..n+1
        BY <3>2
      <4>2. g[i] = f[i] /\ g[i-1] = f[i-1]
        BY <4>1
      <4>3. f[i] = IF s[i] = "message" THEN f[i - 1] ELSE Append(f[i - 1], s[i])
        BY <2>1, <3>2, <4>1
      <4> HIDE DEF g
      <4> QED BY <3>2, <4>2, <4>3
    <3>3. CASE i = n+1
      <4>1. g[i] = IF s[i] = "message" THEN f[n] ELSE Append(f[n], s[i])
        BY <3>3
      <4>2. g[i-1] = f[n]
        BY <3>3
      <4> HIDE DEF g
      <4> QED BY <3>3, <4>1, <4>2
    <3> QED BY <3>1, <3>2, <3>3
  <2>3. g = [i \in 0..n+1 |-> g[i]]
    OBVIOUS
  <2> HIDE DEF g
  <2>4. g = [i \in 0..n+1 |->
              IF i = 0 THEN <<>> ELSE IF s[i] = "message" THEN g[i - 1] ELSE Append(g[i - 1], s[i])]
    BY <2>2, <2>3
  <2>5. Upto(n + 1)
    <3> WITNESS g
    <3> QED BY <2>4
  <2>6. n + 1 \in Nat
    OBVIOUS
  <2> HIDE DEF Upto
  <2> QED BY <2>5, <2>6
<1>3. Len(s) \in S
  <2> HIDE DEF S
  <2> QED BY <1>1, <1>2, NatInd
<1>4. PICK kept : /\ kept = [i \in 0..Len(s) |->
                          IF i = 0 THEN <<>> ELSE IF s[i] = "message" THEN kept[i - 1] ELSE Append(kept[i - 1], s[i])]
                  /\ Flush(s) = kept[Len(s)]
  BY <1>3 DEF Flush
<1> DEFINE K == {n \in Nat : n <= Len(s) => kept[n] \in Seq(C)}
<1>5. 0 \in K
  BY <1>4
<1>6. ASSUME NEW n \in Nat, n \in K PROVE n + 1 \in K
  <2> SUFFICES ASSUME n + 1 <= Len(s) PROVE kept[n+1] \in Seq(C)
    OBVIOUS
  <2>1. n + 1 \in 0..Len(s) /\ n + 1 # 0 /\ (n + 1) - 1 = n /\ n <= Len(s)
    OBVIOUS
  <2>2. kept[n+1] = IF s[n+1] = "message" THEN kept[n] ELSE Append(kept[n], s[n+1])
    BY <1>4, <2>1
  <2>3. kept[n] \in Seq(C)
    BY <1>6, <2>1
  <2>4. s[n+1] # "message" => s[n+1] \in C
    OBVIOUS
  <2> HIDE DEF C
  <2> QED BY <2>2, <2>3, <2>4
<1>7. Len(s) \in K
  <2> HIDE DEF K
  <2> QED BY <1>5, <1>6, NatInd
<1> QED BY <1>4, <1>7

\* A ledger without its i-th event.
LEMMA RemoveAtFacts ==
    ASSUME NEW S, NEW s \in Seq(S), NEW i \in 1..Len(s)
    PROVE  /\ RemoveAt(s, i) \in Seq(S) /\ Len(RemoveAt(s, i)) = Len(s) - 1
           /\ \A k \in 1..Len(s) - 1 : RemoveAt(s, i)[k] = s[IF k < i THEN k ELSE k + 1]
<1> DEFINE a == SubSeq(s, 1, i - 1)
           b == SubSeq(s, i + 1, Len(s))
<1>1. a \in Seq(S) /\ Len(a) = i - 1 /\ \A k \in 1..i - 1 : a[k] = s[k]
  OBVIOUS
<1>2. b \in Seq(S) /\ Len(b) = Len(s) - i /\ \A k \in 1..Len(s) - i : b[k] = s[i + k]
  OBVIOUS
<1>3. RemoveAt(s, i) = a \o b
  BY DEF RemoveAt
<1> HIDE DEF a, b
<1>4. a \o b \in Seq(S) /\ Len(a \o b) = Len(s) - 1
  <2>1. Len(a) + Len(b) = Len(s) - 1
    BY <1>1, <1>2
  <2> QED BY <1>1, <1>2, <2>1, ConcatProperties
<1>5. ASSUME NEW k \in 1..Len(s) - 1 PROVE (a \o b)[k] = s[IF k < i THEN k ELSE k + 1]
  BY <1>1, <1>2
<1> QED BY <1>3, <1>4, <1>5

\* The first event of a type, 0 when there is none.
LEMMA FirstFacts ==
    ASSUME NEW t \in Threads, NEW type \in EventTypes, inbox[t] \in Seq(EventTypes)
    PROVE  \/ /\ First(t, type) = 0 /\ \A k \in 1..Len(inbox[t]) : inbox[t][k] # type
           \/ /\ First(t, type) \in 1..Len(inbox[t]) /\ inbox[t][First(t, type)] = type
              /\ \A k \in 1..Len(inbox[t]) : inbox[t][k] = type => First(t, type) <= k
<1> DEFINE I == {k \in 1..Len(inbox[t]) : inbox[t][k] = type}
<1>1. First(t, type) = IF I # {} THEN Min(I) ELSE 0
  BY DEF First, SelectInSeq
<1>2. I \in SUBSET Nat
  OBVIOUS
<1>3. I # {} => Min(I) \in I /\ \A k \in I : Min(I) <= k
  BY <1>2, MinIsLeast
<1> QED BY <1>1, <1>3

\* GetSessionInterruptAfter finds an interrupt behind event i, if there is one.
LEMMA InterruptAfterFacts ==
    ASSUME NEW t \in Threads, NEW i \in Nat, inbox[t] \in Seq(EventTypes)
    PROVE  \/ /\ InterruptAfterEvent(t, i) = 0
              /\ \A k \in 1..Len(inbox[t]) : k > i => inbox[t][k] # "interrupt"
           \/ /\ InterruptAfterEvent(t, i) \in 1..Len(inbox[t]) /\ InterruptAfterEvent(t, i) > i
              /\ inbox[t][InterruptAfterEvent(t, i)] = "interrupt"
<1> DEFINE later == {j \in DOMAIN inbox[t] : j > i /\ inbox[t][j] = "interrupt"}
<1>1. InterruptAfterEvent(t, i) = IF later = {} THEN 0 ELSE Min(later)
  BY DEF InterruptAfterEvent
<1>2. later \in SUBSET Nat /\ DOMAIN inbox[t] = 1..Len(inbox[t])
  OBVIOUS
<1>3. later # {} => Min(later) \in later
  BY <1>2, MinIsLeast
<1> QED BY <1>1, <1>2, <1>3

\* What a drain takes up: the head of the ledger, and while a barrier is open the
\* answer or an interrupt before it.
LEMMA NextEventFacts ==
    ASSUME NEW t \in Threads, inbox[t] \in Seq(EventTypes)
    PROVE  /\ t \notin gate => NextEvent(t) = (IF inbox[t] = <<>> THEN 0 ELSE 1)
           /\ NextEvent(t) # 0 => NextEvent(t) \in 1..Len(inbox[t])
           /\ t \in gate => 
                /\ NextEvent(t) = 0 <=> \A k \in 1..Len(inbox[t]) : inbox[t][k] = "message"
                /\ NextEvent(t) # 0 => inbox[t][NextEvent(t)] \in {"interrupt", "result"}
                /\ NextEvent(t) # 0 /\ inbox[t][NextEvent(t)] # "interrupt" =>
                      \A k \in 1..Len(inbox[t]) : k < NextEvent(t) => inbox[t][k] # "interrupt"
<1> DEFINE i == First(t, "interrupt")
           r == First(t, "result")
<1>1. CASE t \notin gate
  <2>1. NextEvent(t) = (IF inbox[t] = <<>> THEN 0 ELSE 1)
    BY <1>1 DEF NextEvent
  <2> QED BY <1>1, <2>1
<1>2. CASE t \in gate
  <2>1. NextEvent(t) = IF i # 0 /\ (r = 0 \/ i < r) THEN i ELSE r
    BY <1>2 DEF NextEvent
  <2>2. \/ /\ i = 0 /\ \A k \in 1..Len(inbox[t]) : inbox[t][k] # "interrupt"
        \/ /\ i \in 1..Len(inbox[t]) /\ inbox[t][i] = "interrupt"
           /\ \A k \in 1..Len(inbox[t]) : inbox[t][k] = "interrupt" => i <= k
    BY FirstFacts DEF EventTypes
  <2>3. \/ /\ r = 0 /\ \A k \in 1..Len(inbox[t]) : inbox[t][k] # "result"
        \/ /\ r \in 1..Len(inbox[t]) /\ inbox[t][r] = "result"
           /\ \A k \in 1..Len(inbox[t]) : inbox[t][k] = "result" => r <= k
    BY FirstFacts DEF EventTypes
  <2>4. \A k \in 1..Len(inbox[t]) : inbox[t][k] \in EventTypes
    OBVIOUS
  <2> HIDE DEF i, r
  <2>5. NextEvent(t) # 0 => NextEvent(t) \in 1..Len(inbox[t])
    BY <2>1, <2>2, <2>3
  <2>6. NextEvent(t) = 0 <=> \A k \in 1..Len(inbox[t]) : inbox[t][k] = "message"
    <3>1. CASE i = 0 /\ r = 0
      BY <2>1, <2>2, <2>3, <2>4, <3>1 DEF EventTypes
    <3>2. CASE i # 0
      BY <2>1, <2>2, <2>3, <3>2
    <3>3. CASE i = 0 /\ r # 0
      BY <2>1, <2>2, <2>3, <3>3
    <3> QED BY <3>1, <3>2, <3>3
  <2>7. NextEvent(t) # 0 => inbox[t][NextEvent(t)] \in {"interrupt", "result"}
    BY <2>1, <2>2, <2>3
  <2>8. NextEvent(t) # 0 /\ inbox[t][NextEvent(t)] # "interrupt" =>
                      \A k \in 1..Len(inbox[t]) : k < NextEvent(t) => inbox[t][k] # "interrupt"
    BY <2>1, <2>2, <2>3
  <2> QED BY <1>2, <2>5, <2>6, <2>7, <2>8
<1> QED BY <1>1, <1>2

\* What is left of a ledger was in it, apart from the trigger.
LEMMA RestFacts ==
    ASSUME NEW t \in Threads, NEW i \in 1..Len(inbox[t]), NEW o, inbox[t] \in Seq(EventTypes)
    PROVE  /\ Rest(t, i, o) \in Seq(EventTypes)
           /\ \A k \in 1..Len(Rest(t, i, o)) :
                \E m \in 1..Len(inbox[t]) : m # i /\ Rest(t, i, o)[k] = inbox[t][m]
           /\ o = "exhausted" /\ Effective(t, i, o) = o =>
                \A k \in 1..Len(Rest(t, i, o)) : Rest(t, i, o)[k] # "message"
<1> DEFINE s == inbox[t]
           j == IF inbox[t][i] = "interrupt" THEN 0 ELSE InterruptAfterEvent(t, i)
           left == Drop(Drop(inbox[t], j), i)
<1>1. j = 0 \/ (j \in 1..Len(s) /\ j > i)
  BY InterruptAfterFacts
<1>2. left \in Seq(EventTypes) /\ \A k \in 1..Len(left) : \E m \in 1..Len(s) : m # i /\ left[k] = s[m]
  <2> HIDE DEF j
  <2>1. CASE j = 0
    <3>1. left = RemoveAt(s, i)
      BY <2>1 DEF Drop
    <3>2. left \in Seq(EventTypes) /\ Len(left) = Len(s) - 1
          /\ \A k \in 1..Len(s) - 1 : left[k] = s[IF k < i THEN k ELSE k + 1]
      BY <3>1, RemoveAtFacts
    <3> HIDE DEF left
    <3>3. ASSUME NEW k \in 1..Len(left) PROVE \E m \in 1..Len(s) : m # i /\ left[k] = s[m]
      <4>1. (IF k < i THEN k ELSE k + 1) \in 1..Len(s) /\ (IF k < i THEN k ELSE k + 1) # i
        BY <3>2
      <4> QED BY <3>2, <4>1
    <3> QED BY <3>2, <3>3
  <2>2. CASE j # 0
    <3> DEFINE u == RemoveAt(s, j)
    <3>1. left = RemoveAt(u, i) /\ j \in 1..Len(s) /\ j > i
      BY <1>1, <2>2 DEF Drop
    <3>2. u \in Seq(EventTypes) /\ Len(u) = Len(s) - 1
          /\ \A k \in 1..Len(s) - 1 : u[k] = s[IF k < j THEN k ELSE k + 1]
      BY <3>1, RemoveAtFacts
    <3> HIDE DEF u, left
    <3>3. i \in 1..Len(u)
      BY <3>1, <3>2
    <3>4. left \in Seq(EventTypes) /\ Len(left) = Len(u) - 1
          /\ \A k \in 1..Len(u) - 1 : left[k] = u[IF k < i THEN k ELSE k + 1]
      BY <3>1, <3>2, <3>3, RemoveAtFacts
    <3>5. ASSUME NEW k \in 1..Len(left) PROVE \E m \in 1..Len(s) : m # i /\ left[k] = s[m]
      <4>1. PICK a \in 1..Len(u) : a # i /\ left[k] = u[a]
        <5>1. (IF k < i THEN k ELSE k + 1) \in 1..Len(u) /\ (IF k < i THEN k ELSE k + 1) # i
          BY <3>2, <3>4
        <5> QED BY <3>4, <5>1
      <4>2. u[a] = s[IF a < j THEN a ELSE a + 1]
        BY <3>2
      <4>3. (IF a < j THEN a ELSE a + 1) \in 1..Len(s) /\ (IF a < j THEN a ELSE a + 1) # i
        BY <3>1, <3>2, <4>1
      <4> QED BY <4>1, <4>2, <4>3
    <3> QED BY <3>4, <3>5
  <2> QED BY <2>1, <2>2
<1>3. Rest(t, i, o) = IF o = "exhausted" /\ j = 0 THEN Flush(left) ELSE left
  BY DEF Rest
<1>4. o = "exhausted" /\ Effective(t, i, o) = o => j = 0
  BY DEF Effective
<1> HIDE DEF left, j
<1>5. /\ Flush(left) \in Seq(EventTypes)
      /\ \A k \in 1..Len(Flush(left)) : Flush(left)[k] # "message"
                    /\ \E m \in 1..Len(left) : Flush(left)[k] = left[m]
  <2> DEFINE C == {left[m] : m \in {k \in 1..Len(left) : left[k] # "message"}}
  <2>1. Flush(left) \in Seq(C)
    BY <1>2, FlushFacts
  <2>2. \A k \in 1..Len(Flush(left)) : Flush(left)[k] \in C
    <3> HIDE DEF C
    <3> QED BY <2>1
  <2>3. C \subseteq EventTypes
    BY <1>2
  <2>4. Flush(left) \in Seq(EventTypes)
    <3> HIDE DEF C
    <3> QED BY <2>1, <2>3
  <2> QED BY <2>2, <2>4
<1> QED BY <1>2, <1>3, <1>4, <1>5

-----------------------------------------------------------------------------
(* What a step leaves alone                                                *)

\* What a drain takes up depends on the ledger and the barrier alone.
LEMMA Kept ==
    ASSUME NEW t \in Threads, inbox'[t] = inbox[t], t \in gate' <=> t \in gate
    PROVE  NextEvent(t)' = NextEvent(t)
<1>1. First(t, "interrupt")' = First(t, "interrupt") /\ First(t, "result")' = First(t, "result")
  BY DEF First, SelectInSeq
<1> QED BY <1>1, Zenon DEF NextEvent

\* A Thread that a step does not touch keeps what holds of it.
LEMMA Untouched ==
    ASSUME NEW t \in Threads, inbox'[t] = inbox[t], flow'[t] = flow[t],
           threadStatus'[t] = threadStatus[t], t \in archived' <=> t \in archived,
           t \in gate' <=> t \in gate, ThreadOK(t)
    PROVE  ThreadOK(t)'
  BY DEF ThreadOK, Frozen, InTurn, TriggerInLedger, OneResult, EndedIsFinal, Ended

\* A Thread that a step does not touch keeps the wakeup that is on its way.
LEMMA StillAwake ==
    ASSUME NEW t \in Threads, inbox'[t] = inbox[t], flow'[t] = flow[t],
           Ended(t) => Ended(t)', t \in gate' <=> t \in gate,
           threadOutbox[t] # "none" => threadOutbox'[t] # "none",
           \A r \in ThreadRelays : Delivered(r, t)' => Delivered(r, t),
           WakeupOnItsWay(t)
    PROVE  WakeupOnItsWay(t)'
<1>1. NextEvent(t)' = NextEvent(t)
  BY Kept
<1> QED BY <1>1 DEF WakeupOnItsWay, Asleep

\* A bound that is used keeps its type.
LEMMA Counted ==
    ASSUME counts \in [Bounded -> Nat], NEW w \in Bounded, NEW m, Use(w, m)
    PROVE  counts' \in [Bounded -> Nat]
  BY DEF Use

\* UpsertThreadOutbox leaves a row for every Thread of ts and makes stale what the
\* relays have read of them.
LEMMA Upserted ==
    ASSUME ThreadTyped, NEW ts \in SUBSET Threads, UpsertThreadOutbox(ts)
    PROVE  /\ threadOutbox' \in [Threads -> {"none", "wake", "terminate"}]
           /\ held' \in [ThreadRelays -> RowType]
           /\ \A t \in ts : threadOutbox'[t] # "none"
           /\ \A t \in Threads : t \notin ts => threadOutbox'[t] = threadOutbox[t]
           /\ \A t \in Threads : threadOutbox'[t] = "terminate" => threadOutbox[t] = "terminate"
           /\ \A r \in ThreadRelays : /\ held'[r].thread = held[r].thread /\ held'[r].intent = held[r].intent
                                      /\ held'[r].delivered = held[r].delivered
                                      /\ held'[r].fresh = (held[r].fresh /\ held[r].thread \notin ts)
<1>1. /\ threadOutbox' = [t \in Threads |->
           IF t \in ts /\ threadOutbox[t] # "terminate" THEN "wake" ELSE threadOutbox[t]]
      /\ held' = [r \in ThreadRelays |->
           IF held[r].thread \in ts THEN [held[r] EXCEPT !.fresh = FALSE] ELSE held[r]]
  BY DEF UpsertThreadOutbox
<1>2. threadOutbox \in [Threads -> {"none", "wake", "terminate"}] /\ held \in [ThreadRelays -> RowType]
  BY DEF ThreadTyped
<1>3. ASSUME NEW r \in ThreadRelays
      PROVE  /\ held'[r] \in RowType
             /\ held'[r].thread = held[r].thread /\ held'[r].intent = held[r].intent
             /\ held'[r].delivered = held[r].delivered
             /\ held'[r].fresh = (held[r].fresh /\ held[r].thread \notin ts)
  <2>1. held[r] \in RowType
    BY <1>2
  <2>2. CASE held[r].thread \in ts
    <3>1. held'[r] = [held[r] EXCEPT !.fresh = FALSE]
      BY <1>1, <2>2
    <3> QED BY <2>1, <2>2, <3>1 DEF RowType
  <2>3. CASE held[r].thread \notin ts
    <3>1. held'[r] = held[r]
      BY <1>1, <2>3
    <3>2. held[r].fresh \in BOOLEAN
      BY <2>1 DEF RowType
    <3> QED BY <2>1, <2>3, <3>1, <3>2
  <2> QED BY <2>2, <2>3
<1> QED BY <1>1, <1>2, <1>3

\* Aggregation never loses a Thread that works.
LEMMA AggregateFacts ==
    ASSUME NEW st \in [Threads -> ThreadStatuses], NEW arch \in SUBSET Children, st[Primary] # "absent"
    PROVE  /\ AggregateStatus(st, arch) \in ThreadStatuses \ {"absent"}
           /\ AggregateStatus(st, arch) = "idle" =>
                \A t \in Threads \ arch : st[t] \notin {"running", "rescheduling"}
           /\ st[Primary] # "terminated" => AggregateStatus(st, arch) # "terminated"
           /\ \A t \in Threads \ arch : st[t] \in {"running", "rescheduling"} =>
                AggregateStatus(st, arch) \in {"running", "rescheduling"}
<1> DEFINE live == {st[t] : t \in {u \in Threads \ arch : st[u] # "absent"}}
<1>1. Primary \in Threads \ arch
  BY ThreadRuntimeAssumption DEF Threads
<1>2. st[Primary] \in live
  BY <1>1
<1>3. \A t \in Threads \ arch : st[t] # "absent" => st[t] \in live
  OBVIOUS
<1>4. AggregateStatus(st, arch) =
        CASE "running" \in live      -> "running"
          [] "running" \notin live /\ "rescheduling" \in live -> "rescheduling"
          [] live \subseteq {"terminated"} -> "terminated"
          [] OTHER -> "idle"
  BY DEF AggregateStatus
<1> HIDE DEF live
<1>5. CASE "running" \in live
  <2>1. AggregateStatus(st, arch) = "running"
    BY <1>4, <1>5
  <2> QED BY <2>1 DEF ThreadStatuses
<1>6. CASE "running" \notin live /\ "rescheduling" \in live
  <2>1. AggregateStatus(st, arch) = "rescheduling"
    BY <1>4, <1>6
  <2> QED BY <2>1 DEF ThreadStatuses
<1>7. CASE "running" \notin live /\ "rescheduling" \notin live
  <2>1. AggregateStatus(st, arch) = IF live \subseteq {"terminated"} THEN "terminated" ELSE "idle"
    BY <1>4, <1>7
  <2> QED BY <1>2, <1>3, <1>7, <2>1 DEF ThreadStatuses
<1> QED BY <1>5, <1>6, <1>7

\* A new event at the end of a ledger.
LEMMA Appended ==
    ASSUME NEW t \in Threads, NEW e \in EventTypes, inbox[t] \in Seq(EventTypes), ThreadOK(t),
           t \notin archived, flow[t] \in FlowType,
           e = "interrupt" /\ t \in Children => threadStatus[t] # "terminated",
           e = "result" => t \in gate /\ ~Contains(inbox[t], "result"),
           inbox'[t] = Append(inbox[t], e), flow'[t] = flow[t],
           t \in archived' <=> t \in archived, t \in gate' <=> t \in gate,
           threadStatus'[t] = threadStatus[t]
             \/ (threadStatus'[t] = "running" /\ (t = Primary \/ ~Ended(t)))
    PROVE  ThreadOK(t)'
<1>1. /\ Len(inbox'[t]) = Len(inbox[t]) + 1 /\ inbox'[t][Len(inbox[t]) + 1] = e
      /\ \A k \in 1..Len(inbox[t]) : inbox'[t][k] = inbox[t][k]
      /\ Len(inbox[t]) \in Nat
  OBVIOUS
<1>2. (InTurn(t) /\ t \notin archived => TriggerInLedger(t))'
  <2> SUFFICES ASSUME InTurn(t)' PROVE TriggerInLedger(t)'
    OBVIOUS
  <2>1. TriggerInLedger(t)
    BY DEF ThreadOK, InTurn
  <2>2. flow'[t].at = flow[t].at /\ flow[t].at \in 1..Len(inbox[t]) /\ flow[t].at \in 1..Len(inbox'[t])
    BY <1>1, <2>1 DEF TriggerInLedger
  <2>3. inbox'[t][flow'[t].at] = inbox[t][flow[t].at]
    BY <1>1, <2>2
  <2>4. ASSUME NEW k \in 1..Len(inbox'[t]), k < flow'[t].at PROVE inbox'[t][k] # "interrupt"
    <3>1. k \in 1..Len(inbox[t])
      BY <1>1, <2>2, <2>4
    <3> QED BY <1>1, <2>1, <2>2, <2>4, <3>1 DEF TriggerInLedger
  <2> QED BY <2>1, <2>2, <2>3, <2>4 DEF TriggerInLedger
<1>3. OneResult(t)'
  <2> SUFFICES ASSUME NEW i \in 1..Len(inbox'[t]), inbox'[t][i] = "result"
               PROVE  /\ t \in gate'
                      /\ \A j \in 1..Len(inbox'[t]) : inbox'[t][j] = "result" => j = i
    BY DEF OneResult
  <2>1. CASE e = "result"
    <3>1. \A k \in 1..Len(inbox[t]) : inbox[t][k] # "result"
      BY <2>1 DEF Contains
    <3> QED BY <1>1, <2>1, <3>1
  <2>2. CASE e # "result"
    <3>1. OneResult(t)
      BY DEF ThreadOK
    <3>2. \A k \in 1..Len(inbox'[t]) : inbox'[t][k] = "result"
                  => k \in 1..Len(inbox[t]) /\ inbox[t][k] = "result"
      BY <1>1, <2>2
    <3> QED BY <3>1, <3>2 DEF OneResult
  <2> QED BY <2>1, <2>2
<1>4. (t \in Children => EndedIsFinal(t))'
  <2> SUFFICES ASSUME t \in Children PROVE EndedIsFinal(t)'
    OBVIOUS
  <2>1. EndedIsFinal(t) /\ t # Primary
    BY ThreadRuntimeAssumption DEF ThreadOK
  <2>2. threadStatus[t] = "terminated" => threadStatus'[t] = "terminated"
    BY <2>1 DEF Ended
  <2>3. ASSUME threadStatus'[t] = "terminated", NEW i \in 1..Len(inbox'[t]) PROVE inbox'[t][i] # "interrupt"
    <3>1. threadStatus[t] = "terminated" /\ e # "interrupt"
      BY <2>3
    <3> QED BY <1>1, <2>1, <3>1 DEF EndedIsFinal
  <2> QED BY <2>1, <2>2, <2>3 DEF EndedIsFinal, Ended
<1> QED BY <1>2, <1>3, <1>4 DEF ThreadOK

\* Events queued on the ledgers of ts, whose Threads are woken.
LEMMA AppendStep ==
    ASSUME ThreadBase, NEW ts \in SUBSET Threads, NEW e \in EventTypes,
           inbox' = [t \in Threads |-> IF t \in ts THEN Append(inbox[t], e) ELSE inbox[t]],
           UpsertThreadOutbox(ts), UNCHANGED <<archived, gate, flow>>,
           counts' \in [Bounded -> Nat],
           threadStatus' \in [Threads -> ThreadStatuses],
           \A t \in Threads : threadStatus'[t] = threadStatus[t]
             \/ (t \in ts /\ threadStatus'[t] = "running" /\ (t = Primary \/ ~Ended(t))),
           sessionStatus' \in ThreadStatuses \ {"absent"}, announced' \in ThreadStatuses \ {"absent"},
           \A t \in ts : /\ t \notin archived
                         /\ e = "interrupt" /\ t \in Children => threadStatus[t] # "terminated"
                         /\ e = "result" => t \in gate /\ ~Contains(inbox[t], "result")
    PROVE  /\ ThreadBase'
           /\ (\A t \in Threads : WakeupOnItsWay(t)) => (\A t \in Threads : WakeupOnItsWay(t)')
<1> USE DEF ThreadBase
<1>1. /\ inbox \in [Threads -> Seq(EventTypes)] /\ Primary \in Threads /\ flow \in [Threads -> FlowType]
      /\ threadStatus \in [Threads -> ThreadStatuses]
  BY DEF ThreadTyped, Threads
<1>2. inbox' \in [Threads -> Seq(EventTypes)]
  BY <1>1
<1>3. /\ threadOutbox' \in [Threads -> {"none", "wake", "terminate"}]
      /\ held' \in [ThreadRelays -> RowType]
      /\ \A t \in ts : threadOutbox'[t] # "none"
      /\ \A t \in Threads : t \notin ts => threadOutbox'[t] = threadOutbox[t]
      /\ \A t \in Threads : threadOutbox'[t] = "terminate" => threadOutbox[t] = "terminate"
      /\ \A r \in ThreadRelays : /\ held'[r].thread = held[r].thread /\ held'[r].intent = held[r].intent
                                 /\ held'[r].delivered = held[r].delivered
                                 /\ held'[r].fresh = (held[r].fresh /\ held[r].thread \notin ts)
  BY Upserted
<1>4. ThreadTyped'
  <2>1. threadStatus'[Primary] # "absent"
    BY <1>1 DEF ThreadTyped
  <2> QED BY <1>2, <1>3, <2>1 DEF ThreadTyped
<1>5. ASSUME NEW t \in Threads PROVE ThreadOK(t)'
  <2>1. CASE t \in ts
    <3>1. /\ inbox'[t] = Append(inbox[t], e) /\ flow'[t] = flow[t] /\ ThreadOK(t)
          /\ inbox[t] \in Seq(EventTypes) /\ flow[t] \in FlowType
      BY <1>1, <2>1
    <3>2. threadStatus'[t] = threadStatus[t]
            \/ (threadStatus'[t] = "running" /\ (t = Primary \/ ~Ended(t)))
      OBVIOUS
    <3>3. /\ t \notin archived
          /\ e = "interrupt" /\ t \in Children => threadStatus[t] # "terminated"
          /\ e = "result" => t \in gate /\ ~Contains(inbox[t], "result")
      BY <2>1
    <3> HIDE DEF ThreadBase
    <3> QED BY <3>1, <3>2, <3>3, Appended
  <2>2. CASE t \notin ts
    <3>1. inbox'[t] = inbox[t] /\ flow'[t] = flow[t] /\ threadStatus'[t] = threadStatus[t] /\ ThreadOK(t)
      BY <1>1, <2>2
    <3> HIDE DEF ThreadBase
    <3> QED BY <3>1, Untouched
  <2> QED BY <2>1, <2>2
<1>6. TerminationsAreArchived'
  BY <1>3 DEF TerminationsAreArchived
<1>7. ASSUME NEW t \in Threads, WakeupOnItsWay(t) PROVE WakeupOnItsWay(t)'
  <2>1. CASE t \in ts
    <3>1. threadOutbox'[t] # "none"
      BY <1>3, <2>1
    <3>2. ASSUME NEW r \in ThreadRelays, Delivered(r, t)' PROVE FALSE
      <4>1. held'[r].thread = t /\ held'[r].fresh
        BY <3>2 DEF Delivered
      <4> QED BY <1>3, <2>1, <4>1
    <3> QED BY <3>1, <3>2 DEF WakeupOnItsWay
  <2>2. CASE t \notin ts
    <3>1. inbox'[t] = inbox[t] /\ flow'[t] = flow[t] /\ threadOutbox'[t] = threadOutbox[t]
          /\ (Ended(t) => Ended(t)')
      BY <1>1, <1>3, <2>2 DEF Ended
    <3>2. \A r \in ThreadRelays : Delivered(r, t)' => Delivered(r, t)
      BY <1>3 DEF Delivered
    <3> HIDE DEF ThreadBase
    <3> QED BY <1>7, <3>1, <3>2, StillAwake
  <2> QED BY <2>1, <2>2
<1> QED BY <1>4, <1>5, <1>6, <1>7

\* A Workflow moves on and the tables stay as they are.
LEMMA FlowStep ==
    ASSUME ThreadInv, NEW t \in Threads, LedgerUnchanged,
           counts' \in [Bounded -> Nat], flow' \in [Threads -> FlowType],
           \A u \in Threads : u # t => flow'[u] = flow[u],
           flow'[t].pc \in {"none", "wait", "drain"} => flow'[t].at = 0,
           InTurn(t)' /\ t \notin archived => TriggerInLedger(t)',
           t \in Children /\ flow'[t].pc = "reply" /\ flow'[t].reply = "terminated" => Ended(t),
           t = Primary => flow'[t].reply \in {flow[t].reply, "none", "next"},
           ~Ended(t) /\ NextEvent(t) # 0 /\ Asleep(t)' => \/ flow'[t].signal
                                                          \/ Asleep(t) /\ (flow[t].signal => flow'[t].signal)
                                                          \/ t = Primary /\ "terminate" \in PrimaryOutcomes
    PROVE  ThreadInv'
<1> USE DEF ThreadInv, ThreadBase, LedgerUnchanged
<1>1. ThreadTyped'
  BY DEF ThreadTyped
<1>2. \A u \in Threads : Ended(u)' <=> Ended(u)
  BY DEF Ended
<1>3. \A u \in Threads : ThreadOK(u)'
  <2>1. ASSUME NEW u \in Threads, u # t PROVE ThreadOK(u)'
    BY <2>1, Untouched
  <2>2. ThreadOK(t)'
    <3>1. ThreadOK(t)
      OBVIOUS
    <3>2. OneResult(t)' /\ (t \in archived => Frozen(t))'
      BY <3>1 DEF ThreadOK, OneResult, Frozen
    <3>3. (t \in Children => EndedIsFinal(t))'
      BY <1>2, <3>1 DEF ThreadOK, EndedIsFinal
    <3> QED BY <3>2, <3>3 DEF ThreadOK
  <2> QED BY <2>1, <2>2
<1>0. Primary \in Threads /\ flow'[Primary].reply \in {flow[Primary].reply, "none", "next"}
  BY DEF Threads
<1>4. ThreadBase'
  <2>1. TerminationsAreArchived'
    BY DEF TerminationsAreArchived
  <2> QED BY <1>0, <1>1, <1>3, <2>1
<1>5. ASSUME "terminate" \notin PrimaryOutcomes PROVE ThreadLive'
  <2>1. PrimaryLives'
    BY <1>0, <1>5 DEF ThreadLive, PrimaryLives, Contains
  <2>2. \A u \in Threads : WakeupOnItsWay(u)'
    <3>1. ASSUME NEW u \in Threads PROVE WakeupOnItsWay(u) /\ NextEvent(u)' = NextEvent(u)
                                        /\ \A r \in ThreadRelays : Delivered(r, u)' <=> Delivered(r, u)
      BY <1>5, Kept DEF ThreadLive, Delivered
    <3>2. ASSUME NEW u \in Threads, u # t PROVE WakeupOnItsWay(u)'
      <4>1. flow'[u] = flow[u]
        BY <3>2
      <4> QED BY <1>2, <3>1, <4>1 DEF WakeupOnItsWay, Asleep
    <3>3. WakeupOnItsWay(t)'
      BY <1>2, <1>5, <3>1 DEF WakeupOnItsWay, ThreadLive, PrimaryLives
    <3> QED BY <3>2, <3>3
  <2>3. IdleSessionIsQuiet'
    BY <1>5 DEF ThreadLive, IdleSessionIsQuiet
  <2> QED BY <2>1, <2>2, <2>3 DEF ThreadLive
<1> QED BY <1>4, <1>5

-----------------------------------------------------------------------------
(* Admission and delegation                                                *)

\* A new Session, with its coordinator idle, satisfies the invariant.
LEMMA ThreadInitInv == ThreadInit => ThreadInv
<1> SUFFICES ASSUME ThreadInit PROVE ThreadInv
  OBVIOUS
<1>1. NoFlow \in FlowType /\ NoRow \in RowType /\ Primary \in Threads
  BY DEF NoFlow, FlowType, NoRow, RowType, Threads
<1>2. /\ \A t \in Threads : inbox[t] = <<>> /\ flow[t] = NoFlow /\ threadOutbox[t] = "none"
                            /\ threadStatus[t] \in {"idle", "absent"}
      /\ threadStatus[Primary] = "idle"
      /\ \A r \in ThreadRelays : held[r] = NoRow
  BY <1>1 DEF ThreadInit
<1>3. ThreadTyped
  <2>1. threadStatus \in [Threads -> ThreadStatuses] /\ inbox \in [Threads -> Seq(EventTypes)]
    BY DEF ThreadInit, ThreadStatuses
  <2>2. counts \in [Bounded -> Nat]
    BY DEF ThreadInit, Bounded
  <2> QED BY <1>1, <1>2, <2>1, <2>2 DEF ThreadInit, ThreadTyped, ThreadStatuses
<1>4. ASSUME NEW t \in Threads PROVE ThreadOK(t) /\ NextEvent(t) = 0
  <2>1. flow[t].pc = "none" /\ flow[t].at = 0 /\ flow[t].reply = "none" /\ inbox[t] = <<>>
    BY <1>2 DEF NoFlow
  <2>2. t \notin gate /\ t \notin archived /\ threadStatus[t] # "terminated"
    BY <1>2 DEF ThreadInit
  <2>3. NextEvent(t) = 0
    BY <2>1, <2>2 DEF NextEvent
  <2>4. OneResult(t)
    BY <2>1 DEF OneResult
  <2> QED BY <2>1, <2>2, <2>3, <2>4 DEF ThreadOK, InTurn, EndedIsFinal
<1>5. TerminationsAreArchived /\ flow[Primary].reply = "none"
  BY <1>1, <1>2 DEF TerminationsAreArchived, NoRow, NoFlow
<1>6. ThreadLive
  <2>1. PrimaryLives
    BY <1>1, <1>2, <1>5 DEF PrimaryLives, Contains
  <2>2. IdleSessionIsQuiet
    BY <1>2 DEF IdleSessionIsQuiet, ThreadInit
  <2> QED BY <1>4, <2>1, <2>2 DEF ThreadLive, WakeupOnItsWay
<1> QED BY <1>3, <1>4, <1>5, <1>6 DEF ThreadInv, ThreadBase

\* A user message reaches the ledger of a coordinator that is woken.
LEMMA AdmitUserMessageStep == ASSUME ThreadInv, AdmitUserMessage PROVE ThreadInv'
<1> USE DEF ThreadInv, ThreadBase
<1>1. /\ Primary \in Threads /\ Primary \notin Children /\ Primary \notin archived
      /\ inbox \in [Threads -> Seq(EventTypes)] /\ threadStatus \in [Threads -> ThreadStatuses]
      /\ counts \in [Bounded -> Nat]
  BY ThreadRuntimeAssumption DEF Threads, ThreadTyped
<1>2. /\ inbox' = [t \in Threads |-> IF t \in {Primary} THEN Append(inbox[t], "message") ELSE inbox[t]]
      /\ UpsertThreadOutbox({Primary}) /\ UNCHANGED <<archived, gate, flow>>
      /\ threadStatus' \in [Threads -> ThreadStatuses] /\ threadStatus'[Primary] = "running"
      /\ \A t \in Threads : t # Primary => threadStatus'[t] = threadStatus[t]
  BY <1>1 DEF AdmitUserMessage, ThreadStatuses
<1>3. counts' \in [Bounded -> Nat]
  BY <1>1, Counted DEF AdmitUserMessage, Bounded
<1>4. \/ sessionStatus = "idle" /\ sessionStatus' = "running" /\ announced' = "running"
      \/ sessionStatus # "idle" /\ UNCHANGED <<sessionStatus, announced>>
  BY DEF AdmitUserMessage, Project
<1>5. ThreadBase' /\ ((\A t \in Threads : WakeupOnItsWay(t)) => (\A t \in Threads : WakeupOnItsWay(t)'))
  <2>1. sessionStatus' \in ThreadStatuses \ {"absent"} /\ announced' \in ThreadStatuses \ {"absent"}
    BY <1>4 DEF ThreadTyped, ThreadStatuses
  <2> HIDE DEF ThreadInv
  <2>2. "message" \in EventTypes /\ {Primary} \in SUBSET Threads
    BY <1>1 DEF EventTypes
  <2>3. ThreadBase
    BY DEF ThreadInv
  <2> HIDE DEF ThreadBase
  <2> QED BY <1>1, <1>2, <1>3, <2>1, <2>2, <2>3, AppendStep
<1>6. ASSUME "terminate" \notin PrimaryOutcomes PROVE PrimaryLives' /\ IdleSessionIsQuiet'
  <2>1. PrimaryLives'
    BY <1>2, <1>6 DEF ThreadLive, PrimaryLives
  <2>2. IdleSessionIsQuiet'
    <3>1. IdleSessionIsQuiet
      BY <1>6 DEF ThreadLive
    <3> QED BY <1>1, <1>2, <1>4, <3>1 DEF IdleSessionIsQuiet
  <2> QED BY <2>1, <2>2
<1> QED BY <1>5, <1>6 DEF ThreadLive

\* An interrupt is appended to Threads that have not ended and are woken.
LEMMA AdmitThreadInterruptStep == ASSUME ThreadInv, AdmitThreadInterrupt PROVE ThreadInv'
<1> USE DEF ThreadInv, ThreadBase
<1>1. /\ Primary \in Threads /\ Primary \notin Children /\ archived \subseteq Children
      /\ inbox \in [Threads -> Seq(EventTypes)] /\ threadStatus \in [Threads -> ThreadStatuses]
      /\ counts \in [Bounded -> Nat]
  BY ThreadRuntimeAssumption DEF Threads, ThreadTyped
<1>2. PICK ts \in SUBSET Threads :
        /\ \A t \in ts : t \notin archived /\ (t \in Children => threadStatus[t] # "terminated")
        /\ inbox' = [t \in Threads |-> IF t \in ts THEN Append(inbox[t], "interrupt") ELSE inbox[t]]
        /\ UpsertThreadOutbox(ts) /\ UNCHANGED <<threadStatus, archived, sessionStatus, announced, gate, flow>>
        /\ Use("interrupt", MaxInterrupts)
  <2>1. PICK target \in {t \in Threads : threadStatus[t] # "absent" /\ ~Ended(t)} \cup {"all"} :
          /\ inbox' = [t \in Threads |-> IF t \in RouteInterrupt(target)
                                        THEN Append(inbox[t], "interrupt") ELSE inbox[t]]
          /\ UpsertThreadOutbox(RouteInterrupt(target))
          /\ UNCHANGED <<threadStatus, archived, sessionStatus, announced, gate, flow>>
          /\ Use("interrupt", MaxInterrupts)
    BY DEF AdmitThreadInterrupt
  <2>2. \A t \in RouteInterrupt(target) : t \in Threads /\ (t = Primary \/ ~Ended(t))
    <3>1. CASE target # "all"
      BY <3>1, <2>1 DEF RouteInterrupt
    <3>2. CASE target = "all"
      BY <3>2 DEF RouteInterrupt
    <3> QED BY <3>1, <3>2
  <2>3. RouteInterrupt(target) \in SUBSET Threads
    BY <2>2
  <2>4. \A t \in RouteInterrupt(target) : t \notin archived /\ (t \in Children => threadStatus[t] # "terminated")
    BY <1>1, <2>2 DEF Ended
  <2> QED BY <2>1, <2>3, <2>4
<1>3. counts' \in [Bounded -> Nat]
  BY <1>1, <1>2, Counted DEF Bounded
<1>5. ThreadBase' /\ ((\A t \in Threads : WakeupOnItsWay(t)) => (\A t \in Threads : WakeupOnItsWay(t)'))
  <2>1. sessionStatus' \in ThreadStatuses \ {"absent"} /\ announced' \in ThreadStatuses \ {"absent"}
    BY <1>2 DEF ThreadTyped
  <2>2. "interrupt" \in EventTypes /\ threadStatus' = threadStatus
    BY <1>2 DEF EventTypes
  <2>3. ThreadBase
    OBVIOUS
  <2> HIDE DEF ThreadBase, ThreadInv
  <2> QED BY <1>1, <1>2, <1>3, <2>1, <2>2, <2>3, AppendStep
<1>6. ASSUME "terminate" \notin PrimaryOutcomes PROVE PrimaryLives' /\ IdleSessionIsQuiet'
  <2>1. PrimaryLives'
    <3>1. Contains(inbox'[Primary], "message") => Contains(inbox[Primary], "message")
      <4>1. CASE Primary \in ts
        <5>1. inbox'[Primary] = Append(inbox[Primary], "interrupt") /\ inbox[Primary] \in Seq(EventTypes)
          BY <1>1, <1>2, <4>1
        <5> QED BY <5>1 DEF Contains
      <4>2. CASE Primary \notin ts
        BY <1>1, <1>2, <4>2
      <4> QED BY <4>1, <4>2
    <3> QED BY <1>2, <1>6, <3>1 DEF ThreadLive, PrimaryLives
  <2>2. IdleSessionIsQuiet'
    BY <1>2, <1>6 DEF ThreadLive, IdleSessionIsQuiet
  <2> QED BY <2>1, <2>2
<1> QED BY <1>5, <1>6 DEF ThreadLive

\* The answer to an open barrier is the only one and its child is woken.
LEMMA AdmitChildResultStep ==
    ASSUME ThreadInv, NEW c \in Children, AdmitChildResult(c)
    PROVE  ThreadInv'
<1> USE DEF ThreadInv, ThreadBase
<1>1. /\ Primary \in Threads /\ c \in Threads /\ c # Primary
      /\ inbox \in [Threads -> Seq(EventTypes)] /\ threadStatus \in [Threads -> ThreadStatuses]
      /\ counts \in [Bounded -> Nat]
  BY ThreadRuntimeAssumption DEF Threads, ThreadTyped
<1>2. /\ inbox' = [t \in Threads |-> IF t \in {c} THEN Append(inbox[t], "result") ELSE inbox[t]]
      /\ UpsertThreadOutbox({c}) /\ UNCHANGED <<archived, gate, flow, counts>>
      /\ threadStatus' \in [Threads -> ThreadStatuses] /\ threadStatus'[c] = "running"
      /\ \A t \in Threads : t # c => threadStatus'[t] = threadStatus[t]
      /\ ~Ended(c) /\ c \in gate /\ ~Contains(inbox[c], "result")
  BY <1>1 DEF AdmitChildResult, ThreadStatuses
<1>4. \/ sessionStatus = "idle" /\ sessionStatus' = "running" /\ announced' = "running"
      \/ sessionStatus # "idle" /\ UNCHANGED <<sessionStatus, announced>>
  BY DEF AdmitChildResult, Project
<1>5. ThreadBase' /\ ((\A t \in Threads : WakeupOnItsWay(t)) => (\A t \in Threads : WakeupOnItsWay(t)'))
  <2>1. sessionStatus' \in ThreadStatuses \ {"absent"} /\ announced' \in ThreadStatuses \ {"absent"}
    BY <1>4 DEF ThreadTyped, ThreadStatuses
  <2>2. "result" \in EventTypes /\ {c} \in SUBSET Threads /\ c \notin archived
    BY <1>1, <1>2 DEF EventTypes, Ended
  <2>3. ThreadBase /\ counts' \in [Bounded -> Nat] /\ UNCHANGED <<archived, gate, flow>>
    BY <1>1, <1>2
  <2>4. \A t \in Threads : threadStatus'[t] = threadStatus[t]
             \/ (t \in {c} /\ threadStatus'[t] = "running" /\ (t = Primary \/ ~Ended(t)))
    BY <1>2
  <2>5. \A t \in {c} : /\ t \notin archived
                       /\ "result" = "interrupt" /\ t \in Children => threadStatus[t] # "terminated"
                       /\ "result" = "result" => t \in gate /\ ~Contains(inbox[t], "result")
    BY <1>2, <2>2
  <2> HIDE DEF ThreadBase, ThreadInv
  <2> QED BY <1>2, <2>1, <2>2, <2>3, <2>4, <2>5, AppendStep
<1>6. ASSUME "terminate" \notin PrimaryOutcomes PROVE PrimaryLives' /\ IdleSessionIsQuiet'
  <2>1. PrimaryLives'
    BY <1>1, <1>2, <1>6 DEF ThreadLive, PrimaryLives
  <2>2. IdleSessionIsQuiet'
    <3>1. IdleSessionIsQuiet
      BY <1>6 DEF ThreadLive
    <3> QED BY <1>1, <1>2, <1>4, <3>1 DEF IdleSessionIsQuiet
  <2> QED BY <2>1, <2>2
<1> QED BY <1>5, <1>6 DEF ThreadLive

\* A turn of the coordinator means work on its ledger, so the Session is not idle.
LEMMA PrimaryAtWork ==
    ASSUME ThreadInv, "terminate" \notin PrimaryOutcomes, InTurn(Primary)
    PROVE  sessionStatus # "idle" /\ announced # "idle"
<1> USE DEF ThreadInv, ThreadBase
<1>1. Primary \in Threads /\ Primary \notin gate /\ Primary \notin archived
  BY ThreadRuntimeAssumption DEF Threads, ThreadTyped
<1>2. Contains(inbox[Primary], "message")
  BY <1>1 DEF ThreadOK, TriggerInLedger, Contains
<1> QED BY <1>1, <1>2 DEF ThreadLive, PrimaryLives, IdleSessionIsQuiet

\* send_to_agent reaches a child that has not ended and is woken.
LEMMA ExecuteSendStep ==
    ASSUME ThreadInv, NEW c \in Children, ExecuteSendToAgent(c)
    PROVE  ThreadInv'
<1> USE DEF ThreadInv, ThreadBase
<1>1. /\ Primary \in Threads /\ c \in Threads /\ c # Primary
      /\ inbox \in [Threads -> Seq(EventTypes)] /\ threadStatus \in [Threads -> ThreadStatuses]
      /\ counts \in [Bounded -> Nat] /\ InTurn(Primary)
  BY ThreadRuntimeAssumption DEF Threads, ThreadTyped, ExecuteSendToAgent, InTurn
<1>2. /\ inbox' = [t \in Threads |-> IF t \in {c} THEN Append(inbox[t], "message") ELSE inbox[t]]
      /\ UpsertThreadOutbox({c}) /\ UNCHANGED <<archived, gate, flow>>
      /\ threadStatus' \in [Threads -> ThreadStatuses] /\ threadStatus'[c] = "running"
      /\ \A t \in Threads : t # c => threadStatus'[t] = threadStatus[t]
      /\ sessionStatus' = "running" /\ announced' = announced
  BY <1>1 DEF ExecuteSendToAgent, ThreadStatuses, Project
<1>3. counts' \in [Bounded -> Nat]
  BY <1>1, Counted DEF ExecuteSendToAgent, Bounded
<1>4. ~Ended(c)
  <2>1. NewChild(c) \/ ExistingChild(c)
    BY DEF ExecuteSendToAgent
  <2>2. c \in archived => threadStatus[c] = "terminated"
    BY <1>1 DEF ThreadOK, Frozen
  <2> QED BY <2>1, <2>2 DEF NewChild, ExistingChild, Ended
<1>5. ThreadBase' /\ ((\A t \in Threads : WakeupOnItsWay(t)) => (\A t \in Threads : WakeupOnItsWay(t)'))
  <2>1. sessionStatus' \in ThreadStatuses \ {"absent"} /\ announced' \in ThreadStatuses \ {"absent"}
    BY <1>2 DEF ThreadTyped, ThreadStatuses
  <2>2. "message" \in EventTypes /\ {c} \in SUBSET Threads /\ c \notin archived
    BY <1>1, <1>4 DEF EventTypes, Ended
  <2>3. ThreadBase
    OBVIOUS
  <2> HIDE DEF ThreadBase, ThreadInv
  <2> QED BY <1>1, <1>2, <1>3, <1>4, <2>1, <2>2, <2>3, AppendStep
<1>6. ASSUME "terminate" \notin PrimaryOutcomes PROVE PrimaryLives' /\ IdleSessionIsQuiet'
  <2>1. PrimaryLives'
    BY <1>1, <1>2, <1>6 DEF ThreadLive, PrimaryLives
  <2>2. IdleSessionIsQuiet'
    BY <1>1, <1>2, <1>6, PrimaryAtWork DEF IdleSessionIsQuiet
  <2> QED BY <2>1, <2>2
<1> QED BY <1>5, <1>6 DEF ThreadLive

-----------------------------------------------------------------------------
(* The Workflows                                                           *)

\* the steps of a Workflow
Pcs == {"none", "wait", "drain", "start", "model", "backoff", "interrupted", "reply"}

\* What Goto changes.
LEMMA Went ==
    ASSUME flow \in [Threads -> FlowType], NEW t \in Threads, NEW pc \in Pcs, Goto(t, pc)
    PROVE  /\ flow' \in [Threads -> FlowType]
           /\ \A u \in Threads : u # t => flow'[u] = flow[u]
           /\ flow'[t].pc = pc /\ flow'[t].signal = flow[t].signal
           /\ flow'[t].at = flow[t].at /\ flow'[t].reply = flow[t].reply
  BY DEF Goto, FlowType, Pcs

\* The turn of a Thread goes on with the trigger it has.
LEMMA TurnGoesOn ==
    ASSUME NEW t \in Threads, ThreadOK(t), InTurn(t), inbox'[t] = inbox[t], t \in gate' <=> t \in gate,
           flow'[t].at = flow[t].at, t \in archived => t \in archived'
    PROVE  t \notin archived' => TriggerInLedger(t)'
  BY DEF ThreadOK, TriggerInLedger

\* A wakeup that is received is worked on: the drain looks at the ledger.
LEMMA ReceiveStep ==
    ASSUME ThreadInv, NEW t \in Threads, ReceiveThreadWakeup(t)
    PROVE  ThreadInv'
<1>1. flow \in [Threads -> FlowType] /\ counts \in [Bounded -> Nat] /\ ThreadOK(t)
  BY DEF ThreadInv, ThreadBase, ThreadTyped
<1>2. flow[t].pc = "wait" /\ flow' = [flow EXCEPT ![t].pc = "drain", ![t].signal = FALSE]
      /\ LedgerUnchanged /\ UNCHANGED counts
  BY DEF ReceiveThreadWakeup
<1>3. /\ flow' \in [Threads -> FlowType]
      /\ \A u \in Threads : u # t => flow'[u] = flow[u]
      /\ flow'[t].pc = "drain" /\ flow'[t].at = flow[t].at /\ flow'[t].reply = flow[t].reply
  BY <1>1, <1>2 DEF FlowType
<1>4. flow[t].at = 0
  BY <1>1, <1>2 DEF ThreadOK
<1>5. ~InTurn(t)' /\ ~Asleep(t)'
  BY <1>3 DEF InTurn, Asleep
<1> QED BY <1>1, <1>2, <1>3, <1>4, <1>5, FlowStep

\* A drain ends when there is nothing to take up.
LEMMA EndDrainStep ==
    ASSUME ThreadInv, NEW t \in Threads, EndThreadDrain(t)
    PROVE  ThreadInv'
<1>1. flow \in [Threads -> FlowType] /\ counts \in [Bounded -> Nat] /\ ThreadOK(t)
  BY DEF ThreadInv, ThreadBase, ThreadTyped
<1>2. flow[t].pc = "drain" /\ Goto(t, "wait") /\ LedgerUnchanged /\ UNCHANGED counts /\ NextEvent(t) = 0
  BY DEF EndThreadDrain
<1>3. /\ flow' \in [Threads -> FlowType]
      /\ \A u \in Threads : u # t => flow'[u] = flow[u]
      /\ flow'[t].pc = "wait" /\ flow'[t].at = flow[t].at /\ flow'[t].reply = flow[t].reply
  BY <1>1, <1>2, Went DEF Pcs
<1>4. flow[t].at = 0
  BY <1>1, <1>2 DEF ThreadOK
<1>5. ~InTurn(t)'
  BY <1>3 DEF InTurn
<1> QED BY <1>1, <1>2, <1>3, <1>4, <1>5, FlowStep

\* A turn begins on an event of the ledger with no interrupt before it.
LEMMA BeginTurnStep ==
    ASSUME ThreadInv, NEW t \in Threads, BeginThreadTurn(t)
    PROVE  ThreadInv'
<1>1. flow \in [Threads -> FlowType] /\ counts \in [Bounded -> Nat] /\ ThreadOK(t)
      /\ inbox[t] \in Seq(EventTypes)
  BY DEF ThreadInv, ThreadBase, ThreadTyped
<1>2. /\ NextEvent(t) # 0 /\ inbox[t][NextEvent(t)] # "interrupt"
      /\ flow' = [flow EXCEPT ![t].pc = "start", ![t].at = NextEvent(t)]
      /\ LedgerUnchanged /\ UNCHANGED counts
  BY DEF BeginThreadTurn
<1>3. /\ NextEvent(t) \in 1..Len(inbox[t]) /\ NextEvent(t) \in Nat
      /\ t \notin gate => NextEvent(t) = 1
      /\ t \in gate => /\ inbox[t][NextEvent(t)] = "result"
                       /\ \A k \in 1..Len(inbox[t]) : k < NextEvent(t) => inbox[t][k] # "interrupt"
  BY <1>1, <1>2, NextEventFacts
<1>4. /\ flow' \in [Threads -> FlowType]
      /\ \A u \in Threads : u # t => flow'[u] = flow[u]
      /\ flow'[t].pc = "start" /\ flow'[t].at = NextEvent(t) /\ flow'[t].reply = flow[t].reply
  BY <1>1, <1>2, <1>3 DEF FlowType
<1>5. t \notin gate => inbox[t][NextEvent(t)] = "message"
  <2>1. inbox[t][NextEvent(t)] \in EventTypes
    BY <1>1, <1>3
  <2> QED BY <1>1, <1>2, <1>3, <2>1 DEF ThreadOK, OneResult, EventTypes
<1>6. TriggerInLedger(t)'
  BY <1>2, <1>3, <1>4, <1>5 DEF TriggerInLedger, LedgerUnchanged
<1>7. ~Asleep(t)'
  BY <1>4 DEF Asleep
<1> QED BY <1>1, <1>2, <1>4, <1>6, <1>7, FlowStep

\* The model request starts, or the turn is interrupted.
LEMMA StartModelStep ==
    ASSUME ThreadInv, NEW t \in Threads, StartThreadModelRequest(t)
    PROVE  ThreadInv'
<1>1. flow \in [Threads -> FlowType] /\ counts \in [Bounded -> Nat] /\ ThreadOK(t)
  BY DEF ThreadInv, ThreadBase, ThreadTyped
<1>2. PICK pc \in {"interrupted", "model"} : Goto(t, pc)
  BY DEF StartThreadModelRequest
<1>3. flow[t].pc = "start" /\ LedgerUnchanged /\ UNCHANGED counts
  BY DEF StartThreadModelRequest
<1>4. /\ flow' \in [Threads -> FlowType]
      /\ \A u \in Threads : u # t => flow'[u] = flow[u]
      /\ flow'[t].pc = pc /\ flow'[t].at = flow[t].at /\ flow'[t].reply = flow[t].reply
  BY <1>1, <1>2, Went DEF Pcs
<1>5. t \notin archived => TriggerInLedger(t)'
  BY <1>1, <1>3, <1>4, TurnGoesOn DEF InTurn, LedgerUnchanged
<1>6. ~Asleep(t)'
  BY <1>4 DEF Asleep
<1> QED BY <1>1, <1>3, <1>4, <1>5, <1>6, FlowStep

\* A wakeup received during a turn makes it look at the ledger.
LEMMA ObserveStep ==
    ASSUME ThreadInv, NEW t \in Threads, ObserveThreadWakeup(t)
    PROVE  ThreadInv'
<1>1. flow \in [Threads -> FlowType] /\ counts \in [Bounded -> Nat] /\ ThreadOK(t)
  BY DEF ThreadInv, ThreadBase, ThreadTyped
<1>2. PICK pc \in {"start", "model", "backoff", "interrupted"} :
        flow' = [flow EXCEPT ![t].signal = FALSE, ![t].pc = pc]
  <2>1. CASE Interrupted(t)
    <3>1. flow' = [flow EXCEPT ![t].signal = FALSE, ![t].pc = "interrupted"]
      BY <2>1 DEF ObserveThreadWakeup
    <3> QED BY <3>1
  <2>2. CASE ~Interrupted(t)
    <3>1. flow' = [flow EXCEPT ![t].signal = FALSE, ![t].pc = @] /\ flow[t].pc \in {"start", "model", "backoff"}
      BY <2>2 DEF ObserveThreadWakeup
    <3>2. flow' = [flow EXCEPT ![t].signal = FALSE, ![t].pc = flow[t].pc]
      BY <1>1, <3>1 DEF FlowType
    <3> QED BY <3>1, <3>2
  <2> QED BY <2>1, <2>2
<1>3. InTurn(t) /\ LedgerUnchanged /\ UNCHANGED counts
  BY DEF ObserveThreadWakeup, InTurn
<1>4. /\ flow' \in [Threads -> FlowType]
      /\ \A u \in Threads : u # t => flow'[u] = flow[u]
      /\ flow'[t].pc = pc /\ flow'[t].at = flow[t].at /\ flow'[t].reply = flow[t].reply
  BY <1>1, <1>2 DEF FlowType
<1>5. t \notin archived => TriggerInLedger(t)'
  BY <1>1, <1>3, <1>4, TurnGoesOn DEF LedgerUnchanged
<1>6. ~Asleep(t)'
  BY <1>4 DEF Asleep
<1> QED BY <1>1, <1>3, <1>4, <1>5, <1>6, FlowStep

\* A replayed completion answers as before, or that the child has ended.
LEMMA ReplayStep ==
    ASSUME ThreadInv, NEW t \in Threads, ReplayThreadTurn(t)
    PROVE  ThreadInv'
<1>1. flow \in [Threads -> FlowType] /\ counts \in [Bounded -> Nat] /\ ThreadOK(t)
  BY DEF ThreadInv, ThreadBase, ThreadTyped
<1>2. flow[t].pc = "reply" /\ LedgerUnchanged /\ counts' \in [Bounded -> Nat]
  BY <1>1, Counted DEF ReplayThreadTurn, Bounded
<1>3. PICK re \in {"none", "next", "parked", "terminated"} :
        /\ flow' = [flow EXCEPT ![t].reply = re]
        /\ re = flow[t].reply \/ (re = "terminated" /\ t # Primary /\ Ended(t))
  <2>1. flow[t].reply \in {"none", "next", "parked", "terminated"}
    BY <1>1 DEF FlowType
  <2>2. CASE t # Primary /\ Ended(t)
    BY <2>2 DEF ReplayThreadTurn
  <2>3. CASE ~(t # Primary /\ Ended(t))
    <3>1. flow' = [flow EXCEPT ![t].reply = @]
      BY <2>3 DEF ReplayThreadTurn
    <3>2. flow' = [flow EXCEPT ![t].reply = flow[t].reply]
      BY <1>1, <3>1 DEF FlowType
    <3> QED BY <2>1, <3>2
  <2> QED BY <2>2, <2>3
<1>4. /\ flow' \in [Threads -> FlowType]
      /\ \A u \in Threads : u # t => flow'[u] = flow[u]
      /\ flow'[t].pc = flow[t].pc /\ flow'[t].at = flow[t].at /\ flow'[t].reply = re
      /\ flow'[t].signal = flow[t].signal
  BY <1>1, <1>3 DEF FlowType
<1>5. ~InTurn(t)' /\ (Asleep(t)' => Asleep(t))
  BY <1>2, <1>3, <1>4 DEF InTurn, Asleep
<1>6. t \in Children /\ flow[t].pc = "reply" /\ flow[t].reply = "terminated" => Ended(t)
  BY <1>1 DEF ThreadOK, EndedIsFinal
<1> QED BY <1>2, <1>3, <1>4, <1>5, <1>6, FlowStep

\* The Workflow drains, waits or stops as the reply says.
LEMMA TakeReplyStep ==
    ASSUME ThreadInv, NEW t \in Threads, TakeThreadReply(t)
    PROVE  ThreadInv'
<1>1. flow \in [Threads -> FlowType] /\ counts \in [Bounded -> Nat] /\ ThreadOK(t)
  BY DEF ThreadInv, ThreadBase, ThreadTyped
<1>2. flow[t].pc = "reply" /\ LedgerUnchanged /\ UNCHANGED counts
  BY DEF TakeThreadReply
<1>3. PICK f \in FlowType :
        /\ flow' = [flow EXCEPT ![t] = f] /\ f.at = 0 /\ f.reply = "none"
        /\ \/ f.pc = "none" /\ flow[t].reply = "terminated"
           \/ f.pc = "wait" /\ flow[t].reply = "parked" /\ (flow[t].signal => f.signal)
           \/ f.pc = "drain"
  <2>1. CASE flow[t].reply = "terminated"
    <3>1. flow' = [flow EXCEPT ![t] = NoFlow]
      BY <2>1 DEF TakeThreadReply
    <3>2. NoFlow \in FlowType /\ NoFlow.at = 0 /\ NoFlow.reply = "none" /\ NoFlow.pc = "none"
      BY DEF NoFlow, FlowType
    <3> QED BY <2>1, <3>1, <3>2
  <2>2. CASE flow[t].reply # "terminated"
    <3> DEFINE f == [NoFlow EXCEPT !.pc = IF flow[t].reply = "parked" THEN "wait" ELSE "drain",
                                   !.signal = flow[t].signal]
    <3>1. flow' = [flow EXCEPT ![t] = f]
      BY <2>2 DEF TakeThreadReply
    <3>2. flow[t].signal \in BOOLEAN
      BY <1>1 DEF FlowType
    <3>3. f \in FlowType /\ f.at = 0 /\ f.reply = "none" /\ f.signal = flow[t].signal
          /\ f.pc = IF flow[t].reply = "parked" THEN "wait" ELSE "drain"
      BY <3>2 DEF NoFlow, FlowType
    <3> HIDE DEF f
    <3> QED BY <3>1, <3>3
  <2> QED BY <2>1, <2>2
<1>4. /\ flow' \in [Threads -> FlowType]
      /\ \A u \in Threads : u # t => flow'[u] = flow[u]
      /\ flow'[t] = f
  BY <1>1, <1>3
<1>5. ~InTurn(t)'
  BY <1>3, <1>4 DEF InTurn
<1>6. ASSUME flow[t].reply = "terminated", ~Ended(t) PROVE t = Primary /\ "terminate" \in PrimaryOutcomes
  <2>1. t = Primary
    BY <1>1, <1>2, <1>6 DEF ThreadOK, EndedIsFinal, Threads
  <2> QED BY <1>6, <2>1 DEF ThreadInv, ThreadLive, PrimaryLives
<1>7. Asleep(t)' => (f.pc = "none" /\ flow[t].reply = "terminated") \/ (Asleep(t) /\ (flow[t].signal => flow'[t].signal))
  BY <1>2, <1>3, <1>4 DEF Asleep
<1>8. ~Ended(t) /\ Asleep(t)' => \/ Asleep(t) /\ (flow[t].signal => flow'[t].signal)
                                 \/ t = Primary /\ "terminate" \in PrimaryOutcomes
  <2> SUFFICES ASSUME ~Ended(t), Asleep(t)'
               PROVE  \/ Asleep(t) /\ (flow[t].signal => flow'[t].signal)
                      \/ t = Primary /\ "terminate" \in PrimaryOutcomes
    OBVIOUS
  <2>1. CASE flow[t].reply = "terminated"
    BY <1>6, <2>1
  <2>2. CASE Asleep(t) /\ (flow[t].signal => flow'[t].signal)
    BY <2>2
  <2> QED BY <1>7, <2>1, <2>2
<1>9. counts' \in [Bounded -> Nat] /\ flow'[t].at = 0 /\ flow'[t].reply = "none" /\ flow'[t].pc # "reply"
  BY <1>1, <1>2, <1>3, <1>4
<1> QED BY <1>2, <1>4, <1>5, <1>8, <1>9, FlowStep

-----------------------------------------------------------------------------
(* Delivery                                                                *)

\* A step of a relay that leaves the Threads alone.
LEMMA RelayStep ==
    ASSUME ThreadInv, UNCHANGED <<threadStatus, archived, sessionStatus, announced, inbox, gate, flow>>,
           counts' \in [Bounded -> Nat],
           threadOutbox' \in [Threads -> {"none", "wake", "terminate"}], held' \in [ThreadRelays -> RowType],
           TerminationsAreArchived',
           \A t \in Threads :
                       threadOutbox'[t] = threadOutbox[t] \/ (\E r \in ThreadRelays : Delivered(r, t)) \/ t \in archived,
           \A t \in Threads, r \in ThreadRelays : Delivered(r, t)' => Delivered(r, t)
    PROVE  ThreadInv'
<1> USE DEF ThreadInv, ThreadBase
<1>1. ThreadTyped'
  BY DEF ThreadTyped
<1>2. \A t \in Threads : ThreadOK(t)'
  BY Untouched
<1>3. ASSUME "terminate" \notin PrimaryOutcomes PROVE ThreadLive'
  <2>1. PrimaryLives' /\ IdleSessionIsQuiet'
    BY <1>3 DEF ThreadLive, PrimaryLives, IdleSessionIsQuiet, Contains
  <2>2. ASSUME NEW t \in Threads PROVE WakeupOnItsWay(t)'
    <3>1. WakeupOnItsWay(t) /\ NextEvent(t)' = NextEvent(t)
      BY <1>3, Kept DEF ThreadLive
    <3>2. (Ended(t)' <=> Ended(t)) /\ (Asleep(t)' <=> Asleep(t))
      BY DEF Ended, Asleep
    <3>3. threadOutbox'[t] = threadOutbox[t] \/ (\E r \in ThreadRelays : Delivered(r, t)) \/ Ended(t)
      BY DEF Ended
    <3> QED BY <3>1, <3>2, <3>3 DEF WakeupOnItsWay
  <2> QED BY <2>1, <2>2 DEF ThreadLive
<1> QED BY <1>1, <1>2, <1>3

\* Reading, deleting and failing: a wakeup is deleted only once it is delivered and
\* if no later one took its row.
LEMMA RelaySteps ==
    ASSUME ThreadInv, NEW r \in ThreadRelays,
           \/ \E t \in Threads : RelayReadThread(r, t)
           \/ DeleteThreadWakeupIfUnchanged(r) \/ RelayFailThread(r)
    PROVE  ThreadInv'
<1>1. /\ held \in [ThreadRelays -> RowType] /\ counts \in [Bounded -> Nat] /\ TerminationsAreArchived
      /\ threadOutbox \in [Threads -> {"none", "wake", "terminate"}]
  BY DEF ThreadInv, ThreadBase, ThreadTyped
<1>2. NoRow \in RowType /\ NoRow.intent = "none"
  BY DEF NoRow, RowType, Threads
<1>3. ASSUME NEW t \in Threads, RelayReadThread(r, t) PROVE ThreadInv'
  <2>1. PICK row \in RowType : /\ held' = [held EXCEPT ![r] = row] /\ ~row.delivered
                               /\ row.thread = t /\ row.intent = threadOutbox[t]
    <3>1. [thread |-> t, intent |-> threadOutbox[t], fresh |-> TRUE, delivered |-> FALSE] \in RowType
      BY <1>1 DEF RowType
    <3> QED BY <1>3, <3>1 DEF RelayReadThread
  <2>2. /\ held' \in [ThreadRelays -> RowType] /\ held'[r] = row
        /\ \A q \in ThreadRelays : q # r => held'[q] = held[q]
    BY <1>1, <2>1
  <2>3. UNCHANGED <<threadStatus, archived, sessionStatus, announced, inbox, gate, threadOutbox, flow, counts>>
    BY <1>3 DEF RelayReadThread
  <2>4. TerminationsAreArchived'
    BY <1>1, <2>1, <2>2, <2>3 DEF TerminationsAreArchived
  <2>5. \A u \in Threads, q \in ThreadRelays : Delivered(q, u)' => Delivered(q, u)
    BY <2>1, <2>2 DEF Delivered
  <2> QED BY <1>1, <2>2, <2>3, <2>4, <2>5, RelayStep
<1>4. CASE RelayFailThread(r)
  <2>1. /\ held' \in [ThreadRelays -> RowType] /\ held'[r].intent = "none"
        /\ \A q \in ThreadRelays : q # r => held'[q] = held[q]
    BY <1>1, <1>2, <1>4 DEF RelayFailThread
  <2>2. UNCHANGED <<threadStatus, archived, sessionStatus, announced, inbox, gate, threadOutbox, flow>>
        /\ counts' \in [Bounded -> Nat]
    BY <1>1, <1>4, Counted DEF RelayFailThread, Bounded
  <2>3. TerminationsAreArchived'
    BY <1>1, <2>1, <2>2 DEF TerminationsAreArchived
  <2>4. \A u \in Threads, q \in ThreadRelays : Delivered(q, u)' => Delivered(q, u)
    BY <2>1 DEF Delivered
  <2> QED BY <1>1, <2>1, <2>2, <2>3, <2>4, RelayStep
<1>5. CASE DeleteThreadWakeupIfUnchanged(r)
  <2>1. /\ held' \in [ThreadRelays -> RowType] /\ held'[r].intent = "none"
        /\ \A q \in ThreadRelays : q # r => held'[q] = held[q]
    BY <1>1, <1>2, <1>5 DEF DeleteThreadWakeupIfUnchanged
  <2>2. UNCHANGED <<threadStatus, archived, sessionStatus, announced, inbox, gate, flow, counts>>
    BY <1>5 DEF DeleteThreadWakeupIfUnchanged
  <2> DEFINE u == held[r].thread
  <2>3. u \in Threads /\ held[r].intent \in {"none", "wake", "terminate"}
    BY <1>1 DEF RowType
  <2>4. /\ threadOutbox' \in [Threads -> {"none", "wake", "terminate"}]
        /\ \A t \in Threads : threadOutbox'[t] = threadOutbox[t] \/ threadOutbox'[t] = "none"
        /\ \A t \in Threads : threadOutbox'[t] # threadOutbox[t] =>
             /\ t = u /\ held[r].fresh /\ held[r].delivered
             /\ held[r].intent = threadOutbox[t] /\ threadOutbox[t] # "none"
    <3>1. CASE held[r].fresh /\ threadOutbox[u] = held[r].intent
      <4>1. threadOutbox' = [threadOutbox EXCEPT ![u] = "none"] /\ held[r].delivered
        BY <1>5, <3>1 DEF DeleteThreadWakeupIfUnchanged
      <4> HIDE DEF u
      <4> QED BY <1>1, <2>3, <3>1, <4>1
    <3>2. CASE ~(held[r].fresh /\ threadOutbox[u] = held[r].intent)
      <4>1. threadOutbox' = threadOutbox
        BY <1>5, <3>2 DEF DeleteThreadWakeupIfUnchanged
      <4> QED BY <1>1, <4>1
    <3> QED BY <3>1, <3>2
  <2>5. TerminationsAreArchived'
    BY <1>1, <2>1, <2>2, <2>4 DEF TerminationsAreArchived
  <2>6. \A t \in Threads :
              threadOutbox'[t] = threadOutbox[t] \/ (\E q \in ThreadRelays : Delivered(q, t)) \/ t \in archived
    BY <1>1, <2>3, <2>4 DEF Delivered, TerminationsAreArchived
  <2>7. \A t \in Threads, q \in ThreadRelays : Delivered(q, t)' => Delivered(q, t)
    BY <2>1 DEF Delivered
  <2> QED BY <1>1, <2>1, <2>2, <2>4, <2>5, <2>6, <2>7, RelayStep
<1> QED BY <1>3, <1>4, <1>5

\* A delivered wakeup is a signal; a termination stops archived children alone.
LEMMA RelayDeliverStep ==
    ASSUME ThreadInv, NEW r \in ThreadRelays, RelayDeliverThread(r)
    PROVE  ThreadInv'
<1> USE DEF ThreadInv, ThreadBase
<1>0. PICK t \in Threads : t = held[r].thread
  BY DEF ThreadTyped, RowType
<1>1. /\ held \in [ThreadRelays -> RowType] /\ flow \in [Threads -> FlowType] /\ t \in Threads
      /\ held[r].intent \in {"wake", "terminate"}
  BY <1>0 DEF ThreadTyped, RelayDeliverThread, RowType
<1>2. UNCHANGED <<threadStatus, archived, sessionStatus, announced, inbox, gate, threadOutbox, counts>>
  BY DEF RelayDeliverThread
<1>3. /\ held' \in [ThreadRelays -> RowType]
      /\ \A q \in ThreadRelays : q # r => held'[q] = held[q]
      /\ held'[r].thread = held[r].thread /\ held'[r].intent = held[r].intent
  BY <1>1 DEF RelayDeliverThread, RowType
<1>4. TerminationsAreArchived'
  BY <1>2, <1>3 DEF TerminationsAreArchived
<1>5. CASE held[r].intent = "wake"
  <2>0. flow' = [flow EXCEPT ![t].signal = TRUE, ![t].pc = IF @ = "none" THEN "wait" ELSE @]
    BY <1>0, <1>5 DEF RelayDeliverThread, WakeThread
  <2>1. PICK pc \in Pcs : /\ flow' = [flow EXCEPT ![t].signal = TRUE, ![t].pc = pc]
                          /\ pc = flow[t].pc \/ (pc = "wait" /\ flow[t].pc = "none")
    <3>1. flow[t].pc \in Pcs
      BY <1>1 DEF FlowType, Pcs
    <3>2. flow' = [flow EXCEPT ![t].signal = TRUE, ![t].pc = IF flow[t].pc = "none" THEN "wait"
                ELSE flow[t].pc]
      BY <1>1, <2>0 DEF FlowType
    <3> QED BY <3>1, <3>2 DEF Pcs
  <2>2. /\ flow' \in [Threads -> FlowType]
        /\ \A u \in Threads : u # t => flow'[u] = flow[u]
        /\ flow'[t].pc = pc /\ flow'[t].signal = TRUE
        /\ flow'[t].at = flow[t].at /\ flow'[t].reply = flow[t].reply
    <3> HIDE DEF ThreadInv
    <3>1. flow' \in [Threads -> FlowType]
      BY <1>1, <2>1 DEF FlowType, Pcs
    <3> QED BY <1>1, <2>1, <3>1 DEF FlowType, Pcs
  <2>3. ThreadTyped'
    BY <1>2, <1>3, <2>2 DEF ThreadTyped
  <2>4. ASSUME NEW u \in Threads PROVE ThreadOK(u)'
    <3>1. CASE u # t
      BY <1>2, <2>2, <3>1, Untouched
    <3>2. CASE u = t
      <4>1. ThreadOK(t)
        BY <1>1
      <4>2. (InTurn(t)' <=> InTurn(t))
                    /\ (flow'[t].pc \in {"none", "wait", "drain"} <=> flow[t].pc \in {"none", "wait", "drain"})
            /\ (flow'[t].pc = "reply" => flow[t].pc = "reply")
        BY <2>1, <2>2 DEF InTurn
      <4>3. (InTurn(t) /\ t \notin archived => TriggerInLedger(t))'
        BY <1>2, <2>2, <4>1, <4>2 DEF ThreadOK, TriggerInLedger
      <4>4. OneResult(t)' /\ (t \in archived => Frozen(t))' /\ (t \in Children => EndedIsFinal(t))'
        BY <1>2, <2>2, <4>1, <4>2 DEF ThreadOK, OneResult, Frozen, EndedIsFinal, Ended
      <4>5. (flow[t].pc \in {"none", "wait", "drain"} => flow[t].at = 0)'
        BY <2>2, <4>1, <4>2 DEF ThreadOK
      <4> QED BY <3>2, <4>3, <4>4, <4>5 DEF ThreadOK
    <3> QED BY <3>1, <3>2
  <2>5. flow'[Primary].reply = flow[Primary].reply
    BY <2>2 DEF Threads
  <2>6. ASSUME "terminate" \notin PrimaryOutcomes PROVE ThreadLive'
    <3>1. PrimaryLives' /\ IdleSessionIsQuiet'
      BY <1>2, <2>5, <2>6 DEF ThreadLive, PrimaryLives, IdleSessionIsQuiet, Contains
    <3>2. ASSUME NEW u \in Threads, u # t PROVE WakeupOnItsWay(u)'
      <4>1. \A q \in ThreadRelays : Delivered(q, u)' => Delivered(q, u)
        <5> SUFFICES ASSUME NEW q \in ThreadRelays, Delivered(q, u)' PROVE q # r
          BY <1>3 DEF Delivered
        <5> QED BY <1>0, <1>3, <3>2 DEF Delivered
      <4>2. WakeupOnItsWay(u) /\ flow'[u] = flow[u] /\ (Ended(u) => Ended(u)')
        BY <1>2, <2>2, <2>6, <3>2 DEF ThreadLive, Ended
      <4> QED BY <1>2, <4>1, <4>2, StillAwake
    <3>3. WakeupOnItsWay(t)'
      BY <2>2 DEF WakeupOnItsWay
    <3> QED BY <3>1, <3>2, <3>3 DEF ThreadLive
  <2> QED BY <1>4, <2>3, <2>4, <2>5, <2>6
<1>6. CASE held[r].intent = "terminate"
  <2>1. flow' = [flow EXCEPT ![t] = NoFlow] /\ t \in archived
    BY <1>0, <1>6 DEF RelayDeliverThread, TerminateThread, TerminationsAreArchived
  <2>2. NoFlow \in FlowType /\ NoFlow.pc = "none" /\ NoFlow.at = 0 /\ NoFlow.reply = "none"
    BY DEF NoFlow, FlowType
  <2>3. /\ flow' \in [Threads -> FlowType] /\ flow'[t] = NoFlow
        /\ \A u \in Threads : u # t => flow'[u] = flow[u]
    BY <1>1, <2>1, <2>2
  <2>4. Primary \in Threads /\ t # Primary
    BY <2>1, ThreadRuntimeAssumption DEF Threads, ThreadTyped
  <2>5. ThreadTyped'
    BY <1>2, <1>3, <2>3 DEF ThreadTyped
  <2>6. ASSUME NEW u \in Threads PROVE ThreadOK(u)'
    <3>1. CASE u # t
      BY <1>2, <2>3, <3>1, Untouched
    <3>2. CASE u = t
      <4>1. ThreadOK(t)
        BY <1>1
      <4> QED BY <1>2, <2>2, <2>3, <3>2, <4>1 DEF ThreadOK, OneResult, Frozen, EndedIsFinal, Ended, InTurn
    <3> QED BY <3>1, <3>2
  <2>7. ASSUME "terminate" \notin PrimaryOutcomes PROVE ThreadLive'
    <3>1. PrimaryLives' /\ IdleSessionIsQuiet'
      BY <1>2, <2>3, <2>4, <2>7 DEF ThreadLive, PrimaryLives, IdleSessionIsQuiet, Contains
    <3>2. ASSUME NEW u \in Threads, u # t PROVE WakeupOnItsWay(u)'
      <4>1. \A q \in ThreadRelays : Delivered(q, u)' => Delivered(q, u)
        <5> SUFFICES ASSUME NEW q \in ThreadRelays, Delivered(q, u)' PROVE q # r
          BY <1>3 DEF Delivered
        <5> QED BY <1>0, <1>3, <3>2 DEF Delivered
      <4>2. WakeupOnItsWay(u) /\ flow'[u] = flow[u] /\ (Ended(u) => Ended(u)')
        BY <1>2, <2>3, <2>7, <3>2 DEF ThreadLive, Ended
      <4> QED BY <1>2, <4>1, <4>2, StillAwake
    <3>3. WakeupOnItsWay(t)'
      BY <1>2, <2>1 DEF WakeupOnItsWay, Ended
    <3> QED BY <3>1, <3>2, <3>3 DEF ThreadLive
  <2> QED BY <1>4, <2>3, <2>4, <2>5, <2>6, <2>7
<1> QED BY <1>1, <1>5, <1>6

-----------------------------------------------------------------------------
(* Retries and archiving                                                   *)

\* The Session status and its event move together.
LEMMA Announced ==
    ASSUME NEW s, NEW event \in BOOLEAN, Project(s, event), s # sessionStatus => event,
           sessionStatus = "idle" <=> announced = "idle"
    PROVE  sessionStatus' = "idle" <=> announced' = "idle"
  BY DEF Project

\* A Thread that works goes between running and rescheduling.
LEMMA RetryStatusStep ==
    ASSUME ThreadInv, NEW t \in Threads, NEW v \in {"running", "rescheduling"},
           threadStatus[t] \in {"running", "rescheduling"},
           threadStatus' = [threadStatus EXCEPT ![t] = v], UpdateAggregateStatus(threadStatus'),
           InTurn(t), NEW pc \in {"start", "backoff"}, Goto(t, pc), counts' \in [Bounded -> Nat],
           UNCHANGED <<archived, inbox, gate, threadOutbox, held>>
    PROVE  ThreadInv'
<1> USE DEF ThreadInv, ThreadBase
<1>1. /\ threadStatus \in [Threads -> ThreadStatuses] /\ Primary \in Threads /\ threadStatus[Primary] # "absent"
      /\ archived \in SUBSET Children /\ flow \in [Threads -> FlowType]
      /\ sessionStatus \in ThreadStatuses \ {"absent"} /\ announced \in ThreadStatuses \ {"absent"}
  BY DEF ThreadTyped, Threads
<1>2. /\ threadStatus' \in [Threads -> ThreadStatuses] /\ threadStatus'[t] = v
      /\ \A u \in Threads : u # t => threadStatus'[u] = threadStatus[u]
      /\ threadStatus'[Primary] # "absent"
      /\ threadStatus'[Primary] = "terminated" => threadStatus[Primary] = "terminated"
  BY <1>1 DEF ThreadStatuses
<1> DEFINE s == AggregateStatus(threadStatus', archived)
<1>3. /\ s \in ThreadStatuses \ {"absent"}
      /\ s = "idle" => \A u \in Threads \ archived : threadStatus'[u] \notin {"running", "rescheduling"}
      /\ threadStatus'[Primary] # "terminated" => s # "terminated"
  BY <1>1, <1>2, AggregateFacts
<1>4. Project(s, s # sessionStatus /\ s # "terminated")
  BY DEF UpdateAggregateStatus
<1> HIDE DEF s
<1>5. sessionStatus' = s /\ sessionStatus' \in ThreadStatuses \ {"absent"}
              /\ announced' \in ThreadStatuses \ {"absent"}
  BY <1>1, <1>3, <1>4 DEF Project
<1>6. /\ flow' \in [Threads -> FlowType]
      /\ \A u \in Threads : u # t => flow'[u] = flow[u]
      /\ flow'[t].pc = pc /\ flow'[t].signal = flow[t].signal
      /\ flow'[t].at = flow[t].at /\ flow'[t].reply = flow[t].reply
  <2>1. pc \in Pcs
    BY DEF Pcs
  <2> HIDE DEF ThreadInv
  <2> QED BY <1>1, <2>1, Went
<1>7. ThreadTyped'
  BY <1>2, <1>5, <1>6 DEF ThreadTyped
<1>8. ASSUME NEW u \in Threads PROVE ThreadOK(u)'
  <2>0. ThreadOK(u)
    OBVIOUS
  <2>1. CASE u # t
    BY <1>2, <1>6, <2>0, <2>1, Untouched
  <2>2. CASE u = t
    <3>1. t \notin archived
      BY <2>0, <2>2 DEF ThreadOK, Frozen
    <3>2. TriggerInLedger(t)'
      BY <1>6, <2>0, <2>2, <3>1, TurnGoesOn
    <3>3. OneResult(t)'
      BY <2>0, <2>2 DEF ThreadOK, OneResult
    <3>4. EndedIsFinal(t)'
      BY <1>2, <1>6 DEF EndedIsFinal
    <3> QED BY <1>6, <2>2, <3>1, <3>2, <3>3, <3>4 DEF ThreadOK
  <2> QED BY <2>1, <2>2
<1>9. TerminationsAreArchived' /\ flow'[Primary].reply = flow[Primary].reply
  BY <1>1, <1>6 DEF TerminationsAreArchived
<1>10. ASSUME "terminate" \notin PrimaryOutcomes PROVE ThreadLive'
  <2>1. PrimaryLives'
    BY <1>2, <1>9, <1>10 DEF ThreadLive, PrimaryLives, Contains
  <2>2. IdleSessionIsQuiet'
    <3>1. s # "terminated"
      BY <1>2, <1>3, <1>10 DEF ThreadLive, PrimaryLives
    <3>2. sessionStatus' = "idle" <=> announced' = "idle"
      BY <1>4, <1>10, <3>1, Announced DEF ThreadLive, IdleSessionIsQuiet
    <3> QED BY <1>3, <1>5, <3>2 DEF IdleSessionIsQuiet
  <2>3. ASSUME NEW u \in Threads PROVE WakeupOnItsWay(u)'
    <3>1. CASE u = t
      BY <1>6, <3>1 DEF WakeupOnItsWay, Asleep
    <3>2. CASE u # t
      <4>1. WakeupOnItsWay(u) /\ flow'[u] = flow[u] /\ (Ended(u) => Ended(u)')
        BY <1>2, <1>6, <1>10, <3>2 DEF ThreadLive, Ended
      <4>2. \A q \in ThreadRelays : Delivered(q, u)' => Delivered(q, u)
        BY DEF Delivered
      <4> QED BY <4>1, <4>2, StillAwake
    <3> QED BY <3>1, <3>2
  <2> QED BY <2>1, <2>2, <2>3 DEF ThreadLive
<1> QED BY <1>7, <1>8, <1>9, <1>10

\* A failed model request reschedules the Thread.
LEMMA RecordRetryStep ==
    ASSUME ThreadInv, NEW t \in Threads, RecordThreadWorkflowRetry(t)
    PROVE  ThreadInv'
<1>1. counts' \in [Bounded -> Nat]
  BY Counted DEF RecordThreadWorkflowRetry, ThreadInv, ThreadBase, ThreadTyped, Bounded
<1>2. /\ InTurn(t) /\ threadStatus[t] \in {"running", "rescheduling"}
      /\ threadStatus' = [threadStatus EXCEPT ![t] = "rescheduling"] /\ UpdateAggregateStatus(threadStatus')
      /\ Goto(t, "backoff") /\ UNCHANGED <<archived, inbox, gate, threadOutbox, held>>
  BY DEF RecordThreadWorkflowRetry, InTurn
<1> QED BY <1>1, <1>2, RetryStatusStep

\* A child resumes after its backoff.
LEMMA ResumeChildStep ==
    ASSUME ThreadInv, NEW t \in Children, ResumeThreadWorkflowRetry(t)
    PROVE  ThreadInv'
<1>1. counts' \in [Bounded -> Nat] /\ t \in Threads
  BY DEF ResumeThreadWorkflowRetry, ThreadInv, ThreadBase, ThreadTyped, Threads
<1>2. /\ InTurn(t) /\ threadStatus[t] \in {"running", "rescheduling"}
      /\ threadStatus' = [threadStatus EXCEPT ![t] = "running"] /\ UpdateAggregateStatus(threadStatus')
      /\ Goto(t, "start") /\ UNCHANGED <<archived, inbox, gate, threadOutbox, held>>
  BY DEF ResumeThreadWorkflowRetry, InTurn
<1> QED BY <1>1, <1>2, RetryStatusStep

\* The coordinator resumes, or finds itself running already.
LEMMA ResumePrimaryStep == ASSUME ThreadInv, ResumePrimaryWorkflowRetry PROVE ThreadInv'
<1>1. counts \in [Bounded -> Nat] /\ UNCHANGED counts /\ Primary \in Threads /\ flow \in [Threads -> FlowType]
      /\ ThreadOK(Primary)
  BY DEF ResumePrimaryWorkflowRetry, ThreadInv, ThreadBase, ThreadTyped, Threads
<1>2. InTurn(Primary) /\ Goto(Primary, "start") /\ UNCHANGED <<archived, inbox, gate, threadOutbox, held>>
  BY DEF ResumePrimaryWorkflowRetry, InTurn
<1>3. CASE UNCHANGED <<threadStatus, sessionStatus, announced>>
  <2>1. /\ flow' \in [Threads -> FlowType]
        /\ \A u \in Threads : u # Primary => flow'[u] = flow[u]
        /\ flow'[Primary].pc = "start" /\ flow'[Primary].signal = flow[Primary].signal
        /\ flow'[Primary].at = flow[Primary].at /\ flow'[Primary].reply = flow[Primary].reply
    BY <1>1, <1>2, Went DEF Pcs
  <2>2. Primary \notin archived => TriggerInLedger(Primary)'
    BY <1>1, <1>2, <2>1, TurnGoesOn
  <2>3. ~Asleep(Primary)'
    BY <2>1 DEF Asleep
  <2>4. LedgerUnchanged
    BY <1>2, <1>3 DEF LedgerUnchanged
  <2> QED BY <1>1, <2>1, <2>2, <2>3, <2>4, FlowStep
<1>4. CASE /\ threadStatus[Primary] = "rescheduling"
           /\ threadStatus' = [threadStatus EXCEPT ![Primary] = "running"]
           /\ UpdateAggregateStatus(threadStatus')
  BY <1>1, <1>2, <1>4, RetryStatusStep
<1> QED BY <1>3, <1>4 DEF ResumePrimaryWorkflowRetry

\* A child is archived: it is frozen, and what the others have is kept.
LEMMA ArchiveStep ==
    ASSUME ThreadInv, NEW c \in Children, ArchiveSessionThread(c)
    PROVE  ThreadInv'
<1> USE DEF ThreadInv, ThreadBase
<1>1. /\ threadStatus \in [Threads -> ThreadStatuses] /\ Primary \in Threads /\ threadStatus[Primary] # "absent"
      /\ archived \in SUBSET Children /\ gate \in SUBSET Children /\ flow \in [Threads -> FlowType]
      /\ sessionStatus \in ThreadStatuses \ {"absent"} /\ announced \in ThreadStatuses \ {"absent"}
      /\ c \in Threads /\ c # Primary /\ held \in [ThreadRelays -> RowType]
      /\ threadOutbox \in [Threads -> {"none", "wake", "terminate"}]
      /\ inbox \in [Threads -> Seq(EventTypes)] /\ counts \in [Bounded -> Nat]
  BY ThreadRuntimeAssumption DEF ThreadTyped, Threads
<1>2. /\ archived' = archived \cup {c} /\ gate' = gate \ {c}
      /\ threadStatus' = [threadStatus EXCEPT ![c] = "terminated"]
      /\ inbox' = [inbox EXCEPT ![c] = <<>>] /\ UNCHANGED flow
      /\ UpsertThreadTermination(c)
  BY DEF ArchiveSessionThread
<1>3. counts' \in [Bounded -> Nat]
  <2>1. CASE c \in archived
    BY <1>1, <2>1, Counted DEF ArchiveSessionThread, Bounded
  <2>2. CASE c \notin archived
    BY <1>1, <2>2 DEF ArchiveSessionThread
  <2> QED BY <2>1, <2>2
<1>4. /\ threadStatus' \in [Threads -> ThreadStatuses] /\ threadStatus'[c] = "terminated"
      /\ \A u \in Threads : u # c => threadStatus'[u] = threadStatus[u]
      /\ inbox' \in [Threads -> Seq(EventTypes)] /\ inbox'[c] = <<>>
      /\ \A u \in Threads : u # c => inbox'[u] = inbox[u]
      /\ archived' \in SUBSET Children /\ gate' \in SUBSET Children
  BY <1>1, <1>2 DEF ThreadStatuses
<1>5. /\ threadOutbox' \in [Threads -> {"none", "wake", "terminate"}]
      /\ \A u \in Threads : u # c => threadOutbox'[u] = threadOutbox[u]
  BY <1>1, <1>2 DEF UpsertThreadTermination
<1>6. /\ held' \in [ThreadRelays -> RowType]
      /\ \A r \in ThreadRelays : /\ held'[r].thread = held[r].thread /\ held'[r].intent = held[r].intent
                                 /\ held[r].thread # c => held'[r] = held[r]
  <2>1. held' = [r \in ThreadRelays |-> IF held[r].thread = c
              THEN [held[r] EXCEPT !.fresh = FALSE] ELSE held[r]]
    BY <1>2 DEF UpsertThreadTermination
  <2>2. ASSUME NEW r \in ThreadRelays
        PROVE  /\ held'[r] \in RowType /\ held'[r].thread = held[r].thread /\ held'[r].intent = held[r].intent
               /\ held[r].thread # c => held'[r] = held[r]
    <3>1. held[r] \in RowType
      BY <1>1
    <3>2. CASE held[r].thread = c
      <4>1. held'[r] = [held[r] EXCEPT !.fresh = FALSE]
        BY <2>1, <3>2
      <4> QED BY <3>1, <3>2, <4>1 DEF RowType
    <3>3. CASE held[r].thread # c
      BY <2>1, <3>1, <3>3
    <3> QED BY <3>2, <3>3
  <2> QED BY <2>1, <2>2
<1>7. /\ sessionStatus' \in ThreadStatuses \ {"absent"} /\ announced' \in ThreadStatuses \ {"absent"}
      /\ IdleSessionIsQuiet => IdleSessionIsQuiet'
  <2>1. CASE c \in archived
    <3>1. UNCHANGED <<sessionStatus, announced>>
      BY <2>1 DEF ArchiveSessionThread
    <3> QED BY <1>1, <1>2, <1>4, <3>1 DEF IdleSessionIsQuiet
  <2>2. CASE c \notin archived
    <3> DEFINE s == AggregateStatus(threadStatus', archived')
    <3>1. /\ s \in ThreadStatuses \ {"absent"}
          /\ s = "idle" => \A u \in Threads \ archived' : threadStatus'[u] \notin {"running", "rescheduling"}
      BY <1>1, <1>4, AggregateFacts
    <3>2. Project(s, s # sessionStatus \/ (s = "idle" /\ c \in gate))
      BY <2>2 DEF ArchiveSessionThread
    <3> HIDE DEF s
    <3>3. sessionStatus' = s /\ announced' \in ThreadStatuses \ {"absent"}
      BY <1>1, <3>1, <3>2 DEF Project
    <3>4. ASSUME IdleSessionIsQuiet PROVE sessionStatus' = "idle" <=> announced' = "idle"
      BY <3>2, <3>4, Announced DEF IdleSessionIsQuiet
    <3> QED BY <3>1, <3>3, <3>4 DEF IdleSessionIsQuiet
  <2> QED BY <2>1, <2>2
<1>8. ThreadTyped'
  BY <1>1, <1>2, <1>3, <1>4, <1>5, <1>6, <1>7 DEF ThreadTyped
<1>9. ASSUME NEW u \in Threads PROVE ThreadOK(u)'
  <2>0. ThreadOK(u)
    OBVIOUS
  <2>1. CASE u # c
    BY <1>2, <1>4, <2>0, <2>1, Untouched
  <2>2. CASE u = c
    <3>1. Frozen(c)' /\ OneResult(c)' /\ EndedIsFinal(c)'
      BY <1>2, <1>4 DEF Frozen, OneResult, EndedIsFinal, Ended
    <3> QED BY <1>2, <2>0, <2>2, <3>1 DEF ThreadOK
  <2> QED BY <2>1, <2>2
<1>10. TerminationsAreArchived'
  BY <1>2, <1>5, <1>6 DEF TerminationsAreArchived
<1>11. ASSUME "terminate" \notin PrimaryOutcomes PROVE ThreadLive'
  <2>1. PrimaryLives'
    BY <1>1, <1>2, <1>4, <1>11 DEF ThreadLive, PrimaryLives, Contains
  <2>2. ASSUME NEW u \in Threads PROVE WakeupOnItsWay(u)'
    <3>1. CASE u = c
      BY <1>4, <3>1 DEF WakeupOnItsWay, Ended
    <3>2. CASE u # c
      <4>1. WakeupOnItsWay(u) /\ flow'[u] = flow[u] /\ (Ended(u) => Ended(u)')
        BY <1>2, <1>4, <1>11, <3>2 DEF ThreadLive, Ended
      <4>2. \A q \in ThreadRelays : Delivered(q, u)' => Delivered(q, u)
        BY <1>6, <3>2 DEF Delivered
      <4> QED BY <1>2, <1>4, <1>5, <3>2, <4>1, <4>2, StillAwake
    <3> QED BY <3>1, <3>2
  <2> QED BY <1>7, <1>11, <2>1, <2>2 DEF ThreadLive
<1> QED BY <1>2, <1>8, <1>9, <1>10, <1>11

-----------------------------------------------------------------------------
(* Completion                                                              *)

\* The coordinator commits a turn, or an interrupt on its own.
LEMMA CommitPrimaryStep ==
    ASSUME ThreadInv, NEW i \in 1..Len(inbox[Primary]), NEW o \in Outcomes \ {"park"},
           Effective(Primary, i, o) = o, CommitPrimary(i, o), UNCHANGED archived,
           o = "terminate" => "terminate" \in PrimaryOutcomes,
           counts' \in [Bounded -> Nat], flow' \in [Threads -> FlowType],
           \A u \in Threads : u # Primary => flow'[u] = flow[u],
           flow'[Primary].pc \in {"drain", "reply"},
           flow'[Primary].pc = "drain" => flow'[Primary].at = 0,
           flow'[Primary].reply # "parked",
           flow'[Primary].reply = "terminated" =>
             "terminate" \in PrimaryOutcomes \/ flow[Primary].reply = "terminated"
    PROVE  ThreadInv'
<1> USE DEF ThreadInv, ThreadBase
<1> DEFINE own == OwnerStatus(Primary, i, o)
           rest == Rest(Primary, i, o)
           s == IF own = "idle" /\ ActiveChildren THEN "running" ELSE own
<1>1. /\ threadStatus \in [Threads -> ThreadStatuses] /\ Primary \in Threads /\ Primary \notin Children
      /\ archived \in SUBSET Children /\ gate \in SUBSET Children /\ flow \in [Threads -> FlowType]
      /\ sessionStatus \in ThreadStatuses \ {"absent"} /\ announced \in ThreadStatuses \ {"absent"}
      /\ inbox \in [Threads -> Seq(EventTypes)] /\ ThreadOK(Primary)
  BY ThreadRuntimeAssumption DEF ThreadTyped, Threads
<1>2. /\ rest \in Seq(EventTypes)
      /\ \A k \in 1..Len(rest) : \E m \in 1..Len(inbox[Primary]) : m # i /\ rest[k] = inbox[Primary][m]
      /\ o = "exhausted" => \A k \in 1..Len(rest) : rest[k] # "message"
  BY <1>1, RestFacts
<1>3. /\ own \in {"terminated", "running", "idle"}
      /\ own = "terminated" => o = "terminate"
      /\ own = "running" => Contains(rest, "message")
      /\ Contains(rest, "message") /\ o # "terminate" => own = "running"
  <2>1. ~Gated(Primary, i, o)
    BY <1>1 DEF Gated
  <2>2. o = "exhausted" => ~Contains(rest, "message")
    <3> HIDE DEF rest
    <3> QED BY <1>2 DEF Contains
  <2>3. own = CASE o = "terminate" -> "terminated"
               [] o # "terminate" /\ o # "exhausted" /\ Contains(rest, "message") -> "running"
               [] OTHER -> "idle"
    BY <2>1 DEF OwnerStatus
  <2> HIDE DEF own, rest
  <2>4. CASE o = "terminate"
    BY <2>3, <2>4
  <2>5. CASE o # "terminate" /\ Contains(rest, "message")
    BY <2>2, <2>3, <2>5
  <2>6. CASE o # "terminate" /\ ~Contains(rest, "message")
    BY <2>3, <2>6
  <2> QED BY <2>4, <2>5, <2>6
<1>4. /\ threadStatus' = [threadStatus EXCEPT ![Primary] = own]
      /\ inbox' = [inbox EXCEPT ![Primary] = rest]
      /\ Project(s, s # "running" \/ (Effective(Primary, i, "report") = "silent" /\ own = "running"))
      /\ UNCHANGED <<gate, threadOutbox, held>>
  BY DEF CommitPrimary
<1> HIDE DEF own, rest
<1>5. /\ threadStatus' \in [Threads -> ThreadStatuses] /\ threadStatus'[Primary] = own
      /\ \A u \in Threads : u # Primary => threadStatus'[u] = threadStatus[u]
      /\ inbox' \in [Threads -> Seq(EventTypes)] /\ inbox'[Primary] = rest
      /\ \A u \in Threads : u # Primary => inbox'[u] = inbox[u]
  BY <1>1, <1>2, <1>3, <1>4 DEF ThreadStatuses
<1>6. /\ sessionStatus' = s /\ announced' \in {s, announced} /\ (s # "running" => announced' = s)
  BY <1>4 DEF Project
<1>7. ThreadTyped'
  <2>1. s \in ThreadStatuses \ {"absent"}
    BY <1>3 DEF ThreadStatuses
  <2>2. sessionStatus' \in ThreadStatuses \ {"absent"} /\ announced' \in ThreadStatuses \ {"absent"}
    BY <1>1, <1>6, <2>1
  <2>3. threadStatus'[Primary] # "absent"
    BY <1>3, <1>5
  <2> QED BY <1>4, <1>5, <2>2, <2>3 DEF ThreadTyped
<1>8. ASSUME NEW u \in Threads PROVE ThreadOK(u)'
  <2>1. CASE u # Primary
    <3>1. inbox'[u] = inbox[u] /\ flow'[u] = flow[u] /\ threadStatus'[u] = threadStatus[u] /\ ThreadOK(u)
          /\ (u \in gate' <=> u \in gate)
      BY <1>4, <1>5, <2>1
    <3> HIDE DEF ThreadInv, ThreadBase
    <3> QED BY <3>1, Untouched
  <2>2. CASE u = Primary
    <3>1. \A k \in 1..Len(rest) : rest[k] # "result"
      BY <1>1, <1>2 DEF ThreadOK, OneResult
    <3>2. OneResult(Primary)'
      BY <1>5, <3>1 DEF OneResult
    <3>3. ~InTurn(Primary)'
      BY DEF InTurn
    <3> QED BY <1>1, <2>2, <3>2, <3>3 DEF ThreadOK
  <2> QED BY <2>1, <2>2
<1>9. TerminationsAreArchived'
  BY <1>4 DEF TerminationsAreArchived
<1>10. ASSUME "terminate" \notin PrimaryOutcomes PROVE ThreadLive'
  <2>1. PrimaryLives'
    BY <1>3, <1>5, <1>10 DEF ThreadLive, PrimaryLives
  <2>2. ASSUME NEW u \in Threads PROVE WakeupOnItsWay(u)'
    <3>1. CASE u = Primary
      BY <3>1 DEF WakeupOnItsWay, Asleep
    <3>2. CASE u # Primary
      <4>1. WakeupOnItsWay(u) /\ flow'[u] = flow[u] /\ (Ended(u) => Ended(u)') /\ inbox'[u] = inbox[u]
            /\ (u \in gate' <=> u \in gate) /\ threadOutbox'[u] = threadOutbox[u]
        BY <1>4, <1>5, <1>10, <3>2 DEF ThreadLive, Ended
      <4>2. \A q \in ThreadRelays : Delivered(q, u)' => Delivered(q, u)
        BY <1>4 DEF Delivered
      <4> HIDE DEF ThreadInv, ThreadBase
      <4> QED BY <4>1, <4>2, StillAwake
    <3> QED BY <3>1, <3>2
  <2>3. IdleSessionIsQuiet'
    <3>1. IdleSessionIsQuiet /\ PrimaryLives
      BY <1>10 DEF ThreadLive
    <3>2. CASE s = "running"
      <4>1. \E u \in Threads \ archived : threadStatus[u] \in {"running", "rescheduling"}
        <5>1. CASE own = "running"
          <6>1. PICK k \in 1..Len(rest) : rest[k] = "message"
            BY <1>2, <1>3, <5>1 DEF Contains
          <6>2. Contains(inbox[Primary], "message")
            BY <1>2, <6>1 DEF Contains
          <6> QED BY <1>1, <3>1, <6>2 DEF PrimaryLives
        <5>2. CASE own # "running"
          <6>1. ActiveChildren
            BY <3>2, <5>2
          <6> QED BY <6>1 DEF ActiveChildren, Threads
        <5> QED BY <5>1, <5>2
      <4>2. announced # "idle"
        BY <3>1, <4>1 DEF IdleSessionIsQuiet
      <4> QED BY <1>6, <3>2, <4>2 DEF IdleSessionIsQuiet
    <3>3. CASE s # "running"
      <4>1. own = s /\ own = "idle" /\ ~ActiveChildren
        BY <1>3, <1>10, <3>3
      <4>2. ASSUME NEW u \in Threads \ archived PROVE threadStatus'[u] \notin {"running", "rescheduling"}
        <5>1. CASE u = Primary
          BY <1>5, <4>1, <5>1
        <5>2. CASE u # Primary
          BY <1>5, <4>1, <5>2 DEF ActiveChildren, Threads
        <5> QED BY <5>1, <5>2
      <4> QED BY <1>6, <4>1, <4>2 DEF IdleSessionIsQuiet
    <3> QED BY <3>2, <3>3
  <2> QED BY <2>1, <2>2, <2>3 DEF ThreadLive
<1> QED BY <1>7, <1>8, <1>9, <1>10

\* How the trigger of a child's turn and the turn's end fit together.
LEMMA ChildRest ==
    ASSUME NEW c \in Children, NEW i \in 1..Len(inbox[c]), NEW o \in Outcomes,
           inbox[c] \in Seq(EventTypes), OneResult(c), Effective(c, i, o) = o,
           \/ inbox[c][i] = "interrupt" /\ o = "silent"
           \/ /\ inbox[c][i] = IF c \in gate THEN "result" ELSE "message"
              /\ \A k \in 1..Len(inbox[c]) : k < i => inbox[c][k] # "interrupt"
    PROVE  /\ Rest(c, i, o) \in Seq(EventTypes)
           /\ \A j, k \in 1..Len(Rest(c, i, o)) :
                Rest(c, i, o)[j] = "result" /\ Rest(c, i, o)[k] = "result" => Gated(c, i, o) /\ j = k
           /\ o \in {"park", "terminate"} =>
                \A k \in 1..Len(Rest(c, i, o)) : Rest(c, i, o)[k] \notin {"interrupt", "result"}
<1> DEFINE s == inbox[c]
           rest == Rest(c, i, o)
<1>0. c \in Threads
  BY DEF Threads
<1>1. /\ rest \in Seq(EventTypes)
      /\ \A k \in 1..Len(rest) : \E m \in 1..Len(s) : m # i /\ rest[k] = s[m]
  BY <1>0, RestFacts
<1>2. CASE s[i] = "interrupt" /\ o = "silent"
  <2>1. rest = RemoveAt(s, i)
    BY <1>2 DEF Rest, Drop
  <2>2. /\ Len(rest) = Len(s) - 1
        /\ \A k \in 1..Len(s) - 1 : rest[k] = s[IF k < i THEN k ELSE k + 1]
    BY <2>1, RemoveAtFacts
  <2> HIDE DEF rest
  <2>3. ASSUME NEW j \in 1..Len(rest), NEW k \in 1..Len(rest), rest[j] = "result", rest[k] = "result"
        PROVE  Gated(c, i, o) /\ j = k
    <3>1. /\ (IF j < i THEN j ELSE j + 1) \in 1..Len(s) /\ s[IF j < i THEN j ELSE j + 1] = "result"
          /\ (IF k < i THEN k ELSE k + 1) \in 1..Len(s) /\ s[IF k < i THEN k ELSE k + 1] = "result"
      BY <2>2, <2>3
    <3>2. c \in gate /\ (IF j < i THEN j ELSE j + 1) = (IF k < i THEN k ELSE k + 1)
      BY <3>1 DEF OneResult
    <3> QED BY <1>2, <3>2 DEF Gated
  <2> QED BY <1>1, <1>2, <2>3 DEF rest
<1>3. CASE /\ s[i] = IF c \in gate THEN "result" ELSE "message"
           /\ \A k \in 1..Len(s) : k < i => s[k] # "interrupt"
  <2>1. \A m \in 1..Len(s) : m # i => s[m] # "result"
    BY <1>3 DEF OneResult
  <2>2. \A k \in 1..Len(rest) : rest[k] # "result"
    <3> HIDE DEF rest
    <3> QED BY <1>1, <2>1
  <2>3. ASSUME o \in {"park", "terminate"} PROVE \A k \in 1..Len(rest) : rest[k] # "interrupt"
    <3>1. InterruptAfterEvent(c, i) = 0
      BY <1>3, <2>3 DEF Effective
    <3>2. \A m \in 1..Len(s) : m > i => s[m] # "interrupt"
      <4>1. i \in Nat /\ i > 0
        OBVIOUS
      <4> QED BY <1>0, <3>1, <4>1, InterruptAfterFacts
    <3>3. \A m \in 1..Len(s) : m # i => s[m] # "interrupt"
      BY <1>3, <3>2
    <3> HIDE DEF rest
    <3> QED BY <1>1, <3>3
  <2> HIDE DEF rest
  <2> QED BY <1>1, <2>2, <2>3 DEF rest
<1> QED BY <1>2, <1>3

\* A child commits a turn, or an interrupt on its own.
LEMMA CommitChildStep ==
    ASSUME ThreadInv, NEW c \in Children, ~Ended(c), NEW i \in 1..Len(inbox[c]), NEW o \in Outcomes,
           NEW reports \in BOOLEAN, Effective(c, i, o) = o,
           CommitChild(c, i, o, reports), UNCHANGED archived,
           \/ inbox[c][i] = "interrupt" /\ o = "silent"
           \/ /\ inbox[c][i] = IF c \in gate THEN "result" ELSE "message"
              /\ \A k \in 1..Len(inbox[c]) : k < i => inbox[c][k] # "interrupt",
           counts' \in [Bounded -> Nat], flow' \in [Threads -> FlowType],
           \A u \in Threads : u # c => flow'[u] = flow[u],
           flow'[c].pc \in {"drain", "reply"}, flow'[c].pc = "drain" => flow'[c].at = 0,
           flow'[c].pc = "reply" /\ flow'[c].reply = "parked" => o = "park",
           flow'[c].pc = "reply" /\ flow'[c].reply = "terminated" => o = "terminate"
    PROVE  ThreadInv'
<1> USE DEF ThreadInv, ThreadBase
<1> DEFINE own == OwnerStatus(c, i, o)
           rest == Rest(c, i, o)
           wakes == reports /\ ~Ended(Primary)
           st == [threadStatus EXCEPT ![c] = own]
           st2 == IF wakes /\ st[Primary] = "idle" THEN [st EXCEPT ![Primary] = "running"] ELSE st
           s == AggregateStatus(st2, archived)
           moved == o = "park" \/ (c \in gate /\ ~Gated(c, i, o))
<1>1. /\ threadStatus \in [Threads -> ThreadStatuses] /\ Primary \in Threads /\ Primary \notin Children
      /\ archived \in SUBSET Children /\ gate \in SUBSET Children /\ flow \in [Threads -> FlowType]
      /\ sessionStatus \in ThreadStatuses \ {"absent"} /\ announced \in ThreadStatuses \ {"absent"}
      /\ inbox \in [Threads -> Seq(EventTypes)] /\ ThreadOK(c) /\ c \in Threads /\ c # Primary
      /\ threadStatus[Primary] # "absent" /\ c \notin archived /\ OneResult(c)
  BY ThreadRuntimeAssumption DEF ThreadTyped, Threads, Ended, ThreadOK
<1>2. /\ rest \in Seq(EventTypes)
      /\ \A j, k \in 1..Len(rest) : rest[j] = "result" /\ rest[k] = "result" => Gated(c, i, o) /\ j = k
      /\ o \in {"park", "terminate"} => \A k \in 1..Len(rest) : rest[k] \notin {"interrupt", "result"}
  <2>1. inbox[c] \in Seq(EventTypes)
    BY <1>1
  <2> HIDE DEF ThreadInv, ThreadBase
  <2> QED BY <1>1, <2>1, ChildRest
<1>3. own \in {"terminated", "running", "idle"} /\ (own = "terminated" <=> o = "terminate")
  <2>1. CASE o = "terminate"
    BY <2>1 DEF OwnerStatus
  <2>2. CASE o # "terminate"
    BY <2>2 DEF OwnerStatus
  <2> QED BY <2>1, <2>2
<1>4. /\ threadStatus' = st2
      /\ inbox' = [inbox EXCEPT ![c] = rest, ![Primary] = IF reports THEN Append(@, "message") ELSE @]
      /\ gate' = IF Gated(c, i, o) THEN gate \cup {c} ELSE gate \ {c}
      /\ Project(s, s # "terminated" /\ (s # sessionStatus \/ (s = "idle" /\ moved)))
      /\ IF wakes THEN UpsertThreadOutbox({Primary}) ELSE UNCHANGED <<threadOutbox, held>>
  BY DEF CommitChild
<1> HIDE DEF own, rest
<1>5. /\ st2 \in [Threads -> ThreadStatuses] /\ st2[c] = own
      /\ \A u \in Threads : u \notin {c, Primary} => st2[u] = threadStatus[u]
      /\ st2[Primary] = threadStatus[Primary]
                    \/ (wakes /\ threadStatus[Primary] = "idle" /\ st2[Primary] = "running")
      /\ wakes => st2[Primary] # "idle"
  <2>1. /\ st \in [Threads -> ThreadStatuses] /\ st[c] = own
        /\ \A u \in Threads : u # c => st[u] = threadStatus[u]
    BY <1>1, <1>3 DEF ThreadStatuses
  <2> HIDE DEF st, wakes
  <2> QED BY <1>1, <2>1 DEF ThreadStatuses
<1>6. /\ inbox' \in [Threads -> Seq(EventTypes)] /\ inbox'[c] = rest
      /\ \A u \in Threads : u \notin {c, Primary} => inbox'[u] = inbox[u]
      /\ inbox'[Primary] = IF reports THEN Append(inbox[Primary], "message") ELSE inbox[Primary]
  <2>1. "message" \in EventTypes
    BY DEF EventTypes
  <2> HIDE DEF ThreadInv, ThreadBase
  <2> DEFINE mid == [inbox EXCEPT ![c] = rest]
  <2>2. /\ mid \in [Threads -> Seq(EventTypes)] /\ mid[c] = rest
        /\ \A u \in Threads : u # c => mid[u] = inbox[u]
    BY <1>1, <1>2
  <2>3. PICK p \in Seq(EventTypes) :
          /\ inbox' = [mid EXCEPT ![Primary] = p]
          /\ p = IF reports THEN Append(inbox[Primary], "message") ELSE inbox[Primary]
    <3>1. mid[Primary] = inbox[Primary] /\ inbox[Primary] \in Seq(EventTypes)
      BY <1>1, <2>2
    <3>2. inbox' = [mid EXCEPT ![Primary] = IF reports THEN Append(mid[Primary], "message") ELSE mid[Primary]]
      BY <1>1, <1>4
    <3> HIDE DEF mid
    <3>3. CASE reports
      <4>1. inbox' = [mid EXCEPT ![Primary] = Append(inbox[Primary], "message")]
        BY <3>1, <3>2, <3>3
      <4>2. Append(inbox[Primary], "message") \in Seq(EventTypes)
        BY <2>1, <3>1
      <4> QED BY <3>3, <4>1, <4>2
    <3>4. CASE ~reports
      <4>1. inbox' = [mid EXCEPT ![Primary] = inbox[Primary]]
        BY <3>1, <3>2, <3>4
      <4> QED BY <3>1, <3>4, <4>1
    <3> QED BY <3>3, <3>4
  <2> HIDE DEF mid
  <2> QED BY <1>1, <2>2, <2>3
<1>7. /\ s \in ThreadStatuses \ {"absent"}
      /\ s = "idle" => \A u \in Threads \ archived : st2[u] \notin {"running", "rescheduling"}
      /\ st2[Primary] # "terminated" => s # "terminated"
  <2> HIDE DEF st2, ThreadInv, ThreadBase
  <2>1. st2[Primary] # "absent"
    BY <1>1, <1>5
  <2> QED BY <1>1, <1>5, <2>1, AggregateFacts
<1> HIDE DEF st2, s, st
<1>8. /\ gate' \in SUBSET Children /\ (c \in gate' <=> Gated(c, i, o))
      /\ \A u \in Threads : u # c => (u \in gate' <=> u \in gate)
  BY <1>1, <1>4
<1>9. /\ threadOutbox' \in [Threads -> {"none", "wake", "terminate"}] /\ held' \in [ThreadRelays -> RowType]
      /\ wakes => threadOutbox'[Primary] # "none"
      /\ \A u \in Threads : threadOutbox'[u] = threadOutbox[u] \/ (wakes /\ u = Primary)
      /\ \A u \in Threads : threadOutbox'[u] = "terminate" => threadOutbox[u] = "terminate"
      /\ \A r \in ThreadRelays : /\ held'[r].thread = held[r].thread /\ held'[r].intent = held[r].intent
                                 /\ held'[r].delivered = held[r].delivered
                                 /\ held'[r].fresh => held[r].fresh
                                 /\ wakes /\ held[r].thread = Primary => ~held'[r].fresh
  <2>0. ThreadTyped /\ {Primary} \in SUBSET Threads
    BY <1>1
  <2> HIDE DEF ThreadInv, ThreadBase
  <2>1. CASE wakes
    <3>1. UpsertThreadOutbox({Primary})
      BY <1>4, <2>1
    <3>2. /\ threadOutbox' \in [Threads -> {"none", "wake", "terminate"}]
          /\ held' \in [ThreadRelays -> RowType]
          /\ \A t \in {Primary} : threadOutbox'[t] # "none"
          /\ \A t \in Threads : t \notin {Primary} => threadOutbox'[t] = threadOutbox[t]
          /\ \A t \in Threads : threadOutbox'[t] = "terminate" => threadOutbox[t] = "terminate"
          /\ \A r \in ThreadRelays : /\ held'[r].thread = held[r].thread /\ held'[r].intent = held[r].intent
                                     /\ held'[r].delivered = held[r].delivered
                                     /\ held'[r].fresh = (held[r].fresh /\ held[r].thread \notin {Primary})
      BY <2>0, <3>1, Upserted
    <3> QED BY <2>1, <3>2
  <2>2. CASE ~wakes
    BY <1>4, <2>0, <2>2 DEF ThreadTyped
  <2> QED BY <2>1, <2>2
<1>10. sessionStatus' = s /\ announced' \in ThreadStatuses \ {"absent"}
  BY <1>1, <1>4, <1>7 DEF Project
<1>11. ThreadTyped'
  <2>1. threadStatus'[Primary] # "absent"
    BY <1>1, <1>4, <1>5
  <2> QED BY <1>1, <1>4, <1>5, <1>6, <1>7, <1>8, <1>9, <1>10, <2>1 DEF ThreadTyped
<1>12. ThreadOK(c)'
  <2>1. OneResult(c)'
    BY <1>2, <1>6, <1>8 DEF OneResult
  <2>2. EndedIsFinal(c)'
    BY <1>2, <1>3, <1>4, <1>5, <1>6 DEF EndedIsFinal, Ended
  <2>3. ~InTurn(c)'
    BY DEF InTurn
  <2> QED BY <1>1, <2>1, <2>2, <2>3 DEF ThreadOK
<1>13. ThreadOK(Primary)'
  <2>0. /\ ThreadOK(Primary) /\ flow'[Primary] = flow[Primary] /\ (Primary \in gate' <=> Primary \in gate)
        /\ Primary \notin archived /\ inbox[Primary] \in Seq(EventTypes) /\ flow[Primary] \in FlowType
        /\ threadStatus'[Primary] = threadStatus[Primary] \/ threadStatus'[Primary] = "running"
        /\ "message" \in EventTypes
    BY <1>1, <1>4, <1>5, <1>8 DEF EventTypes
  <2> HIDE DEF ThreadInv, ThreadBase
  <2>1. CASE reports
    <3>1. inbox'[Primary] = Append(inbox[Primary], "message")
      BY <1>6, <2>1
    <3> QED BY <1>1, <2>0, <3>1, Appended
  <2>2. CASE ~reports
    <3>1. inbox'[Primary] = inbox[Primary] /\ threadStatus'[Primary] = threadStatus[Primary]
      BY <1>4, <1>5, <1>6, <2>2
    <3> QED BY <1>1, <2>0, <3>1, Untouched
  <2> QED BY <2>1, <2>2
<1>14. ASSUME NEW u \in Threads PROVE ThreadOK(u)'
  <2>1. CASE u \notin {c, Primary}
    <3>1. inbox'[u] = inbox[u] /\ flow'[u] = flow[u] /\ threadStatus'[u] = threadStatus[u] /\ ThreadOK(u)
          /\ (u \in gate' <=> u \in gate)
      BY <1>4, <1>5, <1>6, <1>8, <2>1
    <3> HIDE DEF ThreadInv, ThreadBase
    <3> QED BY <3>1, Untouched
  <2> QED BY <1>12, <1>13, <2>1
<1>15. TerminationsAreArchived' /\ flow'[Primary] = flow[Primary]
  BY <1>1, <1>9 DEF TerminationsAreArchived
<1>16. ASSUME "terminate" \notin PrimaryOutcomes PROVE ThreadLive'
  <2>0. PrimaryLives /\ IdleSessionIsQuiet /\ (\A u \in Threads : WakeupOnItsWay(u)) /\ ~Ended(Primary)
    BY <1>1, <1>16 DEF ThreadLive, PrimaryLives, Ended
  <2>1. PrimaryLives'
    <3>1. /\ st2[Primary] # "terminated"
          /\ reports => st2[Primary] \in {"running", "rescheduling"}
          /\ threadStatus[Primary] \in {"running", "rescheduling"} => st2[Primary] = threadStatus[Primary]
      BY <1>1, <1>5, <2>0 DEF PrimaryLives, ThreadStatuses
    <3> QED BY <1>4, <1>6, <1>15, <2>0, <3>1 DEF PrimaryLives
  <2>2. IdleSessionIsQuiet'
    <3>1. s # "terminated"
      BY <1>4, <1>7, <2>1 DEF PrimaryLives
    <3>2. sessionStatus' = "idle" <=> announced' = "idle"
      BY <1>4, <2>0, <3>1, Announced DEF IdleSessionIsQuiet
    <3> QED BY <1>4, <1>7, <1>10, <3>2 DEF IdleSessionIsQuiet
  <2>3. WakeupOnItsWay(c)'
    <3> SUFFICES ASSUME Asleep(c)' PROVE NextEvent(c)' = 0
      BY DEF WakeupOnItsWay
    <3>1. o = "park"
      BY DEF Asleep
    <3>2. \A k \in 1..Len(inbox'[c]) : inbox'[c][k] \notin {"interrupt", "result"}
      BY <1>2, <1>6, <3>1
    <3>3. First(c, "interrupt")' = 0 /\ First(c, "result")' = 0
      BY <3>2 DEF First, SelectInSeq
    <3>4. c \in gate'
      BY <1>8, <3>1 DEF Gated
    <3> QED BY <3>3, <3>4 DEF NextEvent
  <2>4. WakeupOnItsWay(Primary)'
    <3>1. CASE wakes
      <4>1. \A r \in ThreadRelays : ~Delivered(r, Primary)'
        BY <1>9, <3>1 DEF Delivered
      <4> QED BY <1>9, <3>1, <4>1 DEF WakeupOnItsWay
    <3>2. CASE ~wakes
      <4>1. inbox'[Primary] = inbox[Primary] /\ threadStatus'[Primary] = threadStatus[Primary]
            /\ threadOutbox'[Primary] = threadOutbox[Primary] /\ (Primary \in gate' <=> Primary \in gate)
            /\ (Ended(Primary) => Ended(Primary)') /\ WakeupOnItsWay(Primary)
        BY <1>1, <1>4, <1>5, <1>6, <1>8, <1>9, <2>0, <3>2 DEF Ended
      <4>2. \A r \in ThreadRelays : Delivered(r, Primary)' => Delivered(r, Primary)
        BY <1>9 DEF Delivered
      <4> HIDE DEF ThreadInv, ThreadBase
      <4> QED BY <1>1, <1>15, <4>1, <4>2, StillAwake
    <3> QED BY <3>1, <3>2
  <2>5. ASSUME NEW u \in Threads, u \notin {c, Primary} PROVE WakeupOnItsWay(u)'
    <3>1. inbox'[u] = inbox[u] /\ threadStatus'[u] = threadStatus[u] /\ flow'[u] = flow[u]
          /\ threadOutbox'[u] = threadOutbox[u] /\ (u \in gate' <=> u \in gate)
          /\ (Ended(u) => Ended(u)') /\ WakeupOnItsWay(u)
      BY <1>4, <1>5, <1>6, <1>8, <1>9, <2>0, <2>5 DEF Ended
    <3>2. \A r \in ThreadRelays : Delivered(r, u)' => Delivered(r, u)
      BY <1>9 DEF Delivered
    <3> HIDE DEF ThreadInv, ThreadBase
    <3> QED BY <3>1, <3>2, StillAwake
  <2> QED BY <2>1, <2>2, <2>3, <2>4, <2>5 DEF ThreadLive
<1> QED BY <1>11, <1>14, <1>15, <1>16

\* The end of a turn, of a child that has ended meanwhile too.
LEMMA CompleteTurnStep ==
    ASSUME ThreadInv, NEW t \in Threads, CompleteThreadTurn(t)
    PROVE  ThreadInv'
<1>1. /\ flow \in [Threads -> FlowType] /\ counts \in [Bounded -> Nat] /\ ThreadOK(t) /\ InTurn(t)
      /\ inbox[t] \in Seq(EventTypes) /\ archived \subseteq Children /\ Primary \notin Children
      /\ UNCHANGED archived
  BY ThreadRuntimeAssumption DEF ThreadInv, ThreadBase, ThreadTyped, CompleteThreadTurn, InTurn
<1> DEFINE i == flow[t].at
<1>2. PICK outcome \in {"silent"} \cup (IF t = Primary THEN PrimaryOutcomes ELSE ChildOutcomes),
            last \in BOOLEAN :
        LET o == Effective(t, i, outcome)
        IN  /\ IF outcome = "park" THEN Use("park", MaxParks) /\ ~last ELSE UNCHANGED counts
            /\ IF t # Primary /\ Ended(t)
                 THEN /\ flow' = [flow EXCEPT ![t].pc = "reply", ![t].reply = "terminated"]
                      /\ UNCHANGED <<threadStatus, inbox, gate, sessionStatus, announced,
                                     threadOutbox, held>>
                 ELSE /\ Commit(t, i, o, last /\ o = outcome)
                      /\ flow' = [flow EXCEPT ![t].pc = "reply", ![t].reply = Disposition(t, o)]
  BY Zenon DEF CompleteThreadTurn
<1> DEFINE o == Effective(t, i, outcome)
<1>3. counts' \in [Bounded -> Nat]
  <2>1. CASE outcome = "park"
    BY <1>1, <1>2, <2>1, Counted DEF Bounded
  <2>2. CASE outcome # "park"
    BY <1>1, <1>2, <2>2
  <2> QED BY <2>1, <2>2
<1>4. CASE t # Primary /\ Ended(t)
  <2>1. flow' = [flow EXCEPT ![t].pc = "reply", ![t].reply = "terminated"] /\ LedgerUnchanged
    BY <1>1, <1>2, <1>4 DEF LedgerUnchanged
  <2>2. /\ flow' \in [Threads -> FlowType] /\ flow'[t].pc = "reply" /\ flow'[t].reply = "terminated"
        /\ \A u \in Threads : u # t => flow'[u] = flow[u]
    BY <1>1, <2>1 DEF FlowType
  <2>3. ~InTurn(t)'
    BY <2>2 DEF InTurn
  <2> QED BY <1>3, <1>4, <2>1, <2>2, <2>3, FlowStep
<1>5. CASE ~(t # Primary /\ Ended(t))
  <2>1. /\ Commit(t, i, o, last /\ o = outcome)
        /\ flow' = [flow EXCEPT ![t].pc = "reply", ![t].reply = Disposition(t, o)]
    BY <1>2, <1>5
  <2>2. t \notin archived
    BY <1>1, <1>5 DEF Ended
  <2>3. /\ i \in 1..Len(inbox[t]) /\ inbox[t][i] = IF t \in gate THEN "result" ELSE "message"
        /\ \A k \in 1..Len(inbox[t]) : k < i => inbox[t][k] # "interrupt"
    BY <1>1, <2>2 DEF ThreadOK, TriggerInLedger
  <2>4. o \in {"silent", outcome} /\ Effective(t, i, o) = o
    BY DEF Effective
  <2>5. /\ outcome \in Outcomes /\ (t = Primary => outcome # "park")
        /\ t = Primary /\ outcome = "terminate" => "terminate" \in PrimaryOutcomes
    BY ThreadRuntimeAssumption DEF Outcomes
  <2>6. /\ o \in Outcomes /\ (t = Primary => o # "park")
        /\ t = Primary /\ o = "terminate" => "terminate" \in PrimaryOutcomes
    BY <2>4, <2>5 DEF Outcomes
  <2> HIDE DEF i, o
  <2>7. PICK re \in {"next", "parked", "terminated"} :
          /\ Disposition(t, o) = re
          /\ re = "parked" <=> o = "park"
          /\ re = "terminated" <=> o = "terminate"
    <3>1. CASE o = "terminate"
      BY <3>1 DEF Disposition
    <3>2. CASE o = "park"
      BY <3>2 DEF Disposition
    <3>3. CASE o \notin {"terminate", "park"}
      BY <3>3 DEF Disposition
    <3> QED BY <3>1, <3>2, <3>3
  <2>8. /\ flow' \in [Threads -> FlowType] /\ flow'[t].pc = "reply" /\ flow'[t].reply = re
        /\ \A u \in Threads : u # t => flow'[u] = flow[u]
    <3>1. flow' = [flow EXCEPT ![t].pc = "reply", ![t].reply = re]
      BY <2>1, <2>7
    <3> QED BY <1>1, <3>1 DEF FlowType
  <2>9. CASE t = Primary
    <3>1. CommitPrimary(i, o)
      BY <2>1, <2>9 DEF Commit
    <3>2. i \in 1..Len(inbox[Primary]) /\ o \in Outcomes \ {"park"} /\ Effective(Primary, i, o) = o
      BY <2>3, <2>4, <2>6, <2>9
    <3>3. /\ \A u \in Threads : u # Primary => flow'[u] = flow[u]
          /\ flow'[Primary].pc = "reply" /\ flow'[Primary].reply # "parked"
          /\ flow'[Primary].reply = "terminated" => "terminate" \in PrimaryOutcomes
          /\ o = "terminate" => "terminate" \in PrimaryOutcomes
      BY <2>6, <2>7, <2>8, <2>9
    <3> QED BY <1>1, <1>3, <2>8, <3>1, <3>2, <3>3, CommitPrimaryStep
  <2>10. CASE t # Primary
    <3>1. t \in Children /\ ~Ended(t)
      BY <1>5, <2>10 DEF Threads
    <3>2. PICK reports \in BOOLEAN : CommitChild(t, i, o, reports)
      <4>1. CommitChild(t, i, o, last /\ o = outcome)
        BY <2>1, <2>10 DEF Commit
      <4> QED BY <4>1
    <3> QED BY <1>1, <1>3, <2>3, <2>4, <2>6, <2>7, <2>8, <3>1, <3>2, CommitChildStep
  <2> QED BY <2>9, <2>10
<1> QED BY <1>4, <1>5

\* An interrupt outside a turn is committed on its own.
LEMMA AcknowledgeStep ==
    ASSUME ThreadInv, NEW t \in Threads, AcknowledgeThreadInterrupt(t)
    PROVE  ThreadInv'
<1>1. /\ flow \in [Threads -> FlowType] /\ counts \in [Bounded -> Nat] /\ ThreadOK(t)
      /\ inbox[t] \in Seq(EventTypes) /\ archived \subseteq Children /\ Primary \notin Children
      /\ flow[Primary].reply # "parked"
  BY ThreadRuntimeAssumption DEF ThreadInv, ThreadBase, ThreadTyped
<1> DEFINE i == NextEvent(t)
<1>2. /\ flow[t].pc = "drain" /\ i # 0 /\ inbox[t][i] = "interrupt" /\ Commit(t, i, "silent", FALSE)
      /\ UNCHANGED <<archived, flow, counts>>
  BY DEF AcknowledgeThreadInterrupt
<1>3. i \in 1..Len(inbox[t])
  BY <1>1, <1>2, NextEventFacts
<1>4. Effective(t, i, "silent") = "silent" /\ "silent" \in Outcomes /\ "silent" \notin {"park", "terminate"}
  BY DEF Effective, Outcomes
<1>5. flow'[t].pc = "drain" /\ flow'[t].at = 0
  BY <1>1, <1>2 DEF ThreadOK
<1> HIDE DEF i
<1>6. CASE t = Primary
  <2>1. CommitPrimary(i, "silent") /\ flow' = flow /\ archived' = archived /\ counts' = counts
    BY <1>2, <1>6 DEF Commit
  <2> QED BY <1>1, <1>3, <1>4, <1>5, <1>6, <2>1, CommitPrimaryStep
<1>7. CASE t # Primary
  <2>1. CommitChild(t, i, "silent", FALSE) /\ flow' = flow /\ archived' = archived /\ counts' = counts
    BY <1>2, <1>7 DEF Commit
  <2>2. t \in Children /\ ~Ended(t)
    <3>1. t \in Children
      BY <1>7 DEF Threads
    <3>2. t \notin archived
      BY <1>1, <1>3 DEF ThreadOK, Frozen
    <3> QED BY <1>1, <1>2, <1>3, <3>1, <3>2 DEF ThreadOK, EndedIsFinal, Ended
  <2> QED BY <1>1, <1>2, <1>3, <1>4, <1>5, <2>1, <2>2, CommitChildStep
<1> QED BY <1>6, <1>7

\* The invariant is inductive.
LEMMA ThreadStep == ASSUME ThreadInv, [ThreadNext]_threadVars PROVE ThreadInv'
<1>1. ASSUME UNCHANGED threadVars PROVE ThreadInv'
  <2>1. /\ LedgerUnchanged /\ UNCHANGED <<flow, counts>> /\ Primary \in Threads
        /\ flow \in [Threads -> FlowType] /\ counts \in [Bounded -> Nat] /\ ThreadOK(Primary)
    BY <1>1 DEF threadVars, LedgerUnchanged, ThreadInv, ThreadBase, ThreadTyped, Threads
  <2>2. TriggerInLedger(Primary) => TriggerInLedger(Primary)'
    BY <2>1 DEF LedgerUnchanged, TriggerInLedger
  <2>3. (InTurn(Primary)' <=> InTurn(Primary)) /\ (Asleep(Primary)' <=> Asleep(Primary))
    BY <2>1 DEF InTurn, Asleep
  <2>4. /\ flow'[Primary].pc \in {"none", "wait", "drain"} => flow'[Primary].at = 0
        /\ InTurn(Primary)' /\ Primary \notin archived => TriggerInLedger(Primary)'
    BY <2>1, <2>2, <2>3 DEF ThreadOK
  <2>5. Primary \notin Children
    BY ThreadRuntimeAssumption
  <2> QED BY <2>1, <2>3, <2>4, <2>5, FlowStep
<1>2. CASE AdmitUserMessage \/ AdmitThreadInterrupt \/ ResumePrimaryWorkflowRetry
  BY <1>2, AdmitUserMessageStep, AdmitThreadInterruptStep, ResumePrimaryStep
<1>3. ASSUME NEW c \in Children, \/ AdmitChildResult(c) \/ ExecuteSendToAgent(c)
                                 \/ ArchiveSessionThread(c) \/ ResumeThreadWorkflowRetry(c)
      PROVE  ThreadInv'
  BY <1>3, AdmitChildResultStep, ExecuteSendStep, ArchiveStep, ResumeChildStep
<1>4. ASSUME NEW r \in ThreadRelays, \/ \E t \in Threads : RelayReadThread(r, t)
                                     \/ RelayDeliverThread(r) \/ DeleteThreadWakeupIfUnchanged(r)
                                     \/ RelayFailThread(r)
      PROVE  ThreadInv'
  BY <1>4, RelaySteps, RelayDeliverStep
<1>5. ASSUME NEW t \in Threads, \/ ReceiveThreadWakeup(t) \/ EndThreadDrain(t)
                                \/ BeginThreadTurn(t) \/ StartThreadModelRequest(t)
                                \/ ObserveThreadWakeup(t)
      PROVE  ThreadInv'
  BY <1>5, ReceiveStep, EndDrainStep, BeginTurnStep, StartModelStep, ObserveStep
<1>6. ASSUME NEW t \in Threads, \/ RecordThreadWorkflowRetry(t)
                                \/ CompleteThreadTurn(t) \/ ReplayThreadTurn(t)
                                \/ TakeThreadReply(t) \/ AcknowledgeThreadInterrupt(t)
      PROVE  ThreadInv'
  BY <1>6, RecordRetryStep, CompleteTurnStep, ReplayStep, TakeReplyStep, AcknowledgeStep
<1> QED BY <1>1, <1>2, <1>3, <1>4, <1>5, <1>6, Zenon DEF ThreadNext

\* The invariant holds in every state of a multi-agent Session, for any number of
\* children and relays and any bounds.
THEOREM ThreadsInvariant == ThreadSpec => []ThreadInv
<1>1. ThreadInit => ThreadInv
  BY ThreadInitInv
<1>2. ThreadInv /\ [ThreadNext]_threadVars => ThreadInv'
  BY ThreadStep
<1> QED BY <1>1, <1>2, PTL DEF ThreadSpec

\* Statuses, ledgers and intents are of the kinds the tables allow and a turn's
\* trigger stays in its ledger until the turn is committed, for every instance.
THEOREM ThreadTypes == ThreadSpec => []ThreadTypeOK
<1>1. ThreadInv => ThreadTypeOK
  <2> SUFFICES ASSUME ThreadInv PROVE ThreadTypeOK
    OBVIOUS
  <2> USE DEF ThreadInv, ThreadBase
  <2>1. ASSUME NEW t \in Threads PROVE flow[t].at \in 0..Len(inbox[t]) \/ flow[t].pc = "reply" \/ Ended(t)
    <3>1. flow[t] \in FlowType /\ inbox[t] \in Seq(EventTypes) /\ ThreadOK(t)
      BY DEF ThreadTyped
    <3>2. CASE flow[t].pc \in {"none", "wait", "drain"}
      BY <3>1, <3>2 DEF ThreadOK
    <3>3. CASE InTurn(t)
      BY <3>1, <3>3 DEF ThreadOK, TriggerInLedger, Ended
    <3> QED BY <3>1, <3>2, <3>3 DEF FlowType, InTurn
  <2> QED BY <2>1 DEF ThreadTypeOK, ThreadTyped, ThreadStatuses, EventTypes
<1> QED BY <1>1, ThreadsInvariant, PTL

\* No message, answer, interrupt or report is stranded on a Thread that sleeps:
\* for any number of Threads and relays, and whatever is coalesced, lost or
\* replayed on the way, unless a turn of the coordinator may end in a fatal error
\* (its Thread then takes messages and has no Workflow to look at them).
THEOREM ThreadWakeups ==
    ThreadSpec => []("terminate" \notin PrimaryOutcomes => ThreadNoLostWakeup)
<1>1. ThreadInv => ("terminate" \notin PrimaryOutcomes => ThreadNoLostWakeup)
  BY DEF ThreadInv, ThreadLive, WakeupOnItsWay, ThreadNoLostWakeup, Asleep
<1> QED BY <1>1, ThreadsInvariant, PTL

\* The Session is idle only when no Thread works, and an event says so, for every
\* instance in which no turn of the coordinator ends in a fatal error.
THEOREM SessionQuiet ==
    ThreadSpec => []("terminate" \notin PrimaryOutcomes => IdleSessionIsQuiet)
<1>1. ThreadInv => ("terminate" \notin PrimaryOutcomes => IdleSessionIsQuiet)
  BY DEF ThreadInv, ThreadLive
<1> QED BY <1>1, ThreadsInvariant, PTL

-----------------------------------------------------------------------------
(* An archived child                                                       *)

\* No step takes archived_at back.
LEMMA ArchivedStays == ASSUME ThreadNext PROVE archived \subseteq archived'
<1>1. CASE AdmitUserMessage \/ AdmitThreadInterrupt \/ ResumePrimaryWorkflowRetry
  BY <1>1 DEF AdmitUserMessage, AdmitThreadInterrupt, ResumePrimaryWorkflowRetry
<1>2. ASSUME NEW c \in Children, \/ AdmitChildResult(c) \/ ExecuteSendToAgent(c)
                                 \/ ArchiveSessionThread(c) \/ ResumeThreadWorkflowRetry(c)
      PROVE  archived \subseteq archived'
  BY <1>2 DEF AdmitChildResult, ExecuteSendToAgent, ArchiveSessionThread, ResumeThreadWorkflowRetry
<1>3. ASSUME NEW r \in ThreadRelays, \/ \E t \in Threads : RelayReadThread(r, t)
                                     \/ RelayDeliverThread(r) \/ DeleteThreadWakeupIfUnchanged(r)
                                     \/ RelayFailThread(r)
      PROVE  archived \subseteq archived'
  BY <1>3 DEF RelayReadThread, RelayDeliverThread, DeleteThreadWakeupIfUnchanged, RelayFailThread
<1>4. ASSUME NEW t \in Threads, \/ ReceiveThreadWakeup(t) \/ EndThreadDrain(t)
                                \/ BeginThreadTurn(t) \/ StartThreadModelRequest(t)
                                \/ ObserveThreadWakeup(t) \/ RecordThreadWorkflowRetry(t)
                                \/ CompleteThreadTurn(t) \/ ReplayThreadTurn(t)
                                \/ TakeThreadReply(t) \/ AcknowledgeThreadInterrupt(t)
      PROVE  archived \subseteq archived'
  BY <1>4 DEF ReceiveThreadWakeup, EndThreadDrain, BeginThreadTurn, StartThreadModelRequest,
              ObserveThreadWakeup, RecordThreadWorkflowRetry, CompleteThreadTurn, ReplayThreadTurn,
              TakeThreadReply, AcknowledgeThreadInterrupt, LedgerUnchanged
<1> QED BY <1>1, <1>2, <1>3, <1>4, Zenon DEF ThreadNext

\* Nothing is queued on an archived child and no step revives it, whatever else
\* is under way: a wakeup, a turn that ends, a replayed reply, an answer.
THEOREM ArchivedFrozen == ThreadSpec => ArchivedThreadFrozen
<1>1. ThreadInv /\ ThreadInv' /\ [ThreadNext]_threadVars =>
        [\A c \in archived : /\ c \in archived' /\ threadStatus'[c] = "terminated"
                             /\ inbox'[c] = <<>> /\ c \notin gate']_threadVars
  <2> SUFFICES ASSUME ThreadInv, ThreadInv', ThreadNext, NEW c \in archived
               PROVE  /\ c \in archived' /\ threadStatus'[c] = "terminated"
                      /\ inbox'[c] = <<>> /\ c \notin gate'
    OBVIOUS
  <2>1. c \in archived'
    BY ArchivedStays
  <2>2. c \in Threads /\ ThreadOK(c)'
    BY DEF ThreadInv, ThreadBase, ThreadTyped, Threads
  <2> QED BY <2>1, <2>2 DEF ThreadOK, Frozen
<1> QED BY <1>1, ThreadsInvariant, PTL DEF ThreadSpec, ArchivedThreadFrozen

=============================================================================
