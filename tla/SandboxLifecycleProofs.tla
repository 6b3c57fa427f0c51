----------------------- MODULE SandboxLifecycleProofs ------------------------
(***************************************************************************)
(* Proofs about the sandbox of a Session: workers that race to provision   *)
(* it, bind it and use it, the deletion of the Session and the release of  *)
(* what was provisioned.  One inductive invariant carries three theorems.  *)
(***************************************************************************)
EXTENDS SandboxLifecycle, WellFoundedInduction, TLAPS

\* Min of a non-empty set of naturals is its least element.
LEMMA MinIsLeast ==
    ASSUME NEW S \in SUBSET Nat, S # {}
    PROVE  Min(S) \in S /\ \A x \in S : Min(S) <= x
<1> DEFINE R == {p \in Nat \X Nat : p[1] < p[2]}
<1>1. IsWellFoundedOn(R, Nat)
  BY NatLessThanWellFounded, Zenon DEF OpToRel
<1>2. PICK m \in S : \A x \in S : <<x, m>> \notin R
  <2> HIDE DEF R
  <2> QED BY <1>1, WFMin
<1>3. \A x \in S : m <= x
  <2> TAKE x \in S
  <2>1. <<x, m>> \in Nat \X Nat /\ <<x, m>>[1] = x /\ <<x, m>>[2] = m
    OBVIOUS
  <2>2. ~(<<x, m>>[1] < <<x, m>>[2])
    BY <1>2, <2>1, Zenon
  <2> QED BY <2>1, <2>2
<1> QED BY <1>3 DEF Min

\* where a worker may be, while the Session lives and at all
LivePcs == {"free", "lookup", "attach", "intent", "reload", "find", "create", "setup",
            "bind", "bound", "lost", "using", "clear"}
WorkerPcs == LivePcs \cup {"release", "reattach", "unbox", "discard", "unbind", "refind", "recreate",
                           "destroy", "unintend", "released"}
WorkerType == [pc : WorkerPcs, box : Nat, job : {"none", "tool", "reconcile", "cleanup"}]

\* what the variables hold
SandboxTyped ==
    /\ life \in {"live", "deleting", "gone"} /\ turn \in BOOLEAN /\ intent \in BOOLEAN
    /\ rows \subseteq {"file", "output", "memory"}
    /\ created \subseteq 1..MaxBoxes /\ boxes \subseteq created /\ ready \subseteq created
    /\ worker \in [Workers -> WorkerType] /\ cached \in [Workers -> Nat] /\ binding \in Nat
    /\ cleanup \in {"none", "due"} \cup Workers
    /\ deleter \in [Deleters -> {"idle", "terminate", "waiting", "rows"}]
    /\ \A w \in Workers : /\ worker[w].box \in created \cup {0}
                          /\ worker[w].pc # "free" => worker[w].job # "none"

\* what a worker may take for a usable box has had its setup
OnlyReadyBoxes ==
    /\ binding \in ready \cup {0}
    /\ \A w \in Workers :
         /\ cached[w] \in ready \cup {0}
         /\ worker[w].pc \in {"bind", "attach", "bound", "using"} => worker[w].box \in ready

\* nothing of a deleted Session is left in the tables
GoneIsGone == life = "gone" => binding = 0 /\ ~intent /\ rows = {}

\* nobody releases the sandbox of a live Session
LiveIsQuiet ==
    life = "live" =>
        /\ cleanup = "none" /\ \A d \in Deleters : deleter[d] = "idle"
        /\ \A w \in Workers : worker[w].pc \in LivePcs /\ worker[w].job # "cleanup"

\* the binding of a live Session names a box that exists, and whoever holds a box
\* for use holds that one; before the election no box is destroyed
LiveBinding ==
    life = "live" =>
        /\ binding \in boxes \cup {0}
        /\ \A w \in Workers :
             /\ cached[w] \in {0, binding}
             /\ worker[w].pc \in {"attach", "bound", "using"} => worker[w].box = binding
             /\ worker[w].pc = "lost" => binding \notin {0, worker[w].box}
             /\ worker[w].pc \in {"setup", "bind"} /\ binding = 0 => worker[w].box \in boxes

\* with unique names there is one box, and it is announced until it is bound
OneAnnouncedBox ==
    UniqueNames =>
        /\ \A a, b \in boxes : a = b
        /\ life = "live" /\ binding = 0 =>
             /\ boxes # {} => intent
             /\ \A w \in Workers : worker[w].pc \in {"find", "create", "setup", "bind"} => intent

\* the inductive invariant
SandboxInv == /\ SandboxTyped /\ OnlyReadyBoxes /\ GoneIsGone /\ LiveIsQuiet
              /\ LiveBinding /\ OneAnnouncedBox

\* A worker that goes on changes its program counter and its box.
LEMMA AtWorker ==
    ASSUME SandboxTyped, NEW w \in Workers, NEW pc \in WorkerPcs, NEW b \in Nat, At(w, pc, b)
    PROVE  /\ worker' \in [Workers -> WorkerType]
           /\ \A q \in Workers : q # w => worker'[q] = worker[q]
           /\ worker'[w].pc = pc /\ worker'[w].box = b /\ worker'[w].job = worker[w].job
  BY DEF At, SandboxTyped, WorkerType, WorkerPcs

\* A worker that ends is free.
LEMMA FreeWorker ==
    ASSUME SandboxTyped, NEW w \in Workers, worker' = [worker EXCEPT ![w] = Free]
    PROVE  /\ worker' \in [Workers -> WorkerType]
           /\ \A q \in Workers : q # w => worker'[q] = worker[q]
           /\ worker'[w].pc = "free" /\ worker'[w].box = 0 /\ worker'[w].job = "none"
<1>1. Free \in WorkerType /\ Free.pc = "free" /\ Free.box = 0 /\ Free.job = "none"
  BY DEF Free, WorkerType, WorkerPcs, LivePcs
<1> QED BY <1>1 DEF SandboxTyped

\* The box a provider finds exists.
LEMMA FoundBox == ASSUME SandboxTyped, boxes # {} PROVE Min(boxes) \in boxes /\ Min(boxes) \in created
<1>1. boxes \in SUBSET Nat
  BY SandboxAssumption DEF SandboxTyped
<1> QED BY <1>1, MinIsLeast DEF SandboxTyped

\* A Session without a sandbox satisfies the invariant.
LEMMA SandboxInitInv == SandboxInit => SandboxInv
<1> SUFFICES ASSUME SandboxInit PROVE SandboxInv
  OBVIOUS
<1>1. Free \in WorkerType /\ Free.pc = "free" /\ Free.box = 0 /\ Free.job = "none"
  BY DEF Free, WorkerType, WorkerPcs, LivePcs
<1>2. SandboxTyped
  BY <1>1, SandboxAssumption DEF SandboxInit, SandboxTyped, Deleters
<1>3. \A w \in Workers : worker[w].pc = "free" /\ worker[w].job = "none" /\ cached[w] = 0
  BY <1>1 DEF SandboxInit
<1> QED BY <1>2, <1>3 DEF SandboxInit, SandboxInv, OnlyReadyBoxes, GoneIsGone, LiveIsQuiet, LiveBinding,
                          OneAnnouncedBox, LivePcs, Deleters

\* A worker's own step that leaves the tables and the provider alone: what it
\* holds from now on decides.
LEMMA Moves ==
    ASSUME SandboxInv, NEW w \in Workers,
           UNCHANGED <<life, turn, rows, intent, binding, boxes, ready, created, deleter>>,
           cleanup' = cleanup \/ (cleanup = w /\ cleanup' = "due"),
           worker' \in [Workers -> WorkerType], cached' \in [Workers -> Nat],
           \A q \in Workers : q # w => worker'[q] = worker[q] /\ cached'[q] = cached[q],
           worker'[w].box \in created \cup {0},
           worker'[w].pc # "free" => worker'[w].job # "none",
           worker'[w].pc \in {"bind", "attach", "bound", "using"} => worker'[w].box \in ready,
           cached'[w] \in ready \cup {0},
           life = "live" =>
             /\ worker'[w].pc \in LivePcs /\ worker'[w].job # "cleanup"
             /\ cached'[w] \in {0, binding}
             /\ worker'[w].pc \in {"attach", "bound", "using"} => worker'[w].box = binding
             /\ worker'[w].pc = "lost" => binding \notin {0, worker'[w].box}
             /\ worker'[w].pc \in {"setup", "bind"} /\ binding = 0 => worker'[w].box \in boxes
             /\ UniqueNames /\ binding = 0 /\ worker'[w].pc \in {"find", "create", "setup", "bind"} => intent
    PROVE  SandboxInv'
<1> USE DEF SandboxInv
<1>1. cleanup' \in {"none", "due"} \cup Workers /\ (life = "live" => cleanup' = "none")
  BY SandboxAssumption DEF SandboxTyped, LiveIsQuiet
<1>2. SandboxTyped'
  BY <1>1 DEF SandboxTyped
<1>3. OnlyReadyBoxes'
  BY DEF OnlyReadyBoxes
<1>4. GoneIsGone'
  BY DEF GoneIsGone
<1>5. LiveIsQuiet'
  BY <1>1 DEF LiveIsQuiet
<1>6. LiveBinding'
  BY DEF LiveBinding
<1>7. OneAnnouncedBox'
  BY DEF OneAnnouncedBox
<1> QED BY <1>2, <1>3, <1>4, <1>5, <1>6, <1>7

\* Whatever fails, the worker is free again and the release is due.
LEMMA FailsMove ==
    ASSUME SandboxInv, NEW w \in Workers, Fails(w),
           UNCHANGED <<life, turn, rows, intent, binding, boxes, ready, created, deleter>>,
           cached' = cached \/ cached' = [cached EXCEPT ![w] = 0]
    PROVE  SandboxInv'
<1>1. /\ worker' \in [Workers -> WorkerType]
      /\ \A q \in Workers : q # w => worker'[q] = worker[q]
      /\ worker'[w].pc = "free" /\ worker'[w].box = 0 /\ worker'[w].job = "none"
  BY FreeWorker DEF Fails, SandboxInv
<1>2. cleanup' = cleanup \/ (cleanup = w /\ cleanup' = "due")
  BY DEF Fails, Retried
<1>3. /\ cached' \in [Workers -> Nat] /\ \A q \in Workers : q # w => cached'[q] = cached[q]
      /\ cached'[w] \in {0, cached[w]}
  BY DEF SandboxInv, SandboxTyped
<1>4. /\ cached'[w] \in ready \cup {0} /\ (life = "live" => cached'[w] \in {0, binding})
  BY <1>3 DEF SandboxInv, OnlyReadyBoxes, LiveBinding
<1> QED BY <1>1, <1>2, <1>3, <1>4, Moves DEF LivePcs

\* A worker that got box b uses it, clears the intent or releases it.
LEMMA AcquiredMove ==
    ASSUME SandboxInv, NEW w \in Workers, NEW b \in ready, Acquired(w, b),
           worker[w].pc # "free",
           life = "live" => b = binding,
           UNCHANGED <<life, turn, rows, intent, binding, boxes, ready, created, cleanup, deleter>>
    PROVE  SandboxInv'
<1>1. b \in created /\ b \in Nat /\ worker[w].job \in {"tool", "reconcile", "cleanup"}
  BY SandboxAssumption DEF SandboxInv, SandboxTyped, WorkerType, WorkerPcs
<1>2. /\ cached' \in [Workers -> Nat] /\ \A q \in Workers : q # w => cached'[q] = cached[q]
      /\ cached'[w] = b
  BY <1>1 DEF Acquired, SandboxInv, SandboxTyped
<1>3. PICK pc \in {"using", "clear", "release"} :
        At(w, pc, b) /\ (worker[w].job # "cleanup" => pc # "release")
  BY <1>1 DEF Acquired
<1>4. /\ worker' \in [Workers -> WorkerType]
      /\ \A q \in Workers : q # w => worker'[q] = worker[q]
      /\ worker'[w].pc = pc /\ worker'[w].box = b /\ worker'[w].job = worker[w].job
  BY <1>1, <1>3, AtWorker DEF WorkerPcs, LivePcs, SandboxInv
<1>5. life = "live" => worker[w].job # "cleanup" /\ pc \in LivePcs
  BY <1>3 DEF SandboxInv, LiveIsQuiet, LivePcs
<1> QED BY <1>1, <1>2, <1>3, <1>4, <1>5, Moves

\* Starting a job.
LEMMA StartStep ==
    ASSUME SandboxInv, NEW w \in Workers, StartTool(w) \/ StartReconcile(w) \/ StartCleanup(w)
    PROVE  SandboxInv'
<1> USE DEF SandboxInv
<1>1. CASE StartTool(w)
  <2>1. /\ worker' \in [Workers -> WorkerType]
        /\ \A q \in Workers : q # w => worker'[q] = worker[q]
        /\ worker'[w].pc = "lookup" /\ worker'[w].box = 0 /\ worker'[w].job = "tool"
    BY <1>1 DEF StartTool, SandboxTyped, WorkerType, WorkerPcs, LivePcs
  <2>2. UNCHANGED <<life, rows, intent, binding, boxes, ready, created, cached, cleanup, deleter>>
    BY <1>1 DEF StartTool, record, provider
  <2>3. turn' \in BOOLEAN
    BY <1>1 DEF StartTool
  <2>4. SandboxTyped'
    BY <2>1, <2>2, <2>3 DEF SandboxTyped
  <2>5. OnlyReadyBoxes' /\ GoneIsGone'
    BY <2>1, <2>2 DEF OnlyReadyBoxes, GoneIsGone
  <2>6. LiveIsQuiet'
    BY <2>1, <2>2 DEF LiveIsQuiet, LivePcs
  <2>7. LiveBinding' /\ OneAnnouncedBox'
    BY <2>1, <2>2 DEF LiveBinding, OneAnnouncedBox
  <2> QED BY <2>4, <2>5, <2>6, <2>7
<1>2. CASE StartReconcile(w)
  <2> DEFINE pc == IF life = "deleting" THEN "release" ELSE "lookup"
  <2>1. /\ worker' \in [Workers -> WorkerType]
        /\ \A q \in Workers : q # w => worker'[q] = worker[q]
        /\ worker'[w].pc = pc /\ worker'[w].box = 0 /\ worker'[w].job = "reconcile"
    BY <1>2 DEF StartReconcile, SandboxTyped, WorkerType, WorkerPcs, LivePcs
  <2>2. UNCHANGED <<life, turn, rows, intent, binding, boxes, ready, created, cached, cleanup, deleter>>
    BY <1>2 DEF StartReconcile, sessionRow, record, provider, others
  <2>3. cached[w] \in ready \cup {0} /\ cached \in [Workers -> Nat] /\ (life = "live" => cached[w] \in {0, binding})
    BY DEF SandboxTyped, OnlyReadyBoxes, LiveBinding
  <2> QED BY <2>1, <2>2, <2>3, Moves DEF LivePcs
<1>3. CASE StartCleanup(w)
  <2>0. life # "live"
    BY <1>3 DEF StartCleanup, LiveIsQuiet
  <2>1. /\ worker' \in [Workers -> WorkerType]
        /\ \A q \in Workers : q # w => worker'[q] = worker[q]
        /\ worker'[w].pc \in {"lookup", "release"} /\ worker'[w].box = 0 /\ worker'[w].job = "cleanup"
    BY <1>3 DEF StartCleanup, SandboxTyped, WorkerType, WorkerPcs, LivePcs
  <2>2. /\ UNCHANGED <<life, turn, rows, intent, binding, boxes, ready, created, cached, deleter>>
        /\ cleanup' = w
    BY <1>3 DEF StartCleanup, sessionRow, record, provider
  <2>3. SandboxTyped'
    BY <2>1, <2>2 DEF SandboxTyped
  <2>4. OnlyReadyBoxes' /\ GoneIsGone' /\ OneAnnouncedBox'
    BY <2>0, <2>1, <2>2 DEF OnlyReadyBoxes, GoneIsGone, OneAnnouncedBox
  <2> QED BY <2>0, <2>2, <2>3, <2>4 DEF LiveIsQuiet, LiveBinding
<1> QED BY <1>1, <1>2, <1>3

\* Acquire up to the election of the binding.
LEMMA AcquireStep ==
    ASSUME SandboxInv, NEW w \in Workers,
           \/ Lookup(w) \/ Attach(w) \/ PutIntent(w) \/ ReloadBinding(w) \/ FindBox(w)
           \/ CreateBox(w) \/ SetUp(w)
    PROVE  SandboxInv'
<1> USE DEF SandboxInv
<1>0. /\ cached \in [Workers -> Nat] /\ cached[w] \in ready \cup {0} /\ binding \in ready \cup {0}
      /\ life = "live" => cached[w] \in {0, binding}
      /\ life = "live" => worker[w].pc \in LivePcs /\ worker[w].job # "cleanup"
      /\ binding \in Nat /\ created \subseteq Nat /\ 0 \notin created
      /\ ready \subseteq created /\ boxes \subseteq created
      /\ worker[w].pc # "free" => worker[w].job # "none"
  BY SandboxAssumption DEF SandboxTyped, OnlyReadyBoxes, LiveBinding, LiveIsQuiet
<1>1. CASE Lookup(w)
  <2>1. UNCHANGED <<life, turn, rows, intent, binding, boxes, ready, created, cleanup, deleter>>
    BY <1>1 DEF Lookup, sessionRow, record, provider, others
  <2>2. CASE cached[w] # 0
    BY <1>0, <1>1, <2>1, <2>2, AcquiredMove DEF Lookup
  <2>3. CASE cached[w] = 0
    <3>1. UNCHANGED cached /\ \/ binding # 0 /\ At(w, "attach", binding)
                              \/ binding = 0 /\ At(w, "intent", 0)
      BY <1>1, <2>3 DEF Lookup
    <3>2. PICK pc \in {"attach", "intent"}, b \in {binding, 0} :
            At(w, pc, b) /\ (pc = "attach" => b = binding /\ binding \in ready)
      BY <1>0, <3>1
    <3>3. /\ worker' \in [Workers -> WorkerType]
          /\ \A q \in Workers : q # w => worker'[q] = worker[q]
          /\ worker'[w].pc = pc /\ worker'[w].box = b /\ worker'[w].job = worker[w].job
      BY <1>0, <3>2, AtWorker DEF WorkerPcs, LivePcs
    <3>4. worker[w].pc = "lookup"
      BY <1>1 DEF Lookup
    <3> QED BY <1>0, <2>1, <3>1, <3>2, <3>3, <3>4, Moves DEF LivePcs
  <2> QED BY <2>2, <2>3
<1>2. CASE Attach(w)
  <2>1. UNCHANGED <<life, turn, rows, intent, binding, boxes, ready, created, deleter>> /\ worker[w].pc = "attach"
    BY <1>2 DEF Attach, sessionRow, record, provider
  <2>2. worker[w].box \in ready /\ (life = "live" => worker[w].box = binding)
    BY <2>1 DEF OnlyReadyBoxes, LiveBinding
  <2>3. CASE worker[w].box \in boxes
    BY <1>2, <2>1, <2>2, <2>3, AcquiredMove DEF Attach
  <2>4. CASE worker[w].box \notin boxes
    BY <1>2, <2>1, <2>4, FailsMove DEF Attach
  <2> QED BY <2>3, <2>4
<1>3. CASE PutIntent(w)
  <2>1. /\ UNCHANGED <<life, turn, rows, binding, boxes, ready, created, cleanup, deleter, cached>>
        /\ worker[w].pc = "intent" /\ intent' \in BOOLEAN /\ (intent => intent') /\ (Provisionable => intent')
        /\ (~Provisionable => intent' = intent)
    BY <1>3 DEF PutIntent, sessionRow, provider, others, SandboxTyped
  <2>2. PICK pc \in {"find", "reload"} : At(w, pc, 0) /\ (pc = "find" => Provisionable)
    BY <1>3 DEF PutIntent
  <2>3. /\ worker' \in [Workers -> WorkerType]
        /\ \A q \in Workers : q # w => worker'[q] = worker[q]
        /\ worker'[w].pc = pc /\ worker'[w].box = 0 /\ worker'[w].job = worker[w].job
    BY <2>2, AtWorker DEF WorkerPcs, LivePcs
  <2>4. SandboxTyped'
    BY <2>1, <2>3 DEF SandboxTyped
  <2>5. OnlyReadyBoxes'
    BY <2>1, <2>3 DEF OnlyReadyBoxes
  <2>6. GoneIsGone'
    BY <2>1 DEF GoneIsGone, Provisionable
  <2>7. LiveIsQuiet'
    BY <2>1, <2>3 DEF LiveIsQuiet, LivePcs
  <2>8. LiveBinding'
    BY <2>1, <2>3 DEF LiveBinding
  <2>9. OneAnnouncedBox'
    BY <2>1, <2>2, <2>3 DEF OneAnnouncedBox
  <2> QED BY <2>4, <2>5, <2>6, <2>7, <2>8, <2>9
<1>4. CASE ReloadBinding(w)
  <2>1. /\ UNCHANGED <<life, turn, rows, intent, binding, boxes, ready, created, deleter, cached>>
        /\ worker[w].pc = "reload"
    BY <1>4 DEF ReloadBinding, sessionRow, record, provider
  <2>2. CASE binding = 0
    BY <1>4, <2>1, <2>2, FailsMove DEF ReloadBinding
  <2>3. CASE binding # 0
    <3>1. At(w, "attach", binding) /\ UNCHANGED cleanup
      BY <1>4, <2>3 DEF ReloadBinding
    <3>2. /\ worker' \in [Workers -> WorkerType]
          /\ \A q \in Workers : q # w => worker'[q] = worker[q]
          /\ worker'[w].pc = "attach" /\ worker'[w].box = binding /\ worker'[w].job = worker[w].job
      BY <1>0, <3>1, AtWorker DEF WorkerPcs, LivePcs
    <3> QED BY <1>0, <2>1, <2>3, <3>1, <3>2, Moves DEF LivePcs
  <2> QED BY <2>2, <2>3
<1>5. CASE FindBox(w)
  <2>1. /\ UNCHANGED <<life, turn, rows, intent, binding, boxes, ready, created, deleter, cached, cleanup>>
        /\ worker[w].pc \in {"find", "refind"}
    BY <1>5 DEF FindBox, sessionRow, record, provider, others
  <2>2. PICK pc \in {"setup", "destroy", "create", "recreate"}, b \in boxes \cup {0} :
          /\ At(w, pc, b)
          /\ pc \in {"setup", "create"} <=> worker[w].pc = "find"
          /\ pc = "setup" => b \in boxes
    <3>1. CASE boxes # {}
      <4>1. At(w, AfterCreate(w), Min(boxes)) /\ Min(boxes) \in boxes
        BY <1>5, <3>1, FoundBox DEF FindBox
      <4>2. AfterCreate(w) = (IF worker[w].pc = "find" THEN "setup" ELSE "destroy")
        BY <2>1 DEF AfterCreate
      <4> QED BY <2>1, <4>1, <4>2
    <3>2. CASE boxes = {}
      BY <1>5, <2>1, <3>2 DEF FindBox
    <3> QED BY <3>1, <3>2
  <2>3. /\ worker' \in [Workers -> WorkerType]
        /\ \A q \in Workers : q # w => worker'[q] = worker[q]
        /\ worker'[w].pc = pc /\ worker'[w].box = b /\ worker'[w].job = worker[w].job
    <3>1. pc \in WorkerPcs
      BY <2>2 DEF WorkerPcs, LivePcs
    <3>2. b \in Nat
      BY <1>0, <2>2
    <3> QED BY <2>2, <3>1, <3>2, AtWorker
  <2>4. life = "live" => worker[w].pc = "find"
    BY <1>0, <2>1 DEF LivePcs
  <2>5. UniqueNames /\ life = "live" /\ binding = 0 => intent
    BY <2>4 DEF OneAnnouncedBox
  <2> QED BY <1>0, <2>1, <2>2, <2>3, <2>4, <2>5, Moves DEF LivePcs
<1>6. CASE CreateBox(w)
  <2>1. /\ UNCHANGED <<life, turn, rows, intent, binding, ready, deleter, cached, cleanup>>
        /\ worker[w].pc \in {"create", "recreate"}
    BY <1>6 DEF CreateBox, sessionRow, record, others
  <2>2. PICK pc \in {"setup", "destroy"}, b \in created' :
          /\ At(w, pc, b) /\ b \in boxes'
          /\ boxes \subseteq boxes' /\ boxes' = boxes \cup {b}
          /\ created \subseteq created' /\ boxes' \subseteq created' /\ created' \subseteq 1..MaxBoxes
          /\ UniqueNames => \A a, c \in boxes' : a = c
          /\ pc = "setup" <=> worker[w].pc = "create"
    <3>1. AfterCreate(w) \in {"setup", "destroy"} /\ (AfterCreate(w) = "setup" <=> worker[w].pc = "create")
      BY <2>1 DEF AfterCreate
    <3>2. CASE UniqueNames /\ boxes # {}
      <4>1. At(w, AfterCreate(w), Min(boxes)) /\ Min(boxes) \in boxes /\ UNCHANGED <<boxes, created>>
        BY <1>6, <3>2, FoundBox DEF CreateBox
      <4>2. (\A a, c \in boxes' : a = c) /\ created' \subseteq 1..MaxBoxes
        BY <3>2, <4>1 DEF OneAnnouncedBox, SandboxTyped
      <4> QED BY <1>0, <3>1, <4>1, <4>2
    <3>3. CASE ~(UniqueNames /\ boxes # {})
      <4>1. PICK b \in 1..MaxBoxes \ created :
              /\ boxes' = boxes \cup {b} /\ created' = created \cup {b} /\ At(w, AfterCreate(w), b)
        BY <1>6, <3>3 DEF CreateBox
      <4>2. UniqueNames => \A a, c \in boxes' : a = c
        BY <3>3, <4>1
      <4>3. created' \subseteq 1..MaxBoxes /\ boxes' \subseteq created'
        BY <1>0, <4>1 DEF SandboxTyped
      <4> QED BY <3>1, <4>1, <4>2, <4>3
    <3> QED BY <3>2, <3>3
  <2>3. /\ worker' \in [Workers -> WorkerType]
        /\ \A q \in Workers : q # w => worker'[q] = worker[q]
        /\ worker'[w].pc = pc /\ worker'[w].box = b /\ worker'[w].job = worker[w].job
    <3>1. b \in Nat /\ pc \in WorkerPcs
      BY <2>2, SandboxAssumption DEF WorkerPcs, LivePcs
    <3> QED BY <2>2, <3>1, AtWorker
  <2>4. life = "live" => pc = "setup" /\ worker[w].pc = "create"
    BY <1>0, <2>1, <2>2 DEF LivePcs
  <2>5. SandboxTyped'
    <3>1. \A q \in Workers : /\ worker'[q].box \in created' \cup {0}
                             /\ worker'[q].pc # "free" => worker'[q].job # "none"
      <4> SUFFICES ASSUME NEW q \in Workers
                   PROVE  /\ worker'[q].box \in created' \cup {0}
                          /\ worker'[q].pc # "free" => worker'[q].job # "none"
        OBVIOUS
      <4>1. CASE q = w
        BY <1>0, <2>1, <2>2, <2>3, <4>1
      <4>2. CASE q # w
        BY <2>2, <2>3, <4>2 DEF SandboxTyped
      <4> QED BY <4>1, <4>2
    <3>2. ready' \subseteq created'
      BY <1>0, <2>1, <2>2
    <3> QED BY <2>1, <2>2, <2>3, <3>1, <3>2 DEF SandboxTyped
  <2>6. OnlyReadyBoxes' /\ GoneIsGone'
    BY <2>1, <2>2, <2>3 DEF OnlyReadyBoxes, GoneIsGone
  <2>7. LiveIsQuiet'
    BY <2>1, <2>3, <2>4 DEF LiveIsQuiet, LivePcs
  <2>8. LiveBinding'
    BY <2>1, <2>2, <2>3, <2>4 DEF LiveBinding
  <2>9. OneAnnouncedBox'
    BY <2>1, <2>2, <2>3, <2>4 DEF OneAnnouncedBox
  <2> QED BY <2>5, <2>6, <2>7, <2>8, <2>9
<1>7. CASE SetUp(w)
  <2>1. /\ UNCHANGED <<life, turn, rows, intent, binding, boxes, created, deleter, cached>>
        /\ worker[w].pc = "setup"
    BY <1>7 DEF SetUp, sessionRow, record
  <2>2. CASE worker[w].box \notin boxes
    BY <1>7, <2>1, <2>2, FailsMove DEF SetUp
  <2>3. CASE worker[w].box \in boxes
    <3> DEFINE b == worker[w].box
    <3>1. ready' = ready \cup {b} /\ At(w, "bind", b) /\ UNCHANGED cleanup /\ b \in Nat /\ b \in created
      BY <1>0, <1>7, <2>3 DEF SetUp
    <3>2. /\ worker' \in [Workers -> WorkerType]
          /\ \A q \in Workers : q # w => worker'[q] = worker[q]
          /\ worker'[w].pc = "bind" /\ worker'[w].box = b /\ worker'[w].job = worker[w].job
      BY <3>1, AtWorker DEF WorkerPcs, LivePcs
    <3>3. SandboxTyped'
      BY <1>0, <2>1, <3>1, <3>2 DEF SandboxTyped
    <3>4. OnlyReadyBoxes' /\ GoneIsGone'
      BY <2>1, <3>1, <3>2 DEF OnlyReadyBoxes, GoneIsGone
    <3>5. LiveIsQuiet'
      BY <2>1, <3>1, <3>2 DEF LiveIsQuiet, LivePcs
    <3>6. LiveBinding'
      BY <2>1, <2>3, <3>1, <3>2 DEF LiveBinding
    <3>7. OneAnnouncedBox'
      BY <2>1, <3>1, <3>2 DEF OneAnnouncedBox
    <3> QED BY <3>3, <3>4, <3>5, <3>6, <3>7
  <2> QED BY <2>2, <2>3
<1> QED BY <1>1, <1>2, <1>3, <1>4, <1>5, <1>6, <1>7

\* The election and what follows it.
LEMMA BindStep ==
    ASSUME SandboxInv, NEW w \in Workers,
           \/ PutBinding(w) \/ Bound(w) \/ LoseElection(w) \/ FinishTool(w) \/ ClearBoundIntent(w)
    PROVE  SandboxInv'
<1> USE DEF SandboxInv
<1>0. /\ cached \in [Workers -> Nat] /\ cached[w] \in ready \cup {0} /\ binding \in ready \cup {0}
      /\ life = "live" => cached[w] \in {0, binding}
      /\ life = "live" => worker[w].pc \in LivePcs /\ worker[w].job # "cleanup"
      /\ binding \in Nat /\ created \subseteq Nat /\ 0 \notin created
      /\ ready \subseteq created /\ boxes \subseteq created
      /\ worker[w].pc # "free" => worker[w].job # "none"
  BY SandboxAssumption DEF SandboxTyped, OnlyReadyBoxes, LiveBinding, LiveIsQuiet
<1>1. CASE PutBinding(w)
  <2>1. UNCHANGED <<life, turn, rows, boxes, ready, created, deleter, cached>> /\ worker[w].pc = "bind"
    BY <1>1 DEF PutBinding, sessionRow, provider
  <2>2. CASE life = "gone"
    BY <1>1, <2>1, <2>2, FailsMove DEF PutBinding, record
  <2>3. CASE life # "gone"
    <3> DEFINE b == worker[w].box
    <3>1. b \in ready /\ b \in Nat /\ b # 0 /\ b \in created
      BY <1>0, <2>1 DEF OnlyReadyBoxes
    <3>2. /\ binding' = (IF binding = 0 THEN b ELSE binding) /\ intent' = FALSE /\ UNCHANGED cleanup
      BY <1>1, <2>3 DEF PutBinding
    <3>3. PICK pc \in {"bound", "lost"} : At(w, pc, b) /\ (pc = "bound" <=> binding' = b)
      BY <1>1, <2>3 DEF PutBinding
    <3>4. /\ worker' \in [Workers -> WorkerType]
          /\ \A q \in Workers : q # w => worker'[q] = worker[q]
          /\ worker'[w].pc = pc /\ worker'[w].box = b /\ worker'[w].job = worker[w].job
      BY <3>1, <3>3, AtWorker DEF WorkerPcs, LivePcs
    <3>5. SandboxTyped'
      BY <1>0, <2>1, <3>1, <3>2, <3>4 DEF SandboxTyped
    <3>6. OnlyReadyBoxes' /\ GoneIsGone'
      BY <1>0, <2>1, <2>3, <3>1, <3>2, <3>4 DEF OnlyReadyBoxes, GoneIsGone
    <3>7. LiveIsQuiet'
      BY <2>1, <3>2, <3>4 DEF LiveIsQuiet, LivePcs
    <3>8. LiveBinding'
      <4> SUFFICES ASSUME life = "live"
                   PROVE  /\ binding' \in boxes \cup {0}
                          /\ \A q \in Workers :
                               /\ cached[q] \in {0, binding'}
                               /\ worker'[q].pc \in {"attach", "bound", "using"} => worker'[q].box = binding'
                               /\ worker'[q].pc = "lost" => binding' \notin {0, worker'[q].box}
                               /\ worker'[q].pc \in {"setup", "bind"} /\ binding' = 0 => worker'[q].box \in boxes
        BY <2>1 DEF LiveBinding
      <4>1. binding' # 0 /\ binding' \in boxes
        BY <2>1, <3>1, <3>2 DEF LiveBinding
      <4>2. ASSUME NEW q \in Workers, binding = 0, worker[q].pc \in {"attach", "bound", "using", "lost"} PROVE FALSE
        BY <1>0, <4>2 DEF LiveBinding, OnlyReadyBoxes
      <4>3. ASSUME NEW q \in Workers, q # w
            PROVE  /\ worker'[q].pc \in {"attach", "bound", "using"} => worker'[q].box = binding'
                   /\ worker'[q].pc = "lost" => binding' \notin {0, worker'[q].box}
        BY <3>2, <3>4, <4>2, <4>3 DEF LiveBinding
      <4>4. \A q \in Workers : cached[q] \in {0, binding'}
        BY <3>2 DEF LiveBinding
      <4> QED BY <3>3, <3>4, <4>1, <4>3, <4>4
    <3>9. OneAnnouncedBox'
      BY <2>1, <3>1, <3>2 DEF OneAnnouncedBox
    <3> QED BY <3>5, <3>6, <3>7, <3>8, <3>9
  <2> QED BY <2>2, <2>3
<1>2. CASE Bound(w)
  <2>1. /\ UNCHANGED <<life, turn, rows, intent, binding, boxes, ready, created, cleanup, deleter>>
        /\ worker[w].pc = "bound" /\ Acquired(w, worker[w].box)
    BY <1>2 DEF Bound, sessionRow, record, provider, others
  <2>2. worker[w].box \in ready /\ (life = "live" => worker[w].box = binding)
    BY <2>1 DEF OnlyReadyBoxes, LiveBinding
  <2> QED BY <2>1, <2>2, AcquiredMove
<1>3. CASE LoseElection(w)
  <2>1. /\ UNCHANGED <<life, turn, rows, intent, binding, ready, created, deleter, cached>>
        /\ worker[w].pc = "lost" /\ boxes' = boxes \ {worker[w].box}
    BY <1>3 DEF LoseElection, sessionRow, record
  <2>2. life = "live" => binding \notin {0, worker[w].box}
    BY <2>1 DEF LiveBinding
  <2>3. /\ worker' \in [Workers -> WorkerType]
        /\ \A q \in Workers : q # w => worker'[q] = worker[q]
        /\ worker'[w].pc \in {"attach", "free"}
        /\ worker'[w].pc = "attach" => worker'[w].box = binding /\ binding # 0 /\ worker'[w].job = worker[w].job
        /\ worker'[w].pc = "free" => worker'[w].box = 0 /\ worker'[w].job = "none"
        /\ cleanup' \in {"none", "due"} \cup Workers /\ (life = "live" => cleanup' = cleanup)
    <3>1. CASE binding # 0
      <4>1. At(w, "attach", binding) /\ UNCHANGED cleanup
        BY <1>3, <3>1 DEF LoseElection
      <4>2. cleanup \in {"none", "due"} \cup Workers
        BY DEF SandboxTyped
      <4>3. /\ worker' \in [Workers -> WorkerType]
            /\ \A q \in Workers : q # w => worker'[q] = worker[q]
            /\ worker'[w].pc = "attach" /\ worker'[w].box = binding /\ worker'[w].job = worker[w].job
        BY <1>0, <4>1, AtWorker DEF WorkerPcs, LivePcs
      <4> QED BY <3>1, <4>1, <4>2, <4>3
    <3>2. CASE binding = 0
      <4>1. worker' = [worker EXCEPT ![w] = Free] /\ cleanup' = Retried(w)
        BY <1>3, <3>2 DEF LoseElection, Fails
      <4>2. cleanup' \in {"none", "due"} \cup Workers
        BY <4>1 DEF Retried, SandboxTyped
      <4> QED BY <2>2, <3>2, <4>1, <4>2, FreeWorker
    <3> QED BY <3>1, <3>2
  <2>4. SandboxTyped'
    BY <1>0, <2>1, <2>3 DEF SandboxTyped
  <2>5. OnlyReadyBoxes' /\ GoneIsGone'
    BY <1>0, <2>1, <2>3 DEF OnlyReadyBoxes, GoneIsGone
  <2>6. LiveIsQuiet'
    BY <2>1, <2>3 DEF LiveIsQuiet, LivePcs
  <2>7. LiveBinding'
    BY <2>1, <2>2, <2>3 DEF LiveBinding
  <2>8. OneAnnouncedBox'
    BY <2>1, <2>2 DEF OneAnnouncedBox
  <2> QED BY <2>4, <2>5, <2>6, <2>7, <2>8
<1>4. CASE FinishTool(w)
  <2>1. /\ UNCHANGED <<life, turn, rows, intent, binding, boxes, ready, created, cleanup, deleter, cached>>
        /\ worker' = [worker EXCEPT ![w] = Free]
    BY <1>4 DEF FinishTool, sessionRow, record, provider, others
  <2>2. /\ worker' \in [Workers -> WorkerType]
        /\ \A q \in Workers : q # w => worker'[q] = worker[q]
        /\ worker'[w].pc = "free" /\ worker'[w].box = 0 /\ worker'[w].job = "none"
    BY <2>1, FreeWorker
  <2> QED BY <1>0, <2>1, <2>2, Moves DEF LivePcs
<1>5. CASE ClearBoundIntent(w)
  <2>1. /\ UNCHANGED <<life, turn, rows, binding, boxes, ready, created, cleanup, deleter, cached>>
        /\ worker' = [worker EXCEPT ![w] = Free]
        /\ intent' \in BOOLEAN /\ (binding = 0 => intent' = intent) /\ (intent' => intent)
    BY <1>5 DEF ClearBoundIntent, sessionRow, provider, others, SandboxTyped
  <2>2. /\ worker' \in [Workers -> WorkerType]
        /\ \A q \in Workers : q # w => worker'[q] = worker[q]
        /\ worker'[w].pc = "free" /\ worker'[w].box = 0 /\ worker'[w].job = "none"
    BY <2>1, FreeWorker
  <2>3. SandboxTyped'
    BY <2>1, <2>2 DEF SandboxTyped
  <2>4. OnlyReadyBoxes' /\ GoneIsGone'
    BY <2>1, <2>2 DEF OnlyReadyBoxes, GoneIsGone
  <2>5. LiveIsQuiet' /\ LiveBinding'
    BY <2>1, <2>2 DEF LiveIsQuiet, LiveBinding, LivePcs
  <2>6. OneAnnouncedBox'
    BY <2>1, <2>2 DEF OneAnnouncedBox
  <2> QED BY <2>3, <2>4, <2>5, <2>6
<1> QED BY <1>1, <1>2, <1>3, <1>4, <1>5

\* A release, which only a Session that is being deleted sees.
LEMMA ReleaseStep ==
    ASSUME SandboxInv, NEW w \in Workers,
           \/ Release(w) \/ ReattachForRelease(w) \/ DestroyBox(w) \/ DeleteBinding(w)
           \/ DeleteIntent(w) \/ Released(w)
    PROVE  SandboxInv'
<1> USE DEF SandboxInv
<1>0. /\ life # "live" /\ worker[w].pc # "free"
  <2>1. worker[w].pc \notin LivePcs
    BY DEF Release, ReattachForRelease, DestroyBox, DeleteBinding, DeleteIntent, Released, LivePcs
  <2> QED BY <2>1 DEF LiveIsQuiet, LivePcs
<1>1. /\ cached \in [Workers -> Nat] /\ cached[w] \in ready \cup {0} /\ binding \in ready \cup {0}
      /\ binding \in Nat /\ created \subseteq Nat /\ 0 \notin created /\ ready \subseteq created
      /\ worker[w].box \in created \cup {0} /\ worker[w].job # "none"
  BY <1>0, SandboxAssumption DEF SandboxTyped, OnlyReadyBoxes
\* what is left to show of a step that moves the worker along the release
<1>2. ASSUME UNCHANGED <<life, turn, rows, ready, created>>,
             boxes' \subseteq boxes, binding' \in {0, binding}, intent' \in {FALSE, intent},
             cleanup' \in {"none", "due"} \cup Workers,
             deleter' \in [Deleters -> {"idle", "terminate", "waiting", "rows"}],
             cached' \in [Workers -> Nat], cached'[w] \in {0, cached[w]},
             worker' \in [Workers -> WorkerType],
             \A q \in Workers : q # w => worker'[q] = worker[q] /\ cached'[q] = cached[q],
             worker'[w].box \in created \cup {0},
             worker'[w].pc # "free" => worker'[w].job # "none",
             worker'[w].pc \notin {"bind", "attach", "bound", "using"}
      PROVE  SandboxInv'
  <2>1. intent' \in BOOLEAN
    BY <1>2 DEF SandboxTyped
  <2>2. SandboxTyped'
    BY <1>1, <1>2, <2>1 DEF SandboxTyped
  <2>3. OnlyReadyBoxes'
    BY <1>1, <1>2 DEF OnlyReadyBoxes
  <2>4. GoneIsGone'
    BY <1>2 DEF GoneIsGone
  <2>5. OneAnnouncedBox'
    BY <1>0, <1>2 DEF OneAnnouncedBox
  <2> QED BY <1>0, <1>2, <2>2, <2>3, <2>4, <2>5 DEF LiveIsQuiet, LiveBinding
<1>3. /\ boxes \subseteq boxes /\ intent \in BOOLEAN /\ cleanup \in {"none", "due"} \cup Workers
      /\ deleter \in [Deleters -> {"idle", "terminate", "waiting", "rows"}]
  BY DEF SandboxTyped
<1>4. ASSUME NEW pc \in WorkerPcs \ {"free", "bind", "attach", "bound", "using"},
             NEW b \in created \cup {0}, At(w, pc, b)
      PROVE  /\ worker' \in [Workers -> WorkerType]
             /\ \A q \in Workers : q # w => worker'[q] = worker[q]
             /\ worker'[w].box \in created \cup {0} /\ worker'[w].job # "none"
             /\ worker'[w].pc \notin {"bind", "attach", "bound", "using"}
  <2>1. b \in Nat /\ pc \in WorkerPcs
    <3> HIDE DEF SandboxInv
    <3>1. created \subseteq Nat
      BY <1>1
    <3>2. b \in Nat
      BY <3>1
    <3> QED BY <3>2
  <2> QED BY <1>1, <1>4, <2>1, AtWorker
<1>5. CASE Release(w)
  <2>1. /\ UNCHANGED <<life, turn, rows, intent, binding, boxes, ready, created, cleanup, deleter>>
        /\ cached' = [cached EXCEPT ![w] = 0]
    BY <1>5 DEF Release, sessionRow, record, provider, others
  <2>2. \E pc \in {"unbox", "reattach", "refind", "discard", "released"}, b \in {0, cached[w], binding} : At(w, pc, b)
    BY <1>5 DEF Release
  <2>3. /\ worker' \in [Workers -> WorkerType]
        /\ \A q \in Workers : q # w => worker'[q] = worker[q]
        /\ worker'[w].box \in created \cup {0} /\ worker'[w].job # "none"
        /\ worker'[w].pc \notin {"bind", "attach", "bound", "using"}
    BY <1>1, <1>4, <2>2 DEF WorkerPcs
  <2> QED BY <1>1, <1>2, <1>3, <2>1, <2>3
<1>6. CASE ReattachForRelease(w)
  <2>1. UNCHANGED <<life, turn, rows, intent, binding, boxes, ready, created, cleanup, deleter, cached>>
    BY <1>6 DEF ReattachForRelease, sessionRow, record, provider, others
  <2>2. \E pc \in {"unbox", "unbind"} : At(w, pc, worker[w].box)
    BY <1>6 DEF ReattachForRelease
  <2>3. /\ worker' \in [Workers -> WorkerType]
        /\ \A q \in Workers : q # w => worker'[q] = worker[q]
        /\ worker'[w].box \in created \cup {0} /\ worker'[w].job # "none"
        /\ worker'[w].pc \notin {"bind", "attach", "bound", "using"}
    BY <1>1, <1>4, <2>2 DEF WorkerPcs
  <2> QED BY <1>1, <1>2, <1>3, <2>1, <2>3
<1>7. CASE DestroyBox(w)
  <2>1. /\ UNCHANGED <<life, turn, rows, intent, binding, ready, created, cleanup, deleter, cached>>
        /\ boxes' \subseteq boxes
    BY <1>7 DEF DestroyBox, sessionRow, record, others
  <2>2. \E pc \in {"unbind", "unintend", "released"} : At(w, pc, worker[w].box)
    BY <1>7 DEF DestroyBox
  <2>3. /\ worker' \in [Workers -> WorkerType]
        /\ \A q \in Workers : q # w => worker'[q] = worker[q]
        /\ worker'[w].box \in created \cup {0} /\ worker'[w].job # "none"
        /\ worker'[w].pc \notin {"bind", "attach", "bound", "using"}
    BY <1>1, <1>4, <2>2 DEF WorkerPcs
  <2> QED BY <1>1, <1>2, <1>3, <2>1, <2>3
<1>8. CASE DeleteBinding(w)
  <2>1. UNCHANGED <<life, turn, rows, intent, boxes, ready, created, deleter, cached>>
    BY <1>8 DEF DeleteBinding, sessionRow, provider
  <2>2. CASE binding \in {0, worker[w].box}
    <3>1. binding' = 0 /\ At(w, "unintend", worker[w].box) /\ UNCHANGED cleanup
      BY <1>8, <2>2 DEF DeleteBinding
    <3>2. /\ worker' \in [Workers -> WorkerType]
          /\ \A q \in Workers : q # w => worker'[q] = worker[q]
          /\ worker'[w].box \in created \cup {0} /\ worker'[w].job # "none"
          /\ worker'[w].pc \notin {"bind", "attach", "bound", "using"}
      BY <1>1, <1>4, <3>1 DEF WorkerPcs
    <3> QED BY <1>1, <1>2, <1>3, <2>1, <3>1, <3>2
  <2>3. CASE binding \notin {0, worker[w].box}
    BY <1>8, <2>1, <2>3, FailsMove DEF DeleteBinding
  <2> QED BY <2>2, <2>3
<1>9. CASE DeleteIntent(w)
  <2>1. UNCHANGED <<life, turn, rows, binding, boxes, ready, created, cleanup, deleter, cached>> /\ intent' = FALSE
    BY <1>9 DEF DeleteIntent, sessionRow, provider, others
  <2>2. At(w, "released", worker[w].box)
    BY <1>9 DEF DeleteIntent
  <2>3. /\ worker' \in [Workers -> WorkerType]
        /\ \A q \in Workers : q # w => worker'[q] = worker[q]
        /\ worker'[w].box \in created \cup {0} /\ worker'[w].job # "none"
        /\ worker'[w].pc \notin {"bind", "attach", "bound", "using"}
    BY <1>1, <1>4, <2>2 DEF WorkerPcs
  <2> QED BY <1>1, <1>2, <1>3, <2>1, <2>3
<1>10. CASE Released(w)
  <2>1. /\ UNCHANGED <<life, turn, rows, intent, binding, boxes, ready, created, cached>>
        /\ worker' = [worker EXCEPT ![w] = Free]
    BY <1>10 DEF Released, sessionRow, record, provider
  <2>2. /\ cleanup' \in {"none", "due"} \cup Workers
        /\ deleter' \in [Deleters -> {"idle", "terminate", "waiting", "rows"}]
    BY <1>3, <1>10 DEF Released
  <2>3. /\ worker' \in [Workers -> WorkerType]
        /\ \A q \in Workers : q # w => worker'[q] = worker[q]
        /\ worker'[w].pc = "free" /\ worker'[w].box = 0 /\ worker'[w].job = "none"
    BY <2>1, FreeWorker
  <2> QED BY <1>1, <1>2, <1>3, <2>1, <2>2, <2>3
<1> QED BY <1>5, <1>6, <1>7, <1>8, <1>9, <1>10

\* The deletion of the Session.
LEMMA DeletionStep ==
    ASSUME SandboxInv,
           \/ EndToolTurn \/ PrepareSessionDeletion \/ ResumeDeletion
           \/ \E d \in Deleters : DeleterStep(d) \/ FailDeleter(d)
    PROVE  SandboxInv'
<1> USE DEF SandboxInv
<1>1. UNCHANGED <<intent, binding, boxes, ready, created, worker, cached>>
  BY DEF EndToolTurn, PrepareSessionDeletion, ResumeDeletion, DeleterStep, FailDeleter, TerminateSession,
         CleanupRow, FinalizeSessionDeletion, record, provider
<1>2. CASE EndToolTurn
  <2>1. UNCHANGED <<life, rows, cleanup, deleter>> /\ turn' \in BOOLEAN
    BY <1>2 DEF EndToolTurn, others
  <2> QED BY <1>1, <2>1 DEF SandboxTyped, OnlyReadyBoxes, GoneIsGone, LiveIsQuiet, LiveBinding, OneAnnouncedBox
\* the other steps are of a Session that is being deleted
<1>3. ASSUME life' \in {"deleting", "gone"}, turn' = turn, rows' \subseteq rows,
             cleanup' \in {"none", "due"} \cup Workers,
             deleter' \in [Deleters -> {"idle", "terminate", "waiting", "rows"}],
             life' = "gone" => binding = 0 /\ ~intent /\ rows' = {}
      PROVE  SandboxInv'
  <2>1. SandboxTyped'
    BY <1>1, <1>3 DEF SandboxTyped
  <2>2. OnlyReadyBoxes' /\ GoneIsGone'
    BY <1>1, <1>3 DEF OnlyReadyBoxes, GoneIsGone
  <2>3. OneAnnouncedBox'
    BY <1>1, <1>3 DEF OneAnnouncedBox
  <2> QED BY <1>3, <2>1, <2>2, <2>3 DEF LiveIsQuiet, LiveBinding
<1>4. /\ life \in {"live", "deleting", "gone"} /\ cleanup \in {"none", "due"} \cup Workers
      /\ deleter \in [Deleters -> {"idle", "terminate", "waiting", "rows"}]
      /\ life = "gone" => binding = 0 /\ ~intent /\ rows = {}
      /\ \A d \in Deleters : deleter[d] # "idle" => life # "live"
  BY DEF SandboxTyped, GoneIsGone, LiveIsQuiet
<1>5. CASE PrepareSessionDeletion
  <2>1. life' = "deleting" /\ UNCHANGED <<turn, rows, cleanup>> /\ deleter' = [deleter EXCEPT !["api"] = "terminate"]
    BY <1>5 DEF PrepareSessionDeletion
  <2> QED BY <1>3, <1>4, <2>1
<1>6. CASE ResumeDeletion
  <2>1. /\ life = "deleting" /\ UNCHANGED <<life, turn, rows, cleanup>>
        /\ deleter' = [deleter EXCEPT !["reconciler"] = "terminate"]
    BY <1>6 DEF ResumeDeletion, sessionRow
  <2> QED BY <1>3, <1>4, <2>1
<1>7. ASSUME NEW d \in Deleters, TerminateSession(d) PROVE SandboxInv'
  <2>1. /\ deleter[d] # "idle" /\ UNCHANGED <<life, turn, rows>> /\ cleanup' \in {"due", cleanup}
        /\ deleter' = [deleter EXCEPT ![d] = "waiting"]
    BY <1>7 DEF TerminateSession, sessionRow
  <2> QED BY <1>3, <1>4, <2>1
<1>8. ASSUME NEW d \in Deleters, CleanupRow(d) PROVE SandboxInv'
  <2>1. deleter[d] # "idle" /\ UNCHANGED <<life, turn, cleanup, deleter>> /\ rows' \subseteq rows
    BY <1>8 DEF CleanupRow, others
  <2> QED BY <1>3, <1>4, <2>1
<1>9. ASSUME NEW d \in Deleters, FinalizeSessionDeletion(d) PROVE SandboxInv'
  <2>1. /\ deleter[d] # "idle" /\ UNCHANGED <<turn, rows, cleanup>> /\ rows = {}
        /\ life' = IF binding = 0 /\ ~intent THEN "gone" ELSE life
        /\ deleter' = [deleter EXCEPT ![d] = "idle"]
    BY <1>9 DEF FinalizeSessionDeletion
  <2> QED BY <1>3, <1>4, <2>1
<1>10. ASSUME NEW d \in Deleters, FailDeleter(d) PROVE SandboxInv'
  <2>1. /\ deleter[d] # "idle" /\ UNCHANGED <<life, turn, rows, cleanup>>
        /\ deleter' = [deleter EXCEPT ![d] = "idle"]
    BY <1>10 DEF FailDeleter, sessionRow
  <2> QED BY <1>3, <1>4, <2>1
<1> QED BY <1>2, <1>5, <1>6, <1>7, <1>8, <1>9, <1>10 DEF DeleterStep

\* Every step of workers, deleters and clients keeps the invariant.
LEMMA SandboxStep == SandboxInv /\ [SandboxNext]_sandboxVars => SandboxInv'
<1> SUFFICES ASSUME SandboxInv, [SandboxNext]_sandboxVars PROVE SandboxInv'
  OBVIOUS
<1>1. ASSUME NEW w \in Workers, FailWorker(w) PROVE SandboxInv'
  <2>1. /\ UNCHANGED <<life, turn, rows, intent, binding, boxes, ready, created, deleter>>
        /\ Fails(w) /\ (cached' = cached \/ cached' = [cached EXCEPT ![w] = 0])
    BY <1>1 DEF FailWorker, sessionRow, record, provider
  <2> QED BY <2>1, FailsMove
<1>2. CASE UNCHANGED sandboxVars
  BY <1>2 DEF sandboxVars, SandboxInv, SandboxTyped, OnlyReadyBoxes, GoneIsGone, LiveIsQuiet, LiveBinding,
              OneAnnouncedBox
<1>3. ASSUME NEW w \in Workers, WorkerStep(w) PROVE SandboxInv'
  BY <1>3, AcquireStep, BindStep, ReleaseStep DEF WorkerStep
<1> QED BY <1>1, <1>2, <1>3, StartStep, DeletionStep DEF SandboxNext

\* The tables of a sandbox hold what they may, boxes are named once they are
\* created, and nothing of a deleted Session is left, for any number of workers,
\* deleters and boxes.
THEOREM SandboxTypes == SandboxSpec => []SandboxTypeOK
<1>1. SandboxInv => SandboxTypeOK
  <2> SUFFICES ASSUME SandboxInv PROVE SandboxTypeOK
    OBVIOUS
  <2>1. /\ binding \in created \cup {0} /\ \A w \in Workers : cached[w] \in created \cup {0}
    BY DEF SandboxInv, SandboxTyped, OnlyReadyBoxes
  <2> QED BY <2>1 DEF SandboxInv, SandboxTyped, GoneIsGone, SandboxTypeOK
<1> QED BY <1>1, SandboxInitInv, SandboxStep, PTL DEF SandboxSpec

\* Every tool of a live Session works in the one box that is bound, which exists
\* and has been set up, whatever workers race to provision it.
THEOREM ToolsShare == SandboxSpec => []ToolsShareTheBoundBox
<1>1. SandboxInv => ToolsShareTheBoundBox
  <2> SUFFICES ASSUME SandboxInv, NEW w \in Workers, worker[w].pc = "using"
               PROVE  /\ worker[w].box \in ready
                      /\ life = "live" => worker[w].box = binding /\ binding \in boxes
    BY DEF ToolsShareTheBoundBox
  <2>1. worker[w].box \in ready /\ 0 \notin ready
    BY SandboxAssumption DEF SandboxInv, OnlyReadyBoxes, SandboxTyped
  <2> QED BY <2>1 DEF SandboxInv, LiveBinding
<1> QED BY <1>1, SandboxInitInv, SandboxStep, PTL DEF SandboxSpec

\* Where the provider lets one box have a name, no box of a live Session is left
\* without a record that leads to it: it is bound, or an intent announces it.
THEOREM OrphanFree == SandboxSpec => [](UniqueNames => NoOrphanBox)
<1>1. SandboxInv => (UniqueNames => NoOrphanBox)
  BY DEF SandboxInv, LiveBinding, OneAnnouncedBox, NoOrphanBox
<1> QED BY <1>1, SandboxInitInv, SandboxStep, PTL DEF SandboxSpec

=============================================================================
