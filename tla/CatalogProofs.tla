---------------------------- MODULE CatalogProofs ----------------------------
(***************************************************************************)
(* Proofs about the catalogue and the lists of the API.  What a call read  *)
(* before its transaction is decided again inside it, for every number of  *)
(* Agents, clients, versions and calls: the inductive invariant says of    *)
(* every call in progress what the locks it holds and the checks it has    *)
(* made are still worth.  What a walk of a list still owes the client lies *)
(* ahead of its cursor, however the rows change and the pages are cut.     *)
(***************************************************************************)
EXTENDS Catalog, Listing, FiniteSetTheorems, WellFoundedInduction, TLAPS

VersionType == [geo : Geos, roster : SUBSET (AgentIds \X Nat), archived : BOOLEAN]
Rows == (AgentIds \X Nat) \cup {EnvRow}

CallPcs == {"idle", "read", "resolve", "select", "wait", "update", "put", "archive", "archiving",
            "write", "delete", "environment", "roster", "lockAgent", "lockRoster", "insert"}

CallType ==
    [op : {"none", "create", "update", "archive", "environment", "session"}, pc : CallPcs,
     agent : AgentIds \cup {"none"}, geo : Geos \cup {"kept"},
     roster : {<<>>} \cup {<<s>> : s \in SUBSET AgentIds}, refs : SUBSET (AgentIds \X Nat),
     seen : Nat, expected : Nat, rows : Nat, held : SUBSET (Rows \X {"share", "update"})]

EnvironmentType ==
    [state : {"absent", "active", "archived", "deleted"}, body : Nat, frozen : Nat]

\* which steps each kind of call takes
StepsOf(op) ==
    CASE op = "none" -> {"idle"}
      [] op = "create" -> {"resolve", "put"}
      [] op = "update" -> {"read", "resolve", "select", "wait", "update"}
      [] op = "archive" -> {"select", "wait", "archive", "archiving"}
      [] op = "environment" -> {"write", "delete"}
      [] op = "session" -> {"environment", "roster", "lockAgent", "lockRoster", "insert"}

CatTyped ==
    /\ agents \in [AgentIds -> Seq(VersionType)]
    /\ call \in [CatalogClients -> CallType]
    /\ admitted \in Seq(BOOLEAN) /\ environment \in EnvironmentType

StepOfCall(k) ==
    /\ k.pc \in StepsOf(k.op)
    /\ k.op \in {"create", "update", "archive", "session"} => k.agent \in AgentIds
    /\ k.pc \in {"read", "resolve"} => k.roster # <<>>

\* a call that creates an Agent has its id to itself
CreatorAlone(c) ==
    call[c].op = "create" =>
        /\ agents[call[c].agent] = <<>> /\ call[c].geo \in Geos
        /\ \A d \in CatalogClients \ {c} : call[d].op = "create" => call[d].agent # call[c].agent

\* what was resolved before the lock: members of a model in geo without a roster
MembersResolved(refs, a, geo) ==
    \A r \in refs : r[1] # a =>
        Exists(r) /\ agents[r[1]][r[2]].geo = geo /\ agents[r[1]][r[2]].roster = {}

PatchedGeo(k) == IF k.geo = "kept" THEN agents[k.agent][k.expected].geo ELSE k.geo

CreateResolved(k) == 
    k.op = "create" /\ k.pc = "put" => 
       MembersResolved(k.refs, k.agent, k.geo) /\ \A r \in k.refs : r[1] = k.agent => r[2] = 1

UpdateResolved(k) ==
    k.op = "update" =>
        /\ agents[k.agent] # <<>>
        /\ k.pc = "resolve" => k.expected = k.seen /\ k.seen \in 1..LatestVersion(k.agent)
        /\ k.pc \in {"wait", "update"} => k.seen \in 1..LatestVersion(k.agent)
        /\ k.pc \in {"select", "wait", "update"} /\ k.refs # {} =>
             /\ k.expected \in 1..LatestVersion(k.agent)
             /\ MembersResolved(k.refs, k.agent, PatchedGeo(k))

\* the rows a Session creation has locked stay active until it ends
StillThere(row) == IF row = EnvRow THEN EnvActive ELSE ActiveVersion(row)

RowsOf(k) == {r \in agents[k.agent][k.seen].roster : r[1] # k.agent}

SessionLocked(k) ==
    k.op = "session" =>
        /\ Exists(<<k.agent, k.seen>>)
        /\ \A h \in k.held : StillThere(h[1])
        /\ k.pc \in {"lockRoster", "insert"} => <<<<k.agent, k.seen>>, "share">> \in k.held
        /\ k.pc = "insert" =>
             /\ <<EnvRow, "share">> \in k.held
             /\ \A r \in RowsOf(k) : <<r, "share">> \in k.held

RostersExist ==
    \A a \in AgentIds : \A v \in 1..LatestVersion(a) : \A r \in agents[a][v].roster : Exists(r)

CallSound(c) ==
    /\ StepOfCall(call[c]) /\ CreatorAlone(c) /\ CreateResolved(call[c])
    /\ UpdateResolved(call[c]) /\ SessionLocked(call[c])

CatalogInv ==
    /\ CatTyped /\ RostersExist /\ ReadsAreRechecked
    /\ \A c \in CatalogClients : CallSound(c)

\* the call k after a step that changes some of these fields
Changed(k, pc, refs, seen, expected, locked, held) ==
    [op |-> k.op, pc |-> pc, agent |-> k.agent, geo |-> k.geo, roster |-> k.roster, refs |-> refs,
     seen |-> seen, expected |-> expected, rows |-> locked, held |-> held]

\* One field of a call at a time, and then another.
LEMMA CallFields ==
    ASSUME NEW k \in CallType
    PROVE  /\ \A pc : [k EXCEPT !.pc = pc] = Changed(k, pc, k.refs, k.seen, k.expected, k.rows, k.held)
           /\ \A pc, held : [k EXCEPT !.pc = pc, !.held = @ \cup held]
                = Changed(k, pc, k.refs, k.seen, k.expected, k.rows, k.held \cup held)
           /\ \A pc, refs : [k EXCEPT !.pc = pc, !.refs = refs]
                = Changed(k, pc, refs, k.seen, k.expected, k.rows, k.held)
           /\ \A pc, v : [k EXCEPT !.pc = pc, !.seen = v]
                = Changed(k, pc, k.refs, v, k.expected, k.rows, k.held)
           /\ \A pc, n : [k EXCEPT !.pc = pc, !.rows = n]
                = Changed(k, pc, k.refs, k.seen, k.expected, n, k.held)
  <1> DEFINE P(pc) == Changed(k, pc, k.refs, k.seen, k.expected, k.rows, k.held)
  <1>1. \A pc : [k EXCEPT !.pc = pc] = P(pc)
    BY DEF Changed, CallType
  <1>2. ASSUME NEW pc, NEW held
       PROVE  [k EXCEPT !.pc = pc, !.held = @ \cup held]
           = Changed(k, pc, k.refs, k.seen, k.expected, k.rows, k.held \cup held)
    <2>1. [k EXCEPT !.pc = pc, !.held = @ \cup held]
            = [[k EXCEPT !.pc = pc] EXCEPT !.held = @ \cup held]
      BY DEF CallType
    <2>2. [P(pc) EXCEPT !.held = @ \cup held]
            = Changed(k, pc, k.refs, k.seen, k.expected, k.rows, k.held \cup held)
      BY DEF Changed
    <2> QED BY <1>1, <2>1, <2>2, Zenon
  <1>3. ASSUME NEW pc, NEW refs
       PROVE  [k EXCEPT !.pc = pc, !.refs = refs]
           = Changed(k, pc, refs, k.seen, k.expected, k.rows, k.held)
    <2>1. [k EXCEPT !.pc = pc, !.refs = refs] = [[k EXCEPT !.pc = pc] EXCEPT !.refs = refs]
      BY DEF CallType
    <2>2. [P(pc) EXCEPT !.refs = refs] = Changed(k, pc, refs, k.seen, k.expected, k.rows, k.held)
      BY DEF Changed
    <2> QED BY <1>1, <2>1, <2>2, Zenon
  <1>4. ASSUME NEW pc, NEW v
       PROVE  [k EXCEPT !.pc = pc, !.seen = v] = Changed(k, pc, k.refs, v, k.expected, k.rows, k.held)
    <2>1. [k EXCEPT !.pc = pc, !.seen = v] = [[k EXCEPT !.pc = pc] EXCEPT !.seen = v]
      BY DEF CallType
    <2>2. [P(pc) EXCEPT !.seen = v] = Changed(k, pc, k.refs, v, k.expected, k.rows, k.held)
      BY DEF Changed
    <2> QED BY <1>1, <2>1, <2>2, Zenon
  <1>5. ASSUME NEW pc, NEW n
       PROVE  [k EXCEPT !.pc = pc, !.rows = n] = Changed(k, pc, k.refs, k.seen, k.expected, n, k.held)
    <2>1. [k EXCEPT !.pc = pc, !.rows = n] = [[k EXCEPT !.pc = pc] EXCEPT !.rows = n]
      BY DEF CallType
    <2>2. [P(pc) EXCEPT !.rows = n] = Changed(k, pc, k.refs, k.seen, k.expected, n, k.held)
      BY DEF Changed
    <2> QED BY <1>1, <2>1, <2>2, Zenon
  <1> HIDE DEF P
  <1> QED BY <1>1, <1>2, <1>3, <1>4, <1>5 DEF P

\* client c turns to the call k and the others stay where they are
Turns(c, k) == call' = [call EXCEPT ![c] = k]

\* versions are added, and none changes its model or its roster
AgentsGrow ==
    /\ agents' \in [AgentIds -> Seq(VersionType)]
    /\ \A a \in AgentIds :
         /\ LatestVersion(a) <= LatestVersion(a)'
         /\ \A v \in 1..LatestVersion(a) :
              agents'[a][v].geo = agents[a][v].geo /\ agents'[a][v].roster = agents[a][v].roster

\* What the assignments to a call leave.
LEMMA CallUpdates ==
    ASSUME CatTyped, NEW c \in CatalogClients
    PROVE  LET k == call[c]
           IN  /\ \A pc : [call EXCEPT ![c].pc = pc] = [call EXCEPT ![c] = [k EXCEPT !.pc = pc]]
               /\ \A pc, held : [call EXCEPT ![c].pc = pc, ![c].held = @ \cup held]
                    = [call EXCEPT ![c] = [k EXCEPT !.pc = pc, !.held = k.held \cup held]]
               /\ \A pc, v, e : [call EXCEPT ![c].pc = pc, ![c].seen = v, ![c].expected = e]
                    = [call EXCEPT ![c] = [k EXCEPT !.pc = pc, !.seen = v, !.expected = e]]
               /\ \A pc, refs : [call EXCEPT ![c].pc = pc, ![c].refs = refs]
                    = [call EXCEPT ![c] = [k EXCEPT !.pc = pc, !.refs = refs]]
               /\ \A pc, v : [call EXCEPT ![c].pc = pc, ![c].seen = v]
                    = [call EXCEPT ![c] = [k EXCEPT !.pc = pc, !.seen = v]]
               /\ \A pc, n : [call EXCEPT ![c].pc = pc, ![c].rows = n]
                    = [call EXCEPT ![c] = [k EXCEPT !.pc = pc, !.rows = n]]
  BY DEF CatTyped

\* A call that does not move stays sound while versions are added, as long as
\* the id it creates is free and the rows it holds are active.
LEMMA OtherCalls ==
    ASSUME CatTyped, RostersExist, AgentsGrow,
           NEW d \in CatalogClients, CallSound(d), call'[d] = call[d],
           call[d].op = "create" => agents'[call[d].agent] = <<>>,
           \A e \in CatalogClients \ {d} :
             call[d].op = "create" /\ call'[e].op = "create" => call'[e].agent # call[d].agent,
           call[d].op = "session" => \A h \in call[d].held : StillThere(h[1])'
    PROVE  CallSound(d)'
  <1>1. call[d] \in CallType
    BY DEF CatTyped
  <1>2. \A r \in AgentIds \X Nat : Exists(r) =>
          /\ Exists(r)' /\ agents'[r[1]][r[2]].geo = agents[r[1]][r[2]].geo
          /\ agents'[r[1]][r[2]].roster = agents[r[1]][r[2]].roster
    BY DEF AgentsGrow, Exists, LatestVersion, CatTyped
  <1>3. StepOfCall(call[d])'
    BY DEF CallSound, StepOfCall, StepsOf
  <1>4. CreatorAlone(d)'
    BY DEF CallSound, CreatorAlone
  <1>5. CreateResolved(call[d])'
    BY <1>1, <1>2 DEF CallSound, CreateResolved, MembersResolved, CallType
  <1>6. UpdateResolved(call[d])'
    <2>1. SUFFICES ASSUME call[d].op = "update" PROVE UpdateResolved(call[d])'
      BY DEF UpdateResolved
    <2>2. UpdateResolved(call[d]) /\ call[d].agent \in AgentIds
      BY <2>1 DEF CallSound, StepOfCall
    <2>3. /\ LatestVersion(call[d].agent) <= LatestVersion(call[d].agent)'
          /\ LatestVersion(call[d].agent) \in Nat /\ LatestVersion(call[d].agent)' \in Nat
      BY <2>2 DEF AgentsGrow, LatestVersion, CatTyped
    <2>4. agents'[call[d].agent] # <<>>
      BY <2>1, <2>2, <2>3 DEF UpdateResolved, LatestVersion, CatTyped, AgentsGrow
    <2>5. call[d].expected \in 1..LatestVersion(call[d].agent) => PatchedGeo(call[d])' = PatchedGeo(call[d])
      BY <2>2 DEF PatchedGeo, AgentsGrow
    <2>6. \A geo : MembersResolved(call[d].refs, call[d].agent, geo) =>
                    MembersResolved(call[d].refs, call[d].agent, geo)'
      BY <1>1, <1>2 DEF MembersResolved, CallType
    <2>7. /\ call[d].pc = "resolve" =>
               call[d].expected = call[d].seen /\ call[d].seen \in 1..LatestVersion(call[d].agent)'
          /\ call[d].pc \in {"wait", "update"} => call[d].seen \in 1..LatestVersion(call[d].agent)'
      BY <1>1, <2>1, <2>2, <2>3 DEF UpdateResolved, CallType
    <2>8. ASSUME call[d].pc \in {"select", "wait", "update"}, call[d].refs # {}
          PROVE  /\ call[d].expected \in 1..LatestVersion(call[d].agent)'
                 /\ MembersResolved(call[d].refs, call[d].agent, PatchedGeo(call[d]))'
      <3>1. /\ call[d].expected \in 1..LatestVersion(call[d].agent)
            /\ MembersResolved(call[d].refs, call[d].agent, PatchedGeo(call[d]))
        BY <2>1, <2>2, <2>8 DEF UpdateResolved
      <3>2. call[d].expected \in 1..LatestVersion(call[d].agent)'
        BY <3>1, <2>3
      <3>3. MembersResolved(call[d].refs, call[d].agent, PatchedGeo(call[d]))'
        BY <3>1, <2>5, <1>1, <1>2 DEF MembersResolved, CallType
      <3> QED BY <3>2, <3>3
    <2> QED BY <2>1, <2>4, <2>7, <2>8 DEF UpdateResolved
  <1>7. SessionLocked(call[d])'
    BY <1>1, <1>2 DEF CallSound, SessionLocked, CallType, RowsOf, StepOfCall, Exists
  <1> QED BY <1>3, <1>4, <1>5, <1>6, <1>7 DEF CallSound

\* Rosters stay admissible when no Agent is written.
LEMMA RostersKept ==
    ASSUME RosterAdmissible, UNCHANGED agents
    PROVE  RosterAdmissible'
  <1>1. ASSUME NEW a \in AgentIds, NEW v \in 1..LatestVersion(a)', NEW r \in agents'[a][v].roster
        PROVE  IF r[1] = a THEN r[2] = v
               ELSE agents'[r[1]][r[2]].geo = agents'[a][v].geo /\ agents'[r[1]][r[2]].roster = {}
    <2>1. v \in 1..LatestVersion(a) /\ r \in agents[a][v].roster
      BY <1>1 DEF LatestVersion
    <2>2. IF r[1] = a THEN r[2] = v
          ELSE agents[r[1]][r[2]].geo = agents[a][v].geo /\ agents[r[1]][r[2]].roster = {}
      BY <2>1 DEF RosterAdmissible
    <2> QED BY <2>2
  <1> QED BY <1>1 DEF RosterAdmissible

\* the call k of client c may create its Agent
MayCreate(c, k) ==
    k.op = "create" =>
        /\ agents[k.agent] = <<>> /\ k.geo \in Geos
        /\ \A d \in CatalogClients \ {c} : call[d].op = "create" => call[d].agent # k.agent

\* A step of a call that leaves the tables alone.
LEMMA CallSteps ==
    ASSUME CatalogInv, NEW c \in CatalogClients, NEW k \in CallType, Turns(c, k),
           UNCHANGED <<agents, environment, admitted>>,
           StepOfCall(k), CreateResolved(k), UpdateResolved(k), SessionLocked(k),
           MayCreate(c, k)
    PROVE  CatalogInv'
  <1>1. /\ call' \in [CatalogClients -> CallType] /\ call'[c] = k
        /\ \A d \in CatalogClients \ {c} : call'[d] = call[d]
    BY DEF Turns, CatalogInv, CatTyped
  <1>2. CatTyped' /\ RostersExist' /\ ReadsAreRechecked'
    <2>1. CatTyped' /\ RostersExist'
      BY <1>1 DEF CatalogInv, CatTyped, RostersExist, LatestVersion, Exists
    <2>2. AdmittedAgainstActive' /\ ArchivedEnvironmentFrozen'
      BY DEF CatalogInv, ReadsAreRechecked, AdmittedAgainstActive, ArchivedEnvironmentFrozen
    <2>3. RosterAdmissible'
      BY RostersKept DEF CatalogInv, ReadsAreRechecked
    <2> QED BY <2>1, <2>2, <2>3 DEF ReadsAreRechecked
  <1>3. CallSound(c)'
    <2>1. CreatorAlone(c)'
      BY <1>1 DEF CreatorAlone, MayCreate
    <2>2. StepOfCall(call[c])' /\ CreateResolved(call[c])'
      BY <1>1 DEF StepOfCall, StepsOf, CreateResolved, MembersResolved, Exists, LatestVersion
    <2>3. UpdateResolved(call[c])'
      BY <1>1 DEF UpdateResolved, MembersResolved, Exists, LatestVersion, PatchedGeo
    <2>4. SessionLocked(call[c])'
      BY <1>1 DEF SessionLocked, Exists, LatestVersion, StillThere, EnvActive, ActiveVersion, RowsOf
    <2> QED BY <2>1, <2>2, <2>3, <2>4 DEF CallSound
  <1>4. ASSUME NEW d \in CatalogClients \ {c} PROVE CallSound(d)'
    <2>1. AgentsGrow
      BY DEF AgentsGrow, LatestVersion, CatalogInv, CatTyped
    <2>2. call[d].op = "create" => agents'[call[d].agent] = <<>>
      BY DEF CatalogInv, CallSound, CreatorAlone
    <2>3. \A e \in CatalogClients \ {d} :
             call[d].op = "create" /\ call'[e].op = "create" => call'[e].agent # call[d].agent
      BY <1>1 DEF MayCreate, CatalogInv, CallSound, CreatorAlone
    <2>4. call[d].op = "session" => \A h \in call[d].held : StillThere(h[1])'
      BY DEF CatalogInv, CallSound, SessionLocked, StillThere, EnvActive, ActiveVersion, Exists,
          LatestVersion
    <2> QED BY <1>1, <2>1, <2>2, <2>3, <2>4, OtherCalls DEF CatalogInv
  <1> QED BY <1>2, <1>3, <1>4 DEF CatalogInv

\* A call that has written to the tables ends.
LEMMA CallEnds ==
    ASSUME CatalogInv, NEW c \in CatalogClients, Turns(c,
        NoCall) \/ (UNCHANGED call /\ call[c].op = "none"),
           AgentsGrow,
           \A d \in CatalogClients \ {c} : call[d].op = "create" => agents'[call[d].agent] = <<>>,
           \A d \in CatalogClients \ {c} :
             call[d].op = "session" => \A h \in call[d].held : StillThere(h[1])',
           admitted' \in Seq(BOOLEAN), environment' \in EnvironmentType,
           RostersExist', ReadsAreRechecked'
    PROVE  CatalogInv'
  <1>1. NoCall \in CallType /\ NoCall.op = "none" /\ NoCall.pc = "idle"
    BY DEF NoCall, Begun, CallType, CallPcs
  <1>2. /\ call' \in [CatalogClients -> CallType] /\ call'[c].op = "none" /\ StepOfCall(call[c])'
        /\ \A d \in CatalogClients \ {c} : call'[d] = call[d]
    <2>1. CASE Turns(c, NoCall)
      BY <1>1, <2>1 DEF Turns, CatalogInv, CatTyped, StepOfCall, StepsOf
    <2>2. CASE UNCHANGED call /\ call[c].op = "none"
      BY <2>2 DEF CatalogInv, CallSound, CatTyped, StepOfCall, StepsOf
    <2> QED BY <2>1, <2>2
  <1>3. CatTyped'
    BY <1>2 DEF CatalogInv, CatTyped, AgentsGrow
  <1>4. CallSound(c)'
    BY <1>2 DEF CallSound, CreatorAlone, CreateResolved, UpdateResolved, SessionLocked
  <1>5. ASSUME NEW d \in CatalogClients \ {c} PROVE CallSound(d)'
    <2>1. \A e \in CatalogClients \ {d} :
             call[d].op = "create" /\ call'[e].op = "create" => call'[e].agent # call[d].agent
      BY <1>2 DEF CatalogInv, CallSound, CreatorAlone
    <2> QED BY <1>2, <2>1, OtherCalls DEF CatalogInv
  <1> QED BY <1>3, <1>4, <1>5 DEF CatalogInv

\* Its step tells what kind of call it is.
LEMMA OpOfStep ==
    ASSUME NEW k \in CallType, StepOfCall(k)
    PROVE  /\ k.pc \in {"read", "update"} => k.op = "update"
           /\ k.pc = "resolve" => k.op \in {"create", "update"}
           /\ k.pc \in {"select", "wait"} => k.op \in {"update", "archive"}
           /\ k.pc = "idle" <=> k.op = "none"
           /\ k.pc = "put" => k.op = "create"
           /\ k.pc \in {"archive", "archiving"} => k.op = "archive"
           /\ k.pc \in {"write", "delete"} => k.op = "environment"
           /\ k.pc \in {"environment", "roster", "lockAgent", "lockRoster",
               "insert"} => k.op = "session"
           /\ k.op \notin {"none", "environment"} => k.agent \in AgentIds
  BY DEF StepOfCall, StepsOf, CallType

\* What ReadOwner assigns.
LEMMA OwnerFields ==
    ASSUME NEW k \in CallType, NEW pc, NEW v
    PROVE  [k EXCEPT !.pc = pc, !.seen = v, !.expected = v]
             = Changed(k, pc, k.refs, v, v, k.rows, k.held)
  <1> DEFINE Q == Changed(k, pc, k.refs, v, k.expected, k.rows, k.held)
  <1>1. [k EXCEPT !.pc = pc, !.seen = v] = Q
    BY CallFields, Zenon
  <1>2. [k EXCEPT !.pc = pc, !.seen = v, !.expected = v]
          = [[k EXCEPT !.pc = pc, !.seen = v] EXCEPT !.expected = v]
    BY DEF CallType
  <1>3. [Q EXCEPT !.expected = v] = Changed(k, pc, k.refs, v, v, k.rows, k.held)
    BY DEF Changed
  <1> HIDE DEF Q
  <1> QED BY <1>1, <1>2, <1>3, Zenon

\* A lock adds its row to the call and moves it on.
LEMMA LocksTurn ==
    ASSUME CatTyped, NEW c \in CatalogClients, NEW row, NEW mode, NEW pc, Locks(c, row, mode, pc)
    PROVE  Turns(c, Changed(call[c], pc, call[c].refs, call[c].seen, call[c].expected, call[c].rows,
                            call[c].held \cup {<<row, mode>>}))
  <1> DEFINE k == call[c]
             h == {<<row, mode>>}
             P == Changed(k, pc, k.refs, k.seen, k.expected, k.rows, k.held)
  <1>1. k \in CallType /\ call \in [CatalogClients -> CallType]
    BY DEF CatTyped
  <1>2. call' = [call EXCEPT ![c].pc = pc, ![c].held = @ \cup h]
    BY DEF Locks
  <1> HIDE DEF h
  <1>3. [call EXCEPT ![c].pc = pc, ![c].held = @ \cup h] = [call EXCEPT ![c]
          = [k EXCEPT !.pc = pc, !.held = k.held \cup h]]
    BY <1>1
  <1> HIDE DEF k
  <1>4. [k EXCEPT !.pc = pc] = P
    BY <1>1, CallFields, Zenon
  <1>5. [k EXCEPT !.pc = pc, !.held = k.held \cup h] = [[k EXCEPT !.pc = pc] EXCEPT !.held = k.held \cup h]
    BY <1>1 DEF CallType
  <1>6. [P EXCEPT !.held = k.held \cup h] = Changed(k, pc, k.refs, k.seen, k.expected, k.rows, k.held \cup h)
    BY DEF Changed
  <1>7. [k EXCEPT !.pc = pc, !.held = k.held \cup h]
          = Changed(k, pc, k.refs, k.seen, k.expected, k.rows, k.held \cup h)
    <2> HIDE DEF P
    <2> QED BY <1>4, <1>5, <1>6, Zenon
  <1>8. Turns(c, Changed(k, pc, k.refs, k.seen, k.expected, k.rows, k.held \cup h))
    BY <1>2, <1>3, <1>7, Zenon DEF Turns
  <1> QED BY <1>8 DEF k, h

\* The rosters of the versions there are stay admissible while versions are added.
LEMMA RostersGrow ==
    ASSUME CatTyped, RostersExist, RosterAdmissible, AgentsGrow,
           NEW a \in AgentIds, NEW v \in 1..LatestVersion(a), NEW r \in agents'[a][v].roster
    PROVE  /\ Exists(r)'
           /\ IF r[1] = a THEN r[2] = v
              ELSE agents'[r[1]][r[2]].geo = agents'[a][v].geo /\ agents'[r[1]][r[2]].roster = {}
  <1>1. r \in agents[a][v].roster /\ agents'[a][v].geo = agents[a][v].geo
    BY DEF AgentsGrow
  <1>2. /\ Exists(r)
        /\ IF r[1] = a THEN r[2] = v
           ELSE agents[r[1]][r[2]].geo = agents[a][v].geo /\ agents[r[1]][r[2]].roster = {}
    BY <1>1 DEF RostersExist, RosterAdmissible
  <1>3. r[1] \in AgentIds /\ r[2] \in 1..LatestVersion(r[1])
    BY <1>2 DEF Exists
  <1>4. /\ agents'[r[1]][r[2]].geo = agents[r[1]][r[2]].geo
        /\ agents'[r[1]][r[2]].roster = agents[r[1]][r[2]].roster
    BY <1>3 DEF AgentsGrow
  <1>5. LatestVersion(r[1]) \in Nat /\ LatestVersion(r[1])' \in Nat
    BY <1>3 DEF AgentsGrow, CatTyped, LatestVersion
  <1>6. Exists(r)'
    BY <1>3, <1>5 DEF AgentsGrow, Exists
  <1> QED BY <1>1, <1>2, <1>4, <1>6

\* A row that is there stays if its Agent version does.
LEMMA RowStays ==
    ASSUME UNCHANGED environment, NEW row, StillThere(row),
           row # EnvRow => ActiveVersion(row)'
    PROVE  StillThere(row)'
  BY DEF StillThere, EnvActive, EnvRow

\* The two fields of a version that a patch sets.
LEMMA VersionFields ==
    ASSUME NEW v \in VersionType, NEW geo, NEW roster
    PROVE  [v EXCEPT !.geo = geo, !.roster = roster]
             = [geo |-> geo, roster |-> roster, archived |-> v.archived]
  <1>1. [v EXCEPT !.geo = geo, !.roster = roster] = [[v EXCEPT !.geo = geo] EXCEPT !.roster = roster]
    BY DEF VersionType
  <1>2. [v EXCEPT !.geo = geo] = [geo |-> geo, roster |-> v.roster, archived |-> v.archived]
    BY DEF VersionType
  <1>3. [[geo |-> geo, roster |-> v.roster, archived |-> v.archived] EXCEPT !.roster = roster]
          = [geo |-> geo, roster |-> roster, archived |-> v.archived]
    OBVIOUS
  <1> QED BY <1>1, <1>2, <1>3, Zenon

\* The reads of every call in progress are covered by its locks or decided again:
\* the inductive invariant, for every step of every call.
THEOREM CatalogInvariant == CatalogSpec => []CatalogInv
  <1> USE CatalogAssumption
  <1>1. CatalogInit => CatalogInv
    BY DEF CatalogInit, CatalogInv, CatTyped, EnvironmentType, CallType, CallPcs, NoCall, Begun,
        RostersExist, ReadsAreRechecked,
       AdmittedAgainstActive, RosterAdmissible, ArchivedEnvironmentFrozen, CallSound, StepOfCall,
           StepsOf,
       CreatorAlone, CreateResolved, UpdateResolved, SessionLocked, LatestVersion
  <1>2. CatalogInv /\ [CatalogNext]_catalogVars => CatalogInv'
    <2> SUFFICES ASSUME CatalogInv, [CatalogNext]_catalogVars PROVE CatalogInv'
      OBVIOUS
    <2>1. /\ CatTyped /\ \A d \in CatalogClients : CallSound(d) /\ call[d] \in CallType
          /\ RostersExist
      BY DEF CatalogInv, CatTyped
    <2>2. ASSUME NEW c \in CatalogClients, NEW a \in AgentIds, NEW geo \in Geos,
                 NEW roster \in SUBSET AgentIds, CreateAgent(c, a, geo, roster) PROVE CatalogInv'
      <3> DEFINE k == Begun("create", "resolve", a, geo, <<roster>>, 0)
      <3>1. Turns(c, k) /\ UNCHANGED <<agents, environment, admitted>>
        BY <2>2 DEF Turns, CreateAgent
      <3>2. k \in CallType
        BY <2>1, <2>2 DEF CallType, Begun, CallPcs, CreateAgent
      <3>3. StepOfCall(k) /\ CreateResolved(k) /\ UpdateResolved(k) /\ SessionLocked(k)
        BY <2>1, <2>2 DEF StepOfCall, StepsOf, CreateResolved, UpdateResolved, SessionLocked,
           MembersResolved, PatchedGeo, RowsOf, Begun, CreateAgent
      <3>4. MayCreate(c, k)
        BY <2>1, <2>2 DEF MayCreate, Begun, CreateAgent, CallSound, CreatorAlone
      <3> HIDE DEF k
      <3> QED BY <3>1, <3>2, <3>3, <3>4, CallSteps
    <2>3. ASSUME NEW c \in CatalogClients, NEW a \in AgentIds, NEW geo \in Geos \cup {"kept"},
                 NEW roster \in {<<>>}
                     \cup {<<s>> : s \in SUBSET AgentIds}, UpdateAgent(c, a, geo, roster)
                     PROVE CatalogInv'
      <3> DEFINE k == Begun("update", IF roster \in {<<>>, <<{}>>} THEN "select" ELSE "read", a, geo,
            roster, 0)
      <3>1. Turns(c, k) /\ UNCHANGED <<agents, environment, admitted>>
        BY <2>3 DEF Turns, UpdateAgent, Begins
      <3>2. k \in CallType
        BY <2>1, <2>3 DEF CallType, Begun, CallPcs, UpdateAgent, Begins
      <3>3. StepOfCall(k) /\ CreateResolved(k) /\ UpdateResolved(k) /\ SessionLocked(k)
        BY <2>1, <2>3 DEF StepOfCall, StepsOf, CreateResolved, UpdateResolved, SessionLocked,
           MembersResolved, PatchedGeo, RowsOf, Begun, UpdateAgent, Begins
      <3>4. MayCreate(c, k)
        BY <2>1, <2>3 DEF MayCreate, Begun, UpdateAgent, Begins, CallSound, CreatorAlone
      <3> HIDE DEF k
      <3> QED BY <3>1, <3>2, <3>3, <3>4, CallSteps
    <2>4. ASSUME NEW c \in CatalogClients, NEW a \in AgentIds, ArchiveAgent(c, a) PROVE CatalogInv'
      <3> DEFINE k == Begun("archive", "select", a, "kept", <<>>, 0)
      <3>1. Turns(c, k) /\ UNCHANGED <<agents, environment, admitted>>
        BY <2>4 DEF Turns, ArchiveAgent, Begins
      <3>2. k \in CallType
        BY <2>1, <2>4 DEF CallType, Begun, CallPcs, ArchiveAgent, Begins
      <3>3. StepOfCall(k) /\ CreateResolved(k) /\ UpdateResolved(k) /\ SessionLocked(k)
        BY <2>1, <2>4 DEF StepOfCall, StepsOf, CreateResolved, UpdateResolved, SessionLocked,
           MembersResolved, PatchedGeo, RowsOf, Begun, ArchiveAgent, Begins
      <3>4. MayCreate(c, k)
        BY <2>1, <2>4 DEF MayCreate, Begun, ArchiveAgent, Begins, CallSound, CreatorAlone
      <3> HIDE DEF k
      <3> QED BY <3>1, <3>2, <3>3, <3>4, CallSteps
    <2>5. ASSUME NEW c \in CatalogClients, NEW a \in AgentIds, NEW v \in 1..MaxVersions, ReadAgent(c,
            a, v) PROVE CatalogInv'
      <3> DEFINE k == Begun("session", "environment", a, "kept", <<>>, v)
      <3>1. Turns(c, k) /\ UNCHANGED <<agents, environment, admitted>>
        BY <2>5 DEF Turns, ReadAgent, Begins, ActiveVersion
      <3>2. k \in CallType
        BY <2>1, <2>5 DEF CallType, Begun, CallPcs, ReadAgent, Begins, ActiveVersion
      <3>3. StepOfCall(k) /\ CreateResolved(k) /\ UpdateResolved(k) /\ SessionLocked(k)
        BY <2>1, <2>5 DEF StepOfCall, StepsOf, CreateResolved, UpdateResolved, SessionLocked,
           MembersResolved, PatchedGeo, RowsOf, Begun, ReadAgent, Begins, ActiveVersion
      <3>4. MayCreate(c, k)
        BY <2>1, <2>5 DEF MayCreate, Begun, ReadAgent, Begins, ActiveVersion, CallSound, CreatorAlone
      <3> HIDE DEF k
      <3> QED BY <3>1, <3>2, <3>3, <3>4, CallSteps
    <2>6. ASSUME NEW c \in CatalogClients, ReadEnvironmentForUpdate(c) PROVE CatalogInv'
      <3> DEFINE k == Begun("environment", "write", "none", "kept", <<>>, 0)
      <3>1. Turns(c, k) /\ UNCHANGED <<agents, environment, admitted>>
        BY <2>6 DEF Turns, ReadEnvironmentForUpdate, Begins
      <3>2. k \in CallType
        BY <2>1, <2>6 DEF CallType, Begun, CallPcs, ReadEnvironmentForUpdate, Begins
      <3>3. StepOfCall(k) /\ CreateResolved(k) /\ UpdateResolved(k) /\ SessionLocked(k)
        BY <2>1, <2>6 DEF StepOfCall, StepsOf, CreateResolved, UpdateResolved, SessionLocked,
           MembersResolved, PatchedGeo, RowsOf, Begun, ReadEnvironmentForUpdate, Begins
      <3>4. MayCreate(c, k)
        BY <2>1, <2>6 DEF MayCreate, Begun, ReadEnvironmentForUpdate, Begins, CallSound, CreatorAlone
      <3> HIDE DEF k
      <3> QED BY <3>1, <3>2, <3>3, <3>4, CallSteps
    <2>7. ASSUME NEW c \in CatalogClients, DeleteStatement(c) PROVE CatalogInv'
      <3> DEFINE k == Begun("environment", "delete", "none", "kept", <<>>, 0)
      <3>1. Turns(c, k) /\ UNCHANGED <<agents, environment, admitted>>
        BY <2>7 DEF Turns, DeleteStatement, Begins
      <3>2. k \in CallType
        BY <2>1, <2>7 DEF CallType, Begun, CallPcs, DeleteStatement, Begins
      <3>3. StepOfCall(k) /\ CreateResolved(k) /\ UpdateResolved(k) /\ SessionLocked(k)
        BY <2>1, <2>7 DEF StepOfCall, StepsOf, CreateResolved, UpdateResolved, SessionLocked,
           MembersResolved, PatchedGeo, RowsOf, Begun, DeleteStatement, Begins
      <3>4. MayCreate(c, k)
        BY <2>1, <2>7 DEF MayCreate, Begun, DeleteStatement, Begins, CallSound, CreatorAlone
      <3> HIDE DEF k
      <3> QED BY <3>1, <3>2, <3>3, <3>4, CallSteps
    <2>8. ASSUME NEW c \in CatalogClients, ReadOwner(c) PROVE CatalogInv'
      <3> DEFINE k == Changed(call[c], "resolve", call[c].refs, LatestVersion(call[c].agent),
            LatestVersion(call[c].agent), call[c].rows, call[c].held)
      <3>1. /\ call[c].op = "update" /\ call[c].pc = "read"
            /\ LatestVersion(call[c].agent) \in 1..LatestVersion(call[c].agent)
        BY <2>1, <2>8, OpOfStep DEF ReadOwner, ActiveVersion, Exists, LatestVersion, CallSound
      <3>2. Turns(c, k) /\ UNCHANGED <<agents, environment, admitted>>
        <4>1. call' = [call EXCEPT ![c].pc = "resolve", ![c].seen = LatestVersion(call[c].agent),
                ![c].expected = LatestVersion(call[c].agent)]
          BY <2>8 DEF ReadOwner, ImplicitPin
        <4>2. [call EXCEPT ![c].pc = "resolve", ![c].seen = LatestVersion(call[c].agent),
                ![c].expected = LatestVersion(call[c].agent)]
                = [call EXCEPT ![c] = [call[c] EXCEPT !.pc = "resolve",
                    !.seen = LatestVersion(call[c].agent), !.expected = LatestVersion(call[c].agent)]]
          BY <2>1 DEF CatTyped
        <4>3. [call[c] EXCEPT !.pc = "resolve", !.seen = LatestVersion(call[c].agent),
                !.expected = LatestVersion(call[c].agent)] = k
          BY <2>1, OwnerFields, Zenon
        <4>4. UNCHANGED <<agents, environment, admitted>>
          BY <2>8 DEF ReadOwner, ImplicitPin
        <4> HIDE DEF k
        <4> QED BY <4>1, <4>2, <4>3, <4>4, Zenon DEF Turns
      <3>3. /\ k.op = call[c].op /\ k.agent = call[c].agent /\ k.geo = call[c].geo
            /\ k.roster = call[c].roster
            /\ k.pc = "resolve"
            /\ k.refs = call[c].refs
            /\ k.seen = LatestVersion(call[c].agent)
            /\ k.expected = LatestVersion(call[c].agent)
            /\ k.rows = call[c].rows
            /\ k.held = call[c].held
        BY DEF Changed
      <3>4. k \in CallType
        BY <2>1, <3>1 DEF Changed, CallType, CallPcs
      <3> HIDE DEF k
      <3>5. StepOfCall(k)
        BY <2>1, <3>1, <3>3 DEF CallSound, StepOfCall, StepsOf
      <3>6. CreateResolved(k)
        BY <3>1, <3>3 DEF CreateResolved
      <3>7. UpdateResolved(k)
        BY <2>1, <3>1, <3>3 DEF CallSound, UpdateResolved
      <3>8. SessionLocked(k)
        BY <3>1, <3>3 DEF SessionLocked
      <3>9. MayCreate(c, k)
        BY <2>1, <3>1, <3>3 DEF MayCreate, CallSound, CreatorAlone
      <3> QED BY <3>2, <3>4, <3>5, <3>6, <3>7, <3>8, <3>9, CallSteps
    <2>9. ASSUME NEW c \in CatalogClients, SelectLatestAgent(c) PROVE CatalogInv'
      <3> DEFINE k == Changed(call[c], "wait", call[c].refs, LatestVersion(call[c].agent),
            call[c].expected, call[c].rows, call[c].held)
      <3>1. /\ call[c].op \in {"update", "archive"} /\ call[c].pc = "select"
            /\ LatestVersion(call[c].agent) \in 1..LatestVersion(call[c].agent)
        BY <2>1, <2>9, OpOfStep DEF SelectLatestAgent, LatestVersion, CatTyped, CallSound
      <3>2. Turns(c, k) /\ UNCHANGED <<agents, environment, admitted>>
        <4>1. call' = [call EXCEPT ![c].pc = "wait", ![c].seen = LatestVersion(call[c].agent)]
          BY <2>9 DEF SelectLatestAgent
        <4>2. [call EXCEPT ![c].pc = "wait", ![c].seen = LatestVersion(call[c].agent)]
                = [call EXCEPT ![c] = [call[c] EXCEPT !.pc = "wait",
                    !.seen = LatestVersion(call[c].agent)]]
          BY <2>1 DEF CatTyped
        <4>3. [call[c] EXCEPT !.pc = "wait", !.seen = LatestVersion(call[c].agent)] = k
          BY <2>1, CallFields, Zenon
        <4>4. UNCHANGED <<agents, environment, admitted>>
          BY <2>9 DEF SelectLatestAgent
        <4> HIDE DEF k
        <4> QED BY <4>1, <4>2, <4>3, <4>4, Zenon DEF Turns
      <3>3. /\ k.op = call[c].op /\ k.agent = call[c].agent /\ k.geo = call[c].geo
            /\ k.roster = call[c].roster
            /\ k.pc = "wait"
            /\ k.refs = call[c].refs
            /\ k.seen = LatestVersion(call[c].agent)
            /\ k.expected = call[c].expected
            /\ k.rows = call[c].rows
            /\ k.held = call[c].held
        BY DEF Changed
      <3>4. k \in CallType
        BY <2>1, <3>1 DEF Changed, CallType, CallPcs
      <3> HIDE DEF k
      <3>5. StepOfCall(k)
        BY <2>1, <3>1, <3>3 DEF CallSound, StepOfCall, StepsOf
      <3>6. CreateResolved(k)
        BY <3>1, <3>3 DEF CreateResolved
      <3>7. UpdateResolved(k)
        <4>1. UpdateResolved(call[c]) /\ PatchedGeo(k) = PatchedGeo(call[c])
          BY <2>1, <3>3 DEF CallSound, PatchedGeo
        <4> QED BY <3>1, <3>3, <4>1 DEF UpdateResolved
      <3>8. SessionLocked(k)
        BY <3>1, <3>3 DEF SessionLocked
      <3>9. MayCreate(c, k)
        BY <2>1, <3>1, <3>3 DEF MayCreate, CallSound, CreatorAlone
      <3> QED BY <3>2, <3>4, <3>5, <3>6, <3>7, <3>8, <3>9, CallSteps
    <2>10. ASSUME NEW c \in CatalogClients, LockLatestAgent(c) PROVE CatalogInv'
      <3> DEFINE k == Changed(call[c], call[c].op, call[c].refs, call[c].seen, call[c].expected,
            call[c].rows, call[c].held \cup {<<<<call[c].agent, call[c].seen>>, "update">>})
      <3>1. /\ call[c].op \in {"update", "archive"} /\ call[c].pc = "wait"
            /\ {<<<<call[c].agent, call[c].seen>>, "update">>} \subseteq Rows \X {"share", "update"}
        BY <2>1, <2>10, OpOfStep DEF LockLatestAgent, CallType, Rows, CallSound
      <3>2. Turns(c, k) /\ UNCHANGED <<agents, environment, admitted>>
        BY <2>1, <2>10, LocksTurn DEF LockLatestAgent
      <3>3. /\ k.op = call[c].op /\ k.agent = call[c].agent /\ k.geo = call[c].geo
            /\ k.roster = call[c].roster
            /\ k.pc = call[c].op
            /\ k.refs = call[c].refs
            /\ k.seen = call[c].seen
            /\ k.expected = call[c].expected
            /\ k.rows = call[c].rows
            /\ k.held = call[c].held \cup {<<<<call[c].agent, call[c].seen>>, "update">>}
        BY DEF Changed
      <3>4. k \in CallType
        BY <2>1, <3>1 DEF Changed, CallType, CallPcs
      <3> HIDE DEF k
      <3>5. StepOfCall(k)
        BY <2>1, <3>1, <3>3 DEF CallSound, StepOfCall, StepsOf
      <3>6. CreateResolved(k)
        BY <3>1, <3>3 DEF CreateResolved
      <3>7. UpdateResolved(k)
        <4>1. UpdateResolved(call[c]) /\ PatchedGeo(k) = PatchedGeo(call[c])
          BY <2>1, <3>3 DEF CallSound, PatchedGeo
        <4> QED BY <3>1, <3>3, <4>1 DEF UpdateResolved
      <3>8. SessionLocked(k)
        BY <3>1, <3>3 DEF SessionLocked
      <3>9. MayCreate(c, k)
        BY <2>1, <3>1, <3>3 DEF MayCreate, CallSound, CreatorAlone
      <3> QED BY <3>2, <3>4, <3>5, <3>6, <3>7, <3>8, <3>9, CallSteps
    <2>11. ASSUME NEW c \in CatalogClients, ArchiveStatement(c) PROVE CatalogInv'
      <3> DEFINE k == Changed(call[c], "archiving", call[c].refs, call[c].seen, call[c].expected,
            LatestVersion(call[c].agent), call[c].held)
      <3>1. call[c].op = "archive" /\ call[c].pc = "archive" /\ LatestVersion(call[c].agent) \in Nat
        BY <2>1, <2>11, OpOfStep DEF ArchiveStatement, LatestVersion, CatTyped, CallSound
      <3>2. Turns(c, k) /\ UNCHANGED <<agents, environment, admitted>>
        <4>1. call' = [call EXCEPT ![c].pc = "archiving", ![c].rows = LatestVersion(call[c].agent)]
          BY <2>11 DEF ArchiveStatement
        <4>2. [call EXCEPT ![c].pc = "archiving", ![c].rows = LatestVersion(call[c].agent)]
                = [call EXCEPT ![c] = [call[c] EXCEPT !.pc = "archiving",
                    !.rows = LatestVersion(call[c].agent)]]
          BY <2>1 DEF CatTyped
        <4>3. [call[c] EXCEPT !.pc = "archiving", !.rows = LatestVersion(call[c].agent)] = k
          BY <2>1, CallFields, Zenon
        <4>4. UNCHANGED <<agents, environment, admitted>>
          BY <2>11 DEF ArchiveStatement
        <4> HIDE DEF k
        <4> QED BY <4>1, <4>2, <4>3, <4>4, Zenon DEF Turns
      <3>3. /\ k.op = call[c].op /\ k.agent = call[c].agent /\ k.geo = call[c].geo
            /\ k.roster = call[c].roster
            /\ k.pc = "archiving"
            /\ k.refs = call[c].refs
            /\ k.seen = call[c].seen
            /\ k.expected = call[c].expected
            /\ k.rows = LatestVersion(call[c].agent)
            /\ k.held = call[c].held
        BY DEF Changed
      <3>4. k \in CallType
        BY <2>1, <3>1 DEF Changed, CallType, CallPcs
      <3> HIDE DEF k
      <3>5. StepOfCall(k)
        BY <2>1, <3>1, <3>3 DEF CallSound, StepOfCall, StepsOf
      <3>6. CreateResolved(k)
        BY <3>1, <3>3 DEF CreateResolved
      <3>7. UpdateResolved(k)
        BY <3>1, <3>3 DEF UpdateResolved
      <3>8. SessionLocked(k)
        BY <3>1, <3>3 DEF SessionLocked
      <3>9. MayCreate(c, k)
        BY <2>1, <3>1, <3>3 DEF MayCreate, CallSound, CreatorAlone
      <3> QED BY <3>2, <3>4, <3>5, <3>6, <3>7, <3>8, <3>9, CallSteps
    <2>12. ASSUME NEW c \in CatalogClients, ReadEnvironment(c) PROVE CatalogInv'
      <3> DEFINE k == Changed(call[c], "roster", call[c].refs, call[c].seen, call[c].expected,
            call[c].rows, call[c].held)
      <3>1. call[c].op = "session" /\ call[c].pc = "environment"
        BY <2>1, <2>12, OpOfStep DEF ReadEnvironment, CallSound
      <3>2. Turns(c, k) /\ UNCHANGED <<agents, environment, admitted>>
        <4>1. call' = [call EXCEPT ![c].pc = "roster"]
          BY <2>12 DEF ReadEnvironment, Proceeds
        <4>2. [call EXCEPT ![c].pc = "roster"]
                = [call EXCEPT ![c] = [call[c] EXCEPT !.pc = "roster"]]
          BY <2>1 DEF CatTyped
        <4>3. [call[c] EXCEPT !.pc = "roster"] = k
          BY <2>1, CallFields, Zenon
        <4>4. UNCHANGED <<agents, environment, admitted>>
          BY <2>12 DEF ReadEnvironment, Proceeds
        <4> HIDE DEF k
        <4> QED BY <4>1, <4>2, <4>3, <4>4, Zenon DEF Turns
      <3>3. /\ k.op = call[c].op /\ k.agent = call[c].agent /\ k.geo = call[c].geo
            /\ k.roster = call[c].roster
            /\ k.pc = "roster"
            /\ k.refs = call[c].refs
            /\ k.seen = call[c].seen
            /\ k.expected = call[c].expected
            /\ k.rows = call[c].rows
            /\ k.held = call[c].held
        BY DEF Changed
      <3>4. k \in CallType
        BY <2>1, <3>1 DEF Changed, CallType, CallPcs
      <3> HIDE DEF k
      <3>5. StepOfCall(k)
        BY <2>1, <3>1, <3>3 DEF CallSound, StepOfCall, StepsOf
      <3>6. CreateResolved(k)
        BY <3>1, <3>3 DEF CreateResolved
      <3>7. UpdateResolved(k)
        BY <3>1, <3>3 DEF UpdateResolved
      <3>8. SessionLocked(k)
        <4>1. SessionLocked(call[c]) /\ RowsOf(k) = RowsOf(call[c])
          BY <2>1, <3>3 DEF CallSound, RowsOf
        <4> QED BY <3>1, <3>3, <4>1 DEF SessionLocked
      <3>9. MayCreate(c, k)
        BY <2>1, <3>1, <3>3 DEF MayCreate, CallSound, CreatorAlone
      <3> QED BY <3>2, <3>4, <3>5, <3>6, <3>7, <3>8, <3>9, CallSteps
    <2>13. ASSUME NEW c \in CatalogClients, ResolveSessionRoster(c) PROVE CatalogInv'
      <3> DEFINE k == Changed(call[c], "lockAgent", call[c].refs, call[c].seen, call[c].expected,
            call[c].rows, call[c].held)
      <3>1. call[c].op = "session" /\ call[c].pc = "roster"
        BY <2>1, <2>13, OpOfStep DEF ResolveSessionRoster, CallSound
      <3>2. Turns(c, k) /\ UNCHANGED <<agents, environment, admitted>>
        <4>1. call' = [call EXCEPT ![c].pc = "lockAgent"]
          BY <2>13 DEF ResolveSessionRoster, Proceeds
        <4>2. [call EXCEPT ![c].pc = "lockAgent"]
                = [call EXCEPT ![c] = [call[c] EXCEPT !.pc = "lockAgent"]]
          BY <2>1 DEF CatTyped
        <4>3. [call[c] EXCEPT !.pc = "lockAgent"] = k
          BY <2>1, CallFields, Zenon
        <4>4. UNCHANGED <<agents, environment, admitted>>
          BY <2>13 DEF ResolveSessionRoster, Proceeds
        <4> HIDE DEF k
        <4> QED BY <4>1, <4>2, <4>3, <4>4, Zenon DEF Turns
      <3>3. /\ k.op = call[c].op /\ k.agent = call[c].agent /\ k.geo = call[c].geo
            /\ k.roster = call[c].roster
            /\ k.pc = "lockAgent"
            /\ k.refs = call[c].refs
            /\ k.seen = call[c].seen
            /\ k.expected = call[c].expected
            /\ k.rows = call[c].rows
            /\ k.held = call[c].held
        BY DEF Changed
      <3>4. k \in CallType
        BY <2>1, <3>1 DEF Changed, CallType, CallPcs
      <3> HIDE DEF k
      <3>5. StepOfCall(k)
        BY <2>1, <3>1, <3>3 DEF CallSound, StepOfCall, StepsOf
      <3>6. CreateResolved(k)
        BY <3>1, <3>3 DEF CreateResolved
      <3>7. UpdateResolved(k)
        BY <3>1, <3>3 DEF UpdateResolved
      <3>8. SessionLocked(k)
        <4>1. SessionLocked(call[c]) /\ RowsOf(k) = RowsOf(call[c])
          BY <2>1, <3>3 DEF CallSound, RowsOf
        <4> QED BY <3>1, <3>3, <4>1 DEF SessionLocked
      <3>9. MayCreate(c, k)
        BY <2>1, <3>1, <3>3 DEF MayCreate, CallSound, CreatorAlone
      <3> QED BY <3>2, <3>4, <3>5, <3>6, <3>7, <3>8, <3>9, CallSteps
    <2>14. ASSUME NEW c \in CatalogClients, LockActiveAgentVersion(c) PROVE CatalogInv'
      <3> DEFINE k == Changed(call[c], "lockRoster", call[c].refs, call[c].seen, call[c].expected,
            call[c].rows, call[c].held \cup {<<<<call[c].agent, call[c].seen>>, "share">>})
      <3>1. /\ call[c].op = "session" /\ call[c].pc = "lockAgent"
            /\ {<<<<call[c].agent, call[c].seen>>, "share">>} \subseteq Rows \X {"share", "update"}
            /\ StillThere(<<call[c].agent, call[c].seen>>)
        BY <2>1, <2>14, OpOfStep
            DEF LockActiveAgentVersion, StillActive, StillThere, ActiveVersion, Exists, EnvRow,
                CallType, Rows, CallSound
      <3>2. Turns(c, k) /\ UNCHANGED <<agents, environment, admitted>>
        BY <2>1, <2>14, LocksTurn DEF LockActiveAgentVersion
      <3>3. /\ k.op = call[c].op /\ k.agent = call[c].agent /\ k.geo = call[c].geo
            /\ k.roster = call[c].roster
            /\ k.pc = "lockRoster"
            /\ k.refs = call[c].refs
            /\ k.seen = call[c].seen
            /\ k.expected = call[c].expected
            /\ k.rows = call[c].rows
            /\ k.held = call[c].held \cup {<<<<call[c].agent, call[c].seen>>, "share">>}
        BY DEF Changed
      <3>4. k \in CallType
        BY <2>1, <3>1 DEF Changed, CallType, CallPcs
      <3> HIDE DEF k
      <3>5. StepOfCall(k)
        BY <2>1, <3>1, <3>3 DEF CallSound, StepOfCall, StepsOf
      <3>6. CreateResolved(k)
        BY <3>1, <3>3 DEF CreateResolved
      <3>7. UpdateResolved(k)
        BY <3>1, <3>3 DEF UpdateResolved
      <3>8. SessionLocked(k)
        <4>1. SessionLocked(call[c]) /\ RowsOf(k) = RowsOf(call[c])
          BY <2>1, <3>3 DEF CallSound, RowsOf
        <4> QED BY <3>1, <3>3, <4>1 DEF SessionLocked
      <3>9. MayCreate(c, k)
        BY <2>1, <3>1, <3>3 DEF MayCreate, CallSound, CreatorAlone
      <3> QED BY <3>2, <3>4, <3>5, <3>6, <3>7, <3>8, <3>9, CallSteps
    <2>15. ASSUME NEW c \in CatalogClients, LockActiveEnvironment(c) PROVE CatalogInv'
      <3> DEFINE k == Changed(call[c], "insert", call[c].refs, call[c].seen, call[c].expected,
            call[c].rows, call[c].held \cup {<<EnvRow, "share">>})
      <3>1. /\ call[c].op = "session" /\ call[c].pc = "lockRoster"
            /\ {<<EnvRow, "share">>} \subseteq Rows \X {"share", "update"} /\ StillThere(EnvRow)
            /\ \A r \in RowsOf(call[c]) : <<r, "share">> \in call[c].held
        BY <2>1, <2>15, OpOfStep
            DEF LockActiveEnvironment, StillThere, SessionMembers, RowsOf, Rows, CallSound
      <3>2. Turns(c, k) /\ UNCHANGED <<agents, environment, admitted>>
        BY <2>1, <2>15, LocksTurn DEF LockActiveEnvironment
      <3>3. /\ k.op = call[c].op /\ k.agent = call[c].agent /\ k.geo = call[c].geo
            /\ k.roster = call[c].roster
            /\ k.pc = "insert"
            /\ k.refs = call[c].refs
            /\ k.seen = call[c].seen
            /\ k.expected = call[c].expected
            /\ k.rows = call[c].rows
            /\ k.held = call[c].held \cup {<<EnvRow, "share">>}
        BY DEF Changed
      <3>4. k \in CallType
        BY <2>1, <3>1 DEF Changed, CallType, CallPcs
      <3> HIDE DEF k
      <3>5. StepOfCall(k)
        BY <2>1, <3>1, <3>3 DEF CallSound, StepOfCall, StepsOf
      <3>6. CreateResolved(k)
        BY <3>1, <3>3 DEF CreateResolved
      <3>7. UpdateResolved(k)
        BY <3>1, <3>3 DEF UpdateResolved
      <3>8. SessionLocked(k)
        <4>1. SessionLocked(call[c]) /\ RowsOf(k) = RowsOf(call[c])
          BY <2>1, <3>3 DEF CallSound, RowsOf
        <4> QED BY <3>1, <3>3, <4>1 DEF SessionLocked
      <3>9. MayCreate(c, k)
        BY <2>1, <3>1, <3>3 DEF MayCreate, CallSound, CreatorAlone
      <3> QED BY <3>2, <3>4, <3>5, <3>6, <3>7, <3>8, <3>9, CallSteps
    <2>16. ASSUME NEW c \in CatalogClients, NEW r \in SessionMembers(c),
                 LockActiveSessionRoster(c), StillActive(r), Locks(c, r, "share", "lockRoster")
                 PROVE CatalogInv'
      <3> DEFINE k == Changed(call[c], "lockRoster", call[c].refs, call[c].seen, call[c].expected,
            call[c].rows, call[c].held \cup {<<r, "share">>})
      <3>1. /\ call[c].op = "session" /\ call[c].pc = "lockRoster" /\ Exists(<<call[c].agent,
              call[c].seen>>)
            /\ {<<r, "share">>} \subseteq Rows \X {"share", "update"}
            /\ StillThere(r)
        <4>1. call[c].op = "session" /\ call[c].pc = "lockRoster" /\ call[c].agent \in AgentIds
          BY <2>1, <2>16, OpOfStep DEF LockActiveSessionRoster, CallSound
        <4>2. Exists(<<call[c].agent, call[c].seen>>)
          BY <2>1, <4>1 DEF CallSound, SessionLocked
        <4>3. agents[call[c].agent][call[c].seen] \in VersionType
          BY <2>1, <4>1, <4>2 DEF Exists, LatestVersion, CatTyped
        <4>4. r \in AgentIds \X Nat
          BY <4>3 DEF SessionMembers, VersionType
        <4>5. r # EnvRow /\ ActiveVersion(r)
          BY <2>16, <4>4 DEF StillActive, ActiveVersion, Exists, EnvRow
        <4> QED BY <4>1, <4>2, <4>4, <4>5 DEF StillThere, Rows
      <3>2. Turns(c, k) /\ UNCHANGED <<agents, environment, admitted>>
        BY <2>1, <2>16, LocksTurn DEF LockActiveSessionRoster
      <3>3. /\ k.op = call[c].op /\ k.agent = call[c].agent /\ k.geo = call[c].geo
            /\ k.roster = call[c].roster
            /\ k.pc = "lockRoster"
            /\ k.refs = call[c].refs
            /\ k.seen = call[c].seen
            /\ k.expected = call[c].expected
            /\ k.rows = call[c].rows
            /\ k.held = call[c].held \cup {<<r, "share">>}
        BY DEF Changed
      <3>4. k \in CallType
        BY <2>1, <3>1 DEF Changed, CallType, CallPcs
      <3> HIDE DEF k
      <3>5. StepOfCall(k)
        BY <2>1, <3>1, <3>3 DEF CallSound, StepOfCall, StepsOf
      <3>6. CreateResolved(k)
        BY <3>1, <3>3 DEF CreateResolved
      <3>7. UpdateResolved(k)
        BY <3>1, <3>3 DEF UpdateResolved
      <3>8. SessionLocked(k)
        <4>1. SessionLocked(call[c]) /\ RowsOf(k) = RowsOf(call[c])
          BY <2>1, <3>3 DEF CallSound, RowsOf
        <4> QED BY <3>1, <3>3, <4>1 DEF SessionLocked
      <3>9. MayCreate(c, k)
        BY <2>1, <3>1, <3>3 DEF MayCreate, CallSound, CreatorAlone
      <3> QED BY <3>2, <3>4, <3>5, <3>6, <3>7, <3>8, <3>9, CallSteps
    <2>17. ASSUME NEW c \in CatalogClients, ResolveMultiagent(c) PROVE CatalogInv'
      <3> DEFINE a == call[c].agent
                 wanted == call[c].roster[1]
                 others == wanted \ {a}
                 next == IF call[c].op = "create" THEN "put" ELSE "select"
                 R(pin) == {<<m, pin[m]>> : m \in others} \cup {<<a, 1>> : m \in wanted \cap {a}}
      <3>1. /\ call[c].op \in {"create", "update"} /\ call[c].pc = "resolve"
            /\ a \in AgentIds /\ wanted \subseteq AgentIds
        BY <2>1, <2>17, OpOfStep DEF ResolveMultiagent, CallSound, StepOfCall, CallType
      <3>2. PICK pin \in [others -> 1..MaxVersions] :
              /\ \A m \in others : Callable(c, <<m, pin[m]>>)
              /\ call' = [call EXCEPT ![c].pc = next, ![c].refs = R(pin)]
        BY <2>17 DEF ResolveMultiagent
      <3> DEFINE refs == R(pin)
                 k == Changed(call[c], next, refs, call[c].seen, call[c].expected, call[c].rows,
                     call[c].held)
      <3>3. /\ refs \subseteq AgentIds \X Nat
            /\ \A r \in refs : r[1] = a => r[2] = 1
            /\ \A r \in refs : r[1] # a => r[1] \in others /\ r = <<r[1], pin[r[1]]>>
        BY <3>1, <3>2
      <3>4. MembersResolved(refs, a, OwnerGeo(c))
        BY <3>2, <3>3 DEF MembersResolved, Callable, ActiveVersion
      <3> HIDE DEF refs, next
      <3>5. Turns(c, k) /\ UNCHANGED <<agents, environment, admitted>>
        <4>1. call' = [call EXCEPT ![c].pc = next, ![c].refs = refs]
          BY <3>2 DEF refs
        <4>2. [call EXCEPT ![c].pc = next, ![c].refs = refs]
                = [call EXCEPT ![c] = [call[c] EXCEPT !.pc = next, !.refs = refs]]
          BY <2>1 DEF CatTyped
        <4>3. [call[c] EXCEPT !.pc = next, !.refs = refs] = k
          BY <2>1, CallFields, Zenon
        <4>4. UNCHANGED <<agents, environment, admitted>>
          BY <2>17 DEF ResolveMultiagent
        <4> HIDE DEF k
        <4> QED BY <4>1, <4>2, <4>3, <4>4, Zenon DEF Turns
      <3>6. /\ k.op = call[c].op /\ k.agent = a /\ k.geo = call[c].geo /\ k.roster = call[c].roster
            /\ k.pc = next /\ k.refs = refs /\ k.seen = call[c].seen /\ k.expected = call[c].expected
        BY DEF Changed
      <3>7. next = (IF call[c].op = "create" THEN "put" ELSE "select")
        BY DEF next
      <3>8. k \in CallType
        BY <2>1, <3>3, <3>7 DEF Changed, CallType, CallPcs
      <3> HIDE DEF k
      <3>9. StepOfCall(k)
        BY <2>1, <3>1, <3>6, <3>7 DEF CallSound, StepOfCall, StepsOf
      <3>10. CreateResolved(k)
        <4>1. SUFFICES ASSUME call[c].op = "create" PROVE CreateResolved(k)
          BY <3>6 DEF CreateResolved
        <4>2. OwnerGeo(c) = call[c].geo
          BY <2>1, <4>1 DEF CallSound, CreatorAlone, OwnerGeo
        <4> QED BY <3>3, <3>4, <3>6, <4>2 DEF CreateResolved
      <3>11. UpdateResolved(k)
        <4>1. SUFFICES ASSUME call[c].op = "update" PROVE UpdateResolved(k)
          BY <3>6 DEF UpdateResolved
        <4>2. /\ agents[a] # <<>> /\ call[c].expected = call[c].seen
              /\ call[c].seen \in 1..LatestVersion(a)
          BY <2>1, <3>1, <4>1 DEF CallSound, UpdateResolved
        <4>3. PatchedGeo(k) = OwnerGeo(c)
          BY <3>6, <4>2 DEF PatchedGeo, OwnerGeo
        <4> QED BY <3>4, <3>6, <3>7, <4>1, <4>2, <4>3 DEF UpdateResolved
      <3>12. SessionLocked(k)
        BY <3>1, <3>6 DEF SessionLocked
      <3>13. MayCreate(c, k)
        BY <2>1, <3>1, <3>6 DEF MayCreate, CallSound, CreatorAlone
      <3> QED BY <3>5, <3>8, <3>9, <3>10, <3>11, <3>12, <3>13, CallSteps
    <2>18. ASSUME NEW c \in CatalogClients, UNCHANGED <<agents, admitted>>,
                  Turns(c, NoCall) \/ (UNCHANGED call /\ call[c].op = "none"),
                  \A d \in CatalogClients \ {c} : call[d].op = "session" =>
                    \A h \in call[d].held : h[1] = EnvRow => (EnvActive => EnvActive'),
                  ArchivedEnvironmentFrozen', environment' \in EnvironmentType
           PROVE  CatalogInv'
      <3>1. AgentsGrow
        BY <2>1, <2>18 DEF AgentsGrow, LatestVersion, CatTyped
      <3>2. \A d \in CatalogClients \ {c} : call[d].op = "create" => agents'[call[d].agent] = <<>>
        BY <2>1, <2>18 DEF CallSound, CreatorAlone
      <3>3. \A d \in CatalogClients \ {c} :
              call[d].op = "session" => \A h \in call[d].held : StillThere(h[1])'
        BY <2>1, <2>18 DEF CallSound, SessionLocked, StillThere, ActiveVersion, Exists, LatestVersion
      <3>4. admitted' \in Seq(BOOLEAN) /\ RostersExist'
        BY <2>1, <2>18 DEF CatTyped, RostersExist, Exists, LatestVersion
      <3>5. AdmittedAgainstActive'
        BY <2>18 DEF CatalogInv, ReadsAreRechecked, AdmittedAgainstActive
      <3>6. RosterAdmissible'
        BY <2>18, RostersKept DEF CatalogInv, ReadsAreRechecked
      <3>7. ReadsAreRechecked'
        BY <2>18, <3>5, <3>6 DEF ReadsAreRechecked
      <3> QED BY <2>18, <3>1, <3>2, <3>3, <3>4, <3>7, CallEnds
    <2>19. ASSUME NEW c \in CatalogClients, Rollback(c) PROVE CatalogInv'
      BY <2>1, <2>18, <2>19
          DEF Rollback, Ends, Turns, CatTyped, CatalogInv, ReadsAreRechecked,
              ArchivedEnvironmentFrozen, EnvActive
    <2>20. ASSUME NEW c \in CatalogClients, CreateEnvironment(c) PROVE CatalogInv'
      <3>1. UNCHANGED <<agents, admitted, call>> /\ call[c].op = "none"
        BY <2>1, <2>20, OpOfStep DEF CreateEnvironment, CallSound
      <3>2. environment'.state = "active" /\ environment' \in EnvironmentType
        BY <2>1, <2>20 DEF CreateEnvironment, CatTyped, EnvironmentType
      <3> QED BY <2>18, <3>1, <3>2 DEF EnvActive, ArchivedEnvironmentFrozen
    <2>21. ASSUME NEW c \in CatalogClients, UpdateEnvironment(c) PROVE CatalogInv'
      <3>1. UNCHANGED <<agents, admitted>> /\ Turns(c, NoCall) /\ environment.state = "active"
        BY <2>21 DEF UpdateEnvironment, Writable, EnvActive, Ends, Turns
      <3>2. environment'.state = "active" /\ environment' \in EnvironmentType
        BY <2>1, <2>21, <3>1 DEF UpdateEnvironment, CatTyped, EnvironmentType
      <3> QED BY <2>18, <3>1, <3>2 DEF EnvActive, ArchivedEnvironmentFrozen
    <2>22. ASSUME NEW c \in CatalogClients, ArchiveEnvironment(c) PROVE CatalogInv'
      <3>1. UNCHANGED <<agents, admitted, call>> /\ call[c].op = "none" /\ Lockable(c, EnvRow, "update")
        BY <2>1, <2>22, OpOfStep DEF ArchiveEnvironment, CallSound
      <3>2. environment'.frozen = environment'.body /\ environment' \in EnvironmentType
        BY <2>1, <2>22 DEF ArchiveEnvironment, CatTyped, EnvironmentType
      <3>3. \A d \in CatalogClients \ {c} : \A h \in call[d].held : h[1] # EnvRow
        BY <3>1 DEF Lockable
      <3> QED BY <2>18, <3>1, <3>2, <3>3 DEF EnvActive, ArchivedEnvironmentFrozen
    <2>23. ASSUME NEW c \in CatalogClients, DeleteEnvironment(c) PROVE CatalogInv'
      <3>1. UNCHANGED <<agents, admitted>> /\ Turns(c, NoCall) /\ Lockable(c, EnvRow, "update")
        BY <2>23 DEF DeleteEnvironment, Ends, Turns
      <3>2. environment'.state = "deleted" /\ environment' \in EnvironmentType
        BY <2>1, <2>23 DEF DeleteEnvironment, CatTyped, EnvironmentType
      <3>3. \A d \in CatalogClients \ {c} : \A h \in call[d].held : h[1] # EnvRow
        BY <3>1 DEF Lockable
      <3> QED BY <2>18, <3>1, <3>2, <3>3 DEF EnvActive, ArchivedEnvironmentFrozen
    <2>24. ASSUME NEW c \in CatalogClients, InsertSession(c) PROVE CatalogInv'
      <3> DEFINE named == {<<call[c].agent, call[c].seen>>} \cup SessionMembers(c)
      <3>1. call[c].op = "session" /\ call[c].pc = "insert" /\ call[c].agent \in AgentIds
        BY <2>1, <2>24, OpOfStep DEF InsertSession, CallSound
      <3>2. /\ <<EnvRow, "share">> \in call[c].held
            /\ \A r \in named : <<r, "share">> \in call[c].held
            /\ \A h \in call[c].held : StillThere(h[1])
            /\ Exists(<<call[c].agent, call[c].seen>>)
        BY <2>1, <3>1 DEF CallSound, SessionLocked, SessionMembers, RowsOf
      <3>3. \A r \in named : Exists(r)
        BY <2>1, <3>1, <3>2 DEF RostersExist, SessionMembers, Exists
      <3>4. EnvRow \notin named
        BY <3>3 DEF Exists, EnvRow
      <3>5. EnvActive /\ \A r \in named : ActiveVersion(r)
        <4>1. \A row : <<row, "share">>[1] = row
          OBVIOUS
        <4>2. StillThere(EnvRow) /\ \A r \in named : StillThere(r)
          BY <3>2, <4>1
        <4> QED BY <3>4, <4>2 DEF StillThere
      <3>6. /\ admitted' = Append(admitted, EnvActive /\ \A r \in named : ActiveVersion(r))
            /\ Turns(c, NoCall) /\ UNCHANGED <<agents, environment>>
        BY <2>24 DEF InsertSession, Ends, Turns
      <3>7. admitted' = Append(admitted, TRUE)
        BY <3>5, <3>6, Zenon
      <3>8. admitted' \in Seq(BOOLEAN) /\ environment' \in EnvironmentType
        BY <2>1, <3>6, <3>7 DEF CatTyped
      <3>9. AdmittedAgainstActive'
        BY <2>1, <3>7 DEF CatalogInv, CatTyped, ReadsAreRechecked, AdmittedAgainstActive
      <3>10. AgentsGrow
        BY <2>1, <3>6 DEF AgentsGrow, LatestVersion, CatTyped
      <3>11. \A d \in CatalogClients \ {c} : call[d].op = "create" => agents'[call[d].agent] = <<>>
        BY <2>1, <3>6 DEF CallSound, CreatorAlone
      <3>12. \A d \in CatalogClients \ {c} :
              call[d].op = "session" => \A h \in call[d].held : StillThere(h[1])'
        BY <2>1, <3>6 DEF CallSound, SessionLocked, StillThere, ActiveVersion, Exists, LatestVersion,
            EnvActive
      <3>13. RostersExist'
        BY <2>1, <3>6 DEF RostersExist, Exists, LatestVersion
      <3>14. RosterAdmissible'
        BY <3>6, RostersKept DEF CatalogInv, ReadsAreRechecked
      <3>15. ArchivedEnvironmentFrozen'
        BY <3>6 DEF CatalogInv, ReadsAreRechecked, ArchivedEnvironmentFrozen
      <3>16. ReadsAreRechecked'
        BY <3>14, <3>15, <3>9 DEF ReadsAreRechecked
      <3> QED BY <3>6, <3>8, <3>10, <3>11, <3>12, <3>13, <3>16, CallEnds
    <2>25. ASSUME NEW c \in CatalogClients, PutVersion(c) PROVE CatalogInv'
      <3> DEFINE a == call[c].agent
                 rec == [geo |-> call[c].geo, roster |-> call[c].refs, archived |-> FALSE]
      <3>1. /\ call[c].op = "create" /\ call[c].pc = "put" /\ a \in AgentIds /\ call[c].geo \in Geos
            /\ call[c].geo # "kept" /\ agents[a] = <<>> /\ call[c].refs \subseteq AgentIds \X Nat
            /\ \A d \in CatalogClients \ {c} : call[d].op = "create" => call[d].agent # a
            /\ MembersResolved(call[c].refs, a, call[c].geo)
            /\ \A r \in call[c].refs : r[1] = a => r[2] = 1
        BY <2>1, <2>25, OpOfStep DEF PutVersion, CallSound, CreatorAlone, CreateResolved, CallType
      <3>2. /\ agents' = [agents EXCEPT ![a] = <<rec>>] /\ Turns(c, NoCall)
            /\ UNCHANGED <<environment, admitted>>
        BY <2>25 DEF PutVersion, Ends, Turns
      <3>3. /\ rec \in VersionType /\ rec.geo = call[c].geo /\ rec.roster = call[c].refs
        BY <3>1 DEF VersionType
      <3> HIDE DEF rec
      <3>4. /\ agents' \in [AgentIds -> Seq(VersionType)]
            /\ agents'[a] = <<rec>> /\ Len(agents'[a]) = 1 /\ agents'[a][1] = rec
            /\ \A b \in AgentIds \ {a} : agents'[b] = agents[b]
        BY <2>1, <3>1, <3>2, <3>3 DEF CatTyped
      <3>5. \A r : Exists(r) => Exists(r)' /\ r[1] # a
        BY <3>1, <3>4 DEF Exists, LatestVersion
      <3>6. AgentsGrow
        <4>1. \A b \in AgentIds \ {a} : agents'[b] = agents[b] /\ Len(agents[b]) \in Nat
          BY <2>1, <3>4 DEF CatTyped
        <4>2. \A b \in AgentIds : LatestVersion(b) \in Nat /\ LatestVersion(b) <= LatestVersion(b)'
          BY <3>1, <3>4, <4>1 DEF LatestVersion
        <4>3. \A b \in AgentIds : \A v \in 1..LatestVersion(b) :
                 agents'[b][v].geo = agents[b][v].geo /\ agents'[b][v].roster = agents[b][v].roster
          BY <3>1, <4>1 DEF LatestVersion
        <4> QED BY <3>4, <4>2, <4>3 DEF AgentsGrow
      <3>7. \A d \in CatalogClients \ {c} : call[d].op = "create" => agents'[call[d].agent] = <<>>
        BY <2>1, <3>1, <3>4, OpOfStep DEF CallSound, CreatorAlone
      <3>8. \A d \in CatalogClients \ {c} :
              call[d].op = "session" => \A h \in call[d].held : StillThere(h[1])'
        <4>1. ASSUME NEW row, StillThere(row) PROVE StillThere(row)'
          <5>1. CASE row = EnvRow
            BY <3>2, <4>1, <5>1 DEF StillThere, EnvActive, EnvRow
          <5>2. CASE row # EnvRow
            <6>1. Exists(row) /\ ~agents[row[1]][row[2]].archived
              BY <4>1, <5>2 DEF StillThere, ActiveVersion
            <6>2. Exists(row)' /\ agents'[row[1]] = agents[row[1]]
              BY <3>4, <3>5, <6>1 DEF Exists
            <6> QED BY <5>2, <6>1, <6>2 DEF StillThere, ActiveVersion, EnvRow
          <5> QED BY <5>1, <5>2
        <4>2. \A d \in CatalogClients : call[d].op = "session" => \A h \in call[d].held : StillThere(h[1])
          BY <2>1 DEF CallSound, SessionLocked
        <4> QED BY <4>1, <4>2
      <3>9. admitted' \in Seq(BOOLEAN) /\ environment' \in EnvironmentType
        BY <2>1, <3>2 DEF CatTyped
      <3>10. RostersExist'
        <4>1. ASSUME NEW b \in AgentIds, NEW v \in 1..LatestVersion(b)', NEW r \in agents'[b][v].roster
              PROVE  Exists(r)'
          <5>1. CASE b = a
            BY <3>1, <3>3, <3>4, <3>5, <4>1, <5>1 DEF LatestVersion, MembersResolved, Exists
          <5>2. CASE b # a
            BY <2>1, <3>4, <3>5, <4>1, <5>2 DEF LatestVersion, RostersExist
          <5> QED BY <5>1, <5>2
        <4> QED BY <4>1 DEF RostersExist
      <3>11. RosterAdmissible'
        <4>1. ASSUME NEW b \in AgentIds, NEW v \in 1..LatestVersion(b)', NEW r \in agents'[b][v].roster
              PROVE  IF r[1] = b THEN r[2] = v
                     ELSE agents'[r[1]][r[2]].geo = agents'[b][v].geo /\ agents'[r[1]][r[2]].roster = {}
          <5>1. CASE b = a
            <6>1. v = 1 /\ agents'[b][v].roster = call[c].refs /\ agents'[b][v].geo = call[c].geo
              BY <3>3, <3>4, <4>1, <5>1 DEF LatestVersion
            <6>2. r \in call[c].refs /\ r[1] \in AgentIds
              BY <3>1, <4>1, <6>1
            <6>3. CASE r[1] # a
              BY <3>1, <3>4, <5>1, <6>1, <6>2, <6>3 DEF MembersResolved
            <6> QED BY <3>1, <5>1, <6>1, <6>2, <6>3
          <5>2. CASE b # a
            <6>1. v \in 1..LatestVersion(b) /\ r \in agents[b][v].roster /\ agents'[b] = agents[b]
              BY <3>4, <4>1, <5>2 DEF LatestVersion
            <6>2. r[1] \in AgentIds \ {a}
              BY <2>1, <3>5, <6>1 DEF RostersExist, Exists
            <6>3. IF r[1] = b THEN r[2] = v
                  ELSE agents[r[1]][r[2]].geo = agents[b][v].geo /\ agents[r[1]][r[2]].roster = {}
              BY <6>1 DEF CatalogInv, ReadsAreRechecked, RosterAdmissible
            <6>4. agents'[r[1]] = agents[r[1]]
              BY <3>4, <6>2
            <6> QED BY <6>1, <6>3, <6>4
          <5> QED BY <5>1, <5>2
        <4> QED BY <4>1 DEF RosterAdmissible
      <3>12. ReadsAreRechecked'
        BY <3>2, <3>11 DEF CatalogInv, ReadsAreRechecked, AdmittedAgainstActive,
            ArchivedEnvironmentFrozen
      <3> QED BY <3>2, <3>6, <3>7, <3>8, <3>9, <3>10, <3>12, CallEnds
    <2>26. ASSUME NEW c \in CatalogClients, ArchiveVersions(c) PROVE CatalogInv'
      <3> DEFINE a == call[c].agent
                 n == call[c].rows
                 S == [v \in DOMAIN agents[a] |->
                         IF v <= n THEN [agents[a][v] EXCEPT !.archived = TRUE] ELSE agents[a][v]]
      <3>1. /\ call[c].op = "archive" /\ a \in AgentIds /\ n \in Nat /\ agents[a] \in Seq(VersionType)
            /\ \A v \in 1..n : Lockable(c, <<a, v>>, "update")
        BY <2>1, <2>26, OpOfStep DEF ArchiveVersions, CallSound, CallType, CatTyped
      <3>2. /\ agents' = [agents EXCEPT ![a] = S] /\ Turns(c, NoCall)
            /\ UNCHANGED <<environment, admitted>>
        BY <2>26 DEF ArchiveVersions, Ends, Turns
      <3>3. DOMAIN agents[a] = 1..LatestVersion(a) /\ LatestVersion(a) \in Nat
        BY <3>1 DEF LatestVersion
      <3>4. ASSUME NEW v \in 1..LatestVersion(a)
            PROVE  /\ S[v] \in VersionType /\ S[v].geo = agents[a][v].geo
                   /\ S[v].roster = agents[a][v].roster
                   /\ v > n => S[v] = agents[a][v]
        <4>1. agents[a][v] \in VersionType
          BY <3>1, <3>3
        <4>2. S[v] = IF v <= n THEN [agents[a][v] EXCEPT !.archived = TRUE] ELSE agents[a][v]
          BY <3>3
        <4>3. /\ [agents[a][v] EXCEPT !.archived = TRUE] \in VersionType
              /\ [agents[a][v] EXCEPT !.archived = TRUE].geo = agents[a][v].geo
              /\ [agents[a][v] EXCEPT !.archived = TRUE].roster = agents[a][v].roster
          BY <4>1 DEF VersionType
        <4> HIDE DEF S
        <4> QED BY <3>1, <4>1, <4>2, <4>3
      <3>5. S \in Seq(VersionType) /\ Len(S) = LatestVersion(a)
        <4>1. DOMAIN S = 1..LatestVersion(a)
          BY <3>3
        <4> HIDE DEF S
        <4>2. S \in [1..LatestVersion(a) -> VersionType]
          <5>1. S = [v \in 1..LatestVersion(a) |-> S[v]]
            BY <4>1 DEF S
          <5> QED BY <3>4, <5>1
        <4> QED BY <3>3, <4>2
      <3> HIDE DEF S
      <3>6. /\ agents' \in [AgentIds -> Seq(VersionType)] /\ agents'[a] = S
            /\ \A b \in AgentIds \ {a} : agents'[b] = agents[b]
        BY <2>1, <3>1, <3>2, <3>5 DEF CatTyped
      <3>7. \A b \in AgentIds : LatestVersion(b)' = LatestVersion(b)
        BY <3>5, <3>6 DEF LatestVersion
      <3>8. AgentsGrow
        <4>1. ASSUME NEW b \in AgentIds
              PROVE  /\ LatestVersion(b) <= LatestVersion(b)'
                     /\ \A v \in 1..LatestVersion(b) :
                          agents'[b][v].geo = agents[b][v].geo
                            /\ agents'[b][v].roster = agents[b][v].roster
          <5>1. LatestVersion(b) \in Nat
            BY <2>1 DEF CatTyped, LatestVersion
          <5>2. CASE b = a
            BY <3>4, <3>6, <3>7, <5>1, <5>2
          <5>3. CASE b # a
            BY <3>6, <3>7, <5>1, <5>3
          <5> QED BY <5>2, <5>3
        <4> QED BY <3>6, <4>1 DEF AgentsGrow
      <3>9. \A d \in CatalogClients \ {c} : call[d].op = "create" => agents'[call[d].agent] = <<>>
        <4>1. ASSUME NEW d \in CatalogClients \ {c}, call[d].op = "create"
              PROVE agents'[call[d].agent] = <<>>
          <5>1. call[d].agent \in AgentIds /\ agents[call[d].agent] = <<>>
            BY <2>1, <4>1, OpOfStep DEF CallSound, CreatorAlone
          <5>2. agents'[call[d].agent] \in Seq(VersionType) /\ Len(agents'[call[d].agent]) = 0
            BY <3>6, <3>7, <5>1 DEF LatestVersion
          <5> QED BY <5>2
        <4> QED BY <4>1
      <3>10. \A d \in CatalogClients \ {c} :
              call[d].op = "session" => \A h \in call[d].held : StillThere(h[1])'
        <4>1. ASSUME NEW d \in CatalogClients \ {c}, call[d].op = "session", NEW h \in call[d].held
              PROVE  StillThere(h[1])'
          <5>1. StillThere(h[1])
            BY <2>1, <4>1 DEF CallSound, SessionLocked
          <5>2. ASSUME h[1] # EnvRow PROVE ActiveVersion(h[1])'
            <6>1. Exists(h[1]) /\ ~agents[h[1][1]][h[1][2]].archived
              BY <5>1, <5>2 DEF StillThere, ActiveVersion
            <6>2. h \in Rows \X {"share", "update"}
              BY <2>1, <4>1 DEF CallType
            <6>3. h[1] = <<h[1][1],
                    h[1][2]>> /\ h[1][1] \in AgentIds /\ h[1][2] \in 1..LatestVersion(h[1][1])
              BY <6>1, <6>2, <5>2 DEF Rows, Exists
            <6>4. Exists(h[1])'
              BY <3>7, <6>3 DEF Exists
            <6>5. CASE h[1][1] = a
              <7>1. h[1][2] > n
                <8>1. SUFFICES ASSUME ~(h[1][2] > n) PROVE FALSE
                  OBVIOUS
                <8>2. h[1][2] \in 1..n
                  BY <3>1, <3>3, <6>3, <6>5, <8>1
                <8>3. Lockable(c, <<a, h[1][2]>>, "update") /\ h[1] = <<a, h[1][2]>>
                  BY <3>1, <6>3, <6>5, <8>2
                <8> QED BY <4>1, <8>3 DEF Lockable
              <7>2. agents'[h[1][1]][h[1][2]] = agents[h[1][1]][h[1][2]]
                BY <3>4, <3>6, <6>3, <6>5, <7>1
              <7> QED BY <6>1, <6>4, <7>2 DEF ActiveVersion
            <6>6. CASE h[1][1] # a
              BY <3>6, <6>1, <6>3, <6>4, <6>6 DEF ActiveVersion
            <6> QED BY <6>5, <6>6
          <5> QED BY <3>2, <5>1, <5>2, RowStays
        <4> QED BY <4>1
      <3>11. admitted' \in Seq(BOOLEAN) /\ environment' \in EnvironmentType
        BY <2>1, <3>2 DEF CatTyped
      <3>12. RosterAdmissible
        BY DEF CatalogInv, ReadsAreRechecked
      <3>13. RostersExist'
        BY <2>1, <3>7, <3>8, <3>12, RostersGrow DEF RostersExist
      <3>14. RosterAdmissible'
        BY <2>1, <3>7, <3>8, <3>12, RostersGrow DEF RosterAdmissible
      <3>15. ReadsAreRechecked'
        BY <3>2, <3>14 DEF CatalogInv, ReadsAreRechecked, AdmittedAgainstActive,
            ArchivedEnvironmentFrozen
      <3> QED BY <3>2, <3>8, <3>9, <3>10, <3>11, <3>13, <3>15, CallEnds
    <2>27. ASSUME NEW c \in CatalogClients, UpdateVersion(c) PROVE CatalogInv'
      <3> DEFINE a == call[c].agent
                 v == call[c].seen
                 cur == agents[a][v]
                 geo == IF call[c].geo = "kept" THEN cur.geo ELSE call[c].geo
                 patched == IF call[c].roster = <<>> THEN cur.roster
                            ELSE RebindAgentVersion(call[c].refs, a, v)
                 bound == RebindAgentVersion(patched, a, v + 1)
                 new == [geo |-> geo, roster |-> bound, archived |-> cur.archived]
      <3>1. /\ call[c].op = "update" /\ call[c].pc = "update" /\ a \in AgentIds
            /\ v \in 1..LatestVersion(a) /\ v = LatestVersion(a) /\ agents[a] # <<>>
            /\ call[c].expected \in {0, v}
            /\ call[c].refs # {} =>
                 /\ call[c].expected \in 1..LatestVersion(a)
                 /\ MembersResolved(call[c].refs, a, PatchedGeo(call[c]))
        BY <2>1, <2>27, OpOfStep DEF UpdateVersion, CallSound, UpdateResolved
      <3>2. cur \in VersionType /\ agents[a] \in Seq(VersionType) /\ v \in Nat
        BY <2>1, <3>1 DEF CatTyped, LatestVersion
      <3>3. AppliedPatch(c, cur) = [geo |-> geo, roster |-> patched, archived |-> cur.archived]
        <4>1. AppliedPatch(c, cur) = [cur EXCEPT !.geo = geo, !.roster = patched]
          BY <3>2 DEF AppliedPatch, VersionType
        <4> QED BY <3>2, <4>1, VersionFields
      <3>4. /\ agents' = [agents EXCEPT ![a] = Append(@,
                 [AppliedPatch(c, cur) EXCEPT !.roster =
                    RebindAgentVersion(AppliedPatch(c, cur).roster, a, v + 1)])]
            /\ Turns(c, NoCall) /\ UNCHANGED <<environment, admitted>>
            /\ call[c].roster = <<>> /\ AppliedPatch(c,
                cur).geo # cur.geo => ~HasExternalAgent(cur.roster, a)
        BY <2>27 DEF UpdateVersion, Ends, Turns
      <3> HIDE DEF geo, patched
      <3>5. /\ agents' = [agents EXCEPT ![a] = Append(@, new)]
            /\ call[c].roster = <<>> /\ geo # cur.geo => ~HasExternalAgent(cur.roster, a)
        <4>1. [AppliedPatch(c, cur) EXCEPT !.roster =
                 RebindAgentVersion(AppliedPatch(c, cur).roster, a, v + 1)] = new
          BY <3>3
        <4> QED BY <3>3, <3>4, <4>1
      <3>6. geo \in Geos
        BY <2>1, <3>2 DEF geo, CallType, VersionType
      <3>7. patched \subseteq AgentIds \X Nat
        BY <2>1, <3>1, <3>2 DEF patched, RebindAgentVersion, CallType, VersionType
      <3>8. bound \subseteq AgentIds \X Nat
        BY <3>1, <3>2, <3>7 DEF RebindAgentVersion
      <3>9. \A r \in bound : IF r[1] = a THEN r = <<a, v + 1>> ELSE r \in patched
        BY DEF RebindAgentVersion
      <3>10. ASSUME NEW r \in patched, r[1] # a
             PROVE  Exists(r) /\ agents[r[1]][r[2]].geo = geo /\ agents[r[1]][r[2]].roster = {}
        <4>1. CASE call[c].roster = <<>>
          <5>1. r \in cur.roster
            BY <3>10, <4>1 DEF patched
          <5>2. geo = cur.geo
            BY <3>5, <3>10, <4>1, <5>1 DEF HasExternalAgent
          <5> QED BY <2>1, <3>1, <3>10, <5>1, <5>2
                  DEF RostersExist, CatalogInv, ReadsAreRechecked, RosterAdmissible
        <4>2. CASE call[c].roster # <<>>
          <5>1. r \in call[c].refs
            BY <3>10, <4>2 DEF patched, RebindAgentVersion
          <5>2. call[c].expected = v /\ MembersResolved(call[c].refs, a, PatchedGeo(call[c]))
            BY <3>1, <5>1
          <5>3. PatchedGeo(call[c]) = geo
            BY <5>2 DEF PatchedGeo, geo
          <5> QED BY <3>10, <5>1, <5>2, <5>3 DEF MembersResolved
        <4> QED BY <4>1, <4>2
      <3> HIDE DEF bound
      <3>11. new \in VersionType /\ new.geo = geo /\ new.roster = bound
        BY <3>2, <3>6, <3>8 DEF VersionType
      <3> HIDE DEF new
      <3>12. /\ agents' \in [AgentIds -> Seq(VersionType)]
             /\ \A b \in AgentIds \ {a} : agents'[b] = agents[b]
             /\ Len(agents'[a]) = v + 1 /\ agents'[a][v + 1] = new
             /\ \A u \in 1..v : agents'[a][u] = agents[a][u]
        BY <2>1, <3>1, <3>2, <3>5, <3>11 DEF CatTyped, LatestVersion
      <3>13. ASSUME NEW r, Exists(r) PROVE Exists(r)' /\ agents'[r[1]][r[2]] = agents[r[1]][r[2]]
        <4>1. CASE r[1] = a
          BY <3>1, <3>2, <3>12, <3>13, <4>1 DEF Exists, LatestVersion
        <4>2. CASE r[1] # a
          BY <3>12, <3>13, <4>2 DEF Exists, LatestVersion
        <4> QED BY <4>1, <4>2
      <3>14. AgentsGrow
        <4>1. ASSUME NEW b \in AgentIds
              PROVE  /\ LatestVersion(b) <= LatestVersion(b)'
                     /\ \A u \in 1..LatestVersion(b) :
                          agents'[b][u].geo = agents[b][u].geo
                            /\ agents'[b][u].roster = agents[b][u].roster
          <5>1. LatestVersion(b) \in Nat
            BY <2>1 DEF CatTyped, LatestVersion
          <5>2. CASE b = a
            BY <3>1, <3>2, <3>12, <5>2 DEF LatestVersion
          <5>3. CASE b # a
            BY <3>12, <5>1, <5>3 DEF LatestVersion
          <5> QED BY <5>2, <5>3
        <4> QED BY <3>12, <4>1 DEF AgentsGrow
      <3>15. \A d \in CatalogClients \ {c} : call[d].op = "create" => agents'[call[d].agent] = <<>>
        BY <2>1, <3>1, <3>12, OpOfStep DEF CallSound, CreatorAlone
      <3>16. \A d \in CatalogClients \ {c} :
              call[d].op = "session" => \A h \in call[d].held : StillThere(h[1])'
        <4>1. ASSUME NEW d \in CatalogClients \ {c}, call[d].op = "session", NEW h \in call[d].held
              PROVE  StillThere(h[1])'
          <5>1. StillThere(h[1])
            BY <2>1, <4>1 DEF CallSound, SessionLocked
          <5>2. ASSUME h[1] # EnvRow PROVE ActiveVersion(h[1])'
            BY <3>13, <5>1, <5>2 DEF StillThere, ActiveVersion
          <5> QED BY <3>4, <5>1, <5>2, RowStays
        <4> QED BY <4>1
      <3>17. admitted' \in Seq(BOOLEAN) /\ environment' \in EnvironmentType
        BY <2>1, <3>4 DEF CatTyped
      <3>18. RosterAdmissible
        BY DEF CatalogInv, ReadsAreRechecked
      <3>19. ASSUME NEW b \in AgentIds, NEW u \in 1..LatestVersion(b)', NEW r \in agents'[b][u].roster
             PROVE  /\ Exists(r)'
                    /\ IF r[1] = b THEN r[2] = u
                       ELSE agents'[r[1]][r[2]].geo = agents'[b][u].geo
                             /\ agents'[r[1]][r[2]].roster = {}
        <4>1. CASE u \in 1..LatestVersion(b)
          BY <2>1, <3>14, <3>18, <3>19, <4>1, RostersGrow
        <4>2. CASE u \notin 1..LatestVersion(b)
          <5>1. b = a /\ u = v + 1
            BY <3>1, <3>2, <3>12, <3>19, <4>2 DEF LatestVersion
          <5>2. r \in bound /\ agents'[b][u].geo = geo
            BY <3>11, <3>12, <3>19, <5>1
          <5>3. CASE r[1] = a
            BY <3>1, <3>2, <3>9, <3>12, <5>1, <5>2, <5>3 DEF Exists, LatestVersion
          <5>4. CASE r[1] # a
            <6>1. Exists(r) /\ agents[r[1]][r[2]].geo = geo /\ agents[r[1]][r[2]].roster = {}
              BY <3>9, <3>10, <5>2, <5>4
            <6> QED BY <3>13, <5>1, <5>2, <5>4, <6>1
          <5> QED BY <5>3, <5>4
        <4> QED BY <4>1, <4>2
      <3>20. RostersExist' /\ RosterAdmissible'
        BY <3>19 DEF RostersExist, RosterAdmissible
      <3>21. ReadsAreRechecked'
        BY <3>4, <3>20 DEF CatalogInv, ReadsAreRechecked, AdmittedAgainstActive,
            ArchivedEnvironmentFrozen
      <3> QED BY <3>4, <3>14, <3>15, <3>16, <3>17, <3>20, <3>21, CallEnds
    <2>28. CASE UNCHANGED catalogVars
      <3>1. UNCHANGED <<agents, environment, admitted, call>>
        BY <2>28 DEF catalogVars
      <3>2. CatTyped' /\ RostersExist' /\ AdmittedAgainstActive' /\ ArchivedEnvironmentFrozen'
        BY <3>1 DEF CatalogInv, ReadsAreRechecked, CatTyped, RostersExist, AdmittedAgainstActive,
           ArchivedEnvironmentFrozen, LatestVersion, Exists
      <3>3. RosterAdmissible'
        BY <3>1, RostersKept DEF CatalogInv, ReadsAreRechecked
      <3>4. AgentsGrow
        BY <2>1, <3>1 DEF AgentsGrow, LatestVersion, CatTyped
      <3>5. ASSUME NEW d \in CatalogClients PROVE CallSound(d)'
        <4>1. call[d].op = "create" => agents'[call[d].agent] = <<>>
          BY <2>1, <3>1 DEF CallSound, CreatorAlone
        <4>2. \A e \in CatalogClients \ {d} :
                call[d].op = "create" /\ call'[e].op = "create" => call'[e].agent # call[d].agent
          BY <2>1, <3>1 DEF CallSound, CreatorAlone
        <4>3. call[d].op = "session" => \A h \in call[d].held : StillThere(h[1])'
          BY <2>1, <3>1 DEF CallSound, SessionLocked, StillThere, ActiveVersion, Exists, LatestVersion,
              EnvActive
        <4> QED BY <2>1, <3>1, <3>4, <4>1, <4>2, <4>3, OtherCalls
      <3> QED BY <3>2, <3>3, <3>5 DEF CatalogInv, ReadsAreRechecked
    <2>29. ASSUME NEW c \in CatalogClients, LockActiveSessionRoster(c) PROVE CatalogInv'
      BY <2>16, <2>29 DEF LockActiveSessionRoster
    <2> QED
      BY <2>2, <2>3, <2>4, <2>5, <2>6, <2>7, <2>8, <2>9, <2>10, <2>11, <2>12, <2>13, <2>14,
         <2>15, <2>17, <2>19, <2>20, <2>21, <2>22, <2>23, <2>24, <2>25, <2>26, <2>27, <2>28, <2>29
         DEF CatalogNext
  <1> QED BY <1>1, <1>2, PTL DEF CatalogSpec

\* What was read before the transaction is decided again inside it.
THEOREM CatalogRechecked == CatalogSpec => []ReadsAreRechecked
  BY CatalogInvariant, PTL DEF CatalogInv

-----------------------------------------------------------------------------
(* The lists of the API                                                    *)

\* every list of the API: what it is asked and how its handler filters it
ApiQueries ==
    {<<SessionQuery, SessionParams>>, <<AgentQuery, AgentParams>>,
     <<AgentVersionQuery, AgentVersionParams>>, <<EnvironmentQuery, EnvironmentParams>>,
     <<DeploymentQuery, DeploymentParams>>, <<RunQuery, RunParams>>, <<FileQuery, FileParams>>,
     <<MemoryQuery, MemoryParams>>, <<SkillQuery, SkillParams>>,
     <<SkillVersionQuery, SkillVersionParams>>, <<ResourceQuery, ResourceParams>>,
     <<ThreadQuery, ThreadParams>>, <<EventQuery, EventParams>>, <<EventQuery, ThreadEventParams>>,
     <<WorkQuery, WorkParams>>, <<StoreQuery, StoreParams>>,
     <<MemoryVersionQuery, MemoryVersionParams>>, <<VaultQuery, VaultParams>>,
     <<CredentialQuery, CredentialParams>>}

\* every list in each of its orders, but the ascending list of events
ApiLists ==
    {l \in {<<q[1], q[2], o>> : q \in ApiQueries, o \in {"asc", "desc"}} :
        l[3] \in l[1].orders /\ ~(l[1].key = "processed" /\ l[3] = "asc")}

\* what a list must be for a walk through it to lose no row
Paged(l) ==
    /\ l[1].key \in {"created", "processed", "version", "path"}
    /\ l[1].key = "processed" => l[3] = "desc" /\ l[1].cursor = "key"
    /\ l[1].cursor = "row" \/ l[2].filters \subseteq l[2].bound

\* a row, and how far a client is
RowValue == [at : Nat, shown : BOOLEAN]
PagePcs == {"idle", "paging", "peek", "done", "refused"}
PageValue == [pc : PagePcs, back : BOOLEAN, id : Nat, at : Nat, first : Nat,
              present : SUBSET Nat, got : SUBSET Nat, more : {FALSE}]

\* what the variables hold: ids are given out in order, stamps grow
ListTyped ==
    /\ listing \in Listings /\ stamp \in Nat \ {0} /\ lastRow \in Nat /\ rowMoves \in Nat
    /\ Present \subseteq 1..lastRow
    /\ rows \in [Present -> RowValue]
    /\ page \in PageValue

\* only an event can be without a key, and only the Session list turns back
KeysAreKnown ==
    /\ \A i \in Present : rows[i].at = 0 => Key = "processed"
    /\ page.back => Key # "processed"

\* the rows that the walk still owes are selected and after its boundary
OwedAreAhead ==
    page.pc \in {"paging", "peek"} =>
        \A i \in page.present \cap Present :
            rows[i].shown /\ (i \in page.got \/ AfterBoundary(i))

\* the rows that the walk has seen have ids that were given out
WalkSawRows ==
    /\ page.present \subseteq 1..lastRow /\ page.got \subseteq 1..lastRow
    /\ page.pc = "idle" => page = NoPage

\* the inductive invariant of a list
ListInv == ListTyped /\ KeysAreKnown /\ WalkSawRows /\ OwedAreAhead /\ EveryRowListed

\* A finite set that an irreflexive, total and transitive relation orders has a
\* first element: one with the fewest elements before it.
LEMMA FirstOfOrder ==
    ASSUME NEW S, IsFiniteSet(S), S # {}, NEW R,
           \A i \in S : <<i, i>> \notin R,
           \A i, j \in S : i # j => <<i, j>> \in R \/ <<j, i>> \in R,
           \A i, j, k \in S : <<i, j>> \in R /\ <<j, k>> \in R => <<i, k>> \in R
    PROVE  \E m \in S : \A j \in S \ {m} : <<m, j>> \in R
<1> DEFINE Before(i) == {j \in S : <<j, i>> \in R}
<1> DEFINE Ranks == {Cardinality(Before(i)) : i \in S}
<1> DEFINE Less == {p \in Nat \X Nat : p[1] < p[2]}
<1>1. \A i \in S : IsFiniteSet(Before(i)) /\ Cardinality(Before(i)) \in Nat
  <2> TAKE i \in S
  <2>1. Before(i) \in SUBSET S
    OBVIOUS
  <2> HIDE DEF Before
  <2> QED BY <2>1, FS_Subset, FS_CardinalityType
<1>2. Ranks \subseteq Nat /\ Ranks # {}
  <2> HIDE DEF Before
  <2> QED BY <1>1
<1>3. IsWellFoundedOn(Less, Nat)
  BY NatLessThanWellFounded, Zenon DEF OpToRel
<1>4. PICK n \in Ranks : \A x \in Ranks : <<x, n>> \notin Less
  <2> HIDE DEF Less, Ranks
  <2> QED BY <1>2, <1>3, WFMin
<1>5. PICK m \in S : n = Cardinality(Before(m))
  OBVIOUS
<1>6. \A j \in S : ~(Cardinality(Before(j)) < Cardinality(Before(m)))
  <2> TAKE j \in S
  <2> DEFINE x == Cardinality(Before(j))
  <2>1. x \in Ranks /\ x \in Nat /\ n \in Nat
    <3> HIDE DEF Before
    <3> QED BY <1>1, <1>2
  <2> HIDE DEF x, Ranks, Before
  <2>2. <<x, n>> \in Nat \X Nat /\ <<x, n>>[1] = x /\ <<x, n>>[2] = n
    BY <2>1
  <2>3. ~(<<x, n>>[1] < <<x, n>>[2])
    BY <1>4, <2>1, <2>2, Zenon
  <2>4. ~(x < n)
    BY <2>2, <2>3
  <2> QED BY <2>4, <1>5 DEF x
<1>7. ASSUME NEW j \in S \ {m}, <<m, j>> \notin R PROVE FALSE
  <2>1. <<j, m>> \in R
    BY <1>7
  <2>2. Before(j) \in SUBSET Before(m) /\ j \in Before(m) /\ j \notin Before(j)
    BY <2>1
  <2>3. IsFiniteSet(Before(m)) /\ IsFiniteSet(Before(j))
    BY <1>1
  <2>4. Cardinality(Before(j)) <= Cardinality(Before(m))
        /\ Cardinality(Before(j)) # Cardinality(Before(m))
    <3> HIDE DEF Before
    <3> QED BY <2>2, <2>3, FS_Subset
  <2> HIDE DEF Before
  <2> QED BY <1>1, <1>6, <2>4
<1> QED BY <1>7

\* InOrder is a strict total order of the rows: equal keys are told apart by id.
LEMMA OrderIsStrict ==
    ASSUME ListTyped
    PROVE  /\ \A i \in Present : ~InOrder(i, i)
           /\ \A i, j \in Present : i # j => InOrder(i, j) \/ InOrder(j, i)
           /\ \A i, j, k \in Present : InOrder(i, j) /\ InOrder(j, k) => InOrder(i, k)
<1>1. \A i \in Present : i \in Nat /\ rows[i].at \in Nat
  BY DEF ListTyped, RowValue
<1>2. \A i \in Present : ~Precedes(i, i)
  BY <1>1 DEF Precedes
<1>3. \A i, j \in Present : i # j => Precedes(i, j) \/ Precedes(j, i)
  BY <1>1 DEF Precedes
<1>4. \A i, j, k \in Present : Precedes(i, j) /\ Precedes(j, k) => Precedes(i, k)
  BY <1>1 DEF Precedes
<1> QED BY <1>2, <1>3, <1>4 DEF InOrder

\* the rows of the list that a page is taken from
Rest == {i \in Selected : AfterBoundary(i)}

\* The rows of the list are finitely many.
LEMMA RowsAreFinite ==
    ASSUME ListTyped, NEW S \in SUBSET Present
    PROVE  IsFiniteSet(S) /\ Cardinality(S) \in Nat
<1>1. 1..lastRow \in SUBSET Nat /\ S \in SUBSET (1..lastRow) /\ 1 \in Int /\ lastRow \in Int
  BY DEF ListTyped
<1>2. IsFiniteSet(1..lastRow)
  BY <1>1, FS_Interval
<1> QED BY <1>1, <1>2, FS_Subset, FS_CardinalityType

\* Rows that are there have a first and a last one in the order of the walk.
LEMMA EndsExist ==
    ASSUME ListTyped, NEW S \in SUBSET Present, S # {}
    PROVE  /\ \E m \in S : \A j \in S \ {m} : InOrder(m, j)
           /\ \E m \in S : \A j \in S \ {m} : InOrder(j, m)
<1> DEFINE R == {p \in S \X S : InOrder(p[1], p[2])}
<1> DEFINE T == {p \in S \X S : InOrder(p[2], p[1])}
<1>1. \A i, j \in S : (<<i, j>> \in R <=> InOrder(i, j)) /\ (<<i, j>> \in T <=> InOrder(j, i))
  <2> TAKE i, j \in S
  <2>1. <<i, j>> \in S \X S /\ <<i, j>>[1] = i /\ <<i, j>>[2] = j
    OBVIOUS
  <2> QED BY <2>1, Zenon
<1>2. IsFiniteSet(S)
  BY RowsAreFinite
<1>3. /\ \A i \in S : ~InOrder(i, i)
      /\ \A i, j \in S : i # j => InOrder(i, j) \/ InOrder(j, i)
      /\ \A i, j, k \in S : InOrder(i, j) /\ InOrder(j, k) => InOrder(i, k)
  BY OrderIsStrict
<1>4. /\ \A i \in S : <<i, i>> \notin R
      /\ \A i, j \in S : i # j => <<i, j>> \in R \/ <<j, i>> \in R
      /\ \A i, j, k \in S : <<i, j>> \in R /\ <<j, k>> \in R => <<i, k>> \in R
  <2> HIDE DEF R, T
  <2> QED BY <1>1, <1>3, Zenon
<1>5. /\ \A i \in S : <<i, i>> \notin T
      /\ \A i, j \in S : i # j => <<i, j>> \in T \/ <<j, i>> \in T
      /\ \A i, j, k \in S : <<i, j>> \in T /\ <<j, k>> \in T => <<i, k>> \in T
  <2> HIDE DEF R, T
  <2> QED BY <1>1, <1>3, Zenon
<1> HIDE DEF R, T
<1>6. \E m \in S : \A j \in S \ {m} : <<m, j>> \in R
  BY <1>2, <1>4, FirstOfOrder
<1>7. \E m \in S : \A j \in S \ {m} : <<m, j>> \in T
  BY <1>2, <1>5, FirstOfOrder
<1> QED BY <1>1, <1>6, <1>7

\* A page is the first rows of what is left: none only if nothing is left, all of
\* it if no row follows, and every row that is left out comes after it.
LEMMA PageIsPrefix ==
    ASSUME ListTyped
    PROVE  /\ PageRows.rows \subseteq Rest
           /\ Rest # {} => PageRows.rows # {}
           /\ ~PageRows.more => PageRows.rows = Rest
           /\ PageRows.more => Rest # {}
           /\ \A i \in Rest \ PageRows.rows, j \in PageRows.rows : InOrder(j, i)
<1> DEFINE Rank(i) == Cardinality({j \in Rest : InOrder(j, i)})
<1> DEFINE P == PageRows.rows
<1> USE ListingAssumption
<1>1. P = {i \in Rest : Rank(i) < PageLimit} /\ (PageRows.more <=> Cardinality(Rest) > PageLimit)
  BY DEF PageRows, Rest
<1>2. Rest \in SUBSET Present
  BY DEF Rest, Selected
<1>3. \A i : {j \in Rest : InOrder(j, i)} \in SUBSET Present
  BY <1>2
<1>4. \A i : IsFiniteSet({j \in Rest : InOrder(j, i)}) /\ Rank(i) \in Nat
  BY <1>3, RowsAreFinite
<1>5. IsFiniteSet(Rest) /\ Cardinality(Rest) \in Nat
  BY <1>2, RowsAreFinite
<1>6. /\ \A i \in Rest : ~InOrder(i, i)
      /\ \A i, j \in Rest : i # j => InOrder(i, j) \/ InOrder(j, i)
      /\ \A i, j, k \in Rest : InOrder(i, j) /\ InOrder(j, k) => InOrder(i, k)
  BY <1>2, OrderIsStrict
<1>7. P \subseteq Rest
  BY <1>1
<1>8. ASSUME Rest # {} PROVE P # {}
  <2>1. PICK m \in Rest : \A j \in Rest \ {m} : InOrder(m, j)
    BY <1>2, <1>8, EndsExist
  <2>2. {j \in Rest : InOrder(j, m)} = {}
    BY <2>1, <1>6
  <2>3. Rank(m) = 0
    BY <2>2, FS_EmptySet
  <2> QED BY <2>1, <2>3, <1>1
<1>9. ASSUME ~PageRows.more PROVE P = Rest
  <2>1. Cardinality(Rest) <= PageLimit
    BY <1>9, <1>1, <1>5
  <2>2. ASSUME NEW i \in Rest PROVE Rank(i) < PageLimit
    <3> DEFINE B == {j \in Rest : InOrder(j, i)}
    <3>1. B \in SUBSET Rest /\ i \notin B
      BY <1>6
    <3>2. Cardinality(B) <= Cardinality(Rest) /\ (Cardinality(Rest) = Cardinality(B) => Rest = B)
      <4> HIDE DEF B
      <4> QED BY <3>1, <1>5, FS_Subset
    <3> QED BY <3>1, <3>2, <2>1, <1>4, <1>5
  <2> QED BY <2>2, <1>1
<1>10. ASSUME PageRows.more PROVE Rest # {}
  BY <1>10, <1>1, FS_EmptySet
<1>11. ASSUME NEW i \in Rest \ P, NEW j \in P PROVE InOrder(j, i)
  <2>1. i \in Rest /\ j \in Rest /\ i # j /\ Rank(j) < PageLimit /\ ~(Rank(i) < PageLimit)
    BY <1>1
  <2>2. SUFFICES ASSUME InOrder(i, j) PROVE FALSE
    BY <2>1, <1>6
  <2>3. {k \in Rest : InOrder(k, i)} \in SUBSET {k \in Rest : InOrder(k, j)}
    BY <2>1, <2>2, <1>6
  <2>4. Rank(i) <= Rank(j)
    BY <2>3, <1>4, FS_Subset
  <2> QED BY <2>1, <2>4, <1>4
<1> QED BY <1>7, <1>8, <1>9, <1>10, <1>11

\* Every list of the API, the ascending list of events apart, can be paged: its
\* cursor names a row by the whole key and carries the parameters of the list.
LEMMA ApiListsArePaged ==
    ASSUME NEW l \in ApiLists
    PROVE  Paged(l)
<1> USE DEF Query, Handler, Paged
<1>1. PICK q \in ApiQueries, o \in {"asc", "desc"} : l = <<q[1], q[2], o>>
  BY DEF ApiLists
<1>2. l[1] = q[1] /\ l[2] = q[2] /\ l[3] = o /\ (q[1].key = "processed" => o = "desc")
  BY <1>1 DEF ApiLists
<1>3. /\ q[1].key \in {"created", "processed", "version", "path"}
      /\ q[1].key = "processed" => q[1].cursor = "key"
      /\ q[1].cursor = "row" \/ q[2].filters \subseteq q[2].bound
  <2> QED BY <1>1 DEF ApiQueries, SessionQuery, AgentQuery, AgentVersionQuery, EnvironmentQuery,
         DeploymentQuery, RunQuery, WorkQuery, FileQuery, StoreQuery, MemoryQuery,
         MemoryVersionQuery, VaultQuery, CredentialQuery, SkillQuery, SkillVersionQuery,
         ResourceQuery, ThreadQuery, EventQuery, SessionParams, AgentParams, AgentVersionParams,
         EnvironmentParams, DeploymentParams, RunParams, WorkParams, FileParams, StoreParams,
         MemoryParams, MemoryVersionParams, VaultParams, CredentialParams, SkillParams,
         SkillVersionParams, ResourceParams, ThreadParams, EventParams, ThreadEventParams
<1> QED BY <1>2, <1>3

\* A row that comes after the row whose key the cursor records is after the boundary.
LEMMA BehindTheCursor ==
    ASSUME ListTyped, ListTyped', KeysAreKnown, \A l \in Listings : Paged(l),
           NEW last \in Present, NEW i \in Present, InOrder(last, i),
           UNCHANGED <<listing, rows>>, page'.back = page.back,
           page'.id = last, page'.at = rows[last].at
    PROVE  AfterBoundary(i)'
<1>1. /\ last \in Nat \ {0} /\ i \in Nat /\ rows[last].at \in Nat /\ rows[i].at \in Nat
      /\ page.back \in BOOLEAN /\ Paged(listing)
  BY DEF ListTyped, RowValue, PageValue
<1>2. CASE Key = "processed"
  <2>1. Desc /\ ~page.back
    BY <1>1, <1>2 DEF Paged, Key, Desc, KeysAreKnown
  <2>2. Precedes(i, last)
    BY <2>1 DEF InOrder
  <2>3. EventBoundary(i)'
    BY <1>1, <2>1, <2>2 DEF EventBoundary, Precedes, Desc
  <2> QED BY <1>1, <1>2, <2>3 DEF AfterBoundary, Key
<1>3. CASE Key # "processed"
  <2>1. rows[last].at # 0 /\ rows[i].at # 0
    BY <1>3 DEF KeysAreKnown
  <2>2. ResourceBoundary(i)'
    BY <1>1, <2>1 DEF ResourceBoundary, InOrder, Precedes, Desc
  <2> QED BY <1>1, <1>3, <2>2 DEF AfterBoundary, Key
<1> QED BY <1>2, <1>3

\* A list that has just been chosen satisfies the invariant.
LEMMA ListInitInv == ListingInit => ListInv
<1> SUFFICES ASSUME ListingInit PROVE ListInv
  OBVIOUS
<1> USE DEF ListingInit
<1>1. Present = {}
  BY DEF Present
<1>2. NoPage \in PageValue
  BY DEF NoPage, PageValue, PagePcs
<1>3. rows \in [Present -> RowValue]
  BY <1>1 DEF Present
<1>4. ListTyped
  BY <1>1, <1>2, <1>3 DEF ListTyped
<1> QED BY <1>1, <1>4 DEF ListInv, KeysAreKnown, WalkSawRows, OwedAreAhead, EveryRowListed, NoPage

\* A client asks for the first page: every selected row is ahead of it.
LEMMA OpenStep == ASSUME ListInv, OpenListing PROVE ListInv'
<1> USE DEF OpenListing
<1>1. page = NoPage /\ page' = [NoPage EXCEPT !.pc = "paging", !.present = Selected]
  BY DEF ListInv, WalkSawRows
<1>2. /\ page'.pc = "paging" /\ page'.back = FALSE /\ page'.id = 0 /\ page'.at = 0 /\ page'.got = {}
      /\ page'.present = Selected
  BY <1>1 DEF NoPage
<1>3. Selected \subseteq Present /\ Selected \subseteq 1..lastRow /\ Selected \subseteq Nat
  BY DEF Selected, ListInv, ListTyped
<1>4. page' \in PageValue
  <2>1. page' = [pc |-> "paging", back |-> FALSE, id |-> 0, at |-> 0, first |-> 0,
                 present |-> Selected, got |-> {}, more |-> FALSE]
    BY <1>1 DEF NoPage
  <2>2. Selected \in SUBSET Nat
    BY <1>3
  <2> HIDE DEF OpenListing
  <2> QED BY <2>1, <2>2 DEF PageValue, PagePcs
<1>5. ListTyped'
  BY <1>4 DEF ListInv, ListTyped, Present
<1>6. KeysAreKnown' /\ WalkSawRows'
  BY <1>2, <1>3 DEF ListInv, KeysAreKnown, WalkSawRows, Present, Key
<1>7. OwedAreAhead' /\ EveryRowListed'
  BY <1>2 DEF OwedAreAhead, EveryRowListed, Selected, AfterBoundary, Present
<1> QED BY <1>5, <1>6, <1>7 DEF ListInv

\* The invariant holds again after a step of the client that keeps the list and
\* its rows and ends the walk as refused, or keeps what it owes ahead of it.
LEMMA WalkGoesOn ==
    ASSUME ListInv, UNCHANGED <<listing, stamp, rows, lastRow, rowMoves>>,
           page' \in PageValue, page'.back => Key # "processed",
           page'.present = page.present, page'.got \subseteq 1..lastRow, page'.pc # "idle",
           page'.pc \in {"paging", "peek"} => 
             \A i \in page.present \cap Present :
                rows[i].shown /\ (i \in page'.got \/ AfterBoundary(i)'),
           page'.pc = "done" => page.present \cap Present \subseteq page'.got
    PROVE  ListInv'
<1>1. ListTyped'
  BY DEF ListInv, ListTyped, Present
<1>2. KeysAreKnown' /\ WalkSawRows'
  BY DEF ListInv, KeysAreKnown, WalkSawRows, Present, Key
<1>3. OwedAreAhead' /\ EveryRowListed'
  BY DEF OwedAreAhead, EveryRowListed, Present
<1> QED BY <1>1, <1>2, <1>3 DEF ListInv

\* A page takes the rows it returns out of what is owed; the cursor stops at its
\* last row, and the rest is behind it.
LEMMA PageStep ==
    ASSUME ListInv, ListPage, \A l \in Listings : Paged(l)
    PROVE  ListInv'
<1> DEFINE found == PageRows
<1> DEFINE got == [page EXCEPT !.got = page.got \cup found.rows]
<1>1. /\ page.pc = "paging" /\ UNCHANGED <<listing, stamp, rows, lastRow, rowMoves>>
      /\ page' = CASE ~CursorKnown -> [page EXCEPT !.pc = "refused"]
                   [] CursorKnown /\ listing[1].cursor = "both" /\ found.rows # {} ->
                        [Turned(got, found) EXCEPT !.pc = "peek"]
                   [] CursorKnown /\ listing[1].cursor # "both" /\ found.more -> Turned(got, found)
                   [] OTHER -> [got EXCEPT !.pc = "done"]
  BY DEF ListPage
<1>2. ListTyped /\ KeysAreKnown /\ page \in PageValue /\ page.got \subseteq 1..lastRow
  BY DEF ListInv, ListTyped, WalkSawRows
<1>3. \A i \in page.present \cap Present : rows[i].shown /\ (i \in page.got \/ i \in Rest)
  BY <1>1 DEF ListInv, OwedAreAhead, Rest, Selected
<1>4. /\ found.rows \subseteq Rest
      /\ Rest # {} => found.rows # {}
      /\ ~found.more => found.rows = Rest
      /\ found.more => Rest # {}
      /\ \A i \in Rest \ found.rows, j \in found.rows : InOrder(j, i)
  BY <1>2, PageIsPrefix
<1>5. Rest \subseteq Present /\ Present \subseteq 1..lastRow /\ Present \subseteq Nat
  BY <1>2 DEF Rest, Selected, ListTyped
<1> HIDE DEF found
<1>6. /\ got \in PageValue /\ got.pc = "paging" /\ got.back = page.back
      /\ got.present = page.present /\ got.got = page.got \cup found.rows
  BY <1>1, <1>2, <1>4, <1>5 DEF PageValue
<1> HIDE DEF got
<1>7. CASE ~CursorKnown
  <2>1. page' = [page EXCEPT !.pc = "refused"]
    BY <1>1, <1>7
  <2>2. page' \in PageValue /\ page'.pc = "refused" /\ page'.back = page.back
        /\ page'.present = page.present /\ page'.got = page.got
    BY <2>1, <1>2 DEF PageValue, PagePcs
  <2> QED BY <2>2, <1>1, <1>2, WalkGoesOn DEF KeysAreKnown
<1>8. ASSUME found.rows # {}, NEW pc \in {"paging", "peek"},
             \/ page' = [Turned(got, found) EXCEPT !.pc = pc]
             \/ pc = "paging" /\ page' = Turned(got, found)
      PROVE  ListInv'
  <2> DEFINE last == CHOOSE i \in found.rows : \A j \in found.rows \ {i} : InOrder(j, i)
  <2> DEFINE first == CHOOSE i \in found.rows : \A j \in found.rows \ {i} : InOrder(i, j)
  <2>1. Turned(got, found) = [got EXCEPT !.id = last, !.at = rows[last].at, !.first = first]
    BY <1>8 DEF Turned
  <2>2. found.rows \in SUBSET Present
    BY <1>4, <1>5
  <2>3. /\ \E i \in found.rows : \A j \in found.rows \ {i} : InOrder(j, i)
        /\ \E i \in found.rows : \A j \in found.rows \ {i} : InOrder(i, j)
    BY <2>2, <1>2, <1>8, EndsExist
  <2>4. first \in found.rows /\ last \in found.rows
    BY <2>3
  <2> HIDE DEF first, last
  <2>5. first \in Nat /\ last \in Nat /\ rows[last].at \in Nat /\ last \in Present
    BY <2>4, <2>2, <1>2, <1>5 DEF ListTyped, RowValue
  <2>6. /\ page'.pc = pc /\ page'.back = page.back /\ page'.id = last /\ page'.at = rows[last].at
        /\ page'.present = page.present /\ page'.got = page.got \cup found.rows
        /\ page' \in PageValue
    <3>1. CASE page' = [Turned(got, found) EXCEPT !.pc = pc]
      BY <3>1, <2>1, <2>5, <1>6 DEF PageValue, PagePcs
    <3>2. CASE pc = "paging" /\ page' = Turned(got, found)
      BY <3>2, <2>1, <2>5, <1>6 DEF PageValue, PagePcs
    <3> QED BY <3>1, <3>2, <1>8
  <2>7. ListTyped'
    BY <2>6, <1>1, <1>2 DEF ListTyped, Present
  <2>8. ASSUME NEW i \in page.present \cap Present, i \notin page'.got
        PROVE  AfterBoundary(i)'
    <3>1. i \in Rest \ found.rows
      BY <2>8, <2>6, <1>3
    <3>2. InOrder(last, i)
      BY <3>1, <2>4, <1>4
    <3> QED BY <3>2, <2>5, <2>6, <2>7, <1>1, <1>2, BehindTheCursor
  <2>9. page'.got \subseteq 1..lastRow
    BY <2>6, <1>2, <1>4, <1>5
  <2> QED BY <2>6, <2>8, <2>9, <1>1, <1>2, <1>3, <1>8, WalkGoesOn DEF KeysAreKnown
<1>9. CASE CursorKnown /\ listing[1].cursor = "both" /\ found.rows # {}
  <2>1. page' = [Turned(got, found) EXCEPT !.pc = "peek"]
    BY <1>1, <1>9
  <2> QED BY <2>1, <1>8, <1>9
<1>10. CASE CursorKnown /\ listing[1].cursor # "both" /\ found.more
  <2>1. page' = Turned(got, found) /\ found.rows # {}
    BY <1>1, <1>4, <1>10
  <2> QED BY <2>1, <1>8
<1>11. CASE CursorKnown /\ ~(listing[1].cursor = "both" /\ found.rows # {})
                       /\ ~(listing[1].cursor # "both" /\ found.more)
  <2>1. page' = [got EXCEPT !.pc = "done"]
    BY <1>1, <1>11
  <2>2. page' \in PageValue /\ page'.pc = "done" /\ page'.back = page.back
        /\ page'.present = page.present /\ page'.got = page.got \cup found.rows
    BY <2>1, <1>6 DEF PageValue, PagePcs
  <2>3. found.rows = Rest
    BY <1>4, <1>11
  <2>4. page'.got \subseteq 1..lastRow
    BY <2>2, <1>2, <1>4, <1>5
  <2>5. page.present \cap Present \subseteq page'.got
    BY <2>2, <2>3, <1>3
  <2> QED BY <2>2, <2>4, <2>5, <1>1, <1>2, WalkGoesOn DEF KeysAreKnown
<1> QED BY <1>7, <1>9, <1>10, <1>11

\* The second query of the Session list: nothing is owed if it finds no row.
LEMMA PeekStep == ASSUME ListInv, SessionExistsRelative PROVE ListInv'
<1>1. /\ page.pc = "peek" /\ UNCHANGED <<listing, stamp, rows, lastRow, rowMoves>>
      /\ page' = [page EXCEPT !.pc = IF Rest # {} THEN "paging" ELSE "done"]
  BY DEF SessionExistsRelative, Rest
<1>2. KeysAreKnown /\ page \in PageValue /\ page.got \subseteq 1..lastRow
  BY DEF ListInv, ListTyped, WalkSawRows
<1>3. \A i \in page.present \cap Present : rows[i].shown /\ (i \in page.got \/ (i \in Rest
      /\ AfterBoundary(i)))
  BY <1>1 DEF ListInv, OwedAreAhead, Rest, Selected
<1>4. PICK pc \in {"paging", "done"} : pc = IF Rest # {} THEN "paging" ELSE "done"
  OBVIOUS
<1>5. /\ page' \in PageValue /\ page'.pc = pc /\ page'.back = page.back /\ page'.id = page.id
      /\ page'.at = page.at /\ page'.present = page.present /\ page'.got = page.got
  BY <1>1, <1>2, <1>4 DEF PageValue, PagePcs
<1>6. \A i : AfterBoundary(i) <=> AfterBoundary(i)'
  BY <1>1, <1>5 DEF AfterBoundary, EventBoundary, ResourceBoundary, Key, Desc
<1>7. page'.pc = "done" => page.present \cap Present \subseteq page'.got
  BY <1>3, <1>4, <1>5
<1> QED BY <1>1, <1>2, <1>3, <1>5, <1>6, <1>7, WalkGoesOn DEF KeysAreKnown

\* The client turns back: the rows from the first one of its page on count as
\* received, the ones before it are ahead in the opposite order.
LEMMA TurnStep == ASSUME ListInv, TurnBack, \A l \in Listings : Paged(l) PROVE ListInv'
<1>1. /\ UNCHANGED <<listing, stamp, rows, lastRow, rowMoves>> /\ page.first \in Present
      /\ page.pc = "paging" /\ ~page.back /\ listing[1].cursor = "both"
  BY DEF TurnBack
<1>2. /\ ListTyped /\ KeysAreKnown /\ page \in PageValue
      /\ Present \subseteq 1..lastRow /\ Present \subseteq Nat
      /\ \A i \in Present : i \in Nat \ {0} /\ rows[i].at \in Nat
  BY DEF ListInv, ListTyped, RowValue
<1>3. PICK seen \in SUBSET Present : seen = {i \in Present : i = page.first \/ InOrder(page.first, i)}
  OBVIOUS
<1>4. /\ page' \in PageValue /\ page'.pc = "paging" /\ page'.back = TRUE /\ page'.id = page.first
      /\ page'.at = rows[page.first].at /\ page'.present = page.present /\ page'.got = seen
  <2>1. page' = [page EXCEPT !.back = TRUE, !.id = page.first, !.at = rows[page.first].at, !.got = seen]
    BY <1>3 DEF TurnBack
  <2>2. seen \in SUBSET Nat
    BY <1>2
  <2>3. page.first \in Nat /\ rows[page.first].at \in Nat
    BY <1>1, <1>2
  <2> QED BY <2>1, <2>2, <2>3, <1>1, <1>2 DEF PageValue
<1>5. Key # "processed"
  BY <1>1, <1>2 DEF ListTyped, Paged, Key
<1>6. ASSUME NEW i \in Present, i \notin seen PROVE AfterBoundary(i)'
  <2>1. InOrder(i, page.first) /\ i \in Nat /\ rows[i].at \in Nat
    BY <1>1, <1>2, <1>3, <1>6, OrderIsStrict DEF ListTyped, RowValue
  <2>2. rows[i].at # 0 /\ rows[page.first].at # 0
    BY <1>1, <1>2, <1>5 DEF KeysAreKnown
  <2>3. page.first \in Nat /\ rows[page.first].at \in Nat /\ rows' = rows
    BY <1>1, <1>2
  <2>4. (Desc = page.back) <=> ~Desc
    BY <1>1, <1>2 DEF Desc, PageValue
  <2>5. (Desc' = page'.back) <=> Desc
    BY <1>1, <1>4 DEF Desc
  <2>6. IF Desc THEN Precedes(page.first, i) ELSE Precedes(i, page.first)
    BY <2>1, <2>4 DEF InOrder
  <2>7. IF Desc THEN rows'[i].at > page'.at \/ (rows'[i].at = page'.at /\ i > page'.id)
                ELSE rows'[i].at < page'.at \/ (rows'[i].at = page'.at /\ i < page'.id)
    BY <2>1, <2>2, <2>3, <2>6, <1>4 DEF Precedes
  <2>8. ResourceBoundary(i)'
    BY <2>5, <2>7 DEF ResourceBoundary
  <2> QED BY <2>8, <1>1, <1>4, <1>5 DEF AfterBoundary, Key
<1>7. \A i \in page.present \cap Present : rows[i].shown
  BY <1>1 DEF ListInv, OwedAreAhead
<1> QED BY <1>1, <1>2, <1>4, <1>5, <1>6, <1>7, WalkGoesOn

\* A change of the filter is refused: the cursor carries the parameters.
LEMMA FilterStep ==
    ASSUME ListInv, NEW parameter \in listing[2].filters, ChangeFilter(parameter),
           \A l \in Listings : Paged(l)
    PROVE  ListInv'
<1>1. parameter \in listing[2].bound
  BY DEF ListInv, ListTyped, Paged, ChangeFilter
<1>2. /\ page' = [page EXCEPT !.pc = "refused"]
      /\ UNCHANGED <<listing, stamp, rows, lastRow, rowMoves>>
  BY <1>1 DEF ChangeFilter
<1>3. KeysAreKnown /\ page \in PageValue /\ page.got \subseteq 1..lastRow
  BY DEF ListInv, ListTyped, WalkSawRows
<1>4. /\ page' \in PageValue /\ page'.pc = "refused" /\ page'.back = page.back
      /\ page'.present = page.present /\ page'.got = page.got
  BY <1>2, <1>3 DEF PageValue, PagePcs
<1> QED BY <1>2, <1>3, <1>4, WalkGoesOn DEF KeysAreKnown

\* A new row is none of those that the walk owes.
LEMMA InsertStep == ASSUME ListInv, InsertRow PROVE ListInv'
<1>1. /\ ListTyped /\ KeysAreKnown /\ WalkSawRows /\ OwedAreAhead /\ EveryRowListed
      /\ lastRow \in Nat /\ stamp \in Nat \ {0} /\ Present \subseteq 1..lastRow
      /\ rows \in [Present -> RowValue]
  BY DEF ListInv, ListTyped
<1>2. /\ lastRow' = lastRow + 1 /\ UNCHANGED <<listing, page, rowMoves>>
      /\ stamp' \in Nat \ {0}
      /\ \E at \in Nat, shown \in BOOLEAN :
            rows' = Inserted(at, shown) /\ (at = 0 => Key = "processed")
  <2>1. /\ lastRow' = lastRow + 1 /\ UNCHANGED <<listing, page, rowMoves>>
        /\ \/ Key = "processed" /\ rows' = Inserted(0, TRUE) /\ UNCHANGED stamp
           \/ Key \in {"processed", "version"} /\ Stamped /\ rows' = Inserted(stamp', TRUE)
           \/ /\ Key = "created" /\ (Stamped \/ UNCHANGED stamp)
              /\ \E shown \in {TRUE, "enter" \notin listing[1].changes} : rows' = Inserted(stamp',
                  shown)
           \/ /\ Key = "path" /\ UNCHANGED stamp
              /\ \E p \in 1..MaxStamp : /\ \A i \in Present : rows[i].at # p
                                        /\ rows' = Inserted(p, TRUE)
    BY DEF InsertRow
  <2>2. stamp' = stamp \/ stamp' = stamp + 1
    BY <2>1 DEF Stamped
  <2>7. stamp' \in Nat \ {0}
    BY <1>1, <2>2
  <2>3. ASSUME Key = "processed", rows' = Inserted(0, TRUE)
        PROVE  \E at \in Nat, shown \in BOOLEAN :
                  rows' = Inserted(at, shown) /\ (at = 0 => Key = "processed")
    BY <2>3
  <2>4. ASSUME NEW shown \in BOOLEAN, NEW at \in Nat \ {0}, rows' = Inserted(at, shown)
        PROVE  \E at2 \in Nat, shown2 \in BOOLEAN :
                  rows' = Inserted(at2, shown2) /\ (at2 = 0 => Key = "processed")
    BY <2>4
  <2>5. 1..MaxStamp \subseteq Nat \ {0}
    BY ListingAssumption
  <2>6. {TRUE, "enter" \notin listing[1].changes} \subseteq BOOLEAN
    OBVIOUS
  <2> QED BY <2>1, <2>7, <2>3, <2>4, <2>5, <2>6
<1>3. PICK at \in Nat, shown \in BOOLEAN : rows' = Inserted(at, shown) /\ (at = 0 => Key = "processed")
  BY <1>2
<1>4. /\ Present' = Present \cup {lastRow + 1} /\ lastRow + 1 \notin Present
      /\ rows' \in [Present' -> RowValue]
      /\ rows'[lastRow + 1].at = at /\ \A i \in Present : rows'[i] = rows[i]
  <2>1. lastRow + 1 \notin Present
    BY <1>1
  <2>2. rows' = [i \in Present \cup {lastRow + 1} |->
                    IF i = lastRow + 1 THEN [at |-> at, shown |-> shown] ELSE rows[i]]
    BY <1>2, <1>3 DEF Inserted
  <2>3. [at |-> at, shown |-> shown] \in RowValue
    BY DEF RowValue
  <2>4. Present' = Present \cup {lastRow + 1}
    BY <2>2 DEF Present
  <2> QED BY <2>1, <2>2, <2>3, <2>4, <1>1
<1>5. ListTyped'
  BY <1>1, <1>2, <1>4 DEF ListTyped
<1>6. KeysAreKnown'
  BY <1>1, <1>2, <1>3, <1>4 DEF KeysAreKnown, Key
<1>7. WalkSawRows'
  BY <1>1, <1>2 DEF WalkSawRows
<1>8. page.present \cap Present' = page.present \cap Present
  BY <1>1, <1>4 DEF WalkSawRows
<1>9. \A i \in Present : AfterBoundary(i) <=> AfterBoundary(i)'
  BY <1>2, <1>4 DEF AfterBoundary, EventBoundary, ResourceBoundary, Key, Desc
<1>10. OwedAreAhead' /\ EveryRowListed'
  BY <1>1, <1>2, <1>4, <1>8, <1>9 DEF OwedAreAhead, EveryRowListed
<1> QED BY <1>5, <1>6, <1>7, <1>10 DEF ListInv

\* An event that is processed was received, or is still ahead: only before the
\* first event without a key does the walk back through the keys begin.
LEMMA MarkStep ==
    ASSUME ListInv, MarkEventProcessed, \A l \in Listings : Paged(l)
    PROVE  ListInv'
<1>1. /\ ListTyped /\ KeysAreKnown /\ WalkSawRows /\ OwedAreAhead /\ EveryRowListed
      /\ stamp \in Nat \ {0} /\ rows \in [Present -> RowValue] /\ Paged(listing)
      /\ page \in PageValue
  BY DEF ListInv, ListTyped
<1>2. /\ UNCHANGED <<listing, lastRow, page, rowMoves>> /\ stamp' = stamp + 1
  BY DEF MarkEventProcessed, Stamped
<1>3. PICK e \in Present : rows[e].at = 0 /\ rows' = [rows EXCEPT ![e].at = stamp']
  BY DEF MarkEventProcessed
<1>4. /\ Present' = Present /\ rows' \in [Present -> RowValue]
      /\ rows'[e].at = stamp + 1 /\ rows'[e].shown = rows[e].shown
      /\ \A i \in Present \ {e} : rows'[i] = rows[i]
  BY <1>1, <1>2, <1>3 DEF Present, RowValue
<1>5. ListTyped'
  BY <1>1, <1>2, <1>4 DEF ListTyped
<1>6. KeysAreKnown' /\ WalkSawRows'
  BY <1>1, <1>2, <1>4 DEF KeysAreKnown, WalkSawRows, Key
<1>7. Key = "processed" /\ Desc /\ page.back = FALSE /\ Key' = Key /\ Desc' = Desc
  BY <1>1, <1>2, <1>3 DEF KeysAreKnown, Paged, Key, Desc, PageValue
<1>8. \A i \in Present \ {e} : AfterBoundary(i) <=> AfterBoundary(i)'
  BY <1>2, <1>4 DEF AfterBoundary, EventBoundary, ResourceBoundary, Key, Desc
<1>9. AfterBoundary(e) => AfterBoundary(e)'
  <2>1. ASSUME page.id # 0, EventBoundary(e) PROVE EventBoundary(e)'
    BY <2>1, <1>1, <1>2, <1>3, <1>4, <1>7 DEF EventBoundary, PageValue
  <2> QED BY <2>1, <1>2, <1>7 DEF AfterBoundary
<1>10. OwedAreAhead' /\ EveryRowListed'
  BY <1>1, <1>2, <1>4, <1>8, <1>9 DEF OwedAreAhead, EveryRowListed
<1> QED BY <1>5, <1>6, <1>10 DEF ListInv

\* The invariant holds again after a row has moved: the client relies on it no more.
LEMMA ListedRowMoves ==
    ASSUME ListInv, NEW i \in Present, Moved(i), page.pc # "idle",
           NEW P \in SUBSET Present, Present' = P, rows' \in [P -> RowValue],
           \A j \in P \ {i} : rows'[j] = rows[j],
           i \in P => (rows'[i].at = 0 => rows[i].at = 0)
    PROVE  ListInv'
<1>1. /\ ListTyped /\ KeysAreKnown /\ WalkSawRows /\ OwedAreAhead /\ EveryRowListed
      /\ page \in PageValue /\ rowMoves \in Nat
  BY DEF ListInv, ListTyped
<1>2. /\ page' = [page EXCEPT !.present = page.present \ {i}] /\ rowMoves' = rowMoves + 1
      /\ UNCHANGED <<listing, stamp, lastRow>>
  BY DEF Moved
<1>3. /\ page' \in PageValue /\ page'.pc = page.pc /\ page'.back = page.back /\ page'.id = page.id
      /\ page'.at = page.at /\ page'.got = page.got /\ page'.present = page.present \ {i}
  BY <1>1, <1>2 DEF PageValue
<1>4. ListTyped'
  BY <1>1, <1>2, <1>3 DEF ListTyped
<1>5. KeysAreKnown'
  BY <1>1, <1>2, <1>3 DEF KeysAreKnown, Key
<1>6. WalkSawRows'
  BY <1>1, <1>2, <1>3 DEF WalkSawRows
<1>7. \A j \in P \ {i} : AfterBoundary(j) <=> AfterBoundary(j)'
  BY <1>2, <1>3 DEF AfterBoundary, EventBoundary, ResourceBoundary, Key, Desc
<1>8. OwedAreAhead' /\ EveryRowListed'
  BY <1>1, <1>3, <1>7 DEF OwedAreAhead, EveryRowListed
<1> QED BY <1>4, <1>5, <1>6, <1>8 DEF ListInv

\* A row leaves the list, enters it, is deleted or gets another path.
LEMMA ListedRowStep ==
    ASSUME ListInv, NEW i \in Present,
           RowLeaves(i) \/ RowEnters(i) \/ DeleteRow(i) \/ RenameRow(i)
    PROVE  ListInv'
<1>1. rows \in [Present -> RowValue]
  BY DEF ListInv, ListTyped
<1>2. Moved(i) /\ page.pc # "idle"
  BY DEF RowLeaves, RowEnters, DeleteRow, RenameRow, May
<1>3. ASSUME NEW shown \in BOOLEAN, rows' = [rows EXCEPT ![i].shown = shown]
      PROVE  ListInv'
  <2>1. /\ Present' = Present /\ rows' \in [Present -> RowValue] /\ rows'[i].at = rows[i].at
        /\ \A j \in Present \ {i} : rows'[j] = rows[j]
    BY <1>1, <1>3 DEF Present, RowValue
  <2> QED BY <2>1, <1>2, ListedRowMoves
<1>4. CASE DeleteRow(i)
  <2>1. rows' = [j \in Present \ {i} |-> rows[j]]
    BY <1>4 DEF DeleteRow
  <2>2. /\ Present' = Present \ {i} /\ rows' \in [Present \ {i} -> RowValue]
        /\ \A j \in Present \ {i} : rows'[j] = rows[j]
    BY <2>1, <1>1 DEF Present
  <2>3. Present \ {i} \in SUBSET Present /\ i \notin Present \ {i}
        /\ (Present \ {i}) \ {i} = Present \ {i}
    OBVIOUS
  <2> QED BY <2>2, <2>3, <1>2, ListedRowMoves
<1>5. CASE RenameRow(i)
  <2>1. PICK p \in 1..MaxStamp : rows' = [rows EXCEPT ![i].at = p]
    BY <1>5 DEF RenameRow
  <2>2. p \in Nat \ {0}
    BY ListingAssumption
  <2>3. /\ Present' = Present /\ rows' \in [Present -> RowValue] /\ rows'[i].at = p
        /\ \A j \in Present \ {i} : rows'[j] = rows[j]
    BY <1>1, <2>1, <2>2 DEF Present, RowValue
  <2> QED BY <2>2, <2>3, <1>2, ListedRowMoves
<1> QED BY <1>3, <1>4, <1>5 DEF RowLeaves, RowEnters

\* Every step of a list keeps the invariant.
LEMMA ListStep ==
    ASSUME ListInv, [ListingNext]_listVars, \A l \in Listings : Paged(l)
    PROVE  ListInv'
<1>1. CASE UNCHANGED listVars
  BY <1>1 DEF listVars, ListInv, ListTyped, KeysAreKnown, WalkSawRows, OwedAreAhead, EveryRowListed,
         Present, Key, AfterBoundary, EventBoundary, ResourceBoundary, Desc
<1>2. CASE ListingNext
  BY <1>2, OpenStep, PageStep, PeekStep, TurnStep, FilterStep, InsertStep, MarkStep, ListedRowStep
     DEF ListingNext
<1> QED BY <1>1, <1>2

\* A client that pages through any list of the API to its end receives every row
\* that the list held throughout, for every number of rows and every page size.
THEOREM RowsListed ==
    ASSUME Listings \subseteq ApiLists
    PROVE  ListingSpec => []EveryRowListed
<1>1. \A l \in Listings : Paged(l)
  BY ApiListsArePaged
<1>2. ListInv /\ [ListingNext]_listVars => ListInv'
  BY <1>1, ListStep
<1>3. ListInv => EveryRowListed
  BY DEF ListInv
<1> QED BY <1>2, <1>3, ListInitInv, PTL DEF ListingSpec

=============================================================================
