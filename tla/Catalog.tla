------------------------------- MODULE Catalog -------------------------------
(***************************************************************************)
(* Agents, their versions and rosters, and an Environment, while Sessions  *)
(* are created from them.  Services read outside the transaction that      *)
(* writes, and PostgreSQL runs at READ COMMITTED: a statement works on the *)
(* rows its snapshot holds, waits for their locks, and then sees their     *)
(* last committed contents but no row that was inserted meanwhile.         *)
(* Writes and releases of locks happen at commit.  Every early return and  *)
(* every error rolls the call back without an effect: Rollback.            *)
(* Sources: internal/app/agent_service.go and environment_service.go,      *)
(* internal/pg/resources.go, internal/pg/store.go (createSession),         *)
(* internal/controlplane/session_service.go (Create).                      *)
(***************************************************************************)
EXTENDS Naturals, Sequences, FiniteSets

CONSTANTS
    AgentIds,         \* Agents
    Geos,             \* model.inference_geo
    CatalogClients,   \* concurrent calls
    MaxVersions,      \* bound: versions of one Agent
    MaxCatalogCalls   \* bound: calls made that change or use what exists

ASSUME CatalogAssumption == "kept" \notin Geos /\ {MaxVersions, MaxCatalogCalls} \subseteq Nat

VARIABLES
    agents,        \* per Agent: its versions (model geo, roster, archived)
    skillPin,      \* agent_skill_versions: the version that pins the Skills
    environment,   \* state, body, the body it was archived with
    admitted,      \* per Session created: were the rows it names active
    call,          \* per client: its call in progress
    catalogCalls

catalogVars == <<agents, skillPin, environment, admitted, call, catalogCalls>>

\* held: row locks <<row, mode>>; a row is <<agent, version>> or <<"env", 0>>
Begun(op, pc, a, geo, roster, seen) ==
    [op |-> op, pc |-> pc, agent |-> a, geo |-> geo, roster |-> roster,
     refs |-> {}, seen |-> seen, expected |-> 0, rows |-> 0, held |-> {}]
NoCall == Begun("none", "idle", "none", "kept", <<>>, 0)
EnvRow == <<"env", 0>>

CatalogInit ==
    /\ agents = [a \in AgentIds |-> <<>>] /\ skillPin = [a \in AgentIds |-> 0]
    /\ environment = [state |-> "absent", body |-> 0, frozen |-> 0]
    /\ admitted = <<>> /\ call = [c \in CatalogClients |-> NoCall] /\ catalogCalls = 0

LatestVersion(a) == Len(agents[a])
Exists(r) == r[1] \in AgentIds /\ r[2] \in 1..LatestVersion(r[1])
ActiveVersion(r) == Exists(r) /\ ~agents[r[1]][r[2]].archived
Lockable(c, row, mode) ==
    \A d \in CatalogClients \ {c} : \A h \in call[d].held :
        h[1] = row => mode = "share" /\ h[2] = "share"

Begins(c, started) ==
    /\ call[c].pc = "idle" /\ catalogCalls < MaxCatalogCalls /\ catalogCalls' = catalogCalls + 1
    /\ call' = [call EXCEPT ![c] = started]
Proceeds(c, pc) == call' = [call EXCEPT ![c].pc = pc]
Locks(c, row, mode, pc) ==
    /\ Lockable(c, row, mode)
    /\ call' = [call EXCEPT ![c].pc = pc, ![c].held = @ \cup {<<row, mode>>}]
Ends(c) == call' = [call EXCEPT ![c] = NoCall]

Rollback(c) ==
    /\ call[c].pc # "idle" /\ Ends(c)
    /\ UNCHANGED <<agents, skillPin, environment, admitted, catalogCalls>>

-----------------------------------------------------------------------------
(* Agents.  A roster request is a set of Agents, the owner standing for    *)
(* {"type": "self"}; a patch holds none, <<>>, or one, <<{...}>>; a stored  *)
(* roster pins versions.                                                   *)

\* Create: the id is new, the owner needs no read
CreateAgent(c, a, geo, roster) ==
    /\ agents[a] = <<>> /\ call[c].pc = "idle"
    /\ \A d \in CatalogClients : call[d].op = "create" => call[d].agent # a
    /\ call' = [call EXCEPT ![c] = Begun("create", "resolve", a, geo, <<roster>>, 0)]
    /\ UNCHANGED <<agents, skillPin, environment, admitted, catalogCalls>>

\* Update: only a patch that sets a roster reads the Agent first
UpdateAgent(c, a, geo, roster) ==
    /\ agents[a] # <<>>
    /\ Begins(c, Begun("update", IF roster \in {<<>>, <<{}>>} THEN "select" ELSE "read",
                       a, geo, roster, 0))
    /\ UNCHANGED <<agents, skillPin, environment, admitted>>

\* the version a roster patch expects under the lock
ImplicitPin(v) == v

ReadOwner(c) ==
    LET v == LatestVersion(call[c].agent)
    IN  /\ call[c].pc = "read" /\ ActiveVersion(<<call[c].agent, v>>)
        /\ call' = [call EXCEPT ![c].pc = "resolve", ![c].seen = v, ![c].expected = ImplicitPin(v)]
        /\ UNCHANGED <<agents, skillPin, environment, admitted, catalogCalls>>

\* the owner's model: the patch's, else the one that was read
OwnerGeo(c) ==
    IF call[c].geo = "kept" THEN agents[call[c].agent][call[c].seen].geo ELSE call[c].geo

\* a member is active, has no roster of its own and runs in the owner's geo
Callable(c, r) ==
    ActiveVersion(r) /\ agents[r[1]][r[2]].roster = {} /\ agents[r[1]][r[2]].geo = OwnerGeo(c)

\* resolveMultiagent: a self entry is bound to version 1 and rebound later
ResolveMultiagent(c) ==
    LET a == call[c].agent  wanted == call[c].roster[1]  others == wanted \ {a}
    IN  /\ call[c].pc = "resolve"
        /\ \E pin \in [others -> 1..MaxVersions] :
             /\ \A m \in others : Callable(c, <<m, pin[m]>>)
             /\ call' = [call EXCEPT ![c].pc = IF call[c].op = "create" THEN "put" ELSE "select",
                  ![c].refs = {<<m, pin[m]>> : m \in others}
                              \cup {<<a, 1>> : m \in wanted \cap {a}}]
        /\ UNCHANGED <<agents, skillPin, environment, admitted, catalogCalls>>

\* LockLatestAgent chooses its row in the snapshot of the statement, then waits
SelectLatestAgent(c) ==
    /\ call[c].pc = "select" /\ agents[call[c].agent] # <<>>
    /\ call' = [call EXCEPT ![c].pc = "wait", ![c].seen = LatestVersion(call[c].agent)]
    /\ UNCHANGED <<agents, skillPin, environment, admitted, catalogCalls>>

LockLatestAgent(c) ==
    /\ call[c].pc = "wait"
    /\ Locks(c, <<call[c].agent, call[c].seen>>, "update", call[c].op)
    /\ UNCHANGED <<agents, skillPin, environment, admitted, catalogCalls>>

RebindAgentVersion(roster, a, v) == {IF r[1] = a THEN <<a, v>> ELSE r : r \in roster}

\* Apply, on the locked version cur
AppliedPatch(c, cur) ==
    [cur EXCEPT !.geo = IF call[c].geo = "kept" THEN @ ELSE call[c].geo,
                !.roster = IF call[c].roster = <<>> THEN @
                           ELSE RebindAgentVersion(call[c].refs, call[c].agent, call[c].seen)]

HasExternalAgent(roster, a) == \E r \in roster : r[1] # a

\* the next version with its Skill pins; a patch that changes nothing commits
\* nothing; the primary key refuses a version that exists
UpdateVersion(c) ==
    LET a == call[c].agent  v == call[c].seen  cur == agents[a][v]  next == AppliedPatch(c, cur)
    IN  /\ call[c].pc = "update" /\ ~cur.archived /\ call[c].expected \in {0, v}
        /\ next # cur \/ (call[c].geo = "kept" /\ call[c].roster = <<>>)
        /\ call[c].roster = <<>> /\ next.geo # cur.geo => ~HasExternalAgent(cur.roster, a)
        /\ LatestVersion(a) = v /\ v < MaxVersions
        /\ agents' = [agents EXCEPT ![a] = Append(@,
             [next EXCEPT !.roster = RebindAgentVersion(next.roster, a, v + 1)])]
        /\ skillPin' = [skillPin EXCEPT ![a] = v + 1] /\ Ends(c)
        /\ UNCHANGED <<environment, admitted, catalogCalls>>

PutVersion(c) ==
    LET a == call[c].agent
    IN  /\ call[c].pc = "put"
        /\ agents' = [agents EXCEPT ![a] =
             <<[geo |-> call[c].geo, roster |-> call[c].refs, archived |-> FALSE]>>]
        /\ skillPin' = [skillPin EXCEPT ![a] = 1] /\ Ends(c)
        /\ UNCHANGED <<environment, admitted, catalogCalls>>

\* Archive: the fence is the lock of the latest version
ArchiveAgent(c, a) ==
    /\ agents[a] # <<>>
    /\ Begins(c, Begun("archive", "select", a, "kept", <<>>, 0))
    /\ UNCHANGED <<agents, skillPin, environment, admitted>>

\* the UPDATE statement: its snapshot holds the versions committed by now
ArchiveStatement(c) ==
    /\ call[c].pc = "archive"
    /\ call' = [call EXCEPT ![c].pc = "archiving", ![c].rows = LatestVersion(call[c].agent)]
    /\ UNCHANGED <<agents, skillPin, environment, admitted, catalogCalls>>

\* it waits for each of them; then the pins of all versions go
ArchiveVersions(c) ==
    LET a == call[c].agent
    IN  /\ call[c].pc = "archiving"
        /\ \A v \in 1..call[c].rows : Lockable(c, <<a, v>>, "update")
        /\ agents' = [agents EXCEPT ![a] = [v \in DOMAIN @ |->
             IF v <= call[c].rows THEN [@[v] EXCEPT !.archived = TRUE] ELSE @[v]]]
        /\ skillPin' = [skillPin EXCEPT ![a] = 0] /\ Ends(c)
        /\ UNCHANGED <<environment, admitted, catalogCalls>>

-----------------------------------------------------------------------------
(* The Environment: each write is one statement of its own transaction     *)

EnvActive == environment.state = "active"

CreateEnvironment(c) ==
    /\ call[c].pc = "idle" /\ environment.state = "absent"
    /\ environment' = [environment EXCEPT !.state = "active"]
    /\ UNCHANGED <<agents, skillPin, admitted, call, catalogCalls>>

\* Update reads the Environment and merges the patch into what it read
ReadEnvironmentForUpdate(c) ==
    /\ EnvActive /\ Begins(c, Begun("environment", "write", "none", "kept", <<>>, 0))
    /\ UNCHANGED <<agents, skillPin, environment, admitted>>

\* Mutant: the row is written whatever happened since it was read.
WritableOnceRead == environment.state \in {"active", "archived"}

\* WHERE archived_at IS NULL, decided again when the row is written
Writable == EnvActive

UpdateEnvironment(c) ==
    /\ call[c].pc = "write" /\ Writable /\ Lockable(c, EnvRow, "update")
    /\ environment' = [environment EXCEPT !.body = @ + 1] /\ Ends(c)
    /\ UNCHANGED <<agents, skillPin, admitted, catalogCalls>>

\* idempotent: archived_at and the body stay as they are
ArchiveEnvironment(c) ==
    /\ call[c].pc = "idle" /\ EnvActive /\ Lockable(c, EnvRow, "update")
    /\ environment' = [environment EXCEPT !.state = "archived", !.frozen = environment.body]
    /\ UNCHANGED <<agents, skillPin, admitted, call, catalogCalls>>

\* DeleteEnvironmentIfUnreferenced: NOT EXISTS is decided in the snapshot; no
\* Session row in it refers to the Environment
DeleteStatement(c) ==
    /\ environment.state \in {"active", "archived"} /\ admitted = <<>>
    /\ Begins(c, Begun("environment", "delete", "none", "kept", <<>>, 0))
    /\ UNCHANGED <<agents, skillPin, environment, admitted>>

DeleteEnvironment(c) ==
    /\ call[c].pc = "delete" /\ environment.state \in {"active", "archived"}
    /\ Lockable(c, EnvRow, "update")
    /\ environment' = [environment EXCEPT !.state = "deleted"] /\ Ends(c)
    /\ UNCHANGED <<agents, skillPin, admitted, catalogCalls>>

-----------------------------------------------------------------------------
(* Session creation: Create reads, createSession locks                     *)

\* the latest version, or the one the request names
ReadAgent(c, a, v) ==
    /\ ActiveVersion(<<a, v>>)
    /\ Begins(c, Begun("session", "environment", a, "kept", <<>>, v))
    /\ UNCHANGED <<agents, skillPin, environment, admitted>>

ReadEnvironment(c) ==
    /\ call[c].pc = "environment" /\ EnvActive /\ Proceeds(c, "roster")
    /\ UNCHANGED <<agents, skillPin, environment, admitted, catalogCalls>>

\* the members other than the coordinator itself
SessionMembers(c) == {r \in agents[call[c].agent][call[c].seen].roster : r[1] # call[c].agent}

ResolveSessionRoster(c) ==
    /\ call[c].pc = "roster" /\ \A r \in SessionMembers(c) : ActiveVersion(r)
    /\ Proceeds(c, "lockAgent")
    /\ UNCHANGED <<agents, skillPin, environment, admitted, catalogCalls>>

\* WHERE archived_at IS NULL, decided again once the row is locked
StillActive(r) == ActiveVersion(r)

LockActiveAgentVersion(c) ==
    LET r == <<call[c].agent, call[c].seen>>
    IN  /\ call[c].pc = "lockAgent" /\ StillActive(r) /\ Locks(c, r, "share", "lockRoster")
        /\ UNCHANGED <<agents, skillPin, environment, admitted, catalogCalls>>

LockActiveSessionRoster(c) ==
    /\ call[c].pc = "lockRoster"
    /\ \E r \in SessionMembers(c) :
         <<r, "share">> \notin call[c].held /\ StillActive(r) /\ Locks(c, r, "share", "lockRoster")
    /\ UNCHANGED <<agents, skillPin, environment, admitted, catalogCalls>>

LockActiveEnvironment(c) ==
    /\ call[c].pc = "lockRoster" /\ \A r \in SessionMembers(c) : <<r, "share">> \in call[c].held
    /\ EnvActive /\ Locks(c, EnvRow, "share", "insert")
    /\ UNCHANGED <<agents, skillPin, environment, admitted, catalogCalls>>

\* InsertSession, its primary Thread, Skills, Vaults and Resources, and commit
InsertSession(c) ==
    LET named == {<<call[c].agent, call[c].seen>>} \cup SessionMembers(c)
    IN  /\ call[c].pc = "insert" /\ Ends(c)
        /\ admitted' = Append(admitted, EnvActive /\ \A r \in named : ActiveVersion(r))
        /\ UNCHANGED <<agents, skillPin, environment, catalogCalls>>

CatalogNext ==
    \E c \in CatalogClients :
        \/ \E a \in AgentIds :
             \/ \E geo \in Geos, roster \in SUBSET AgentIds : CreateAgent(c, a, geo, roster)
             \/ \E geo \in Geos \cup {"kept"}, roster \in {<<>>} \cup {<<s>> : s \in SUBSET AgentIds} :
                  UpdateAgent(c, a, geo, roster)
             \/ ArchiveAgent(c, a)
             \/ \E v \in 1..MaxVersions : ReadAgent(c, a, v)
        \/ ReadOwner(c) \/ ResolveMultiagent(c) \/ SelectLatestAgent(c) \/ LockLatestAgent(c)
        \/ UpdateVersion(c) \/ PutVersion(c) \/ ArchiveStatement(c) \/ ArchiveVersions(c)
        \/ CreateEnvironment(c) \/ ReadEnvironmentForUpdate(c) \/ UpdateEnvironment(c)
        \/ ArchiveEnvironment(c) \/ DeleteStatement(c) \/ DeleteEnvironment(c)
        \/ ReadEnvironment(c) \/ ResolveSessionRoster(c) \/ LockActiveAgentVersion(c)
        \/ LockActiveSessionRoster(c) \/ LockActiveEnvironment(c) \/ InsertSession(c)
        \/ Rollback(c)

CatalogSpec == CatalogInit /\ [][CatalogNext]_catalogVars

-----------------------------------------------------------------------------
(* Properties                                                              *)

\* Rows are of their kinds, a roster names versions that exist, and no two callers
\* hold a row against each other.
CatalogTypeOK ==
    /\ \A a \in AgentIds : \A v \in 1..LatestVersion(a) :
         /\ agents[a][v].geo \in Geos /\ agents[a][v].archived \in BOOLEAN
         /\ \A r \in agents[a][v].roster : Exists(r)
    /\ environment.state \in {"absent", "active", "archived", "deleted"}
    /\ \A c \in CatalogClients, d \in CatalogClients : \A h \in call[c].held :
         c # d /\ h[2] = "update" => \A i \in call[d].held : i[1] # h[1]

\* A Session is only created while the Agent version, every roster member and
\* the Environment it names are active, however long before they were read.
AdmittedAgainstActive == \A s \in DOMAIN admitted : admitted[s]

\* Every version's roster agrees with the version's own model, although members
\* are resolved before the lock: same inference_geo, no member with a roster
\* of its own, and a self entry that names the version holding it.
RosterAdmissible ==
    \A a \in AgentIds : \A v \in 1..LatestVersion(a) : \A r \in agents[a][v].roster :
        IF r[1] = a THEN r[2] = v
        ELSE agents[r[1]][r[2]].geo = agents[a][v].geo /\ agents[r[1]][r[2]].roster = {}

\* An update that read the Environment before it was archived never changes it.
ArchivedEnvironmentFrozen == environment.state = "archived" => environment.body = environment.frozen

\* What is read before a transaction is decided again inside it: Sessions name
\* active rows, rosters agree with their coordinator, archived stays archived.
ReadsAreRechecked == AdmittedAgainstActive /\ RosterAdmissible /\ ArchivedEnvironmentFrozen

\* Deleting an Environment that is not in use cannot race a Session creation:
\* no Session names an Environment that is gone (the comment on
\* EnvironmentRepository).
NoOrphanedSession == environment.state = "deleted" => admitted = <<>>

\* The latest version of an Agent is pinned as long as it is active: Archive
\* cannot take the pins of a version it did not archive (the comment in Archive).
ActiveVersionPinned ==
    \A a \in AgentIds : agents[a] # <<>> /\ ~agents[a][LatestVersion(a)].archived =>
        skillPin[a] = LatestVersion(a)
=============================================================================
