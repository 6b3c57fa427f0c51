-------------------------- MODULE SandboxProviders --------------------------
(***************************************************************************)
(* What the sandbox providers do behind Provider.Create, Attach and        *)
(* Destroy for one Session: two workers look the sandbox up, create it,    *)
(* recover from a lost answer and tear it down, and the Docker provider    *)
(* reaps the host directories no container mounts.  SandboxLifecycle       *)
(* models the manager above them.                                          *)
(* Sources: internal/sandbox/docker.go, docker_resources.go, e2b.go,       *)
(* opensandbox.go, daytona.go, local.go, remote.go.                        *)
(***************************************************************************)
EXTENDS Naturals, FiniteSets

CONSTANTS
    ProviderNames,      \* the providers to check
    Callers,            \* workers that acquire the Session's sandbox
    Grace,              \* dockerResourceReapGrace
    CreateTimeout,      \* the longest an Activity that is creating may run
    MaxProviderBoxes,   \* bound: sandboxes ever created
    MaxRoots,           \* bound: resource roots ever created
    MaxProviderFaults   \* bound: failed calls, lost answers and crashes

ASSUME ProviderAssumption ==
    /\ ProviderNames \subseteq {"docker", "e2b", "opensandbox", "daytona", "local"}
    /\ CreateTimeout < Grace /\ {Grace, CreateTimeout} \subseteq Nat
    /\ {MaxProviderBoxes, MaxRoots, MaxProviderFaults} \subseteq Nat

\* What tells the providers' Create functions apart: the call that looks for an
\* earlier sandbox, whether the provider refuses a second one with the same
\* name, and whether a sandbox that cannot be set up is destroyed.
ProviderTrait(lookup, unique, discards) ==
    [lookup |-> lookup, unique |-> unique, discards |-> discards]

Docker      == ProviderTrait("inspect", TRUE, TRUE)
E2B         == ProviderTrait("metadata", FALSE, TRUE)
OpenSandbox == ProviderTrait("metadata", FALSE, TRUE)
Daytona     == ProviderTrait("name", TRUE, FALSE)
Local       == ProviderTrait("mkdir", TRUE, FALSE)

Trait(p) == CASE p = "docker" -> Docker [] p = "e2b" -> E2B [] p = "opensandbox" -> OpenSandbox
              [] p = "daytona" -> Daytona [] p = "local" -> Local

VARIABLES
    kind,      \* the provider of this behaviour
    boxes,     \* its sandboxes: the root they mount (0: none) and whether they run
    roots,     \* docker: the resource directories on the host, with their age
    creator,   \* each worker: pc, its sandbox and its new root
    audit,     \* docker: the pass of the reaper
    lastBox, lastRoot, raced, providerFaults

providerVars ==
    <<kind, boxes, roots, creator, audit, lastBox, lastRoot, raced, providerFaults>>

Idle == [pc |-> "idle", box |-> 0, root |-> 0]
NoAudit == [pc |-> "idle", stale |-> {}, active |-> {}]

ProviderInit ==
    /\ kind \in ProviderNames
    /\ boxes = [b \in {} |-> 0] /\ roots = [r \in {} |-> 0]
    /\ creator = [c \in Callers |-> Idle] /\ audit = NoAudit
    /\ lastBox = 0 /\ lastRoot = 0 /\ raced = FALSE /\ providerFaults = 0

Existing == DOMAIN boxes
Drop(f, x) == [y \in DOMAIN f \ {x} |-> f[y]]
Goes(c, pc) == creator' = [creator EXCEPT ![c].pc = pc]
Gets(c, b) == creator' = [creator EXCEPT ![c] = [pc |-> "attached", box |-> b, root |-> boxes'[b].root]]
GivesUp(c) == creator' = [creator EXCEPT ![c] = Idle]
PcIs(c, pc) == creator[c].pc = pc
Fault == providerFaults < MaxProviderFaults /\ providerFaults' = providerFaults + 1
NoFault == UNCHANGED providerFaults

NewBox(root, running) ==
    /\ lastBox < MaxProviderBoxes /\ lastBox' = lastBox + 1
    /\ boxes' = [b \in Existing \cup {lastBox + 1} |->
                   IF b = lastBox + 1 THEN [root |-> root, running |-> running] ELSE boxes[b]]

\* two workers have both found nothing
Races(c) == raced' = (raced \/ \E d \in Callers \ {c} : creator[d].pc \in {"root", "image", "create"})

-----------------------------------------------------------------------------
(* Docker: the container's name is derived from the Session                *)

\* attachTarget: inspect, start a stopped container, recover its root
AttachTarget(c, b) ==
    /\ boxes' = [boxes EXCEPT ![b].running = TRUE]
    /\ Gets(c, b)

DockerLookup(c) ==
    /\ kind = "docker" /\ PcIs(c, "idle")
    /\ \/ Fault /\ UNCHANGED <<boxes, creator, raced>>
       \/ NoFault /\ Existing # {} /\ UNCHANGED raced /\ \E b \in Existing : AttachTarget(c, b)
       \/ NoFault /\ Existing = {} /\ Races(c) /\ Goes(c, "root") /\ UNCHANGED boxes
    /\ UNCHANGED <<kind, roots, audit, lastBox, lastRoot>>

\* ensureResourceRoot: a new directory for every container
EnsureResourceRoot(c) ==
    /\ PcIs(c, "root") /\ lastRoot < MaxRoots /\ lastRoot' = lastRoot + 1
    /\ \/ Fault /\ GivesUp(c) /\ UNCHANGED roots
       \/ /\ NoFault
          /\ roots' = [r \in DOMAIN roots \cup {lastRoot + 1} |-> IF r = lastRoot + 1 THEN 0 ELSE roots[r]]
          /\ creator' = [creator EXCEPT ![c].pc = "image", ![c].root = lastRoot + 1]
    /\ UNCHANGED <<kind, boxes, audit, lastBox, raced>>

\* ensureImage: until the container is asked for, every error removes the root
EnsureImage(c) ==
    /\ PcIs(c, "image")
    /\ \/ NoFault /\ Goes(c, "create") /\ UNCHANGED roots
       \/ Fault /\ GivesUp(c) /\ roots' = Drop(roots, creator[c].root)
    /\ UNCHANGED <<kind, boxes, audit, lastBox, lastRoot, raced>>

\* Mutant: every error removes the root.
RootAfterDropped(c, failure) == Drop(roots, creator[c].root)

\* the root of a create that failed: kept unless the daemon surely rejected it
RootAfter(c, failure) == IF failure = "rejected" THEN Drop(roots, creator[c].root) ELSE roots

ContainerCreate(c) ==
    /\ kind = "docker" /\ PcIs(c, "create")
    /\ \/ Existing = {} /\ NoFault /\ NewBox(creator[c].root, FALSE) /\ Goes(c, "start") /\ UNCHANGED roots
       \/ Existing # {} /\ NoFault /\ Goes(c, "conflict") /\ UNCHANGED <<boxes, lastBox, roots>>
       \/ /\ Existing = {} /\ Fault /\ NewBox(creator[c].root, FALSE) /\ GivesUp(c)
          /\ roots' = RootAfter(c, "lost")
       \/ \E failure \in {"rejected", "lost"} :
            Fault /\ GivesUp(c) /\ roots' = RootAfter(c, failure) /\ UNCHANGED <<boxes, lastBox>>
    /\ UNCHANGED <<kind, audit, lastRoot, raced>>

\* the loser attaches to the winner; its own root goes either way
ResolveConflict(c) ==
    /\ PcIs(c, "conflict") /\ roots' = Drop(roots, creator[c].root)
    /\ \/ NoFault /\ \E b \in Existing : AttachTarget(c, b)
       \/ (IF Existing = {} THEN NoFault ELSE Fault) /\ GivesUp(c) /\ UNCHANGED boxes
    /\ UNCHANGED <<kind, audit, lastBox, lastRoot, raced>>

ContainerStart(c) ==
    LET b == CHOOSE x \in Existing : boxes[x].root = creator[c].root
        mine == \E x \in Existing : boxes[x].root = creator[c].root
    IN  /\ PcIs(c, "start")
        /\ \/ NoFault /\ mine /\ boxes' = [boxes EXCEPT ![b].running = TRUE] /\ Gets(c, b)
           \/ (IF mine THEN Fault ELSE NoFault) /\ Goes(c, "remove") /\ UNCHANGED boxes
        /\ UNCHANGED <<kind, roots, audit, lastBox, lastRoot, raced>>

\* forceRemove: the root follows only a removal that was acknowledged
ForceRemove(c) ==
    LET mine == {x \in Existing : boxes[x].root = creator[c].root}
        gone == [x \in Existing \ mine |-> boxes[x]]
    IN  /\ PcIs(c, "remove") /\ GivesUp(c)
        /\ \/ NoFault /\ boxes' = gone /\ roots' = Drop(roots, creator[c].root)
           \/ Fault /\ boxes' \in {boxes, gone} /\ UNCHANGED roots
        /\ UNCHANGED <<kind, audit, lastBox, lastRoot, raced>>

\* Destroy: the container, then its root
DockerDestroy(c) ==
    LET b == creator[c].box
    IN  /\ kind = "docker" /\ PcIs(c, "attached")
        /\ \/ NoFault /\ boxes' = Drop(boxes, b)
              /\ Goes(c, "unroot")
           \/ Fault /\ boxes' \in {boxes, Drop(boxes, b)} /\ GivesUp(c)
        /\ UNCHANGED <<kind, roots, audit, lastBox, lastRoot, raced>>

RemoveRoot(c) ==
    /\ PcIs(c, "unroot") /\ GivesUp(c) /\ roots' = Drop(roots, creator[c].root)
    /\ UNCHANGED <<kind, boxes, audit, lastBox, lastRoot, raced, providerFaults>>

-----------------------------------------------------------------------------
(* The reaper: auditResourceRoots, reapStaleResourceRoots                  *)

AuditResourceRoots ==
    /\ kind = "docker" /\ audit.pc = "idle" /\ \E r \in DOMAIN roots : roots[r] = Grace
    /\ audit' = [pc |-> "list", stale |-> {r \in DOMAIN roots : roots[r] = Grace}, active |-> {}]
    /\ UNCHANGED <<kind, boxes, roots, creator, lastBox, lastRoot, raced, providerFaults>>

\* activeDockerResourceRoots: the set is complete or the pass ends
Mounted == {boxes[b].root : b \in Existing}

ActiveRoots ==
    /\ audit.pc = "list"
    /\ \/ NoFault /\ audit' = [audit EXCEPT !.pc = "reap", !.active = Mounted]
       \/ Fault /\ audit' = NoAudit
    /\ UNCHANGED <<kind, boxes, roots, creator, lastBox, lastRoot, raced>>

ReapRoots ==
    /\ audit.pc = "reap" /\ audit' = NoAudit
    /\ roots' = [r \in DOMAIN roots \ (audit.stale \ audit.active) |-> roots[r]]
    /\ UNCHANGED <<kind, boxes, creator, lastBox, lastRoot, raced, providerFaults>>

\* Roots grow older; an Activity that is still creating has not timed out.
ProviderTick ==
    /\ kind = "docker" /\ \E r \in DOMAIN roots : roots[r] < Grace
    /\ \A c \in Callers : creator[c].pc \in {"image", "create"} => roots[creator[c].root] < CreateTimeout
    /\ roots' = [r \in DOMAIN roots |-> IF roots[r] < Grace THEN roots[r] + 1 ELSE Grace]
    /\ UNCHANGED <<kind, boxes, creator, audit, lastBox, lastRoot, raced, providerFaults>>

-----------------------------------------------------------------------------
(* The remote providers and the local one                                  *)

Remote == kind \notin {"docker", "local"}

\* findSession (metadata), Get by name: the matches in the order of their ids
FindSession == Existing

First(found) == CHOOSE b \in found : \A d \in found : b <= d

FindRemote(c) ==
    /\ Remote /\ PcIs(c, "idle")
    /\ \/ Fault /\ UNCHANGED <<creator, raced>>
       \/ /\ NoFault /\ FindSession # {} /\ UNCHANGED raced
          /\ creator' = [creator EXCEPT ![c].pc = "attach", ![c].box = First(FindSession)]
       \/ NoFault /\ FindSession = {} /\ Races(c) /\ Goes(c, "create")
    /\ UNCHANGED <<kind, boxes, roots, audit, lastBox, lastRoot>>

\* The answer may be lost after the sandbox was made.
CreateRemote(c) ==
    /\ Remote /\ PcIs(c, "create")
    /\ \/ /\ NoFault /\ (Trait(kind).unique => Existing = {}) /\ NewBox(0, TRUE)
          /\ creator' = [creator EXCEPT ![c].pc = IF Trait(kind).discards THEN "setup" ELSE "attach",
                                      ![c].box = lastBox + 1]
       \/ (Trait(kind).unique => Existing = {}) /\ Fault /\ NewBox(0, TRUE) /\ Goes(c, "recover")
       \/ /\ Trait(kind).unique /\ Existing # {} /\ NoFault /\ Goes(c, "recover")
          /\ UNCHANGED <<boxes, lastBox>>
       \/ Fault /\ Goes(c, "recover") /\ UNCHANGED <<boxes, lastBox>>
    /\ UNCHANGED <<kind, roots, audit, lastRoot, raced>>

\* after an error of Create: the same lookup again
RecoverRemote(c) ==
    /\ PcIs(c, "recover")
    /\ \/ /\ NoFault /\ FindSession # {}
          /\ creator' = [creator EXCEPT ![c].pc = "attach", ![c].box = First(FindSession)]
       \/ (IF FindSession = {} THEN NoFault ELSE Fault) /\ GivesUp(c)
    /\ UNCHANGED <<kind, boxes, roots, audit, lastBox, lastRoot, raced>>

\* Attach: Get, Connect or Start, ensureRoot; ErrNotFound when it is gone
AttachRemote(c) ==
    LET b == creator[c].box
    IN  /\ PcIs(c, "attach")
        /\ \/ NoFault /\ b \in Existing /\ AttachTarget(c, b)
           \/ (IF b \in Existing THEN Fault ELSE NoFault) /\ GivesUp(c) /\ UNCHANGED boxes
        /\ UNCHANGED <<kind, roots, audit, lastBox, lastRoot, raced>>

\* ensureRoot of a new sandbox: a failure destroys it, if the call gets through
SetUpRemote(c) ==
    LET b == creator[c].box
    IN  /\ PcIs(c, "setup")
        /\ \/ NoFault /\ b \in Existing /\ UNCHANGED boxes /\ Gets(c, b)
           \/ /\ (IF b \in Existing THEN Fault ELSE NoFault) /\ GivesUp(c)
              /\ boxes' \in {boxes, Drop(boxes, b)}
        /\ UNCHANGED <<kind, roots, audit, lastBox, lastRoot, raced>>

\* local: MkdirAll makes the directory or finds it
LocalCreate(c) ==
    /\ Trait(kind).lookup = "mkdir" /\ PcIs(c, "idle") /\ NoFault
    /\ \/ Existing = {} /\ NewBox(0, TRUE) /\ Gets(c, lastBox + 1)
       \/ Existing # {} /\ UNCHANGED lastBox /\ \E b \in Existing : AttachTarget(c, b)
    /\ UNCHANGED <<kind, roots, audit, lastRoot, raced>>

DestroyRemote(c) ==
    /\ kind # "docker" /\ PcIs(c, "attached") /\ GivesUp(c)
    /\ \/ NoFault /\ boxes' = Drop(boxes, creator[c].box)
       \/ Fault /\ boxes' \in {boxes, Drop(boxes, creator[c].box)}
    /\ UNCHANGED <<kind, roots, audit, lastBox, lastRoot, raced>>

-----------------------------------------------------------------------------
\* A later tool call attaches by the reference in the Session's binding.
Reattach(c) ==
    /\ PcIs(c, "attached") /\ NoFault
    /\ IF creator[c].box \in Existing THEN AttachTarget(c, creator[c].box)
                                     ELSE GivesUp(c) /\ UNCHANGED boxes
    /\ UNCHANGED <<kind, roots, audit, lastBox, lastRoot, raced>>

\* A command that timed out kills the container; the provider pauses an idle one.
StopBox(b) ==
    /\ boxes[b].running /\ boxes' = [boxes EXCEPT ![b].running = FALSE]
    /\ UNCHANGED <<kind, roots, creator, audit, lastBox, lastRoot, raced, providerFaults>>

\* The worker process dies; whatever it had asked for stays.
WorkerDies(c) ==
    /\ ~PcIs(c, "idle") /\ Fault /\ GivesUp(c)
    /\ UNCHANGED <<kind, boxes, roots, audit, lastBox, lastRoot, raced>>

ProviderNext ==
    \/ \E c \in Callers :
         \/ DockerLookup(c) \/ EnsureResourceRoot(c) \/ EnsureImage(c) \/ ContainerCreate(c)
         \/ ResolveConflict(c) \/ ContainerStart(c) \/ ForceRemove(c) \/ DockerDestroy(c)
         \/ RemoveRoot(c) \/ FindRemote(c) \/ CreateRemote(c) \/ RecoverRemote(c)
         \/ AttachRemote(c) \/ SetUpRemote(c) \/ LocalCreate(c) \/ DestroyRemote(c)
         \/ Reattach(c) \/ WorkerDies(c)
    \/ AuditResourceRoots \/ ActiveRoots \/ ReapRoots \/ ProviderTick
    \/ \E b \in Existing : StopBox(b)

ProviderSpec == ProviderInit /\ [][ProviderNext]_providerVars

-----------------------------------------------------------------------------
(* Properties                                                              *)

\* Boxes and roots were created before anything names them.
ProviderTypeOK ==
    /\ \A b \in Existing : boxes[b].root \in 0..lastRoot /\ boxes[b].running \in BOOLEAN
    /\ DOMAIN roots \subseteq 1..lastRoot /\ \A r \in DOMAIN roots : roots[r] \in 0..Grace
    /\ \A c \in Callers : creator[c].box \in 0..lastBox

\* A container never loses the host directory its Session's files, Skills and
\* outputs are mounted from: not to a create that failed or lost its answer, not
\* to the loser of a race, not to the reaper, while the container exists.
MountedRootKept == kind = "docker" => Mounted \subseteq DOMAIN roots

\* However many attempts fail, lose their answers or die, the Session has a
\* second sandbox only when two workers created at once at a provider without
\* unique names.
RetriesFindTheBox == Cardinality(Existing) > 1 => raced /\ ~Trait(kind).unique

\* Create and Destroy can be retried after any failure: the Session keeps one
\* sandbox, with its directory.
ProvidersAreIdempotent == MountedRootKept /\ RetriesFindTheBox
=============================================================================
