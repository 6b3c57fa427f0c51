----------------------------- MODULE MemoryStore -----------------------------
(***************************************************************************)
(* A Memory Store shared by Sessions: its heads and versions in            *)
(* PostgreSQL, the copy and the baseline in each Session's sandbox, and    *)
(* the synchronization before and after every tool.  API clients write     *)
(* the same Store.  Each tool writes its own name as content, so that a    *)
(* version tells whose write it is.                                        *)
(* Sources: internal/pg/memory.go, internal/app/memory_service.go and      *)
(* session_memory_materializer.go, internal/sandbox/docker_memory.go,      *)
(* docker_resources.go and remote_resource_sync.go,                        *)
(* internal/temporal/activities.go (ExecuteTool).                          *)
(***************************************************************************)
EXTENDS Naturals, FiniteSets

CONSTANTS
    MemSessions,    \* Sessions with the Store attached read_write
    MemTools,       \* tool executions
    HomeOf,         \* the Session of each tool
    Paths,          \* Memory paths
    MaxMemories,    \* MaxMemoriesPerStore
    MaxMemWrites,   \* bound: writes of API clients
    MaxMemFaults    \* bound: interrupted refreshes

NoContent == "none"
ClientContents == {"client1", "client2"}

ASSUME MemoryAssumption ==
    /\ HomeOf \in [MemTools -> MemSessions]
    /\ MemTools \cap (ClientContents \cup {NoContent}) = {}
    /\ {MaxMemories, MaxMemWrites, MaxMemFaults} \subseteq Nat

Contents == MemTools \cup ClientContents

VARIABLES
    heads,      \* memories: path -> id, content and version of the head
    versions,   \* memory_versions: id, Memory, content, what it replaced, redacted
    sealed,     \* archived_at of the Store
    mbox,       \* per Session sandbox: manifest present, baseline, files
    mtool,      \* per tool: pc, the path and content it saw, the heads to publish
    clientWrites, memFaults

memVars == <<heads, versions, sealed, mbox, mtool, clientWrites, memFaults>>

Empty == [p \in {} |-> NoContent]

MemoryInit ==
    /\ heads = Empty /\ versions = {} /\ sealed = FALSE
    /\ mbox = [s \in MemSessions |-> [init |-> FALSE, base |-> Empty, files |-> Empty]]
    /\ mtool = [t \in MemTools |-> [pc |-> "reconcile", path |-> NoContent, saw |-> NoContent,
                                    result |-> "none", snap |-> Empty]]
    /\ clientWrites = 0 /\ memFaults = 0

\* a partial function with p set to v, and one without the paths of gone
With(f, p, v) == [q \in DOMAIN f \cup {p} |-> IF q = p THEN v ELSE f[q]]
Without(f, gone) == [q \in DOMAIN f \ gone |-> f[q]]

Content(f, p) == IF p \in DOMAIN f THEN f[p].content ELSE NoContent

\* a version's id, and the id of a Memory created with it
NextVersion == Cardinality(versions) + 1

Version(n, id, content, over) ==
    [n |-> n, id |-> id, content |-> content, over |-> over, redacted |-> FALSE]

-----------------------------------------------------------------------------
(* Clients of the Memory API: one transaction each, behind the Store's row *)
(* lock.  NoContent as the precondition is none.                           *)

ClientWrite == clientWrites < MaxMemWrites /\ clientWrites' = clientWrites + 1

CreateMemory(p, c) ==
    /\ ClientWrite /\ ~sealed /\ p \notin DOMAIN heads
    /\ Cardinality(DOMAIN heads) < MaxMemories
    /\ heads' = With(heads, p, [id |-> NextVersion, content |-> c, version |-> NextVersion])
    /\ versions' = versions \cup {Version(NextVersion, NextVersion, c, NoContent)}
    /\ UNCHANGED <<sealed, mbox, mtool, memFaults>>

\* content and path may both change; a rename to an occupied path is a conflict,
\* an update that changes nothing appends no version
UpdateMemory(p, q, c, expected) ==
    /\ ClientWrite /\ ~sealed /\ p \in DOMAIN heads
    /\ p # q \/ c # heads[p].content
    /\ expected \in {NoContent, heads[p].content}
    /\ q = p \/ q \notin DOMAIN heads
    /\ heads' = With(Without(heads, {p}), q,
                     [id |-> heads[p].id, content |-> c, version |-> NextVersion])
    /\ versions' = versions \cup {Version(NextVersion, heads[p].id, c, heads[p].content)}
    /\ UNCHANGED <<sealed, mbox, mtool, memFaults>>

DeleteMemory(p, expected) ==
    /\ ClientWrite /\ ~sealed /\ p \in DOMAIN heads
    /\ expected \in {NoContent, heads[p].content}
    /\ heads' = Without(heads, {p})
    /\ versions' = versions \cup {Version(NextVersion, heads[p].id, NoContent, heads[p].content)}
    /\ UNCHANGED <<sealed, mbox, mtool, memFaults>>

\* the versions RedactMemoryVersion accepts: not the current one of a Memory
Redactable(v) == \A p \in DOMAIN heads : heads[p].version # v.n

RedactMemoryVersion ==
    /\ ClientWrite
    /\ \E v \in versions :
         /\ ~v.redacted /\ Redactable(v)
         /\ versions' = (versions \ {v}) \cup {[v EXCEPT !.redacted = TRUE]}
    /\ UNCHANGED <<heads, sealed, mbox, mtool, memFaults>>

ArchiveStore ==
    /\ ClientWrite /\ ~sealed /\ sealed' = TRUE
    /\ UNCHANGED <<heads, versions, mbox, mtool, memFaults>>

-----------------------------------------------------------------------------
(* SyncMemoryStore: the diff of a sandbox against its baseline             *)

\* paths of the baseline changed or removed in the sandbox, and new paths
Changed(b) == {p \in DOMAIN b.base : p \in DOMAIN b.files /\ b.files[p] # b.base[p].content}
Removed(b) == DOMAIN b.base \ DOMAIN b.files
Created(b) == DOMAIN b.files \ DOMAIN b.base

\* the head of the same Memory (dbByID), if it is still there
Alive(m) == \E p \in DOMAIN heads : heads[p].id = m.id
SameHead(p, m) == p \in DOMAIN heads /\ heads[p].id = m.id

Updates(b) == {p \in Changed(b) : ~(SameHead(p, b.base[p]) /\ heads[p].content = b.files[p])}
Deletes(b) == {p \in Removed(b) : Alive(b.base[p])}
Creates(b) == {p \in Created(b) : Content(heads, p) # b.files[p]}

\* Mutant: the identity of the Memory is compared, not its content.
MemoryConflictById(b) ==
    \/ \E p \in Updates(b) \cup Deletes(b) : ~SameHead(p, b.base[p])
    \/ \E p \in Creates(b) : p \in DOMAIN heads

\* the preconditions of SyncMemoryStore: a changed or removed Memory is still
\* the baseline's, a new path is free
MemoryConflict(b) ==
    \/ \E p \in Updates(b) \cup Deletes(b) :
         ~(SameHead(p, b.base[p]) /\ heads[p].content = b.base[p].content)
    \/ \E p \in Creates(b) : p \in DOMAIN heads

SyncRefused(b) ==
    \/ MemoryConflict(b)
    \/ Cardinality(DOMAIN heads) + Cardinality(Creates(b))
         > MaxMemories + Cardinality(Deletes(b))
    \/ sealed /\ Updates(b) \cup Deletes(b) \cup Creates(b) # {}

\* a numbering of the new versions: updates, deletes, creates, each by path
Numbering(b) ==
    LET touched == Updates(b) \cup Deletes(b) \cup Creates(b)
    IN  CHOOSE f \in [touched -> NextVersion..(Cardinality(versions) + Cardinality(touched))] :
          \A p, q \in touched : p # q => f[p] # f[q]

\* the Store after the sync, and the versions it appends
Synced(b) ==
    LET num == Numbering(b)
        written == Updates(b) \cup Creates(b)
        id(p) == IF p \in Creates(b) THEN num[p] ELSE heads[p].id
    IN  [heads |-> [p \in (DOMAIN heads \ Deletes(b)) \cup written |->
                      IF p \in written
                        THEN [id |-> id(p), content |-> b.files[p], version |-> num[p]]
                        ELSE heads[p]],
         versions |-> {Version(num[p], id(p),
                               IF p \in written THEN b.files[p] ELSE NoContent,
                               Content(heads, p)) : p \in written \cup Deletes(b)}]

-----------------------------------------------------------------------------
(* A tool in its Session's sandbox                                         *)

Syncing == {"sync", "restore", "publish", "wbSync", "wbRestore", "wbPublish"}
Peers(t) == {u \in MemTools \ {t} : HomeOf[u] = HomeOf[t]}

\* the flock, or RWMutex, of the sandbox: exclusive for a synchronization,
\* shared by running tools
ExclusiveFree(t) == \A u \in Peers(t) : mtool[u].pc \notin Syncing \cup {"run"}
SharedFree(t) == \A u \in Peers(t) : mtool[u].pc \notin Syncing

Step(t, from, to) == mtool[t].pc = from /\ mtool' = [mtool EXCEPT ![t].pc = to]

\* Reconcile before the tool: skipped when the lock is taken
TryLockResourceSync(t) ==
    /\ IF ExclusiveFree(t) THEN Step(t, "reconcile", "sync") ELSE Step(t, "reconcile", "lock")
    /\ UNCHANGED <<heads, versions, sealed, mbox, clientWrites, memFaults>>

LockResourceOperation(t) ==
    /\ SharedFree(t) /\ Step(t, "lock", "run")
    /\ UNCHANGED <<heads, versions, sealed, mbox, clientWrites, memFaults>>

\* Writeback after the tool waits for the exclusive lock.
LockResourceSync(t) ==
    /\ ExclusiveFree(t) /\ Step(t, "writeback", "wbSync")
    /\ UNCHANGED <<heads, versions, sealed, mbox, clientWrites, memFaults>>

\* the tool writes or removes one file, or none; releasing the shared lock
ToolRuns(t) ==
    /\ mtool[t].pc = "run"
    /\ LET s == HomeOf[t]  files == mbox[s].files
       IN  \/ \E p \in Paths :
                /\ mtool' = [mtool EXCEPT ![t].pc = "writeback", ![t].path = p,
                               ![t].saw = IF p \in DOMAIN files THEN files[p] ELSE NoContent]
                /\ mbox' = [mbox EXCEPT ![s].files = With(files, p, t)]
           \/ \E p \in DOMAIN files :
                /\ mtool' = [mtool EXCEPT ![t].pc = "writeback", ![t].saw = files[p]]
                /\ mbox' = [mbox EXCEPT ![s].files = Without(files, {p})]
           \/ mtool' = [mtool EXCEPT ![t].pc = "writeback"] /\ UNCHANGED mbox
    /\ UNCHANGED <<heads, versions, sealed, clientWrites, memFaults>>

\* ReadMemoryStore and SyncRuntimeSnapshot, or RuntimeHeads without a manifest
MemorySync(t, from, publish, restore) ==
    LET b == mbox[HomeOf[t]]
    IN  /\ mtool[t].pc = from
        /\ IF b.init /\ SyncRefused(b)
             THEN /\ mtool' = [mtool EXCEPT ![t].pc = restore, ![t].result = "error"]
                  /\ UNCHANGED <<heads, versions>>
             ELSE LET after == IF b.init THEN Synced(b)
                               ELSE [heads |-> heads, versions |-> {}]
                  IN  /\ heads' = after.heads /\ versions' = versions \cup after.versions
                      /\ mtool' = [mtool EXCEPT ![t].pc = publish, ![t].snap = after.heads]
        /\ UNCHANGED <<sealed, mbox, clientWrites, memFaults>>

\* RuntimeHeads after a refused sync
RestoreHeads(t, from, to) ==
    /\ mtool[t].pc = from
    /\ mtool' = [mtool EXCEPT ![t].pc = to, ![t].snap = heads]
    /\ UNCHANGED <<heads, versions, sealed, mbox, clientWrites, memFaults>>

\* what follows a publication: the Activity is retried when Reconcile failed;
\* a failed Writeback makes the tool's result an error
AfterPublish(t, failed) ==
    IF mtool[t].pc = "publish"
      THEN IF failed THEN [pc |-> "reconcile", result |-> "none"]
           ELSE [pc |-> "lock", result |-> "none"]
      ELSE [pc |-> "done", result |-> IF failed THEN "error" ELSE "ok"]

\* ReplaceMemoryStore; the sandbox's lock is released.  An interrupted
\* one leaves no manifest and no files.
ReplaceMemoryStore(t, fails) ==
    LET next == AfterPublish(t, fails \/ mtool[t].result = "error")
    IN  /\ mtool[t].pc \in {"publish", "wbPublish"}
        /\ fails => memFaults < MaxMemFaults
        /\ memFaults' = IF fails THEN memFaults + 1 ELSE memFaults
        /\ mbox' = [mbox EXCEPT ![HomeOf[t]] =
             IF fails THEN [init |-> FALSE, base |-> Empty, files |-> Empty]
             ELSE [init |-> TRUE, base |-> mtool[t].snap,
                   files |-> [p \in DOMAIN mtool[t].snap |-> mtool[t].snap[p].content]]]
        /\ mtool' = [mtool EXCEPT ![t].pc = next.pc, ![t].result = next.result, ![t].snap = Empty]
        /\ UNCHANGED <<heads, versions, sealed, clientWrites>>

MemoryNext ==
    \/ \E p \in Paths, c \in ClientContents : CreateMemory(p, c)
    \/ \E p, q \in Paths, c, x \in Contents \cup {NoContent} :
         c \in ClientContents \cup {Content(heads, p)} /\ UpdateMemory(p, q, c, x)
    \/ \E p \in Paths, x \in Contents \cup {NoContent} : DeleteMemory(p, x)
    \/ RedactMemoryVersion \/ ArchiveStore
    \/ \E t \in MemTools :
         \/ TryLockResourceSync(t) \/ LockResourceOperation(t) \/ LockResourceSync(t)
         \/ ToolRuns(t)
         \/ MemorySync(t, "sync", "publish", "restore")
         \/ MemorySync(t, "wbSync", "wbPublish", "wbRestore")
         \/ RestoreHeads(t, "restore", "publish") \/ RestoreHeads(t, "wbRestore", "wbPublish")
         \/ \E fails \in BOOLEAN : ReplaceMemoryStore(t, fails)

MemorySpec == MemoryInit /\ [][MemoryNext]_memVars

-----------------------------------------------------------------------------
(* Properties                                                              *)

\* A Store keeps to its paths and its limit.
MemoryTypeOK ==
    /\ DOMAIN heads \subseteq Paths /\ Cardinality(DOMAIN heads) <= MaxMemories
    /\ \A t \in MemTools : mtool[t].result \in {"none", "ok", "error"}

\* No write of a tool replaces a Memory its author had not seen: what the version
\* replaced was in the file that this tool, or one of the same Session that ran
\* with it, found.
ToolsOverwriteWhatTheySaw ==
    \A t \in MemTools, v \in versions :
        v.content = t /\ v.over # t => \E u \in Peers(t) \cup {t} : mtool[u].saw = v.over

\* Every Memory has its content in an unredacted version, the last of its own.
HeadsAreVersions ==
    \A p \in DOMAIN heads : \E v \in versions :
        /\ v.n = heads[p].version /\ v.id = heads[p].id
        /\ v.content = heads[p].content /\ ~v.redacted
        /\ \A w \in versions : w.id = v.id => w.n <= v.n

\* internal/app/session_memory_materializer.go: the remote snapshot is restored
\* after the writeback error is reported.  A tool's write is in the Store's
\* history, was replaced by a tool that ran with it, was lost with an
\* interrupted refresh, or some tool of the Session reports the error.
DiscardedWritesAreReported ==
    \A t \in MemTools :
        mtool[t].result = "ok" /\ mtool[t].path # NoContent /\ memFaults = 0 =>
            \/ \E v \in versions : v.content = t
            \/ \E u \in Peers(t) : mtool[u].saw = t \/ mtool[u].result = "error"

\* The writeback of tools never loses a concurrent change it had not seen, and
\* every Memory keeps its history.
MemoryIsConsistent == ToolsOverwriteWhatTheySaw /\ HeadsAreVersions
=============================================================================
