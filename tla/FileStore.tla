----------------------------- MODULE FileStore -----------------------------
(***************************************************************************)
(* Files, Session outputs, Session File resources and Skill versions: a    *)
(* PostgreSQL row per object (uploading, ready, deleting) and the object   *)
(* itself in the blob store, written in an order that survives a crash.    *)
(* The API process serves the ApiRequests and, when it restarts, reconciles*)
(* what its predecessor left before it serves again;                       *)
(* Worker Activity attempts publish the outputs of a sandbox and           *)
(* materialise resources in it, and a timed-out attempt may overlap its    *)
(* retry.                                                                  *)
(***************************************************************************)
EXTENDS Naturals, FiniteSets, FiniteSetsExt

CONSTANTS
    MaxFiles,        \* bound: File and Skill version identifiers ever issued
    ApiRequests,     \* concurrent API requests
    WorkerAttempts,  \* concurrent Activity attempts of the Session
    MaxOutputs,      \* bound: contents the sandbox writes to its output path
    MaxRestarts,     \* bound: restarts of the API process
    QuietRestarts    \* TRUE when no attempt publishes while the API restarts

ASSUME FileStoreAssumption ==
    /\ MaxFiles \in Nat /\ MaxOutputs \in Nat /\ MaxRestarts \in Nat
    /\ QuietRestarts \in BOOLEAN

VARIABLES
    fileRows,   \* the files and skill_versions tables
    issued,     \* identifiers issued so far
    blobs,      \* objects of the blob store, by the row that names them
    attached,   \* session_resources: the state of the resource owning a File
    pinned,     \* agent_skill_versions and session_skill_versions
    mounted,    \* resources the sandbox holds
    leftover,   \* mounts that an attempt left after its resource had gone (history)
    boxOutput,  \* content the sandbox holds at the output path, 0 for none
    written,    \* outputs written so far
    closing,    \* sessions.deleting_at is set
    request,    \* the API requests under way
    attempt,    \* the Activity attempts under way
    startup,    \* the API's startup reconciliation: what it still has to remove
    restarts

fileVars == <<fileRows, issued, blobs, attached, pinned, mounted, leftover, boxOutput, written,
              closing, request, attempt, startup, restarts>>

FileIds == 1..MaxFiles
NoRow == [st |-> "none", kind |-> "upload", content |-> 0]
NoRequest == [pc |-> "idle", file |-> 0, todo |-> {}]
NoStartup == [pc |-> "serving", todo |-> {}]
NoAttempt == [pc |-> "idle", file |-> 0, content |-> 0, todo |-> {}]

ReadyFiles == {f \in FileIds : fileRows[f].st = "ready"}
Incomplete == {f \in FileIds : fileRows[f].st \in {"uploading", "deleting"}}
Outputs(states) == {f \in FileIds : fileRows[f].kind = "output" /\ fileRows[f].st \in states}

\* DELETE FROM files WHERE state <> 'ready'.
RemoveIncomplete(f) ==
    fileRows' = [fileRows EXCEPT ![f] = IF @.st = "ready" THEN @ ELSE NoRow]

\* INSERT ... 'uploading' under an identifier nobody has used.
InsertUploading(kind, content) ==
    /\ issued < MaxFiles
    /\ issued' = issued + 1
    /\ fileRows' = [fileRows EXCEPT ![issued + 1] =
                  [st |-> "uploading", kind |-> kind, content |-> content]]

SetState(fs, st) == [f \in FileIds |-> IF f \in fs THEN [fileRows[f] EXCEPT !.st = st] ELSE fileRows[f]]

FileStoreInit ==
    /\ fileRows = [f \in FileIds |-> NoRow]
    /\ issued = 0
    /\ blobs = {}
    /\ attached = [f \in FileIds |-> "none"]
    /\ pinned = {}
    /\ mounted = {} /\ leftover = {}
    /\ boxOutput = 0
    /\ written = 0
    /\ closing = FALSE
    /\ request = [r \in ApiRequests |-> NoRequest]
    /\ attempt = [a \in WorkerAttempts |-> NoAttempt]
    /\ startup = NoStartup
    /\ restarts = 0

-----------------------------------------------------------------------------
(* API requests. The server accepts none before startup has reconciled.   *)

Serving == startup.pc = "serving"
RequestStep(r, pc) == /\ request[r].pc = pc
                      /\ UNCHANGED <<mounted, leftover, boxOutput, written, attempt, startup, restarts>>
RequestAt(r, pc) == request' = [request EXCEPT ![r].pc = pc]
RequestEnds(r) == request' = [request EXCEPT ![r] = NoRequest]

\* A Put of kind: the row exists before the object.
BeginPut(r, kind) ==
    /\ Serving
    /\ RequestStep(r, "idle")
    /\ InsertUploading(kind, 0)
    /\ request' = [request EXCEPT ![r] = [pc |-> "putting", file |-> issued + 1, todo |-> {}]]
    /\ UNCHANGED <<blobs, attached, pinned, closing>>

BeginUpload(r) == BeginPut(r, "upload")

\* A Skill version; a new Skill has its first one.
BeginVersion(r) == BeginPut(r, "skill")

\* prepareFileCopy: a Session resource is a copy of a ready top-level File.
BeginCopy(r) ==
    /\ \E f \in ReadyFiles : fileRows[f].kind = "upload"
    /\ BeginPut(r, "clone")

\* blobs.Put; on an error cleanupIncomplete, which may itself not get through.
PutBlob(r) ==
    /\ RequestStep(r, "putting")
    /\ \/ /\ blobs' = blobs \cup {request[r].file}
          /\ RequestAt(r, "stored")
          /\ UNCHANGED fileRows
       \/ /\ RequestEnds(r)
          /\ \/ RemoveIncomplete(request[r].file)
             \/ UNCHANGED fileRows
          /\ UNCHANGED blobs
    /\ UNCHANGED <<issued, attached, pinned, closing>>

\* Whatever the client is told, the object stays: the transaction may have
\* committed.
CompletePut(r, kind) ==
    LET f == request[r].file IN
    /\ RequestStep(r, "stored")
    /\ fileRows[f].kind = kind
    /\ fileRows' = IF fileRows[f].st = "uploading" THEN SetState({f}, "ready") ELSE fileRows
    /\ RequestEnds(r)
    /\ UNCHANGED <<issued, blobs, attached, pinned, closing>>

CompleteUpload(r) == CompletePut(r, "upload")

\* The Skill's latest_version is recomputed from the ready ones with it.
CompleteVersion(r) == CompletePut(r, "skill")

\* AddSessionResource: row, resource and File change in one transaction; a
\* refusal (Session closing, mount path taken) discards the copy.
AddSessionResource(r) ==
    LET f == request[r].file IN
    /\ RequestStep(r, "stored")
    /\ fileRows[f].kind = "clone"
    /\ IF ~closing /\ fileRows[f].st = "uploading"
          /\ \A g \in FileIds : attached[g] # "active"
       THEN /\ fileRows' = SetState({f}, "ready")
            /\ attached' = [attached EXCEPT ![f] = "active"]
            /\ RequestEnds(r)
       ELSE /\ request' = [request EXCEPT ![r].pc = "unlinking"]
            /\ UNCHANGED <<fileRows, attached>>
    /\ UNCHANGED <<issued, blobs, pinned, closing>>

\* refused for what a resource owns
Deletable(f) == fileRows[f].st = "ready" /\ fileRows[f].kind # "skill" /\ attached[f] = "none"

\* refused for a Skill version an Agent or a Session pins
DeletableVersion(f) == fileRows[f].st = "ready" /\ fileRows[f].kind = "skill" /\ f \notin pinned

BeginUnlink(r, f) ==
    /\ Serving
    /\ RequestStep(r, "idle")
    /\ fileRows' = SetState({f}, "deleting")
    /\ request' = [request EXCEPT ![r] = [pc |-> "unlinking", file |-> f, todo |-> {}]]
    /\ UNCHANGED <<issued, blobs, attached, pinned, closing>>

BeginDelete(r, f) == Deletable(f) /\ BeginUnlink(r, f)
BeginDeleteVersion(r, f) == DeletableVersion(f) /\ BeginUnlink(r, f)

\* BeginSessionResourceDeletion: the tombstone outlives the request.
BeginDetach(r, f) ==
    /\ Serving /\ ~closing
    /\ RequestStep(r, "idle")
    /\ attached[f] = "active"
    /\ attached' = [attached EXCEPT ![f] = "deleting"]
    /\ fileRows' = IF fileRows[f].st = "ready" THEN SetState({f}, "deleting") ELSE fileRows
    /\ request' = [request EXCEPT ![r] = [pc |-> "unlinking", file |-> f, todo |-> {}]]
    /\ UNCHANGED <<issued, blobs, pinned, closing>>

\* The object goes before its row, so that what is left can be found again; an
\* error of the blob store ends the request.
UnlinkBlob(r) ==
    /\ RequestStep(r, "unlinking")
    /\ \/ /\ blobs' = blobs \ {request[r].file}
          /\ RequestAt(r, "unlinked")
       \/ /\ RequestEnds(r)
          /\ UNCHANGED blobs
    /\ UNCHANGED <<fileRows, issued, attached, pinned, closing>>

UnlinkRow(r) ==
    /\ RequestStep(r, "unlinked")
    /\ RemoveIncomplete(request[r].file)
    /\ RequestEnds(r)
    /\ UNCHANGED <<issued, blobs, attached, pinned, closing>>

\* lockReadySkillVersion: an Agent version or a Session pins a ready version;
\* the pin of an Agent goes with its next version or its archival.
PinVersion(f) ==
    /\ Serving
    /\ fileRows[f].kind = "skill" /\ fileRows[f].st = "ready"
    /\ pinned' = pinned \cup {f}
    /\ UNCHANGED <<fileRows, issued, blobs, attached, mounted, leftover, boxOutput, written, closing,
                   request, attempt, startup, restarts>>

Unpin(f) ==
    /\ Serving
    /\ f \in pinned
    /\ pinned' = pinned \ {f}
    /\ UNCHANGED <<fileRows, issued, blobs, attached, mounted, leftover, boxOutput, written, closing,
                   request, attempt, startup, restarts>>

\* PrepareSessionDeletion closes the Session and hides what it owns.
PrepareDeletion(r) ==
    /\ Serving
    /\ RequestStep(r, "idle")
    /\ closing' = TRUE
    /\ attached' = [f \in FileIds |-> IF attached[f] = "active" THEN "deleting" ELSE attached[f]]
    /\ fileRows' = SetState({f \in ReadyFiles : attached[f] # "none" \/ fileRows[f].kind = "output"},
                        "deleting")
    /\ RequestAt(r, "purge")
    /\ UNCHANGED <<issued, blobs, pinned>>

\* CleanupSession, once the sandbox and its mounts are gone: outputs, the
\* half-uploaded ones too, then the resources.
ListGarbage(r) ==
    /\ RequestStep(r, "purge")
    /\ request' = [request EXCEPT
                     ![r].pc = "purgeblob",
                     ![r].todo = Outputs({"uploading", "deleting"})
                                 \cup {f \in FileIds : attached[f] = "deleting"}]
    /\ UNCHANGED <<fileRows, issued, blobs, attached, pinned, closing>>

PurgeBlob(r) ==
    /\ RequestStep(r, "purgeblob")
    /\ IF request[r].todo = {}
       THEN RequestEnds(r) /\ UNCHANGED blobs
       ELSE /\ blobs' = blobs \ {Min(request[r].todo)}
            /\ RequestAt(r, "purgerow")
    /\ UNCHANGED <<fileRows, issued, attached, pinned, closing>>

PurgeRow(r) ==
    LET f == Min(request[r].todo) IN
    /\ RequestStep(r, "purgerow")
    /\ RemoveIncomplete(f)
    /\ attached' = [attached EXCEPT ![f] = "none"]
    /\ request' = [request EXCEPT ![r].pc = "purgeblob", ![r].todo = @ \ {f}]
    /\ UNCHANGED <<issued, blobs, pinned, closing>>

-----------------------------------------------------------------------------
(* The API process dies and starts again.                                  *)

Publishing(a) == attempt[a].pc \in {"put", "complete"}

RestartApi ==
    /\ restarts < MaxRestarts
    /\ QuietRestarts => \A a \in WorkerAttempts : ~Publishing(a)
    /\ restarts' = restarts + 1
    /\ request' = [r \in ApiRequests |-> NoRequest]
    /\ startup' = [pc |-> "blob", todo |-> Incomplete]
    /\ UNCHANGED <<fileRows, issued, blobs, attached, pinned, mounted, leftover, boxOutput, written,
                   closing, attempt>>

\* Reconcile: object, then row, for every row the listing found incomplete.
ReconcileBlob ==
    /\ startup.pc = "blob"
    /\ IF startup.todo = {}
       THEN startup' = NoStartup /\ UNCHANGED blobs
       ELSE /\ blobs' = blobs \ {Min(startup.todo)}
            /\ startup' = [startup EXCEPT !.pc = "row"]
    /\ UNCHANGED <<fileRows, issued, attached, pinned, mounted, leftover, boxOutput, written, closing,
                   request, attempt, restarts>>

ReconcileRow ==
    /\ startup.pc = "row"
    /\ RemoveIncomplete(Min(startup.todo))
    /\ startup' = [pc |-> "blob", todo |-> startup.todo \ {Min(startup.todo)}]
    /\ UNCHANGED <<issued, blobs, attached, pinned, mounted, leftover, boxOutput, written, closing,
                   request, attempt, restarts>>

-----------------------------------------------------------------------------
(* Activity attempts.                                                      *)

AttemptStep(a, pc) == /\ attempt[a].pc = pc
                      /\ UNCHANGED <<pinned, written, closing, request, startup, restarts>>
AttemptAt(a, pc) == attempt' = [attempt EXCEPT ![a].pc = pc]
AttemptEnds(a) == attempt' = [attempt EXCEPT ![a] = NoAttempt]

\* A tool rewrites or removes the output file.
WriteOutput ==
    /\ written < MaxOutputs
    /\ written' = written + 1
    /\ boxOutput' \in {0, written + 1}
    /\ UNCHANGED <<fileRows, issued, blobs, attached, pinned, mounted, leftover, closing, request,
                   attempt, startup, restarts>>

\* Publish: inspect the archive, then PrepareSessionOutputSnapshot hides the
\* outputs the archive no longer has and returns what is left to remove.
PrepareSnapshot(a) ==
    LET gone == IF boxOutput = 0 THEN Outputs({"ready"}) ELSE {} IN
    /\ AttemptStep(a, "idle")
    /\ ~closing
    /\ fileRows' = SetState(gone, "deleting")
    /\ attempt' = [attempt EXCEPT ![a] =
                     [pc |-> "sweepblob", file |-> 0, content |-> boxOutput,
                      todo |-> gone \cup Outputs({"deleting"})]]
    /\ UNCHANGED <<issued, blobs, attached, mounted, leftover, boxOutput>>

\* cleanupFiles, before the upload and after it; an output that is already
\* visible with this content is not uploaded again.
AlreadyVisible(c) == \E f \in Outputs({"ready"}) : fileRows[f].content = c

SweepBlob(a) ==
    /\ AttemptStep(a, "sweepblob")
    /\ IF attempt[a].todo # {}
       THEN /\ blobs' = blobs \ {Min(attempt[a].todo)}
            /\ AttemptAt(a, "sweeprow")
       ELSE /\ IF attempt[a].content = 0 \/ AlreadyVisible(attempt[a].content)
               THEN AttemptEnds(a)
               ELSE AttemptAt(a, "begin")
            /\ UNCHANGED blobs
    /\ UNCHANGED <<fileRows, issued, attached, mounted, leftover, boxOutput>>

SweepRow(a) ==
    /\ AttemptStep(a, "sweeprow")
    /\ RemoveIncomplete(Min(attempt[a].todo))
    /\ attempt' = [attempt EXCEPT ![a].pc = "sweepblob", ![a].todo = @ \ {Min(@)}]
    /\ UNCHANGED <<issued, blobs, attached, mounted, leftover, boxOutput>>

\* publishOne: beginSessionOutputUpload is refused once the Session is closing.
BeginOutput(a) ==
    /\ AttemptStep(a, "begin")
    /\ IF closing
       THEN AttemptEnds(a) /\ UNCHANGED <<fileRows, issued>>
       ELSE /\ InsertUploading("output", attempt[a].content)
            /\ attempt' = [attempt EXCEPT ![a].pc = "put", ![a].file = issued + 1]
    /\ UNCHANGED <<blobs, attached, mounted, leftover, boxOutput>>

\* Put, and the comparison with the checksum of the first reading.
PutOutput(a) ==
    /\ AttemptStep(a, "put")
    /\ IF boxOutput = attempt[a].content
       THEN /\ blobs' = blobs \cup {attempt[a].file}
            /\ AttemptAt(a, "complete")
            /\ UNCHANGED fileRows
       ELSE /\ RemoveIncomplete(attempt[a].file)
            /\ AttemptEnds(a)
            /\ UNCHANGED blobs
    /\ UNCHANGED <<issued, attached, mounted, leftover, boxOutput>>

\* CompleteSessionOutput: under the Session's lock the new File takes the
\* place of the visible one, unless that one has the same content.
Superseded(f) ==
    IF \E g \in Outputs({"ready"}) : fileRows[g].content = fileRows[f].content
    THEN {f}
    ELSE Outputs({"ready"})

CompleteSessionOutput(a) ==
    LET f == attempt[a].file IN
    /\ AttemptStep(a, "complete")
    /\ IF closing \/ fileRows[f].st # "uploading"
       THEN AttemptEnds(a) /\ UNCHANGED fileRows
       ELSE /\ fileRows' = IF f \in Superseded(f) THEN fileRows
                       ELSE [SetState(Superseded(f), "deleting") EXCEPT ![f].st = "ready"]
            /\ \/ AttemptEnds(a)            \* the acknowledgement is lost
               \/ attempt' = [attempt EXCEPT
                                ![a].pc = "sweepblob", ![a].content = 0,
                                ![a].todo = Superseded(f) \cup Outputs({"deleting"})]
    /\ UNCHANGED <<issued, blobs, attached, mounted, leftover, boxOutput>>

\* Reconcile of a desired resource: nothing to do when the sandbox has it.
OpenResource(a, f) ==
    /\ AttemptStep(a, "idle")
    /\ attached[f] = "active"
    /\ f \in ReadyFiles \cap blobs
    /\ f \notin mounted
    /\ attempt' = [attempt EXCEPT ![a] =
                     [pc |-> "import", file |-> f, content |-> 0, todo |-> {}]]
    /\ UNCHANGED <<fileRows, issued, blobs, attached, mounted, leftover, boxOutput>>

ImportResource(a) ==
    /\ AttemptStep(a, "import")
    /\ mounted' = mounted \cup {attempt[a].file}
    /\ AttemptAt(a, "recheck")
    /\ UNCHANGED <<fileRows, issued, blobs, attached, leftover, boxOutput>>

\* Mutant: a late attempt keeps what it imported.
StillWantedAlways(f) == f \in FileIds

\* The revalidation after the import: only an active resource is found.
StillWanted(f) == attached[f] = "active"

\* Nothing fails between the import and the removal.
RecheckResource(a) ==
    LET gone == IF StillWanted(attempt[a].file) THEN {} ELSE {attempt[a].file} IN
    /\ AttemptStep(a, "recheck")
    /\ mounted' = mounted \ gone
    /\ leftover' = leftover \ gone
    /\ AttemptEnds(a)
    /\ UNCHANGED <<fileRows, issued, blobs, attached, boxOutput>>

\* An attempt ends where it is: an error, a timeout or the death of its worker.
\* After the bytes of a resource are in place (the import still reports an error,
\* the lookup or the removal fails) nothing takes them out.
AttemptFails(a) ==
    /\ attempt[a].pc # "idle"
    /\ leftover' = IF attempt[a].pc = "recheck" /\ ~StillWanted(attempt[a].file)
                     THEN leftover \cup (mounted \cap {attempt[a].file}) ELSE leftover
    /\ AttemptEnds(a)
    /\ UNCHANGED <<fileRows, issued, blobs, attached, pinned, mounted, boxOutput, written,
                   closing, request, startup, restarts>>

\* Reconcile of a tombstone: mount, object, row and tombstone, in that order.
DismountResource(a, f) ==
    /\ AttemptStep(a, "idle")
    /\ attached[f] = "deleting" /\ ~closing
    /\ mounted' = mounted \ {f}
    /\ leftover' = leftover \ {f}
    /\ attempt' = [attempt EXCEPT ![a] =
                     [pc |-> "dropblob", file |-> f, content |-> 0, todo |-> {}]]
    /\ UNCHANGED <<fileRows, issued, blobs, attached, boxOutput>>

DropBlob(a) ==
    /\ AttemptStep(a, "dropblob")
    /\ blobs' = blobs \ {attempt[a].file}
    /\ AttemptAt(a, "droprow")
    /\ UNCHANGED <<fileRows, issued, attached, mounted, leftover, boxOutput>>

DropRow(a) ==
    /\ AttemptStep(a, "droprow")
    /\ RemoveIncomplete(attempt[a].file)
    /\ AttemptAt(a, "finalize")
    /\ UNCHANGED <<issued, blobs, attached, mounted, leftover, boxOutput>>

FinalizeResource(a) ==
    LET f == attempt[a].file IN
    /\ AttemptStep(a, "finalize")
    /\ attached' = [attached EXCEPT ![f] = IF @ = "deleting" THEN "none" ELSE @]
    /\ AttemptEnds(a)
    /\ UNCHANGED <<fileRows, issued, blobs, mounted, leftover, boxOutput>>

-----------------------------------------------------------------------------
RequestNext(r) ==
    \/ BeginUpload(r) \/ BeginVersion(r) \/ BeginCopy(r) \/ PutBlob(r)
    \/ CompleteUpload(r) \/ CompleteVersion(r) \/ AddSessionResource(r)
    \/ \E f \in FileIds : BeginDelete(r, f) \/ BeginDeleteVersion(r, f) \/ BeginDetach(r, f)
    \/ UnlinkBlob(r) \/ UnlinkRow(r)
    \/ PrepareDeletion(r) \/ ListGarbage(r) \/ PurgeBlob(r) \/ PurgeRow(r)

AttemptNext(a) ==
    \/ PrepareSnapshot(a) \/ SweepBlob(a) \/ SweepRow(a) \/ BeginOutput(a)
    \/ PutOutput(a) \/ CompleteSessionOutput(a)
    \/ \E f \in FileIds : OpenResource(a, f) \/ DismountResource(a, f)
    \/ ImportResource(a) \/ RecheckResource(a)
    \/ DropBlob(a) \/ DropRow(a) \/ FinalizeResource(a) \/ AttemptFails(a)

FileStoreNext ==
    \/ \E r \in ApiRequests : RequestNext(r)
    \/ \E a \in WorkerAttempts : AttemptNext(a)
    \/ \E f \in FileIds : PinVersion(f) \/ Unpin(f)
    \/ WriteOutput \/ RestartApi \/ ReconcileBlob \/ ReconcileRow

FileStoreSpec == FileStoreInit /\ [][FileStoreNext]_fileVars

-----------------------------------------------------------------------------
\* Rows, objects, resources and the processes' positions are well formed.
FileStoreTypeOK ==
    /\ fileRows \in [FileIds -> [st : {"none", "uploading", "ready", "deleting"},
                             kind : {"upload", "clone", "output", "skill"},
                             content : 0..MaxOutputs]]
    /\ blobs \subseteq FileIds /\ mounted \subseteq FileIds /\ leftover \subseteq mounted /\ startup.todo \subseteq FileIds
    /\ pinned \subseteq FileIds
    /\ attached \in [FileIds -> {"none", "active", "deleting"}]
    /\ \A r \in ApiRequests : request[r].file \in 0..issued /\ request[r].todo \subseteq FileIds
    /\ \A a \in WorkerAttempts : attempt[a].file \in 0..issued /\ attempt[a].todo \subseteq FileIds

\* A visible File or Skill version has its bytes, whatever crashed between the
\* row and the object; so has every version an Agent or a Session pins, and
\* every resource a Session still wants.
ReadyFileHasBytes ==
    /\ ReadyFiles \subseteq blobs
    /\ pinned \subseteq ReadyFiles
    /\ {f \in FileIds : attached[f] = "active"} \subseteq ReadyFiles

\* what the sandbox keeps is wanted, has a tombstone, or is about to be checked by
\* the attempt that imported it
MountIsWatched(f) ==
    \/ attached[f] # "none"
    \/ closing
    \/ \E a \in WorkerAttempts : attempt[a].pc = "recheck" /\ attempt[a].file = f

\* The claim of the comment in Reconcile: a late attempt cannot keep a resource
\* whose tombstone another attempt already finalized.
NoStaleMount == \A f \in mounted : MountIsWatched(f)

\* What the revalidation does achieve: only an attempt that was cut between an
\* import and the end of its revalidation leaves a mount nobody will remove.
StaleMountsAreLeftovers == \A f \in mounted \ leftover : MountIsWatched(f)

\* What the rows promise is in the object store, and what a sandbox mounts is what
\* the rows say, but for what a failed attempt left there.
FilesAreConsistent == ReadyFileHasBytes /\ StaleMountsAreLeftovers
=============================================================================
