---------------------------- MODULE Materializer ----------------------------
(***************************************************************************)
(* How a file, a Git repository or a Skill gets to its path in a sandbox,  *)
(* write by write: the marker, the staging copy and the visible copy, with *)
(* a crash or a failed call between any two.  A sandbox does one import or *)
(* removal at a time.  FileStore models the passes that call these.        *)
(* Sources: internal/sandbox/remote_file_resources.go, docker_resources.go,*)
(* git_repositories.go, remote_skills.go, docker_skills.go;                *)
(* internal/app/session_skill_materializer.go.                             *)
(***************************************************************************)
EXTENDS Naturals, FiniteSets

CONSTANTS
    Protocols,      \* the protocols to check
    MaxIdentities,  \* bound: resources ever attached at the path
    MaxCuts,        \* bound: crashes and failed calls
    MaxDamage       \* bound: times a tool with root damages a Skill

ASSUME MaterializerAssumption ==
    /\ Protocols \subseteq {"remote_file", "docker_file", "git", "remote_skill", "docker_skill"}
    /\ {MaxIdentities, MaxCuts, MaxDamage} \subseteq Nat

VARIABLES
    protocol,  \* which kind of resource, at which kind of provider
    copy,      \* what is at the target, staging and backup paths
    marker,    \* the marker of the path: whose it is, pending or ready
    wanted,    \* the identity attached at the path, 0 when there is none
    deleting,  \* identities detached whose tombstone is not finalized
    identities, \* identities ever attached
    op,        \* the import or removal that holds the sandbox's lock
    cuts, damage

matVars == <<protocol, copy, marker, wanted, deleting, identities, op, cuts, damage>>

\* Whose bytes, all of them, and the file that Has looks at (SKILL.md)
Nothing == [id |-> 0, whole |-> FALSE, head |-> FALSE]
Whole(i) == [id |-> i, whole |-> TRUE, head |-> TRUE]
Partials(i) == [id : {i}, whole : {FALSE}, head : BOOLEAN]
NoMarker == [id |-> 0, state |-> "none"]
Ready(i) == [id |-> i, state |-> "ready"]

\* Mutant: the marker is written once, before the bytes.
PendingMarkerReady(i) == Ready(i)

PendingMarker(i) == [id |-> i, state |-> "pending"]

NoOp == [pc |-> "idle", id |-> 0]

Files == {"remote_file", "docker_file"}
Skills == {"remote_skill", "docker_skill"}

\* Repositories and Skills are fixed when the Session is created.
MaterializerInit ==
    /\ protocol \in Protocols
    /\ copy = [target |-> Nothing, staging |-> Nothing, backup |-> Nothing]
    /\ marker = NoMarker /\ deleting = {} /\ op = NoOp /\ cuts = 0 /\ damage = 0
    /\ wanted = (IF protocol \in Files THEN 0 ELSE 1) /\ identities = wanted

-----------------------------------------------------------------------------
(* What each Has function accepts                                          *)

HasFileResource(i) == copy.target # Nothing /\ marker = Ready(i)

DockerHasFileResource(i) == copy.target.whole /\ marker = Ready(i)

\* A pending marker with a target is what a crash after the rename leaves.
HasGitRepository(i) == copy.target # Nothing /\ marker.id = i

\* the marker and the digest of SKILL.md
HasReadOnlySkill(i) == marker = Ready(i) /\ copy.target.head

\* the marker and the total size of the tree
ValidMaterializedSkillTree == copy.target.whole /\ copy.target.head
DockerHasReadOnlySkill(i) == marker = Ready(i) /\ ValidMaterializedSkillTree

Has(i) ==
    \/ protocol = "remote_file" /\ HasFileResource(i)
    \/ protocol = "docker_file" /\ DockerHasFileResource(i)
    \/ protocol = "git" /\ HasGitRepository(i)
    \/ protocol = "remote_skill" /\ HasReadOnlySkill(i)
    \/ protocol = "docker_skill" /\ DockerHasReadOnlySkill(i)

\* HasGitRepository refuses for good a directory that is not marked as its own.
Refused(i) == protocol = "git" /\ copy.target # Nothing /\ marker.id # i

\* HasGitRepository completes what an interrupted import left.
PromoteMarker ==
    /\ protocol = "git" /\ op = NoOp /\ wanted # 0
    /\ HasGitRepository(wanted) /\ marker.state = "pending"
    /\ marker' = Ready(wanted)
    /\ UNCHANGED <<protocol, copy, wanted, deleting, identities, op, cuts, damage>>

-----------------------------------------------------------------------------
(* Imports                                                                 *)

NowAt(pc) == op' = [op EXCEPT !.pc = pc]
OpAt(pc) == op.pc = pc
MatUnchanged == UNCHANGED <<protocol, wanted, deleting, identities, cuts, damage>>

FirstStep == IF protocol \in {"remote_file", "git"} THEN "pending" ELSE "stage"

\* Reconcile: the resource is attached and Has answered no
StartImport ==
    /\ op = NoOp /\ wanted # 0 /\ ~Has(wanted) /\ ~Refused(wanted)
    /\ op' = [pc |-> FirstStep, id |-> wanted]
    /\ UNCHANGED <<copy, marker>> /\ MatUnchanged

\* Publish the new identity before the bytes that it will mark.
MarkPending ==
    /\ OpAt("pending") /\ marker' = PendingMarker(op.id)
    /\ NowAt(IF protocol = "git" THEN "stage" ELSE "upload")
    /\ UNCHANGED copy /\ MatUnchanged

\* remote file: the bytes replace the visible copy, in place
Upload ==
    /\ OpAt("upload") /\ NowAt("uploaded")
    /\ \E t \in Partials(op.id) : copy' = [copy EXCEPT !.target = t]
    /\ UNCHANGED marker /\ MatUnchanged

\* the count, the checksum and the stored size agree
Uploaded ==
    /\ OpAt("uploaded") /\ NowAt("ready") /\ copy' = [copy EXCEPT !.target = Whole(op.id)]
    /\ UNCHANGED marker /\ MatUnchanged

\* a copy beside the target; what earlier attempts left there goes first
Stage ==
    /\ OpAt("stage") /\ NowAt("staged")
    /\ \E t \in Partials(op.id) : copy' = [copy EXCEPT !.staging = t, !.backup = Nothing]
    /\ UNCHANGED marker /\ MatUnchanged

\* storeVerifiedSkillArchive, extractCanonicalSkill, uploadPreparedSkill, hardenPreparedSkill
Staged ==
    /\ OpAt("staged") /\ copy' = [copy EXCEPT !.staging = Whole(op.id)]
    /\ NowAt(CASE protocol = "docker_skill" -> "clear" [] protocol = "remote_skill" -> "backup"
              [] OTHER -> "publish")
    /\ UNCHANGED marker /\ MatUnchanged

\* docker: os.RemoveAll of the stale directory, entry by entry
ClearTarget ==
    /\ OpAt("clear")
    /\ IF copy.target = Nothing
         THEN NowAt("publish") /\ UNCHANGED copy
         ELSE \/ /\ copy.target.whole /\ UNCHANGED op
                 /\ \E t \in Partials(copy.target.id) : copy' = [copy EXCEPT !.target = t]
              \/ copy' = [copy EXCEPT !.target = Nothing] /\ NowAt("publish")
    /\ UNCHANGED marker /\ MatUnchanged

\* remote: the publish script moves the old directory aside, moves the new one
\* in, and moves the old one back if that fails
BackUpTarget ==
    /\ OpAt("backup") /\ NowAt("publish")
    /\ copy' = [copy EXCEPT !.target = Nothing, !.backup = copy.target]
    /\ UNCHANGED marker /\ MatUnchanged

RestoreBackup ==
    /\ OpAt("publish") /\ protocol = "remote_skill" /\ cuts < MaxCuts /\ cuts' = cuts + 1
    /\ op' = NoOp /\ copy' = [copy EXCEPT !.target = copy.backup, !.backup = Nothing]
    /\ UNCHANGED <<protocol, marker, wanted, deleting, identities, damage>>

\* rename; a repository never replaces a directory that is there
PublishTarget ==
    /\ OpAt("publish") /\ UNCHANGED marker /\ MatUnchanged
    /\ IF protocol = "git" /\ copy.target # Nothing
         THEN op' = NoOp /\ copy' = [copy EXCEPT !.staging = Nothing]
         ELSE /\ NowAt("ready")
              /\ copy' = [copy EXCEPT !.target = copy.staging, !.staging = Nothing, !.backup = Nothing]

MarkReady ==
    /\ OpAt("ready") /\ marker' = Ready(op.id) /\ op' = NoOp
    /\ UNCHANGED copy /\ MatUnchanged

-----------------------------------------------------------------------------
(* Removals                                                                *)

\* Docker also removes a target that has no marker yet.
OwnsPath(i) == marker.id = i \/ (marker = NoMarker /\ protocol = "docker_file")

\* A tombstone whose path has gone to another identity is finalized as it is.
StartRemoval(i) ==
    /\ op = NoOp
    /\ IF OwnsPath(i) THEN op' = [pc |-> "unlink", id |-> i] /\ UNCHANGED deleting
                      ELSE deleting' = deleting \ {i} /\ UNCHANGED op
    /\ UNCHANGED <<protocol, copy, marker, wanted, identities, cuts, damage>>

UnlinkTarget ==
    /\ OpAt("unlink")
    /\ \/ /\ protocol = "git" /\ copy.target.whole /\ UNCHANGED op
          /\ \E t \in Partials(copy.target.id) : copy' = [copy EXCEPT !.target = t]
       \/ copy' = [copy EXCEPT !.target = Nothing, !.staging = Nothing] /\ NowAt("unmark")
    /\ UNCHANGED marker /\ MatUnchanged

\* the marker goes last, then the tombstone is finalized
Unmark ==
    /\ OpAt("unmark") /\ marker' = NoMarker /\ op' = NoOp /\ deleting' = deleting \ {op.id}
    /\ UNCHANGED <<protocol, copy, wanted, identities, cuts, damage>>

-----------------------------------------------------------------------------
(* The API, crashes and tools                                              *)

\* Only active resources hold their path against a new one.
AttachResource ==
    /\ protocol \in Files /\ wanted = 0 /\ identities < MaxIdentities
    /\ wanted' = identities + 1 /\ identities' = identities + 1
    /\ UNCHANGED <<protocol, copy, marker, deleting, op, cuts, damage>>

\* Mutant: the tombstone is written and the resource stays active.
DetachKeepsResource ==
    /\ protocol \notin Skills /\ wanted # 0
    /\ deleting' = deleting \cup {wanted}
    /\ UNCHANGED <<protocol, copy, marker, wanted, identities, op, cuts, damage>>

\* DELETE of a file; for a repository, the deletion of the Session
DetachResource ==
    /\ protocol \notin Skills /\ wanted # 0
    /\ deleting' = deleting \cup {wanted} /\ wanted' = 0
    /\ UNCHANGED <<protocol, copy, marker, identities, op, cuts, damage>>

\* The worker dies, or a call fails and the operation returns: it is retried.
Interrupted ==
    /\ op # NoOp /\ cuts < MaxCuts /\ cuts' = cuts + 1 /\ op' = NoOp
    /\ UNCHANGED <<protocol, copy, marker, wanted, deleting, identities, damage>>

\* A tool with root in the sandbox breaks SKILL.md or removes the directory.
DamageSkill ==
    /\ protocol \in Skills /\ damage < MaxDamage /\ damage' = damage + 1 /\ copy.target # Nothing
    /\ \E t \in {Nothing, [id |-> copy.target.id, whole |-> FALSE, head |-> FALSE]} :
         copy' = [copy EXCEPT !.target = t]
    /\ UNCHANGED <<protocol, marker, wanted, deleting, identities, op, cuts>>

MaterializerNext ==
    \/ PromoteMarker \/ StartImport \/ MarkPending \/ Upload \/ Uploaded
    \/ Stage \/ Staged \/ ClearTarget \/ BackUpTarget \/ RestoreBackup \/ PublishTarget
    \/ MarkReady \/ \E i \in deleting : StartRemoval(i)
    \/ UnlinkTarget \/ Unmark \/ AttachResource \/ DetachResource \/ Interrupted \/ DamageSkill

MaterializerSpec == MaterializerInit /\ [][MaterializerNext]_matVars

-----------------------------------------------------------------------------
(* Properties                                                              *)

\* What is mounted, marked and wanted was issued; nothing is wanted and deleted at
\* once.
MaterializerTypeOK ==
    /\ copy.target.id \in 0..identities /\ marker.id \in 0..identities
    /\ wanted \in 0..identities /\ deleting \subseteq 1..identities /\ wanted \notin deleting

\* What a Has function accepts is all of the bytes of the identity it was asked
\* for, whichever writes an earlier import or removal got to.
PresentIsWhole == op = NoOp /\ wanted # 0 /\ Has(wanted) => copy.target = Whole(wanted)

\* No interrupted import leaves a path that its own retry refuses for good.
RetryNotRefused == op = NoOp /\ wanted # 0 => ~Refused(wanted)

\* When nothing is attached and every tombstone is finalized, the path is empty.
DetachedIsGone == op = NoOp /\ wanted = 0 /\ deleting = {} => copy.target = Nothing

\* A path of the sandbox holds exactly what the Session says it does.
MountIsExact == PresentIsWhole /\ RetryNotRefused /\ DetachedIsGone
=============================================================================
