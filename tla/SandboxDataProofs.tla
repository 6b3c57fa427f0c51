-------------------------- MODULE SandboxDataProofs --------------------------
(***************************************************************************)
(* Proofs about what lies under the sandbox manager: what a path of the    *)
(* sandbox holds whichever write of an import or a removal was the last,   *)
(* the sandboxes and host directories that the providers' retries and the  *)
(* reaper leave, the rows, objects and mounts of the files through crashes *)
(* between two writes, and the Memory Stores that tools of Sessions and    *)
(* clients of the API write at once, the rows that the transcript of a     *)
(* request is compiled from.  Each part has its own inductive invariant;   *)
(* the last section proves, for the composition the run checks, its type   *)
(* invariant and the safety of the parts together.                         *)
(***************************************************************************)
EXTENDS MCSandboxData, FiniteSetTheorems, FunctionTheorems, SequenceTheorems,
    WellFoundedInduction, TLAPS

(***************************************************************************)
(* Materialisation                                                         *)
(***************************************************************************)

\* what a path may hold: nothing, a part or all of the bytes of one identity
CopyType == [id : Nat, whole : BOOLEAN, head : BOOLEAN]
Copies == [target : CopyType, staging : CopyType, backup : CopyType]

SoundCopy(c) ==
    /\ c \in CopyType /\ c.id \in 0..identities
    /\ c.whole => c = Whole(c.id)
    /\ c.id = 0 => c = Nothing

CopiesSound == SoundCopy(copy.target) /\ SoundCopy(copy.staging) /\ SoundCopy(copy.backup)

\* the identities somebody still answers for: attached, or to be removed
Owed == deleting \cup ({wanted} \ {0})

ImportPcs == {"pending", "upload", "uploaded", "stage", "staged", "clear", "backup", "publish", "ready"}
RemovalPcs == {"unlink", "unmark"}

MatTyped ==
    /\ protocol \in Protocols
    /\ copy \in Copies
    /\ marker \in [id : Nat, state : {"none", "pending", "ready"}]
    /\ op \in [pc : {"idle"} \cup ImportPcs \cup RemovalPcs, id : Nat]
    /\ identities \in Nat /\ cuts \in Nat /\ damage \in Nat
    /\ wanted \in {0, identities} /\ deleting \subseteq 1..identities /\ wanted \notin deleting
    /\ marker.id \in 0..identities
    /\ marker.id = 0 => marker = NoMarker
    /\ marker.state = "none" => marker = NoMarker
    /\ op.pc = "idle" <=> op = NoOp
    /\ op.pc # "idle" => op.id \in 1..identities

\* where each protocol goes, and where the operation has got to
OpInStep ==
    /\ op.pc \in {"pending"} => protocol \in {"remote_file", "git"}
    /\ op.pc \in {"upload", "uploaded"} => protocol = "remote_file"
    /\ op.pc \in {"stage", "staged", "publish"} => protocol # "remote_file"
    /\ op.pc = "clear" => protocol = "docker_skill"
    /\ op.pc = "backup" => protocol = "remote_skill"
    /\ op.pc \in RemovalPcs => protocol \notin Skills /\ op.id \in deleting
    /\ op.pc \in ImportPcs => op.id \in Owed /\ marker.id <= op.id
    /\ op.pc \in {"clear", "backup", "publish"} => copy.staging = Whole(op.id)
    /\ op.pc = "ready" /\ protocol \notin Skills => copy.target = Whole(op.id)
    /\ op.pc = "unmark" => copy.target = Nothing
    /\ op.pc = "unlink" => OwnsPath(op.id)
    /\ op.pc \in ImportPcs \ {"pending"} /\ protocol \in {"remote_file", "git"}
         => marker = PendingMarker(op.id)

\* a resource fixed at the creation of the Session is identity 1
FixedResource ==
    protocol \notin Files =>
        /\ identities = 1
        /\ protocol \in Skills => wanted = 1 /\ deleting = {}

\* remote files: the marker goes before the bytes and becomes ready after them
RemoteFileMarked ==
    protocol = "remote_file" =>
        /\ copy.target # Nothing => marker.id # 0
        /\ marker.state = "ready" => copy.target \in {Nothing, Whole(marker.id)}

\* docker files: the copy is whole, and never older than the marker
DockerFileWhole ==
    protocol = "docker_file" /\ copy.target # Nothing =>
        copy.target.whole /\ marker.id <= copy.target.id

\* repositories: a directory is published whole, and only behind its marker
RepositoryMarked ==
    protocol = "git" =>
        /\ copy.target # Nothing => marker.id = 1
        /\ wanted = 1 => copy.target \in {Nothing, Whole(1)}

\* Skills: what is not whole lost its SKILL.md or, at docker, is not accepted
SkillWhole ==
    protocol = "remote_skill" =>
        \A c \in {copy.target, copy.backup} : c.head => c = Whole(1)

\* what is mounted or marked is owed: its removal is still to come
MountIsOwed ==
    /\ marker.id # 0 => marker.id \in Owed
    /\ copy.target # Nothing /\ marker.id = 0 => copy.target.id \in Owed

\* what every protocol keeps to
ProtocolKept ==
    /\ OpInStep /\ FixedResource /\ RemoteFileMarked /\ DockerFileWhole
    /\ RepositoryMarked /\ SkillWhole /\ MountIsOwed

MountInv == MatTyped /\ CopiesSound /\ ProtocolKept

\* Nothing, a part and all of the bytes of an issued identity are sound copies.
LEMMA SoundCopies ==
    ASSUME identities \in Nat
    PROVE  /\ SoundCopy(Nothing)
           /\ \A i \in 1..identities : SoundCopy(Whole(i))
           /\ \A i \in 1..identities : \A t \in Partials(i) :
                SoundCopy(t) /\ t # Nothing /\ ~t.whole /\ t.id = i
  <1>1. SoundCopy(Nothing)
    BY DEF SoundCopy, CopyType, Nothing
  <1>2. ASSUME NEW i \in 1..identities PROVE SoundCopy(Whole(i))
    BY DEF SoundCopy, CopyType, Whole, Nothing
  <1>3. ASSUME NEW i \in 1..identities, NEW t \in Partials(i)
        PROVE  SoundCopy(t) /\ t # Nothing /\ ~t.whole /\ t.id = i
    <2>1. t.id = i /\ t.whole = FALSE /\ t = [id |-> t.id, whole |-> t.whole, head |-> t.head]
      BY DEF Partials
    <2>2. PICK h \in BOOLEAN : t = [id |-> i, whole |-> FALSE, head |-> h]
      BY <2>1 DEF Partials
    <2>3. t \in CopyType
      BY <2>2 DEF CopyType
    <2> QED BY <2>1, <2>3 DEF SoundCopy, Nothing
  <1> QED BY <1>1, <1>2, <1>3

\* Whatever sequence of imports, removals, crashes and failed calls a path has
\* seen, the invariant of the protocol that writes it holds.
THEOREM MountInvariant == MaterializerSpec => []MountInv
  <1> USE MaterializerAssumption
  <1>1. MaterializerInit => MountInv
    BY DEF MaterializerInit, MountInv, ProtocolKept, MatTyped, CopiesSound, OpInStep, FixedResource,
       RemoteFileMarked, DockerFileWhole, RepositoryMarked, SkillWhole, MountIsOwed, CopyType, Copies,
       SoundCopy, Owed, ImportPcs, RemovalPcs, Nothing, Whole, NoMarker, NoOp, Files, Skills
  <1>2. MountInv /\ [MaterializerNext]_matVars => MountInv'
    <2> SUFFICES ASSUME MountInv, [MaterializerNext]_matVars PROVE MountInv'
      OBVIOUS
    <2> USE DEF MountInv, ProtocolKept, Nothing, Whole, Owed, ImportPcs, RemovalPcs, NoMarker, NoOp,
       Files, Skills, Ready, PendingMarker, NowAt, OpAt, MatUnchanged, OwnsPath, FirstStep
    <2>1. /\ SoundCopy(Nothing) /\ (op.id \in 1..identities => SoundCopy(Whole(op.id)))
          /\ CopiesSound
          /\ \A i \in 1..identities : \A t \in Partials(i) :
                SoundCopy(t) /\ t # Nothing /\ ~t.whole /\ t.id = i
      BY SoundCopies DEF MatTyped
    <2>2. CASE PromoteMarker
      <3>1. MatTyped'
        BY <2>2 DEF PromoteMarker, MatTyped, OpInStep, FixedResource, MountIsOwed, RemoteFileMarked,
           CopiesSound, SoundCopy, CopyType, Copies
      <3>2. CopiesSound'
        BY <2>2 DEF PromoteMarker, MatTyped, CopiesSound, SoundCopy, CopyType
      <3>3. ProtocolKept'
        BY <2>2 DEF PromoteMarker, MatTyped, CopiesSound, OpInStep, FixedResource, RemoteFileMarked,
           DockerFileWhole, RepositoryMarked, SkillWhole, MountIsOwed, SoundCopy
      <3> QED BY <3>1, <3>2, <3>3
    <2>3. CASE StartImport
      <3>1. MatTyped'
        BY <2>3 DEF StartImport, MatTyped, OpInStep, FixedResource, MountIsOwed, RemoteFileMarked,
           CopiesSound, SoundCopy, CopyType, Copies
      <3>2. CopiesSound'
        BY <2>3 DEF StartImport, MatTyped, CopiesSound, SoundCopy, CopyType
      <3>3. ProtocolKept'
        BY <2>3 DEF StartImport, MatTyped, CopiesSound, OpInStep, FixedResource, RemoteFileMarked,
           DockerFileWhole, RepositoryMarked, SkillWhole, MountIsOwed, SoundCopy
      <3> QED BY <3>1, <3>2, <3>3
    <2>4. CASE MarkPending
      <3>1. MatTyped'
        BY <2>4 DEF MarkPending, MatTyped, OpInStep, FixedResource, MountIsOwed, RemoteFileMarked,
           CopiesSound, SoundCopy, CopyType, Copies
      <3>2. CopiesSound'
        BY <2>4 DEF MarkPending, MatTyped, CopiesSound, SoundCopy, CopyType
      <3>3. ProtocolKept'
        BY <2>4 DEF MarkPending, MatTyped, CopiesSound, OpInStep, FixedResource, RemoteFileMarked,
           DockerFileWhole, RepositoryMarked, SkillWhole, MountIsOwed, SoundCopy
      <3> QED BY <3>1, <3>2, <3>3
    <2>5. CASE Upload
      <3>1. op.id \in 1..identities
        BY <2>5 DEF MatTyped, Upload
      <3>2. PICK t \in Partials(op.id) : copy' = [copy EXCEPT !.target = t]
        BY <2>5 DEF Upload
      <3>3. SoundCopy(t) /\ t # Nothing /\ ~t.whole /\ t.id = op.id
        BY <2>1, <3>1, <3>2
      <3>4. /\ copy' \in Copies /\ copy'.target = t /\ copy'.staging = copy.staging
            /\ copy'.backup = copy.backup
        BY <2>5, <3>1, <3>2, <3>3, <2>1 DEF MatTyped, SoundCopy, Copies, Upload, CopiesSound
      <3>5. MatTyped'
        BY <2>5, <3>1, <3>2, <3>3, <2>1, <3>4 DEF MatTyped, OpInStep, Upload, CopiesSound
      <3>6. CopiesSound'
        BY <2>5, <3>1, <3>2, <3>3, <2>1, <3>4 DEF CopiesSound, SoundCopy, Upload
      <3>7. ProtocolKept'
        BY <2>5, <3>1, <3>2, <3>3, <2>1, <3>4 DEF MatTyped, CopiesSound, OpInStep, FixedResource,
           RemoteFileMarked, DockerFileWhole, RepositoryMarked, SkillWhole, MountIsOwed, SoundCopy,
           Upload
      <3> QED BY <3>5, <3>6, <3>7
    <2>6. CASE Uploaded
      <3>1. op.id \in 1..identities
        BY <2>6 DEF MatTyped, Uploaded
      <3>2. /\ copy' \in Copies /\ copy'.target = Whole(op.id) /\ copy'.staging = copy.staging
            /\ copy'.backup = copy.backup
        BY <2>6, <3>1, <2>1 DEF MatTyped, SoundCopy, Copies, Uploaded, CopiesSound
      <3>3. MatTyped'
        BY <2>6, <3>1, <2>1, <3>2 DEF MatTyped, OpInStep, Uploaded, CopiesSound
      <3>4. CopiesSound'
        BY <2>6, <3>1, <2>1, <3>2 DEF CopiesSound, SoundCopy, Uploaded
      <3>5. ProtocolKept'
        BY <2>6, <3>1, <2>1, <3>2 DEF MatTyped, CopiesSound, OpInStep, FixedResource, RemoteFileMarked,
           DockerFileWhole, RepositoryMarked, SkillWhole, MountIsOwed, SoundCopy, Uploaded
      <3> QED BY <3>3, <3>4, <3>5
    <2>7. CASE Stage
      <3>1. op.id \in 1..identities
        BY <2>7 DEF MatTyped, Stage
      <3>2. PICK t \in Partials(op.id) : copy' = [copy EXCEPT !.staging = t, !.backup = Nothing]
        BY <2>7 DEF Stage
      <3>3. SoundCopy(t) /\ t # Nothing /\ ~t.whole /\ t.id = op.id
        BY <2>1, <3>1, <3>2
      <3>4. copy' \in Copies /\ copy'.target = copy.target /\ copy'.staging = t /\ copy'.backup = Nothing
        BY <2>7, <3>1, <3>2, <3>3, <2>1 DEF MatTyped, SoundCopy, Copies, Stage, CopiesSound
      <3>5. MatTyped'
        BY <2>7, <3>1, <3>2, <3>3, <2>1, <3>4 DEF MatTyped, OpInStep, Stage, CopiesSound
      <3>6. CopiesSound'
        BY <2>7, <3>1, <3>2, <3>3, <2>1, <3>4 DEF CopiesSound, SoundCopy, Stage
      <3>7. ProtocolKept'
        BY <2>7, <3>1, <3>2, <3>3, <2>1, <3>4 DEF MatTyped, CopiesSound, OpInStep, FixedResource,
           RemoteFileMarked, DockerFileWhole, RepositoryMarked, SkillWhole, MountIsOwed, SoundCopy,
           Stage
      <3> QED BY <3>5, <3>6, <3>7
    <2>8. CASE Staged
      <3>1. op.id \in 1..identities
        BY <2>8 DEF MatTyped, Staged
      <3>2. /\ copy' \in Copies /\ copy'.target = copy.target /\ copy'.staging = Whole(op.id)
            /\ copy'.backup = copy.backup
        BY <2>8, <3>1, <2>1 DEF MatTyped, SoundCopy, Copies, Staged, CopiesSound
      <3>3. MatTyped'
        BY <2>8, <3>1, <2>1, <3>2 DEF MatTyped, OpInStep, Staged, CopiesSound
      <3>4. CopiesSound'
        BY <2>8, <3>1, <2>1, <3>2 DEF CopiesSound, SoundCopy, Staged
      <3>5. ProtocolKept'
        BY <2>8, <3>1, <2>1, <3>2 DEF MatTyped, CopiesSound, OpInStep, FixedResource, RemoteFileMarked,
           DockerFileWhole, RepositoryMarked, SkillWhole, MountIsOwed, SoundCopy, Staged
      <3> QED BY <3>3, <3>4, <3>5
    <2>9. CASE ClearTarget
      <3>1. CASE copy.target = Nothing
        <4>1. copy' = copy
          BY <2>9, <3>1 DEF ClearTarget
        <4>2. op.pc = "clear" /\ op' = [op EXCEPT !.pc = "publish"] /\ UNCHANGED marker /\ MatUnchanged
          BY <2>9, <3>1 DEF ClearTarget
        <4>3. op'.pc = "publish" /\ op'.id = op.id
          BY <4>2 DEF MatTyped
        <4>4. /\ copy' \in Copies /\ copy'.target = copy.target /\ copy'.staging = copy.staging
              /\ copy'.backup = copy.backup
          BY <2>9, <3>1, <4>1, <2>1 DEF MatTyped, SoundCopy, Copies, ClearTarget, CopiesSound
        <4>5. MatTyped'
          BY <2>9, <3>1, <4>1, <2>1, <4>4 DEF MatTyped, OpInStep, ClearTarget, CopiesSound
        <4>6. CopiesSound'
          BY <2>9, <3>1, <4>1, <2>1, <4>4 DEF CopiesSound, SoundCopy, ClearTarget
        <4>7. OpInStep'
        BY <4>1, <4>2, <4>3 DEF MatTyped, OpInStep
        <4>8. FixedResource'
          BY <2>9, <3>1, <4>1, <2>1, <4>4 DEF MatTyped, CopiesSound, OpInStep, FixedResource,
             RemoteFileMarked, DockerFileWhole, RepositoryMarked, SkillWhole, MountIsOwed, SoundCopy,
             ClearTarget
        <4>9. RemoteFileMarked'
          BY <2>9, <3>1, <4>1, <2>1, <4>4 DEF MatTyped, CopiesSound, OpInStep, FixedResource,
             RemoteFileMarked, DockerFileWhole, RepositoryMarked, SkillWhole, MountIsOwed, SoundCopy,
             ClearTarget
        <4>10. DockerFileWhole'
          BY <2>9, <3>1, <4>1, <2>1, <4>4 DEF MatTyped, CopiesSound, OpInStep, FixedResource,
             RemoteFileMarked, DockerFileWhole, RepositoryMarked, SkillWhole, MountIsOwed, SoundCopy,
             ClearTarget
        <4>11. RepositoryMarked'
          BY <2>9, <3>1, <4>1, <2>1, <4>4 DEF MatTyped, CopiesSound, OpInStep, FixedResource,
             RemoteFileMarked, DockerFileWhole, RepositoryMarked, SkillWhole, MountIsOwed, SoundCopy,
             ClearTarget
        <4>12. SkillWhole'
          BY <2>9, <3>1, <4>1, <2>1, <4>4 DEF MatTyped, CopiesSound, OpInStep, FixedResource,
             RemoteFileMarked, DockerFileWhole, RepositoryMarked, SkillWhole, MountIsOwed, SoundCopy,
             ClearTarget
        <4>13. MountIsOwed'
          BY <2>9, <3>1, <4>1, <2>1, <4>4 DEF MatTyped, CopiesSound, OpInStep, FixedResource,
             RemoteFileMarked, DockerFileWhole, RepositoryMarked, SkillWhole, MountIsOwed, SoundCopy,
             ClearTarget
        <4> QED BY <4>5, <4>6, <4>7, <4>8, <4>9, <4>10, <4>11, <4>12, <4>13
      <3>2. ASSUME copy.target.whole, UNCHANGED op, NEW t \in Partials(copy.target.id),
                   copy' = [copy EXCEPT !.target = t], UNCHANGED marker
            PROVE  MountInv'
        <4>1. /\ copy.target.id \in 1..identities /\ SoundCopy(t) /\ t # Nothing /\ ~t.whole
              /\ t.id = copy.target.id
          BY <2>1, <3>2 DEF CopiesSound, SoundCopy, Nothing, MatTyped
        <4>2. /\ copy' \in Copies /\ copy'.target = t /\ copy'.staging = copy.staging
              /\ copy'.backup = copy.backup
          BY <2>9, <3>2, <4>1, <2>1 DEF MatTyped, SoundCopy, Copies, ClearTarget, CopiesSound
        <4>3. MatTyped'
          BY <2>9, <3>2, <4>1, <2>1, <4>2 DEF MatTyped, OpInStep, ClearTarget, CopiesSound
        <4>4. CopiesSound'
          BY <2>9, <3>2, <4>1, <2>1, <4>2 DEF CopiesSound, SoundCopy, ClearTarget
        <4>5. ProtocolKept'
          BY <2>9, <3>2, <4>1, <2>1, <4>2 DEF MatTyped, CopiesSound, OpInStep, FixedResource,
             RemoteFileMarked, DockerFileWhole, RepositoryMarked, SkillWhole, MountIsOwed, SoundCopy,
             ClearTarget
        <4> QED BY <4>3, <4>4, <4>5
      <3>3. CASE copy' = [copy EXCEPT !.target = Nothing] /\ NowAt("publish")
        <4>1. /\ copy' \in Copies /\ copy'.target = Nothing /\ copy'.staging = copy.staging
              /\ copy'.backup = copy.backup
          BY <2>9, <3>3, <2>1 DEF MatTyped, SoundCopy, Copies, ClearTarget, CopiesSound
        <4>2. MatTyped'
          BY <2>9, <3>3, <2>1, <4>1 DEF MatTyped, OpInStep, ClearTarget, CopiesSound
        <4>3. CopiesSound'
          BY <2>9, <3>3, <2>1, <4>1 DEF CopiesSound, SoundCopy, ClearTarget
        <4>4. ProtocolKept'
          BY <2>9, <3>3, <2>1, <4>1 DEF MatTyped, CopiesSound, OpInStep, FixedResource,
             RemoteFileMarked, DockerFileWhole, RepositoryMarked, SkillWhole, MountIsOwed, SoundCopy,
             ClearTarget
        <4> QED BY <4>2, <4>3, <4>4
      <3> QED BY <2>9, <3>1, <3>2, <3>3 DEF ClearTarget
    <2>10. CASE BackUpTarget
      <3>1. /\ copy' \in Copies /\ copy'.target = Nothing /\ copy'.staging = copy.staging
            /\ copy'.backup = copy.target
        BY <2>10, <2>1 DEF MatTyped, SoundCopy, Copies, BackUpTarget, CopiesSound
      <3>2. MatTyped'
        BY <2>10, <2>1, <3>1 DEF MatTyped, OpInStep, BackUpTarget, CopiesSound
      <3>3. CopiesSound'
        BY <2>10, <2>1, <3>1 DEF CopiesSound, SoundCopy, BackUpTarget
      <3>4. ProtocolKept'
        BY <2>10, <2>1, <3>1 DEF MatTyped, CopiesSound, OpInStep, FixedResource, RemoteFileMarked,
           DockerFileWhole, RepositoryMarked, SkillWhole, MountIsOwed, SoundCopy, BackUpTarget
      <3> QED BY <3>2, <3>3, <3>4
    <2>11. CASE RestoreBackup
      <3>1. /\ copy' \in Copies /\ copy'.target = copy.backup /\ copy'.staging = copy.staging
            /\ copy'.backup = Nothing
        BY <2>11, <2>1 DEF MatTyped, SoundCopy, Copies, RestoreBackup, CopiesSound
      <3>2. MatTyped'
        BY <2>11, <2>1, <3>1 DEF MatTyped, OpInStep, RestoreBackup, CopiesSound
      <3>3. CopiesSound'
        BY <2>11, <2>1, <3>1 DEF CopiesSound, SoundCopy, RestoreBackup
      <3>4. ProtocolKept'
        BY <2>11, <2>1, <3>1 DEF MatTyped, CopiesSound, OpInStep, FixedResource, RemoteFileMarked,
           DockerFileWhole, RepositoryMarked, SkillWhole, MountIsOwed, SoundCopy, RestoreBackup
      <3> QED BY <3>2, <3>3, <3>4
    <2>12. CASE PublishTarget
      <3>1. CASE protocol = "git" /\ copy.target # Nothing
        <4>1. /\ copy' = [copy EXCEPT !.staging = Nothing] /\ op' = NoOp
              /\ OpAt("publish") /\ UNCHANGED marker /\ MatUnchanged
          BY <2>12, <3>1 DEF PublishTarget
        <4>2. /\ copy' \in Copies /\ copy'.target = copy.target /\ copy'.staging = Nothing
              /\ copy'.backup = copy.backup
          BY <2>1, <4>1 DEF MatTyped, SoundCopy, Copies, CopiesSound
        <4>3. MatTyped'
          BY <2>1, <3>1, <4>1, <4>2 DEF MatTyped, OpInStep, CopiesSound
        <4>4. CopiesSound'
          BY <2>1, <3>1, <4>1, <4>2 DEF CopiesSound, SoundCopy
        <4>5. OpInStep'
          BY <2>1, <3>1, <4>1, <4>2 DEF MatTyped, CopiesSound, OpInStep, FixedResource, RemoteFileMarked,
             DockerFileWhole, RepositoryMarked, SkillWhole, MountIsOwed, SoundCopy
        <4>6. FixedResource'
          BY <2>1, <3>1, <4>1, <4>2 DEF MatTyped, CopiesSound, OpInStep, FixedResource, RemoteFileMarked,
             DockerFileWhole, RepositoryMarked, SkillWhole, MountIsOwed, SoundCopy
        <4>7. RemoteFileMarked'
          BY <2>1, <3>1, <4>1, <4>2 DEF MatTyped, CopiesSound, OpInStep, FixedResource, RemoteFileMarked,
             DockerFileWhole, RepositoryMarked, SkillWhole, MountIsOwed, SoundCopy
        <4>8. DockerFileWhole'
          BY <2>1, <3>1, <4>1, <4>2 DEF MatTyped, CopiesSound, OpInStep, FixedResource, RemoteFileMarked,
             DockerFileWhole, RepositoryMarked, SkillWhole, MountIsOwed, SoundCopy
        <4>9. RepositoryMarked'
          BY <2>1, <3>1, <4>1, <4>2 DEF MatTyped, CopiesSound, OpInStep, FixedResource, RemoteFileMarked,
             DockerFileWhole, RepositoryMarked, SkillWhole, MountIsOwed, SoundCopy
        <4>10. SkillWhole'
          BY <2>1, <3>1, <4>1, <4>2 DEF MatTyped, CopiesSound, OpInStep, FixedResource, RemoteFileMarked,
             DockerFileWhole, RepositoryMarked, SkillWhole, MountIsOwed, SoundCopy
        <4>11. MountIsOwed'
          BY <2>1, <3>1, <4>1, <4>2 DEF MatTyped, CopiesSound, OpInStep, FixedResource, RemoteFileMarked,
             DockerFileWhole, RepositoryMarked, SkillWhole, MountIsOwed, SoundCopy
        <4> QED BY <4>3, <4>4, <4>5, <4>6, <4>7, <4>8, <4>9, <4>10, <4>11
      <3>2. CASE ~(protocol = "git" /\ copy.target # Nothing)
        <4>1. /\ copy' = [copy EXCEPT !.target = copy.staging, !.staging = Nothing, !.backup = Nothing]
              /\ op' = [op EXCEPT !.pc = "ready"]
              /\ OpAt("publish") /\ UNCHANGED marker /\ MatUnchanged
          BY <2>12, <3>2 DEF PublishTarget
        <4>2. /\ copy' \in Copies /\ copy'.target = copy.staging /\ copy'.staging = Nothing
              /\ copy'.backup = Nothing
          BY <3>2, <4>1, <2>1 DEF MatTyped, SoundCopy, Copies, CopiesSound
        <4>3. MatTyped'
          BY <3>2, <4>1, <2>1, <4>2 DEF MatTyped, OpInStep, CopiesSound
        <4>4. CopiesSound'
          BY <3>2, <4>1, <2>1, <4>2 DEF CopiesSound, SoundCopy
        <4>5. OpInStep'
        BY <3>2, <4>1, <2>1, <4>2 DEF MatTyped, CopiesSound, OpInStep, FixedResource, RemoteFileMarked,
           DockerFileWhole, RepositoryMarked, SkillWhole, MountIsOwed, SoundCopy
        <4>6. FixedResource'
          BY <3>2, <4>1, <2>1, <4>2 DEF MatTyped, CopiesSound, OpInStep, FixedResource, RemoteFileMarked,
             DockerFileWhole, RepositoryMarked, SkillWhole, MountIsOwed, SoundCopy
        <4>7. RemoteFileMarked'
          BY <3>2, <4>1, <2>1, <4>2 DEF MatTyped, CopiesSound, OpInStep, FixedResource, RemoteFileMarked,
             DockerFileWhole, RepositoryMarked, SkillWhole, MountIsOwed, SoundCopy
        <4>8. DockerFileWhole'
          BY <3>2, <4>1, <2>1, <4>2 DEF MatTyped, CopiesSound, OpInStep, FixedResource, RemoteFileMarked,
             DockerFileWhole, RepositoryMarked, SkillWhole, MountIsOwed, SoundCopy
        <4>9. RepositoryMarked'
          BY <3>2, <4>1, <2>1, <4>2 DEF MatTyped, CopiesSound, OpInStep, FixedResource, RemoteFileMarked,
             DockerFileWhole, RepositoryMarked, SkillWhole, MountIsOwed, SoundCopy
        <4>10. SkillWhole'
          BY <3>2, <4>1, <2>1, <4>2 DEF MatTyped, CopiesSound, OpInStep, FixedResource, RemoteFileMarked,
             DockerFileWhole, RepositoryMarked, SkillWhole, MountIsOwed, SoundCopy
        <4>11. MountIsOwed'
          BY <3>2, <4>1, <2>1, <4>2 DEF MatTyped, CopiesSound, OpInStep, FixedResource, RemoteFileMarked,
             DockerFileWhole, RepositoryMarked, SkillWhole, MountIsOwed, SoundCopy
        <4> QED BY <4>3, <4>4, <4>5, <4>6, <4>7, <4>8, <4>9, <4>10, <4>11
      <3> QED BY <3>1, <3>2
    <2>13. CASE MarkReady
      <3>1. MatTyped'
        BY <2>13 DEF MarkReady, MatTyped, OpInStep, FixedResource, MountIsOwed, RemoteFileMarked,
           CopiesSound, SoundCopy, CopyType, Copies
      <3>2. CopiesSound'
        BY <2>13 DEF MarkReady, MatTyped, CopiesSound, SoundCopy, CopyType
      <3>3. ProtocolKept'
        BY <2>13 DEF MarkReady, MatTyped, CopiesSound, OpInStep, FixedResource, RemoteFileMarked,
           DockerFileWhole, RepositoryMarked, SkillWhole, MountIsOwed, SoundCopy
      <3> QED BY <3>1, <3>2, <3>3
    <2>14. CASE UnlinkTarget
      <3>1. ASSUME protocol = "git", copy.target.whole, UNCHANGED op, NEW t \in Partials(copy.target.id),
                   copy' = [copy EXCEPT !.target = t]
            PROVE  MountInv'
        <4>1. /\ copy.target.id \in 1..identities /\ SoundCopy(t) /\ t # Nothing /\ ~t.whole
              /\ t.id = copy.target.id
          BY <2>1, <3>1 DEF CopiesSound, SoundCopy, Nothing, MatTyped
        <4>2. /\ copy' \in Copies /\ copy'.target = t /\ copy'.staging = copy.staging
              /\ copy'.backup = copy.backup
          BY <2>14, <3>1, <4>1, <2>1 DEF MatTyped, SoundCopy, Copies, UnlinkTarget, CopiesSound
        <4>3. MatTyped'
          BY <2>14, <3>1, <4>1, <2>1, <4>2 DEF MatTyped, OpInStep, UnlinkTarget, CopiesSound
        <4>4. CopiesSound'
          BY <2>14, <3>1, <4>1, <2>1, <4>2 DEF CopiesSound, SoundCopy, UnlinkTarget
        <4>5. ProtocolKept'
          BY <2>14, <3>1, <4>1, <2>1, <4>2 DEF MatTyped, CopiesSound, OpInStep, FixedResource,
             RemoteFileMarked, DockerFileWhole, RepositoryMarked, SkillWhole, MountIsOwed, SoundCopy,
             UnlinkTarget
        <4> QED BY <4>3, <4>4, <4>5
      <3>2. CASE copy' = [copy EXCEPT !.target = Nothing, !.staging = Nothing] /\ NowAt("unmark")
        <4>1. /\ copy' \in Copies /\ copy'.target = Nothing /\ copy'.staging = Nothing
              /\ copy'.backup = copy.backup
          BY <2>14, <3>2, <2>1 DEF MatTyped, SoundCopy, Copies, UnlinkTarget, CopiesSound
        <4>2. MatTyped'
          BY <2>14, <3>2, <2>1, <4>1 DEF MatTyped, OpInStep, UnlinkTarget, CopiesSound
        <4>3. CopiesSound'
          BY <2>14, <3>2, <2>1, <4>1 DEF CopiesSound, SoundCopy, UnlinkTarget
        <4>4. ProtocolKept'
          BY <2>14, <3>2, <2>1, <4>1 DEF MatTyped, CopiesSound, OpInStep, FixedResource,
             RemoteFileMarked, DockerFileWhole, RepositoryMarked, SkillWhole, MountIsOwed, SoundCopy,
             UnlinkTarget
        <4> QED BY <4>2, <4>3, <4>4
      <3> QED BY <2>14, <3>1, <3>2 DEF UnlinkTarget
    <2>15. CASE Unmark
      <3>1. /\ UNCHANGED <<protocol, copy, wanted, identities, cuts, damage>>
            /\ deleting' \subseteq deleting
            /\ marker' = [id |-> 0, state |-> "none"] /\ op' = [pc |-> "idle", id |-> 0]
        BY <2>15 DEF Unmark
      <3>2. MatTyped'
        BY <3>1 DEF MatTyped
      <3>3. CopiesSound'
        BY <2>15 DEF Unmark, MatTyped, CopiesSound, SoundCopy, CopyType
      <3>4. ProtocolKept'
        BY <2>15 DEF Unmark, MatTyped, CopiesSound, OpInStep, FixedResource, RemoteFileMarked,
           DockerFileWhole, RepositoryMarked, SkillWhole, MountIsOwed, SoundCopy
      <3> QED BY <3>2, <3>3, <3>4
    <2>16. CASE AttachResource
      <3>1. MatTyped'
        BY <2>16 DEF AttachResource, MatTyped, OpInStep, FixedResource, MountIsOwed, RemoteFileMarked,
           CopiesSound, SoundCopy, CopyType, Copies
      <3>2. CopiesSound'
        BY <2>16 DEF AttachResource, MatTyped, CopiesSound, SoundCopy, CopyType
      <3>3. ProtocolKept'
        BY <2>16 DEF AttachResource, MatTyped, CopiesSound, OpInStep, FixedResource, RemoteFileMarked,
           DockerFileWhole, RepositoryMarked, SkillWhole, MountIsOwed, SoundCopy
      <3> QED BY <3>1, <3>2, <3>3
    <2>17. CASE DetachResource
      <3>1. MatTyped'
        BY <2>17 DEF DetachResource, MatTyped, OpInStep, FixedResource, MountIsOwed, RemoteFileMarked,
           CopiesSound, SoundCopy, CopyType, Copies
      <3>2. CopiesSound'
        BY <2>17 DEF DetachResource, MatTyped, CopiesSound, SoundCopy, CopyType
      <3>3. ProtocolKept'
        BY <2>17 DEF DetachResource, MatTyped, CopiesSound, OpInStep, FixedResource, RemoteFileMarked,
           DockerFileWhole, RepositoryMarked, SkillWhole, MountIsOwed, SoundCopy
      <3> QED BY <3>1, <3>2, <3>3
    <2>18. CASE Interrupted
      <3>1. MatTyped'
        BY <2>18 DEF Interrupted, MatTyped, OpInStep, FixedResource, MountIsOwed, RemoteFileMarked,
           CopiesSound, SoundCopy, CopyType, Copies
      <3>2. CopiesSound'
        BY <2>18 DEF Interrupted, MatTyped, CopiesSound, SoundCopy, CopyType
      <3>3. ProtocolKept'
        BY <2>18 DEF Interrupted, MatTyped, CopiesSound, OpInStep, FixedResource, RemoteFileMarked,
           DockerFileWhole, RepositoryMarked, SkillWhole, MountIsOwed, SoundCopy
      <3> QED BY <3>1, <3>2, <3>3
    <2>19. CASE DamageSkill
      <3>1. PICK t \in {Nothing, [id |-> copy.target.id, whole |-> FALSE, head |-> FALSE]} :
              copy' = [copy EXCEPT !.target = t]
        BY <2>19 DEF DamageSkill
      <3>2. copy.target.id \in 1..identities
        BY <2>1, <2>19 DEF CopiesSound, SoundCopy, DamageSkill, MatTyped
      <3>3. /\ SoundCopy(t) /\ ~t.whole /\ ~t.head
            /\ t.id \in {0, copy.target.id}
            /\ t = Nothing <=> t.id = 0
        <4>1. CASE t = Nothing
          BY <2>1, <4>1 DEF Nothing
        <4>2. CASE t = [id |-> copy.target.id, whole |-> FALSE, head |-> FALSE]
          <5>1. copy.target.id \in Nat /\ copy.target.id # 0
            BY <3>2 DEF MatTyped
          <5>2. t.id = copy.target.id /\ t.whole = FALSE /\ t.head = FALSE /\ t \in CopyType
            BY <4>2, <5>1 DEF CopyType
          <5>3. t # Nothing
            BY <5>1, <5>2 DEF Nothing
          <5> QED BY <5>1, <5>2, <5>3, <3>2 DEF SoundCopy
        <4> QED BY <3>1, <4>1, <4>2
      <3>4. /\ copy' \in Copies /\ copy'.target = t /\ copy'.staging = copy.staging
            /\ copy'.backup = copy.backup
          BY <2>19, <3>1, <3>3, <2>1 DEF MatTyped, SoundCopy, Copies, DamageSkill, CopiesSound
      <3>5. MatTyped'
        BY <2>19, <3>1, <3>3, <2>1, <3>4 DEF MatTyped, OpInStep, DamageSkill, CopiesSound
      <3>6. CopiesSound'
        BY <2>19, <3>1, <3>3, <2>1, <3>4 DEF CopiesSound, SoundCopy, DamageSkill
      <3>7. ProtocolKept'
        BY <2>19, <3>1, <3>3, <2>1, <3>4 DEF MatTyped, CopiesSound, OpInStep, FixedResource,
           RemoteFileMarked, DockerFileWhole, RepositoryMarked, SkillWhole, MountIsOwed, SoundCopy,
           DamageSkill
      <3> QED BY <3>5, <3>6, <3>7
    <2>20. ASSUME NEW i \in deleting, StartRemoval(i) PROVE MountInv'
      <3>1. /\ UNCHANGED <<protocol, copy, marker, wanted, identities, cuts, damage>>
            /\ deleting' \subseteq deleting /\ i \in 1..identities /\ i \in Nat
            /\ op' = op \/ op' = [pc |-> "unlink", id |-> i]
        BY <2>20 DEF StartRemoval, MatTyped
      <3>2. MatTyped'
        <4>1. CASE op' = op
          BY <3>1, <4>1 DEF MatTyped
        <4>2. CASE op' = [pc |-> "unlink", id |-> i]
          BY <3>1, <4>2 DEF MatTyped
        <4> QED BY <3>1, <4>1, <4>2
      <3>3. CopiesSound'
        BY <2>20 DEF StartRemoval, MatTyped, CopiesSound, SoundCopy
      <3>4. ProtocolKept'
        BY <2>20 DEF StartRemoval, MatTyped, CopiesSound, OpInStep, FixedResource, RemoteFileMarked,
           DockerFileWhole, RepositoryMarked, SkillWhole, MountIsOwed, SoundCopy
      <3> QED BY <3>2, <3>3, <3>4
    <2>21. CASE UNCHANGED matVars
      BY <2>21 DEF matVars, MatTyped, CopiesSound, OpInStep, FixedResource, RemoteFileMarked,
         DockerFileWhole, RepositoryMarked, SkillWhole, MountIsOwed, SoundCopy
    <2> QED BY <2>2, <2>3, <2>4, <2>5, <2>6, <2>7, <2>8, <2>9, <2>10, <2>11, <2>12, <2>13, <2>14, <2>15,
    <2>16, <2>17, <2>18, <2>19, <2>20, <2>21 DEF MaterializerNext
  <1> QED BY <1>1, <1>2, PTL DEF MaterializerSpec

\* A path of the sandbox holds exactly what the Session says it does: what is
\* accepted as present is all of it, no interrupted import is refused for good by
\* its retry, and a detached resource is gone once its tombstone is.
THEOREM MountExact == MaterializerSpec => []MountIsExact
  <1>1. MountInv => MountIsExact
    <2> SUFFICES ASSUME MountInv PROVE MountIsExact
      OBVIOUS
    <2> USE MaterializerAssumption DEF MountInv, ProtocolKept, NoOp, Files, Skills
    <2>1. PresentIsWhole
      <3> SUFFICES ASSUME op = NoOp, wanted # 0, Has(wanted) PROVE copy.target = Whole(wanted)
        BY DEF PresentIsWhole
      <3>1. wanted = identities /\ wanted \in Nat
        BY DEF MatTyped
      <3>2. CASE protocol = "remote_file"
        BY <3>2 DEF Has, HasFileResource, Ready, RemoteFileMarked
      <3>3. CASE protocol = "docker_file"
        BY <3>1, <3>3 DEF Has, DockerHasFileResource, Ready, DockerFileWhole, CopiesSound, SoundCopy,
           Nothing, CopyType
      <3>4. CASE protocol = "git"
        BY <3>1, <3>4 DEF Has, HasGitRepository, RepositoryMarked, FixedResource
      <3>5. CASE protocol = "remote_skill"
        BY <3>1, <3>5 DEF Has, HasReadOnlySkill, SkillWhole, FixedResource
      <3>6. CASE protocol = "docker_skill"
        <4>1. copy.target.whole /\ wanted = 1 /\ identities = 1
          BY <3>1, <3>6 DEF Has, DockerHasReadOnlySkill, ValidMaterializedSkillTree, FixedResource
        <4>2. /\ copy.target = Whole(copy.target.id) /\ copy.target.id \in 0..1
              /\ (copy.target.id = 0 => copy.target = Nothing)
          BY <4>1 DEF CopiesSound, SoundCopy
        <4> QED BY <4>1, <4>2 DEF Nothing
      <3> QED BY <3>2, <3>3, <3>4, <3>5, <3>6 DEF MatTyped
    <2>2. RetryNotRefused
      BY DEF RetryNotRefused, Refused, RepositoryMarked, MatTyped, FixedResource
    <2>3. DetachedIsGone
      <3> SUFFICES ASSUME wanted = 0, deleting = {}, copy.target # Nothing PROVE FALSE
        BY DEF DetachedIsGone
      <3>1. copy.target.id # 0
        BY DEF CopiesSound, SoundCopy
      <3> QED BY <3>1 DEF MountIsOwed, Owed
    <2> QED BY <2>1, <2>2, <2>3 DEF MountIsExact
  <1> QED BY <1>1, MountInvariant, PTL

(***************************************************************************)
(* Providers                                                               *)
(***************************************************************************)

DockerPcs == {"root", "image", "conflict", "start", "remove", "unroot"}
RemotePcs == {"attach", "recover", "setup"}
ProviderPcs == {"idle", "attached", "create"} \cup DockerPcs \cup RemotePcs

CreatorType == [pc : ProviderPcs, box : Nat, root : Nat]
BoxType == [root : Nat, running : BOOLEAN]

ProviderTyped ==
    /\ kind \in ProviderNames
    /\ lastBox \in Nat /\ lastRoot \in Nat /\ raced \in BOOLEAN /\ providerFaults \in Nat
    /\ boxes \in [Existing -> BoxType] /\ Existing \subseteq 1..lastBox
    /\ \A b \in Existing : boxes[b].root <= lastRoot
    /\ roots \in [DOMAIN roots -> 0..Grace] /\ DOMAIN roots \subseteq 1..lastRoot
    /\ creator \in [Callers -> CreatorType]
    /\ \A c \in Callers : creator[c].box <= lastBox /\ creator[c].root <= lastRoot
    /\ audit \in [pc : {"idle", "list", "reap"}, stale : SUBSET Nat, active : SUBSET Nat]
    /\ audit.stale \subseteq 1..lastRoot

\* each provider has its own steps
StepsOfKind ==
    \A c \in Callers :
        /\ creator[c].pc \in DockerPcs => kind = "docker"
        /\ creator[c].pc \in RemotePcs => Remote
        /\ creator[c].pc = "create" => kind = "docker" \/ Remote

\* with unique names there is at most one sandbox
OneUniqueBox == Trait(kind).unique => \A a, b \in Existing : a = b

\* without a race, who creates has nothing to find and nobody creates with it
OneBoxUnlessRaced ==
    ~Trait(kind).unique /\ ~raced =>
        /\ \A a, b \in Existing : a = b
        /\ \A c \in Callers : creator[c].pc = "create" =>
             Existing = {} /\ \A d \in Callers \ {c} : creator[d].pc # "create"

\* the directory of a container that is still to be created: young, on the host,
\* mounted by nothing and known to nobody else
OwnsNewRoot(c) == creator[c].pc \in {"image", "create", "conflict"}

NewRootsPrivate ==
    kind = "docker" =>
        \A c \in Callers : OwnsNewRoot(c) =>
            /\ creator[c].root # 0 /\ creator[c].root \notin Mounted
            /\ \A d \in Callers \ {c} : creator[d].root # creator[c].root

NewRootsYoung ==
    kind = "docker" =>
        \A c \in Callers : creator[c].pc \in {"image", "create"} =>
            /\ creator[c].root \in DOMAIN roots /\ roots[creator[c].root] <= CreateTimeout
            /\ creator[c].root \notin audit.stale

\* who holds a container for use, or has just removed it, knows the only one that
\* mounts its directory
HeldRoots ==
    kind = "docker" =>
        \A c \in Callers, b \in Existing : boxes[b].root = creator[c].root =>
            /\ creator[c].pc # "unroot"
            /\ creator[c].pc = "attached" => b = creator[c].box

\* the reaper has seen every old directory that a container mounts
AuditIsComplete ==
    kind = "docker" /\ audit.pc = "reap" => Mounted \cap audit.stale \subseteq audit.active

ProviderInv ==
    /\ ProviderTyped /\ StepsOfKind /\ OneUniqueBox /\ OneBoxUnlessRaced
    /\ NewRootsPrivate /\ NewRootsYoung /\ HeldRoots /\ AuditIsComplete /\ MountedRootKept

\* worker c moves to the state r and the others stay where they are
Moves(c, r) ==
    /\ r \in CreatorType /\ creator' \in [Callers -> CreatorType] /\ creator'[c] = r
    /\ \A d \in Callers \ {c} : creator'[d] = creator[d]

\* no sandbox is new, and those that stay mount what they did
NoNewBox ==
    /\ boxes' \in [Existing' -> BoxType] /\ Existing' \subseteq Existing
    /\ \A b \in Existing' : boxes'[b].root = boxes[b].root

At(c, pc) == [pc |-> pc, box |-> creator[c].box, root |-> creator[c].root]

\* Docker and the local provider have unique names.
LEMMA UniqueNames == Trait("docker").unique /\ Trait("local").unique
  BY DEF Trait, Docker, Local, ProviderTrait

\* What the assignments to a worker's state leave.
LEMMA CreatorMoves ==
    ASSUME ProviderTyped, NEW c \in Callers
    PROVE  /\ \A pc \in ProviderPcs : Goes(c, pc) => Moves(c, At(c, pc))
           /\ GivesUp(c) => Moves(c, Idle)
           /\ \A r \in CreatorType : creator' = [creator EXCEPT ![c] = r] => Moves(c, r)
  <1>1. ASSUME NEW r \in CreatorType, creator' = [creator EXCEPT ![c] = r] PROVE Moves(c, r)
    BY <1>1 DEF Moves, ProviderTyped
  <1>2. Idle \in CreatorType
    BY DEF Idle, CreatorType, ProviderPcs
  <1>3. GivesUp(c) => Moves(c, Idle)
    BY <1>1, <1>2 DEF GivesUp
  <1>4. ASSUME NEW pc \in ProviderPcs, Goes(c, pc) PROVE Moves(c, At(c, pc))
    <2>1. creator[c] \in CreatorType
      BY DEF ProviderTyped
    <2>2. At(c, pc) \in CreatorType
      BY <2>1 DEF At, CreatorType
    <2>3. [creator[c] EXCEPT !.pc = pc] = At(c, pc)
      BY <2>1 DEF At, CreatorType
    <2>4. creator' = [creator EXCEPT ![c] = At(c, pc)]
      BY <1>4, <2>3 DEF Goes
    <2> QED BY <1>1, <2>2, <2>4
  <1> QED BY <1>1, <1>3, <1>4

\* What a worker's state is after its step and its sandbox have changed.
LEMMA BoxUpdates ==
    ASSUME NEW x \in CreatorType, NEW pc, NEW n
    PROVE  [x EXCEPT !.pc = pc, !.box = n] = [pc |-> pc, box |-> n, root |-> x.root]
  <1> DEFINE y == [pc |-> pc, box |-> x.box, root |-> x.root]
  <1>1. [x EXCEPT !.pc = pc] = y
    BY DEF CreatorType
  <1>2. [y EXCEPT !.box = n] = [pc |-> pc, box |-> n, root |-> x.root]
    OBVIOUS
  <1>3. [x EXCEPT !.pc = pc, !.box = n] = [[x EXCEPT !.pc = pc] EXCEPT !.box = n]
    BY DEF CreatorType
  <1> QED BY <1>1, <1>2, <1>3, Zenon

\* What a worker's state is after its step and its directory have changed.
LEMMA RootUpdates ==
    ASSUME NEW x \in CreatorType, NEW pc, NEW n
    PROVE  [x EXCEPT !.pc = pc, !.root = n] = [pc |-> pc, box |-> x.box, root |-> n]
  <1> DEFINE y == [pc |-> pc, box |-> x.box, root |-> x.root]
  <1>1. [x EXCEPT !.pc = pc] = y
    BY DEF CreatorType
  <1>2. [y EXCEPT !.root = n] = [pc |-> pc, box |-> x.box, root |-> n]
    OBVIOUS
  <1>3. [x EXCEPT !.pc = pc, !.root = n] = [[x EXCEPT !.pc = pc] EXCEPT !.root = n]
    BY DEF CreatorType
  <1> QED BY <1>1, <1>2, <1>3, Zenon

\* A worker attaches to a sandbox that exists.
LEMMA Attaches ==
    ASSUME ProviderTyped, NEW c \in Callers, NEW b \in Existing, AttachTarget(c, b)
    PROVE  /\ NoNewBox /\ Existing' = Existing
           /\ Moves(c, [pc |-> "attached", box |-> b, root |-> boxes[b].root])
           /\ b \in Nat /\ b <= lastBox /\ boxes[b].root <= lastRoot /\ boxes'[b].root = boxes[b].root
  <1>1. boxes[b] \in BoxType /\ b \in Nat /\ b <= lastBox /\ boxes[b].root <= lastRoot
    BY DEF ProviderTyped
  <1>2. NoNewBox /\ Existing' = Existing /\ boxes'[b].root = boxes[b].root
    BY <1>1 DEF AttachTarget, ProviderTyped, NoNewBox, Existing, BoxType
  <1>3. [pc |-> "attached", box |-> b, root |-> boxes[b].root] \in CreatorType
    BY <1>1 DEF CreatorType, ProviderPcs, BoxType
  <1>4. creator' = [creator EXCEPT ![c] = [pc |-> "attached", box |-> b, root |-> boxes[b].root]]
    BY <1>2 DEF AttachTarget, Gets
  <1> QED BY <1>1, <1>2, <1>3, <1>4 DEF Moves, ProviderTyped

\* Stopping, starting and removing sandboxes creates none.
LEMMA BoxesStay ==
    ASSUME ProviderTyped,
           \/ boxes' = boxes
           \/ \E b : boxes' = Drop(boxes, b)
           \/ \E gone : boxes' = [x \in Existing \ gone |-> boxes[x]]
    PROVE  NoNewBox
  BY DEF ProviderTyped, NoNewBox, Existing, Drop

\* A set of numbers has a least one.
LEMMA LeastOf ==
    ASSUME NEW found \in SUBSET Nat, found # {}
    PROVE  \E m \in found : \A x \in found : m <= x
  <1> DEFINE R == {p \in Nat \X Nat : p[1] < p[2]}
  <1>1. IsWellFoundedOn(R, Nat)
    BY NatLessThanWellFounded, Zenon DEF OpToRel
  <1>2. PICK m \in found : \A x \in found : <<x, m>> \notin R
    <2> HIDE DEF R
    <2> QED BY <1>1, WFMin
  <1>3. \A x \in found : m <= x
    <2> TAKE x \in found
    <2>1. <<x, m>> \in Nat \X Nat /\ <<x, m>>[1] = x /\ <<x, m>>[2] = m
      OBVIOUS
    <2>2. ~(<<x, m>>[1] < <<x, m>>[2])
      BY <1>2, <2>1, Zenon
    <2> QED BY <2>1, <2>2
  <1> QED BY <1>3

\* The first of some sandboxes is one of them.
LEMMA FirstIsFound ==
    ASSUME NEW found \in SUBSET Nat, found # {}
    PROVE  First(found) \in found
  BY LeastOf DEF First

\* A new sandbox of a provider that mounts nothing.
LEMMA BoxIsNew ==
    ASSUME ProviderTyped, NewBox(0, TRUE)
    PROVE  /\ Existing' = Existing \cup {lastBox + 1} /\ lastBox' = lastBox + 1 /\ lastBox <= lastBox'
           /\ lastBox' \in Nat /\ boxes' \in [Existing' -> BoxType] /\ boxes'[lastBox + 1].root = 0
           /\ \A b \in Existing' : boxes'[b].root <= lastRoot
  <1>1. lastBox \in Nat /\ lastRoot \in Nat /\ lastBox + 1 \notin Existing
    BY DEF ProviderTyped
  <1>2. /\ Existing' = Existing \cup {lastBox + 1} /\ lastBox' = lastBox + 1
        /\ boxes' = [b \in Existing' |-> boxes'[b]]
        /\ boxes'[lastBox + 1] = [root |-> 0, running |-> TRUE]
        /\ \A b \in Existing : boxes'[b] = boxes[b]
    BY <1>1 DEF NewBox, Existing
  <1>3. [root |-> 0, running |-> TRUE] \in BoxType
    BY DEF BoxType
  <1>4. \A b \in Existing' : boxes'[b] \in BoxType /\ boxes'[b].root <= lastRoot
    BY <1>1, <1>2, <1>3 DEF ProviderTyped
  <1> QED BY <1>1, <1>2, <1>4

\* A step of a worker at Docker that creates neither a directory nor a container,
\* and may remove the directory that the worker knows.
LEMMA DockerMoves ==
    ASSUME ProviderInv, kind = "docker", NEW c \in Callers, NEW r, Moves(c, r), NoNewBox,
           UNCHANGED <<kind, audit, lastBox>>, lastRoot' \in Nat, lastRoot <= lastRoot',
           raced' \in BOOLEAN, providerFaults' \in Nat,
           \/ roots' = roots
           \/ /\ roots' = Drop(roots, creator[c].root) /\ r.pc \notin {"image", "create"}
              /\ \A b \in Existing' : boxes'[b].root # creator[c].root,
           r.pc \notin RemotePcs, r.box <= lastBox, r.root <= lastRoot,
           r.root \in {0, creator[c].root} \cup Mounted,
           r.pc \in {"image", "create", "conflict"} => OwnsNewRoot(c) /\ r.root = creator[c].root,
           r.pc \in {"image", "create"} => creator[c].pc \in {"image", "create"},
           \A b \in Existing' : boxes'[b].root = r.root =>
               r.pc # "unroot" /\ (r.pc = "attached" => b = r.box)
    PROVE  ProviderInv'
  <1> USE DEF ProviderInv, Existing, Mounted, ProviderPcs, DockerPcs, RemotePcs
  <1>1. ProviderTyped'
    <2>1. \A d \in Callers : creator'[d].box <= lastBox' /\ creator'[d].root <= lastRoot'
      <3> TAKE d \in Callers
      <3>1. CASE d = c
        BY <3>1 DEF Moves, ProviderTyped, CreatorType
      <3>2. CASE d # c
        <4>1. creator'[d] = creator[d] /\ creator[d] \in CreatorType
          BY <3>2 DEF Moves, ProviderTyped
        <4>2. creator[d].root \in Nat /\ creator[d].box <= lastBox /\ creator[d].root <= lastRoot
          BY <4>1 DEF CreatorType, ProviderTyped
        <4> QED BY <4>1, <4>2 DEF ProviderTyped
      <3> QED BY <3>1, <3>2
    <2>2. roots' \in [DOMAIN roots' -> 0..Grace] /\ DOMAIN roots' \subseteq DOMAIN roots
      BY DEF ProviderTyped, Drop
    <2>3. DOMAIN roots' \subseteq 1..lastRoot' /\ audit'.stale \subseteq 1..lastRoot'
      BY <2>2 DEF ProviderTyped
    <2>4. \A b \in Existing' : boxes'[b].root <= lastRoot'
      <3> TAKE b \in Existing'
      <3>1. boxes[b] \in BoxType /\ boxes[b].root <= lastRoot /\ boxes'[b].root = boxes[b].root
        BY DEF ProviderTyped, NoNewBox
      <3> QED BY <3>1 DEF ProviderTyped, BoxType
    <2> QED BY <2>1, <2>2, <2>3, <2>4 DEF ProviderTyped, Moves, NoNewBox
  <1>2. StepsOfKind' /\ OneUniqueBox' /\ OneBoxUnlessRaced'
    BY UniqueNames DEF StepsOfKind, OneUniqueBox, OneBoxUnlessRaced, Moves, NoNewBox, Remote
  <1>3. NewRootsPrivate'
    BY DEF NewRootsPrivate, OwnsNewRoot, Moves, NoNewBox
  <1>4. NewRootsYoung'
    BY DEF NewRootsPrivate, NewRootsYoung, OwnsNewRoot, Moves, NoNewBox, Drop
  <1>5. HeldRoots'
    BY DEF HeldRoots, Moves, NoNewBox
  <1>6. AuditIsComplete'
    BY DEF AuditIsComplete, NoNewBox
  <1>7. MountedRootKept'
    BY DEF MountedRootKept, NoNewBox, Drop
  <1> QED BY <1>1, <1>2, <1>3, <1>4, <1>5, <1>6, <1>7

\* A step of a worker at another provider.
LEMMA OtherMoves ==
    ASSUME ProviderInv, kind # "docker", NEW c \in Callers, NEW r, Moves(c, r),
           UNCHANGED <<kind, roots, audit, lastRoot>>, raced' \in BOOLEAN, raced => raced',
           providerFaults' \in Nat, lastBox' \in Nat, lastBox <= lastBox',
           boxes' \in [Existing' -> BoxType], \A b \in Existing' : boxes'[b].root <= lastRoot,
           \/ Existing' \subseteq Existing
           \/ /\ Existing' = Existing \cup {lastBox + 1} /\ lastBox' = lastBox + 1 /\ r.pc # "create"
              /\ Trait(kind).unique \/ creator[c].pc # "create" => Existing = {} /\ Trait(kind).unique,
           r.pc \notin DockerPcs, r.pc \in RemotePcs \cup {"create"} => Remote,
           r.box <= lastBox', r.root <= lastRoot,
           r.pc = "create" /\ ~raced' => Existing = {} /\ \A d \in Callers \ {c} : creator[d].pc # "create"
    PROVE  ProviderInv'
  <1> USE DEF ProviderInv, ProviderPcs, DockerPcs, RemotePcs
  <1>1. ProviderTyped'
    <2>1. Existing' \subseteq 1..lastBox'
      BY DEF ProviderTyped, Existing
    <2>2. \A d \in Callers : creator'[d].box <= lastBox' /\ creator'[d].root <= lastRoot'
      <3> TAKE d \in Callers
      <3>1. CASE d = c
        BY <3>1 DEF Moves
      <3>2. CASE d # c
        <4>1. creator'[d] = creator[d] /\ creator[d] \in CreatorType
          BY <3>2 DEF Moves, ProviderTyped
        <4>2. creator[d].box \in Nat /\ creator[d].box <= lastBox /\ creator[d].root <= lastRoot
          BY <4>1 DEF CreatorType, ProviderTyped
        <4> QED BY <4>1, <4>2 DEF ProviderTyped
      <3> QED BY <3>1, <3>2
    <2> QED BY <2>1, <2>2 DEF ProviderTyped, Moves, Existing
  <1>2. StepsOfKind'
    BY DEF StepsOfKind, Moves, Remote
  <1>3. OneUniqueBox'
    BY DEF OneUniqueBox, Existing, ProviderTyped
  <1>4. OneBoxUnlessRaced'
    BY DEF OneBoxUnlessRaced, Moves, Existing, ProviderTyped
  <1>5. (NewRootsPrivate /\ NewRootsYoung /\ HeldRoots /\ AuditIsComplete /\ MountedRootKept)'
    BY DEF NewRootsPrivate, NewRootsYoung, HeldRoots, AuditIsComplete, MountedRootKept
  <1> QED BY <1>1, <1>2, <1>3, <1>4, <1>5

\* What the workers, the reaper, lost answers and crashes leave at a provider.
THEOREM ProviderInvariant == ProviderSpec => []ProviderInv
  <1> USE ProviderAssumption
  <1>1. ProviderInit => ProviderInv
    <2> SUFFICES ASSUME ProviderInit PROVE ProviderInv
      OBVIOUS
    <2>1. Existing = {} /\ DOMAIN roots = {} /\ \A c \in Callers : creator[c] = Idle
      BY DEF ProviderInit, Existing
    <2>2. ProviderTyped
      <3>1. boxes \in [Existing -> BoxType] /\ roots \in [DOMAIN roots -> 0..Grace]
        BY <2>1 DEF ProviderInit, Existing
      <3>2. Idle \in CreatorType /\ creator \in [Callers -> CreatorType]
        BY DEF ProviderInit, Idle, CreatorType, ProviderPcs
      <3>3. /\ audit \in [pc : {"idle", "list", "reap"}, stale : SUBSET Nat, active : SUBSET Nat]
            /\ audit.stale = {}
        BY DEF ProviderInit, NoAudit
      <3>4. \A c \in Callers : creator[c].box = 0 /\ creator[c].root = 0
        BY <2>1 DEF Idle
      <3>5. /\ kind \in ProviderNames /\ lastBox = 0 /\ lastRoot = 0 /\ raced \in BOOLEAN
            /\ providerFaults \in Nat
        BY DEF ProviderInit
      <3> QED BY <2>1, <3>1, <3>2, <3>3, <3>4, <3>5 DEF ProviderTyped
    <2> QED BY <2>1, <2>2 DEF ProviderInit, ProviderInv, StepsOfKind, OneUniqueBox, OneBoxUnlessRaced,
                             NewRootsPrivate, NewRootsYoung, HeldRoots, AuditIsComplete, MountedRootKept,
                             Idle, NoAudit, DockerPcs, RemotePcs, OwnsNewRoot, Mounted
  <1>2. ProviderInv /\ [ProviderNext]_providerVars => ProviderInv'
    <2> SUFFICES ASSUME ProviderInv, [ProviderNext]_providerVars PROVE ProviderInv'
      OBVIOUS
    <2>1. ProviderTyped /\ Existing \subseteq Nat /\ providerFaults \in Nat /\ raced \in BOOLEAN
      BY DEF ProviderInv, ProviderTyped
    <2>2. lastRoot \in Nat /\ lastBox \in Nat
      BY <2>1 DEF ProviderTyped
    <2>3. ASSUME NEW c \in Callers, DockerLookup(c) PROVE ProviderInv'
      <3> USE DEF Fault, NoFault
      <3>1. CASE UNCHANGED <<boxes, creator, raced>>
        <4>1. /\ UNCHANGED <<kind, boxes, roots, creator, audit, lastBox, lastRoot, raced>>
              /\ providerFaults' \in Nat
          BY <2>1, <2>3, <3>1 DEF DockerLookup
        <4>2. ProviderTyped'
          BY <4>1 DEF ProviderInv, ProviderTyped, Existing
        <4>3. StepsOfKind' /\ OneUniqueBox' /\ OneBoxUnlessRaced' /\ NewRootsPrivate'
          BY <4>1 DEF ProviderInv, StepsOfKind, OneUniqueBox, OneBoxUnlessRaced, NewRootsPrivate,
                      Existing, Mounted, OwnsNewRoot, Remote
        <4>4. NewRootsYoung' /\ HeldRoots' /\ AuditIsComplete' /\ MountedRootKept'
          BY <4>1 DEF ProviderInv, NewRootsYoung, HeldRoots, AuditIsComplete, MountedRootKept,
                      Existing, Mounted, OwnsNewRoot, Remote
        <4> QED BY <4>2, <4>3, <4>4 DEF ProviderInv
      <3>2. ASSUME NEW b \in Existing, AttachTarget(c, b), UNCHANGED raced, NoFault PROVE ProviderInv'
        <4> DEFINE r == [pc |-> "attached", box |-> b, root |-> boxes[b].root]
        <4>1. /\ NoNewBox /\ Moves(c, r) /\ b <= lastBox /\ boxes[b].root <= lastRoot
              /\ Existing' = Existing
          BY <2>1, <3>2, Attaches
        <4>2. kind = "docker" /\ UNCHANGED <<kind, roots, audit, lastBox, lastRoot>> /\ lastRoot \in Nat
          BY <2>1, <2>3 DEF DockerLookup, ProviderTyped
        <4>3. \A x \in Existing' : x = b
          BY <4>1, <4>2, UniqueNames DEF ProviderInv, OneUniqueBox
        <4>4. boxes[b].root \in Mounted
          BY DEF Mounted
        <4>5. r.pc = "attached" /\ r.box = b /\ r.root = boxes[b].root
          OBVIOUS
        <4> HIDE DEF r
        <4> QED BY <2>1, <3>2, <4>1, <4>2, <4>3, <4>4, <4>5, DockerMoves DEF RemotePcs
      <3>3. CASE Existing = {} /\ Goes(c, "root") /\ UNCHANGED boxes /\ NoFault /\ Races(c)
        <4> DEFINE r == At(c, "root")
        <4>1. /\ Moves(c, r) /\ NoNewBox /\ r.pc = "root" /\ r.box <= lastBox
              /\ r.root <= lastRoot /\ r.root = creator[c].root
          BY <2>1, <3>3, CreatorMoves DEF ProviderTyped, At, NoNewBox, Existing, ProviderPcs, DockerPcs
        <4>2. /\ kind = "docker" /\ UNCHANGED <<kind, roots, audit, lastBox, lastRoot>>
              /\ lastRoot \in Nat /\ raced' \in BOOLEAN /\ providerFaults' \in Nat
          BY <2>1, <2>3, <3>3 DEF DockerLookup, Races, ProviderTyped
        <4> HIDE DEF r
        <4>3. Existing' = {}
          BY <3>3 DEF Existing
        <4> QED BY <4>1, <4>2, <4>3, DockerMoves DEF RemotePcs
      <3> QED BY <2>3, <3>1, <3>2, <3>3 DEF DockerLookup
    <2>4. ASSUME NEW c \in Callers, EnsureResourceRoot(c) PROVE ProviderInv'
      <3>1. /\ kind = "docker" /\ UNCHANGED <<kind, boxes, audit, lastBox, raced>>
            /\ lastRoot' = lastRoot + 1 /\ providerFaults' \in Nat /\ creator[c].pc = "root"
        BY <2>1, <2>4 DEF EnsureResourceRoot, ProviderInv, StepsOfKind, DockerPcs, PcIs, Fault, NoFault
      <3>2. NoNewBox
        BY <2>1, <3>1, BoxesStay
      <3>3. CASE GivesUp(c) /\ UNCHANGED roots
        <4>1. Moves(c, Idle) /\ Idle.pc = "idle" /\ Idle.box = 0 /\ Idle.root = 0
          BY <2>1, <3>3, CreatorMoves DEF Idle
        <4> HIDE DEF Idle
        <4> QED BY <2>1, <2>2, <3>1, <3>2, <3>3, <4>1, DockerMoves DEF RemotePcs
      <3>4. CASE /\ roots' = [r \in DOMAIN roots \cup {lastRoot + 1} |->
                             IF r = lastRoot + 1 THEN 0 ELSE roots[r]]
                 /\ creator' = [creator EXCEPT ![c].pc = "image", ![c].root = lastRoot + 1]
        <4> DEFINE n == [pc |-> "image", box |-> creator[c].box, root |-> lastRoot + 1]
        <4>1. creator[c] \in CreatorType
          BY <2>1 DEF ProviderTyped
        <4>2. /\ n \in CreatorType
              /\ [creator[c] EXCEPT !.pc = "image", !.root = lastRoot + 1] = n
          <5>1. n \in CreatorType
            BY <2>2, <4>1 DEF CreatorType, ProviderPcs, DockerPcs
          <5>2. [creator[c] EXCEPT !.pc = "image", !.root = lastRoot + 1]
                  = [pc |-> "image", box |-> creator[c].box, root |-> lastRoot + 1]
            BY <4>1, RootUpdates, Zenon
          <5> QED BY <5>1, <5>2
        <4>3. creator' = [creator EXCEPT ![c] = n]
          BY <2>1, <3>4, <4>2 DEF ProviderTyped
        <4>4. Moves(c, n) /\ n.pc = "image" /\ n.root = lastRoot + 1 /\ n.box = creator[c].box
          BY <2>1, <4>2, <4>3, CreatorMoves
        <4> HIDE DEF n
        <4>5. \A d \in Callers :
                creator[d].root # lastRoot + 1 /\ creator[d].root \in Nat /\ creator[d].box \in Nat
          <5> TAKE d \in Callers
          <5>1. creator[d] \in CreatorType /\ creator[d].root <= lastRoot
            BY <2>1 DEF ProviderTyped
          <5> QED BY <2>2, <5>1 DEF CreatorType
        <4>6. \A b \in Existing : boxes[b].root # lastRoot + 1
          <5> TAKE b \in Existing
          <5>1. boxes[b] \in BoxType /\ boxes[b].root <= lastRoot
            BY <2>1 DEF ProviderTyped
          <5> QED BY <2>2, <5>1 DEF BoxType
        <4>7. /\ DOMAIN roots' = DOMAIN roots \cup {lastRoot + 1} /\ roots'[lastRoot + 1] = 0
              /\ \A x \in DOMAIN roots : roots'[x] = roots[x]
              /\ roots' \in [DOMAIN roots' -> 0..Grace] /\ DOMAIN roots' \subseteq 1..lastRoot'
          BY <2>1, <2>2, <3>1, <3>4 DEF ProviderTyped
        <4>8. ProviderTyped'
          <5>1. \A d \in Callers : creator'[d].box <= lastBox' /\ creator'[d].root <= lastRoot'
            BY <2>1, <2>2, <3>1, <4>4, <4>5 DEF ProviderTyped, Moves
          <5>2. \A b \in Existing' : boxes'[b].root <= lastRoot'
            <6> TAKE b \in Existing'
            <6>1. boxes[b] \in BoxType /\ boxes[b].root <= lastRoot
              BY <2>1, <3>1 DEF ProviderTyped, Existing
            <6> QED BY <2>2, <3>1, <6>1 DEF BoxType
          <5>3. audit'.stale \subseteq 1..lastRoot'
            BY <2>1, <2>2, <3>1 DEF ProviderTyped
          <5> QED BY <2>1, <2>2, <3>1, <3>2, <4>4, <4>7, <5>1, <5>2, <5>3 DEF ProviderTyped, Moves,
             Existing
        <4>9. (StepsOfKind /\ OneUniqueBox /\ OneBoxUnlessRaced)'
          BY <3>1, <3>2, <4>4, UniqueNames DEF ProviderInv, StepsOfKind, OneUniqueBox, OneBoxUnlessRaced,
             Moves,
             NoNewBox, Remote, RemotePcs
        <4>10. NewRootsPrivate'
          BY <2>2, <3>1, <4>4, <4>5, <4>6 DEF ProviderInv, NewRootsPrivate, OwnsNewRoot, Moves, Mounted,
             Existing
        <4>11. NewRootsYoung'
          <5>1. lastRoot + 1 \notin audit.stale /\ 0 <= CreateTimeout
            BY <2>1, <2>2 DEF ProviderTyped, ProviderAssumption
          <5> QED BY <3>1, <4>4, <4>7, <5>1 DEF ProviderInv, NewRootsYoung, Moves
        <4>12. (HeldRoots /\ AuditIsComplete /\ MountedRootKept)'
          BY <3>1, <4>4, <4>6, <4>7 DEF ProviderInv, HeldRoots, AuditIsComplete, MountedRootKept, Moves,
             Mounted, Existing
        <4> QED BY <4>8, <4>9, <4>10, <4>11, <4>12 DEF ProviderInv
      <3> QED BY <2>4, <3>3, <3>4 DEF EnsureResourceRoot
    <2>5. ASSUME NEW c \in Callers, EnsureImage(c) PROVE ProviderInv'
      <3>1. /\ kind = "docker" /\ UNCHANGED <<kind, boxes, audit, lastBox, lastRoot>>
            /\ raced' \in BOOLEAN /\ providerFaults' \in Nat /\ creator[c].pc = "image"
        BY <2>1, <2>5 DEF EnsureImage, ProviderInv, StepsOfKind, DockerPcs, PcIs, Fault, NoFault
      <3>2. Idle.pc = "idle" /\ Idle.box = 0 /\ Idle.root = 0
        BY DEF Idle
      <3>3. NoNewBox /\ \A b \in Existing' : boxes'[b].root # creator[c].root
        BY <2>1, <3>1, BoxesStay DEF ProviderInv, NewRootsPrivate, OwnsNewRoot, Mounted, NoNewBox
      <3>4. CASE Goes(c, "create") /\ UNCHANGED roots
        <4> DEFINE r == At(c, "create")
        <4>1. /\ Moves(c, r) /\ r.pc = "create" /\ r.box <= lastBox /\ r.root <= lastRoot
              /\ r.root = creator[c].root /\ r.box = creator[c].box
          BY <2>1, <3>4, CreatorMoves DEF ProviderTyped, At, ProviderPcs, DockerPcs, RemotePcs
        <4> HIDE DEF r
        <4> QED BY <2>2, <3>1, <3>3, <3>4, <4>1, DockerMoves DEF RemotePcs, OwnsNewRoot
      <3>5. CASE GivesUp(c) /\ roots' = Drop(roots, creator[c].root)
        <4>1. Moves(c, Idle)
          BY <2>1, <3>5, CreatorMoves
        <4> QED BY <2>2, <3>1, <3>2, <3>3, <3>5, <4>1, DockerMoves DEF RemotePcs
      <3> QED BY <2>5, <3>4, <3>5 DEF EnsureImage
    <2>6. ASSUME NEW c \in Callers, ContainerCreate(c) PROVE ProviderInv'
      <3>1. Fault \/ NoFault
        BY <2>6 DEF ContainerCreate
      <3>2. /\ kind = "docker" /\ UNCHANGED <<kind, audit, lastRoot, raced>>
            /\ raced' \in BOOLEAN /\ providerFaults' \in Nat /\ creator[c].pc = "create"
        BY <2>1, <2>6, <3>1 DEF ContainerCreate, PcIs, Fault, NoFault
      <3>3. Idle.pc = "idle" /\ Idle.box = 0 /\ Idle.root = 0
        BY DEF Idle
      <3>4. \A b \in Existing : boxes[b].root # creator[c].root
        BY <3>2 DEF ProviderInv, NewRootsPrivate, OwnsNewRoot, Mounted
      <3>5. ASSUME Existing = {}, NewBox(creator[c].root, FALSE), UNCHANGED roots,
                   NEW r \in {At(c, "start"), Idle}, Moves(c, r)
            PROVE  ProviderInv'
        <4>1. creator[c] \in CreatorType /\ creator[c].root <= lastRoot /\ creator[c].box <= lastBox
          BY <2>1 DEF ProviderTyped
        <4>2. /\ r.pc \in {"idle", "start"} /\ r.root \in {0, creator[c].root}
              /\ r.box \in {0, creator[c].box}
              /\ creator[c].root \in Nat /\ creator[c].box \in Nat
          BY <3>3, <4>1 DEF At, CreatorType
        <4>3. /\ Existing' = {lastBox + 1}
              /\ boxes'[lastBox + 1] = [root |-> creator[c].root, running |-> FALSE]
              /\ boxes'[lastBox + 1].root = creator[c].root /\ lastBox' = lastBox + 1
          BY <3>5 DEF NewBox, Existing
        <4>4. creator[c].root # 0 /\ \A d \in Callers \ {c} : creator[d].root # creator[c].root
          BY <3>2 DEF ProviderInv, NewRootsPrivate, OwnsNewRoot
        <4>5. creator[c].root \in DOMAIN roots /\ creator[c].root \notin audit.stale
          BY <3>2 DEF ProviderInv, NewRootsYoung
        <4>6. ProviderTyped'
          <5>1. \A d \in Callers : creator'[d].box <= lastBox' /\ creator'[d].root <= lastRoot'
            <6> TAKE d \in Callers
            <6>1. CASE d = c
              BY <2>2, <3>2, <3>5, <4>1, <4>2, <4>3, <6>1 DEF Moves
            <6>2. CASE d # c
              <7>1. /\ creator'[d] = creator[d] /\ creator[d] \in CreatorType
                    /\ creator[d].box <= lastBox /\ creator[d].root <= lastRoot
                BY <2>1, <3>5, <6>2 DEF ProviderTyped, Moves
              <7> QED BY <2>2, <3>2, <4>3, <7>1 DEF CreatorType
            <6> QED BY <6>1, <6>2
          <5>2. boxes' \in [Existing' -> BoxType] /\ Existing' \subseteq 1..lastBox'
            <6>1. [root |-> creator[c].root, running |-> FALSE] \in BoxType
              BY <4>2 DEF BoxType
            <6>2. boxes' = [b \in Existing' |-> boxes'[b]]
              BY <3>5 DEF NewBox, Existing
            <6>3. \A b \in Existing' : boxes'[b] \in BoxType
              BY <4>3, <6>1
            <6>4. Existing' \subseteq 1..lastBox'
              BY <2>2, <4>3
            <6> QED BY <6>2, <6>3, <6>4
          <5> QED BY <2>1, <2>2, <3>2, <3>5, <4>1, <4>3, <5>1, <5>2 DEF ProviderTyped, Moves
        <4>7. (StepsOfKind /\ OneUniqueBox /\ OneBoxUnlessRaced)'
          BY <3>2, <3>5, <4>2, <4>3, UniqueNames DEF ProviderInv, StepsOfKind, OneUniqueBox,
             OneBoxUnlessRaced, Moves,
             Remote, RemotePcs, DockerPcs
        <4>8. (NewRootsPrivate /\ NewRootsYoung)'
          BY <3>2, <3>5, <4>2, <4>3, <4>4 DEF ProviderInv, NewRootsPrivate, NewRootsYoung, OwnsNewRoot,
             Moves, Mounted, Existing
        <4>9. HeldRoots'
          BY <3>2, <3>5, <4>2, <4>3, <4>4 DEF ProviderInv, HeldRoots, Moves
        <4>10. (AuditIsComplete /\ MountedRootKept)'
          BY <3>2, <3>5, <4>3, <4>5 DEF ProviderInv, AuditIsComplete, MountedRootKept, Mounted, Existing
        <4> QED BY <4>6, <4>7, <4>8, <4>9, <4>10 DEF ProviderInv
      <3>6. CASE Existing = {} /\ NewBox(creator[c].root, FALSE) /\ Goes(c, "start") /\ UNCHANGED roots
        <4>1. Moves(c, At(c, "start"))
          BY <2>1, <3>6, CreatorMoves DEF ProviderPcs, DockerPcs
        <4> QED BY <3>5, <3>6, <4>1
      <3>7. CASE /\ Existing = {} /\ NewBox(creator[c].root, FALSE) /\ GivesUp(c)
                 /\ roots' = RootAfter(c, "lost")
        <4>1. Moves(c, Idle)
          BY <2>1, <3>7, CreatorMoves
        <4>2. UNCHANGED roots
          BY <3>7 DEF RootAfter
        <4> QED BY <3>5, <3>7, <4>1, <4>2
      <3>8. CASE Goes(c, "conflict") /\ UNCHANGED <<boxes, lastBox, roots>>
        <4> DEFINE r == At(c, "conflict")
        <4>1. /\ Moves(c, r) /\ r.pc = "conflict" /\ r.box <= lastBox /\ r.root <= lastRoot
              /\ r.root = creator[c].root /\ r.box = creator[c].box
          BY <2>1, <3>8, CreatorMoves DEF ProviderTyped, At, ProviderPcs, DockerPcs, RemotePcs
        <4> HIDE DEF r
        <4>2. NoNewBox
          BY <2>1, <3>8, BoxesStay
        <4> QED BY <2>2, <3>2, <3>8, <4>1, <4>2, DockerMoves DEF RemotePcs, OwnsNewRoot
      <3>9. ASSUME NEW failure \in {"rejected", "lost"}, GivesUp(c), roots' = RootAfter(c, failure),
                   UNCHANGED <<boxes, lastBox>>
            PROVE  ProviderInv'
        <4>1. Moves(c, Idle)
          BY <2>1, <3>9, CreatorMoves
        <4>2. NoNewBox /\ \A b \in Existing' : boxes'[b].root # creator[c].root
          BY <2>1, <3>4, <3>9, BoxesStay DEF NoNewBox
        <4>3. roots' = roots \/ roots' = Drop(roots, creator[c].root)
          BY <3>9 DEF RootAfter
        <4> QED BY <2>2, <3>2, <3>3, <3>9, <4>1, <4>2, <4>3, DockerMoves DEF RemotePcs
      <3> QED BY <2>6, <3>6, <3>7, <3>8, <3>9 DEF ContainerCreate
    <2>7. ASSUME NEW c \in Callers, ResolveConflict(c) PROVE ProviderInv'
      <3>1. /\ kind = "docker" /\ UNCHANGED <<kind, audit, lastBox, lastRoot>>
            /\ raced' \in BOOLEAN /\ providerFaults' \in Nat /\ creator[c].pc = "conflict"
            /\ roots' = Drop(roots, creator[c].root)
        BY <2>1, <2>7 DEF ResolveConflict, ProviderInv, StepsOfKind, DockerPcs, PcIs, Fault, NoFault
      <3>2. Idle.pc = "idle" /\ Idle.box = 0 /\ Idle.root = 0
        BY DEF Idle
      <3>3. \A b \in Existing : boxes[b].root # creator[c].root
        BY <3>1 DEF ProviderInv, NewRootsPrivate, OwnsNewRoot, Mounted
      <3>4. ASSUME NEW b \in Existing, AttachTarget(c, b) PROVE ProviderInv'
        <4> DEFINE r == [pc |-> "attached", box |-> b, root |-> boxes[b].root]
        <4>1. /\ NoNewBox /\ Moves(c, r) /\ b <= lastBox /\ boxes[b].root <= lastRoot
              /\ Existing' = Existing /\ boxes'[b].root = boxes[b].root
          BY <2>1, <3>4, Attaches
        <4>2. \A x \in Existing' : x = b
          BY <3>1, <4>1, UniqueNames DEF ProviderInv, OneUniqueBox
        <4>3. boxes[b].root \in Mounted
          BY DEF Mounted
        <4>4. r.pc = "attached" /\ r.box = b /\ r.root = boxes[b].root
          OBVIOUS
        <4> HIDE DEF r
        <4>5. \A x \in Existing' : boxes'[x].root # creator[c].root
          BY <3>3, <4>1 DEF NoNewBox
        <4> QED BY <2>2, <3>1, <4>1, <4>2, <4>3, <4>4, <4>5, DockerMoves DEF RemotePcs
      <3>5. CASE GivesUp(c) /\ UNCHANGED boxes
        <4>1. Moves(c, Idle) /\ NoNewBox
          BY <2>1, <3>5, CreatorMoves, BoxesStay
        <4>2. \A x \in Existing' : boxes'[x].root # creator[c].root
          BY <3>3, <4>1 DEF NoNewBox
        <4> QED BY <2>2, <3>1, <3>2, <4>1, <4>2, DockerMoves DEF RemotePcs
      <3> QED BY <2>7, <3>4, <3>5 DEF ResolveConflict
    <2>8. ASSUME NEW c \in Callers, ContainerStart(c) PROVE ProviderInv'
      <3> DEFINE b == CHOOSE x \in Existing : boxes[x].root = creator[c].root
                 mine == \E x \in Existing : boxes[x].root = creator[c].root
      <3>1. /\ kind = "docker" /\ UNCHANGED <<kind, roots, audit, lastBox, lastRoot>>
            /\ raced' \in BOOLEAN /\ providerFaults' \in Nat
        BY <2>1, <2>8 DEF ContainerStart, ProviderInv, StepsOfKind, DockerPcs, PcIs, Fault, NoFault
      <3>2. Idle.pc = "idle" /\ Idle.box = 0 /\ Idle.root = 0
        BY DEF Idle
      <3>3. CASE mine /\ boxes' = [boxes EXCEPT ![b].running = TRUE] /\ Gets(c, b)
        <4>1. b \in Existing
          BY <3>3
        <4> HIDE DEF b, mine
        <4>2. AttachTarget(c, b)
          BY <3>3 DEF AttachTarget
        <4> DEFINE r == [pc |-> "attached", box |-> b, root |-> boxes[b].root]
        <4>3. /\ NoNewBox /\ Moves(c, r) /\ b <= lastBox /\ boxes[b].root <= lastRoot
              /\ Existing' = Existing /\ boxes'[b].root = boxes[b].root
          BY <2>1, <4>1, <4>2, Attaches
        <4>4. \A x \in Existing' : x = b
          BY <3>1, <4>1, <4>3, UniqueNames DEF ProviderInv, OneUniqueBox
        <4>5. boxes[b].root \in Mounted
          BY <4>1 DEF Mounted
        <4>6. r.pc = "attached" /\ r.box = b /\ r.root = boxes[b].root
          OBVIOUS
        <4> HIDE DEF r
        <4> QED BY <2>2, <3>1, <4>3, <4>4, <4>5, <4>6, <4>1, DockerMoves DEF RemotePcs
      <3>4. CASE Goes(c, "remove") /\ UNCHANGED boxes
        <4> HIDE DEF b, mine
        <4> DEFINE r == At(c, "remove")
        <4>1. /\ Moves(c, r) /\ r.pc = "remove" /\ r.box <= lastBox /\ r.root <= lastRoot
              /\ r.root = creator[c].root /\ r.box = creator[c].box
          BY <2>1, <3>4, CreatorMoves DEF ProviderTyped, At, ProviderPcs, DockerPcs, RemotePcs
        <4> HIDE DEF r
        <4>2. NoNewBox
          BY <2>1, <3>4, BoxesStay
        <4> QED BY <2>2, <3>1, <4>1, <4>2, DockerMoves DEF RemotePcs
      <3> QED BY <2>8, <3>3, <3>4 DEF ContainerStart
    <2>9. ASSUME NEW c \in Callers, ForceRemove(c) PROVE ProviderInv'
      <3> DEFINE mine == {x \in Existing : boxes[x].root = creator[c].root}
                 gone == [x \in Existing \ mine |-> boxes[x]]
      <3>1. /\ kind = "docker" /\ UNCHANGED <<kind, audit, lastBox, lastRoot>>
            /\ raced' \in BOOLEAN /\ providerFaults' \in Nat /\ GivesUp(c)
        BY <2>1, <2>9 DEF ForceRemove, ProviderInv, StepsOfKind, DockerPcs, PcIs, Fault, NoFault
      <3>2. Idle.pc = "idle" /\ Idle.box = 0 /\ Idle.root = 0
        BY DEF Idle
      <3>3. Moves(c, Idle) /\ NoNewBox
        BY <2>1, <2>9, <3>1, CreatorMoves, BoxesStay DEF ForceRemove
      <3>4. CASE boxes' = gone /\ roots' = Drop(roots, creator[c].root)
        <4>1. \A x \in Existing' : boxes'[x].root # creator[c].root
          BY <3>4 DEF Existing
        <4> QED BY <2>2, <3>1, <3>2, <3>3, <3>4, <4>1, DockerMoves DEF RemotePcs
      <3>5. CASE UNCHANGED roots
        <4> HIDE DEF mine, gone
        <4> QED BY <2>2, <3>1, <3>2, <3>3, <3>5, DockerMoves DEF RemotePcs
      <3> QED BY <2>9, <3>4, <3>5 DEF ForceRemove
    <2>10. ASSUME NEW c \in Callers, DockerDestroy(c) PROVE ProviderInv'
      <3>1. /\ kind = "docker" /\ UNCHANGED <<kind, roots, audit, lastBox, lastRoot>>
            /\ raced' \in BOOLEAN /\ providerFaults' \in Nat /\ creator[c].pc = "attached"
        BY <2>1, <2>10 DEF DockerDestroy, ProviderInv, StepsOfKind, DockerPcs, PcIs, Fault, NoFault
      <3>2. Idle.pc = "idle" /\ Idle.box = 0 /\ Idle.root = 0
        BY DEF Idle
      <3>3. NoNewBox
        BY <2>1, <2>10, BoxesStay DEF DockerDestroy
      <3>4. CASE boxes' = Drop(boxes, creator[c].box) /\ Goes(c, "unroot")
        <4> DEFINE r == At(c, "unroot")
        <4>1. /\ Moves(c, r) /\ r.pc = "unroot" /\ r.box <= lastBox /\ r.root <= lastRoot
              /\ r.root = creator[c].root /\ r.box = creator[c].box
          BY <2>1, <3>4, CreatorMoves DEF ProviderTyped, At, ProviderPcs, DockerPcs, RemotePcs
        <4> HIDE DEF r
        <4>2. \A x \in Existing' : boxes'[x].root # creator[c].root
          <5> TAKE x \in Existing'
          <5>1. x \in Existing /\ x # creator[c].box /\ boxes'[x] = boxes[x]
            BY <3>4 DEF Drop, Existing
          <5> QED BY <3>1, <5>1 DEF ProviderInv, HeldRoots
        <4> QED BY <2>2, <3>1, <3>3, <4>1, <4>2, DockerMoves DEF RemotePcs
      <3>5. CASE GivesUp(c)
        <4>1. Moves(c, Idle)
          BY <2>1, <3>5, CreatorMoves
        <4> QED BY <2>2, <3>1, <3>2, <3>3, <4>1, DockerMoves DEF RemotePcs
      <3> QED BY <2>10, <3>4, <3>5 DEF DockerDestroy
    <2>11. ASSUME NEW c \in Callers, RemoveRoot(c) PROVE ProviderInv'
      <3>1. /\ kind = "docker" /\ UNCHANGED <<kind, boxes, audit, lastBox, lastRoot>>
            /\ raced' \in BOOLEAN /\ providerFaults' \in Nat /\ creator[c].pc = "unroot" /\ GivesUp(c)
            /\ roots' = Drop(roots, creator[c].root)
        BY <2>1, <2>11 DEF RemoveRoot, ProviderInv, StepsOfKind, DockerPcs, PcIs, Fault, NoFault
      <3>2. Idle.pc = "idle" /\ Idle.box = 0 /\ Idle.root = 0
        BY DEF Idle
      <3>3. Moves(c, Idle) /\ NoNewBox
        BY <2>1, <3>1, CreatorMoves, BoxesStay
      <3>4. \A x \in Existing' : boxes'[x].root # creator[c].root
        BY <3>1, <3>3 DEF ProviderInv, HeldRoots, NoNewBox
      <3> QED BY <2>2, <3>1, <3>2, <3>3, <3>4, DockerMoves DEF RemotePcs
    <2>12. ASSUME NEW c \in Callers, FindRemote(c) PROVE ProviderInv'
      <3>1. /\ kind # "docker" /\ Remote /\ UNCHANGED <<kind, boxes, roots, audit, lastBox, lastRoot>>
            /\ providerFaults' \in Nat
        BY <2>1, <2>12 DEF FindRemote, ProviderInv, StepsOfKind, RemotePcs, PcIs, Fault, NoFault, Remote
      <3>2. Idle.pc = "idle" /\ Idle.box = 0 /\ Idle.root = 0
        BY DEF Idle
      <3>3. Remote' <=> Remote
        BY <3>1 DEF Remote
      <3>4. /\ boxes' \in [Existing' -> BoxType] /\ Existing' \subseteq Existing
            /\ \A b \in Existing' : boxes'[b].root <= lastRoot
        BY <2>1, <3>1 DEF ProviderTyped, Existing
      <3>5. CASE UNCHANGED <<creator, raced>>
        BY <2>1, <3>1, <3>5 DEF ProviderInv, ProviderTyped, StepsOfKind, OneUniqueBox, OneBoxUnlessRaced,
           Remote,
           NewRootsPrivate, NewRootsYoung, HeldRoots, AuditIsComplete, MountedRootKept, Existing
      <3>6. CASE /\ FindSession # {} /\ UNCHANGED raced
                 /\ creator' = [creator EXCEPT ![c].pc = "attach", ![c].box = First(FindSession)]
        <4> DEFINE r == [pc |-> "attach", box |-> First(Existing), root |-> creator[c].root]
        <4>1. First(Existing) \in Existing
          BY <2>1, <3>6, FirstIsFound DEF FindSession
        <4>2. /\ creator[c] \in CreatorType /\ First(Existing) \in Nat
              /\ First(Existing) <= lastBox /\ creator[c].root <= lastRoot
          BY <2>1, <4>1 DEF ProviderTyped
        <4>3. /\ r \in CreatorType
              /\ [creator[c] EXCEPT !.pc = "attach", !.box = First(Existing)] = r
          <5>1. r \in CreatorType
            BY <4>2 DEF CreatorType, ProviderPcs, RemotePcs
          <5> QED BY <4>2, <5>1, BoxUpdates, Zenon
        <4>4. creator' = [creator EXCEPT ![c] = r]
          BY <2>1, <3>6, <4>3 DEF ProviderTyped, FindSession
        <4>5. Moves(c, r) /\ r.pc = "attach" /\ r.box <= lastBox /\ r.root <= lastRoot
          BY <2>1, <4>2, <4>3, <4>4, CreatorMoves
        <4> HIDE DEF r
        <4> QED BY <2>1, <2>2, <3>1, <3>4, <3>6, <4>5, OtherMoves DEF DockerPcs
      <3>7. CASE FindSession = {} /\ Races(c) /\ Goes(c, "create")
        <4> DEFINE r == At(c, "create")
        <4>1. /\ Moves(c, r) /\ r.pc = "create" /\ r.box <= lastBox /\ r.root <= lastRoot
              /\ r.root = creator[c].root /\ r.box = creator[c].box
          BY <2>1, <3>7, CreatorMoves DEF ProviderTyped, At, ProviderPcs, DockerPcs, RemotePcs
        <4> HIDE DEF r
        <4>2. /\ raced' \in BOOLEAN /\ (raced => raced')
              /\ (~raced' => \A d \in Callers \ {c} : creator[d].pc # "create")
          BY <2>1, <3>7 DEF Races
        <4>3. Existing = {}
          BY <3>7 DEF FindSession
        <4> QED BY <2>2, <3>1, <3>4, <4>1, <4>2, <4>3, OtherMoves DEF DockerPcs
      <3> QED BY <2>12, <3>5, <3>6, <3>7 DEF FindRemote
    <2>13. ASSUME NEW c \in Callers, CreateRemote(c) PROVE ProviderInv'
      <3>1. Fault \/ NoFault
        BY <2>13 DEF CreateRemote
      <3>2. /\ kind # "docker" /\ Remote /\ UNCHANGED <<kind, roots, audit, lastRoot, raced>>
            /\ providerFaults' \in Nat /\ creator[c].pc = "create"
        BY <2>1, <2>13, <3>1 DEF CreateRemote, PcIs, Fault, NoFault, Remote
      <3>3. Idle.pc = "idle" /\ Idle.box = 0 /\ Idle.root = 0
        BY DEF Idle
      <3>4. Remote' <=> Remote
        BY <3>2 DEF Remote
      <3>5. /\ creator[c] \in CreatorType /\ creator[c].root <= lastRoot
            /\ creator[c].box <= lastBox /\ creator[c].box \in Nat
        BY <2>1 DEF ProviderTyped, CreatorType
      <3>6. CASE /\ Trait(kind).unique => Existing = {}
                 /\ NewBox(0, TRUE)
                 /\ creator' = [creator EXCEPT ![c].pc = IF Trait(kind).discards THEN "setup" ELSE "attach",
                                             ![c].box = lastBox + 1]
        <4> DEFINE p == IF Trait(kind).discards THEN "setup" ELSE "attach"
                   r == [pc |-> p, box |-> lastBox + 1, root |-> creator[c].root]
        <4>1. p \in {"setup", "attach"} /\ creator' = [creator EXCEPT ![c].pc = p, ![c].box = lastBox + 1]
          BY <3>6
        <4> HIDE DEF p
        <4>2. /\ r \in CreatorType
              /\ [creator[c] EXCEPT !.pc = p, !.box = lastBox + 1] = r
          <5>1. r \in CreatorType
            BY <2>2, <3>5, <4>1 DEF CreatorType, ProviderPcs, RemotePcs
          <5> QED BY <3>5, <5>1, BoxUpdates, Zenon
        <4>3. creator' = [creator EXCEPT ![c] = r]
          BY <2>1, <4>1, <4>2 DEF ProviderTyped
        <4>4. Moves(c, r) /\ r.pc = p /\ r.box = lastBox + 1 /\ r.root = creator[c].root
          BY <2>1, <4>2, <4>3, CreatorMoves
        <4> HIDE DEF r
        <4>5. /\ Existing' = Existing \cup {lastBox + 1} /\ lastBox' = lastBox + 1 /\ lastBox <= lastBox'
              /\ lastBox' \in Nat /\ boxes' \in [Existing' -> BoxType]
              /\ \A b \in Existing' : boxes'[b].root <= lastRoot
          BY <2>1, <3>6, BoxIsNew
        <4>6. r.pc \notin DockerPcs /\ r.pc # "create" /\ r.box <= lastBox' /\ r.root <= lastRoot
          BY <2>2, <3>5, <4>1, <4>4, <4>5 DEF DockerPcs
        <4> QED BY <2>1, <3>2, <3>6, <4>4, <4>5, <4>6, OtherMoves
      <3>7. CASE (Trait(kind).unique => Existing = {}) /\ NewBox(0, TRUE) /\ Goes(c, "recover")
        <4> DEFINE r == At(c, "recover")
        <4>1. /\ Moves(c, r) /\ r.pc = "recover" /\ r.box <= lastBox /\ r.root <= lastRoot
              /\ r.root = creator[c].root /\ r.box = creator[c].box
          BY <2>1, <3>7, CreatorMoves DEF ProviderTyped, At, ProviderPcs, DockerPcs, RemotePcs
        <4> HIDE DEF r
        <4>2. /\ Existing' = Existing \cup {lastBox + 1} /\ lastBox' = lastBox + 1 /\ lastBox <= lastBox'
               /\ lastBox' \in Nat /\ boxes' \in [Existing' -> BoxType]
               /\ \A b \in Existing' : boxes'[b].root <= lastRoot
          BY <2>1, <3>7, BoxIsNew
        <4>3. r.box <= lastBox'
          BY <2>2, <3>5, <4>1, <4>2
        <4> QED BY <2>1, <3>2, <3>7, <4>1, <4>2, <4>3, OtherMoves DEF DockerPcs
      <3>8. CASE Goes(c, "recover") /\ UNCHANGED <<boxes, lastBox>>
        <4> DEFINE r == At(c, "recover")
        <4>1. /\ Moves(c, r) /\ r.pc = "recover" /\ r.box <= lastBox /\ r.root <= lastRoot
              /\ r.root = creator[c].root /\ r.box = creator[c].box
          BY <2>1, <3>8, CreatorMoves DEF ProviderTyped, At, ProviderPcs, DockerPcs, RemotePcs
        <4> HIDE DEF r
        <4>2. /\ boxes' \in [Existing' -> BoxType] /\ Existing' \subseteq Existing
               /\ \A b \in Existing' : boxes'[b].root <= lastRoot
          BY <2>1, <3>2, <3>8 DEF ProviderTyped, Existing
        <4> QED BY <2>1, <2>2, <3>2, <3>8, <4>1, <4>2, OtherMoves DEF DockerPcs
      <3> QED BY <2>13, <3>6, <3>7, <3>8 DEF CreateRemote
    <2>14. ASSUME NEW c \in Callers, RecoverRemote(c) PROVE ProviderInv'
      <3>1. /\ kind # "docker" /\ Remote
            /\ UNCHANGED <<kind, boxes, roots, audit, lastBox, lastRoot, raced>>
            /\ providerFaults' \in Nat
        BY <2>1, <2>14 DEF RecoverRemote, ProviderInv, StepsOfKind, RemotePcs, PcIs, Fault, NoFault,
           Remote
      <3>2. Idle.pc = "idle" /\ Idle.box = 0 /\ Idle.root = 0
        BY DEF Idle
      <3>3. Remote' <=> Remote
        BY <3>1 DEF Remote
      <3>4. /\ boxes' \in [Existing' -> BoxType] /\ Existing' \subseteq Existing
            /\ \A b \in Existing' : boxes'[b].root <= lastRoot
        BY <2>1, <3>1 DEF ProviderTyped, Existing
      <3>5. CASE /\ FindSession # {}
                 /\ creator' = [creator EXCEPT ![c].pc = "attach", ![c].box = First(FindSession)]
        <4> DEFINE r == [pc |-> "attach", box |-> First(Existing), root |-> creator[c].root]
        <4>1. First(Existing) \in Existing
          BY <2>1, <3>5, FirstIsFound DEF FindSession
        <4>2. /\ creator[c] \in CreatorType /\ First(Existing) \in Nat
              /\ First(Existing) <= lastBox /\ creator[c].root <= lastRoot
          BY <2>1, <4>1 DEF ProviderTyped
        <4>3. /\ r \in CreatorType
              /\ [creator[c] EXCEPT !.pc = "attach", !.box = First(Existing)] = r
          <5>1. r \in CreatorType
            BY <4>2 DEF CreatorType, ProviderPcs, RemotePcs
          <5> QED BY <4>2, <5>1, BoxUpdates, Zenon
        <4>4. creator' = [creator EXCEPT ![c] = r]
          BY <2>1, <3>5, <4>3 DEF ProviderTyped, FindSession
        <4>5. Moves(c, r) /\ r.pc = "attach" /\ r.box <= lastBox /\ r.root <= lastRoot
          BY <2>1, <4>2, <4>3, <4>4, CreatorMoves
        <4> HIDE DEF r
        <4> QED BY <2>1, <2>2, <3>1, <3>4, <3>5, <4>5, OtherMoves DEF DockerPcs
      <3>6. CASE GivesUp(c)
        <4>1. Moves(c, Idle)
          BY <2>1, <3>6, CreatorMoves
        <4>2. raced' \in BOOLEAN /\ (raced => raced') /\ lastBox' \in Nat /\ lastBox <= lastBox'
          BY <2>1, <2>2, <3>1
        <4> QED BY <2>2, <3>1, <3>2, <3>4, <4>1, <4>2, OtherMoves DEF DockerPcs, RemotePcs
      <3> QED BY <2>14, <3>5, <3>6 DEF RecoverRemote
    <2>15. ASSUME NEW c \in Callers, AttachRemote(c) PROVE ProviderInv'
      <3>1. /\ kind # "docker" /\ Remote /\ UNCHANGED <<kind, roots, audit, lastBox, lastRoot, raced>>
            /\ providerFaults' \in Nat
        BY <2>1, <2>15 DEF AttachRemote, ProviderInv, StepsOfKind, RemotePcs, PcIs, Fault, NoFault, Remote
      <3>2. Idle.pc = "idle" /\ Idle.box = 0 /\ Idle.root = 0
        BY DEF Idle
      <3>3. Remote' <=> Remote
        BY <3>1 DEF Remote
      <3>4. ASSUME NEW b \in Existing, AttachTarget(c, b) PROVE ProviderInv'
        <4> DEFINE r == [pc |-> "attached", box |-> b, root |-> boxes[b].root]
        <4>1. NoNewBox /\ Moves(c, r) /\ b <= lastBox /\ boxes[b].root <= lastRoot /\ Existing' = Existing
          BY <2>1, <3>4, Attaches
        <4>2. r.pc = "attached" /\ r.box = b /\ r.root = boxes[b].root
          OBVIOUS
        <4>3. /\ boxes' \in [Existing' -> BoxType]
              /\ \A x \in Existing' : boxes'[x].root <= lastRoot
          BY <2>1, <4>1 DEF NoNewBox, ProviderTyped
        <4> HIDE DEF r
        <4> QED BY <2>1, <2>2, <3>1, <4>1, <4>2, <4>3, OtherMoves DEF DockerPcs, RemotePcs
      <3>5. CASE GivesUp(c) /\ UNCHANGED boxes
        <4>1. Moves(c, Idle) /\ NoNewBox
          BY <2>1, <3>5, CreatorMoves, BoxesStay
        <4>2. /\ boxes' \in [Existing' -> BoxType] /\ Existing' \subseteq Existing
              /\ \A x \in Existing' : boxes'[x].root <= lastRoot
          BY <2>1, <4>1 DEF NoNewBox, ProviderTyped
        <4> QED BY <2>1, <2>2, <3>1, <3>2, <4>1, <4>2, OtherMoves DEF DockerPcs, RemotePcs
      <3> QED BY <2>15, <3>4, <3>5 DEF AttachRemote
    <2>16. ASSUME NEW c \in Callers, SetUpRemote(c) PROVE ProviderInv'
      <3> DEFINE b == creator[c].box
      <3>1. /\ kind # "docker" /\ Remote /\ UNCHANGED <<kind, roots, audit, lastBox, lastRoot, raced>>
            /\ providerFaults' \in Nat
        BY <2>1, <2>16 DEF SetUpRemote, ProviderInv, StepsOfKind, RemotePcs, PcIs, Fault, NoFault, Remote
      <3>2. Idle.pc = "idle" /\ Idle.box = 0 /\ Idle.root = 0
        BY DEF Idle
      <3>3. Remote' <=> Remote
        BY <3>1 DEF Remote
      <3>4. CASE b \in Existing /\ UNCHANGED boxes /\ Gets(c, b)
        <4> DEFINE r == [pc |-> "attached", box |-> b, root |-> boxes[b].root]
        <4>1. boxes[b] \in BoxType /\ b \in Nat /\ b <= lastBox /\ boxes[b].root <= lastRoot
          BY <2>1, <3>4 DEF ProviderTyped
        <4>2. r \in CreatorType /\ creator' = [creator EXCEPT ![c] = r]
          BY <3>4, <4>1 DEF CreatorType, ProviderPcs, BoxType, Gets
        <4>3. Moves(c, r) /\ NoNewBox /\ r.pc = "attached" /\ r.box = b /\ r.root = boxes[b].root
          BY <2>1, <3>4, <4>2, CreatorMoves, BoxesStay
        <4>4. /\ boxes' \in [Existing' -> BoxType] /\ Existing' \subseteq Existing
              /\ \A x \in Existing' : boxes'[x].root <= lastRoot
          BY <2>1, <4>3 DEF NoNewBox, ProviderTyped
        <4> HIDE DEF r, b
        <4> QED BY <2>1, <2>2, <3>1, <4>1, <4>3, <4>4, OtherMoves DEF DockerPcs, RemotePcs
      <3>5. CASE GivesUp(c) /\ boxes' \in {boxes, Drop(boxes, b)}
        <4>1. Moves(c, Idle) /\ NoNewBox
          BY <2>1, <3>5, CreatorMoves, BoxesStay
        <4>2. /\ boxes' \in [Existing' -> BoxType] /\ Existing' \subseteq Existing
              /\ \A x \in Existing' : boxes'[x].root <= lastRoot
          BY <2>1, <4>1 DEF NoNewBox, ProviderTyped
        <4> QED BY <2>1, <2>2, <3>1, <3>2, <4>1, <4>2, OtherMoves DEF DockerPcs, RemotePcs
      <3> QED BY <2>16, <3>4, <3>5 DEF SetUpRemote
    <2>17. ASSUME NEW c \in Callers, LocalCreate(c) PROVE ProviderInv'
      <3>1. /\ kind = "local"
            /\ UNCHANGED <<kind, roots, audit, lastRoot, raced, providerFaults>>
            /\ creator[c].pc = "idle"
        BY <2>1, <2>17 DEF LocalCreate, PcIs, NoFault, Trait, Docker, E2B, OpenSandbox, Daytona, Local,
           ProviderTrait,
           ProviderTyped, ProviderAssumption
      <3>2. CASE Existing = {} /\ NewBox(0, TRUE) /\ Gets(c, lastBox + 1)
        <4> DEFINE r == [pc |-> "attached", box |-> lastBox + 1, root |-> 0]
        <4>1. /\ Existing' = Existing \cup {lastBox + 1} /\ lastBox' = lastBox + 1 /\ lastBox <= lastBox'
              /\ lastBox' \in Nat /\ boxes' \in [Existing' -> BoxType] /\ boxes'[lastBox + 1].root = 0
              /\ \A b \in Existing' : boxes'[b].root <= lastRoot
          BY <2>1, <3>2, BoxIsNew
        <4>2. r \in CreatorType /\ creator' = [creator EXCEPT ![c] = r]
          BY <2>2, <3>2, <4>1 DEF CreatorType, ProviderPcs, Gets
        <4>3. Moves(c, r) /\ r.pc = "attached" /\ r.box = lastBox + 1 /\ r.root = 0
          BY <2>1, <4>2, CreatorMoves
        <4> HIDE DEF r
        <4> QED BY <2>1, <2>2, <3>1, <3>2, <4>1, <4>3, OtherMoves, UniqueNames DEF DockerPcs, RemotePcs
      <3>3. ASSUME NEW b \in Existing, AttachTarget(c, b), UNCHANGED lastBox PROVE ProviderInv'
        <4> DEFINE r == [pc |-> "attached", box |-> b, root |-> boxes[b].root]
        <4>1. NoNewBox /\ Moves(c, r) /\ b <= lastBox /\ boxes[b].root <= lastRoot /\ Existing' = Existing
          BY <2>1, <3>3, Attaches
        <4>2. r.pc = "attached" /\ r.box = b /\ r.root = boxes[b].root
          OBVIOUS
        <4>3. /\ boxes' \in [Existing' -> BoxType]
              /\ \A x \in Existing' : boxes'[x].root <= lastRoot
          BY <2>1, <4>1 DEF NoNewBox, ProviderTyped
        <4> HIDE DEF r
        <4> QED BY <2>1, <2>2, <3>1, <3>3, <4>1, <4>2, <4>3, OtherMoves DEF DockerPcs, RemotePcs
      <3> QED BY <2>17, <3>2, <3>3 DEF LocalCreate
    <2>18. ASSUME NEW c \in Callers, DestroyRemote(c) PROVE ProviderInv'
      <3>1. /\ kind # "docker" /\ UNCHANGED <<kind, roots, audit, lastBox, lastRoot, raced>>
            /\ providerFaults' \in Nat /\ GivesUp(c) /\ boxes' \in {boxes, Drop(boxes, creator[c].box)}
        BY <2>1, <2>18 DEF DestroyRemote, Fault, NoFault
      <3>2. Idle.pc = "idle" /\ Idle.box = 0 /\ Idle.root = 0
        BY DEF Idle
      <3>3. Moves(c, Idle) /\ NoNewBox
        BY <2>1, <3>1, CreatorMoves, BoxesStay
      <3>4. /\ boxes' \in [Existing' -> BoxType] /\ Existing' \subseteq Existing
            /\ \A x \in Existing' : boxes'[x].root <= lastRoot
        BY <2>1, <3>3 DEF NoNewBox, ProviderTyped
      <3> QED BY <2>1, <2>2, <3>1, <3>2, <3>3, <3>4, OtherMoves DEF DockerPcs, RemotePcs
    <2>19. ASSUME NEW c \in Callers, Reattach(c) PROVE ProviderInv'
      <3>1. /\ UNCHANGED <<kind, roots, audit, lastBox, lastRoot, raced>> /\ providerFaults' \in Nat
        BY <2>1, <2>19 DEF Reattach, Fault, NoFault
      <3>2. Idle.pc = "idle" /\ Idle.box = 0 /\ Idle.root = 0
        BY DEF Idle
      <3>3. CASE GivesUp(c) /\ UNCHANGED boxes
        <4>1. Moves(c, Idle) /\ NoNewBox
          BY <2>1, <3>3, CreatorMoves, BoxesStay
        <4>2. /\ boxes' \in [Existing' -> BoxType] /\ Existing' \subseteq Existing
              /\ \A x \in Existing' : boxes'[x].root <= lastRoot
          BY <2>1, <4>1 DEF NoNewBox, ProviderTyped
        <4>3. CASE kind = "docker"
          BY <2>1, <2>2, <3>1, <3>2, <4>1, <4>3, DockerMoves DEF RemotePcs
        <4>4. CASE kind # "docker"
          BY <2>1, <2>2, <3>1, <3>2, <4>1, <4>2, <4>4, OtherMoves DEF DockerPcs, RemotePcs
        <4> QED BY <4>3, <4>4
      <3>4. ASSUME NEW b \in Existing, AttachTarget(c, b) PROVE ProviderInv'
        <4> DEFINE r == [pc |-> "attached", box |-> b, root |-> boxes[b].root]
        <4>1. NoNewBox /\ Moves(c, r) /\ b <= lastBox /\ boxes[b].root <= lastRoot /\ Existing' = Existing
          BY <2>1, <3>4, Attaches
        <4>2. r.pc = "attached" /\ r.box = b /\ r.root = boxes[b].root /\ boxes[b].root \in Mounted
          BY DEF Mounted
        <4>3. /\ boxes' \in [Existing' -> BoxType]
              /\ \A x \in Existing' : boxes'[x].root <= lastRoot
          BY <2>1, <4>1 DEF NoNewBox, ProviderTyped
        <4> HIDE DEF r
        <4>4. CASE kind = "docker"
          <5>1. \A x \in Existing' : x = b
            BY <4>1, <4>4, UniqueNames DEF ProviderInv, OneUniqueBox
          <5> QED BY <2>1, <2>2, <3>1, <4>1, <4>2, <4>4, <5>1, DockerMoves DEF RemotePcs
        <4>5. CASE kind # "docker"
          BY <2>1, <2>2, <3>1, <4>1, <4>2, <4>3, <4>5, OtherMoves DEF DockerPcs, RemotePcs
        <4> QED BY <4>4, <4>5
      <3> QED BY <2>19, <3>3, <3>4 DEF Reattach
    <2>20. ASSUME NEW c \in Callers, WorkerDies(c) PROVE ProviderInv'
      <3>1. /\ UNCHANGED <<kind, roots, audit, lastBox, lastRoot, raced>> /\ providerFaults' \in Nat
        BY <2>1, <2>20 DEF WorkerDies, Fault, NoFault
      <3>2. Idle.pc = "idle" /\ Idle.box = 0 /\ Idle.root = 0
        BY DEF Idle
      <3>3. CASE GivesUp(c) /\ UNCHANGED boxes
        <4>1. Moves(c, Idle) /\ NoNewBox
          BY <2>1, <3>3, CreatorMoves, BoxesStay
        <4>2. /\ boxes' \in [Existing' -> BoxType] /\ Existing' \subseteq Existing
              /\ \A x \in Existing' : boxes'[x].root <= lastRoot
          BY <2>1, <4>1 DEF NoNewBox, ProviderTyped
        <4>3. CASE kind = "docker"
          BY <2>1, <2>2, <3>1, <3>2, <4>1, <4>3, DockerMoves DEF RemotePcs
        <4>4. CASE kind # "docker"
          BY <2>1, <2>2, <3>1, <3>2, <4>1, <4>2, <4>4, OtherMoves DEF DockerPcs, RemotePcs
        <4> QED BY <4>3, <4>4
      <3> QED BY <2>20, <3>3 DEF WorkerDies
    <2>21. CASE AuditResourceRoots
      <3>1. ProviderTyped'
        BY <2>21, ProviderAssumption DEF AuditResourceRoots, NoAudit, ProviderAssumption, ProviderInv,
           ProviderTyped, StepsOfKind, OneUniqueBox, OneBoxUnlessRaced, Remote, NewRootsPrivate,
           NewRootsYoung,
             HeldRoots, AuditIsComplete, MountedRootKept, Existing, Mounted, OwnsNewRoot
      <3>2. (StepsOfKind /\ OneUniqueBox /\ OneBoxUnlessRaced)'
        BY <2>21, ProviderAssumption DEF AuditResourceRoots, NoAudit, ProviderAssumption, ProviderInv,
           ProviderTyped, StepsOfKind, OneUniqueBox, OneBoxUnlessRaced, Remote, NewRootsPrivate,
           NewRootsYoung,
             HeldRoots, AuditIsComplete, MountedRootKept, Existing, Mounted, OwnsNewRoot
      <3>3. NewRootsPrivate'
        BY <2>21, ProviderAssumption DEF AuditResourceRoots, NoAudit, ProviderAssumption, ProviderInv,
           ProviderTyped, StepsOfKind, OneUniqueBox, OneBoxUnlessRaced, Remote, NewRootsPrivate,
           NewRootsYoung,
             HeldRoots, AuditIsComplete, MountedRootKept, Existing, Mounted, OwnsNewRoot
      <3>4. NewRootsYoung'
        BY <2>21, ProviderAssumption DEF AuditResourceRoots, NoAudit, ProviderAssumption, ProviderInv,
           ProviderTyped, StepsOfKind, OneUniqueBox, OneBoxUnlessRaced, Remote, NewRootsPrivate,
           NewRootsYoung,
             HeldRoots, AuditIsComplete, MountedRootKept, Existing, Mounted, OwnsNewRoot
      <3>5. HeldRoots'
        BY <2>21, ProviderAssumption DEF AuditResourceRoots, NoAudit, ProviderAssumption, ProviderInv,
           ProviderTyped, StepsOfKind, OneUniqueBox, OneBoxUnlessRaced, Remote, NewRootsPrivate,
           NewRootsYoung,
             HeldRoots, AuditIsComplete, MountedRootKept, Existing, Mounted, OwnsNewRoot
      <3>6. AuditIsComplete'
        BY <2>21, ProviderAssumption DEF AuditResourceRoots, NoAudit, ProviderAssumption, ProviderInv,
           ProviderTyped, StepsOfKind, OneUniqueBox, OneBoxUnlessRaced, Remote, NewRootsPrivate,
           NewRootsYoung,
             HeldRoots, AuditIsComplete, MountedRootKept, Existing, Mounted, OwnsNewRoot
      <3>7. MountedRootKept'
        BY <2>21, ProviderAssumption DEF AuditResourceRoots, NoAudit, ProviderAssumption, ProviderInv,
           ProviderTyped, StepsOfKind, OneUniqueBox, OneBoxUnlessRaced, Remote, NewRootsPrivate,
           NewRootsYoung,
             HeldRoots, AuditIsComplete, MountedRootKept, Existing, Mounted, OwnsNewRoot
      <3> QED BY <3>1, <3>2, <3>3, <3>4, <3>5, <3>6, <3>7 DEF ProviderInv
    <2>22. CASE ActiveRoots
      <3>1. /\ UNCHANGED <<kind, boxes, roots, creator, lastBox, lastRoot, raced>>
            /\ providerFaults' \in Nat
            /\ \/ audit' = NoAudit
               \/ audit' = [audit EXCEPT !.pc = "reap", !.active = Mounted]
        BY <2>1, <2>22 DEF ActiveRoots, Fault, NoFault
      <3>2. Mounted \subseteq Nat
        <4> SUFFICES ASSUME NEW b \in Existing PROVE boxes[b].root \in Nat
          BY DEF Mounted
        <4>1. boxes[b] \in BoxType
          BY <2>1 DEF ProviderTyped
        <4> QED BY <4>1 DEF BoxType
      <3>3. /\ audit' \in [pc : {"idle", "list", "reap"}, stale : SUBSET Nat, active : SUBSET Nat]
            /\ audit'.stale \subseteq audit.stale /\ audit'.stale \subseteq 1..lastRoot
            /\ audit'.pc = "reap" => audit'.active = Mounted
        <4>1. /\ audit \in [pc : {"idle", "list", "reap"}, stale : SUBSET Nat, active : SUBSET Nat]
              /\ audit.stale \subseteq 1..lastRoot
          BY <2>1 DEF ProviderTyped
        <4>2. CASE audit' = NoAudit
          BY <4>2 DEF NoAudit
        <4>3. CASE audit' = [audit EXCEPT !.pc = "reap", !.active = Mounted]
          BY <3>2, <4>1, <4>3
        <4> QED BY <3>1, <4>2, <4>3
      <3>4. ProviderTyped'
        BY <2>1, <3>1, <3>3 DEF ProviderTyped, Existing
      <3>5. (/\ StepsOfKind /\ OneUniqueBox /\ OneBoxUnlessRaced
             /\ NewRootsPrivate /\ HeldRoots /\ MountedRootKept)'
        BY <3>1 DEF ProviderInv, StepsOfKind, OneUniqueBox, OneBoxUnlessRaced, Remote, NewRootsPrivate,
           HeldRoots, MountedRootKept, Existing, Mounted, OwnsNewRoot
      <3>6. NewRootsYoung'
        BY <3>1, <3>3 DEF ProviderInv, NewRootsYoung
      <3>7. AuditIsComplete'
        BY <3>1, <3>3 DEF AuditIsComplete, Mounted, Existing
      <3> QED BY <3>4, <3>5, <3>6, <3>7 DEF ProviderInv
    <2>23. CASE ReapRoots
      <3>1. ProviderTyped'
        BY <2>23, ProviderAssumption DEF ReapRoots, NoAudit, ProviderAssumption, ProviderInv,
           ProviderTyped, StepsOfKind, OneUniqueBox, OneBoxUnlessRaced, Remote, NewRootsPrivate,
           NewRootsYoung,
             HeldRoots, AuditIsComplete, MountedRootKept, Existing, Mounted, OwnsNewRoot
      <3>2. (StepsOfKind /\ OneUniqueBox /\ OneBoxUnlessRaced)'
        BY <2>23, ProviderAssumption DEF ReapRoots, NoAudit, ProviderAssumption, ProviderInv,
           ProviderTyped, StepsOfKind, OneUniqueBox, OneBoxUnlessRaced, Remote, NewRootsPrivate,
           NewRootsYoung,
             HeldRoots, AuditIsComplete, MountedRootKept, Existing, Mounted, OwnsNewRoot
      <3>3. NewRootsPrivate'
        BY <2>23, ProviderAssumption DEF ReapRoots, NoAudit, ProviderAssumption, ProviderInv,
           ProviderTyped, StepsOfKind, OneUniqueBox, OneBoxUnlessRaced, Remote, NewRootsPrivate,
           NewRootsYoung,
             HeldRoots, AuditIsComplete, MountedRootKept, Existing, Mounted, OwnsNewRoot
      <3>4. NewRootsYoung'
        BY <2>23, ProviderAssumption DEF ReapRoots, NoAudit, ProviderAssumption, ProviderInv,
           ProviderTyped, StepsOfKind, OneUniqueBox, OneBoxUnlessRaced, Remote, NewRootsPrivate,
           NewRootsYoung,
             HeldRoots, AuditIsComplete, MountedRootKept, Existing, Mounted, OwnsNewRoot
      <3>5. HeldRoots'
        BY <2>23, ProviderAssumption DEF ReapRoots, NoAudit, ProviderAssumption, ProviderInv,
           ProviderTyped, StepsOfKind, OneUniqueBox, OneBoxUnlessRaced, Remote, NewRootsPrivate,
           NewRootsYoung,
             HeldRoots, AuditIsComplete, MountedRootKept, Existing, Mounted, OwnsNewRoot
      <3>6. AuditIsComplete'
        BY <2>23, ProviderAssumption DEF ReapRoots, NoAudit, ProviderAssumption, ProviderInv,
           ProviderTyped, StepsOfKind, OneUniqueBox, OneBoxUnlessRaced, Remote, NewRootsPrivate,
           NewRootsYoung,
             HeldRoots, AuditIsComplete, MountedRootKept, Existing, Mounted, OwnsNewRoot
      <3>7. MountedRootKept'
        BY <2>23, ProviderAssumption DEF ReapRoots, NoAudit, ProviderAssumption, ProviderInv,
           ProviderTyped, StepsOfKind, OneUniqueBox, OneBoxUnlessRaced, Remote, NewRootsPrivate,
           NewRootsYoung,
             HeldRoots, AuditIsComplete, MountedRootKept, Existing, Mounted, OwnsNewRoot
      <3> QED BY <3>1, <3>2, <3>3, <3>4, <3>5, <3>6, <3>7 DEF ProviderInv
    <2>24. CASE ProviderTick
      <3>1. /\ UNCHANGED <<kind, boxes, creator, audit, lastBox, lastRoot, raced, providerFaults>>
            /\ DOMAIN roots' = DOMAIN roots
        BY <2>24 DEF ProviderTick
      <3>2. ProviderTyped'
        <4>1. \A x \in DOMAIN roots : roots[x] \in 0..Grace
          BY <2>1 DEF ProviderTyped
        <4>2. roots' = [x \in DOMAIN roots |-> IF roots[x] < Grace THEN roots[x] + 1 ELSE Grace]
          BY <2>24 DEF ProviderTick
        <4>3. \A x \in DOMAIN roots : (IF roots[x] < Grace THEN roots[x] + 1 ELSE Grace) \in 0..Grace
          BY <4>1, ProviderAssumption DEF ProviderAssumption
        <4>4. roots' \in [DOMAIN roots' -> 0..Grace]
          BY <3>1, <4>2, <4>3
        <4> QED BY <2>1, <3>1, <4>4 DEF ProviderTyped, Existing
      <3>3. (StepsOfKind /\ OneUniqueBox /\ OneBoxUnlessRaced)'
        BY <2>24, ProviderAssumption DEF ProviderTick, NoAudit, ProviderAssumption, ProviderInv,
           ProviderTyped, StepsOfKind, OneUniqueBox, OneBoxUnlessRaced, Remote, NewRootsPrivate,
           NewRootsYoung,
             HeldRoots, AuditIsComplete, MountedRootKept, Existing, Mounted, OwnsNewRoot
      <3>4. NewRootsPrivate'
        BY <2>24, ProviderAssumption DEF ProviderTick, NoAudit, ProviderAssumption, ProviderInv,
           ProviderTyped, StepsOfKind, OneUniqueBox, OneBoxUnlessRaced, Remote, NewRootsPrivate,
           NewRootsYoung,
             HeldRoots, AuditIsComplete, MountedRootKept, Existing, Mounted, OwnsNewRoot
      <3>5. NewRootsYoung'
        BY <2>24, ProviderAssumption DEF ProviderTick, NoAudit, ProviderAssumption, ProviderInv,
           ProviderTyped, StepsOfKind, OneUniqueBox, OneBoxUnlessRaced, Remote, NewRootsPrivate,
           NewRootsYoung,
             HeldRoots, AuditIsComplete, MountedRootKept, Existing, Mounted, OwnsNewRoot
      <3>6. HeldRoots'
        BY <2>24, ProviderAssumption DEF ProviderTick, NoAudit, ProviderAssumption, ProviderInv,
           ProviderTyped, StepsOfKind, OneUniqueBox, OneBoxUnlessRaced, Remote, NewRootsPrivate,
           NewRootsYoung,
             HeldRoots, AuditIsComplete, MountedRootKept, Existing, Mounted, OwnsNewRoot
      <3>7. AuditIsComplete'
        BY <2>24, ProviderAssumption DEF ProviderTick, NoAudit, ProviderAssumption, ProviderInv,
           ProviderTyped, StepsOfKind, OneUniqueBox, OneBoxUnlessRaced, Remote, NewRootsPrivate,
           NewRootsYoung,
             HeldRoots, AuditIsComplete, MountedRootKept, Existing, Mounted, OwnsNewRoot
      <3>8. MountedRootKept'
        BY <2>24, ProviderAssumption DEF ProviderTick, NoAudit, ProviderAssumption, ProviderInv,
           ProviderTyped, StepsOfKind, OneUniqueBox, OneBoxUnlessRaced, Remote, NewRootsPrivate,
           NewRootsYoung,
             HeldRoots, AuditIsComplete, MountedRootKept, Existing, Mounted, OwnsNewRoot
      <3> QED BY <3>2, <3>3, <3>4, <3>5, <3>6, <3>7, <3>8 DEF ProviderInv
    <2>25. ASSUME NEW b \in Existing, StopBox(b) PROVE ProviderInv'
      <3>1. UNCHANGED <<kind, roots, creator, audit, lastBox, lastRoot, raced, providerFaults>>
        BY <2>25 DEF StopBox
      <3>2. /\ Existing' = Existing /\ boxes' \in [Existing' -> BoxType]
            /\ \A x \in Existing' : boxes'[x].root = boxes[x].root
        <4>1. boxes[b] \in BoxType
          BY <2>1 DEF ProviderTyped
        <4>2. /\ [boxes[b] EXCEPT !.running = FALSE] \in BoxType
              /\ [boxes[b] EXCEPT !.running = FALSE].root = boxes[b].root
          BY <4>1 DEF BoxType
        <4>3. boxes' = [boxes EXCEPT ![b] = [boxes[b] EXCEPT !.running = FALSE]]
          BY <2>1, <2>25 DEF StopBox, ProviderTyped
        <4> QED BY <2>1, <4>1, <4>2, <4>3 DEF ProviderTyped, Existing
      <3>3. ProviderTyped' /\ Mounted' = Mounted
        BY <2>1, <3>1, <3>2 DEF ProviderTyped, Mounted
      <3> QED BY <3>1, <3>2, <3>3 DEF ProviderInv, StepsOfKind, OneUniqueBox, OneBoxUnlessRaced, Remote,
           NewRootsPrivate, NewRootsYoung, HeldRoots, AuditIsComplete, MountedRootKept, OwnsNewRoot
    <2>26. CASE UNCHANGED providerVars
      BY <2>26 DEF providerVars, ProviderInv, ProviderTyped, StepsOfKind, OneUniqueBox,
         OneBoxUnlessRaced, Remote, NewRootsPrivate, NewRootsYoung,
             HeldRoots, AuditIsComplete, MountedRootKept, Existing, Mounted, OwnsNewRoot
    <2> QED BY <2>3, <2>4, <2>5, <2>6, <2>7, <2>8, <2>9, <2>10, <2>11, <2>12, <2>13, <2>14, <2>15, <2>16,
    <2>17, <2>18, <2>19, <2>20, <2>21, <2>22, <2>23, <2>24, <2>25, <2>26 DEF ProviderNext
  <1> QED BY <1>1, <1>2, PTL DEF ProviderSpec

\* Create and Destroy can be retried after any failure: no container loses the
\* directory it mounts, and a second sandbox needs two workers that raced at a
\* provider without unique names.
THEOREM ProvidersIdempotent == ProviderSpec => []ProvidersAreIdempotent
  <1>1. ProviderInv => ProvidersAreIdempotent
    <2> SUFFICES ASSUME ProviderInv, ~RetriesFindTheBox PROVE FALSE
      BY DEF ProviderInv, ProvidersAreIdempotent
    <2>1. Cardinality(Existing) > 1 /\ ~(raced /\ ~Trait(kind).unique)
      BY DEF RetriesFindTheBox
    <2>2. \A a, b \in Existing : a = b
      BY <2>1 DEF ProviderInv, OneUniqueBox, OneBoxUnlessRaced
    <2>3. CASE Existing = {}
      BY <2>1, <2>3, FS_EmptySet
    <2>4. CASE Existing # {}
      <3>1. PICK b \in Existing : Existing = {b}
        BY <2>2, <2>4
      <3> QED BY <2>1, <3>1, FS_Singleton
    <2> QED BY <2>3, <2>4
  <1> QED BY <1>1, ProviderInvariant, PTL

(***************************************************************************)
(* Files                                                                   *)
(***************************************************************************)

\* what the tables, a request and an attempt hold
RowType == [st : {"none", "uploading", "ready", "deleting"},
            kind : {"upload", "clone", "output", "skill"}, content : Nat]
RequestType == [pc : {"idle", "putting", "stored", "unlinking", "unlinked",
                      "purge", "purgeblob", "purgerow"},
                file : Nat, todo : SUBSET FileIds]
AttemptType == [pc : {"idle", "sweepblob", "sweeprow", "begin", "put", "complete", "import", "recheck",
                      "dropblob", "droprow", "finalize"},
                file : Nat, content : Nat, todo : SUBSET FileIds]

\* what the variables hold
SharedTyped ==
    /\ issued \in 0..MaxFiles /\ fileRows \in [FileIds -> RowType]
    /\ blobs \subseteq 1..issued /\ mounted \subseteq FileIds /\ pinned \subseteq FileIds
    /\ leftover \subseteq mounted
    /\ attached \in [FileIds -> {"none", "active", "deleting"}]
    /\ boxOutput \in Nat /\ written \in Nat /\ closing \in BOOLEAN

FileTyped ==
    /\ SharedTyped
    /\ request \in [ApiRequests -> RequestType]
    /\ attempt \in [WorkerAttempts -> AttemptType]
    /\ startup \in [pc : {"serving", "blob", "row"}, todo : SUBSET FileIds]

\* the row is hidden or deleted, for good: no identifier is issued twice
Gone(f) == f \in 1..issued /\ fileRows[f].st \in {"deleting", "none"}

\* the row waits for its object: of an upload, a Skill version or a copy (put), or of
\* an output, and abandoned once no attempt will complete it
Underway(f) == f \in 1..issued /\ fileRows[f].st = "uploading"
UnderwayOutput(f) == Underway(f) /\ fileRows[f].kind = "output"
Abandoned(f) == Underway(f) /\ \A a \in WorkerAttempts : Publishing(a) => attempt[a].file # f
UnderwayPut(f) == Underway(f) /\ fileRows[f].kind # "output" /\ attached[f] = "none"

\* what a row says holds in the object store and in the tables that refer to it
RowSound(f) ==
    /\ f > issued => fileRows[f] = NoRow /\ attached[f] = "none"
    /\ fileRows[f].st = "ready" => f \in blobs
    /\ f \in pinned => fileRows[f].st = "ready" /\ fileRows[f].kind = "skill"
    /\ attached[f] = "active" => fileRows[f].st = "ready" /\ fileRows[f].kind = "clone"
    /\ attached[f] = "deleting" => Gone(f)

RowsSound == \A f \in FileIds : RowSound(f)

\* what a request of the API may rely on: nobody else completes or removes its file
RequestSound(r) ==
    LET k == request[r] IN
    /\ k.pc = "idle" => k = NoRequest
    /\ k.pc # "idle" => Serving
    /\ k.pc \in {"putting", "stored"} => UnderwayPut(k.file)
    /\ k.pc = "stored" => k.file \in blobs
    /\ k.pc \in {"unlinking", "unlinked"} => Gone(k.file) \/ UnderwayPut(k.file)
    /\ k.pc \in {"purge", "purgeblob", "purgerow"} => closing /\ k.file = 0
    /\ \A g \in k.todo : Gone(g) \/ (UnderwayOutput(g) /\ closing)
    /\ k.pc = "purgerow" => k.todo # {}

\* two requests never work at the same unfinished file
RequestsApart ==
    \A q, r \in ApiRequests :
        q # r /\ Underway(request[q].file) => request[r].file # request[q].file

\* what an attempt may rely on: the file it publishes is its own until the Session
\* closes, and what it sweeps is beyond return
AttemptSound(a) ==
    LET k == attempt[a] IN
    /\ Publishing(a) => Gone(k.file) \/ UnderwayOutput(k.file)
    /\ k.pc = "complete" /\ Underway(k.file) /\ ~closing => k.file \in blobs
    /\ \A g \in k.todo : Gone(g) \/ (Abandoned(g) /\ fileRows[g].kind = "output")
    /\ k.pc = "sweeprow" => k.todo # {}
    /\ k.pc \in {"dropblob", "droprow", "finalize"} => Gone(k.file)
    /\ k.pc \in {"import", "recheck"} => k.file \in FileIds

\* two attempts never publish the same file
PublishersApart ==
    \A a, b \in WorkerAttempts :
        a # b /\ Publishing(a) /\ Publishing(b) => attempt[a].file # attempt[b].file

\* what the startup reconciliation still removes is beyond return
StartupSound ==
    /\ Serving => startup.todo = {}
    /\ startup.pc = "row" => startup.todo # {}
    /\ \A g \in startup.todo : Gone(g) \/ Abandoned(g)

\* somebody will take the mount of f away, if it is not wanted, or a failed attempt
\* left it there
Watched(f) ==
    \/ closing \/ f \in leftover
    \/ \E b \in WorkerAttempts : attempt[b].pc = "recheck" /\ attempt[b].file = f

\* an attempt that removes a resource took its mount away first; if it is there again,
\* a late import put it there and has yet to recheck it
MountSound ==
    \A a \in WorkerAttempts :
        attempt[a].pc \in {"dropblob", "droprow", "finalize"} /\ attempt[a].file \in mounted
          => Watched(attempt[a].file)

\* the inductive invariant of the files
FileInv ==
    /\ FileTyped /\ RowsSound
    /\ \A r \in ApiRequests : RequestSound(r)
    /\ \A a \in WorkerAttempts : AttemptSound(a)
    /\ RequestsApart /\ PublishersApart /\ StartupSound /\ MountSound /\ StaleMountsAreLeftovers

\* the row, its resource and its object stay
Untouched(f) ==
    /\ fileRows'[f] = fileRows[f] /\ attached'[f] = attached[f]
    /\ f \in blobs => f \in blobs'

\* what a step does at most: it lets go of unfinished files of drop, completes those of
\* done, and brings nothing back
Frame(drop, done) ==
    /\ issued' \in {issued, issued + 1}
    /\ closing => closing'
    /\ \A f \in 1..issued : Gone(f) => Gone(f)'
    /\ \A f \in 1..issued : Underway(f)' => Underway(f)
    /\ \A f \in 1..issued : Underway(f) /\ f \notin drop \cup done => Untouched(f)
    /\ \A f \in drop : Underway(f) => fileRows'[f] = fileRows[f] \/ Gone(f)'

\* request r turns to k; what it may let go of or complete; the file it may name next
RequestTurns(r, k) ==
    /\ k \in RequestType /\ request' = [request EXCEPT ![r] = k] /\ Serving
    /\ UNCHANGED <<attempt, startup, mounted, leftover, boxOutput, written>>

RequestMayTouch(r, drop, done) ==
    /\ \A f \in drop \cup done : Underway(f) =>
         f = request[r].file \/ (closing /\ fileRows[f].kind = "output" /\ f \notin done)
    /\ \A f \in done : fileRows[f].kind # "output"
    /\ \A f \in drop : UnderwayOutput(f) => closing

RequestMayName(r, k) ==
    k.file = request[r].file \/ k.file > issued \/ (~Underway(k.file)
          /\ (k.file \in 1..issued => fileRows'[k.file].st # "uploading"))

\* a resource is forgotten only when the Session closes
TombstonesStay == \A f \in FileIds : attached[f] # "none" /\ attached'[f] = "none" => closing

\* A request keeps what it relies on through a step of somebody else that leaves its
\* file alone.
LEMMA RequestStays ==
    ASSUME FileInv, NEW drop, NEW done, Frame(drop, done),
           NEW q \in ApiRequests, request'[q] = request[q], UNCHANGED startup,
           Underway(request[q].file) => request[q].file \notin drop \cup done,
           \A f \in done : UnderwayOutput(f) => ~closing
    PROVE  RequestSound(q)'
  <1> DEFINE k == request[q]
  <1>1. k \in RequestType /\ RequestSound(q) /\ issued \in Nat
    BY DEF FileInv, FileTyped, SharedTyped
  <1>2. UnderwayPut(k.file) => UnderwayPut(k.file)' /\ (k.file \in blobs => k.file \in blobs')
    BY <1>1 DEF Frame, UnderwayPut, Underway, Untouched, Gone
  <1>3. Gone(k.file) => Gone(k.file)'
    BY <1>1 DEF Frame, Gone, Underway, Untouched
  <1>4. ASSUME NEW g \in k.todo PROVE Gone(g)' \/ (UnderwayOutput(g) /\ closing)'
    <2>1. CASE Gone(g)
      BY <1>1, <2>1 DEF Frame, Gone, Underway, Untouched
    <2>2. CASE UnderwayOutput(g) /\ closing
      <3>1. g \in 1..issued /\ g \in 1..issued' /\ g \notin done
        BY <1>1, <2>2 DEF Frame, UnderwayOutput, Underway, Gone, Untouched
      <3>2. fileRows'[g] = fileRows[g] \/ Gone(g)'
        BY <2>2, <3>1 DEF Frame, UnderwayOutput, Untouched, Gone, Underway
      <3> QED BY <2>2, <3>1, <3>2 DEF Frame, UnderwayOutput, Underway, Gone, Untouched
    <2> QED BY <1>1, <2>1, <2>2 DEF RequestSound
  <1>5. closing => closing'
    BY DEF Frame, Gone, Underway, Untouched
  <1> QED BY <1>1, <1>2, <1>3, <1>4, <1>5 DEF RequestSound, Serving

\* An attempt keeps what it relies on through a step of somebody else.
LEMMA AttemptStays ==
    ASSUME FileInv, NEW drop, NEW done, Frame(drop, done),
           NEW b \in WorkerAttempts, attempt'[b] = attempt[b],
           Publishing(b) /\ Underway(attempt[b].file) =>
             attempt[b].file \notin done /\ (attempt[b].file \in drop => closing'),
           \A a \in WorkerAttempts : Publishing(a)' =>
             (Publishing(a) /\ attempt'[a].file = attempt[a].file) \/ attempt'[a].file > issued,
           \A f \in done : ~(Abandoned(f) /\ fileRows[f].kind = "output")
    PROVE  AttemptSound(b)'
  <1> DEFINE k == attempt[b]
  <1>1. k \in AttemptType /\ AttemptSound(b) /\ issued \in Nat
    BY DEF FileInv, FileTyped, SharedTyped
  <1>2. Gone(k.file) => Gone(k.file)'
    BY <1>1 DEF Frame, Gone, Underway, Untouched
  <1>3. Publishing(b) => Gone(k.file)' \/ UnderwayOutput(k.file)'
    <2>1. SUFFICES ASSUME Publishing(b), UnderwayOutput(k.file)
          PROVE Gone(k.file)' \/ UnderwayOutput(k.file)'
      BY <1>1, <1>2 DEF AttemptSound
    <2>2. k.file \in 1..issued /\ k.file \in 1..issued' /\ k.file \notin done
      BY <1>1, <2>1 DEF Frame, UnderwayOutput, Underway, Gone, Untouched
    <2>3. fileRows'[k.file] = fileRows[k.file] \/ Gone(k.file)'
      BY <2>1, <2>2 DEF Frame, UnderwayOutput, Untouched, Gone, Underway
    <2> QED BY <2>1, <2>2, <2>3 DEF UnderwayOutput, Underway
  <1>4. k.pc = "complete" /\ Underway(k.file)' /\ ~closing' => k.file \in blobs'
    <2>1. SUFFICES ASSUME k.pc = "complete", Underway(k.file)', ~closing' PROVE k.file \in blobs'
      OBVIOUS
    <2>2. Publishing(b)
      BY <2>1 DEF Publishing
    <2>3. k.file \in 1..issued
      BY <1>1, <2>2 DEF AttemptSound, Gone, UnderwayOutput, Underway
    <2>4. Underway(k.file) /\ ~closing
      BY <2>1, <2>3 DEF Frame, Gone, Underway, Untouched
    <2>5. k.file \notin done /\ k.file \notin drop
      BY <2>1, <2>2, <2>4
    <2> QED BY <1>1, <2>1, <2>3, <2>4, <2>5 DEF Frame, Untouched, AttemptSound, Gone, Underway
  <1>5. ASSUME NEW g \in k.todo PROVE Gone(g)' \/ (Abandoned(g) /\ fileRows[g].kind = "output")'
    <2>1. CASE Gone(g)
      BY <1>1, <2>1 DEF Frame, Gone, Underway, Untouched
    <2>2. CASE Abandoned(g) /\ fileRows[g].kind = "output"
      <3>1. g \in 1..issued /\ g \in 1..issued' /\ g \notin done
        BY <1>1, <2>2 DEF Frame, Abandoned, Underway, Gone, Untouched
      <3>2. fileRows'[g] = fileRows[g] \/ Gone(g)'
        BY <2>2, <3>1 DEF Frame, Abandoned, Untouched, Gone, Underway
      <3>3. \A a \in WorkerAttempts : Publishing(a)' => attempt'[a].file # g
        BY <1>1, <2>2, <3>1 DEF Abandoned
      <3> QED BY <2>2, <3>1, <3>2, <3>3 DEF Abandoned, Underway
    <2> QED BY <1>1, <2>1, <2>2 DEF AttemptSound
  <1>6. Publishing(b)' <=> Publishing(b)
    BY DEF Publishing
  <1> QED BY <1>1, <1>2, <1>3, <1>4, <1>5, <1>6 DEF AttemptSound

\* The startup reconciliation keeps its garbage garbage.
LEMMA StartupStays ==
    ASSUME FileInv, NEW drop, NEW done, Frame(drop, done), UNCHANGED startup,
           done \cap startup.todo = {},
           \A a \in WorkerAttempts : Publishing(a)' =>
             (Publishing(a) /\ attempt'[a].file = attempt[a].file) \/ attempt'[a].file > issued
    PROVE  StartupSound'
  <1>1. StartupSound /\ issued \in Nat
    BY DEF FileInv, FileTyped, SharedTyped
  <1>2. ASSUME NEW g \in startup.todo PROVE Gone(g)' \/ Abandoned(g)'
    <2>1. CASE Gone(g)
      BY <1>1, <2>1 DEF Frame, Gone, Underway, Untouched
    <2>2. CASE Abandoned(g)
      <3>1. g \in 1..issued /\ g \in 1..issued' /\ g \notin done
        BY <1>1, <2>2 DEF Frame, Abandoned, Underway, Gone, Untouched
      <3>2. fileRows'[g] = fileRows[g] \/ Gone(g)'
        BY <2>2, <3>1 DEF Frame, Abandoned, Untouched, Gone, Underway
      <3>3. \A a \in WorkerAttempts : Publishing(a)' => attempt'[a].file # g
        BY <1>1, <2>2, <3>1 DEF Abandoned
      <3> QED BY <2>2, <3>1, <3>2, <3>3 DEF Abandoned, Underway
    <2> QED BY <1>1, <2>1, <2>2 DEF StartupSound
  <1> QED BY <1>1, <1>2 DEF StartupSound, Serving

\* A step of a request within its frame keeps the invariant, once it keeps the rows
\* and the request itself sound.
LEMMA RequestMoves ==
    ASSUME FileInv, NEW drop, NEW done, Frame(drop, done),
           NEW r \in ApiRequests, NEW k, RequestTurns(r, k), RequestMayTouch(r, drop, done),
               RequestMayName(r, k),
           SharedTyped', RowsSound', RequestSound(r)', TombstonesStay
    PROVE  FileInv'
  <1> USE DEF RequestTurns, RequestMayTouch, RequestMayName, TombstonesStay
  <1>1. /\ request \in [ApiRequests -> RequestType] /\ issued \in Nat /\ issued' \in Nat
        /\ attempt \in [WorkerAttempts -> AttemptType]
    BY DEF FileInv, FileTyped, SharedTyped
  <1>2. request'[r] = k /\ \A q \in ApiRequests \ {r} : request'[q] = request[q]
    BY <1>1
  <1>3. FileTyped'
    BY <1>1 DEF FileInv, FileTyped
  <1>4. ASSUME NEW q \in ApiRequests \ {r} PROVE RequestSound(q)'
    <2>1. Underway(request[q].file) => request[q].file \notin drop \cup done
      <3>1. SUFFICES ASSUME Underway(request[q].file), request[q].file \in drop \cup done PROVE FALSE
        OBVIOUS
      <3>2. request[r].file # request[q].file
        BY <3>1 DEF FileInv, RequestsApart
      <3>3. fileRows[request[q].file].kind = "output"
        BY <3>1, <3>2
      <3>4. RequestSound(q) /\ ~Gone(request[q].file) /\ request[q].file # 0
        BY <1>1, <3>1 DEF FileInv, Gone, Underway
      <3>5. request[q].pc \in {"putting", "stored", "unlinking", "unlinked"}
        BY <1>1, <3>4 DEF RequestSound, RequestType, NoRequest
      <3> QED BY <3>3, <3>4, <3>5 DEF RequestSound, UnderwayPut
    <2>2. \A f \in done : UnderwayOutput(f) => ~closing
      BY DEF UnderwayOutput
    <2> QED BY <1>2, <2>1, <2>2, RequestStays
  <1>5. \A a \in WorkerAttempts : Publishing(a)' =>
             (Publishing(a) /\ attempt'[a].file = attempt[a].file) \/ attempt'[a].file > issued
    BY DEF Publishing
  <1>6. ASSUME NEW b \in WorkerAttempts PROVE AttemptSound(b)'
    <2>1. ASSUME Publishing(b), Underway(attempt[b].file)
          PROVE  attempt[b].file \notin done /\ (attempt[b].file \in drop => closing')
      <3>1. UnderwayOutput(attempt[b].file)
        BY <2>1 DEF FileInv, AttemptSound, Gone, Underway
      <3> QED BY <3>1 DEF UnderwayOutput, Frame, Gone, Underway, Untouched
    <2>2. \A f \in done : ~(Abandoned(f) /\ fileRows[f].kind = "output")
      OBVIOUS
    <2> QED BY <1>5, <2>1, <2>2, AttemptStays
  <1>7. StartupSound'
    <2>1. startup.todo = {}
      BY DEF FileInv, StartupSound
    <2> QED BY <1>5, <2>1, StartupStays
  <1>8. RequestsApart'
    <2>1. SUFFICES ASSUME NEW p \in ApiRequests, NEW q \in ApiRequests, p # q,
                          Underway(request[p].file)', request'[p].file = request'[q].file
                   PROVE  FALSE
      BY DEF RequestsApart
    <2>2. \A s \in ApiRequests : request[s].file \in 0..issued /\ request[s].file \in Nat
      <3>1. ASSUME NEW s \in ApiRequests PROVE request[s].file \in 0..issued
        <4>1. RequestSound(s) /\ request[s] \in RequestType
          BY <1>1 DEF FileInv
        <4> QED BY <1>1, <4>1 DEF RequestSound, RequestType, NoRequest, Gone, UnderwayPut, Underway
      <3> QED BY <1>1, <3>1
    <2>3. \A s \in ApiRequests \ {r} : Underway(request[s].file)' => Underway(request[s].file)
      BY <1>1, <1>2, <2>2 DEF Frame, Underway, Gone, Untouched
    <2>4. PICK s \in {p, q} : s # r
      BY <2>1
    <2>5. request'[s] = request[s] /\ Underway(request[s].file)' /\ request'[s].file = request'[p].file
          /\ request'[p].file = request'[q].file
      BY <1>2, <2>1, <2>4
    <2>6. Underway(request[s].file) /\ request[s].file \in 0..issued
      BY <2>2, <2>3, <2>4, <2>5
    <2>7. CASE r \notin {p, q}
      BY <1>2, <2>1, <2>6, <2>7 DEF FileInv, RequestsApart
    <2>8. CASE r \in {p, q}
      <3>1. k.file = request[s].file
        BY <1>2, <2>5, <2>8
      <3>2. k.file # request[r].file
        BY <2>4, <2>6, <3>1 DEF FileInv, RequestsApart
      <3>3. k.file <= issued
        BY <1>1, <2>6, <3>1
      <3> QED BY <1>1, <2>5, <2>6, <3>1, <3>2, <3>3 DEF RequestType
    <2> QED BY <2>7, <2>8
  <1>9. PublishersApart'
    BY DEF FileInv, PublishersApart, Publishing
  <1>10. MountSound' /\ StaleMountsAreLeftovers'
    <2>1. MountSound /\ StaleMountsAreLeftovers /\ mounted \subseteq FileIds
      BY DEF FileInv, FileTyped, SharedTyped
    <2>2. \A f : Watched(f) => Watched(f)'
      BY DEF Watched, Frame, Gone, Underway, Untouched
    <2>3. MountSound'
      BY <2>1, <2>2 DEF MountSound
    <2>4. StaleMountsAreLeftovers'
      BY <2>1 DEF StaleMountsAreLeftovers, MountIsWatched, Frame, Gone, Underway, Untouched
    <2> QED BY <2>3, <2>4
  <1> QED BY <1>2, <1>3, <1>4, <1>6, <1>7, <1>8, <1>9, <1>10 DEF FileInv

\* attempt a turns to k; what it may let go of or complete
AttemptTurns(a, k) ==
    /\ k \in AttemptType /\ attempt' = [attempt EXCEPT ![a] = k]
    /\ UNCHANGED <<request, startup, closing>>
    /\ k.pc \in {"put", "complete"} =>
         (Publishing(a) /\ k.file = attempt[a].file) \/ k.file > issued

AttemptMayTouch(a, drop, done) ==
    /\ \A f \in drop \cup done : Underway(f) => fileRows[f].kind = "output"
    /\ \A f \in drop : Underway(f) =>
         closing \/ \A b \in WorkerAttempts \ {a} : Publishing(b) => attempt[b].file # f
    /\ \A f \in done : Underway(f) /\ Publishing(a) /\ attempt[a].file = f /\ ~closing

\* The same for an attempt, which must also keep the mounts sound.
LEMMA AttemptMoves ==
    ASSUME FileInv, NEW drop, NEW done, Frame(drop, done),
           NEW a \in WorkerAttempts, NEW k, AttemptTurns(a, k), AttemptMayTouch(a, drop, done),
           SharedTyped', RowsSound', AttemptSound(a)', MountSound', StaleMountsAreLeftovers'
    PROVE  FileInv'
  <1> USE DEF AttemptTurns, AttemptMayTouch
  <1>1. /\ request \in [ApiRequests -> RequestType] /\ issued \in Nat /\ issued' \in Nat
        /\ attempt \in [WorkerAttempts -> AttemptType]
    BY DEF FileInv, FileTyped, SharedTyped
  <1>2. attempt'[a] = k /\ \A b \in WorkerAttempts \ {a} : attempt'[b] = attempt[b]
    BY <1>1
  <1>3. FileTyped'
    BY <1>1 DEF FileInv, FileTyped
  <1>4. ASSUME NEW q \in ApiRequests PROVE RequestSound(q)'
    <2>1. Underway(request[q].file) => request[q].file \notin drop \cup done
      <3>1. SUFFICES ASSUME Underway(request[q].file), request[q].file \in drop \cup done PROVE FALSE
        OBVIOUS
      <3>2. RequestSound(q) /\ ~Gone(request[q].file) /\ request[q].file # 0
        BY <1>1, <3>1 DEF FileInv, Gone, Underway
      <3>3. request[q].pc \in {"putting", "stored", "unlinking", "unlinked"}
        BY <1>1, <3>2 DEF RequestSound, RequestType, NoRequest
      <3> QED BY <3>1, <3>2, <3>3 DEF RequestSound, UnderwayPut
    <2>2. \A f \in done : UnderwayOutput(f) => ~closing
      OBVIOUS
    <2> QED BY <2>1, <2>2, RequestStays
  <1>5. \A b \in WorkerAttempts : Publishing(b)' =>
             (Publishing(b) /\ attempt'[b].file = attempt[b].file) \/ attempt'[b].file > issued
    BY <1>2 DEF Publishing
  <1>6. ASSUME NEW b \in WorkerAttempts \ {a} PROVE AttemptSound(b)'
    <2>1. ASSUME Publishing(b), Underway(attempt[b].file)
          PROVE  attempt[b].file \notin done /\ (attempt[b].file \in drop => closing')
      BY <2>1 DEF FileInv, PublishersApart
    <2>2. \A f \in done : ~(Abandoned(f) /\ fileRows[f].kind = "output")
      BY DEF Abandoned
    <2> QED BY <1>2, <1>5, <2>1, <2>2, AttemptStays
  <1>7. StartupSound'
    <2>1. done \cap startup.todo = {}
      <3>1. SUFFICES ASSUME NEW f \in done, f \in startup.todo PROVE FALSE
        OBVIOUS
      <3>2. Gone(f) \/ Abandoned(f)
        BY <3>1 DEF FileInv, StartupSound
      <3> QED BY <3>1, <3>2 DEF Abandoned, Gone, Underway
    <2> QED BY <1>5, <2>1, StartupStays
  <1>8. RequestsApart'
    <2>1. \A q \in ApiRequests : request[q].file \in 0..issued
      <3>1. ASSUME NEW s \in ApiRequests PROVE request[s].file \in 0..issued
        <4>1. RequestSound(s) /\ request[s] \in RequestType
          BY <1>1 DEF FileInv
        <4> QED BY <1>1, <4>1 DEF RequestSound, RequestType, NoRequest, Gone, UnderwayPut, Underway
      <3> QED BY <1>1, <3>1
    <2>2. \A q \in ApiRequests : Underway(request[q].file)' => Underway(request[q].file)
      BY <1>1, <2>1 DEF Frame, Underway, Gone, Untouched
    <2> QED BY <2>2 DEF FileInv, RequestsApart
  <1>9. PublishersApart'
    <2>1. ASSUME NEW b \in WorkerAttempts, Publishing(b) PROVE attempt[b].file \in 1..issued
      BY <1>1, <2>1 DEF FileInv, AttemptSound, Gone, UnderwayOutput, Underway
    <2>2. ASSUME NEW b \in WorkerAttempts \ {a}, Publishing(b)', Publishing(a)'
          PROVE  attempt'[b].file # attempt'[a].file
      <3>1. Publishing(b) /\ attempt[b].file \in 1..issued /\ attempt'[b].file = attempt[b].file
        BY <1>2, <2>1, <2>2 DEF Publishing
      <3>2. (Publishing(a) /\ k.file = attempt[a].file) \/ k.file > issued
        BY <1>2, <2>2 DEF Publishing
      <3> QED BY <1>1, <1>2, <3>1, <3>2 DEF FileInv, PublishersApart, AttemptType
    <2>3. ASSUME NEW b \in WorkerAttempts \ {a}, NEW c \in WorkerAttempts \ {a}, b # c,
                 Publishing(b)', Publishing(c)'
          PROVE  attempt'[b].file # attempt'[c].file
      BY <1>2, <2>3 DEF FileInv, PublishersApart, Publishing
    <2> QED BY <2>2, <2>3 DEF PublishersApart
  <1> QED BY <1>2, <1>3, <1>4, <1>6, <1>7, <1>8, <1>9 DEF FileInv

\* A step of an attempt that leaves the mounts and the tombstones keeps them sound.
LEMMA MountsStay ==
    ASSUME FileInv, NEW a \in WorkerAttempts, NEW k \in AttemptType, attempt'
        = [attempt EXCEPT ![a] = k],
           UNCHANGED <<mounted, leftover, attached, closing>>, attempt[a].pc # "recheck",
           k.pc \in {"dropblob", "droprow", "finalize"} =>
             attempt[a].pc \in {"dropblob", "droprow", "finalize"} /\ k.file = attempt[a].file
    PROVE  MountSound' /\ StaleMountsAreLeftovers'
  <1>1. attempt \in [WorkerAttempts -> AttemptType] /\ MountSound /\ StaleMountsAreLeftovers
        /\ mounted \subseteq FileIds
    BY DEF FileInv, FileTyped, SharedTyped
  <1>2. attempt'[a] = k /\ \A b \in WorkerAttempts \ {a} : attempt'[b] = attempt[b]
    BY <1>1
  <1>3. ASSUME NEW f, Watched(f) PROVE Watched(f)'
    BY <1>2, <1>3 DEF Watched
  <1>4. MountSound'
    BY <1>1, <1>2, <1>3 DEF MountSound
  <1>5. StaleMountsAreLeftovers'
    BY <1>1, <1>2 DEF StaleMountsAreLeftovers, MountIsWatched
  <1> QED BY <1>4, <1>5

\* A non-empty listing has a first file.
LEMMA LeastFile ==
    ASSUME NEW S \in SUBSET FileIds, S # {}
    PROVE  Min(S) \in S
  <1>1. S \in SUBSET Nat
    BY FileStoreAssumption DEF FileIds
  <1> QED BY <1>1, LeastOf DEF Min

\* SetState changes the state of the named rows and nothing else.
LEMMA StatesSet ==
    ASSUME fileRows \in [FileIds -> RowType], NEW fs, NEW st \in {"none", "uploading", "ready",
        "deleting"}
    PROVE  /\ SetState(fs, st) \in [FileIds -> RowType]
           /\ \A f \in FileIds : SetState(fs, st)[f].kind = fileRows[f].kind
           /\ \A f \in FileIds : SetState(fs, st)[f].st = IF f \in fs THEN st ELSE fileRows[f].st
           /\ \A f \in FileIds \ fs : SetState(fs, st)[f] = fileRows[f]
  BY DEF SetState, RowType

\* RemoveIncomplete deletes one row unless it is ready.
LEMMA RowRemoved ==
    ASSUME fileRows \in [FileIds -> RowType], NEW f \in FileIds, RemoveIncomplete(f)
    PROVE  /\ fileRows' \in [FileIds -> RowType]
           /\ \A g \in FileIds \ {f} : fileRows'[g] = fileRows[g]
           /\ fileRows'[f] = IF fileRows[f].st = "ready" THEN fileRows[f] ELSE NoRow
  <1>1. NoRow \in RowType
    BY DEF NoRow, RowType
  <1> QED BY <1>1 DEF RemoveIncomplete

\* InsertUploading adds one row under a new identifier.
LEMMA Inserted ==
    ASSUME fileRows \in [FileIds -> RowType], issued \in 0..MaxFiles,
           NEW class \in {"upload", "clone", "output", "skill"}, NEW content \in Nat,
           InsertUploading(class, content)
    PROVE  /\ issued + 1 \in FileIds /\ issued' = issued + 1 /\ issued' \in 0..MaxFiles
           /\ fileRows' \in [FileIds -> RowType]
           /\ \A g \in FileIds \ {issued + 1} : fileRows'[g] = fileRows[g]
           /\ fileRows'[issued + 1].st = "uploading" /\ fileRows'[issued + 1].kind = class
  <1>1. issued + 1 \in FileIds
    BY FileStoreAssumption DEF InsertUploading, FileIds
  <1>2. [st |-> "uploading", kind |-> class, content |-> content] \in RowType
    BY DEF RowType
  <1> QED BY <1>1, <1>2, FileStoreAssumption DEF InsertUploading

\* A row that stays is as sound as before.
LEMMA RowStays ==
    ASSUME FileInv, NEW f \in FileIds, Untouched(f), issued' \in {issued, issued + 1},
           f \in pinned' => f \in pinned
    PROVE  RowSound(f)'
  <1>1. RowSound(f) /\ issued \in Nat /\ f \in Nat
    BY FileStoreAssumption DEF FileInv, RowsSound, FileTyped, SharedTyped, FileIds
  <1> QED BY <1>1 DEF RowSound, Untouched, Gone

\* Rows that stay, or that are not unfinished, keep the frame.
LEMMA FrameOf ==
    ASSUME FileInv, NEW drop, NEW done, issued' \in {issued, issued + 1}, closing => closing',
           \A f \in FileIds \ (drop \cup done) : f \in 1..issued => Untouched(f),
           \A f \in drop \cup done : f \in 1..issued =>
              /\ Gone(f) => Gone(f)'
              /\ Underway(f)' => Underway(f)
              /\ f \in drop /\ Underway(f) => fileRows'[f] = fileRows[f] \/ Gone(f)'
    PROVE  Frame(drop, done)
  <1>1. issued \in 0..MaxFiles /\ 1..issued \subseteq FileIds
    BY FileStoreAssumption DEF FileInv, FileTyped, SharedTyped, FileIds
  <1>2. \A f \in 1..issued : Untouched(f) => (Gone(f) => Gone(f)') /\ (Underway(f)' => Underway(f))
    BY <1>1 DEF Untouched, Gone, Underway
  <1> QED BY <1>1, <1>2 DEF Frame, Underway

\* An upload starts with a row that nobody else knows.
LEMMA BeginPutStep ==
    ASSUME FileInv, NEW r \in ApiRequests, NEW class \in {"upload", "clone", "skill"}, BeginPut(r,
        class)
    PROVE  FileInv'
  <1> DEFINE k == [pc |-> "putting", file |-> issued + 1, todo |-> {}]
  <1>1. /\ SharedTyped /\ request[r].pc = "idle" /\ RequestSound(r) /\ issued \in Nat /\ Serving
        /\ request \in [ApiRequests -> RequestType]
        /\ UNCHANGED <<blobs, attached, pinned, closing, mounted, leftover, boxOutput, written, attempt, startup>>
        /\ request' = [request EXCEPT ![r] = k] /\ InsertUploading(class, 0)
    BY DEF FileInv, FileTyped, SharedTyped, BeginPut, RequestStep
  <1>2. /\ issued + 1 \in FileIds /\ issued' = issued + 1 /\ issued' \in 0..MaxFiles
        /\ fileRows' \in [FileIds -> RowType]
        /\ \A g \in FileIds \ {issued + 1} : fileRows'[g] = fileRows[g]
        /\ fileRows'[issued + 1].st = "uploading" /\ fileRows'[issued + 1].kind = class
    BY <1>1, Inserted DEF SharedTyped
  <1>3. SharedTyped'
    BY <1>1, <1>2 DEF SharedTyped
  <1>4. k \in RequestType
    BY <1>1 DEF RequestType
  <1>5. \A f \in FileIds \ {issued + 1} : Untouched(f)
    BY <1>1, <1>2 DEF Untouched
  <1>6. Frame({}, {})
    BY <1>1, <1>2, <1>5, FrameOf
  <1>7. PICK n \in FileIds : n = issued + 1
    BY <1>2
  <1>8. RowSound(n)'
    <2>1. RowSound(n)
      BY DEF FileInv, RowsSound
    <2> QED BY <1>1, <1>2, <1>7, <2>1 DEF RowSound, NoRow
  <1>9. RowsSound'
    <2>1. ASSUME NEW f \in FileIds PROVE RowSound(f)'
      BY <1>1, <1>2, <1>5, <1>7, <1>8, RowStays
    <2> QED BY <2>1 DEF RowsSound
  <1>10. RequestSound(r)'
    <2>1. attached[n] = "none"
      BY <1>1, <1>7 DEF FileInv, RowsSound, RowSound
    <2>2. UnderwayPut(n)'
      BY <1>1, <1>2, <1>7, <2>1 DEF UnderwayPut, Underway
    <2>3. request'[r] = [pc |-> "putting", file |-> n, todo |-> {}]
      BY <1>1, <1>4, <1>7
    <2> QED BY <1>1, <2>2, <2>3 DEF RequestSound, Serving, UnderwayPut, Underway
  <1>11. RequestTurns(r, k) /\ RequestMayTouch(r, {}, {}) /\ RequestMayName(r, k) /\ TombstonesStay
    BY <1>1, <1>4 DEF RequestTurns, RequestMayTouch, RequestMayName, TombstonesStay
  <1> QED BY <1>3, <1>6, <1>9, <1>10, <1>11, RequestMoves

\* What a request that has begun knows, and what it leaves alone.
LEMMA RequestContext ==
    ASSUME FileInv, NEW r \in ApiRequests, NEW pc, pc # "idle", RequestStep(r, pc)
    PROVE  /\ SharedTyped /\ request[r].pc = pc /\ request[r] \in RequestType /\ RequestSound(r)
           /\ UNCHANGED <<mounted, leftover, boxOutput, written, attempt, startup>> /\ Serving
           /\ request \in [ApiRequests -> RequestType] /\ issued \in Nat
           /\ 1..issued \subseteq FileIds
  BY FileStoreAssumption DEF FileInv, FileTyped, SharedTyped, RequestStep, RequestSound, FileIds

\* A request that ends within its frame keeps the invariant.
LEMMA RequestEnding ==
    ASSUME FileInv, NEW drop, NEW done, Frame(drop, done), NEW r \in ApiRequests, RequestEnds(r),
           UNCHANGED <<attempt, startup, mounted, leftover, boxOutput, written>>, Serving,
           SharedTyped', RowsSound', RequestMayTouch(r, drop, done), TombstonesStay
    PROVE  FileInv'
  <1>1. NoRequest \in RequestType /\ NoRequest.file = 0
    BY DEF NoRequest, RequestType
  <1>2. request' = [request EXCEPT ![r] = NoRequest] /\ request \in [ApiRequests -> RequestType]
    BY DEF RequestEnds, FileInv, FileTyped
  <1>3. RequestSound(r)'
    BY <1>1, <1>2 DEF RequestSound, NoRequest, Serving
  <1>4. RequestTurns(r, NoRequest) /\ RequestMayName(r, NoRequest)
    BY <1>1, <1>2 DEF RequestTurns, RequestMayName, Underway
  <1> QED BY <1>3, <1>4, RequestMoves

\* A request that goes on keeps its file and its listing.
LEMMA RequestAdvances ==
    ASSUME FileInv, NEW r \in ApiRequests,
           NEW pc \in {"putting", "stored", "unlinking", "unlinked", "purge", "purgeblob", "purgerow"},
           RequestAt(r, pc)
    PROVE  \E k \in RequestType : /\ request' = [request EXCEPT ![r] = k]
                                  /\ k.pc = pc /\ k.file = request[r].file /\ k.todo = request[r].todo
  <1> DEFINE k == [request[r] EXCEPT !.pc = pc]
  <1>1. request[r] \in RequestType /\ request' = [request EXCEPT ![r] = k]
    BY DEF RequestAt, FileInv, FileTyped
  <1>2. k \in RequestType /\ k.pc = pc /\ k.file = request[r].file /\ k.todo = request[r].todo
    BY <1>1 DEF RequestType
  <1> HIDE DEF k
  <1> QED BY <1>1, <1>2

\* blobs.Put adds the object, or fails and the row goes or stays.
LEMMA PutBlobStep ==
    ASSUME FileInv, NEW r \in ApiRequests, PutBlob(r)
    PROVE  FileInv'
  <1>1. /\ SharedTyped /\ request[r].pc = "putting" /\ request[r] \in RequestType /\ RequestSound(r)
        /\ UNCHANGED <<mounted, leftover, boxOutput, written, attempt, startup>> /\ Serving
        /\ request \in [ApiRequests -> RequestType] /\ issued \in Nat
        /\ 1..issued \subseteq FileIds
    BY RequestContext DEF PutBlob
  <1>2. PICK f \in FileIds : f = request[r].file
    BY <1>1 DEF RequestSound, UnderwayPut, Underway
  <1>3. UNCHANGED <<issued, attached, pinned, closing>> /\ UnderwayPut(f) /\ f \in 1..issued
    BY <1>1, <1>2 DEF PutBlob, RequestSound, UnderwayPut, Underway
  <1>4. CASE blobs' = blobs \cup {f} /\ RequestAt(r, "stored") /\ UNCHANGED fileRows
    <2>1. PICK k \in RequestType : /\ request' = [request EXCEPT ![r] = k]
                                   /\ k.pc = "stored" /\ k.file = f /\ k.todo = request[r].todo
      BY <1>2, <1>4, RequestAdvances
    <2>2. SharedTyped'
      BY <1>1, <1>3, <1>4 DEF SharedTyped
    <2>3. \A g \in FileIds : Untouched(g)
      BY <1>3, <1>4 DEF Untouched
    <2>4. Frame({}, {})
      BY <1>3, <2>3, FrameOf
    <2>5. RowsSound'
      BY <1>3, <2>3, RowStays DEF RowsSound
    <2>6. RequestSound(r)'
      <3>1. request'[r] = k
        BY <1>1, <2>1
      <3> QED BY <1>1, <1>2, <1>3, <1>4, <2>1, <3>1
              DEF RequestSound, UnderwayPut, Underway, Serving, Gone, UnderwayOutput
    <2>7. RequestTurns(r, k) /\ RequestMayTouch(r, {}, {}) /\ RequestMayName(r, k) /\ TombstonesStay
      BY <1>1, <1>2, <1>3, <2>1 DEF RequestTurns, RequestMayTouch, RequestMayName, TombstonesStay
    <2> QED BY <2>2, <2>4, <2>5, <2>6, <2>7, RequestMoves
  <1>5. CASE RequestEnds(r) /\ (RemoveIncomplete(f) \/ UNCHANGED fileRows) /\ UNCHANGED blobs
    <2>1. /\ fileRows' \in [FileIds -> RowType]
          /\ \A g \in FileIds \ {f} : fileRows'[g] = fileRows[g]
          /\ fileRows'[f] = fileRows[f] \/ fileRows'[f] = NoRow
      BY <1>1, <1>5, RowRemoved DEF SharedTyped
    <2>2. SharedTyped'
      BY <1>1, <1>3, <1>5, <2>1 DEF SharedTyped
    <2>3. \A g \in FileIds \ {f} : Untouched(g)
      BY <1>3, <1>5, <2>1 DEF Untouched
    <2>4. Frame({f}, {})
      BY <1>3, <2>1, <2>3, FrameOf DEF Gone, Underway, NoRow, UnderwayPut
    <2>5. RowSound(f)'
      BY <1>1, <1>3, <1>5, <2>1 DEF FileInv, RowsSound, RowSound, UnderwayPut, Underway, NoRow
    <2>6. RowsSound'
      BY <1>3, <2>3, <2>5, RowStays DEF RowsSound
    <2>7. RequestMayTouch(r, {f}, {}) /\ TombstonesStay
      BY <1>2, <1>3 DEF UnderwayPut, UnderwayOutput, RequestMayTouch, TombstonesStay
    <2> QED BY <1>1, <1>5, <2>2, <2>4, <2>6, <2>7, RequestEnding
  <1> QED BY <1>2, <1>4, <1>5 DEF PutBlob

\* A completed upload is visible, and its object is there: nobody removed the row in
\* between.
LEMMA CompletePutStep ==
    ASSUME FileInv, NEW r \in ApiRequests, NEW class, CompletePut(r, class)
    PROVE  FileInv'
  <1>1. /\ SharedTyped /\ request[r].pc = "stored" /\ request[r] \in RequestType /\ RequestSound(r)
        /\ UNCHANGED <<mounted, leftover, boxOutput, written, attempt, startup>> /\ Serving
        /\ request \in [ApiRequests -> RequestType] /\ issued \in Nat
        /\ 1..issued \subseteq FileIds
    BY RequestContext DEF CompletePut
  <1>2. PICK f \in FileIds : f = request[r].file
    BY <1>1 DEF RequestSound, UnderwayPut, Underway
  <1>3. /\ UNCHANGED <<issued, blobs, attached, pinned, closing>> /\ UnderwayPut(f) /\ f \in 1..issued
        /\ f \in blobs /\ RequestEnds(r) /\ fileRows' = SetState({f}, "ready")
    BY <1>1, <1>2 DEF CompletePut, RequestSound, UnderwayPut, Underway
  <1>4. /\ fileRows' \in [FileIds -> RowType] /\ fileRows'[f].st = "ready"
        /\ fileRows'[f].kind = fileRows[f].kind
        /\ \A g \in FileIds \ {f} : fileRows'[g] = fileRows[g]
    BY <1>1, <1>3, StatesSet DEF SharedTyped
  <1>5. SharedTyped'
    BY <1>1, <1>3, <1>4 DEF SharedTyped
  <1>6. \A g \in FileIds \ {f} : Untouched(g)
    BY <1>3, <1>4 DEF Untouched
  <1>7. Frame({}, {f})
    BY <1>3, <1>4, <1>6, FrameOf DEF Gone, Underway, UnderwayPut
  <1>8. RowSound(f)'
    BY <1>1, <1>3, <1>4 DEF FileInv, RowsSound, RowSound, UnderwayPut, Underway
  <1>9. RowsSound'
    BY <1>3, <1>6, <1>8, RowStays DEF RowsSound
  <1>10. RequestMayTouch(r, {}, {f}) /\ TombstonesStay
    BY <1>2, <1>3 DEF UnderwayPut, RequestMayTouch, TombstonesStay
  <1> QED BY <1>1, <1>3, <1>5, <1>7, <1>9, <1>10, RequestEnding

\* AddSessionResource shows the copy with its resource, or discards it.
LEMMA AddResourceStep ==
    ASSUME FileInv, NEW r \in ApiRequests, AddSessionResource(r)
    PROVE  FileInv'
  <1>1. /\ SharedTyped /\ request[r].pc = "stored" /\ request[r] \in RequestType /\ RequestSound(r)
        /\ UNCHANGED <<mounted, leftover, boxOutput, written, attempt, startup>> /\ Serving
        /\ request \in [ApiRequests -> RequestType] /\ issued \in Nat
        /\ 1..issued \subseteq FileIds
    BY RequestContext DEF AddSessionResource
  <1>2. PICK f \in FileIds : f = request[r].file
    BY <1>1 DEF RequestSound, UnderwayPut, Underway
  <1>3. /\ UNCHANGED <<issued, blobs, pinned, closing>> /\ UnderwayPut(f) /\ f \in 1..issued
        /\ f \in blobs /\ fileRows[f].kind = "clone"
    BY <1>1, <1>2 DEF AddSessionResource, RequestSound, UnderwayPut, Underway
  <1>4. CASE /\ fileRows' = SetState({f}, "ready") /\ attached' = [attached EXCEPT ![f] = "active"]
             /\ RequestEnds(r)
    <2>1. /\ fileRows' \in [FileIds -> RowType] /\ fileRows'[f].st = "ready"
          /\ fileRows'[f].kind = "clone"
          /\ \A g \in FileIds \ {f} : fileRows'[g] = fileRows[g]
      BY <1>1, <1>3, <1>4, StatesSet DEF SharedTyped
    <2>2. attached'[f] = "active" /\ \A g \in FileIds \ {f} : attached'[g] = attached[g]
      BY <1>1, <1>4 DEF SharedTyped
    <2>3. SharedTyped'
      BY <1>1, <1>3, <1>4, <2>1 DEF SharedTyped
    <2>4. \A g \in FileIds \ {f} : Untouched(g)
      BY <1>3, <2>1, <2>2 DEF Untouched
    <2>5. Frame({}, {f})
      BY <1>3, <2>1, <2>4, FrameOf DEF Gone, Underway, UnderwayPut
    <2>6. RowSound(f)'
      BY <1>1, <1>3, <2>1, <2>2 DEF FileInv, RowsSound, RowSound, UnderwayPut, Underway
    <2>7. RowsSound'
      BY <1>3, <2>4, <2>6, RowStays DEF RowsSound
    <2>8. RequestMayTouch(r, {}, {f}) /\ TombstonesStay
      BY <1>2, <1>3, <2>2 DEF UnderwayPut, RequestMayTouch, TombstonesStay
    <2> QED BY <1>1, <1>4, <2>3, <2>5, <2>7, <2>8, RequestEnding
  <1>5. CASE RequestAt(r, "unlinking") /\ UNCHANGED <<fileRows, attached>>
    <2>1. PICK k \in RequestType : /\ request' = [request EXCEPT ![r] = k]
                                   /\ k.pc = "unlinking" /\ k.file = f /\ k.todo = request[r].todo
      BY <1>2, <1>5, RequestAdvances
    <2>2. SharedTyped'
      BY <1>1, <1>3, <1>5 DEF SharedTyped
    <2>3. \A g \in FileIds : Untouched(g)
      BY <1>3, <1>5 DEF Untouched
    <2>4. Frame({}, {})
      BY <1>3, <2>3, FrameOf
    <2>5. RowsSound'
      BY <1>3, <2>3, RowStays DEF RowsSound
    <2>6. RequestSound(r)'
      <3>1. request'[r] = k
        BY <1>1, <2>1
      <3> QED BY <1>1, <1>2, <1>3, <1>5, <2>1, <3>1
              DEF RequestSound, UnderwayPut, Underway, Serving, Gone, UnderwayOutput
    <2>7. RequestTurns(r, k) /\ RequestMayTouch(r, {}, {}) /\ RequestMayName(r, k) /\ TombstonesStay
      BY <1>1, <1>2, <1>3, <1>5, <2>1 DEF RequestTurns, RequestMayTouch, RequestMayName, TombstonesStay
    <2> QED BY <2>2, <2>4, <2>5, <2>6, <2>7, RequestMoves
  <1> QED BY <1>1, <1>2, <1>4, <1>5 DEF AddSessionResource, RequestAt

\* A ready row that nobody pins or wants any more is hidden, and the request goes on to
\* remove it.
LEMMA HideStep ==
    ASSUME FileInv, NEW r \in ApiRequests, NEW f \in FileIds, fileRows[f].st = "ready", f \notin pinned,
           RequestStep(r, "idle"), Serving, fileRows' = SetState({f}, "deleting"),
           request' = [request EXCEPT ![r] = [pc |-> "unlinking", file |-> f, todo |-> {}]],
           attached'[f] \in {"none", "deleting"}, attached[f] \in {"none", "active"},
           attached[f] = "active" => attached'[f] # "none",
           attached' \in [FileIds -> {"none", "active", "deleting"}],
           \A g \in FileIds \ {f} : attached'[g] = attached[g],
           UNCHANGED <<issued, blobs, pinned, closing>>
    PROVE  FileInv'
  <1> DEFINE k == [pc |-> "unlinking", file |-> f, todo |-> {}]
  <1>1. /\ SharedTyped /\ request \in [ApiRequests -> RequestType] /\ issued \in Nat
        /\ UNCHANGED <<mounted, leftover, boxOutput, written, attempt, startup>> /\ f \in Nat \ {0}
    BY FileStoreAssumption DEF FileInv, FileTyped, SharedTyped, RequestStep, FileIds
  <1>2. f \in 1..issued
    BY <1>1 DEF FileInv, RowsSound, RowSound, NoRow
  <1>3. /\ fileRows' \in [FileIds -> RowType] /\ fileRows'[f].st = "deleting"
        /\ \A g \in FileIds \ {f} : fileRows'[g] = fileRows[g]
    BY <1>1, StatesSet DEF SharedTyped
  <1>4. SharedTyped'
    BY <1>1, <1>3 DEF SharedTyped
  <1>5. \A g \in FileIds \ {f} : Untouched(g)
    BY <1>3 DEF Untouched
  <1>6. Frame({f}, {})
    <2>1. ~Gone(f) /\ ~Underway(f) /\ ~Underway(f)' /\ UNCHANGED <<issued, closing>>
      BY <1>3 DEF Gone, Underway
    <2> QED BY <1>5, <2>1, FrameOf
  <1>7. RowSound(f)'
    BY <1>1, <1>2, <1>3 DEF FileInv, RowsSound, RowSound, Gone
  <1>8. RowsSound'
    BY <1>5, <1>7, RowStays DEF RowsSound
  <1>9. request'[r] = k /\ k \in RequestType
    BY <1>1 DEF RequestType
  <1>10. Gone(f)' /\ Serving'
    BY <1>1, <1>2, <1>3 DEF Gone, Serving
  <1>11. RequestSound(r)'
    BY <1>9, <1>10 DEF RequestSound, Gone
  <1>12. RequestTurns(r, k) /\ RequestMayTouch(r, {f}, {}) /\ RequestMayName(r, k) /\ TombstonesStay
    BY <1>1, <1>2, <1>3, <1>9
       DEF RequestTurns, RequestMayTouch, RequestMayName, TombstonesStay, Underway, UnderwayOutput
  <1> QED BY <1>4, <1>6, <1>8, <1>11, <1>12, RequestMoves

\* A deletion is refused for what is pinned or attached.
LEMMA BeginDeleteStep ==
    ASSUME FileInv, NEW r \in ApiRequests, NEW f \in FileIds, BeginDelete(r,
        f) \/ BeginDeleteVersion(r, f)
    PROVE  FileInv'
  <1>1. RowSound(f) /\ attached \in [FileIds -> {"none", "active", "deleting"}]
    BY DEF FileInv, RowsSound, FileTyped, SharedTyped
  <1>2. fileRows[f].st = "ready" /\ f \notin pinned /\ attached[f] = "none"
    BY <1>1 DEF BeginDelete, BeginDeleteVersion, Deletable, DeletableVersion, RowSound, Gone
  <1> QED BY <1>1, <1>2, HideStep DEF BeginDelete, BeginDeleteVersion, BeginUnlink

\* Detaching a resource leaves a tombstone and hides the file.
LEMMA BeginDetachStep ==
    ASSUME FileInv, NEW r \in ApiRequests, NEW f \in FileIds, BeginDetach(r, f)
    PROVE  FileInv'
  <1>1. RowSound(f) /\ attached \in [FileIds -> {"none", "active", "deleting"}]
    BY DEF FileInv, RowsSound, FileTyped, SharedTyped
  <1>2. fileRows[f].st = "ready" /\ f \notin pinned /\ attached[f] = "active"
    BY <1>1 DEF BeginDetach, RowSound
  <1>3. attached' \in [FileIds -> {"none", "active", "deleting"}] /\ attached'[f] = "deleting"
        /\ \A g \in FileIds \ {f} : attached'[g] = attached[g]
    BY <1>1 DEF BeginDetach
  <1> QED BY <1>2, <1>3, HideStep DEF BeginDetach

\* The object of a hidden or discarded file goes, or the blob store fails.
LEMMA UnlinkBlobStep ==
    ASSUME FileInv, NEW r \in ApiRequests, UnlinkBlob(r)
    PROVE  FileInv'
  <1>1. /\ SharedTyped /\ request[r].pc = "unlinking" /\ request[r] \in RequestType /\ RequestSound(r)
        /\ UNCHANGED <<mounted, leftover, boxOutput, written, attempt, startup>> /\ Serving
        /\ request \in [ApiRequests -> RequestType] /\ issued \in Nat
        /\ 1..issued \subseteq FileIds
    BY RequestContext DEF UnlinkBlob
  <1>2. PICK f \in FileIds : f = request[r].file
    BY <1>1 DEF RequestSound, UnderwayPut, Underway, Gone
  <1>3. /\ UNCHANGED <<fileRows, issued, attached, pinned, closing>> /\ (Gone(f) \/ UnderwayPut(f))
        /\ blobs' \in {blobs, blobs \ {f}}
    BY <1>1, <1>2 DEF UnlinkBlob, RequestSound
  <1>4. SharedTyped'
    BY <1>1, <1>3 DEF SharedTyped
  <1>5. \A g \in FileIds \ {f} : Untouched(g)
    BY <1>3 DEF Untouched
  <1>6. Frame({f}, {})
    BY <1>3, <1>5, FrameOf DEF Gone, Underway
  <1>7. RowSound(f)'
    BY <1>1, <1>3 DEF FileInv, RowsSound, RowSound, Gone, UnderwayPut, Underway
  <1>8. RowsSound'
    BY <1>3, <1>5, <1>7, RowStays DEF RowsSound
  <1>9. RequestMayTouch(r, {f}, {}) /\ TombstonesStay
    BY <1>2, <1>3 DEF UnderwayPut, UnderwayOutput, Underway, Gone, RequestMayTouch, TombstonesStay
  <1>10. CASE RequestAt(r, "unlinked")
    <2>1. PICK k \in RequestType : /\ request' = [request EXCEPT ![r] = k]
                                   /\ k.pc = "unlinked" /\ k.file = f /\ k.todo = request[r].todo
      BY <1>2, <1>10, RequestAdvances
    <2>2. RequestSound(r)'
      <3>1. request'[r] = k
        BY <1>1, <2>1
      <3> QED BY <1>1, <1>2, <1>3, <2>1, <3>1
              DEF RequestSound, UnderwayPut, Underway, Serving, Gone, UnderwayOutput
    <2>3. RequestTurns(r, k) /\ RequestMayName(r, k)
      BY <1>1, <1>2, <2>1 DEF RequestTurns, RequestMayName
    <2> QED BY <1>4, <1>6, <1>8, <1>9, <2>2, <2>3, RequestMoves
  <1>11. CASE RequestEnds(r)
    BY <1>1, <1>4, <1>6, <1>8, <1>9, <1>11, RequestEnding
  <1> QED BY <1>10, <1>11 DEF UnlinkBlob

\* Then its row goes.
LEMMA UnlinkRowStep ==
    ASSUME FileInv, NEW r \in ApiRequests, UnlinkRow(r)
    PROVE  FileInv'
  <1>1. /\ SharedTyped /\ request[r].pc = "unlinked" /\ request[r] \in RequestType /\ RequestSound(r)
        /\ UNCHANGED <<mounted, leftover, boxOutput, written, attempt, startup>> /\ Serving
        /\ request \in [ApiRequests -> RequestType] /\ issued \in Nat
        /\ 1..issued \subseteq FileIds
    BY RequestContext DEF UnlinkRow
  <1>2. PICK f \in FileIds : f = request[r].file
    BY <1>1 DEF RequestSound, UnderwayPut, Underway, Gone
  <1>3. /\ UNCHANGED <<blobs, issued, attached, pinned, closing>> /\ (Gone(f) \/ UnderwayPut(f))
        /\ RequestEnds(r) /\ RemoveIncomplete(f)
    BY <1>1, <1>2 DEF UnlinkRow, RequestSound
  <1>4. /\ fileRows' \in [FileIds -> RowType] /\ fileRows'[f] = NoRow
        /\ \A g \in FileIds \ {f} : fileRows'[g] = fileRows[g]
    BY <1>1, <1>3, RowRemoved DEF SharedTyped, Gone, UnderwayPut, Underway
  <1>5. SharedTyped'
    BY <1>1, <1>3, <1>4 DEF SharedTyped
  <1>6. \A g \in FileIds \ {f} : Untouched(g)
    BY <1>3, <1>4 DEF Untouched
  <1>7. Gone(f)'
    BY <1>1, <1>3, <1>4 DEF Gone, NoRow, UnderwayPut, Underway
  <1>8. Frame({f}, {})
    <2>1. ~Underway(f)'
      BY <1>4 DEF Underway, NoRow
    <2> QED BY <1>3, <1>6, <1>7, <2>1, FrameOf
  <1>9. RowSound(f)'
    BY <1>1, <1>3, <1>4, <1>7 DEF FileInv, RowsSound, RowSound, Gone, UnderwayPut, Underway, NoRow
  <1>10. RowsSound'
    BY <1>3, <1>6, <1>9, RowStays DEF RowsSound
  <1>11. RequestMayTouch(r, {f}, {}) /\ TombstonesStay
    BY <1>2, <1>3 DEF UnderwayPut, UnderwayOutput, Underway, Gone, RequestMayTouch, TombstonesStay
  <1> QED BY <1>1, <1>3, <1>5, <1>8, <1>10, <1>11, RequestEnding

\* PrepareSessionDeletion hides the outputs and the resources, all of them ready.
LEMMA PrepareDeletionStep ==
    ASSUME FileInv, NEW r \in ApiRequests, PrepareDeletion(r)
    PROVE  FileInv'
  <1> DEFINE own == {f \in ReadyFiles : attached[f] # "none" \/ fileRows[f].kind = "output"}
  <1>1. /\ SharedTyped /\ request[r] = NoRequest /\ RequestSound(r) /\ Serving /\ RowsSound
        /\ UNCHANGED <<mounted, leftover, boxOutput, written, attempt, startup, issued, blobs, pinned>>
        /\ request \in [ApiRequests -> RequestType] /\ issued \in Nat /\ closing'
        /\ fileRows' = SetState(own, "deleting") /\ RequestAt(r, "purge")
        /\ attached' = [f \in FileIds |-> IF attached[f] = "active" THEN "deleting" ELSE attached[f]]
    BY DEF FileInv, FileTyped, SharedTyped, PrepareDeletion, RequestStep, RequestSound
  <1>2. /\ fileRows' \in [FileIds -> RowType]
        /\ \A f \in FileIds : fileRows'[f].st = IF f \in own THEN "deleting" ELSE fileRows[f].st
        /\ \A f \in FileIds \ own : fileRows'[f] = fileRows[f]
        /\ \A f \in FileIds : fileRows'[f].kind = fileRows[f].kind
    BY <1>1, StatesSet DEF SharedTyped
  <1>3. \A f \in own : fileRows[f].st = "ready" /\ f \in 1..issued /\ f \notin pinned
    <2>1. ASSUME NEW f \in own PROVE fileRows[f].st = "ready" /\ f \in 1..issued /\ f \notin pinned
      <3>1. f \in FileIds /\ fileRows[f].st = "ready" /\ f \in Nat \ {0} /\ RowSound(f)
        BY <1>1, FileStoreAssumption DEF ReadyFiles, FileIds, RowsSound
      <3>2. attached[f] = "active" \/ fileRows[f].kind = "output"
        BY <1>1, <3>1 DEF RowSound, Gone, SharedTyped
      <3> QED BY <1>1, <3>1, <3>2 DEF RowSound, NoRow
    <2> QED BY <2>1
  <1>4. SharedTyped'
    BY <1>1, <1>2 DEF SharedTyped
  <1>5. ASSUME NEW f \in FileIds, attached[f] = "active"
        PROVE  f \in own
    BY <1>1, <1>5 DEF RowsSound, RowSound, ReadyFiles
  <1>6. \A f \in FileIds \ own : Untouched(f)
    BY <1>1, <1>2, <1>5 DEF Untouched
  <1>7. PICK mine : mine = own
    OBVIOUS
  <1>8. Frame(mine, {})
    <2>1. \A f \in mine : ~Gone(f) /\ ~Underway(f) /\ ~Underway(f)'
      <3>1. mine \subseteq FileIds
        BY <1>7 DEF ReadyFiles
      <3> QED BY <1>2, <1>3, <1>7, <3>1 DEF Gone, Underway
    <2>2. \A f \in FileIds \ (mine \cup {}) : Untouched(f)
      BY <1>6, <1>7
    <2> HIDE DEF own
    <2> QED BY <1>1, <2>1, <2>2, FrameOf
  <1>9. ASSUME NEW f \in FileIds PROVE RowSound(f)'
    <2>1. CASE f \notin own
      BY <1>1, <1>6, <2>1, RowStays
    <2>2. CASE f \in own
      BY <1>1, <1>2, <1>3, <1>5, <2>2 DEF RowSound, Gone
    <2> QED BY <2>1, <2>2
  <1>10. RowsSound'
    BY <1>9 DEF RowsSound
  <1>11. PICK k \in RequestType : /\ request' = [request EXCEPT ![r] = k]
                                  /\ k.pc = "purge" /\ k.file = request[r].file
                                        /\ k.todo = request[r].todo
    BY <1>1, RequestAdvances
  <1>12. RequestSound(r)'
    <2>1. request'[r] = k /\ k.file = 0 /\ k.todo = {}
      BY <1>1, <1>11 DEF NoRequest
    <2> QED BY <1>1, <1>11, <2>1 DEF RequestSound, Serving
  <1>13. RequestTurns(r, k) /\ RequestMayTouch(r, mine, {}) /\ RequestMayName(r, k) /\ TombstonesStay
    BY <1>1, <1>3, <1>7, <1>11
       DEF RequestTurns, RequestMayTouch, RequestMayName, TombstonesStay, Underway, UnderwayOutput
  <1> QED BY <1>4, <1>8, <1>10, <1>12, <1>13, RequestMoves

\* CleanupSession lists what is hidden and the unfinished outputs: the closed Session
\* refuses to complete those.
LEMMA ListGarbageStep ==
    ASSUME FileInv, NEW r \in ApiRequests, ListGarbage(r)
    PROVE  FileInv'
  <1> DEFINE garbage == Outputs({"uploading", "deleting"})
        \cup {f \in FileIds : attached[f] = "deleting"}
  <1>1. /\ SharedTyped /\ request[r].pc = "purge" /\ request[r] \in RequestType /\ RequestSound(r)
        /\ UNCHANGED <<mounted, leftover, boxOutput, written, attempt, startup>> /\ Serving
        /\ request \in [ApiRequests -> RequestType] /\ issued \in Nat
        /\ 1..issued \subseteq FileIds
    BY RequestContext DEF ListGarbage
  <1>2. /\ UNCHANGED <<fileRows, issued, blobs, attached, pinned, closing>>
        /\ request' = [request EXCEPT ![r].pc = "purgeblob", ![r].todo = garbage]
        /\ closing /\ request[r].file = 0
    BY <1>1 DEF ListGarbage, RequestSound
  <1>3. PICK k \in RequestType : /\ request' = [request EXCEPT ![r] = k]
                                 /\ k.pc = "purgeblob" /\ k.file = 0 /\ k.todo = garbage
    <2>1. garbage \in SUBSET FileIds
      BY DEF Outputs
    <2> HIDE DEF garbage
    <2>2. [request[r] EXCEPT !.pc = "purgeblob", !.todo = garbage] \in RequestType
      BY <1>1, <2>1 DEF RequestType
    <2>3. request' = [request EXCEPT ![r] = [request[r] EXCEPT !.pc = "purgeblob", !.todo = garbage]]
      BY <1>1, <1>2
    <2>4. /\ [request[r] EXCEPT !.pc = "purgeblob", !.todo = garbage].pc = "purgeblob"
          /\ [request[r] EXCEPT !.pc = "purgeblob", !.todo = garbage].file = 0
          /\ [request[r] EXCEPT !.pc = "purgeblob", !.todo = garbage].todo = garbage
      BY <1>1, <1>2 DEF RequestType
    <2> QED BY <2>2, <2>3, <2>4
  <1>4. ASSUME NEW g \in garbage PROVE Gone(g) \/ UnderwayOutput(g)
    <2>1. g \in FileIds /\ RowSound(g) /\ g \in Nat \ {0}
      BY FileStoreAssumption DEF Outputs, FileInv, RowsSound, FileIds
    <2> QED BY <1>1, <2>1 DEF RowSound, Outputs, Gone, UnderwayOutput, Underway, NoRow
  <1>5. \A f \in FileIds : Untouched(f)
    BY <1>2 DEF Untouched
  <1>6. SharedTyped' /\ RowsSound' /\ Frame({}, {})
    <2>1. SharedTyped'
      BY <1>1, <1>2 DEF SharedTyped
    <2>2. RowsSound'
      BY <1>2, <1>5, RowStays DEF RowsSound
    <2>3. Frame({}, {})
      BY <1>2, <1>5, FrameOf
    <2> QED BY <2>1, <2>2, <2>3
  <1>7. RequestSound(r)'
    <2>1. request'[r] = k
      BY <1>1, <1>3
    <2>2. \A g \in garbage : Gone(g)' \/ (UnderwayOutput(g) /\ closing)'
      BY <1>2, <1>4 DEF Gone, UnderwayOutput, Underway
    <2> HIDE DEF garbage
    <2> QED BY <1>1, <1>2, <1>3, <2>1, <2>2 DEF RequestSound, Serving
  <1>8. RequestTurns(r, k) /\ RequestMayTouch(r, {}, {}) /\ RequestMayName(r, k) /\ TombstonesStay
    BY <1>1, <1>2, <1>3 DEF RequestTurns, RequestMayTouch, RequestMayName, TombstonesStay
  <1> QED BY <1>6, <1>7, <1>8, RequestMoves

\* It removes an object of the listing.
LEMMA PurgeBlobStep ==
    ASSUME FileInv, NEW r \in ApiRequests, PurgeBlob(r)
    PROVE  FileInv'
  <1>1. /\ SharedTyped /\ request[r].pc = "purgeblob" /\ request[r] \in RequestType /\ RequestSound(r)
        /\ UNCHANGED <<mounted, leftover, boxOutput, written, attempt, startup>> /\ Serving
        /\ request \in [ApiRequests -> RequestType] /\ issued \in Nat
        /\ 1..issued \subseteq FileIds
    BY RequestContext DEF PurgeBlob
  <1>2. /\ UNCHANGED <<fileRows, issued, attached, pinned, closing>>
        /\ closing /\ request[r].file = 0 /\ request[r].todo \in SUBSET FileIds
    BY <1>1 DEF PurgeBlob, RequestSound, RequestType
  <1>3. CASE request[r].todo = {}
    <2>1. RequestEnds(r) /\ UNCHANGED blobs
      BY <1>3 DEF PurgeBlob
    <2>2. \A g \in FileIds : Untouched(g)
      BY <1>2, <2>1 DEF Untouched
    <2>3. SharedTyped'
      BY <1>1, <1>2, <2>1 DEF SharedTyped
    <2>4. RowsSound'
      BY <1>2, <2>2, RowStays DEF RowsSound
    <2>5. Frame({}, {})
      BY <1>2, <2>2, FrameOf
    <2>6. RequestMayTouch(r, {}, {}) /\ TombstonesStay
      BY <1>2 DEF RequestMayTouch, TombstonesStay
    <2> QED BY <1>1, <2>1, <2>3, <2>4, <2>5, <2>6, RequestEnding
  <1>4. CASE request[r].todo # {}
    <2>1. PICK f \in FileIds : f = Min(request[r].todo) /\ f \in request[r].todo
      BY <1>2, <1>4, LeastFile
    <2>2. /\ blobs' = blobs \ {f} /\ RequestAt(r, "purgerow")
          /\ (Gone(f) \/ UnderwayOutput(f)) /\ f \in 1..issued
      BY <1>1, <1>4, <2>1 DEF PurgeBlob, RequestSound, Gone, UnderwayOutput, Underway
    <2>3. PICK k \in RequestType : /\ request' = [request EXCEPT ![r] = k]
                                   /\ k.pc = "purgerow" /\ k.file = request[r].file
                                   /\ k.todo = request[r].todo
      BY <2>2, RequestAdvances
    <2>4. SharedTyped'
      BY <1>1, <1>2, <2>2 DEF SharedTyped
    <2>5. \A g \in FileIds \ {f} : Untouched(g)
      BY <1>2, <2>2 DEF Untouched
    <2>6. Frame({f}, {})
      BY <1>2, <2>5, FrameOf DEF Gone, Underway
    <2>7. RowSound(f)'
      BY <1>2, <2>2 DEF FileInv, RowsSound, RowSound, Gone, UnderwayOutput, Underway
    <2>8. RowsSound'
      BY <1>2, <2>5, <2>7, RowStays DEF RowsSound
    <2>9. RequestSound(r)'
      <3>1. request'[r] = k
        BY <1>1, <2>3
      <3>2. \A g \in k.todo : Gone(g)' \/ (UnderwayOutput(g) /\ closing)'
        BY <1>1, <1>2, <2>3 DEF RequestSound, Gone, UnderwayOutput, Underway
      <3> QED BY <1>1, <1>2, <1>4, <2>3, <3>1, <3>2 DEF RequestSound, Serving
    <2>10. /\ RequestTurns(r, k) /\ RequestMayTouch(r, {f}, {})
           /\ RequestMayName(r, k) /\ TombstonesStay
      BY <1>1, <1>2, <2>2, <2>3
         DEF RequestTurns, RequestMayTouch, RequestMayName, TombstonesStay, Gone, UnderwayOutput,
             Underway
    <2> QED BY <2>4, <2>6, <2>8, <2>9, <2>10, RequestMoves
  <1> QED BY <1>3, <1>4

\* Then the row, and the tombstone with it.
LEMMA PurgeRowStep ==
    ASSUME FileInv, NEW r \in ApiRequests, PurgeRow(r)
    PROVE  FileInv'
  <1>1. /\ SharedTyped /\ request[r].pc = "purgerow" /\ request[r] \in RequestType /\ RequestSound(r)
        /\ UNCHANGED <<mounted, leftover, boxOutput, written, attempt, startup>> /\ Serving
        /\ request \in [ApiRequests -> RequestType] /\ issued \in Nat
        /\ 1..issued \subseteq FileIds
    BY RequestContext DEF PurgeRow
  <1>2. /\ closing /\ request[r].file = 0 /\ request[r].todo \in SUBSET FileIds
        /\ request[r].todo # {}
    BY <1>1 DEF RequestSound, RequestType
  <1>3. PICK f \in FileIds : f = Min(request[r].todo) /\ f \in request[r].todo
    BY <1>2, LeastFile
  <1>4. /\ UNCHANGED <<issued, blobs, pinned, closing>> /\ RemoveIncomplete(f)
        /\ attached' = [attached EXCEPT ![f] = "none"]
        /\ request' = [request EXCEPT ![r].pc = "purgeblob", ![r].todo = @ \ {f}]
        /\ (Gone(f) \/ UnderwayOutput(f)) /\ f \in 1..issued
    BY <1>1, <1>3 DEF PurgeRow, RequestSound, Gone, UnderwayOutput, Underway
  <1>5. PICK k \in RequestType : /\ request' = [request EXCEPT ![r] = k]
                                 /\ k.pc = "purgeblob" /\ k.file = 0
                                 /\ k.todo = request[r].todo \ {f}
    <2> DEFINE k == [request[r] EXCEPT !.pc = "purgeblob", !.todo = request[r].todo \ {f}]
    <2>1. request' = [request EXCEPT ![r] = k]
      BY <1>1, <1>4
    <2>2. k \in RequestType /\ k.pc = "purgeblob" /\ k.file = 0 /\ k.todo = request[r].todo \ {f}
      BY <1>1, <1>2 DEF RequestType
    <2> HIDE DEF k
    <2> QED BY <2>1, <2>2
  <1>6. /\ fileRows' \in [FileIds -> RowType] /\ fileRows'[f] = NoRow
        /\ \A g \in FileIds \ {f} : fileRows'[g] = fileRows[g]
    BY <1>1, <1>4, RowRemoved DEF SharedTyped, Gone, UnderwayOutput, Underway
  <1>7. /\ attached' \in [FileIds -> {"none", "active", "deleting"}] /\ attached'[f] = "none"
        /\ \A g \in FileIds \ {f} : attached'[g] = attached[g]
    BY <1>1, <1>4 DEF SharedTyped
  <1>8. SharedTyped'
    BY <1>1, <1>4, <1>6, <1>7 DEF SharedTyped
  <1>9. \A g \in FileIds \ {f} : Untouched(g)
    BY <1>4, <1>6, <1>7 DEF Untouched
  <1>10. Gone(f)' /\ ~Underway(f)'
    BY <1>4, <1>6 DEF Gone, NoRow, Underway
  <1>11. Frame({f}, {})
    BY <1>4, <1>9, <1>10, FrameOf
  <1>12. RowSound(f)'
    BY <1>4, <1>6, <1>7 DEF FileInv, RowsSound, RowSound, Gone, UnderwayOutput, Underway, NoRow
  <1>13. RowsSound'
    BY <1>4, <1>9, <1>12, RowStays DEF RowsSound
  <1>14. RequestSound(r)'
    <2>1. request'[r] = k
      BY <1>1, <1>5
    <2>2. \A g \in k.todo : Gone(g)' \/ (UnderwayOutput(g) /\ closing)'
      <3>1. SUFFICES ASSUME NEW g \in k.todo PROVE Gone(g)' \/ (UnderwayOutput(g) /\ closing)'
        OBVIOUS
      <3>2. Untouched(g) /\ (Gone(g) \/ UnderwayOutput(g))
        BY <1>1, <1>5, <1>9, <3>1 DEF RequestSound, RequestType
      <3> QED BY <1>2, <1>4, <3>2 DEF Untouched, Gone, UnderwayOutput, Underway
    <2> QED BY <1>1, <1>2, <1>4, <1>5, <2>1, <2>2 DEF RequestSound, Serving
  <1>15. /\ RequestTurns(r, k) /\ RequestMayTouch(r, {f}, {})
         /\ RequestMayName(r, k) /\ TombstonesStay
    BY <1>1, <1>2, <1>4, <1>5
       DEF RequestTurns, RequestMayTouch, RequestMayName, TombstonesStay, Gone, UnderwayOutput, Underway
  <1> QED BY <1>8, <1>11, <1>13, <1>14, <1>15, RequestMoves

\* A step of neither a request nor an attempt keeps the invariant within its frame.
LEMMA StoreMoves ==
    ASSUME FileInv, NEW drop, Frame(drop, {}), UNCHANGED <<attempt, mounted, leftover>>,
           SharedTyped', RowsSound', StartupSound', TombstonesStay,
           request' \in [ApiRequests -> RequestType],
           startup' \in [pc : {"serving", "blob", "row"}, todo : SUBSET FileIds],
           \A r \in ApiRequests : RequestSound(r)', RequestsApart',
           \A f \in drop : Underway(f) => Abandoned(f)
    PROVE  FileInv'
  <1>1. FileTyped' /\ attempt \in [WorkerAttempts -> AttemptType]
    BY DEF FileInv, FileTyped
  <1>2. ASSUME NEW b \in WorkerAttempts PROVE AttemptSound(b)'
    <2>1. \A a \in WorkerAttempts : Publishing(a)' =>
             (Publishing(a) /\ attempt'[a].file = attempt[a].file) \/ attempt'[a].file > issued
      BY DEF Publishing
    <2>2. Publishing(b) /\ Underway(attempt[b].file) =>
             attempt[b].file \notin {} /\ (attempt[b].file \in drop => closing')
      BY DEF Abandoned
    <2> QED BY <2>1, <2>2, AttemptStays
  <1>3. PublishersApart'
    BY DEF FileInv, PublishersApart, Publishing
  <1>4. MountSound' /\ StaleMountsAreLeftovers'
    <2>1. MountSound /\ StaleMountsAreLeftovers /\ mounted \subseteq FileIds
      BY DEF FileInv, FileTyped, SharedTyped
    <2>2. closing => closing'
      BY DEF Frame, Gone, Underway, Untouched
    <2>3. \A f : Watched(f) => Watched(f)'
      BY <2>2 DEF Watched
    <2>4. MountSound'
      BY <2>1, <2>3 DEF MountSound
    <2>5. StaleMountsAreLeftovers'
      BY <2>1, <2>2 DEF StaleMountsAreLeftovers, MountIsWatched, TombstonesStay
    <2> QED BY <2>4, <2>5
  <1> QED BY <1>1, <1>2, <1>3, <1>4 DEF FileInv

\* Only a ready Skill version is pinned; pins and the tools leave the files alone.
LEMMA PinsStep ==
    ASSUME FileInv,
           (\E f \in FileIds : PinVersion(f) \/ Unpin(f)) \/ WriteOutput
    PROVE  FileInv'
  <1>1. /\ UNCHANGED <<fileRows, issued, blobs, attached, mounted, leftover, closing, request, attempt, startup>>
        /\ SharedTyped /\ RowsSound /\ request \in [ApiRequests -> RequestType]
        /\ startup \in [pc : {"serving", "blob", "row"}, todo : SUBSET FileIds]
    BY DEF PinVersion, Unpin, WriteOutput, FileInv, FileTyped
  <1>2. SharedTyped' /\ RowsSound'
    <2>1. CASE \E f \in FileIds : PinVersion(f)
      <3>1. PICK f \in FileIds : PinVersion(f)
        BY <2>1
      <3>2. /\ pinned' = pinned \cup {f} /\ fileRows[f].kind = "skill" /\ fileRows[f].st = "ready"
            /\ UNCHANGED <<boxOutput, written>>
        BY <3>1 DEF PinVersion
      <3>3. SharedTyped'
        BY <1>1, <3>2 DEF SharedTyped
      <3>4. ASSUME NEW g \in FileIds PROVE RowSound(g)'
        BY <1>1, <3>2 DEF RowsSound, RowSound, Gone
      <3> QED BY <3>3, <3>4 DEF RowsSound
    <2>2. CASE \E f \in FileIds : Unpin(f)
      <3>1. PICK f \in FileIds : Unpin(f)
        BY <2>2
      <3>2. pinned' = pinned \ {f} /\ UNCHANGED <<boxOutput, written>>
        BY <3>1 DEF Unpin
      <3>3. SharedTyped'
        BY <1>1, <3>2 DEF SharedTyped
      <3>4. ASSUME NEW g \in FileIds PROVE RowSound(g)'
        BY <1>1, <3>2 DEF RowsSound, RowSound, Gone
      <3> QED BY <3>3, <3>4 DEF RowsSound
    <2>3. CASE WriteOutput
      <3>1. UNCHANGED pinned /\ written' \in Nat /\ boxOutput' \in Nat
        BY <1>1, <2>3 DEF WriteOutput, SharedTyped
      <3>2. SharedTyped'
        BY <1>1, <3>1 DEF SharedTyped
      <3>3. ASSUME NEW g \in FileIds PROVE RowSound(g)'
        BY <1>1, <3>1 DEF RowsSound, RowSound, Gone
      <3> QED BY <3>2, <3>3 DEF RowsSound
    <2> QED BY <2>1, <2>2, <2>3
  <1>3. Frame({}, {})
    BY <1>1, FrameOf DEF Untouched
  <1>4. ASSUME NEW r \in ApiRequests PROVE RequestSound(r)'
    BY <1>1, <1>3, RequestStays
  <1>5. RequestsApart'
    BY <1>1 DEF FileInv, RequestsApart, Underway
  <1>6. StartupSound'
    BY <1>1 DEF FileInv, StartupSound, Serving, Gone, Abandoned, Underway, Publishing
  <1>7. TombstonesStay
    BY <1>1 DEF TombstonesStay
  <1> QED BY <1>1, <1>2, <1>3, <1>4, <1>5, <1>6, <1>7, StoreMoves

\* With no request under way there is nothing to rely on.
LEMMA NoRequestsSound ==
    ASSUME request' = [r \in ApiRequests |-> NoRequest]
    PROVE  /\ request' \in [ApiRequests -> RequestType] /\ RequestsApart'
           /\ \A r \in ApiRequests : RequestSound(r)'
  <1>1. NoRequest \in RequestType /\ NoRequest = [pc |-> "idle", file |-> 0, todo |-> {}]
    BY DEF NoRequest, RequestType
  <1>2. request' \in [ApiRequests -> RequestType] /\ \A r \in ApiRequests : request'[r] = NoRequest
    BY <1>1
  <1>3. RequestsApart'
    BY <1>1, <1>2 DEF RequestsApart, Underway
  <1>4. ASSUME NEW r \in ApiRequests PROVE RequestSound(r)'
    BY <1>1, <1>2 DEF RequestSound
  <1> QED BY <1>2, <1>3, <1>4

\* A restart forgets the requests; with no attempt publishing, every unfinished row is
\* abandoned and may be reconciled.
LEMMA RestartApiStep ==
    ASSUME FileInv, QuietRestarts = TRUE, RestartApi
    PROVE  FileInv'
  <1>1. /\ UNCHANGED <<fileRows, issued, blobs, attached, pinned, mounted, leftover, boxOutput, written, closing,
          attempt>>
        /\ SharedTyped /\ RowsSound /\ \A a \in WorkerAttempts : ~Publishing(a)
        /\ request' = [r \in ApiRequests |-> NoRequest] /\ startup'
            = [pc |-> "blob", todo |-> Incomplete]
    BY DEF RestartApi, FileInv, FileTyped
  <1>2. SharedTyped' /\ RowsSound' /\ Frame({}, {}) /\ TombstonesStay
    <2>1. SharedTyped'
      BY <1>1 DEF SharedTyped
    <2>2. ASSUME NEW g \in FileIds PROVE RowSound(g)'
      BY <1>1 DEF RowsSound, RowSound, Gone
    <2>3. Frame({}, {})
      BY <1>1, FrameOf DEF Untouched
    <2>4. TombstonesStay
      BY <1>1 DEF TombstonesStay
    <2> QED BY <2>1, <2>2, <2>3, <2>4 DEF RowsSound
  <1>3. StartupSound'
    <2>1. ASSUME NEW g \in Incomplete PROVE Gone(g)' \/ Abandoned(g)'
      <3>1. g \in FileIds /\ RowSound(g) /\ g \in Nat \ {0} /\ issued \in Nat
        BY <1>1, FileStoreAssumption DEF Incomplete, RowsSound, FileIds, SharedTyped
      <3>2. g \in 1..issued
        BY <3>1 DEF RowSound, NoRow, Incomplete
      <3> QED BY <1>1, <3>2 DEF Incomplete, Gone, Abandoned, Underway, Publishing
    <2> QED BY <1>1, <2>1 DEF StartupSound, Serving
  <1>4. startup' \in [pc : {"serving", "blob", "row"}, todo : SUBSET FileIds]
    BY <1>1 DEF Incomplete
  <1> QED BY <1>1, <1>2, <1>3, <1>4, NoRequestsSound, StoreMoves

\* While the API reconciles, no request is under way.
LEMMA ReconcilingAlone ==
    ASSUME FileInv, ~Serving
    PROVE  request = [r \in ApiRequests |-> NoRequest]
  <1>1. \A r \in ApiRequests : request[r] = NoRequest
    BY DEF FileInv, RequestSound
  <1> QED BY <1>1 DEF FileInv, FileTyped

\* Reconcile removes the object of an abandoned row.
LEMMA ReconcileBlobStep ==
    ASSUME FileInv, ReconcileBlob
    PROVE  FileInv'
  <1>1. /\ UNCHANGED <<fileRows, issued, attached, pinned, mounted, leftover, boxOutput, written, closing,
          request, attempt>>
        /\ SharedTyped /\ RowsSound /\ startup.pc = "blob" /\ StartupSound /\ issued \in Nat
        /\ startup \in [pc : {"serving", "blob", "row"}, todo : SUBSET FileIds]
    BY DEF ReconcileBlob, FileInv, FileTyped, SharedTyped
  <1>2. request' = [r \in ApiRequests |-> NoRequest]
    BY <1>1, ReconcilingAlone DEF Serving
  <1>3. CASE startup.todo = {}
    <2>1. startup' = NoStartup /\ UNCHANGED blobs
      BY <1>3 DEF ReconcileBlob
    <2>2. SharedTyped'
      BY <1>1, <2>1 DEF SharedTyped
    <2>3. ASSUME NEW g \in FileIds PROVE RowSound(g)'
      BY <1>1, <2>1 DEF RowsSound, RowSound, Gone
    <2>4. Frame({}, {})
      BY <1>1, <2>1, FrameOf DEF Untouched
    <2>5. TombstonesStay
      BY <1>1 DEF TombstonesStay
    <2>6. StartupSound' /\ startup' \in [pc : {"serving", "blob", "row"}, todo : SUBSET FileIds]
      BY <2>1 DEF StartupSound, NoStartup
    <2>7. RowsSound'
      BY <2>3 DEF RowsSound
    <2> QED BY <1>1, <1>2, <2>2, <2>4, <2>5, <2>6, <2>7, NoRequestsSound, StoreMoves
  <1>4. CASE startup.todo # {}
    <2>1. PICK f \in FileIds : f = Min(startup.todo) /\ f \in startup.todo
      BY <1>1, <1>4, LeastFile
    <2>2. /\ blobs' = blobs \ {f} /\ startup' = [startup EXCEPT !.pc = "row"]
          /\ (Gone(f) \/ Abandoned(f)) /\ f \in 1..issued
      BY <1>1, <1>4, <2>1 DEF ReconcileBlob, StartupSound, Gone, Abandoned, Underway
    <2>3. SharedTyped'
      BY <1>1, <2>2 DEF SharedTyped
    <2>4. \A g \in FileIds \ {f} : Untouched(g)
      BY <1>1, <2>2 DEF Untouched
    <2>5. Frame({f}, {})
      BY <1>1, <2>4, FrameOf DEF Gone, Underway
    <2>6. RowSound(f)'
      BY <1>1, <2>2 DEF RowsSound, RowSound, Gone, Abandoned, Underway
    <2>7. RowsSound'
      BY <1>1, <2>4, <2>6, RowStays DEF RowsSound
    <2>8. /\ startup' \in [pc : {"serving", "blob", "row"}, todo : SUBSET FileIds]
          /\ startup'.pc = "row" /\ startup'.todo = startup.todo
      BY <1>1, <2>2
    <2>9. StartupSound'
      BY <1>1, <1>4, <2>8 DEF StartupSound, Serving, Gone, Abandoned, Underway, Publishing
    <2>10. TombstonesStay
      BY <1>1 DEF TombstonesStay
    <2>11. \A g \in {f} : Underway(g) => Abandoned(g)
      BY <2>2 DEF Gone, Underway
    <2> QED BY <1>1, <1>2, <2>3, <2>5, <2>7, <2>8, <2>9, <2>10, <2>11, NoRequestsSound, StoreMoves
  <1> QED BY <1>3, <1>4

\* Then the row.
LEMMA ReconcileRowStep ==
    ASSUME FileInv, ReconcileRow
    PROVE  FileInv'
  <1>1. /\ UNCHANGED <<blobs, issued, attached, pinned, mounted, leftover, boxOutput, written, closing, request,
          attempt>>
        /\ SharedTyped /\ RowsSound /\ startup.pc = "row" /\ StartupSound /\ issued \in Nat
        /\ startup \in [pc : {"serving", "blob", "row"}, todo : SUBSET FileIds]
    BY DEF ReconcileRow, FileInv, FileTyped, SharedTyped
  <1>2. request' = [r \in ApiRequests |-> NoRequest]
    BY <1>1, ReconcilingAlone DEF Serving
  <1>3. PICK f \in FileIds : f = Min(startup.todo) /\ f \in startup.todo
    BY <1>1, LeastFile DEF StartupSound
  <1>4. /\ RemoveIncomplete(f) /\ startup' = [pc |-> "blob", todo |-> startup.todo \ {f}]
        /\ (Gone(f) \/ Abandoned(f)) /\ f \in 1..issued
    BY <1>1, <1>3 DEF ReconcileRow, StartupSound, Gone, Abandoned, Underway
  <1>5. /\ fileRows' \in [FileIds -> RowType] /\ fileRows'[f] = NoRow
        /\ \A g \in FileIds \ {f} : fileRows'[g] = fileRows[g]
    BY <1>1, <1>4, RowRemoved DEF SharedTyped, Gone, Abandoned, Underway
  <1>6. SharedTyped'
    BY <1>1, <1>5 DEF SharedTyped
  <1>7. \A g \in FileIds \ {f} : Untouched(g)
    BY <1>1, <1>5 DEF Untouched
  <1>8. Gone(f)' /\ ~Underway(f)'
    BY <1>1, <1>4, <1>5 DEF Gone, NoRow, Underway
  <1>9. Frame({f}, {})
    BY <1>1, <1>7, <1>8, FrameOf
  <1>10. RowSound(f)'
    BY <1>1, <1>4, <1>5, <1>8 DEF RowsSound, RowSound, Gone, Abandoned, Underway, NoRow
  <1>11. RowsSound'
    BY <1>1, <1>7, <1>10, RowStays DEF RowsSound
  <1>12. startup' \in [pc : {"serving", "blob", "row"}, todo : SUBSET FileIds]
    BY <1>1, <1>4
  <1>13. StartupSound'
    <2>1. ASSUME NEW g \in startup.todo \ {f} PROVE Gone(g)' \/ Abandoned(g)'
      <3>1. Untouched(g) /\ (Gone(g) \/ Abandoned(g))
        BY <1>1, <1>7, <2>1 DEF StartupSound
      <3> QED BY <1>1, <3>1 DEF Untouched, Gone, Abandoned, Underway, Publishing
    <2> QED BY <1>4, <2>1 DEF StartupSound, Serving
  <1>14. TombstonesStay
    BY <1>1 DEF TombstonesStay
  <1>15. \A g \in {f} : Underway(g) => Abandoned(g)
    BY <1>4 DEF Gone, Underway
  <1> QED BY <1>1, <1>2, <1>6, <1>9, <1>11, <1>12, <1>13, <1>14, <1>15, NoRequestsSound, StoreMoves

\* What an attempt knows, and what it leaves alone.
LEMMA AttemptContext ==
    ASSUME FileInv, NEW a \in WorkerAttempts, NEW pc, AttemptStep(a, pc)
    PROVE  /\ SharedTyped /\ RowsSound /\ attempt[a].pc = pc /\ attempt[a] \in AttemptType
           /\ AttemptSound(a) /\ UNCHANGED <<pinned, written, closing, request, startup>>
           /\ attempt \in [WorkerAttempts -> AttemptType] /\ issued \in Nat
           /\ 1..issued \subseteq FileIds
  BY FileStoreAssumption DEF FileInv, FileTyped, SharedTyped, AttemptStep, FileIds

\* An attempt that goes on keeps its file, its content and its listing.
LEMMA AttemptAdvances ==
    ASSUME FileInv, NEW a \in WorkerAttempts,
           NEW pc \in {"idle", "sweepblob", "sweeprow", "begin", "put", "complete", "import", "recheck",
                       "dropblob", "droprow", "finalize"},
           AttemptAt(a, pc)
    PROVE  \E k \in AttemptType : /\ attempt' = [attempt EXCEPT ![a] = k]
                                  /\ k.pc = pc /\ k.file = attempt[a].file
                                  /\ k.content = attempt[a].content /\ k.todo = attempt[a].todo
  <1> DEFINE k == [attempt[a] EXCEPT !.pc = pc]
  <1>1. attempt[a] \in AttemptType /\ attempt' = [attempt EXCEPT ![a] = k]
    BY DEF AttemptAt, FileInv, FileTyped
  <1>2. k \in AttemptType /\ k.pc = pc /\ k.file = attempt[a].file
        /\ k.content = attempt[a].content /\ k.todo = attempt[a].todo
    BY <1>1 DEF AttemptType
  <1> HIDE DEF k
  <1> QED BY <1>1, <1>2

\* No attempt is under way.
LEMMA NoAttemptFits == NoAttempt \in AttemptType /\ NoAttempt.pc = "idle" /\ NoAttempt.todo = {}
  BY DEF NoAttempt, AttemptType

\* An attempt that ends within its frame keeps the invariant.
LEMMA AttemptEnding ==
    ASSUME FileInv, NEW drop, NEW done, Frame(drop, done),
           NEW a \in WorkerAttempts, AttemptEnds(a),
           UNCHANGED <<request, startup, closing>>, AttemptMayTouch(a, drop, done),
           SharedTyped', RowsSound', MountSound', StaleMountsAreLeftovers'
    PROVE  FileInv'
  <1>1. PICK k \in AttemptType : k = NoAttempt /\ k.pc = "idle" /\ k.todo = {}
    BY NoAttemptFits
  <1>2. attempt' = [attempt EXCEPT ![a] = k] /\ attempt'[a] = k
    BY <1>1 DEF AttemptEnds, FileInv, FileTyped
  <1>3. AttemptSound(a)'
    BY <1>1, <1>2 DEF AttemptSound, Publishing
  <1>4. AttemptTurns(a, k)
    BY <1>1, <1>2 DEF AttemptTurns
  <1> QED BY <1>3, <1>4, AttemptMoves

\* An attempt that ends elsewhere than at the recheck leaves the mounts sound.
LEMMA MountsStayAtEnd ==
    ASSUME FileInv, NEW a \in WorkerAttempts, AttemptEnds(a),
           UNCHANGED <<mounted, leftover, attached, closing>>, attempt[a].pc # "recheck"
    PROVE  MountSound' /\ StaleMountsAreLeftovers'
  <1>1. PICK k \in AttemptType : k = NoAttempt /\ k.pc = "idle"
    BY NoAttemptFits
  <1>2. attempt' = [attempt EXCEPT ![a] = k]
    BY <1>1 DEF AttemptEnds
  <1> QED BY <1>1, <1>2, MountsStay

\* PrepareSessionOutputSnapshot hides visible outputs, which nobody pins or mounts.
LEMMA PrepareSnapshotStep ==
    ASSUME FileInv, NEW a \in WorkerAttempts, PrepareSnapshot(a)
    PROVE  FileInv'
  <1>1. /\ SharedTyped /\ RowsSound /\ attempt[a].pc = "idle" /\ attempt[a] \in AttemptType
        /\ AttemptSound(a) /\ UNCHANGED <<pinned, written, closing, request, startup>>
        /\ attempt \in [WorkerAttempts -> AttemptType] /\ issued \in Nat
        /\ 1..issued \subseteq FileIds
    BY AttemptContext DEF PrepareSnapshot
  <1>2. PICK gone : gone = IF boxOutput = 0 THEN Outputs({"ready"}) ELSE {}
    OBVIOUS
  <1>3. /\ UNCHANGED <<issued, blobs, attached, mounted, leftover, boxOutput>>
        /\ fileRows' = SetState(gone, "deleting")
        /\ attempt' = [attempt EXCEPT ![a] =
                         [pc |-> "sweepblob", file |-> 0, content |-> boxOutput,
                          todo |-> gone \cup Outputs({"deleting"})]]
    BY <1>2 DEF PrepareSnapshot
  <1>4. \A f \in gone : f \in FileIds /\ fileRows[f].st = "ready" /\ fileRows[f].kind = "output"
    BY <1>2 DEF Outputs
  <1>5. \A f \in gone : f \in 1..issued /\ f \notin pinned /\ attached[f] = "none" /\ f \in blobs
    <2>1. ASSUME NEW f \in gone
          PROVE f \in 1..issued /\ f \notin pinned /\ attached[f] = "none" /\ f \in blobs
      <3>1. f \in FileIds /\ f \in Nat \ {0} /\ RowSound(f)
        BY <1>1, <1>4, FileStoreAssumption DEF FileIds, RowsSound
      <3> QED BY <1>1, <1>4, <3>1 DEF RowSound, NoRow, Gone, SharedTyped
    <2> QED BY <2>1
  <1>6. /\ fileRows' \in [FileIds -> RowType]
        /\ \A f \in FileIds : fileRows'[f].st = IF f \in gone THEN "deleting" ELSE fileRows[f].st
        /\ \A f \in FileIds \ gone : fileRows'[f] = fileRows[f]
        /\ \A f \in FileIds : fileRows'[f].kind = fileRows[f].kind
    BY <1>1, <1>3, StatesSet DEF SharedTyped
  <1>7. SharedTyped'
    BY <1>1, <1>3, <1>6 DEF SharedTyped
  <1>8. \A f \in FileIds \ gone : Untouched(f)
    BY <1>3, <1>6 DEF Untouched
  <1>9. \A f \in gone : ~Gone(f) /\ ~Underway(f) /\ ~Underway(f)' /\ Gone(f)'
    BY <1>3, <1>4, <1>5, <1>6 DEF Gone, Underway
  <1>10. Frame(gone, {})
    BY <1>1, <1>3, <1>8, <1>9, FrameOf
  <1>11. RowsSound'
    <2>1. ASSUME NEW f \in FileIds PROVE RowSound(f)'
      <3>1. CASE f \notin gone
        BY <1>1, <1>3, <1>8, <3>1, RowStays
      <3>2. CASE f \in gone
        BY <1>1, <1>3, <1>5, <1>6, <3>2 DEF RowSound
      <3> QED BY <3>1, <3>2
    <2> QED BY <2>1 DEF RowsSound
  <1>12. \A g \in gone \cup Outputs({"deleting"}) : g \in FileIds /\ Gone(g)'
    <2>1. ASSUME NEW g \in Outputs({"deleting"}) PROVE g \in FileIds /\ Gone(g)'
      <3>1. g \in FileIds /\ g \in Nat \ {0} /\ RowSound(g) /\ fileRows[g].st = "deleting"
        BY <1>1, FileStoreAssumption DEF FileIds, RowsSound, Outputs
      <3>2. g \in 1..issued /\ g \notin gone
        BY <1>1, <1>4, <3>1 DEF RowSound, NoRow
      <3> QED BY <1>3, <1>6, <3>1, <3>2 DEF Gone
    <2> QED BY <1>4, <1>9, <2>1
  <1>13. PICK k \in AttemptType : /\ attempt' = [attempt EXCEPT ![a] = k]
                                  /\ k.pc = "sweepblob" /\ k.file = 0
                                  /\ k.todo = gone \cup Outputs({"deleting"})
    <2>1. PICK todo \in SUBSET FileIds : todo = gone \cup Outputs({"deleting"})
      BY <1>12
    <2> DEFINE k == [pc |-> "sweepblob", file |-> 0, content |-> boxOutput, todo |-> todo]
    <2>2. k \in AttemptType /\ k.pc = "sweepblob" /\ k.file = 0 /\ k.todo = todo
      BY <1>1 DEF AttemptType, SharedTyped
    <2>3. attempt' = [attempt EXCEPT ![a] = k]
      BY <1>3, <2>1
    <2> HIDE DEF k
    <2> QED BY <2>1, <2>2, <2>3
  <1>14. AttemptSound(a)'
    <2>1. attempt'[a] = k
      BY <1>1, <1>13
    <2> QED BY <1>12, <1>13, <2>1 DEF AttemptSound, Publishing
  <1>15. MountSound' /\ StaleMountsAreLeftovers'
    BY <1>1, <1>3, <1>13, MountsStay
  <1>16. AttemptTurns(a, k) /\ AttemptMayTouch(a, gone, {})
    BY <1>1, <1>9, <1>13 DEF AttemptTurns, AttemptMayTouch
  <1> QED BY <1>7, <1>10, <1>11, <1>14, <1>15, <1>16, AttemptMoves

\* cleanupFiles removes an object of its listing, or the attempt goes on to upload.
LEMMA SweepBlobStep ==
    ASSUME FileInv, NEW a \in WorkerAttempts, SweepBlob(a)
    PROVE  FileInv'
  <1>1. /\ SharedTyped /\ RowsSound /\ attempt[a].pc = "sweepblob" /\ attempt[a] \in AttemptType
        /\ AttemptSound(a) /\ UNCHANGED <<pinned, written, closing, request, startup>>
        /\ attempt \in [WorkerAttempts -> AttemptType] /\ issued \in Nat
        /\ 1..issued \subseteq FileIds
    BY AttemptContext DEF SweepBlob
  <1>2. UNCHANGED <<fileRows, issued, attached, mounted, leftover,
          boxOutput>> /\ attempt[a].todo \in SUBSET FileIds
    BY <1>1 DEF SweepBlob, AttemptType
  <1>3. CASE attempt[a].todo = {}
    <2>1. UNCHANGED blobs /\ (AttemptEnds(a) \/ AttemptAt(a, "begin"))
      BY <1>3 DEF SweepBlob
    <2>2. \A g \in FileIds : Untouched(g)
      BY <1>2, <2>1 DEF Untouched
    <2>3. SharedTyped'
      BY <1>1, <1>2, <2>1 DEF SharedTyped
    <2>4. RowsSound'
      BY <1>1, <1>2, <2>2, RowStays DEF RowsSound
    <2>5. Frame({}, {})
      BY <1>1, <1>2, <2>2, FrameOf
    <2>6. AttemptMayTouch(a, {}, {})
      BY DEF AttemptMayTouch
    <2>7. CASE AttemptEnds(a)
      <3>1. MountSound' /\ StaleMountsAreLeftovers'
        BY <1>1, <1>2, <2>7, MountsStayAtEnd
      <3> QED BY <1>1, <2>3, <2>4, <2>5, <2>6, <2>7, <3>1, AttemptEnding
    <2>8. CASE AttemptAt(a, "begin")
      <3>1. PICK k \in AttemptType : /\ attempt' = [attempt EXCEPT ![a] = k]
                                     /\ k.pc = "begin" /\ k.todo = attempt[a].todo
        BY <2>8, AttemptAdvances
      <3>2. AttemptSound(a)'
        <4>1. attempt'[a] = k
          BY <1>1, <3>1
        <4> QED BY <1>3, <3>1, <4>1 DEF AttemptSound, Publishing
      <3>3. MountSound' /\ StaleMountsAreLeftovers'
        BY <1>1, <1>2, <3>1, MountsStay
      <3>4. AttemptTurns(a, k)
        BY <1>1, <3>1 DEF AttemptTurns
      <3> QED BY <2>3, <2>4, <2>5, <2>6, <3>2, <3>3, <3>4, AttemptMoves
    <2> QED BY <2>1, <2>7, <2>8
  <1>4. CASE attempt[a].todo # {}
    <2>1. PICK f \in FileIds : f = Min(attempt[a].todo) /\ f \in attempt[a].todo
      BY <1>2, <1>4, LeastFile
    <2>2. /\ blobs' = blobs \ {f} /\ AttemptAt(a, "sweeprow")
          /\ (Gone(f) \/ (Abandoned(f) /\ fileRows[f].kind = "output")) /\ f \in 1..issued
      BY <1>1, <1>4, <2>1 DEF SweepBlob, AttemptSound, Gone, Abandoned, Underway
    <2>3. PICK k \in AttemptType : /\ attempt' = [attempt EXCEPT ![a] = k]
                                   /\ k.pc = "sweeprow" /\ k.todo = attempt[a].todo
      BY <2>2, AttemptAdvances
    <2>4. SharedTyped'
      BY <1>1, <1>2, <2>2 DEF SharedTyped
    <2>5. \A g \in FileIds \ {f} : Untouched(g)
      BY <1>2, <2>2 DEF Untouched
    <2>6. Frame({f}, {})
      BY <1>1, <1>2, <2>5, FrameOf DEF Gone, Underway
    <2>7. RowSound(f)'
      BY <1>1, <1>2, <2>2 DEF RowsSound, RowSound, Gone, Abandoned, Underway
    <2>8. RowsSound'
      BY <1>1, <1>2, <2>5, <2>7, RowStays DEF RowsSound
    <2>9. AttemptSound(a)'
      <3>1. attempt'[a] = k
        BY <1>1, <2>3
      <3>2. \A b \in WorkerAttempts : Publishing(b)' => Publishing(b)
            /\ attempt'[b].file = attempt[b].file
        BY <1>1, <2>3 DEF Publishing
      <3>3. \A g \in k.todo : Gone(g)' \/ (Abandoned(g) /\ fileRows[g].kind = "output")'
        BY <1>1, <1>2, <2>3, <3>2 DEF AttemptSound, Gone, Abandoned, Underway
      <3> QED BY <1>4, <2>3, <3>1, <3>3 DEF AttemptSound, Publishing
    <2>10. MountSound' /\ StaleMountsAreLeftovers'
      BY <1>1, <1>2, <2>3, MountsStay
    <2>11. AttemptTurns(a, k) /\ AttemptMayTouch(a, {f}, {})
      BY <1>1, <2>2, <2>3 DEF AttemptTurns, AttemptMayTouch, Gone, Abandoned, Underway
    <2> QED BY <2>4, <2>6, <2>8, <2>9, <2>10, <2>11, AttemptMoves
  <1> QED BY <1>3, <1>4

\* Then the row.
LEMMA SweepRowStep ==
    ASSUME FileInv, NEW a \in WorkerAttempts, SweepRow(a)
    PROVE  FileInv'
  <1>1. /\ SharedTyped /\ RowsSound /\ attempt[a].pc = "sweeprow" /\ attempt[a] \in AttemptType
        /\ AttemptSound(a) /\ UNCHANGED <<pinned, written, closing, request, startup>>
        /\ attempt \in [WorkerAttempts -> AttemptType] /\ issued \in Nat
        /\ 1..issued \subseteq FileIds
    BY AttemptContext DEF SweepRow
  <1>2. /\ UNCHANGED <<blobs, issued, attached, mounted, leftover, boxOutput>>
        /\ attempt[a].todo \in SUBSET FileIds /\ attempt[a].todo # {}
    BY <1>1 DEF SweepRow, AttemptType, AttemptSound
  <1>3. PICK f \in FileIds : f = Min(attempt[a].todo) /\ f \in attempt[a].todo
    BY <1>2, LeastFile
  <1>4. /\ RemoveIncomplete(f)
        /\ attempt' = [attempt EXCEPT ![a].pc = "sweepblob", ![a].todo = @ \ {Min(@)}]
        /\ (Gone(f) \/ (Abandoned(f) /\ fileRows[f].kind = "output")) /\ f \in 1..issued
    BY <1>1, <1>3 DEF SweepRow, AttemptSound, Gone, Abandoned, Underway
  <1>5. PICK k \in AttemptType : /\ attempt' = [attempt EXCEPT ![a] = k]
                                 /\ k.pc = "sweepblob" /\ k.todo = attempt[a].todo \ {f}
    <2> DEFINE k == [attempt[a] EXCEPT !.pc = "sweepblob", !.todo = attempt[a].todo \ {f}]
    <2>1. attempt' = [attempt EXCEPT ![a] = k]
      BY <1>1, <1>3, <1>4
    <2>2. k \in AttemptType /\ k.pc = "sweepblob" /\ k.todo = attempt[a].todo \ {f}
      BY <1>1, <1>2 DEF AttemptType
    <2> HIDE DEF k
    <2> QED BY <2>1, <2>2
  <1>6. /\ fileRows' \in [FileIds -> RowType] /\ fileRows'[f] = NoRow
        /\ \A g \in FileIds \ {f} : fileRows'[g] = fileRows[g]
    BY <1>1, <1>4, RowRemoved DEF SharedTyped, Gone, Abandoned, Underway
  <1>7. SharedTyped'
    BY <1>1, <1>2, <1>6 DEF SharedTyped
  <1>8. \A g \in FileIds \ {f} : Untouched(g)
    BY <1>2, <1>6 DEF Untouched
  <1>9. Gone(f)' /\ ~Underway(f)'
    BY <1>2, <1>4, <1>6 DEF Gone, NoRow, Underway
  <1>10. Frame({f}, {})
    BY <1>1, <1>2, <1>8, <1>9, FrameOf
  <1>11. RowSound(f)'
    BY <1>1, <1>2, <1>4, <1>6, <1>9 DEF RowsSound, RowSound, Gone, Abandoned, Underway, NoRow
  <1>12. RowsSound'
    BY <1>1, <1>2, <1>8, <1>11, RowStays DEF RowsSound
  <1>13. AttemptSound(a)'
    <2>1. attempt'[a] = k
      BY <1>1, <1>5
    <2>2. \A b \in WorkerAttempts : Publishing(b)' => Publishing(b)
          /\ attempt'[b].file = attempt[b].file
      BY <1>1, <1>5 DEF Publishing
    <2>3. ASSUME NEW g \in k.todo PROVE Gone(g)' \/ (Abandoned(g) /\ fileRows[g].kind = "output")'
      <3>1. Untouched(g) /\ (Gone(g) \/ (Abandoned(g) /\ fileRows[g].kind = "output"))
        BY <1>1, <1>5, <1>8, <2>3 DEF AttemptSound, AttemptType
      <3> QED BY <1>2, <2>2, <3>1 DEF Untouched, Gone, Abandoned, Underway
    <2> QED BY <1>5, <2>1, <2>3 DEF AttemptSound, Publishing
  <1>14. MountSound' /\ StaleMountsAreLeftovers'
    BY <1>1, <1>2, <1>5, MountsStay
  <1>15. AttemptTurns(a, k) /\ AttemptMayTouch(a, {f}, {})
    BY <1>1, <1>4, <1>5 DEF AttemptTurns, AttemptMayTouch, Gone, Abandoned, Underway
  <1> QED BY <1>7, <1>10, <1>12, <1>13, <1>14, <1>15, AttemptMoves

\* publishOne starts with a row that nobody else knows, unless the Session is closing.
LEMMA BeginOutputStep ==
    ASSUME FileInv, NEW a \in WorkerAttempts, BeginOutput(a)
    PROVE  FileInv'
  <1>1. /\ SharedTyped /\ RowsSound /\ attempt[a].pc = "begin" /\ attempt[a] \in AttemptType
        /\ AttemptSound(a) /\ UNCHANGED <<pinned, written, closing, request, startup>>
        /\ attempt \in [WorkerAttempts -> AttemptType] /\ issued \in Nat
        /\ 1..issued \subseteq FileIds
    BY AttemptContext DEF BeginOutput
  <1>2. UNCHANGED <<blobs, attached, mounted, leftover, boxOutput>>
    BY DEF BeginOutput
  <1>3. AttemptMayTouch(a, {}, {})
    BY DEF AttemptMayTouch
  <1>4. CASE closing
    <2>1. AttemptEnds(a) /\ UNCHANGED <<fileRows, issued>>
      BY <1>4 DEF BeginOutput
    <2>2. \A g \in FileIds : Untouched(g)
      BY <1>2, <2>1 DEF Untouched
    <2>3. SharedTyped'
      BY <1>1, <1>2, <2>1 DEF SharedTyped
    <2>4. RowsSound'
      BY <1>1, <2>1, <2>2, RowStays DEF RowsSound
    <2>5. Frame({}, {})
      BY <1>1, <2>1, <2>2, FrameOf
    <2>6. MountSound' /\ StaleMountsAreLeftovers'
      BY <1>1, <1>2, <2>1, MountsStayAtEnd
    <2> QED BY <1>1, <1>3, <2>1, <2>3, <2>4, <2>5, <2>6, AttemptEnding
  <1>5. CASE ~closing
    <2>1. /\ InsertUploading("output", attempt[a].content)
          /\ attempt' = [attempt EXCEPT ![a].pc = "put", ![a].file = issued + 1]
      BY <1>5 DEF BeginOutput
    <2>2. /\ issued + 1 \in FileIds /\ issued' = issued + 1 /\ issued' \in 0..MaxFiles
          /\ fileRows' \in [FileIds -> RowType]
          /\ \A g \in FileIds \ {issued + 1} : fileRows'[g] = fileRows[g]
          /\ fileRows'[issued + 1].st = "uploading" /\ fileRows'[issued + 1].kind = "output"
      BY <1>1, <2>1, Inserted DEF SharedTyped, AttemptType
    <2>3. PICK n \in FileIds : n = issued + 1
      BY <2>2
    <2>4. PICK k \in AttemptType : /\ attempt' = [attempt EXCEPT ![a] = k]
                                   /\ k.pc = "put" /\ k.file = n /\ k.todo = attempt[a].todo
      <3> DEFINE k == [attempt[a] EXCEPT !.pc = "put", !.file = n]
      <3>1. attempt' = [attempt EXCEPT ![a] = k]
        BY <1>1, <2>1, <2>3
      <3>2. k \in AttemptType /\ k.pc = "put" /\ k.file = n /\ k.todo = attempt[a].todo
        <4>1. n \in Nat /\ attempt[a] \in AttemptType
          BY <1>1, <2>3
        <4> QED BY <4>1 DEF AttemptType
      <3> HIDE DEF k
      <3> QED BY <3>1, <3>2
    <2>5. SharedTyped'
      BY <1>1, <1>2, <2>2 DEF SharedTyped
    <2>6. \A g \in FileIds \ {n} : Untouched(g)
      BY <1>2, <2>2, <2>3 DEF Untouched
    <2>7. Frame({}, {})
      <3>1. \A g \in FileIds : g \in 1..issued => Untouched(g)
        BY <1>1, <2>3, <2>6
      <3> QED BY <1>1, <2>2, <3>1, FrameOf
    <2>8. RowSound(n)'
      <3>1. RowSound(n)
        BY <1>1 DEF RowsSound
      <3> QED BY <1>1, <1>2, <2>2, <2>3, <3>1 DEF RowSound, NoRow
    <2>9. RowsSound'
      BY <1>1, <2>2, <2>6, <2>8, RowStays DEF RowsSound
    <2>10. AttemptSound(a)'
      <3>1. attempt'[a] = k
        BY <1>1, <2>4
      <3>2. UnderwayOutput(n)'
        BY <1>1, <2>2, <2>3 DEF UnderwayOutput, Underway
      <3>3. ASSUME NEW g \in k.todo PROVE Gone(g)' \/ (Abandoned(g) /\ fileRows[g].kind = "output")'
        <4>1. Gone(g) \/ (Abandoned(g) /\ fileRows[g].kind = "output")
          BY <1>1, <2>4, <3>3 DEF AttemptSound
        <4>2. g \in 1..issued /\ g \in 1..issued' /\ Untouched(g) /\ g # n
          BY <1>1, <2>2, <2>3, <2>6, <4>1 DEF Gone, Abandoned, Underway
        <4>3. \A b \in WorkerAttempts : Publishing(b)' /\ attempt'[b].file = g =>
                Publishing(b) /\ attempt[b].file = g
          BY <1>1, <2>4, <4>2 DEF Publishing
        <4> QED BY <4>1, <4>2, <4>3 DEF Untouched, Gone, Abandoned, Underway
      <3> QED BY <2>4, <3>1, <3>2, <3>3 DEF AttemptSound, Publishing
    <2>11. MountSound' /\ StaleMountsAreLeftovers'
      BY <1>1, <1>2, <2>4, MountsStay
    <2>12. AttemptTurns(a, k)
      BY <1>1, <2>3, <2>4 DEF AttemptTurns
    <2> QED BY <1>3, <2>5, <2>7, <2>9, <2>10, <2>11, <2>12, AttemptMoves
  <1> QED BY <1>4, <1>5

\* Put adds the object; when the checksum differs, the row goes instead.
LEMMA PutOutputStep ==
    ASSUME FileInv, NEW a \in WorkerAttempts, PutOutput(a)
    PROVE  FileInv'
  <1>1. /\ SharedTyped /\ RowsSound /\ attempt[a].pc = "put" /\ attempt[a] \in AttemptType
        /\ AttemptSound(a) /\ UNCHANGED <<pinned, written, closing, request, startup>>
        /\ attempt \in [WorkerAttempts -> AttemptType] /\ issued \in Nat
        /\ 1..issued \subseteq FileIds
    BY AttemptContext DEF PutOutput
  <1>2. PICK f \in FileIds : f = attempt[a].file
    BY <1>1 DEF AttemptSound, Publishing, Gone, UnderwayOutput, Underway
  <1>3. /\ UNCHANGED <<issued, attached, mounted, leftover, boxOutput>> /\ f \in 1..issued
        /\ (Gone(f) \/ UnderwayOutput(f))
    BY <1>1, <1>2 DEF PutOutput, AttemptSound, Publishing, Gone, UnderwayOutput, Underway
  <1>4. CASE blobs' = blobs \cup {f} /\ AttemptAt(a, "complete") /\ UNCHANGED fileRows
    <2>1. PICK k \in AttemptType : /\ attempt' = [attempt EXCEPT ![a] = k]
                                   /\ k.pc = "complete" /\ k.file = f /\ k.todo = attempt[a].todo
      BY <1>2, <1>4, AttemptAdvances
    <2>2. SharedTyped'
      BY <1>1, <1>3, <1>4 DEF SharedTyped
    <2>3. \A g \in FileIds : Untouched(g)
      BY <1>3, <1>4 DEF Untouched
    <2>4. RowsSound'
      BY <1>1, <1>3, <2>3, RowStays DEF RowsSound
    <2>5. Frame({}, {})
      BY <1>1, <1>3, <2>3, FrameOf
    <2>6. AttemptSound(a)'
      <3>1. attempt'[a] = k
        BY <1>1, <2>1
      <3>2. \A b \in WorkerAttempts : Publishing(b)' => Publishing(b)
            /\ attempt'[b].file = attempt[b].file
        BY <1>1, <1>2, <2>1 DEF Publishing
      <3>3. \A g \in k.todo : Gone(g)' \/ (Abandoned(g) /\ fileRows[g].kind = "output")'
        BY <1>1, <1>3, <1>4, <2>1, <3>2 DEF AttemptSound, Gone, Abandoned, Underway
      <3>4. Gone(f)' \/ UnderwayOutput(f)'
        BY <1>3, <1>4 DEF Gone, UnderwayOutput, Underway
      <3> QED BY <1>4, <2>1, <3>1, <3>3, <3>4 DEF AttemptSound, Publishing
    <2>7. MountSound' /\ StaleMountsAreLeftovers'
      BY <1>1, <1>3, <2>1, MountsStay
    <2>8. AttemptTurns(a, k) /\ AttemptMayTouch(a, {}, {})
      BY <1>1, <1>2, <2>1 DEF AttemptTurns, AttemptMayTouch, Publishing
    <2> QED BY <2>2, <2>4, <2>5, <2>6, <2>7, <2>8, AttemptMoves
  <1>5. CASE RemoveIncomplete(f) /\ AttemptEnds(a) /\ UNCHANGED blobs
    <2>1. /\ fileRows' \in [FileIds -> RowType] /\ fileRows'[f] = NoRow
          /\ \A g \in FileIds \ {f} : fileRows'[g] = fileRows[g]
      BY <1>1, <1>3, <1>5, RowRemoved DEF SharedTyped, Gone, UnderwayOutput, Underway
    <2>2. SharedTyped'
      BY <1>1, <1>3, <1>5, <2>1 DEF SharedTyped
    <2>3. \A g \in FileIds \ {f} : Untouched(g)
      BY <1>3, <1>5, <2>1 DEF Untouched
    <2>4. Gone(f)' /\ ~Underway(f)'
      BY <1>3, <2>1 DEF Gone, NoRow, Underway
    <2>5. Frame({f}, {})
      BY <1>1, <1>3, <2>3, <2>4, FrameOf
    <2>6. RowSound(f)'
      BY <1>1, <1>3, <1>5, <2>1, <2>4
         DEF RowsSound, RowSound, Gone, UnderwayOutput, Underway, NoRow
    <2>7. RowsSound'
      BY <1>1, <1>3, <2>3, <2>6, RowStays DEF RowsSound
    <2>8. MountSound' /\ StaleMountsAreLeftovers'
      BY <1>1, <1>3, <1>5, MountsStayAtEnd
    <2>9. AttemptMayTouch(a, {f}, {})
      <3>1. \A b \in WorkerAttempts \ {a} : Publishing(b) => attempt[b].file # f
        BY <1>1, <1>2 DEF FileInv, PublishersApart, Publishing
      <3> QED BY <1>3, <3>1 DEF AttemptMayTouch, Gone, UnderwayOutput, Underway
    <2> QED BY <1>1, <1>5, <2>2, <2>5, <2>7, <2>8, <2>9, AttemptEnding
  <1> QED BY <1>2, <1>4, <1>5 DEF PutOutput

\* A new output takes the place of the visible ones, which are then beyond return; its
\* object is there, because the Session is not closing.
LEMMA OutputShown ==
    ASSUME FileInv, NEW a \in WorkerAttempts, attempt[a].pc = "complete", ~closing,
           NEW f \in FileIds, f = attempt[a].file, Underway(f),
           NEW old, old = Outputs({"ready"}),
           fileRows' = [SetState(old, "deleting") EXCEPT ![f].st = "ready"],
           UNCHANGED <<issued, blobs, attached, mounted, leftover, boxOutput, pinned, written, closing, request,
               startup>>
    PROVE  /\ SharedTyped' /\ RowsSound' /\ Frame(old, {f}) /\ AttemptMayTouch(a, old, {f})
           /\ \A g \in old \cup Outputs({"deleting"}) : g \in FileIds /\ Gone(g)'
  <1>1. /\ SharedTyped /\ RowsSound /\ AttemptSound(a) /\ Publishing(a) /\ issued \in Nat
        /\ 1..issued \subseteq FileIds
    BY FileStoreAssumption DEF FileInv, FileTyped, SharedTyped, Publishing, FileIds
  <1>2. UnderwayOutput(f) /\ f \in blobs /\ f \notin old
    BY <1>1 DEF AttemptSound, Gone, Underway, Outputs
  <1>3. \A g \in old : g \in FileIds /\ fileRows[g].st = "ready" /\ fileRows[g].kind = "output"
    BY DEF Outputs
  <1>4. \A g \in old : g \in 1..issued /\ g \notin pinned /\ attached[g] = "none" /\ g \in blobs
    <2>1. ASSUME NEW g \in old
          PROVE g \in 1..issued /\ g \notin pinned /\ attached[g] = "none" /\ g \in blobs
      <3>1. g \in FileIds /\ g \in Nat \ {0} /\ RowSound(g)
        BY <1>1, <1>3, FileStoreAssumption DEF FileIds, RowsSound
      <3> QED BY <1>1, <1>3, <3>1 DEF RowSound, NoRow, Gone, SharedTyped
    <2> QED BY <2>1
  <1>5. /\ SetState(old, "deleting") \in [FileIds -> RowType]
        /\ \A g \in FileIds : SetState(old, "deleting")[g].kind = fileRows[g].kind
        /\ \A g \in FileIds : SetState(old,
            "deleting")[g].st = IF g \in old THEN "deleting" ELSE fileRows[g].st
        /\ \A g \in FileIds \ old : SetState(old, "deleting")[g] = fileRows[g]
    BY <1>1, StatesSet DEF SharedTyped
  <1>6. PICK hidden \in [FileIds -> RowType] :
           /\ hidden = SetState(old, "deleting")
           /\ \A g \in FileIds : hidden[g].kind = fileRows[g].kind
           /\ \A g \in FileIds : hidden[g].st = IF g \in old THEN "deleting" ELSE fileRows[g].st
           /\ \A g \in FileIds \ old : hidden[g] = fileRows[g]
    BY <1>5
  <1>7. /\ fileRows' \in [FileIds -> RowType] /\ fileRows'[f].st = "ready"
        /\ fileRows'[f].kind = "output"
        /\ \A g \in FileIds \ {f} : fileRows'[g] = hidden[g]
    <2>1. PICK row \in RowType : row
            = [hidden[f] EXCEPT !.st = "ready"] /\ row.st = "ready" /\ row.kind = hidden[f].kind
      <3> DEFINE row == [hidden[f] EXCEPT !.st = "ready"]
      <3>1. row \in RowType /\ row.st = "ready" /\ row.kind = hidden[f].kind
        BY <1>6 DEF RowType
      <3> QED BY <3>1
    <2>2. fileRows' = [hidden EXCEPT ![f] = row]
      BY <1>6, <2>1
    <2>3. hidden[f].kind = "output"
      BY <1>2, <1>6 DEF UnderwayOutput
    <2> QED BY <1>6, <2>1, <2>2, <2>3
  <1>8. SharedTyped'
    BY <1>1, <1>7 DEF SharedTyped
  <1>9. \A g \in FileIds \ (old \cup {f}) : Untouched(g)
    BY <1>6, <1>7 DEF Untouched
  <1>10. \A g \in old : ~Gone(g) /\ ~Underway(g) /\ ~Underway(g)' /\ Gone(g)'
    <2>1. \A g \in old : fileRows'[g].st = "deleting"
      BY <1>2, <1>3, <1>6, <1>7
    <2> QED BY <1>3, <1>4, <2>1 DEF Gone, Underway
  <1>11. ~Gone(f) /\ ~Underway(f)'
    BY <1>2, <1>7 DEF Gone, Underway, UnderwayOutput
  <1>12. Frame(old, {f})
    BY <1>1, <1>2, <1>9, <1>10, <1>11, FrameOf
  <1>13. RowsSound'
    <2>1. ASSUME NEW g \in FileIds PROVE RowSound(g)'
      <3>1. CASE g \notin old \cup {f}
        BY <1>1, <1>9, <3>1, RowStays
      <3>2. CASE g \in old
        BY <1>1, <1>2, <1>4, <1>6, <1>7, <3>2 DEF RowSound
      <3>3. CASE g = f
        BY <1>1, <1>2, <1>7, <3>3 DEF RowsSound, RowSound, UnderwayOutput, Underway, Gone, SharedTyped
      <3> QED BY <3>1, <3>2, <3>3
    <2> QED BY <2>1 DEF RowsSound
  <1>14. \A g \in old \cup Outputs({"deleting"}) : g \in FileIds /\ Gone(g)'
    <2>1. ASSUME NEW g \in Outputs({"deleting"}) PROVE g \in FileIds /\ Gone(g)'
      <3>1. g \in FileIds /\ g \in Nat \ {0} /\ RowSound(g) /\ fileRows[g].st = "deleting"
        BY <1>1, FileStoreAssumption DEF FileIds, RowsSound, Outputs
      <3>2. g \in 1..issued /\ g \notin old \cup {f}
        BY <1>1, <1>2, <1>3, <3>1 DEF RowSound, NoRow, UnderwayOutput, Underway
      <3> QED BY <1>9, <3>1, <3>2 DEF Gone, Untouched
    <2> QED BY <1>3, <1>10, <2>1
  <1>15. AttemptMayTouch(a, old, {f})
    BY <1>1, <1>2, <1>10 DEF AttemptMayTouch, UnderwayOutput
  <1> QED BY <1>8, <1>12, <1>13, <1>14, <1>15

\* CompleteSessionOutput: refused, or of the same content as the visible output and
\* abandoned, or shown.
LEMMA CompleteSessionOutputStep ==
    ASSUME FileInv, NEW a \in WorkerAttempts, CompleteSessionOutput(a)
    PROVE  FileInv'
  <1>1. /\ SharedTyped /\ RowsSound /\ attempt[a].pc = "complete" /\ attempt[a] \in AttemptType
        /\ AttemptSound(a) /\ UNCHANGED <<pinned, written, closing, request, startup>>
        /\ attempt \in [WorkerAttempts -> AttemptType] /\ issued \in Nat
        /\ 1..issued \subseteq FileIds
    BY AttemptContext DEF CompleteSessionOutput
  <1>2. PICK f \in FileIds : f = attempt[a].file
    BY <1>1 DEF AttemptSound, Publishing, Gone, UnderwayOutput, Underway
  <1>3. /\ UNCHANGED <<issued, blobs, attached, mounted, leftover, boxOutput>> /\ f \in 1..issued
        /\ (Gone(f) \/ UnderwayOutput(f))
    BY <1>1, <1>2 DEF CompleteSessionOutput, AttemptSound, Publishing, Gone, UnderwayOutput, Underway
  <1>4. ASSUME UNCHANGED fileRows
        PROVE  /\ SharedTyped' /\ RowsSound' /\ Frame({}, {}) /\ AttemptMayTouch(a, {}, {})
    <2>1. \A g \in FileIds : Untouched(g)
      BY <1>3, <1>4 DEF Untouched
    <2>2. SharedTyped'
      BY <1>1, <1>3, <1>4 DEF SharedTyped
    <2>3. RowsSound'
      BY <1>1, <1>3, <2>1, RowStays DEF RowsSound
    <2>4. Frame({}, {})
      BY <1>1, <1>3, <2>1, FrameOf
    <2>5. AttemptMayTouch(a, {}, {})
      BY DEF AttemptMayTouch
    <2> QED BY <2>2, <2>3, <2>4, <2>5
  <1>5. ASSUME NEW drop, NEW done, NEW old \in SUBSET FileIds,
               SharedTyped', RowsSound', Frame(drop, done), AttemptMayTouch(a, drop, done),
               \A g \in old : Gone(g)' \/ (Abandoned(g) /\ fileRows[g].kind = "output")' \/ g = f,
               Gone(f)' \/ UnderwayOutput(f)' \/ f \notin old,
               \/ AttemptEnds(a)
               \/ attempt' = [attempt EXCEPT ![a].pc = "sweepblob", ![a].content = 0, ![a].todo = old]
        PROVE  FileInv'
    <2>1. CASE AttemptEnds(a)
      <3>1. MountSound' /\ StaleMountsAreLeftovers'
        BY <1>1, <1>3, <2>1, MountsStayAtEnd
      <3> QED BY <1>1, <1>5, <2>1, <3>1, AttemptEnding
    <2>2. CASE attempt' = [attempt EXCEPT ![a].pc = "sweepblob", ![a].content = 0, ![a].todo = old]
      <3>1. PICK k \in AttemptType : /\ attempt' = [attempt EXCEPT ![a] = k]
                                     /\ k.pc = "sweepblob" /\ k.todo = old
        <4> DEFINE k == [attempt[a] EXCEPT !.pc = "sweepblob", !.content = 0, !.todo = old]
        <4>1. attempt' = [attempt EXCEPT ![a] = k]
          BY <1>1, <2>2
        <4>2. k \in AttemptType /\ k.pc = "sweepblob" /\ k.todo = old
          BY <1>1 DEF AttemptType
        <4> HIDE DEF k
        <4> QED BY <4>1, <4>2
      <3>2. AttemptSound(a)'
        <4>1. attempt'[a] = k
          BY <1>1, <3>1
        <4>2. \A b \in WorkerAttempts : Publishing(b)' => attempt'[b].file # f
          <5>1. SUFFICES ASSUME NEW b \in WorkerAttempts, Publishing(b)' PROVE attempt'[b].file # f
            OBVIOUS
          <5>2. b # a /\ Publishing(b) /\ attempt'[b].file = attempt[b].file
            BY <1>1, <3>1, <5>1 DEF Publishing
          <5> QED BY <1>1, <1>2, <5>2 DEF FileInv, PublishersApart, Publishing
        <4>3. UnderwayOutput(f)' => (Abandoned(f) /\ fileRows[f].kind = "output")'
          BY <4>2 DEF UnderwayOutput, Underway, Abandoned
        <4>4. \A g \in old : Gone(g)' \/ (Abandoned(g) /\ fileRows[g].kind = "output")'
          BY <1>5, <4>3
        <4> QED BY <3>1, <4>1, <4>4 DEF AttemptSound, Publishing
      <3>3. MountSound' /\ StaleMountsAreLeftovers'
        BY <1>1, <1>3, <3>1, MountsStay
      <3>4. AttemptTurns(a, k)
        BY <1>1, <3>1 DEF AttemptTurns
      <3> QED BY <1>5, <3>2, <3>3, <3>4, AttemptMoves
    <2> QED BY <1>5, <2>1, <2>2
  <1>6. CASE closing \/ fileRows[f].st # "uploading"
    <2>1. AttemptEnds(a) /\ UNCHANGED fileRows
      BY <1>2, <1>6 DEF CompleteSessionOutput
    <2> QED BY <1>4, <1>5, <2>1
  <1>7. CASE ~closing /\ fileRows[f].st = "uploading"
    <2>1. PICK old : old = Outputs({"ready"})
      OBVIOUS
    <2>2. Underway(f) /\ UnderwayOutput(f) /\ f \notin old /\ Superseded(f) \in {{f}, old}
      BY <1>3, <1>7, <2>1 DEF Gone, Underway, UnderwayOutput, Outputs, Superseded
    <2>3. \/ AttemptEnds(a)
          \/ attempt' = [attempt EXCEPT ![a].pc = "sweepblob", ![a].content = 0,
                                        ![a].todo = Superseded(f) \cup Outputs({"deleting"})]
      BY <1>2, <1>7 DEF CompleteSessionOutput
    <2>4. fileRows' = IF f \in Superseded(f) THEN fileRows
                      ELSE [SetState(Superseded(f), "deleting") EXCEPT ![f].st = "ready"]
      BY <1>2, <1>7 DEF CompleteSessionOutput
    <2>5. CASE Superseded(f) = {f}
      <3>1. UNCHANGED fileRows
        BY <2>4, <2>5
      <3>2. PICK todo \in SUBSET FileIds : todo = {f} \cup Outputs({"deleting"})
        BY DEF Outputs
      <3>3. \A g \in todo : Gone(g)' \/ g = f
        <4>1. SUFFICES ASSUME NEW g \in todo, g # f PROVE Gone(g)'
          OBVIOUS
        <4>2. g \in FileIds /\ g \in Nat \ {0} /\ RowSound(g) /\ fileRows[g].st = "deleting"
          BY <1>1, <3>2, <4>1, FileStoreAssumption DEF FileIds, RowsSound, Outputs
        <4> QED BY <1>1, <1>3, <3>1, <4>2 DEF RowSound, NoRow, Gone
      <3>4. UnderwayOutput(f)'
        BY <1>3, <2>2, <3>1 DEF UnderwayOutput, Underway
      <3>5. AttemptEnds(a) \/ attempt'
              = [attempt EXCEPT ![a].pc = "sweepblob", ![a].content = 0, ![a].todo = todo]
        BY <2>3, <2>5, <3>2
      <3> QED BY <1>4, <1>5, <3>1, <3>3, <3>4, <3>5
    <2>6. CASE Superseded(f) = old
      <3>1. fileRows' = [SetState(old, "deleting") EXCEPT ![f].st = "ready"]
        BY <2>2, <2>4, <2>6
      <3>2. /\ SharedTyped' /\ RowsSound' /\ Frame(old, {f}) /\ AttemptMayTouch(a, old, {f})
            /\ \A g \in old \cup Outputs({"deleting"}) : g \in FileIds /\ Gone(g)'
        BY <1>1, <1>2, <1>3, <1>7, <2>1, <2>2, <3>1, OutputShown
      <3>3. PICK todo \in SUBSET FileIds : todo = old \cup Outputs({"deleting"})
        BY <3>2
      <3>4. f \notin todo
        BY <1>7, <2>2, <3>3 DEF Outputs
      <3>5. AttemptEnds(a) \/ attempt'
              = [attempt EXCEPT ![a].pc = "sweepblob", ![a].content = 0, ![a].todo = todo]
        BY <2>3, <2>6, <3>3
      <3>6. \A g \in todo : Gone(g)'
        BY <3>2, <3>3
      <3> QED BY <1>5, <3>2, <3>4, <3>5, <3>6
    <2> QED BY <2>2, <2>5, <2>6
  <1> QED BY <1>6, <1>7

\* An attempt takes up a desired resource.
LEMMA OpenResourceStep ==
    ASSUME FileInv, NEW a \in WorkerAttempts, NEW f \in FileIds, OpenResource(a, f)
    PROVE  FileInv'
  <1>1. /\ SharedTyped /\ RowsSound /\ attempt[a].pc = "idle" /\ attempt[a] \in AttemptType
        /\ AttemptSound(a) /\ UNCHANGED <<pinned, written, closing, request, startup>>
        /\ attempt \in [WorkerAttempts -> AttemptType] /\ issued \in Nat
        /\ 1..issued \subseteq FileIds
    BY AttemptContext DEF OpenResource
  <1>2. UNCHANGED <<fileRows, issued, blobs, attached, mounted, leftover, boxOutput>>
    BY DEF OpenResource
  <1>3. PICK k \in AttemptType : /\ attempt' = [attempt EXCEPT ![a] = k]
                                 /\ k.pc = "import" /\ k.file = f /\ k.todo = {}
    <2> DEFINE k == [pc |-> "import", file |-> f, content |-> 0, todo |-> {}]
    <2>1. attempt' = [attempt EXCEPT ![a] = k]
      BY DEF OpenResource
    <2>2. k \in AttemptType /\ k.pc = "import" /\ k.file = f /\ k.todo = {}
      BY FileStoreAssumption DEF AttemptType, FileIds
    <2> HIDE DEF k
    <2> QED BY <2>1, <2>2
  <1>4. \A g \in FileIds : Untouched(g)
    BY <1>2 DEF Untouched
  <1>5. SharedTyped'
    BY <1>1, <1>2 DEF SharedTyped
  <1>6. RowsSound'
    BY <1>1, <1>2, <1>4, RowStays DEF RowsSound
  <1>7. Frame({}, {})
    BY <1>1, <1>2, <1>4, FrameOf
  <1>8. AttemptSound(a)'
    <2>1. attempt'[a] = k
      BY <1>1, <1>3
    <2> QED BY <1>3, <2>1 DEF AttemptSound, Publishing
  <1>9. MountSound' /\ StaleMountsAreLeftovers'
    BY <1>1, <1>2, <1>3, MountsStay
  <1>10. AttemptTurns(a, k) /\ AttemptMayTouch(a, {}, {})
    BY <1>1, <1>3 DEF AttemptTurns, AttemptMayTouch
  <1> QED BY <1>5, <1>6, <1>7, <1>8, <1>9, <1>10, AttemptMoves

\* A step that changes the mounts alone leaves the rows.
LEMMA OnlyMounts ==
    ASSUME FileInv, NEW a \in WorkerAttempts, mounted' \subseteq FileIds, leftover' \subseteq mounted',
           UNCHANGED <<fileRows, issued, blobs, attached, boxOutput, pinned, written, closing>>
    PROVE  SharedTyped' /\ RowsSound' /\ Frame({}, {}) /\ AttemptMayTouch(a, {}, {})
  <1>1. SharedTyped /\ RowsSound /\ issued \in Nat
    BY DEF FileInv, FileTyped, SharedTyped
  <1>2. \A g \in FileIds : Untouched(g)
    BY DEF Untouched
  <1>3. SharedTyped'
    BY <1>1 DEF SharedTyped
  <1>4. RowsSound'
    BY <1>1, <1>2, RowStays DEF RowsSound
  <1>5. Frame({}, {})
    BY <1>1, <1>2, FrameOf
  <1>6. AttemptMayTouch(a, {}, {})
    BY DEF AttemptMayTouch
  <1> QED BY <1>3, <1>4, <1>5, <1>6

\* The import mounts the file, and the attempt that did so will recheck it.
LEMMA ImportResourceStep ==
    ASSUME FileInv, NEW a \in WorkerAttempts, ImportResource(a)
    PROVE  FileInv'
  <1>1. /\ SharedTyped /\ attempt[a].pc = "import" /\ attempt[a] \in AttemptType
        /\ AttemptSound(a) /\ UNCHANGED <<pinned, written, closing, request, startup>>
        /\ attempt \in [WorkerAttempts -> AttemptType] /\ issued \in Nat
    BY AttemptContext DEF ImportResource
  <1>2. PICK f \in FileIds : f = attempt[a].file
    BY <1>1 DEF AttemptSound
  <1>3. UNCHANGED <<fileRows, issued, blobs, attached, leftover, boxOutput>> /\ mounted' = mounted \cup {f}
        /\ AttemptAt(a, "recheck") /\ mounted' \subseteq FileIds /\ mounted \subseteq FileIds
        /\ leftover' \subseteq mounted'
    BY <1>1, <1>2 DEF ImportResource, SharedTyped
  <1>4. PICK k \in AttemptType : /\ attempt' = [attempt EXCEPT ![a] = k]
                                 /\ k.pc = "recheck" /\ k.file = f /\ k.todo = attempt[a].todo
    BY <1>2, <1>3, AttemptAdvances
  <1>5. attempt'[a] = k /\ \A b \in WorkerAttempts \ {a} : attempt'[b] = attempt[b]
    BY <1>1, <1>4
  <1>6. SharedTyped' /\ RowsSound' /\ Frame({}, {}) /\ AttemptMayTouch(a, {}, {})
    BY <1>1, <1>3, OnlyMounts
  <1>7. AttemptSound(a)'
    <2>1. \A b \in WorkerAttempts : Publishing(b)' => Publishing(b)
          /\ attempt'[b].file = attempt[b].file
      BY <1>1, <1>4, <1>5 DEF Publishing
    <2>2. \A g \in k.todo : Gone(g)' \/ (Abandoned(g) /\ fileRows[g].kind = "output")'
      BY <1>1, <1>3, <1>4, <2>1 DEF AttemptSound, Gone, Abandoned, Underway
    <2> QED BY <1>4, <1>5, <2>2 DEF AttemptSound, Publishing
  <1>8. MountSound' /\ StaleMountsAreLeftovers'
    <2>1. MountSound /\ StaleMountsAreLeftovers
      BY DEF FileInv
    <2>2. \A g : Watched(g) => Watched(g)'
      BY <1>1, <1>3, <1>5 DEF Watched
    <2>3. Watched(f)'
      BY <1>4, <1>5 DEF Watched
    <2>4. MountSound'
      BY <1>3, <1>4, <1>5, <2>1, <2>2, <2>3 DEF MountSound
    <2>5. ASSUME NEW g \in mounted', attached'[g] = "none" PROVE Watched(g)'
      BY <1>3, <2>1, <2>2, <2>3, <2>5 DEF StaleMountsAreLeftovers, MountIsWatched, Watched
    <2> QED BY <2>4, <2>5 DEF StaleMountsAreLeftovers, MountIsWatched, Watched
  <1>9. AttemptTurns(a, k)
    BY <1>1, <1>4 DEF AttemptTurns
  <1> QED BY <1>6, <1>7, <1>8, <1>9, AttemptMoves

\* The recheck takes out what is no longer wanted, and what it leaves is attached.
LEMMA RecheckResourceStep ==
    ASSUME FileInv, NEW a \in WorkerAttempts, RecheckResource(a)
    PROVE  FileInv'
  <1>1. /\ SharedTyped /\ RowsSound /\ attempt[a].pc = "recheck" /\ attempt[a] \in AttemptType
        /\ AttemptSound(a) /\ UNCHANGED <<pinned, written, closing, request, startup>>
        /\ attempt \in [WorkerAttempts -> AttemptType] /\ issued \in Nat
    BY AttemptContext DEF RecheckResource
  <1>2. PICK f \in FileIds : f = attempt[a].file
    BY <1>1 DEF AttemptSound
  <1>3. /\ UNCHANGED <<fileRows, issued, blobs, attached, boxOutput>> /\ AttemptEnds(a)
        /\ mounted' = IF attached[f] = "active" THEN mounted ELSE mounted \ {f}
        /\ leftover' = IF attached[f] = "active" THEN leftover ELSE leftover \ {f}
        /\ mounted' \subseteq FileIds /\ mounted \subseteq FileIds /\ leftover' \subseteq mounted'
    BY <1>1, <1>2 DEF RecheckResource, StillWanted, SharedTyped
  <1>4. SharedTyped' /\ RowsSound' /\ Frame({}, {}) /\ AttemptMayTouch(a, {}, {})
    BY <1>1, <1>3, OnlyMounts
  <1>5. attempt'[a].pc = "idle" /\ \A b \in WorkerAttempts \ {a} : attempt'[b] = attempt[b]
    BY <1>1, <1>3, NoAttemptFits DEF AttemptEnds
  <1>6. \A g \in FileIds \ {f} : Watched(g) => Watched(g)'
    BY <1>1, <1>2, <1>3, <1>5 DEF Watched
  <1>7. MountSound'
    <2>1. SUFFICES ASSUME NEW b \in WorkerAttempts, attempt'[b].pc \in {"dropblob", "droprow",
            "finalize"},
                          attempt'[b].file \in mounted'
                   PROVE  Watched(attempt[b].file)' /\ attempt'[b].file = attempt[b].file
      BY DEF MountSound, Watched
    <2>2. attempt'[b] = attempt[b] /\ b # a
      BY <1>5, <2>1
    <2>3. PICK g \in FileIds : g = attempt[b].file
      BY <1>3, <2>1, <2>2
    <2>4. Gone(g) /\ Watched(g)
      BY <1>3, <2>1, <2>2, <2>3 DEF FileInv, AttemptSound, MountSound
    <2>5. g # f
      BY <1>1, <1>3, <2>1, <2>2, <2>3, <2>4 DEF RowsSound, RowSound, Gone
    <2> QED BY <1>6, <2>2, <2>3, <2>4, <2>5 DEF Watched
  <1>8. StaleMountsAreLeftovers'
    <2>1. SUFFICES ASSUME NEW g \in FileIds, g \in mounted', attached[g] = "none" PROVE Watched(g)'
      BY <1>3 DEF StaleMountsAreLeftovers, MountIsWatched, Watched
    <2>2. g # f /\ Watched(g)
      BY <1>3, <2>1 DEF FileInv, StaleMountsAreLeftovers, MountIsWatched, Watched
    <2> QED BY <1>6, <2>2
  <1> QED BY <1>1, <1>3, <1>4, <1>7, <1>8, AttemptEnding

\* The mount of a tombstone goes first.
LEMMA DismountResourceStep ==
    ASSUME FileInv, NEW a \in WorkerAttempts, NEW f \in FileIds, DismountResource(a, f)
    PROVE  FileInv'
  <1>1. /\ SharedTyped /\ RowsSound /\ attempt[a].pc = "idle" /\ attempt[a] \in AttemptType
        /\ AttemptSound(a) /\ UNCHANGED <<pinned, written, closing, request, startup>>
        /\ attempt \in [WorkerAttempts -> AttemptType] /\ issued \in Nat
    BY AttemptContext DEF DismountResource
  <1>2. /\ UNCHANGED <<fileRows, issued, blobs, attached, boxOutput>> /\ mounted' = mounted \ {f}
        /\ leftover' = leftover \ {f} /\ leftover' \subseteq mounted'
        /\ mounted' \subseteq FileIds /\ mounted \subseteq FileIds /\ Gone(f)
    BY <1>1 DEF DismountResource, SharedTyped, RowsSound, RowSound
  <1>3. PICK k \in AttemptType : /\ attempt' = [attempt EXCEPT ![a] = k]
                                 /\ k.pc = "dropblob" /\ k.file = f /\ k.todo = {}
    <2> DEFINE k == [pc |-> "dropblob", file |-> f, content |-> 0, todo |-> {}]
    <2>1. attempt' = [attempt EXCEPT ![a] = k]
      BY DEF DismountResource
    <2>2. k \in AttemptType /\ k.pc = "dropblob" /\ k.file = f /\ k.todo = {}
      BY FileStoreAssumption DEF AttemptType, FileIds
    <2> HIDE DEF k
    <2> QED BY <2>1, <2>2
  <1>4. SharedTyped' /\ RowsSound' /\ Frame({}, {}) /\ AttemptMayTouch(a, {}, {})
    BY <1>1, <1>2, OnlyMounts
  <1>5. attempt'[a] = k /\ \A b \in WorkerAttempts \ {a} : attempt'[b] = attempt[b]
    BY <1>1, <1>3
  <1>6. AttemptSound(a)'
    <2>1. Gone(f)'
      BY <1>2 DEF Gone
    <2> QED BY <1>3, <1>5, <2>1 DEF AttemptSound, Publishing
  <1>7. MountSound' /\ StaleMountsAreLeftovers'
    <2>1. MountSound /\ StaleMountsAreLeftovers
      BY DEF FileInv
    <2>2. \A g : g # f /\ Watched(g) => Watched(g)'
      BY <1>1, <1>2, <1>5 DEF Watched
    <2>3. MountSound'
      BY <1>2, <1>3, <1>5, <2>1, <2>2 DEF MountSound
    <2>4. ASSUME NEW g \in mounted', attached'[g] = "none" PROVE Watched(g)'
      BY <1>2, <2>1, <2>2, <2>4 DEF StaleMountsAreLeftovers, MountIsWatched, Watched
    <2> QED BY <2>3, <2>4 DEF StaleMountsAreLeftovers, MountIsWatched, Watched
  <1>8. AttemptTurns(a, k)
    BY <1>1, <1>3 DEF AttemptTurns
  <1> QED BY <1>4, <1>6, <1>7, <1>8, AttemptMoves

\* Then the object of its file.
LEMMA DropBlobStep ==
    ASSUME FileInv, NEW a \in WorkerAttempts, DropBlob(a)
    PROVE  FileInv'
  <1>1. /\ SharedTyped /\ RowsSound /\ attempt[a].pc = "dropblob" /\ attempt[a] \in AttemptType
        /\ AttemptSound(a) /\ UNCHANGED <<pinned, written, closing, request, startup>>
        /\ attempt \in [WorkerAttempts -> AttemptType] /\ issued \in Nat
        /\ 1..issued \subseteq FileIds
    BY AttemptContext DEF DropBlob
  <1>2. PICK f \in FileIds : f = attempt[a].file
    BY <1>1 DEF AttemptSound, Gone
  <1>3. /\ UNCHANGED <<fileRows, issued, attached, mounted, leftover, boxOutput>> /\ Gone(f) /\ f \in 1..issued
        /\ blobs' = blobs \ {f} /\ AttemptAt(a, "droprow")
    BY <1>1, <1>2 DEF DropBlob, AttemptSound, Gone
  <1>4. PICK k \in AttemptType : /\ attempt' = [attempt EXCEPT ![a] = k]
                                 /\ k.pc = "droprow" /\ k.file = f /\ k.todo = attempt[a].todo
    BY <1>2, <1>3, AttemptAdvances
  <1>5. SharedTyped'
    BY <1>1, <1>3 DEF SharedTyped
  <1>6. \A g \in FileIds \ {f} : Untouched(g)
    BY <1>3 DEF Untouched
  <1>7. Frame({f}, {})
    BY <1>1, <1>3, <1>6, FrameOf DEF Gone, Underway
  <1>8. RowSound(f)'
    BY <1>1, <1>3 DEF RowsSound, RowSound, Gone
  <1>9. RowsSound'
    BY <1>1, <1>3, <1>6, <1>8, RowStays DEF RowsSound
  <1>10. AttemptSound(a)'
    <2>1. attempt'[a] = k
      BY <1>1, <1>4
    <2>2. \A b \in WorkerAttempts : Publishing(b)' => Publishing(b)
          /\ attempt'[b].file = attempt[b].file
      BY <1>1, <1>4 DEF Publishing
    <2>3. \A g \in k.todo : Gone(g)' \/ (Abandoned(g) /\ fileRows[g].kind = "output")'
      BY <1>1, <1>3, <1>4, <2>2 DEF AttemptSound, Gone, Abandoned, Underway
    <2>4. Gone(f)'
      BY <1>3 DEF Gone
    <2> QED BY <1>4, <2>1, <2>3, <2>4 DEF AttemptSound, Publishing
  <1>11. MountSound' /\ StaleMountsAreLeftovers'
    BY <1>1, <1>2, <1>3, <1>4, MountsStay
  <1>12. AttemptTurns(a, k) /\ AttemptMayTouch(a, {f}, {})
    BY <1>1, <1>3, <1>4 DEF AttemptTurns, AttemptMayTouch, Gone, Underway
  <1> QED BY <1>5, <1>7, <1>9, <1>10, <1>11, <1>12, AttemptMoves

\* Then the row.
LEMMA DropRowStep ==
    ASSUME FileInv, NEW a \in WorkerAttempts, DropRow(a)
    PROVE  FileInv'
  <1>1. /\ SharedTyped /\ RowsSound /\ attempt[a].pc = "droprow" /\ attempt[a] \in AttemptType
        /\ AttemptSound(a) /\ UNCHANGED <<pinned, written, closing, request, startup>>
        /\ attempt \in [WorkerAttempts -> AttemptType] /\ issued \in Nat
        /\ 1..issued \subseteq FileIds
    BY AttemptContext DEF DropRow
  <1>2. PICK f \in FileIds : f = attempt[a].file
    BY <1>1 DEF AttemptSound, Gone
  <1>3. /\ UNCHANGED <<blobs, issued, attached, mounted, leftover, boxOutput>> /\ Gone(f) /\ f \in 1..issued
        /\ RemoveIncomplete(f) /\ AttemptAt(a, "finalize")
    BY <1>1, <1>2 DEF DropRow, AttemptSound, Gone
  <1>4. PICK k \in AttemptType : /\ attempt' = [attempt EXCEPT ![a] = k]
                                 /\ k.pc = "finalize" /\ k.file = f /\ k.todo = attempt[a].todo
    BY <1>2, <1>3, AttemptAdvances
  <1>5. /\ fileRows' \in [FileIds -> RowType] /\ fileRows'[f] = NoRow
        /\ \A g \in FileIds \ {f} : fileRows'[g] = fileRows[g]
    BY <1>1, <1>3, RowRemoved DEF SharedTyped, Gone
  <1>6. SharedTyped'
    BY <1>1, <1>3, <1>5 DEF SharedTyped
  <1>7. \A g \in FileIds \ {f} : Untouched(g)
    BY <1>3, <1>5 DEF Untouched
  <1>8. Gone(f)' /\ ~Underway(f)'
    BY <1>3, <1>5 DEF Gone, NoRow, Underway
  <1>9. Frame({f}, {})
    BY <1>1, <1>3, <1>7, <1>8, FrameOf
  <1>10. RowSound(f)'
    BY <1>1, <1>3, <1>5, <1>8 DEF RowsSound, RowSound, Gone, NoRow
  <1>11. RowsSound'
    BY <1>1, <1>3, <1>7, <1>10, RowStays DEF RowsSound
  <1>12. AttemptSound(a)'
    <2>1. attempt'[a] = k
      BY <1>1, <1>4
    <2>2. \A b \in WorkerAttempts : Publishing(b)' => Publishing(b)
          /\ attempt'[b].file = attempt[b].file
      BY <1>1, <1>4 DEF Publishing
    <2>3. ASSUME NEW g \in k.todo PROVE Gone(g)' \/ (Abandoned(g) /\ fileRows[g].kind = "output")'
      <3>1. g \in FileIds /\ (Gone(g) \/ (Abandoned(g) /\ fileRows[g].kind = "output"))
        BY <1>1, <1>4, <2>3 DEF AttemptSound, AttemptType
      <3>2. CASE g = f
        BY <1>8, <3>2
      <3>3. CASE g # f
        <4>1. Untouched(g)
          BY <1>7, <3>1, <3>3
        <4> QED BY <1>3, <2>2, <3>1, <4>1 DEF Untouched, Gone, Abandoned, Underway
      <3> QED BY <3>2, <3>3
    <2> QED BY <1>4, <1>8, <2>1, <2>3 DEF AttemptSound, Publishing
  <1>13. MountSound' /\ StaleMountsAreLeftovers'
    BY <1>1, <1>2, <1>3, <1>4, MountsStay
  <1>14. AttemptTurns(a, k) /\ AttemptMayTouch(a, {f}, {})
    BY <1>1, <1>3, <1>4 DEF AttemptTurns, AttemptMayTouch, Gone, Underway
  <1> QED BY <1>6, <1>9, <1>11, <1>12, <1>13, <1>14, AttemptMoves

\* Then the tombstone: a mount that is back by then has a late import to recheck it.
LEMMA FinalizeResourceStep ==
    ASSUME FileInv, NEW a \in WorkerAttempts, FinalizeResource(a)
    PROVE  FileInv'
  <1>1. /\ SharedTyped /\ RowsSound /\ attempt[a].pc = "finalize" /\ attempt[a] \in AttemptType
        /\ AttemptSound(a) /\ UNCHANGED <<pinned, written, closing, request, startup>>
        /\ attempt \in [WorkerAttempts -> AttemptType] /\ issued \in Nat
        /\ 1..issued \subseteq FileIds
    BY AttemptContext DEF FinalizeResource
  <1>2. PICK f \in FileIds : f = attempt[a].file
    BY <1>1 DEF AttemptSound, Gone
  <1>3. /\ UNCHANGED <<fileRows, blobs, issued, mounted, leftover, boxOutput>> /\ Gone(f) /\ f \in 1..issued
        /\ attached' = [attached EXCEPT ![f] = IF @ = "deleting" THEN "none" ELSE @]
        /\ AttemptEnds(a) /\ mounted \subseteq FileIds
    BY <1>1, <1>2 DEF FinalizeResource, AttemptSound, Gone, SharedTyped
  <1>4. /\ attached' \in [FileIds -> {"none", "active", "deleting"}]
        /\ attached'[f] = IF attached[f] = "deleting" THEN "none" ELSE attached[f]
        /\ \A g \in FileIds \ {f} : attached'[g] = attached[g]
    BY <1>1, <1>3 DEF SharedTyped
  <1>5. SharedTyped'
    BY <1>1, <1>3, <1>4 DEF SharedTyped
  <1>6. \A g \in FileIds \ {f} : Untouched(g)
    BY <1>3, <1>4 DEF Untouched
  <1>7. Frame({f}, {})
    BY <1>1, <1>3, <1>6, FrameOf DEF Gone, Underway
  <1>8. RowSound(f)'
    BY <1>1, <1>3, <1>4 DEF RowsSound, RowSound, Gone
  <1>9. RowsSound'
    BY <1>1, <1>3, <1>6, <1>8, RowStays DEF RowsSound
  <1>10. attempt'[a].pc = "idle" /\ \A b \in WorkerAttempts \ {a} : attempt'[b] = attempt[b]
    BY <1>1, <1>3, NoAttemptFits DEF AttemptEnds
  <1>11. \A g : Watched(g) => Watched(g)'
    BY <1>1, <1>3, <1>10 DEF Watched
  <1>12. MountSound'
    BY <1>3, <1>10, <1>11 DEF FileInv, MountSound
  <1>13. StaleMountsAreLeftovers'
    <2>1. SUFFICES ASSUME NEW g \in FileIds, g \in mounted, attached'[g] = "none" PROVE Watched(g)'
      BY <1>3 DEF StaleMountsAreLeftovers, MountIsWatched, Watched
    <2>2. CASE g = f
      BY <1>1, <1>2, <1>11, <2>1, <2>2 DEF FileInv, MountSound
    <2>3. CASE g # f
      BY <1>4, <1>11, <2>1, <2>3 DEF FileInv, StaleMountsAreLeftovers, MountIsWatched, Watched
    <2> QED BY <2>2, <2>3
  <1>14. AttemptMayTouch(a, {f}, {})
    BY <1>3 DEF AttemptMayTouch, Gone, Underway
  <1> QED BY <1>1, <1>3, <1>5, <1>7, <1>9, <1>12, <1>13, <1>14, AttemptEnding

\* An attempt that fails leaves the rows; a mount it has not rechecked is wanted, or
\* is left over.
LEMMA AttemptFailsStep ==
    ASSUME FileInv, NEW a \in WorkerAttempts, AttemptFails(a)
    PROVE  FileInv'
  <1>1. /\ UNCHANGED <<fileRows, issued, blobs, attached, pinned, mounted, boxOutput, written,
                      closing, request, startup>>
        /\ AttemptEnds(a) /\ attempt \in [WorkerAttempts -> AttemptType] /\ SharedTyped /\ RowsSound
    BY DEF AttemptFails, FileInv, FileTyped
  <1>2. leftover \subseteq leftover' /\ leftover' \subseteq mounted' /\ mounted' \subseteq FileIds
    BY <1>1 DEF AttemptFails, SharedTyped
  <1>3. SharedTyped' /\ RowsSound' /\ Frame({}, {}) /\ AttemptMayTouch(a, {}, {})
    BY <1>1, <1>2, OnlyMounts
  <1>4. attempt'[a].pc = "idle" /\ \A b \in WorkerAttempts \ {a} : attempt'[b] = attempt[b]
    BY <1>1, NoAttemptFits DEF AttemptEnds
  <1>5. ASSUME NEW g \in mounted, attached[g] # "active", Watched(g) PROVE Watched(g)'
    <2>1. CASE attempt[a].pc = "recheck" /\ attempt[a].file = g
      BY <1>5, <2>1 DEF AttemptFails, StillWanted, Watched
    <2>2. CASE ~(attempt[a].pc = "recheck" /\ attempt[a].file = g)
      BY <1>1, <1>2, <1>4, <1>5, <2>2 DEF Watched
    <2> QED BY <2>1, <2>2
  <1>6. MountSound'
    <2>1. SUFFICES ASSUME NEW b \in WorkerAttempts,
                          attempt'[b].pc \in {"dropblob", "droprow", "finalize"},
                          attempt'[b].file \in mounted'
                   PROVE  Watched(attempt[b].file)' /\ attempt'[b].file = attempt[b].file
      BY DEF MountSound, Watched
    <2>2. attempt'[b] = attempt[b] /\ b # a
      BY <1>4, <2>1
    <2>3. PICK g \in FileIds : g = attempt[b].file
      BY <1>1, <1>2, <2>1, <2>2
    <2>4. Gone(g) /\ Watched(g) /\ g \in mounted
      BY <1>1, <2>1, <2>2, <2>3 DEF FileInv, AttemptSound, MountSound
    <2>5. attached[g] # "active"
      BY <1>1, <2>4 DEF RowsSound, RowSound, Gone
    <2>6. Watched(g)'
      BY <1>5, <2>4, <2>5
    <2> QED BY <2>2, <2>3, <2>6 DEF Watched
  <1>7. StaleMountsAreLeftovers'
    <2>1. SUFFICES ASSUME NEW g \in mounted', attached[g] = "none" PROVE Watched(g)'
      BY <1>1 DEF StaleMountsAreLeftovers, MountIsWatched, Watched
    <2>2. g \in mounted /\ Watched(g)
      BY <1>1, <2>1 DEF FileInv, StaleMountsAreLeftovers, MountIsWatched, Watched
    <2> QED BY <1>5, <2>1, <2>2
  <1> QED BY <1>1, <1>3, <1>6, <1>7, AttemptEnding

\* An empty store satisfies the invariant.
LEMMA FileInvInit == FileStoreInit => FileInv
  <1> SUFFICES ASSUME FileStoreInit PROVE FileInv
    OBVIOUS
  <1> USE FileStoreAssumption DEF FileStoreInit
  <1>1. NoRow \in RowType /\ NoRow.st = "none"
    BY DEF NoRow, RowType
  <1>2. NoRequest \in RequestType /\ NoRequest = [pc |-> "idle", file |-> 0, todo |-> {}]
    BY DEF NoRequest, RequestType
  <1>3. NoStartup = [pc |-> "serving", todo |-> {}]
    BY DEF NoStartup
  <1>4. FileTyped
    <2>1. SharedTyped
      <3>1. issued \in 0..MaxFiles /\ fileRows \in [FileIds -> RowType]
        BY <1>1
      <3>2. attached \in [FileIds -> {"none", "active", "deleting"}]
        OBVIOUS
      <3>3. closing \in BOOLEAN /\ boxOutput \in Nat /\ written \in Nat
        OBVIOUS
      <3> QED BY <3>1, <3>2, <3>3 DEF SharedTyped
    <2>2. request \in [ApiRequests -> RequestType]
      BY <1>2
    <2>3. attempt \in [WorkerAttempts -> AttemptType]
      BY NoAttemptFits
    <2>4. startup \in [pc : {"serving", "blob", "row"}, todo : SUBSET FileIds]
      BY <1>3
    <2> QED BY <2>1, <2>2, <2>3, <2>4 DEF FileTyped
  <1>5. RowsSound
    BY <1>1 DEF RowsSound, RowSound
  <1>6. \A r \in ApiRequests : RequestSound(r)
    BY <1>2 DEF RequestSound
  <1>7. \A a \in WorkerAttempts : AttemptSound(a)
    BY NoAttemptFits DEF AttemptSound, Publishing
  <1>8. RequestsApart
    BY <1>2 DEF RequestsApart, Underway
  <1>9. PublishersApart
    BY NoAttemptFits DEF PublishersApart, Publishing
  <1>10. StartupSound
    BY <1>3 DEF StartupSound
  <1>11. MountSound /\ StaleMountsAreLeftovers
    BY NoAttemptFits DEF FileStoreInit, MountSound, StaleMountsAreLeftovers
  <1> QED BY <1>4, <1>5, <1>6, <1>7, <1>8, <1>9, <1>10, <1>11 DEF FileInv

\* A step of another component leaves it.
LEMMA FileInvStutters == FileInv /\ UNCHANGED fileVars => FileInv'
  BY DEF fileVars, FileInv, FileTyped, SharedTyped, RowsSound, RowSound, RequestSound, AttemptSound,
         RequestsApart, PublishersApart, StartupSound, MountSound, StaleMountsAreLeftovers,
         MountIsWatched, Watched, Gone, Underway, UnderwayOutput, UnderwayPut, Abandoned, Publishing, Serving

\* Every step of the API, of an attempt and of the tools keeps the invariant.
LEMMA FileInvHolds ==
    ASSUME QuietRestarts = TRUE
    PROVE  FileInv /\ [FileStoreNext]_fileVars => FileInv'
  <1> SUFFICES ASSUME FileInv, [FileStoreNext]_fileVars PROVE FileInv'
    OBVIOUS
  <1>1. CASE UNCHANGED fileVars
    BY <1>1, FileInvStutters
  <1>2. CASE \E r \in ApiRequests : RequestNext(r)
    <2>1. PICK r \in ApiRequests : RequestNext(r)
      BY <1>2
    <2>2. CASE BeginUpload(r)
      BY <2>2, BeginPutStep DEF BeginUpload
    <2>3. CASE BeginVersion(r)
      BY <2>3, BeginPutStep DEF BeginVersion
    <2>4. CASE BeginCopy(r)
      BY <2>4, BeginPutStep DEF BeginCopy
    <2>5. CASE PutBlob(r)
      BY <2>5, PutBlobStep
    <2>6. CASE CompleteUpload(r) \/ CompleteVersion(r)
      BY <2>6, CompletePutStep DEF CompleteUpload, CompleteVersion
    <2>7. CASE AddSessionResource(r)
      BY <2>7, AddResourceStep
    <2>8. CASE \E f \in FileIds : BeginDelete(r, f) \/ BeginDeleteVersion(r, f) \/ BeginDetach(r, f)
      BY <2>8, BeginDeleteStep, BeginDetachStep
    <2>9. CASE UnlinkBlob(r)
      BY <2>9, UnlinkBlobStep
    <2>10. CASE UnlinkRow(r)
      BY <2>10, UnlinkRowStep
    <2>11. CASE PrepareDeletion(r)
      BY <2>11, PrepareDeletionStep
    <2>12. CASE ListGarbage(r)
      BY <2>12, ListGarbageStep
    <2>13. CASE PurgeBlob(r)
      BY <2>13, PurgeBlobStep
    <2>14. CASE PurgeRow(r)
      BY <2>14, PurgeRowStep
    <2> QED BY <2>1, <2>2, <2>3, <2>4, <2>5, <2>6, <2>7, <2>8, <2>9, <2>10, <2>11, <2>12, <2>13, <2>14
            DEF RequestNext
  <1>3. CASE \E a \in WorkerAttempts : AttemptNext(a)
    <2>1. PICK a \in WorkerAttempts : AttemptNext(a)
      BY <1>3
    <2>2. CASE PrepareSnapshot(a)
      BY <2>2, PrepareSnapshotStep
    <2>3. CASE SweepBlob(a)
      BY <2>3, SweepBlobStep
    <2>4. CASE SweepRow(a)
      BY <2>4, SweepRowStep
    <2>5. CASE BeginOutput(a)
      BY <2>5, BeginOutputStep
    <2>6. CASE PutOutput(a)
      BY <2>6, PutOutputStep
    <2>7. CASE CompleteSessionOutput(a)
      BY <2>7, CompleteSessionOutputStep
    <2>8. CASE \E f \in FileIds : OpenResource(a, f) \/ DismountResource(a, f)
      BY <2>8, OpenResourceStep, DismountResourceStep
    <2>9. CASE ImportResource(a)
      BY <2>9, ImportResourceStep
    <2>10. CASE RecheckResource(a)
      BY <2>10, RecheckResourceStep
    <2>11. CASE DropBlob(a)
      BY <2>11, DropBlobStep
    <2>12. CASE DropRow(a)
      BY <2>12, DropRowStep
    <2>13. CASE FinalizeResource(a)
      BY <2>13, FinalizeResourceStep
    <2>14. CASE AttemptFails(a)
      BY <2>14, AttemptFailsStep
    <2> QED BY <2>1, <2>2, <2>3, <2>4, <2>5, <2>6, <2>7, <2>8, <2>9, <2>10, <2>11, <2>12, <2>13, <2>14
            DEF AttemptNext
  <1>4. CASE (\E f \in FileIds : PinVersion(f) \/ Unpin(f)) \/ WriteOutput
    BY <1>4, PinsStep
  <1>5. CASE RestartApi
    BY <1>5, RestartApiStep
  <1>6. CASE ReconcileBlob
    BY <1>6, ReconcileBlobStep
  <1>7. CASE ReconcileRow
    BY <1>7, ReconcileRowStep
  <1> QED BY <1>1, <1>2, <1>3, <1>4, <1>5, <1>6, <1>7 DEF FileStoreNext

\* The invariant gives the property.
LEMMA FileInvGives == FileInv => FilesAreConsistent
  BY DEF FileInv, FilesAreConsistent, ReadyFileHasBytes, RowsSound, RowSound, ReadyFiles, FileTyped,
      SharedTyped

\* A visible File or Skill version has its bytes, a pinned version and an attached
\* resource are visible, and the only mount a sandbox keeps that nobody wants or
\* watches was left by an attempt that failed before the end of its recheck: for any
\* number of files, requests, overlapping and failing attempts, outputs and restarts
\* of the API, as long as none of the restarts comes while an attempt publishes.
THEOREM FilesConsistent ==
    ASSUME QuietRestarts = TRUE
    PROVE  FileStoreSpec => []FilesAreConsistent
  BY FileInvInit, FileInvHolds, FileInvGives, PTL DEF FileStoreSpec

(***************************************************************************)
(* Memory Stores                                                           *)
(***************************************************************************)

\* a head, a version, and a partial function of paths with values in V
HeadType == [id : Nat, content : Contents, version : Nat]
VersionType == [n : Nat, id : Nat, content : Contents \cup {NoContent},
                over : Contents \cup {NoContent}, redacted : BOOLEAN]
PathSets == {D \in SUBSET Paths : IsFiniteSet(D)}
ByPath(V) == UNION {[D -> V] : D \in PathSets}

MemPcs == {"reconcile", "sync", "restore", "publish", "lock", "run", "writeback", "wbSync",
           "wbRestore", "wbPublish", "done"}

\* the copy of the Store in a sandbox, and a tool execution
MemoryBox == [init : BOOLEAN, base : ByPath(HeadType), files : ByPath(Contents)]
ToolType == [pc : MemPcs, path : Paths \cup {NoContent}, saw : Contents \cup {NoContent},
             result : {"none", "ok", "error"}, snap : ByPath(HeadType)]

\* what the variables hold
MemoryTyped ==
    /\ heads \in ByPath(HeadType)
    /\ mbox \in [MemSessions -> MemoryBox]
    /\ mtool \in [MemTools -> ToolType]

\* versions are numbered in the order they were appended
VersionsNumbered ==
    /\ IsFiniteSet(versions) /\ versions \subseteq VersionType
    /\ \A v \in versions : v.n \in 1..Cardinality(versions) /\ v.id \in 1..Cardinality(versions)
    /\ \A v, w \in versions : v.n = w.n => v = w

\* a Memory has one path
OnePathEach == \A p, q \in DOMAIN heads : heads[p].id = heads[q].id => p = q

\* the tools of a Session, and whether a tool has run
ToolsOf(s) == {t \in MemTools : HomeOf[t] = s}
Ran(t) == mtool[t].pc \in {"writeback", "wbSync", "wbRestore", "wbPublish", "done"}
SomeToolSaw(s, content) == \E u \in ToolsOf(s) : Ran(u) /\ mtool[u].saw = content

\* what a sandbox holds beyond its baseline was written by a tool of the Session,
\* and one of them saw the baseline's content at that path
WritesWereSeen(s, box) ==
    /\ \A p \in DOMAIN box.files :
          box.files[p] # Content(box.base, p) =>
             box.files[p] \in ToolsOf(s) /\ SomeToolSaw(s, Content(box.base, p))
    /\ \A p \in DOMAIN box.base \ DOMAIN box.files : SomeToolSaw(s, box.base[p].content)

\* of every sandbox
ChangesWereSeen == \A s \in MemSessions : WritesWereSeen(s, mbox[s])

\* what a version of a tool replaced was seen by a tool of the Session that has run
OverwritesWereSeen ==
    \A t \in MemTools, v \in versions :
        v.content = t /\ v.over # t => SomeToolSaw(HomeOf[t], v.over)

\* the inductive invariant of a Store
MemoryInv ==
    /\ MemoryTyped /\ VersionsNumbered /\ OnePathEach /\ HeadsAreVersions
    /\ Cardinality(DOMAIN heads) <= MaxMemories
    /\ ChangesWereSeen /\ OverwritesWereSeen

\* A partial function of paths is known by its domain and its values.
LEMMA ByPathIs ==
    ASSUME NEW V, NEW f
    PROVE  f \in ByPath(V) <=> (f \in [DOMAIN f -> V] /\ DOMAIN f \subseteq Paths
          /\ IsFiniteSet(DOMAIN f))
<1>1. ASSUME f \in ByPath(V)
      PROVE  f \in [DOMAIN f -> V] /\ DOMAIN f \subseteq Paths /\ IsFiniteSet(DOMAIN f)
  <2>1. PICK D \in PathSets : f \in [D -> V]
    BY <1>1 DEF ByPath
  <2>2. D \subseteq Paths /\ IsFiniteSet(D) /\ DOMAIN f = D
    BY <2>1 DEF PathSets
  <2> QED BY <2>1, <2>2
<1>2. ASSUME f \in [DOMAIN f -> V], DOMAIN f \subseteq Paths, IsFiniteSet(DOMAIN f)
      PROVE  f \in ByPath(V)
  <2>1. DOMAIN f \in PathSets
    BY <1>2 DEF PathSets
  <2> QED BY <1>2, <2>1 DEF ByPath
<1> QED BY <1>1, <1>2

\* The empty partial function.
LEMMA EmptyIs ==
    ASSUME NEW V
    PROVE  Empty \in ByPath(V) /\ DOMAIN Empty = {}
<1>1. DOMAIN Empty = {} /\ Empty \in [DOMAIN Empty -> V]
  BY DEF Empty
<1>2. IsFiniteSet({}) /\ {} \subseteq Paths
  BY FS_EmptySet
<1> QED BY <1>1, <1>2, ByPathIs

\* A partial function with one value set.
LEMMA WithIs ==
    ASSUME NEW V, NEW f \in ByPath(V), NEW p \in Paths, NEW v \in V
    PROVE  /\ With(f, p, v) \in ByPath(V) /\ DOMAIN With(f, p, v) = DOMAIN f \cup {p}
           /\ With(f, p, v)[p] = v /\ \A r \in DOMAIN f \ {p} : With(f, p, v)[r] = f[r]
<1>1. f \in [DOMAIN f -> V] /\ DOMAIN f \subseteq Paths /\ IsFiniteSet(DOMAIN f)
  BY ByPathIs
<1>2. /\ DOMAIN With(f, p, v) = DOMAIN f \cup {p}
      /\ With(f, p, v)[p] = v /\ \A r \in DOMAIN f \ {p} : With(f, p, v)[r] = f[r]
      /\ With(f, p, v) \in [DOMAIN f \cup {p} -> V]
  BY <1>1 DEF With
<1>3. IsFiniteSet(DOMAIN f \cup {p})
  BY <1>1, FS_AddElement
<1> QED BY <1>1, <1>2, <1>3, ByPathIs

\* A partial function without some of its paths.
LEMMA WithoutIs ==
    ASSUME NEW V, NEW f \in ByPath(V), NEW gone
    PROVE  /\ Without(f, gone) \in ByPath(V) /\ DOMAIN Without(f, gone) = DOMAIN f \ gone
           /\ \A q \in DOMAIN f \ gone : Without(f, gone)[q] = f[q]
<1>1. f \in [DOMAIN f -> V] /\ DOMAIN f \subseteq Paths /\ IsFiniteSet(DOMAIN f)
  BY ByPathIs
<1>2. /\ DOMAIN Without(f, gone) = DOMAIN f \ gone
      /\ \A q \in DOMAIN f \ gone : Without(f, gone)[q] = f[q]
      /\ Without(f, gone) \in [DOMAIN f \ gone -> V]
  BY <1>1 DEF Without
<1>3. IsFiniteSet(DOMAIN f \ gone)
  BY <1>1, FS_Difference
<1> QED BY <1>1, <1>2, <1>3, ByPathIs

\* Finitely many things can be numbered from a number on.
LEMMA NumberingExists ==
    ASSUME NEW S, IsFiniteSet(S), NEW c \in Nat
    PROVE  \E f \in [S -> (c + 1)..(c + Cardinality(S))] : \A p, q \in S : p # q => f[p] # f[q]
<1>1. PICK k \in Nat : k = Cardinality(S)
  BY FS_CardinalityType
<1>2. ExistsBijection(1..k, S)
  BY <1>1, FS_CardinalityType
<1>3. ExistsBijection(S, 1..k)
  BY <1>2, Fun_ExistsBijSymmetric
<1>4. PICK g \in Bijection(S, 1..k) : TRUE
  BY <1>3 DEF ExistsBijection
<1>5. g \in [S -> 1..k] /\ \A p, q \in S : g[p] = g[q] => p = q
  BY <1>4 DEF Bijection, Injection, IsInjective
<1> DEFINE f == [p \in S |-> c + g[p]]
<1>6. \A p \in S : g[p] \in 1..k
  BY <1>5
<1>7. f \in [S -> (c + 1)..(c + k)]
  BY <1>6
<1>8. \A p, q \in S : p # q => f[p] # f[q]
  BY <1>5, <1>6
<1> HIDE DEF f
<1> QED BY <1>1, <1>7, <1>8

\* A set that an injective function enumerates has as many elements as its domain.
LEMMA ImageCounts ==
    ASSUME NEW S, IsFiniteSet(S), NEW f, DOMAIN f = S, f = [x \in S |-> f[x]],
           \A x, y \in S : f[x] = f[y] => x = y
    PROVE  IsFiniteSet({f[x] : x \in S}) /\ Cardinality({f[x] : x \in S}) = Cardinality(S)
<1> DEFINE T == {f[x] : x \in S}
<1>1. f \in [S -> T]
  OBVIOUS
<1>2. f \in Surjection(S, T)
  BY <1>1 DEF Surjection
<1>3. f \in Injection(S, T)
  BY <1>1 DEF Injection, IsInjective
<1> HIDE DEF T
<1>4. IsFiniteSet(T) /\ Cardinality(T) = Cardinality(S)
  BY <1>2, <1>3, FS_Surjection
<1> QED BY <1>4 DEF T

\* New versions get the next numbers; of a Memory that has a new one, it is the
\* last: the heads that are written name it, the others keep theirs.
LEMMA VersionsAppended ==
    ASSUME VersionsNumbered, HeadsAreVersions, NEW k \in Nat, NEW new,
           versions' = versions \cup new, IsFiniteSet(new), Cardinality(new) = k,
           new \subseteq VersionType,
           \A v \in new : /\ v.n \in (Cardinality(versions) + 1)..(Cardinality(versions) + k)
                          /\ v.id \in 1..(Cardinality(versions) + k) /\ ~v.redacted,
           \A v, w \in new : v.n = w.n \/ v.id = w.id => v = w,
           \A p \in DOMAIN heads' :
              \/ /\ p \in DOMAIN heads /\ heads'[p] = heads[p]
                 /\ \A v \in new : v.id # heads[p].id
              \/ \E v \in new : v.n = heads'[p].version /\ v.id = heads'[p].id
                                /\ v.content = heads'[p].content
    PROVE  VersionsNumbered' /\ HeadsAreVersions'
<1>1. PICK c \in Nat : c = Cardinality(versions)
  BY FS_CardinalityType DEF VersionsNumbered
<1>2. \A v \in versions : v.n \in 1..c /\ v.id \in 1..c
  BY <1>1 DEF VersionsNumbered
<1>3. \A v \in new : v.n \in (c + 1)..(c + k) /\ v.id \in 1..(c + k) /\ ~v.redacted
  BY <1>1
<1>4. \A v \in versions, w \in new : v.n # w.n /\ v.n <= w.n
  BY <1>2, <1>3
<1>5. versions \cap new = {}
  BY <1>4
<1>6. IsFiniteSet(versions') /\ Cardinality(versions') = c + k
  <2>1. IsFiniteSet(versions)
    BY DEF VersionsNumbered
  <2>2. /\ IsFiniteSet(versions \cup new)
        /\ Cardinality(versions
            \cup new) = Cardinality(versions) + Cardinality(new) - Cardinality(versions \cap new)
    BY <2>1, FS_Union
  <2>3. Cardinality(versions \cap new) = 0
    BY <1>5, FS_EmptySet
  <2> QED BY <1>1, <2>2, <2>3
<1>7. VersionsNumbered'
  <2>1. versions' \subseteq VersionType
    BY DEF VersionsNumbered
  <2>2. \A v \in versions' : v.n \in 1..(c + k) /\ v.id \in 1..(c + k)
    BY <1>2, <1>3
  <2>3. \A v, w \in versions' : v.n = w.n => v = w
    BY <1>4 DEF VersionsNumbered
  <2> QED BY <2>1, <2>2, <2>3, <1>6 DEF VersionsNumbered
<1>8. ASSUME NEW p \in DOMAIN heads'
      PROVE  \E v \in versions' :
                /\ v.n = heads'[p].version /\ v.id = heads'[p].id
                /\ v.content = heads'[p].content /\ ~v.redacted
                /\ \A w \in versions' : w.id = v.id => w.n <= v.n
  <2>1. CASE /\ p \in DOMAIN heads /\ heads'[p] = heads[p]
             /\ \A v \in new : v.id # heads[p].id
    <3>1. PICK v \in versions :
             /\ v.n = heads[p].version /\ v.id = heads[p].id
             /\ v.content = heads[p].content /\ ~v.redacted
             /\ \A w \in versions : w.id = v.id => w.n <= v.n
      BY <2>1 DEF HeadsAreVersions
    <3> QED BY <2>1, <3>1
  <2>2. CASE \E v \in new : v.n = heads'[p].version /\ v.id = heads'[p].id
                            /\ v.content = heads'[p].content
    <3>1. PICK v \in new : v.n = heads'[p].version /\ v.id = heads'[p].id
                           /\ v.content = heads'[p].content
      BY <2>2
    <3>2. v.n \in Nat
      BY <1>3
    <3>3. \A w \in versions' : w.id = v.id => w.n <= v.n
      BY <1>4, <3>1, <3>2
    <3> QED BY <3>1, <3>3, <1>3
  <2> QED BY <2>1, <2>2
<1>9. HeadsAreVersions'
  BY <1>8 DEF HeadsAreVersions
<1> QED BY <1>7, <1>9

\* The inductive invariant holds when no Session has a copy.
LEMMA MemoryInitInv == MemoryInit => MemoryInv
<1> SUFFICES ASSUME MemoryInit PROVE MemoryInv
  OBVIOUS
<1>1. heads = Empty /\ versions = {}
      /\ mbox = [s \in MemSessions |-> [init |-> FALSE, base |-> Empty, files |-> Empty]]
      /\ mtool = [t \in MemTools |-> [pc |-> "reconcile", path |-> NoContent, saw |-> NoContent,
                                      result |-> "none", snap |-> Empty]]
  BY DEF MemoryInit
<1>2. Empty \in ByPath(HeadType) /\ Empty \in ByPath(Contents) /\ DOMAIN Empty = {}
  BY EmptyIs
<1>3. MemoryTyped
  <2> HIDE DEF Empty
  <2>1. [init |-> FALSE, base |-> Empty, files |-> Empty] \in MemoryBox
    BY <1>2 DEF MemoryBox
  <2>2. [pc |-> "reconcile", path |-> NoContent, saw |-> NoContent,
         result |-> "none", snap |-> Empty] \in ToolType
    BY <1>2 DEF ToolType, MemPcs
  <2> QED BY <1>1, <1>2, <2>1, <2>2 DEF MemoryTyped
<1>4. VersionsNumbered /\ OverwritesWereSeen
  BY <1>1, FS_EmptySet DEF VersionsNumbered, OverwritesWereSeen
<1>5. OnePathEach /\ HeadsAreVersions
  BY <1>1, <1>2 DEF OnePathEach, HeadsAreVersions
<1>6. Cardinality(DOMAIN heads) <= MaxMemories
  BY <1>1, <1>2, FS_EmptySet, MemoryAssumption
<1>7. ChangesWereSeen
  <2> SUFFICES ASSUME NEW s \in MemSessions
               PROVE  DOMAIN mbox[s].files = {} /\ DOMAIN mbox[s].base = {}
    BY DEF ChangesWereSeen, WritesWereSeen
  <2> QED BY <1>1, <1>2
<1> QED BY <1>3, <1>4, <1>5, <1>6, <1>7 DEF MemoryInv

\* What a tool that has run saw is kept by every step of the tools.
LEMMA ToolMoves ==
    ASSUME MemoryTyped, NEW t \in MemTools, NEW tool \in ToolType,
           mtool' = [mtool EXCEPT ![t] = tool],
           Ran(t) => /\ tool.saw = mtool[t].saw
                     /\ tool.pc \in {"writeback", "wbSync", "wbRestore", "wbPublish", "done"}
    PROVE  /\ mtool' \in [MemTools -> ToolType]
           /\ \A s \in MemSessions : \A c : SomeToolSaw(s, c) => SomeToolSaw(s, c)'
<1>1. mtool \in [MemTools -> ToolType]
  BY DEF MemoryTyped
<1>2. mtool' \in [MemTools -> ToolType]
  BY <1>1
<1>3. \A u \in MemTools : Ran(u) => Ran(u)' /\ mtool'[u].saw = mtool[u].saw
  BY <1>1 DEF Ran
<1>4. ASSUME NEW s \in MemSessions, NEW c, SomeToolSaw(s, c)
      PROVE  SomeToolSaw(s, c)'
  <2>1. PICK u \in ToolsOf(s) : Ran(u) /\ mtool[u].saw = c
    BY <1>4 DEF SomeToolSaw
  <2>2. u \in MemTools
    BY <2>1 DEF ToolsOf
  <2>3. Ran(u)' /\ mtool'[u].saw = c
    BY <2>1, <2>2, <1>3
  <2> QED BY <2>1, <2>3 DEF SomeToolSaw
<1> QED BY <1>2, <1>4

\* The heads that a Store has name ids and versions that were given.
LEMMA HeadsAreNumbered ==
    ASSUME MemoryInv, NEW p \in DOMAIN heads
    PROVE  /\ heads[p] \in HeadType /\ p \in Paths
           /\ heads[p].id \in 1..Cardinality(versions)
           /\ heads[p].version \in 1..Cardinality(versions)
<1>1. heads \in ByPath(HeadType)
  BY DEF MemoryInv, MemoryTyped
<1>2. heads \in [DOMAIN heads -> HeadType] /\ DOMAIN heads \subseteq Paths
  BY <1>1, ByPathIs
<1>3. PICK v \in versions : v.n = heads[p].version /\ v.id = heads[p].id
  BY DEF MemoryInv, HeadsAreVersions
<1>4. v.n \in 1..Cardinality(versions) /\ v.id \in 1..Cardinality(versions)
  BY DEF MemoryInv, VersionsNumbered
<1> QED BY <1>2, <1>3, <1>4

\* A client's write appends one version: of the head it leaves, or of the Memory
\* that it deletes.
LEMMA OneAppended ==
    ASSUME MemoryInv, NEW id \in 1..NextVersion,
           NEW c \in Contents \cup {NoContent}, NEW over \in Contents \cup {NoContent},
           c \in MemTools => c = over,
           versions' = versions \cup {Version(NextVersion, id, c, over)},
           \A p \in DOMAIN heads' :
              \/ p \in DOMAIN heads /\ heads'[p] = heads[p] /\ heads[p].id # id
              \/ heads'[p] = [id |-> id, content |-> c, version |-> NextVersion],
           heads' \in ByPath(HeadType), OnePathEach',
           Cardinality(DOMAIN heads') <= MaxMemories,
           mbox' = mbox, mtool' = mtool
    PROVE  MemoryInv'
<1>1. PICK n \in Nat : n = Cardinality(versions)
  BY FS_CardinalityType DEF MemoryInv, VersionsNumbered
<1>2. NextVersion = n + 1
  BY <1>1 DEF NextVersion
<1> DEFINE v == Version(n + 1, id, c, over)
           new == {v}
<1>3. v.n = n + 1 /\ v.id = id /\ v.content = c /\ v.over = over /\ ~v.redacted /\ v \in VersionType
  <2>1. v = [n |-> n + 1, id |-> id, content |-> c, over |-> over, redacted |-> FALSE]
    BY DEF Version
  <2>2. id \in Nat /\ n + 1 \in Nat
    BY <1>2
  <2> HIDE DEF v
  <2> QED BY <2>1, <2>2 DEF VersionType
<1>4. versions' = versions \cup new
  BY <1>2
<1> HIDE DEF v
<1>5. IsFiniteSet(new) /\ Cardinality(new) = 1
  BY FS_Singleton
<1>6. \A w \in new : w = v
  OBVIOUS
<1>7. VersionsNumbered' /\ HeadsAreVersions'
  <2>1. \A w \in new : /\ w.n \in (Cardinality(versions) + 1)..(Cardinality(versions) + 1)
                       /\ w.id \in 1..(Cardinality(versions) + 1) /\ ~w.redacted
    BY <1>1, <1>2, <1>3, <1>6
  <2>2. \A w, x \in new : w.n = x.n \/ w.id = x.id => w = x
    BY <1>6
  <2>3. \A p \in DOMAIN heads' :
              \/ /\ p \in DOMAIN heads /\ heads'[p] = heads[p]
                 /\ \A w \in new : w.id # heads[p].id
              \/ \E w \in new : w.n = heads'[p].version /\ w.id = heads'[p].id
                                /\ w.content = heads'[p].content
    BY <1>2, <1>3, <1>6
  <2>4. new \subseteq VersionType /\ VersionsNumbered /\ HeadsAreVersions
    BY <1>3, <1>6 DEF MemoryInv
  <2> HIDE DEF new
  <2> QED BY <1>4, <1>5, <2>1, <2>2, <2>3, <2>4, VersionsAppended
<1>8. OverwritesWereSeen'
  <2> SUFFICES ASSUME NEW t \in MemTools, NEW w \in versions', w.content = t, w.over # t
               PROVE  SomeToolSaw(HomeOf[t], w.over)'
    BY DEF OverwritesWereSeen
  <2>1. w \in versions
    BY <1>3, <1>4
  <2>2. SomeToolSaw(HomeOf[t], w.over)
    BY <2>1 DEF MemoryInv, OverwritesWereSeen
  <2> QED BY <2>2 DEF SomeToolSaw, Ran
<1>9. ChangesWereSeen' /\ MemoryTyped'
  BY DEF MemoryInv, ChangesWereSeen, WritesWereSeen, SomeToolSaw, Ran, MemoryTyped
<1> QED BY <1>7, <1>8, <1>9 DEF MemoryInv

\* A Memory that a client creates is a new one, with the first version of it.
LEMMA CreateMemoryStep ==
    ASSUME MemoryInv, NEW p \in Paths, NEW c \in ClientContents, CreateMemory(p, c)
    PROVE  MemoryInv'
<1>1. PICK n \in Nat : n = Cardinality(versions)
  BY FS_CardinalityType DEF MemoryInv, VersionsNumbered
<1>2. NextVersion = n + 1
  BY <1>1 DEF NextVersion
<1> DEFINE head == [id |-> n + 1, content |-> c, version |-> n + 1]
<1>3. head \in HeadType
  BY DEF HeadType, Contents
<1>4. /\ p \notin DOMAIN heads /\ Cardinality(DOMAIN heads) < MaxMemories
      /\ heads' = With(heads, p, head)
      /\ versions' = versions \cup {Version(NextVersion, n + 1, c, NoContent)}
      /\ mbox' = mbox /\ mtool' = mtool
  BY <1>2 DEF CreateMemory
<1>5. heads \in ByPath(HeadType)
  BY DEF MemoryInv, MemoryTyped
<1>6. head.id = n + 1
  OBVIOUS
<1> HIDE DEF head
<1>7. /\ heads' \in ByPath(HeadType) /\ DOMAIN heads' = DOMAIN heads \cup {p}
      /\ heads'[p] = head /\ \A q \in DOMAIN heads \ {p} : heads'[q] = heads[q]
  BY <1>3, <1>4, <1>5, WithIs
<1>8. \A q \in DOMAIN heads : heads[q].id \in 1..n
  BY <1>1, HeadsAreNumbered
<1>9. \A q \in DOMAIN heads : heads[q].id # n + 1
  BY <1>8
<1>10. OnePathEach'
  <2>1. OnePathEach
    BY DEF MemoryInv
  <2> QED BY <1>4, <1>6, <1>7, <1>9, <2>1 DEF OnePathEach
<1>11. Cardinality(DOMAIN heads') <= MaxMemories
  <2>1. IsFiniteSet(DOMAIN heads)
    BY <1>5, ByPathIs
  <2>2. Cardinality(DOMAIN heads \cup {p}) = Cardinality(DOMAIN heads) + 1
    BY <1>4, <2>1, FS_AddElement
  <2>3. Cardinality(DOMAIN heads) \in Nat /\ MaxMemories \in Nat
    BY <2>1, FS_CardinalityType, MemoryAssumption
  <2> QED BY <1>4, <1>7, <2>2, <2>3
<1>12. \A q \in DOMAIN heads' :
          \/ q \in DOMAIN heads /\ heads'[q] = heads[q] /\ heads[q].id # n + 1
          \/ heads'[q] = [id |-> n + 1, content |-> c, version |-> NextVersion]
  BY <1>2, <1>4, <1>7, <1>9 DEF head
<1>13. n + 1 \in 1..NextVersion /\ c \in Contents \cup {NoContent} /\ c \notin MemTools
  BY <1>2, MemoryAssumption DEF Contents
<1> QED BY <1>4, <1>7, <1>10, <1>11, <1>12, <1>13, OneAppended

\* A Memory that a client updates keeps its id; it may move to a free path.
LEMMA UpdateMemoryStep ==
    ASSUME MemoryInv, NEW p \in Paths, NEW q \in Paths, NEW c \in Contents \cup {NoContent},
           NEW x, c \in ClientContents \cup {Content(heads, p)}, UpdateMemory(p, q, c, x)
    PROVE  MemoryInv'
<1>1. PICK n \in Nat : n = Cardinality(versions)
  BY FS_CardinalityType DEF MemoryInv, VersionsNumbered
<1>2. NextVersion = n + 1
  BY <1>1 DEF NextVersion
<1>3. /\ p \in DOMAIN heads /\ (q = p \/ q \notin DOMAIN heads)
      /\ heads' = With(Without(heads, {p}), q,
                       [id |-> heads[p].id, content |-> c, version |-> NextVersion])
      /\ versions' = versions \cup {Version(NextVersion, heads[p].id, c, heads[p].content)}
      /\ mbox' = mbox /\ mtool' = mtool
  BY DEF UpdateMemory
<1>4. heads[p] \in HeadType /\ heads[p].id \in 1..n
  BY <1>1, <1>3, HeadsAreNumbered
<1>5. PICK id \in 1..n, old \in Contents : id = heads[p].id /\ old = heads[p].content
  BY <1>4 DEF HeadType
<1> DEFINE head == [id |-> id, content |-> c, version |-> n + 1]
<1>6. c \in Contents /\ (c \in MemTools => c = old)
  BY <1>3, <1>5, MemoryAssumption DEF Contents, Content
<1>7. head \in HeadType
  BY <1>6 DEF HeadType
<1>8. head.id = id /\ heads' = With(Without(heads, {p}), q, head)
  BY <1>2, <1>3, <1>5
<1> HIDE DEF head
<1>9. heads \in ByPath(HeadType)
  BY DEF MemoryInv, MemoryTyped
<1>10. PICK rest : rest = Without(heads, {p})
  OBVIOUS
<1>11. /\ rest \in ByPath(HeadType) /\ DOMAIN rest = DOMAIN heads \ {p}
       /\ \A r \in DOMAIN heads \ {p} : rest[r] = heads[r]
  BY <1>9, <1>10, WithoutIs
<1>12. /\ heads' \in ByPath(HeadType) /\ DOMAIN heads' = DOMAIN rest \cup {q}
       /\ heads'[q] = head /\ \A r \in DOMAIN rest \ {q} : heads'[r] = rest[r]
  <2>1. heads' = With(rest, q, head)
    BY <1>8, <1>10
  <2>2. /\ With(rest, q, head) \in ByPath(HeadType) /\ DOMAIN With(rest, q, head) = DOMAIN rest \cup {q}
        /\ With(rest, q, head)[q] = head
        /\ \A r \in DOMAIN rest \ {q} : With(rest, q, head)[r] = rest[r]
    <3>1. rest \in ByPath(HeadType) /\ head \in HeadType /\ q \in Paths
      BY <1>7, <1>11
    <3> QED BY <3>1, WithIs DEF With
  <2> QED BY <2>1, <2>2
<1>13. \A r \in DOMAIN heads : r # p => heads[r].id # id
  BY <1>3, <1>5 DEF MemoryInv, OnePathEach
<1>14. q \notin DOMAIN rest
  BY <1>3, <1>11
<1>15. OnePathEach'
  <2>1. OnePathEach
    BY DEF MemoryInv
  <2>2. \A r \in DOMAIN heads' : r # q =>
           r \in DOMAIN heads /\ r # p /\ heads'[r] = heads[r] /\ heads[r].id # id
    BY <1>11, <1>12, <1>13
  <2>3. heads'[q].id = id
    BY <1>8, <1>12
  <2> SUFFICES ASSUME NEW r \in DOMAIN heads', NEW s \in DOMAIN heads', heads'[r].id = heads'[s].id
               PROVE  r = s
    BY DEF OnePathEach
  <2>4. CASE r = q \/ s = q
    BY <2>2, <2>3, <2>4
  <2>5. CASE r # q /\ s # q
    BY <2>1, <2>2, <2>5 DEF OnePathEach
  <2> QED BY <2>4, <2>5
<1>16. Cardinality(DOMAIN heads') <= MaxMemories
  <2>1. IsFiniteSet(DOMAIN heads)
    BY <1>9, ByPathIs
  <2>2. Cardinality(DOMAIN rest) = Cardinality(DOMAIN heads) - 1 /\ IsFiniteSet(DOMAIN rest)
    BY <1>3, <1>11, <2>1, FS_RemoveElement
  <2>3. Cardinality(DOMAIN heads') = Cardinality(DOMAIN rest) + 1
    BY <1>12, <1>14, <2>2, FS_AddElement
  <2>4. Cardinality(DOMAIN heads) \in Nat /\ MaxMemories \in Nat
    BY <2>1, FS_CardinalityType, MemoryAssumption
  <2>5. Cardinality(DOMAIN heads) <= MaxMemories
    BY DEF MemoryInv
  <2> QED BY <2>2, <2>3, <2>4, <2>5
<1>17. \A r \in DOMAIN heads' :
          \/ r \in DOMAIN heads /\ heads'[r] = heads[r] /\ heads[r].id # id
          \/ heads'[r] = [id |-> id, content |-> c, version |-> NextVersion]
  BY <1>2, <1>11, <1>12, <1>13 DEF head
<1>18. id \in 1..NextVersion
  BY <1>2
<1>19. versions' = versions \cup {Version(NextVersion, id, c, old)}
  BY <1>3, <1>5
<1> QED BY <1>3, <1>5, <1>6, <1>12, <1>15, <1>16, <1>17, <1>18, <1>19, OneAppended

\* A Memory that a client deletes keeps its history, with one more version.
LEMMA DeleteMemoryStep ==
    ASSUME MemoryInv, NEW p \in Paths, NEW x, DeleteMemory(p, x)
    PROVE  MemoryInv'
<1>1. PICK n \in Nat : n = Cardinality(versions)
  BY FS_CardinalityType DEF MemoryInv, VersionsNumbered
<1>2. NextVersion = n + 1
  BY <1>1 DEF NextVersion
<1>3. /\ p \in DOMAIN heads /\ heads' = Without(heads, {p})
      /\ versions' = versions \cup {Version(NextVersion, heads[p].id, NoContent, heads[p].content)}
      /\ mbox' = mbox /\ mtool' = mtool
  BY DEF DeleteMemory
<1>4. heads[p] \in HeadType /\ heads[p].id \in 1..n
  BY <1>1, <1>3, HeadsAreNumbered
<1>5. PICK id \in 1..n, old \in Contents : id = heads[p].id /\ old = heads[p].content
  BY <1>4 DEF HeadType
<1>6. heads \in ByPath(HeadType)
  BY DEF MemoryInv, MemoryTyped
<1>7. /\ heads' \in ByPath(HeadType) /\ DOMAIN heads' = DOMAIN heads \ {p}
      /\ \A r \in DOMAIN heads \ {p} : heads'[r] = heads[r]
  <2>1. /\ Without(heads, {p}) \in ByPath(HeadType) /\ DOMAIN Without(heads, {p}) = DOMAIN heads \ {p}
        /\ \A r \in DOMAIN heads \ {p} : Without(heads, {p})[r] = heads[r]
    BY <1>6, WithoutIs
  <2> QED BY <1>3, <2>1
<1>8. \A r \in DOMAIN heads : r # p => heads[r].id # id
  BY <1>3, <1>5 DEF MemoryInv, OnePathEach
<1>9. OnePathEach'
  BY <1>7 DEF MemoryInv, OnePathEach
<1>10. Cardinality(DOMAIN heads') <= MaxMemories
  <2>1. IsFiniteSet(DOMAIN heads)
    BY <1>6, ByPathIs
  <2>2. Cardinality(DOMAIN heads') = Cardinality(DOMAIN heads) - 1
    BY <1>3, <1>7, <2>1, FS_RemoveElement
  <2>3. Cardinality(DOMAIN heads) \in Nat /\ MaxMemories \in Nat
    BY <2>1, FS_CardinalityType, MemoryAssumption
  <2>4. Cardinality(DOMAIN heads) <= MaxMemories
    BY DEF MemoryInv
  <2> QED BY <2>2, <2>3, <2>4
<1>11. \A r \in DOMAIN heads' :
          \/ r \in DOMAIN heads /\ heads'[r] = heads[r] /\ heads[r].id # id
          \/ heads'[r] = [id |-> id, content |-> NoContent, version |-> NextVersion]
  BY <1>7, <1>8
<1>12. id \in 1..NextVersion /\ NoContent \notin MemTools
  BY <1>2, MemoryAssumption
<1>13. versions' = versions \cup {Version(NextVersion, id, NoContent, old)}
  BY <1>3, <1>5
<1> QED BY <1>3, <1>7, <1>9, <1>10, <1>11, <1>12, <1>13, OneAppended

\* Redaction leaves the number, the Memory and the current versions alone.
LEMMA RedactStep ==
    ASSUME MemoryInv, RedactMemoryVersion
    PROVE  MemoryInv'
<1>1. PICK v \in versions :
         /\ Redactable(v) /\ versions' = (versions \ {v}) \cup {[v EXCEPT !.redacted = TRUE]}
  BY DEF RedactMemoryVersion
<1>2. heads' = heads /\ mbox' = mbox /\ mtool' = mtool
  BY DEF RedactMemoryVersion
<1>3. VersionsNumbered /\ HeadsAreVersions /\ OverwritesWereSeen
  BY DEF MemoryInv
<1>4. PICK w : w = [v EXCEPT !.redacted = TRUE]
  OBVIOUS
<1>5. v \in VersionType
  BY <1>3 DEF VersionsNumbered
<1>6. /\ w \in VersionType /\ w.n = v.n /\ w.id = v.id /\ w.content = v.content
      /\ w.over = v.over
  BY <1>4, <1>5 DEF VersionType
<1>7. versions' = (versions \ {v}) \cup {w}
  BY <1>1, <1>4
<1>8. \A x \in versions \ {v} : x.n # v.n
  BY <1>3 DEF VersionsNumbered
<1>9. w \notin versions \ {v}
  BY <1>6, <1>8
<1>10. IsFiniteSet(versions') /\ Cardinality(versions') = Cardinality(versions)
  <2>1. IsFiniteSet(versions) /\ Cardinality(versions) \in Nat
    BY <1>3, FS_CardinalityType DEF VersionsNumbered
  <2>2. IsFiniteSet(versions \ {v}) /\ Cardinality(versions \ {v}) = Cardinality(versions) - 1
    BY <2>1, FS_RemoveElement
  <2>3. /\ IsFiniteSet((versions \ {v}) \cup {w})
        /\ Cardinality((versions \ {v}) \cup {w}) = Cardinality(versions \ {v}) + 1
    BY <1>9, <2>2, FS_AddElement
  <2> QED BY <1>7, <2>1, <2>2, <2>3
<1>11. \A x \in versions' : \E y \in versions :
          y.n = x.n /\ y.id = x.id /\ y.content = x.content /\ y.over = x.over
  BY <1>6, <1>7
<1>12. VersionsNumbered'
  <2>1. versions' \subseteq VersionType
    BY <1>3, <1>6, <1>7 DEF VersionsNumbered
  <2>2. \A x \in versions' : x.n \in 1..Cardinality(versions') /\ x.id \in 1..Cardinality(versions')
    BY <1>3, <1>10, <1>11 DEF VersionsNumbered
  <2>3. \A x, y \in versions' : x.n = y.n => x = y
    BY <1>3, <1>6, <1>7, <1>8 DEF VersionsNumbered
  <2> QED BY <1>10, <2>1, <2>2, <2>3 DEF VersionsNumbered
<1>13. HeadsAreVersions'
  <2> SUFFICES ASSUME NEW p \in DOMAIN heads
               PROVE  \E x \in versions' :
                        /\ x.n = heads[p].version /\ x.id = heads[p].id
                        /\ x.content = heads[p].content /\ ~x.redacted
                        /\ \A y \in versions' : y.id = x.id => y.n <= x.n
    BY <1>2 DEF HeadsAreVersions
  <2>1. PICK x \in versions :
           /\ x.n = heads[p].version /\ x.id = heads[p].id
           /\ x.content = heads[p].content /\ ~x.redacted
           /\ \A y \in versions : y.id = x.id => y.n <= x.n
    BY <1>3 DEF HeadsAreVersions
  <2>2. x # v
    BY <1>1, <2>1 DEF Redactable
  <2>3. \A y \in versions' : y.id = x.id => y.n <= x.n
    BY <1>11, <2>1
  <2> QED BY <1>7, <2>1, <2>2, <2>3
<1>14. OverwritesWereSeen'
  <2> SUFFICES ASSUME NEW t \in MemTools, NEW x \in versions', x.content = t, x.over # t
               PROVE  SomeToolSaw(HomeOf[t], x.over)'
    BY DEF OverwritesWereSeen
  <2>1. SomeToolSaw(HomeOf[t], x.over)
    BY <1>3, <1>11 DEF OverwritesWereSeen
  <2> QED BY <1>2, <2>1 DEF SomeToolSaw, Ran
<1>15. OnePathEach' /\ ChangesWereSeen' /\ MemoryTyped' /\ Cardinality(DOMAIN heads') <= MaxMemories
  BY <1>2 DEF MemoryInv, OnePathEach, ChangesWereSeen, WritesWereSeen, SomeToolSaw, Ran, MemoryTyped
<1> QED BY <1>12, <1>13, <1>14, <1>15 DEF MemoryInv

\* What was seen in a sandbox that a step leaves alone is still seen.
LEMMA OthersKept ==
    ASSUME MemoryInv, NEW s \in MemSessions, mbox'[s] = mbox[s],
           \A c : SomeToolSaw(s, c) => SomeToolSaw(s, c)'
    PROVE  WritesWereSeen(s, mbox[s])'
<1>1. WritesWereSeen(s, mbox[s])
  BY DEF MemoryInv, ChangesWereSeen
<1>2. PICK box : box = mbox[s]
  OBVIOUS
<1>3. WritesWereSeen(s, box)'
  BY <1>1, <1>2 DEF WritesWereSeen
<1> QED BY <1>2, <1>3

\* A step that leaves the Store alone keeps what is known of its history.
LEMMA StoreKept ==
    ASSUME MemoryInv, heads' = heads, versions' = versions,
           NEW t \in MemTools, NEW tool \in ToolType, mtool' = [mtool EXCEPT ![t] = tool],
           Ran(t) => /\ tool.saw = mtool[t].saw
                     /\ tool.pc \in {"writeback", "wbSync", "wbRestore", "wbPublish", "done"},
           mbox' \in [MemSessions -> MemoryBox],
           mbox' = mbox \/ ChangesWereSeen'
    PROVE  MemoryInv'
<1>1. MemoryTyped
  BY DEF MemoryInv
<1>2. /\ mtool' \in [MemTools -> ToolType]
      /\ \A s \in MemSessions : \A c : SomeToolSaw(s, c) => SomeToolSaw(s, c)'
  BY <1>1, ToolMoves
<1>3. MemoryTyped'
  BY <1>1, <1>2 DEF MemoryTyped
<1>4. OverwritesWereSeen'
  BY <1>2, MemoryAssumption DEF MemoryInv, OverwritesWereSeen
<1>5. VersionsNumbered' /\ OnePathEach' /\ HeadsAreVersions'
      /\ Cardinality(DOMAIN heads') <= MaxMemories
  BY DEF MemoryInv, VersionsNumbered, OnePathEach, HeadsAreVersions
<1>6. CASE mbox' = mbox
  <2>1. ChangesWereSeen'
    BY <1>2, <1>6, OthersKept DEF ChangesWereSeen
  <2> QED BY <1>3, <1>4, <1>5, <2>1 DEF MemoryInv
<1>7. CASE ChangesWereSeen'
  BY <1>3, <1>4, <1>5, <1>7 DEF MemoryInv
<1> QED BY <1>6, <1>7

\* A tool takes a lock.
LEMMA LockStep ==
    ASSUME MemoryInv, NEW t \in MemTools,
           TryLockResourceSync(t) \/ LockResourceOperation(t) \/ LockResourceSync(t)
    PROVE  MemoryInv'
<1>1. PICK to \in {"sync", "lock", "run", "wbSync"} :
         /\ mtool' = [mtool EXCEPT ![t].pc = to]
         /\ mtool[t].pc \in {"reconcile", "lock", "writeback"}
         /\ mtool[t].pc = "writeback" => to = "wbSync"
  BY DEF TryLockResourceSync, LockResourceOperation, LockResourceSync, Step
<1>2. heads' = heads /\ versions' = versions /\ mbox' = mbox
  BY DEF TryLockResourceSync, LockResourceOperation, LockResourceSync
<1>3. mtool \in [MemTools -> ToolType] /\ mbox \in [MemSessions -> MemoryBox]
  BY DEF MemoryInv, MemoryTyped
<1>4. PICK tool : tool = [mtool[t] EXCEPT !.pc = to]
  OBVIOUS
<1>5. mtool[t] \in ToolType
  BY <1>3
<1>6. tool \in ToolType /\ tool.saw = mtool[t].saw /\ tool.pc = to
  BY <1>4, <1>5 DEF ToolType, MemPcs
<1>7. mtool' = [mtool EXCEPT ![t] = tool]
  BY <1>1, <1>4
<1>8. Ran(t) => to = "wbSync"
  BY <1>1 DEF Ran
<1> QED BY <1>2, <1>3, <1>6, <1>7, <1>8, StoreKept

\* After a refused sync the tool takes the heads there are.
LEMMA RestoreStep ==
    ASSUME MemoryInv, NEW t \in MemTools,
           RestoreHeads(t, "restore", "publish") \/ RestoreHeads(t, "wbRestore", "wbPublish")
    PROVE  MemoryInv'
<1>1. PICK to \in {"publish", "wbPublish"} :
         /\ mtool' = [mtool EXCEPT ![t].pc = to, ![t].snap = heads]
         /\ mtool[t].pc = "wbRestore" => to = "wbPublish"
         /\ mtool[t].pc \in {"restore", "wbRestore"}
  BY DEF RestoreHeads
<1>2. heads' = heads /\ versions' = versions /\ mbox' = mbox
  BY DEF RestoreHeads
<1>3. mtool \in [MemTools -> ToolType] /\ mbox \in [MemSessions -> MemoryBox]
      /\ heads \in ByPath(HeadType)
  BY DEF MemoryInv, MemoryTyped
<1>4. PICK tool : tool = [mtool[t] EXCEPT !.pc = to, !.snap = heads]
  OBVIOUS
<1>5. mtool[t] \in ToolType
  BY <1>3
<1>6. tool \in ToolType /\ tool.saw = mtool[t].saw /\ tool.pc = to
  BY <1>3, <1>4, <1>5 DEF ToolType, MemPcs
<1>7. mtool' = [mtool EXCEPT ![t] = tool]
  BY <1>1, <1>3, <1>4 DEF ToolType
<1>8. Ran(t) => to = "wbPublish"
  BY <1>1 DEF Ran
<1> QED BY <1>2, <1>3, <1>6, <1>7, <1>8, StoreKept

\* The Store may be archived.
LEMMA ArchiveStep ==
    ASSUME MemoryInv, ArchiveStore \/ UNCHANGED memVars
    PROVE  MemoryInv'
<1>1. heads' = heads /\ versions' = versions /\ mbox' = mbox /\ mtool' = mtool
  BY DEF ArchiveStore, memVars
<1> QED BY <1>1 DEF MemoryInv, MemoryTyped, VersionsNumbered, OnePathEach, HeadsAreVersions,
             ChangesWereSeen, WritesWereSeen, OverwritesWereSeen, SomeToolSaw, Ran

\* What a published copy holds is its baseline.
LEMMA PublishStep ==
    ASSUME MemoryInv, NEW t \in MemTools, NEW fails \in BOOLEAN, ReplaceMemoryStore(t, fails)
    PROVE  MemoryInv'
<1>1. mtool \in [MemTools -> ToolType] /\ mbox \in [MemSessions -> MemoryBox]
  BY DEF MemoryInv, MemoryTyped
<1>2. PICK next : next = AfterPublish(t, fails \/ mtool[t].result = "error")
  OBVIOUS
<1>3. /\ mtool[t].pc \in {"publish", "wbPublish"}
      /\ mtool' = [mtool EXCEPT ![t].pc = next.pc, ![t].result = next.result, ![t].snap = Empty]
      /\ heads' = heads /\ versions' = versions
  BY <1>2 DEF ReplaceMemoryStore
<1>4. /\ next.pc \in {"reconcile", "lock", "done"} /\ next.result \in {"none", "ok", "error"}
      /\ mtool[t].pc = "wbPublish" => next.pc = "done"
  BY <1>2, <1>3 DEF AfterPublish
<1>5. PICK tool : tool = [mtool[t] EXCEPT !.pc = next.pc, !.result = next.result, !.snap = Empty]
  OBVIOUS
<1>6. mtool[t] \in ToolType
  BY <1>1
<1>7. Empty \in ByPath(HeadType) /\ Empty \in ByPath(Contents) /\ DOMAIN Empty = {}
  BY EmptyIs
<1> HIDE DEF Empty
<1>8. tool \in ToolType /\ tool.saw = mtool[t].saw /\ tool.pc = next.pc
  BY <1>4, <1>5, <1>6, <1>7 DEF ToolType, MemPcs
<1>9. mtool' = [mtool EXCEPT ![t] = tool]
  BY <1>1, <1>3, <1>5 DEF ToolType
<1>10. Ran(t) => next.pc = "done"
  BY <1>3, <1>4 DEF Ran
<1>11. PICK snap \in ByPath(HeadType) : snap = mtool[t].snap
  BY <1>6 DEF ToolType
<1> DEFINE box == IF fails THEN [init |-> FALSE, base |-> Empty, files |-> Empty]
                  ELSE [init |-> TRUE, base |-> snap,
                        files |-> [p \in DOMAIN snap |-> snap[p].content]]
<1>12. HomeOf[t] \in MemSessions
  BY MemoryAssumption
<1>13. mbox' = [mbox EXCEPT ![HomeOf[t]] = box]
  BY <1>11 DEF ReplaceMemoryStore
<1>14. /\ snap \in [DOMAIN snap -> HeadType] /\ DOMAIN snap \subseteq Paths
       /\ IsFiniteSet(DOMAIN snap)
  BY <1>11, ByPathIs
<1>15. box \in MemoryBox /\ DOMAIN box.base = DOMAIN box.files
       /\ \A p \in DOMAIN box.files : box.files[p] = Content(box.base, p)
  <2>1. CASE fails
    <3>1. box = [init |-> FALSE, base |-> Empty, files |-> Empty]
      BY <2>1
    <3> QED BY <1>7, <3>1 DEF MemoryBox
  <2>2. CASE ~fails
    <3>1. PICK files : files = [p \in DOMAIN snap |-> snap[p].content]
      OBVIOUS
    <3>2. box = [init |-> TRUE, base |-> snap, files |-> files]
      BY <2>2, <3>1
    <3>3. \A p \in DOMAIN snap : snap[p].content \in Contents
      BY <1>14 DEF HeadType
    <3>4. files \in [DOMAIN files -> Contents] /\ DOMAIN files = DOMAIN snap
          /\ \A p \in DOMAIN files : files[p] = snap[p].content
      BY <3>1, <3>3
    <3>5. files \in ByPath(Contents)
      BY <1>14, <3>4, ByPathIs
    <3>6. \A p \in DOMAIN files : files[p] = Content(snap, p)
      BY <3>4 DEF Content
    <3> QED BY <1>11, <3>2, <3>4, <3>5, <3>6 DEF MemoryBox
  <2> QED BY <2>1, <2>2
<1> HIDE DEF box
<1>16. mbox' \in [MemSessions -> MemoryBox] /\ mbox'[HomeOf[t]] = box
       /\ \A s \in MemSessions : s # HomeOf[t] => mbox'[s] = mbox[s]
  BY <1>1, <1>12, <1>13, <1>15
<1>17. \A s \in MemSessions : \A c : SomeToolSaw(s, c) => SomeToolSaw(s, c)'
  BY <1>8, <1>9, <1>10, ToolMoves DEF MemoryInv
<1>18. WritesWereSeen(HomeOf[t], box)'
  BY <1>15 DEF WritesWereSeen
<1>19. \A s \in MemSessions : s # HomeOf[t] => WritesWereSeen(s, mbox[s])'
  BY <1>16, <1>17, OthersKept
<1>20. ChangesWereSeen'
  BY <1>16, <1>18, <1>19 DEF ChangesWereSeen, WritesWereSeen
<1> QED BY <1>3, <1>4, <1>8, <1>9, <1>10, <1>16, <1>20, StoreKept

\* the files differ at one path, where the tool wrote or removed what it saw
ChangedAt(at, old, files, t, saw) ==
    /\ \A q \in DOMAIN old \ {at} : q \in DOMAIN files /\ files[q] = old[q]
    /\ DOMAIN files \subseteq DOMAIN old \cup {at}
    /\ at \in DOMAIN files => files[at] = t
    /\ saw = IF at \in DOMAIN old THEN old[at] ELSE NoContent

\* A tool changes one file of its sandbox, of which it saw the content, or none.
LEMMA OneFileChanges ==
    ASSUME MemoryInv, NEW t \in MemTools, mtool[t].pc = "run",
           NEW path \in Paths \cup {NoContent}, NEW saw \in Contents \cup {NoContent},
           NEW files \in ByPath(Contents), NEW old, old = mbox[HomeOf[t]].files, NEW at,
           mtool' = [mtool EXCEPT ![t].pc = "writeback", ![t].path = path, ![t].saw = saw],
           mbox' = [mbox EXCEPT ![HomeOf[t]].files = files],
           heads' = heads, versions' = versions,
           ChangedAt(at, old, files, t, saw)
    PROVE  MemoryInv'
<1>1. mtool \in [MemTools -> ToolType] /\ mbox \in [MemSessions -> MemoryBox]
  BY DEF MemoryInv, MemoryTyped
<1>2. PICK s \in MemSessions : s = HomeOf[t]
  BY MemoryAssumption
<1>3. mtool[t] \in ToolType /\ mbox[s] \in MemoryBox
  BY <1>1
<1>4. PICK tool : tool = [mtool[t] EXCEPT !.pc = "writeback", !.path = path, !.saw = saw]
  OBVIOUS
<1>5. tool \in ToolType /\ tool.saw = saw /\ tool.pc = "writeback"
  BY <1>3, <1>4 DEF ToolType, MemPcs
<1>6. mtool' = [mtool EXCEPT ![t] = tool]
  BY <1>1, <1>4 DEF ToolType
<1>7. ~Ran(t)
  BY DEF Ran
<1>8. PICK base \in ByPath(HeadType) : old = mbox[s].files /\ base = mbox[s].base
  BY <1>2, <1>3 DEF MemoryBox
<1>9. PICK box : box = [mbox[s] EXCEPT !.files = files]
  OBVIOUS
<1>10. box \in MemoryBox /\ box.files = files /\ box.base = base
  BY <1>3, <1>8, <1>9 DEF MemoryBox
<1>11. mbox' = [mbox EXCEPT ![s] = box]
  BY <1>1, <1>2, <1>9 DEF MemoryBox
<1>12. mbox' \in [MemSessions -> MemoryBox] /\ mbox'[s] = box
       /\ \A r \in MemSessions : r # s => mbox'[r] = mbox[r]
  BY <1>1, <1>10, <1>11
<1>13. \A r \in MemSessions : \A c : SomeToolSaw(r, c) => SomeToolSaw(r, c)'
  BY <1>5, <1>6, <1>7, ToolMoves DEF MemoryInv
<1>14. t \in ToolsOf(s)
  BY <1>2 DEF ToolsOf
<1>15. SomeToolSaw(s, saw)'
  <2>1. mtool'[t] = tool
    BY <1>1, <1>6
  <2> QED BY <1>5, <1>14, <2>1 DEF SomeToolSaw, Ran
<1>16. /\ \A p \in DOMAIN old :
            old[p] # Content(base, p) => old[p] \in ToolsOf(s) /\ SomeToolSaw(s, Content(base, p))
       /\ \A p \in DOMAIN base \ DOMAIN old : SomeToolSaw(s, base[p].content)
  BY <1>8 DEF MemoryInv, ChangesWereSeen, WritesWereSeen
<1>17. /\ \A q \in DOMAIN old \ {at} : q \in DOMAIN files /\ files[q] = old[q]
       /\ DOMAIN files \subseteq DOMAIN old \cup {at}
       /\ at \in DOMAIN files => files[at] = t
       /\ at \in DOMAIN old => saw = old[at]
       /\ at \notin DOMAIN old => saw = NoContent
  BY DEF ChangedAt
<1>18. \A p \in DOMAIN base : Content(base, p) = base[p].content
  BY DEF Content
<1>19. \A p : p \notin DOMAIN base => Content(base, p) = NoContent
  BY DEF Content
<1>20. ASSUME NEW p \in DOMAIN files, files[p] # Content(base, p)
       PROVE  files[p] \in ToolsOf(s) /\ SomeToolSaw(s, Content(base, p))'
  <2>1. CASE p \in DOMAIN old /\ files[p] = old[p]
    BY <1>13, <1>16, <1>20, <2>1
  <2>2. CASE ~(p \in DOMAIN old /\ files[p] = old[p])
    <3>1. p = at /\ files[p] = t
      BY <1>17, <2>2
    <3>2. CASE p \in DOMAIN old
      <4>1. saw = old[p]
        BY <1>17, <2>2, <3>1, <3>2
      <4>2. CASE old[p] = Content(base, p)
        BY <1>14, <1>15, <3>1, <4>1, <4>2
      <4>3. CASE old[p] # Content(base, p)
        BY <1>13, <1>14, <1>16, <3>1, <3>2, <4>3
      <4> QED BY <4>2, <4>3
    <3>3. CASE p \notin DOMAIN old
      <4>1. saw = NoContent
        BY <1>17, <3>1, <3>3
      <4>2. CASE p \in DOMAIN base
        BY <1>13, <1>14, <1>16, <1>18, <3>1, <3>3, <4>2
      <4>3. CASE p \notin DOMAIN base
        BY <1>14, <1>15, <1>19, <3>1, <4>1, <4>3
      <4> QED BY <4>2, <4>3
    <3> QED BY <3>2, <3>3
  <2> QED BY <2>1, <2>2
<1>21. ASSUME NEW p \in DOMAIN base \ DOMAIN files
       PROVE  SomeToolSaw(s, base[p].content)'
  <2>1. CASE p \in DOMAIN old
    <3>1. saw = old[p]
      BY <1>17, <1>21, <2>1
    <3>2. CASE old[p] = base[p].content
      BY <1>15, <3>1, <3>2
    <3>3. CASE old[p] # base[p].content
      BY <1>13, <1>16, <1>18, <1>21, <2>1, <3>3
    <3> QED BY <3>2, <3>3
  <2>2. CASE p \notin DOMAIN old
    BY <1>13, <1>16, <1>21, <2>2
  <2> QED BY <2>1, <2>2
<1>22. WritesWereSeen(s, box)'
  BY <1>10, <1>20, <1>21 DEF WritesWereSeen
<1>23. \A r \in MemSessions : r # s => WritesWereSeen(r, mbox[r])'
  BY <1>12, <1>13, OthersKept
<1>24. ChangesWereSeen'
  <2> SUFFICES ASSUME NEW r \in MemSessions
               PROVE  WritesWereSeen(r, mbox[r])'
    BY DEF ChangesWereSeen
  <2>1. CASE r = s
    BY <1>12, <1>22, <2>1 DEF WritesWereSeen
  <2>2. CASE r # s
    BY <1>23, <2>2
  <2> QED BY <2>1, <2>2
<1> QED BY <1>5, <1>6, <1>7, <1>12, <1>24, StoreKept

\* A tool that runs writes a file, removes one or leaves them alone.
LEMMA RunStep ==
    ASSUME MemoryInv, NEW t \in MemTools, ToolRuns(t)
    PROVE  MemoryInv'
<1>1. mtool \in [MemTools -> ToolType] /\ mbox \in [MemSessions -> MemoryBox]
  BY DEF MemoryInv, MemoryTyped
<1>2. PICK s \in MemSessions : s = HomeOf[t]
  BY MemoryAssumption
<1>3. mtool[t] \in ToolType /\ mbox[s] \in MemoryBox
  BY <1>1
<1>4. PICK old \in ByPath(Contents) : old = mbox[s].files
  BY <1>3 DEF MemoryBox
<1>5. mtool[t].pc = "run" /\ heads' = heads /\ versions' = versions
  BY DEF ToolRuns
<1>6. old \in [DOMAIN old -> Contents] /\ DOMAIN old \subseteq Paths
  BY <1>4, ByPathIs
<1>7. t \in Contents
  BY DEF Contents
<1>8. CASE \E p \in Paths :
              /\ mtool' = [mtool EXCEPT ![t].pc = "writeback", ![t].path = p,
                             ![t].saw = IF p \in DOMAIN old THEN old[p] ELSE NoContent]
              /\ mbox' = [mbox EXCEPT ![s].files = With(old, p, t)]
  <2>1. PICK p \in Paths :
              /\ mtool' = [mtool EXCEPT ![t].pc = "writeback", ![t].path = p,
                             ![t].saw = IF p \in DOMAIN old THEN old[p] ELSE NoContent]
              /\ mbox' = [mbox EXCEPT ![s].files = With(old, p, t)]
    BY <1>8
  <2>2. PICK saw \in Contents \cup {NoContent} : saw = IF p \in DOMAIN old THEN old[p] ELSE NoContent
    BY <1>6
  <2>3. PICK files : files = With(old, p, t)
    OBVIOUS
  <2>4. /\ files \in ByPath(Contents) /\ DOMAIN files = DOMAIN old \cup {p}
        /\ files[p] = t /\ \A q \in DOMAIN old \ {p} : files[q] = old[q]
    <3>1. With(old, p, t) \in ByPath(Contents)
      BY <1>4, <1>7, WithIs
    <3> QED BY <2>3, <3>1 DEF With
  <2>5. mtool' = [mtool EXCEPT ![t].pc = "writeback", ![t].path = p, ![t].saw = saw]
    BY <2>1, <2>2
  <2>6. mbox' = [mbox EXCEPT ![HomeOf[t]].files = files]
    BY <1>2, <2>1, <2>3
  <2>7. ChangedAt(p, old, files, t, saw)
    BY <2>2, <2>4 DEF ChangedAt
  <2>8. old = mbox[HomeOf[t]].files
    BY <1>2, <1>4
  <2>9. p \in Paths \cup {NoContent} /\ files \in ByPath(Contents)
    BY <2>4
  <2> QED BY <1>5, <2>2, <2>5, <2>6, <2>7, <2>8, <2>9, OneFileChanges
<1>9. CASE \E p \in DOMAIN old :
              /\ mtool' = [mtool EXCEPT ![t].pc = "writeback", ![t].saw = old[p]]
              /\ mbox' = [mbox EXCEPT ![s].files = Without(old, {p})]
  <2>1. PICK p \in DOMAIN old :
              /\ mtool' = [mtool EXCEPT ![t].pc = "writeback", ![t].saw = old[p]]
              /\ mbox' = [mbox EXCEPT ![s].files = Without(old, {p})]
    BY <1>9
  <2>2. PICK saw \in Contents \cup {NoContent} : saw = old[p]
    BY <1>6
  <2>3. PICK files : files = Without(old, {p})
    OBVIOUS
  <2>4. /\ files \in ByPath(Contents) /\ DOMAIN files = DOMAIN old \ {p}
        /\ \A q \in DOMAIN old \ {p} : files[q] = old[q]
    BY <1>4, <2>3, WithoutIs DEF Without
  <2>5. PICK path \in Paths \cup {NoContent} : path = mtool[t].path
    BY <1>3 DEF ToolType
  <2>6. mtool' = [mtool EXCEPT ![t].pc = "writeback", ![t].path = path, ![t].saw = saw]
    BY <1>1, <2>1, <2>2, <2>5 DEF ToolType
  <2>7. mbox' = [mbox EXCEPT ![HomeOf[t]].files = files]
    BY <1>2, <2>1, <2>3
  <2>8. ChangedAt(p, old, files, t, saw)
    BY <2>2, <2>4 DEF ChangedAt
  <2>9. old = mbox[HomeOf[t]].files /\ files \in ByPath(Contents)
    BY <1>2, <1>4, <2>4
  <2> QED BY <1>5, <2>2, <2>5, <2>6, <2>7, <2>8, <2>9, OneFileChanges
<1>10. CASE mtool' = [mtool EXCEPT ![t].pc = "writeback"] /\ mbox' = mbox
  <2>1. PICK tool : tool = [mtool[t] EXCEPT !.pc = "writeback"]
    OBVIOUS
  <2>2. tool \in ToolType /\ mtool' = [mtool EXCEPT ![t] = tool]
    BY <1>1, <1>3, <1>10, <2>1 DEF ToolType, MemPcs
  <2>3. ~Ran(t)
    BY <1>5 DEF Ran
  <2> QED BY <1>1, <1>5, <1>10, <2>2, <2>3, StoreKept
<1> QED BY <1>2, <1>4, <1>8, <1>9, <1>10 DEF ToolRuns

\* the paths that a synchronization writes or deletes, and the version it appends
\* for each of them
Touched(b) == Updates(b) \cup Deletes(b) \cup Creates(b)
IdAfter(b, num, p) == IF p \in Creates(b) THEN num[p] ELSE heads[p].id
VersionAt(b, num, p) ==
    Version(num[p], IdAfter(b, num, p),
            IF p \in Updates(b) \cup Creates(b) THEN b.files[p] ELSE NoContent, Content(heads, p))
HeadAt(b, num, p) == [id |-> IdAfter(b, num, p), content |-> b.files[p], version |-> num[p]]

\* A synchronization that is not refused changes and deletes Memories that are the
\* baseline's, and creates others at free paths.
LEMMA TouchedAreTheBaselines ==
    ASSUME MemoryInv, NEW b \in MemoryBox, ~SyncRefused(b)
    PROVE  /\ \A p \in Updates(b) : /\ p \in DOMAIN heads /\ p \in DOMAIN b.base /\ p \in DOMAIN b.files
                                    /\ heads[p].content = b.base[p].content
                                    /\ b.files[p] # b.base[p].content
           /\ \A p \in Deletes(b) : /\ p \in DOMAIN heads /\ p \in DOMAIN b.base
                 /\ p \notin DOMAIN b.files
                                    /\ heads[p].content = b.base[p].content
           /\ \A p \in Creates(b) : p \in DOMAIN b.files /\ p \notin DOMAIN b.base
                 /\ p \notin DOMAIN heads
           /\ Cardinality(DOMAIN heads) + Cardinality(Creates(b))
                <= MaxMemories + Cardinality(Deletes(b))
           /\ IsFiniteSet(Updates(b)) /\ IsFiniteSet(Deletes(b)) /\ IsFiniteSet(Creates(b))
<1>1. /\ \A p \in Updates(b) \cup Deletes(b) :
            SameHead(p, b.base[p]) /\ heads[p].content = b.base[p].content
      /\ \A p \in Creates(b) : p \notin DOMAIN heads
  BY DEF SyncRefused, MemoryConflict
<1>2. /\ \A p \in Updates(b) : /\ p \in DOMAIN b.base /\ p \in DOMAIN b.files
                               /\ b.files[p] # b.base[p].content
      /\ \A p \in Deletes(b) : p \in DOMAIN b.base /\ p \notin DOMAIN b.files
      /\ \A p \in Creates(b) : p \in DOMAIN b.files /\ p \notin DOMAIN b.base
  BY DEF Updates, Deletes, Creates, Changed, Removed, Created
<1>3. b.base \in ByPath(HeadType) /\ b.files \in ByPath(Contents) /\ heads \in ByPath(HeadType)
  BY DEF MemoryBox, MemoryInv, MemoryTyped
<1>4. IsFiniteSet(DOMAIN b.base) /\ IsFiniteSet(DOMAIN b.files) /\ IsFiniteSet(DOMAIN heads)
  BY <1>3, ByPathIs
<1>5. Updates(b) \subseteq DOMAIN b.base /\ Deletes(b) \subseteq DOMAIN b.base
      /\ Creates(b) \subseteq DOMAIN b.files
  BY <1>2
<1>6. IsFiniteSet(Updates(b)) /\ IsFiniteSet(Deletes(b)) /\ IsFiniteSet(Creates(b))
  BY <1>4, <1>5, FS_Subset
<1>7. Cardinality(DOMAIN heads) + Cardinality(Creates(b)) <= MaxMemories + Cardinality(Deletes(b))
  <2>1. PICK h \in Nat, c \in Nat, d \in Nat, m \in Nat :
           /\ h = Cardinality(DOMAIN heads) /\ c = Cardinality(Creates(b))
           /\ d = Cardinality(Deletes(b)) /\ m = MaxMemories
    BY <1>4, <1>6, FS_CardinalityType, MemoryAssumption
  <2>2. ~(h + c > m + d)
    BY <2>1 DEF SyncRefused
  <2>3. h + c <= m + d
    BY <2>2
  <2> QED BY <2>1, <2>3
<1>8. \A p \in Updates(b) \cup Deletes(b) : p \in DOMAIN heads /\ heads[p].content = b.base[p].content
  BY <1>1 DEF SameHead
<1> QED BY <1>1, <1>2, <1>6, <1>7, <1>8

\* Its versions get the next numbers, each another one.
LEMMA NumberingIs ==
    ASSUME MemoryInv, NEW b \in MemoryBox, ~SyncRefused(b)
    PROVE  /\ IsFiniteSet(Touched(b))
           /\ Numbering(b) \in [Touched(b) -> (Cardinality(versions) + 1)..(Cardinality(versions)
                                                                            + Cardinality(Touched(b)))]
           /\ \A p, q \in Touched(b) : p # q => Numbering(b)[p] # Numbering(b)[q]
<1>1. IsFiniteSet(Updates(b)) /\ IsFiniteSet(Deletes(b)) /\ IsFiniteSet(Creates(b))
  BY TouchedAreTheBaselines
<1>2. IsFiniteSet(Touched(b))
  BY <1>1, FS_Union DEF Touched
<1>3. Cardinality(versions) \in Nat
  BY FS_CardinalityType DEF MemoryInv, VersionsNumbered
<1> DEFINE Numberings == [Touched(b) -> (Cardinality(versions) + 1)..(Cardinality(versions)
                                                                      + Cardinality(Touched(b)))]
           Apart(f) == \A p, q \in Touched(b) : p # q => f[p] # f[q]
<1>4. \E f \in Numberings : Apart(f)
  BY <1>2, <1>3, NumberingExists
<1>5. Numbering(b) = CHOOSE f \in Numberings : Apart(f)
  BY DEF Numbering, Touched, NextVersion
<1>6. Numbering(b) \in Numberings /\ Apart(Numbering(b))
  <2> HIDE DEF Numberings, Apart
  <2> QED BY <1>4, <1>5
<1> QED BY <1>2, <1>6

\* The Store after a synchronization.
LEMMA SyncedIs ==
    ASSUME MemoryInv, NEW b \in MemoryBox, NEW num, num = Numbering(b)
    PROVE  /\ DOMAIN Synced(b).heads = (DOMAIN heads \ Deletes(b)) \cup (Updates(b) \cup Creates(b))
           /\ \A p \in Updates(b) \cup Creates(b) : Synced(b).heads[p] = HeadAt(b, num, p)
           /\ \A p \in (DOMAIN heads \ Deletes(b)) \ (Updates(b) \cup Creates(b)) :
                 Synced(b).heads[p] = heads[p]
           /\ Synced(b).heads = [p \in DOMAIN Synced(b).heads |-> Synced(b).heads[p]]
           /\ Synced(b).versions = {VersionAt(b, num, p) : p \in Touched(b)}
<1>1. Synced(b).heads = [p \in (DOMAIN heads \ Deletes(b)) \cup (Updates(b) \cup Creates(b)) |->
                           IF p \in Updates(b) \cup Creates(b) THEN HeadAt(b, num, p) ELSE heads[p]]
  BY DEF Synced, HeadAt, IdAfter
<1>2. Synced(b).versions = {VersionAt(b, num, p) : p \in Touched(b)}
  <2>1. Synced(b).versions = {VersionAt(b, num, p) : p \in (Updates(b) \cup Creates(b)) \cup Deletes(b)}
    BY DEF Synced, VersionAt, IdAfter
  <2>2. (Updates(b) \cup Creates(b)) \cup Deletes(b) = Touched(b)
    BY DEF Touched
  <2> QED BY <2>1, <2>2
<1> QED BY <1>1, <1>2

\* The ids that a synchronization gives: a Memory that it touches keeps its own,
\* one that it creates has a new one.
LEMMA IdsAfter ==
    ASSUME MemoryInv, NEW b \in MemoryBox, ~SyncRefused(b), NEW num, num = Numbering(b),
           NEW n \in Nat, n = Cardinality(versions), NEW k \in Nat, k = Cardinality(Touched(b))
    PROVE  /\ \A p \in Touched(b) : num[p] \in (n + 1)..(n + k) /\ IdAfter(b, num, p) \in 1..(n + k)
           /\ \A p, q \in Touched(b) : num[p] = num[q] \/ IdAfter(b, num, p) = IdAfter(b, num,
               q) => p = q
           /\ \A p \in Touched(b), q \in DOMAIN heads : IdAfter(b, num, p) = heads[q].id => p = q
<1>1. /\ \A p \in Touched(b) : num[p] \in (n + 1)..(n + k)
      /\ \A p, q \in Touched(b) : num[p] = num[q] => p = q
  BY NumberingIs
<1>2. \A q \in DOMAIN heads : heads[q].id \in 1..n
  BY HeadsAreNumbered
<1>3. \A p, q \in DOMAIN heads : heads[p].id = heads[q].id => p = q
  BY DEF MemoryInv, OnePathEach
<1>4. \A p \in Touched(b) : p \in Creates(b) => p \notin DOMAIN heads /\ IdAfter(b, num, p) = num[p]
  BY TouchedAreTheBaselines DEF IdAfter
<1>5. \A p \in Touched(b) : p \notin Creates(b) => p \in DOMAIN heads /\ IdAfter(b, num,
        p) = heads[p].id
  BY TouchedAreTheBaselines DEF IdAfter, Touched
<1>6. \A p \in Touched(b) : IdAfter(b, num, p) \in 1..(n + k)
  BY <1>1, <1>2, <1>4, <1>5
<1>7. \A p \in Touched(b), q \in DOMAIN heads : num[p] # heads[q].id
  BY <1>1, <1>2
<1>8. ASSUME NEW p \in Touched(b), NEW q \in Touched(b), IdAfter(b, num, p) = IdAfter(b, num, q)
      PROVE  p = q
  <2>1. CASE p \in Creates(b) /\ q \in Creates(b)
    BY <1>1, <1>4, <1>8, <2>1
  <2>2. CASE p \in Creates(b) /\ q \notin Creates(b)
    BY <1>4, <1>5, <1>7, <1>8, <2>2
  <2>3. CASE p \notin Creates(b) /\ q \in Creates(b)
    BY <1>4, <1>5, <1>7, <1>8, <2>3
  <2>4. CASE p \notin Creates(b) /\ q \notin Creates(b)
    BY <1>3, <1>5, <1>8, <2>4
  <2> QED BY <2>1, <2>2, <2>3, <2>4
<1>9. ASSUME NEW p \in Touched(b), NEW q \in DOMAIN heads, IdAfter(b, num, p) = heads[q].id
      PROVE  p = q
  <2>1. CASE p \in Creates(b)
    BY <1>4, <1>7, <1>9, <2>1
  <2>2. CASE p \notin Creates(b)
    BY <1>3, <1>5, <1>9, <2>2
  <2> QED BY <2>1, <2>2
<1> QED BY <1>1, <1>6, <1>8, <1>9

\* A synchronization keeps the Store within its limit.
LEMMA SyncedFits ==
    ASSUME MemoryInv, NEW b \in MemoryBox, ~SyncRefused(b)
    PROVE  /\ IsFiniteSet(DOMAIN Synced(b).heads) /\ Cardinality(DOMAIN Synced(b).heads) <= MaxMemories
           /\ DOMAIN Synced(b).heads \subseteq Paths
<1>1. PICK num : num = Numbering(b)
  OBVIOUS
<1>2. DOMAIN Synced(b).heads = (DOMAIN heads \ Deletes(b)) \cup (Updates(b) \cup Creates(b))
  BY <1>1, SyncedIs
<1>3. PICK H, U, D, C : H = DOMAIN heads /\ U = Updates(b) /\ D = Deletes(b) /\ C = Creates(b)
  OBVIOUS
<1>4. heads \in ByPath(HeadType) /\ b.files \in ByPath(Contents)
  BY DEF MemoryInv, MemoryTyped, MemoryBox
<1>5. IsFiniteSet(H) /\ H \subseteq Paths /\ DOMAIN b.files \subseteq Paths
  BY <1>3, <1>4, ByPathIs
<1>6. /\ IsFiniteSet(U) /\ IsFiniteSet(D) /\ IsFiniteSet(C)
      /\ U \subseteq H /\ D \subseteq H /\ C \cap H = {} /\ U \cap D = {} /\ C \subseteq DOMAIN b.files
      /\ Cardinality(H) + Cardinality(C) <= MaxMemories + Cardinality(D)
  <2>1. /\ \A p \in U : p \in H /\ p \in DOMAIN b.files
        /\ \A p \in D : p \in H /\ p \notin DOMAIN b.files
        /\ \A p \in C : p \notin H /\ p \in DOMAIN b.files
    BY <1>3, TouchedAreTheBaselines
  <2>2. /\ IsFiniteSet(U) /\ IsFiniteSet(D) /\ IsFiniteSet(C)
        /\ Cardinality(H) + Cardinality(C) <= MaxMemories + Cardinality(D)
    BY <1>3, TouchedAreTheBaselines
  <2> QED BY <2>1, <2>2
<1>7. DOMAIN Synced(b).heads = (H \ D) \cup C
  BY <1>2, <1>3, <1>6
<1>8. IsFiniteSet(H \ D) /\ Cardinality(H \ D) = Cardinality(H) - Cardinality(D)
  <2>1. IsFiniteSet(H \ D) /\ Cardinality(H \ D) = Cardinality(H) - Cardinality(H \cap D)
    BY <1>5, <1>6, FS_Difference
  <2>2. H \cap D = D
    BY <1>6
  <2> QED BY <2>1, <2>2
<1>9. /\ IsFiniteSet((H \ D) \cup C)
      /\ Cardinality((H \ D) \cup C) = Cardinality(H \ D) + Cardinality(C)
  <2>1. /\ IsFiniteSet((H \ D) \cup C)
        /\ Cardinality((H \ D)
            \cup C) = Cardinality(H \ D) + Cardinality(C) - Cardinality((H \ D) \cap C)
    BY <1>6, <1>8, FS_Union
  <2>2. Cardinality((H \ D) \cap C) = 0
    <3>1. (H \ D) \cap C = {}
      BY <1>6
    <3> QED BY <3>1, FS_EmptySet
  <2>3. Cardinality(H \ D) \in Nat /\ Cardinality(C) \in Nat
    BY <1>6, <1>8, FS_CardinalityType
  <2> QED BY <2>1, <2>2, <2>3
<1>10. Cardinality((H \ D) \cup C) <= MaxMemories
  <2>1. /\ Cardinality(H) \in Nat /\ Cardinality(C) \in Nat /\ Cardinality(D) \in Nat
        /\ MaxMemories \in Nat
    BY <1>5, <1>6, FS_CardinalityType, MemoryAssumption
  <2> QED BY <1>6, <1>8, <1>9, <2>1
<1> QED BY <1>5, <1>6, <1>7, <1>9, <1>10

\* A synchronization that is not refused keeps the invariant of the Store.
LEMMA SyncedKeeps ==
    ASSUME MemoryInv, NEW s \in MemSessions, ~SyncRefused(mbox[s]),
           heads' = Synced(mbox[s]).heads, versions' = versions \cup Synced(mbox[s]).versions,
           \A r \in MemSessions : \A c : SomeToolSaw(r, c) => SomeToolSaw(r, c)'
    PROVE  /\ heads' \in ByPath(HeadType) /\ VersionsNumbered' /\ HeadsAreVersions' /\ OnePathEach'
           /\ Cardinality(DOMAIN heads') <= MaxMemories /\ OverwritesWereSeen'
<1>1. PICK b : b = mbox[s]
  OBVIOUS
<1>2. b \in MemoryBox /\ b.files \in ByPath(Contents) /\ heads \in ByPath(HeadType)
  BY <1>1 DEF MemoryInv, MemoryTyped, MemoryBox
<1>3. ~SyncRefused(b) /\ heads' = Synced(b).heads /\ versions' = versions \cup Synced(b).versions
  BY <1>1
<1>4. PICK num : num = Numbering(b)
  OBVIOUS
<1>5. PICK n \in Nat : n = Cardinality(versions)
  BY FS_CardinalityType DEF MemoryInv, VersionsNumbered
<1>6. IsFiniteSet(Touched(b))
  BY <1>2, <1>3, NumberingIs
<1>7. PICK k \in Nat : k = Cardinality(Touched(b))
  BY <1>6, FS_CardinalityType
<1>8. /\ \A p \in Touched(b) : num[p] \in (n + 1)..(n + k) /\ IdAfter(b, num, p) \in 1..(n + k)
      /\ \A p, q \in Touched(b) : num[p] = num[q] \/ IdAfter(b, num, p) = IdAfter(b, num, q) => p = q
      /\ \A p \in Touched(b), q \in DOMAIN heads : IdAfter(b, num, p) = heads[q].id => p = q
  BY <1>2, <1>3, <1>4, <1>5, <1>7, IdsAfter
<1>9. /\ \A p \in Updates(b) : /\ p \in DOMAIN heads /\ p \in DOMAIN b.base /\ p \in DOMAIN b.files
                               /\ heads[p].content = b.base[p].content
                               /\ b.files[p] # b.base[p].content
      /\ \A p \in Deletes(b) : /\ p \in DOMAIN heads /\ p \in DOMAIN b.base /\ p \notin DOMAIN b.files
                               /\ heads[p].content = b.base[p].content
      /\ \A p \in Creates(b) : p \in DOMAIN b.files /\ p \notin DOMAIN b.base /\ p \notin DOMAIN heads
  BY <1>2, <1>3, TouchedAreTheBaselines
<1>10. /\ DOMAIN heads' = (DOMAIN heads \ Deletes(b)) \cup (Updates(b) \cup Creates(b))
       /\ \A p \in Updates(b) \cup Creates(b) : heads'[p] = HeadAt(b, num, p)
       /\ \A p \in (DOMAIN heads \ Deletes(b)) \ (Updates(b) \cup Creates(b)) : heads'[p] = heads[p]
       /\ heads' = [p \in DOMAIN heads' |-> heads'[p]]
       /\ versions' = versions \cup {VersionAt(b, num, p) : p \in Touched(b)}
  BY <1>2, <1>3, <1>4, SyncedIs
<1>11. b.files \in [DOMAIN b.files -> Contents] /\ heads \in [DOMAIN heads -> HeadType]
  BY <1>2, ByPathIs
<1>12. \A p \in DOMAIN heads' :
          \/ p \in Updates(b) \cup Creates(b) /\ heads'[p] = HeadAt(b, num, p)
          \/ p \in DOMAIN heads /\ p \notin Touched(b) /\ heads'[p] = heads[p]
  BY <1>10 DEF Touched
<1>13. \A p \in Updates(b) \cup Creates(b) :
          /\ HeadAt(b, num, p) \in HeadType /\ HeadAt(b, num, p).id = IdAfter(b, num, p)
          /\ HeadAt(b, num, p).content = b.files[p] /\ HeadAt(b, num, p).version = num[p]
  <2> SUFFICES ASSUME NEW p \in Updates(b) \cup Creates(b)
               PROVE  /\ HeadAt(b, num, p) \in HeadType /\ HeadAt(b, num, p).id = IdAfter(b, num, p)
                      /\ HeadAt(b, num, p).content = b.files[p] /\ HeadAt(b, num, p).version = num[p]
    OBVIOUS
  <2>1. IdAfter(b, num, p) \in Nat /\ num[p] \in Nat
    BY <1>8 DEF Touched
  <2>2. b.files[p] \in Contents
    BY <1>9, <1>11
  <2> QED BY <2>1, <2>2 DEF HeadAt, HeadType
<1>14. heads' \in ByPath(HeadType) /\ Cardinality(DOMAIN heads') <= MaxMemories
  <2>1. IsFiniteSet(DOMAIN heads') /\ DOMAIN heads' \subseteq Paths
        /\ Cardinality(DOMAIN heads') <= MaxMemories
    BY <1>2, <1>3, SyncedFits
  <2>2. \A p \in DOMAIN heads' : heads'[p] \in HeadType
    BY <1>11, <1>12, <1>13
  <2>3. heads' \in [DOMAIN heads' -> HeadType]
    BY <1>10, <2>2
  <2>4. PICK after : after = heads'
    OBVIOUS
  <2>5. after \in ByPath(HeadType)
    BY <2>1, <2>3, <2>4, ByPathIs
  <2> QED BY <2>1, <2>4, <2>5
<1>15. OnePathEach'
  <2> SUFFICES ASSUME NEW p \in DOMAIN heads', NEW q \in DOMAIN heads', heads'[p].id = heads'[q].id
               PROVE  p = q
    BY DEF OnePathEach
  <2>1. CASE p \in Updates(b) \cup Creates(b) /\ q \in Updates(b) \cup Creates(b)
    BY <1>8, <1>10, <1>13, <2>1 DEF Touched
  <2>2. CASE p \in Updates(b) \cup Creates(b) /\ q \notin Updates(b) \cup Creates(b)
    BY <1>8, <1>12, <1>10, <1>13, <2>2 DEF Touched
  <2>3. CASE p \notin Updates(b) \cup Creates(b) /\ q \in Updates(b) \cup Creates(b)
    BY <1>8, <1>12, <1>10, <1>13, <2>3 DEF Touched
  <2>4. CASE p \notin Updates(b) \cup Creates(b) /\ q \notin Updates(b) \cup Creates(b)
    BY <1>12, <2>4 DEF MemoryInv, OnePathEach
  <2> QED BY <2>1, <2>2, <2>3, <2>4
<1> DEFINE ver == [p \in Touched(b) |-> VersionAt(b, num, p)]
           new == {ver[p] : p \in Touched(b)}
<1>16. \A p \in Touched(b) :
          /\ ver[p].n = num[p] /\ ver[p].id = IdAfter(b, num, p)
          /\ ver[p].content = IF p \in Updates(b) \cup Creates(b) THEN b.files[p] ELSE NoContent
          /\ ver[p].over = Content(heads, p) /\ ~ver[p].redacted /\ ver[p] \in VersionType
  <2> SUFFICES ASSUME NEW p \in Touched(b)
               PROVE  /\ ver[p].n = num[p] /\ ver[p].id = IdAfter(b, num, p)
                      /\ ver[p].content = IF p \in Updates(b)
                          \cup Creates(b) THEN b.files[p] ELSE NoContent
                      /\ ver[p].over = Content(heads, p) /\ ~ver[p].redacted /\ ver[p] \in VersionType
    OBVIOUS
  <2>1. PICK content \in Contents \cup {NoContent} :
           content = IF p \in Updates(b) \cup Creates(b) THEN b.files[p] ELSE NoContent
    BY <1>9, <1>11
  <2>2. PICK over \in Contents \cup {NoContent} : over = Content(heads, p)
    BY <1>11 DEF Content, HeadType
  <2>3. PICK id \in Nat, i \in Nat : id = IdAfter(b, num, p) /\ i = num[p]
    BY <1>8
  <2>4. ver[p] = [n |-> i, id |-> id, content |-> content, over |-> over, redacted |-> FALSE]
    BY <2>1, <2>2, <2>3 DEF VersionAt, Version
  <2> HIDE DEF ver
  <2>5. ver[p] \in VersionType
    BY <2>4 DEF VersionType
  <2> QED BY <2>1, <2>2, <2>3, <2>4, <2>5
<1>17. versions' = versions \cup new
  BY <1>10
<1>18. DOMAIN ver = Touched(b) /\ ver = [p \in Touched(b) |-> ver[p]]
  OBVIOUS
<1> HIDE DEF ver
<1>19. \A p, q \in Touched(b) : ver[p] = ver[q] => p = q
  BY <1>8, <1>16
<1>20. IsFiniteSet(new) /\ Cardinality(new) = k
  BY <1>6, <1>7, <1>18, <1>19, ImageCounts
<1>21. \A v \in new : \E p \in Touched(b) : v = ver[p]
  OBVIOUS
<1>22. \A p \in Touched(b) : ver[p] \in new
  OBVIOUS
<1> HIDE DEF new
<1>23. VersionsNumbered' /\ HeadsAreVersions'
  <2>1. \A v \in new : /\ v.n \in (Cardinality(versions) + 1)..(Cardinality(versions) + k)
                       /\ v.id \in 1..(Cardinality(versions) + k) /\ ~v.redacted
    BY <1>5, <1>8, <1>16, <1>21
  <2>2. \A v, w \in new : v.n = w.n \/ v.id = w.id => v = w
    BY <1>8, <1>16, <1>21
  <2>3. \A p \in DOMAIN heads' :
           \/ /\ p \in DOMAIN heads /\ heads'[p] = heads[p]
              /\ \A v \in new : v.id # heads[p].id
           \/ \E v \in new : v.n = heads'[p].version /\ v.id = heads'[p].id
                             /\ v.content = heads'[p].content
    <3> SUFFICES ASSUME NEW p \in DOMAIN heads'
                 PROVE  \/ /\ p \in DOMAIN heads /\ heads'[p] = heads[p]
                           /\ \A v \in new : v.id # heads[p].id
                        \/ \E v \in new : v.n = heads'[p].version /\ v.id = heads'[p].id
                                          /\ v.content = heads'[p].content
      OBVIOUS
    <3>1. CASE p \in Updates(b) \cup Creates(b) /\ heads'[p] = HeadAt(b, num, p)
      BY <1>13, <1>16, <1>22, <3>1 DEF Touched
    <3>2. CASE p \in DOMAIN heads /\ p \notin Touched(b) /\ heads'[p] = heads[p]
      BY <1>8, <1>16, <1>21, <3>2
    <3> QED BY <1>12, <3>1, <3>2
  <2>4. new \subseteq VersionType /\ VersionsNumbered /\ HeadsAreVersions
    BY <1>16, <1>21 DEF MemoryInv
  <2> QED BY <1>17, <1>20, <2>1, <2>2, <2>3, <2>4, VersionsAppended
<1>24. OverwritesWereSeen'
  <2> SUFFICES ASSUME NEW t \in MemTools, NEW v \in versions', v.content = t, v.over # t
               PROVE  SomeToolSaw(HomeOf[t], v.over)'
    BY DEF OverwritesWereSeen
  <2>1. CASE v \in versions
    BY <2>1, MemoryAssumption DEF MemoryInv, OverwritesWereSeen
  <2>2. CASE v \in new
    <3>1. PICK p \in Touched(b) : v = ver[p]
      BY <1>21, <2>2
    <3>2. t # NoContent
      BY MemoryAssumption
    <3>3. p \in Updates(b) \cup Creates(b) /\ b.files[p] = t /\ v.over = Content(heads, p)
      BY <1>16, <3>1, <3>2
    <3>4. Content(heads, p) = Content(b.base,
            p) /\ p \in DOMAIN b.files /\ b.files[p] # Content(b.base, p)
      BY <1>9, <3>2, <3>3 DEF Content
    <3>5. WritesWereSeen(s, b)
      BY <1>1 DEF MemoryInv, ChangesWereSeen
    <3>6. b.files[p] \in ToolsOf(s) /\ SomeToolSaw(s, Content(b.base, p))
      BY <3>4, <3>5 DEF WritesWereSeen
    <3>7. HomeOf[t] = s /\ SomeToolSaw(s, v.over)
      BY <3>3, <3>4, <3>6 DEF ToolsOf
    <3> QED BY <3>7
  <2> QED BY <1>17, <2>1, <2>2
<1> QED BY <1>14, <1>15, <1>23, <1>24

\* A tool's synchronization is refused, applied, or takes the heads there are.
LEMMA SyncStep ==
    ASSUME MemoryInv, NEW t \in MemTools,
           \/ MemorySync(t, "sync", "publish", "restore")
           \/ MemorySync(t, "wbSync", "wbPublish", "wbRestore")
    PROVE  MemoryInv'
<1>1. mtool \in [MemTools -> ToolType] /\ mbox \in [MemSessions -> MemoryBox]
      /\ heads \in ByPath(HeadType)
  BY DEF MemoryInv, MemoryTyped
<1>2. PICK s \in MemSessions : s = HomeOf[t]
  BY MemoryAssumption
<1>3. mtool[t] \in ToolType /\ mbox[s] \in MemoryBox
  BY <1>1
<1>4. PICK from \in {"sync", "wbSync"}, publish \in {"publish", "wbPublish"},
           restore \in {"restore", "wbRestore"} :
         /\ from = "wbSync" => publish = "wbPublish" /\ restore = "wbRestore"
         /\ MemorySync(t, from, publish, restore)
  OBVIOUS
<1>5. mtool[t].pc = from /\ mbox' = mbox
  BY <1>4 DEF MemorySync
<1>6. Ran(t) => publish = "wbPublish" /\ restore = "wbRestore"
  BY <1>4, <1>5 DEF Ran
<1>7. CASE mbox[s].init /\ SyncRefused(mbox[s])
  <2>1. /\ mtool' = [mtool EXCEPT ![t].pc = restore, ![t].result = "error"]
        /\ heads' = heads /\ versions' = versions
    BY <1>2, <1>4, <1>7 DEF MemorySync
  <2>2. PICK tool : tool = [mtool[t] EXCEPT !.pc = restore, !.result = "error"]
    OBVIOUS
  <2>3. tool \in ToolType /\ tool.saw = mtool[t].saw /\ tool.pc = restore
    BY <1>3, <2>2 DEF ToolType, MemPcs
  <2>4. mtool' = [mtool EXCEPT ![t] = tool]
    BY <1>1, <2>1, <2>2 DEF ToolType
  <2> QED BY <1>1, <1>5, <1>6, <2>1, <2>3, <2>4, StoreKept
<1>8. CASE ~mbox[s].init
  <2>1. /\ mtool' = [mtool EXCEPT ![t].pc = publish, ![t].snap = heads]
        /\ heads' = heads /\ versions' = versions
    BY <1>2, <1>4, <1>8 DEF MemorySync
  <2>2. PICK tool : tool = [mtool[t] EXCEPT !.pc = publish, !.snap = heads]
    OBVIOUS
  <2>3. tool \in ToolType /\ tool.saw = mtool[t].saw /\ tool.pc = publish
    BY <1>1, <1>3, <2>2 DEF ToolType, MemPcs
  <2>4. mtool' = [mtool EXCEPT ![t] = tool]
    BY <1>1, <2>1, <2>2 DEF ToolType
  <2> QED BY <1>1, <1>5, <1>6, <2>1, <2>3, <2>4, StoreKept
<1>9. CASE mbox[s].init /\ ~SyncRefused(mbox[s])
  <2>1. /\ mtool' = [mtool EXCEPT ![t].pc = publish, ![t].snap = Synced(mbox[s]).heads]
        /\ heads' = Synced(mbox[s]).heads /\ versions' = versions \cup Synced(mbox[s]).versions
    BY <1>2, <1>4, <1>9 DEF MemorySync
  <2>2. PICK tool : tool = [mtool[t] EXCEPT !.pc = publish, !.snap = Synced(mbox[s]).heads]
    OBVIOUS
  <2>3. mtool' = [mtool EXCEPT ![t] = tool]
    BY <1>1, <2>1, <2>2 DEF ToolType
  <2>4. tool.saw = mtool[t].saw /\ tool.pc = publish
    BY <1>3, <2>2 DEF ToolType
  <2>5. \A u \in MemTools : Ran(u) => Ran(u)' /\ mtool'[u].saw = mtool[u].saw
    BY <1>1, <1>6, <2>3, <2>4 DEF Ran
  <2>6. ASSUME NEW r \in MemSessions, NEW c, SomeToolSaw(r, c)
        PROVE  SomeToolSaw(r, c)'
    <3>1. PICK u \in ToolsOf(r) : Ran(u) /\ mtool[u].saw = c
      BY <2>6 DEF SomeToolSaw
    <3>2. Ran(u)' /\ mtool'[u].saw = c
      BY <2>5, <3>1 DEF ToolsOf
    <3> QED BY <3>1, <3>2 DEF SomeToolSaw
  <2>7. /\ heads' \in ByPath(HeadType) /\ VersionsNumbered' /\ HeadsAreVersions' /\ OnePathEach'
        /\ Cardinality(DOMAIN heads') <= MaxMemories /\ OverwritesWereSeen'
    BY <1>9, <2>1, <2>6, SyncedKeeps
  <2>8. tool \in ToolType
    BY <1>3, <2>1, <2>2, <2>7 DEF ToolType, MemPcs
  <2>9. MemoryTyped'
    BY <1>1, <1>5, <2>3, <2>7, <2>8 DEF MemoryTyped
  <2>10. ChangesWereSeen'
    <3>1. \A r \in MemSessions : WritesWereSeen(r, mbox[r])'
      BY <1>5, <2>6, OthersKept
    <3> QED BY <3>1 DEF ChangesWereSeen
  <2> QED BY <2>7, <2>9, <2>10 DEF MemoryInv
<1> QED BY <1>7, <1>8, <1>9

\* Every step of the Store, its clients and its Sessions keeps the invariant.
LEMMA MemoryStep ==
    ASSUME MemoryInv, [MemoryNext]_memVars
    PROVE  MemoryInv'
<1>1. ASSUME NEW p \in Paths, NEW c \in ClientContents, CreateMemory(p, c)
      PROVE  MemoryInv'
  BY <1>1, CreateMemoryStep
<1>2. ASSUME NEW p \in Paths, NEW q \in Paths, NEW c \in Contents \cup {NoContent}, NEW x,
             c \in ClientContents \cup {Content(heads, p)}, UpdateMemory(p, q, c, x)
      PROVE  MemoryInv'
  BY <1>2, UpdateMemoryStep
<1>3. ASSUME NEW p \in Paths, NEW x, DeleteMemory(p, x)
      PROVE  MemoryInv'
  BY <1>3, DeleteMemoryStep
<1>4. CASE RedactMemoryVersion
  BY <1>4, RedactStep
<1>5. CASE ArchiveStore \/ UNCHANGED memVars
  BY <1>5, ArchiveStep
<1>6. ASSUME NEW t \in MemTools,
             \/ TryLockResourceSync(t) \/ LockResourceOperation(t) \/ LockResourceSync(t)
             \/ ToolRuns(t)
             \/ MemorySync(t, "sync", "publish", "restore")
             \/ MemorySync(t, "wbSync", "wbPublish", "wbRestore")
             \/ RestoreHeads(t, "restore", "publish") \/ RestoreHeads(t, "wbRestore", "wbPublish")
             \/ \E fails \in BOOLEAN : ReplaceMemoryStore(t, fails)
      PROVE  MemoryInv'
  BY <1>6, LockStep, RunStep, SyncStep, RestoreStep, PublishStep
<1> QED BY <1>1, <1>2, <1>3, <1>4, <1>5, <1>6 DEF MemoryNext

\* The writeback of tools never loses a concurrent change that no tool of the
\* Session had seen (internal/app/memory_service.go, SyncMemoryStore), every Memory
\* has the content of the last of its versions, and a Store keeps to its paths and
\* its limit: for any Sessions, tools, paths, clients' writes and interruptions.
THEOREM HistoryIsKept == MemorySpec => [](MemoryIsConsistent /\ MemoryTypeOK)
<1>1. MemoryInit => MemoryInv
  BY MemoryInitInv
<1>2. MemoryInv /\ [MemoryNext]_memVars => MemoryInv'
  BY MemoryStep
<1>3. MemoryInv => MemoryIsConsistent /\ MemoryTypeOK
  <2> SUFFICES ASSUME MemoryInv
               PROVE  ToolsOverwriteWhatTheySaw /\ HeadsAreVersions /\ MemoryTypeOK
    BY DEF MemoryIsConsistent
  <2>1. ToolsOverwriteWhatTheySaw
    <3> SUFFICES ASSUME NEW t \in MemTools, NEW v \in versions, v.content = t, v.over # t
                 PROVE  \E u \in Peers(t) \cup {t} : mtool[u].saw = v.over
      BY DEF ToolsOverwriteWhatTheySaw
    <3>1. SomeToolSaw(HomeOf[t], v.over)
      BY DEF MemoryInv, OverwritesWereSeen
    <3>2. PICK u \in MemTools : HomeOf[u] = HomeOf[t] /\ mtool[u].saw = v.over
      BY <3>1 DEF SomeToolSaw, ToolsOf
    <3>3. u \in Peers(t) \cup {t}
      BY <3>2 DEF Peers
    <3> QED BY <3>2, <3>3
  <2>2. MemoryTypeOK
    <3>1. DOMAIN heads \subseteq Paths
      BY ByPathIs DEF MemoryInv, MemoryTyped
    <3>2. \A t \in MemTools : mtool[t].result \in {"none", "ok", "error"}
      BY DEF MemoryInv, MemoryTyped, ToolType
    <3> QED BY <3>1, <3>2 DEF MemoryInv, MemoryTypeOK
  <2> QED BY <2>1, <2>2 DEF MemoryInv
<1> QED BY <1>1, <1>2, <1>3, PTL DEF MemorySpec

-----------------------------------------------------------------------------
(* The transcript and what a request is compiled from                      *)

\* a sequence, whatever its items are
IsSequence(s) == \E S : s \in Seq(S)

\* A sequence has a length, and its items are at 1 .. that.
LEMMA SequenceDomain ==
    ASSUME NEW s, IsSequence(s)
    PROVE  Len(s) \in Nat /\ DOMAIN s = 1..Len(s)
  BY DEF IsSequence

\* A function on 1 .. n is a sequence.
LEMMA FunctionIsSequence ==
    ASSUME NEW n \in Nat, NEW f, DOMAIN f = 1..n, f = [i \in 1..n |-> f[i]]
    PROVE  IsSequence(f)
  <1>1. f \in [1..n -> {f[i] : i \in 1..n}]
    OBVIOUS
  <1>2. f \in Seq({f[i] : i \in 1..n})
    BY <1>1
  <1> QED BY <1>2 DEF IsSequence

\* Appending and joining keep what was there.
LEMMA AppendGrows ==
    ASSUME NEW s, IsSequence(s), NEW e
    PROVE  /\ IsSequence(Append(s, e)) /\ DOMAIN Append(s, e) = 1..(Len(s) + 1)
           /\ DOMAIN s \subseteq DOMAIN Append(s, e) /\ Len(Append(s, e)) = Len(s) + 1
           /\ \A i \in DOMAIN s : Append(s, e)[i] = s[i]
           /\ Append(s, e)[Len(s) + 1] = e
  <1>1. PICK S : s \in Seq(S)
    BY DEF IsSequence
  <1>2. s \in Seq(S \cup {e}) /\ e \in S \cup {e}
    BY <1>1
  <1>3. Append(s, e) \in Seq(S \cup {e})
    BY <1>2
  <1>4. IsSequence(Append(s, e))
    BY <1>3 DEF IsSequence
  <1> QED BY <1>2, <1>3, <1>4

\* So is the concatenation of two sequences, as long as both.
LEMMA JoinGrows ==
    ASSUME NEW s, NEW t, IsSequence(s), IsSequence(t)
    PROVE  IsSequence(s \o t) /\ DOMAIN s \subseteq DOMAIN (s \o t) /\ Len(s \o t) = Len(s) + Len(t)
  <1>1. PICK S : s \in Seq(S)
    BY DEF IsSequence
  <1>2. PICK T : t \in Seq(T)
    BY DEF IsSequence
  <1>3. s \in Seq(S \cup T) /\ t \in Seq(S \cup T)
    BY <1>1, <1>2
  <1>4. (s \o t) \in Seq(S \cup T)
    BY <1>3
  <1>5. IsSequence(s \o t)
    BY <1>4 DEF IsSequence
  <1> QED BY <1>3, <1>4, <1>5

\* What is drawn, item by item, from the order of a finite set is a sequence.
LEMMA OrderedEntries ==
    ASSUME NEW S, IsFiniteSet(S), NEW f, NEW Before(_, _),
           DOMAIN f = DOMAIN Ordered(S, Before), f = [i \in DOMAIN f |-> f[i]]
    PROVE  IsSequence(f)
  <1>1. Cardinality(S) \in Nat
    BY FS_CardinalityType
  <1>2. DOMAIN Ordered(S, Before) = 1..Cardinality(S)
    BY DEF Ordered
  <1> QED BY <1>1, <1>2, FunctionIsSequence

\* the record of the turn under way
ContextFields == {"pc", "trigger", "res", "uses", "msgs", "delta", "out", "maps", "batch", "acts",
                  "round", "ask"}

\* the turn under way is of events of the ledger
TurnTyped(k) ==
    /\ DOMAIN k = ContextFields
    /\ k.pc \in {"idle", "prepared", "call", "tools", "finish", "terminated"}
    /\ k.pc \notin {"idle", "terminated"} => k.trigger \in DOMAIN ledger /\ k.res \subseteq DOMAIN ledger
    /\ IsSequence(k.out) /\ IsSequence(k.batch) /\ IsFiniteSet(k.acts)

\* the ledger and the transcript are sequences, the turn is of events of the
\* ledger, and the two properties hold
ContextInv ==
    /\ IsSequence(ledger) /\ IsSequence(rows) /\ IsFiniteSet(DOMAIN awaited)
    /\ TurnTyped(cturn) /\ ContextTypeOK /\ SnapshotIsShown

\* A Session starts with an empty ledger, or with one exchange another turn left:
\* nothing of it is compiled yet.
LEMMA ContextInitInv == ContextInit => ContextInv
  <1> SUFFICES ASSUME ContextInit PROVE ContextInv
    OBVIOUS
  <1>1. ledger = <<>> \/ ledger = <<Entry("message", 0, <<1>>), Entry("answer", 1, <<1, 1>>)>>
    BY DEF ContextInit
  <1>2. IsSequence(<<>>) /\ IsSequence(ledger)
    <2>1. IsSequence(<<>>)
      <3>1. <<>> \in Seq({})
        OBVIOUS
      <3> QED BY <3>1 DEF IsSequence
    <2>2. \A a, b : IsSequence(<<a, b>>)
      <3> SUFFICES ASSUME NEW a, NEW b PROVE IsSequence(<<a, b>>)
        OBVIOUS
      <3>1. <<a, b>> \in Seq({a, b})
        OBVIOUS
      <3> QED BY <3>1 DEF IsSequence
    <2> QED BY <1>1, <2>1, <2>2
  <1>3. handled \subseteq DOMAIN ledger
    <2>1. \A a, b : 1 \in DOMAIN <<a, b>>
      OBVIOUS
    <2> QED BY <2>1 DEF ContextInit
  <1>4. DOMAIN awaited = {} /\ DOMAIN snapshots = {} /\ rows = <<>> /\ Represented = {}
    BY DEF ContextInit, Represented
  <1>5. TurnTyped(cturn) /\ cturn.pc = "idle"
    BY <1>2, FS_EmptySet DEF ContextInit, NoContextTurn, TurnTyped, ContextFields
  <1>6. IsFiniteSet(DOMAIN awaited)
    BY <1>4, FS_EmptySet
  <1> QED BY <1>2, <1>3, <1>4, <1>5, <1>6 DEF ContextInv, ContextTypeOK, SnapshotIsShown

\* The turn stays of the ledger when it grows.
LEMMA LedgerGrows ==
    ASSUME ContextInv, IsSequence(ledger'), DOMAIN ledger \subseteq DOMAIN ledger',
           handled' \subseteq DOMAIN ledger', IsFiniteSet(DOMAIN awaited'),
           \A a \in DOMAIN awaited' : awaited'[a] \in {0} \cup DOMAIN ledger',
           handled \subseteq handled', UNCHANGED <<rows, snapshots, cturn>>
    PROVE  ContextInv'
  <1>1. TurnTyped(cturn)'
    BY DEF ContextInv, TurnTyped
  <1>2. Represented' = Represented
    BY DEF Represented
  <1> QED BY <1>1, <1>2 DEF ContextInv, ContextTypeOK, SnapshotIsShown

\* A client appends one event to the ledger and handles none.
LEMMA AdmitStep ==
    ASSUME ContextInv,
           \/ AdmitText \/ AdmitStop
           \/ \E a \in DOMAIN awaited : \E answer \in Resolutions(a) : AdmitResolution(a, answer)
    PROVE  ContextInv'
  <1>a. IsSequence(ledger) /\ handled \subseteq DOMAIN ledger /\ IsFiniteSet(DOMAIN awaited)
        /\ \A a \in DOMAIN awaited : awaited[a] \in {0} \cup DOMAIN ledger
    BY DEF ContextInv, ContextTypeOK
  <1>1. CASE AdmitText \/ AdmitStop
    <2>1. UNCHANGED <<rows, snapshots, cturn, handled, awaited>> /\ \E e : ledger' = Append(ledger, e)
      BY <1>1 DEF AdmitText, AdmitStop
    <2>2. IsSequence(ledger') /\ DOMAIN ledger \subseteq DOMAIN ledger'
      BY <2>1, <1>a, AppendGrows
    <2> QED BY <2>1, <2>2, <1>a, LedgerGrows
  <1>2. ASSUME NEW a \in DOMAIN awaited, NEW answer, AdmitResolution(a, answer) PROVE ContextInv'
    <2>1. /\ ledger' = Append(ledger, Entry(answer, 0, a))
          /\ awaited' = [awaited EXCEPT ![a] = Len(ledger')]
          /\ handled' \in {handled, handled \cup {Len(ledger')}}
          /\ UNCHANGED <<rows, snapshots, cturn>>
      BY <1>2 DEF AdmitResolution
    <2>2. IsSequence(ledger') /\ DOMAIN ledger \subseteq DOMAIN ledger' /\ Len(ledger') \in DOMAIN ledger'
      <3>1. Len(ledger) \in Nat
        BY <1>a, SequenceDomain
      <3> QED BY <2>1, <3>1, <1>a, AppendGrows
    <2>3. DOMAIN awaited' = DOMAIN awaited
      BY <2>1
    <2>4. \A b \in DOMAIN awaited' : awaited'[b] \in {0} \cup DOMAIN ledger'
      BY <2>1, <2>2, <1>a
    <2> QED BY <2>1, <2>2, <2>3, <2>4, <1>a, LedgerGrows
  <1> QED BY <1>1, <1>2

\* A preparation records its projection only if none is recorded for its trigger,
\* and goes on with the one that is.
LEMMA PrepareStep ==
    ASSUME ContextInv, NEW t \in DOMAIN ledger, NEW res \in SUBSET DOMAIN ledger, NEW dropped,
           PrepareTurn(t, res, dropped)
    PROVE  ContextInv'
  <1> DEFINE full      == FullMessages(t, res)
             projected == PrepareRequestContext(full, dropped)
             uses      == UsesTranscript(t, res)
             shown     == PreparedMessages(t, projected)
             delta     == IF uses THEN DeltaOf(t, res) ELSE <<>>
  <1>1. /\ cturn' = [NoContextTurn EXCEPT !.pc = "prepared", !.trigger = t, !.res = res,
                       !.uses = uses, !.msgs = shown, !.delta = delta]
        /\ snapshots' =
             IF t \in DOMAIN snapshots \/ projected = full THEN snapshots
             ELSE [u \in DOMAIN snapshots \cup {t} |->
                     IF u = t THEN projected ELSE snapshots[u]]
        /\ UNCHANGED <<ledger, handled, awaited, rows>>
    BY DEF PrepareTurn
  <1>2. shown = IF t \in DOMAIN snapshots THEN snapshots[t] ELSE projected
    BY DEF PreparedMessages
  <1> HIDE DEF full, projected, uses, shown, delta
  <1>3. /\ DOMAIN cturn' = ContextFields /\ cturn'.pc = "prepared" /\ cturn'.trigger = t /\ cturn'.res = res
        /\ cturn'.msgs = shown /\ cturn'.out = <<>> /\ cturn'.batch = <<>> /\ cturn'.acts = {}
    BY <1>1 DEF NoContextTurn, ContextFields
  <1>4. DOMAIN snapshots' \subseteq DOMAIN snapshots \cup {t}
        /\ (t \in DOMAIN snapshots' => snapshots'[t] = shown)
    BY <1>1, <1>2
  <1>5. IsSequence(<<>>)
    <2>1. <<>> \in Seq({})
      OBVIOUS
    <2> QED BY <2>1 DEF IsSequence
  <1>6. TurnTyped(cturn)'
    BY <1>1, <1>3, <1>5, FS_EmptySet DEF TurnTyped
  <1>7. Represented' = Represented
    BY <1>1 DEF Represented
  <1> QED BY <1>1, <1>3, <1>4, <1>6, <1>7 DEF ContextInv, ContextTypeOK, SnapshotIsShown

\* A step of the turn within its trigger.
LEMMA TurnMoves ==
    ASSUME ContextInv, cturn.pc \in {"prepared", "call", "tools"}, UNCHANGED <<ledger, Rest>>,
           DOMAIN cturn' = ContextFields, cturn'.pc \in {"call", "tools", "finish"},
           cturn'.trigger = cturn.trigger, cturn'.res = cturn.res,
           IsSequence(cturn'.out), IsSequence(cturn'.batch), IsFiniteSet(cturn'.acts)
    PROVE  ContextInv'
  <1>1. TurnTyped(cturn)'
    BY DEF ContextInv, TurnTyped, Rest
  <1>2. Represented' = Represented
    BY DEF Represented, Rest
  <1> QED BY <1>1, <1>2 DEF ContextInv, ContextTypeOK, SnapshotIsShown, Rest

\* A response or a result adds items to what the turn wrote.
LEMMA OutGrows ==
    ASSUME NEW n \in Nat, NEW f, DOMAIN f = 1..n, f = [i \in DOMAIN f |-> f[i]], NEW s, IsSequence(s)
    PROVE  IsSequence(s \o f)
  <1>1. IsSequence(f)
    BY FunctionIsSequence
  <1> QED BY <1>1, JoinGrows

\* the entries of executed tools
LEMMA ResultEntriesSeq ==
    ASSUME IsSequence(cturn.batch), NEW n \in Nat
    PROVE  IsSequence(ResultEntries(n))
  <1>1. Executable(cturn.batch) \cap 1..n \subseteq 1..n /\ IsFiniteSet(1..n)
    BY FS_Interval
  <1>2. IsFiniteSet(Executable(cturn.batch) \cap 1..n)
    BY <1>1, FS_Subset
  <1>3. Cardinality(Executable(cturn.batch) \cap 1..n) \in Nat
    BY <1>2, FS_CardinalityType
  <1>4. DOMAIN Ordered(Executable(cturn.batch) \cap 1..n, <) = 1..Cardinality(Executable(cturn.batch) \cap 1..n)
    BY DEF Ordered
  <1> QED BY <1>3, <1>4, FunctionIsSequence DEF ResultEntries

\* the output of a resumed turn
LEMMA ResumeOutputSeq ==
    ASSUME NEW k \in Nat \ {0}
    PROVE  IsSequence(ResumeOutput(k))
  <1> DEFINE S == {i \in 1 .. k - 1 : AnswerTo(ResumeActions[i]) # "result"}
  <1>1. IsFiniteSet(1 .. k - 1) /\ S \subseteq 1 .. k - 1
    BY FS_Interval
  <1>2. Cardinality(S) \in Nat
    BY <1>1, FS_Subset, FS_CardinalityType
  <1>3. DOMAIN Ordered(S, <) = 1..Cardinality(S)
    BY DEF Ordered
  <1> QED BY <1>2, <1>3, FunctionIsSequence DEF ResumeOutput

\* the barrier's actions have places from 1 on
LEMMA ResumeDomain ==
    ASSUME ContextInv
    PROVE  IsSequence(ResumeActions) /\ DOMAIN ResumeActions \subseteq Nat \ {0}
  <1>1. CASE cturn.res = {}
    <2>1. ResumeActions = <<>> /\ <<>> \in Seq({})
      BY <1>1 DEF ResumeActions
    <2> QED BY <2>1 DEF IsSequence
  <1>2. CASE cturn.res # {}
    <2> DEFINE place(a) == CHOOSE s \in DOMAIN ledger : ledger[s].id = a /\ ledger[s].type \in UseTypes
               item(i) == CHOOSE x \in DOMAIN awaited :
                            Cardinality({y \in DOMAIN awaited : place(y) < place(x)}) = i - 1
    <2>1. ResumeActions = [i \in 1..Cardinality(DOMAIN awaited) |-> item(i)]
      BY <1>2 DEF ResumeActions, Ordered
    <2> HIDE DEF item
    <2>2. Cardinality(DOMAIN awaited) \in Nat
      BY FS_CardinalityType DEF ContextInv
    <2>3. /\ DOMAIN ResumeActions = 1..Cardinality(DOMAIN awaited)
          /\ ResumeActions = [i \in 1..Cardinality(DOMAIN awaited) |-> ResumeActions[i]]
      BY <2>1
    <2>4. IsSequence(ResumeActions)
      BY <2>2, <2>3, FunctionIsSequence
    <2> QED BY <2>2, <2>3, <2>4
  <1> QED BY <1>1, <1>2

\* A resumed turn goes through finitely many awaited actions.
LEMMA ResumeLength == ContextInv => Len(ResumeActions) + 1 \in Nat \ {0}
  <1> SUFFICES ASSUME ContextInv PROVE Len(ResumeActions) + 1 \in Nat \ {0}
    OBVIOUS
  <1>1. Len(ResumeActions) \in Nat
    BY ResumeDomain, SequenceDomain
  <1> QED BY <1>1

\* what an interrupted turn keeps
LEMMA InterruptedDraftsSeq ==
    ASSUME NEW out, IsSequence(out)
    PROVE  IsSequence(InterruptedDrafts(out))
  <1> DEFINE S == {k \in DOMAIN out : out[k].type \in UseTypes =>
                     \E i \in DOMAIN out : out[i].type = "toolresult" /\ out[i].id = out[k].id}
  <1>1. IsFiniteSet(DOMAIN out) /\ S \subseteq DOMAIN out
    BY SequenceDomain, FS_Interval
  <1>2. Cardinality(S) \in Nat
    BY <1>1, FS_Subset, FS_CardinalityType
  <1>3. DOMAIN Ordered(S, <) = 1..Cardinality(S)
    BY DEF Ordered
  <1> QED BY <1>2, <1>3, FunctionIsSequence DEF InterruptedDrafts

\* A turn ends where it is: what it records of its requests does not matter here.
LEMMA TurnEnds ==
    ASSUME ContextInv, cturn.pc \in {"prepared", "call", "tools"}, UNCHANGED <<ledger, Rest>>,
           NEW k, DOMAIN k = ContextFields, NEW ask, End(k, ask),
           k.trigger = cturn.trigger, k.res = cturn.res,
           IsSequence(k.out), IsSequence(k.batch), IsFiniteSet(k.acts)
    PROVE  ContextInv'
  <1>1. cturn' = [k EXCEPT !.pc = "finish", !.ask = ask]
    BY DEF End
  <1>2. /\ DOMAIN cturn' = ContextFields /\ cturn'.pc = "finish"
        /\ cturn'.trigger = cturn.trigger /\ cturn'.res = cturn.res
        /\ cturn'.out = k.out /\ cturn'.batch = k.batch /\ cturn'.acts = k.acts
    BY <1>1 DEF ContextFields
  <1> QED BY <1>2, TurnMoves

\* Every step of a prepared turn, to its end: responses, tools, compactions,
\* interrupts, barriers and faults.
LEMMA TurnStep ==
    ASSUME ContextInv,
           \/ Resume \/ ResumeStops \/ CompactRequest \/ CallEnds
           \/ CallContinues(<<>>) \/ CallContinues(<<More>>)
           \/ \E batch \in ToolBatches : CallUsesTools(batch) \/ CallFails(batch)
           \/ CallGivesUp \/ ExecuteTools \/ ToolsStop
    PROVE  ContextInv'
  <1>a. /\ DOMAIN cturn = ContextFields
        /\ IsSequence(cturn.out) /\ IsSequence(cturn.batch) /\ IsFiniteSet(cturn.acts)
    BY DEF ContextInv, TurnTyped
  <1>b. ASSUME NEW k, \E m, d : k = [cturn EXCEPT !.round = cturn.round + 1, !.delta = d]
        PROVE  /\ DOMAIN k = ContextFields /\ k.trigger = cturn.trigger /\ k.res = cturn.res
               /\ k.out = cturn.out /\ k.batch = cturn.batch /\ k.acts = cturn.acts /\ k.pc = cturn.pc
    BY <1>a, <1>b DEF ContextFields
  <1>c. \A message : \E d : Responded(message) = [cturn EXCEPT !.round = cturn.round + 1, !.delta = d]
    <2> SUFFICES ASSUME NEW message
                 PROVE  \E d : Responded(message) = [cturn EXCEPT !.round = cturn.round + 1, !.delta = d]
      OBVIOUS
    <2>1. PICK d : d = IF cturn.uses THEN AppendMerging(cturn.delta, <<message>>) ELSE cturn.delta
      OBVIOUS
    <2>2. Responded(message) = [cturn EXCEPT !.round = cturn.round + 1, !.delta = d]
      BY <2>1, <1>a DEF Responded, ContextFields
    <2> QED BY <2>2
  <1>d. \A message : LET k == Responded(message) IN
           /\ DOMAIN k = ContextFields /\ k.trigger = cturn.trigger /\ k.res = cturn.res
           /\ k.out = cturn.out /\ k.batch = cturn.batch /\ k.acts = cturn.acts /\ k.pc = cturn.pc
    BY <1>b, <1>c
  <1>1. CASE Resume
    <2>1. PICK out : /\ IsSequence(out)
                     /\ \/ cturn' = [cturn EXCEPT !.pc = "call"]
                        \/ \E m, d : cturn' = [cturn EXCEPT !.pc = "call", !.out = out, !.msgs = m, !.delta = d]
      <3> DEFINE acts == ResumeActions
                 results == Message("user", [k \in DOMAIN acts |-> Block("result", {ResumeId(acts[k])})])
                 uses    == [k \in DOMAIN acts |-> Block("use", {ResumeId(acts[k])})]
                 asked   == IF cturn.uses THEN <<>> ELSE <<Message("assistant", uses)>>
      <3>1. PICK out : out = ResumeOutput(Len(acts) + 1)
        OBVIOUS
      <3>2. PICK msgs : msgs = AppendMerging(cturn.msgs, asked \o <<results>>)
        OBVIOUS
      <3>3. PICK delta : delta = IF cturn.uses THEN AppendMerging(cturn.delta, <<results>>) ELSE cturn.delta
        OBVIOUS
      <3>4. cturn' = IF acts = <<>> THEN [cturn EXCEPT !.pc = "call"]
                     ELSE [cturn EXCEPT !.pc = "call", !.out = out, !.msgs = msgs, !.delta = delta]
        BY <1>1, <1>a, <3>1, <3>2, <3>3 DEF Resume, ContextFields
      <3> HIDE DEF acts
      <3>5. CASE acts = <<>>
        <4>1. cturn' = [cturn EXCEPT !.pc = "call"]
          BY <3>4, <3>5
        <4> QED BY <4>1, <1>a
      <3>6. CASE acts # <<>>
        <4>1. cturn' = [cturn EXCEPT !.pc = "call", !.out = out, !.msgs = msgs, !.delta = delta]
          BY <3>4, <3>6
        <4>2. IsSequence(out)
          BY <3>1, ResumeOutputSeq, ResumeLength DEF acts
        <4> QED BY <4>1, <4>2
      <3> QED BY <3>5, <3>6
    <2>2. /\ DOMAIN cturn' = ContextFields /\ cturn'.trigger = cturn.trigger /\ cturn'.res = cturn.res
          /\ cturn'.pc = "call" /\ cturn'.out \in {cturn.out, out}
          /\ cturn'.batch = cturn.batch /\ cturn'.acts = cturn.acts
      BY <2>1, <1>a DEF ContextFields
    <2> QED BY <1>1, <2>1, <2>2, <1>a, TurnMoves DEF Resume
  <1>2. CASE ResumeStops
    <2>1. PICK n \in Nat \ {0} : \E ask : End([cturn EXCEPT !.out = ResumeOutput(n)], ask)
      <3>1. PICK k \in DOMAIN ResumeActions :
              \/ \E n \in {k, k + 1} : End([cturn EXCEPT !.out = ResumeOutput(n)], "stopped")
              \/ End([cturn EXCEPT !.out = ResumeOutput(k)], "fail")
        BY <1>2 DEF ResumeStops
      <3>2. k \in Nat \ {0} /\ k + 1 \in Nat \ {0}
        BY ResumeDomain
      <3>3. CASE End([cturn EXCEPT !.out = ResumeOutput(k)], "fail")
        BY <3>2, <3>3 DEF End
      <3>4. ASSUME NEW n \in {k, k + 1}, End([cturn EXCEPT !.out = ResumeOutput(n)], "stopped")
            PROVE  \E m \in Nat \ {0} : \E ask : End([cturn EXCEPT !.out = ResumeOutput(m)], ask)
        BY <3>2, <3>4 DEF End
      <3> QED BY <3>1, <3>3, <3>4
    <2>2. PICK k : k = [cturn EXCEPT !.out = ResumeOutput(n)]
      OBVIOUS
    <2>3. /\ DOMAIN k = ContextFields /\ k.trigger = cturn.trigger /\ k.res = cturn.res
          /\ k.out = ResumeOutput(n) /\ k.batch = cturn.batch /\ k.acts = cturn.acts
      BY <2>2, <1>a DEF ContextFields
    <2>4. IsSequence(ResumeOutput(n))
      BY ResumeOutputSeq
    <2> QED BY <1>2, <2>1, <2>2, <2>3, <2>4, <1>a, TurnEnds DEF ResumeStops
  <1>3. CASE CompactRequest
    <2>1. PICK msgs : cturn' = [cturn EXCEPT !.msgs = msgs]
      BY <1>3 DEF CompactRequest
    <2>2. /\ DOMAIN cturn' = ContextFields /\ cturn'.trigger = cturn.trigger /\ cturn'.res = cturn.res
          /\ cturn'.pc = cturn.pc /\ cturn'.out = cturn.out
          /\ cturn'.batch = cturn.batch /\ cturn'.acts = cturn.acts
      BY <2>1, <1>a DEF ContextFields
    <2> QED BY <1>3, <2>2, <1>a, TurnMoves DEF CompactRequest
  <1>4. CASE CallEnds
    <2>1. PICK s : s = Responded(Text)
      OBVIOUS
    <2>2. PICK e : e = Entry("answer", cturn.trigger, <<cturn.trigger, cturn.round + 1>>)
      OBVIOUS
    <2>3. PICK k : k = [s EXCEPT !.out = Append(s.out, e)]
      OBVIOUS
    <2>4. End(k, "done")
      BY <1>4, <2>1, <2>2, <2>3, <1>d DEF CallEnds, ContextFields
    <2>5. /\ DOMAIN k = ContextFields /\ k.trigger = cturn.trigger /\ k.res = cturn.res
          /\ k.out = Append(cturn.out, e) /\ k.batch = cturn.batch /\ k.acts = cturn.acts
      BY <2>1, <2>3, <1>d DEF ContextFields
    <2>6. IsSequence(k.out)
      BY <2>5, <1>a, AppendGrows
    <2> QED BY <1>4, <2>4, <2>5, <2>6, <1>a, TurnEnds DEF CallEnds
  <1>5. ASSUME NEW prompt, CallContinues(prompt) PROVE ContextInv'
    <2>1. PICK s : s = Responded(Text)
      OBVIOUS
    <2>2. PICK e : e = Entry("answer", cturn.trigger, <<cturn.trigger, cturn.round + 1>>)
      OBVIOUS
    <2>3. PICK m : m = AppendMerging(s.msgs, <<Text>> \o prompt)
      OBVIOUS
    <2>4. PICK d : d = IF cturn.uses THEN AppendMerging(s.delta, prompt) ELSE s.delta
      OBVIOUS
    <2>5. cturn' = [s EXCEPT !.out = Append(s.out, e), !.msgs = m, !.delta = d]
      BY <1>5, <2>1, <2>2, <2>3, <2>4, <1>d DEF CallContinues, ContextFields
    <2>6. /\ DOMAIN cturn' = ContextFields /\ cturn'.trigger = cturn.trigger /\ cturn'.res = cturn.res
          /\ cturn'.pc = cturn.pc /\ cturn'.out = Append(cturn.out, e)
          /\ cturn'.batch = cturn.batch /\ cturn'.acts = cturn.acts
      BY <2>1, <2>5, <1>d DEF ContextFields
    <2>7. IsSequence(cturn'.out)
      BY <2>6, <1>a, AppendGrows
    <2> QED BY <1>5, <2>6, <2>7, <1>a, TurnMoves DEF CallContinues
  <1>6. ASSUME NEW batch \in ToolBatches, CallUsesTools(batch) PROVE ContextInv'
    <2>1. PICK s : s = Responded(Uses(cturn, batch))
      OBVIOUS
    <2>2. PICK f : f = [k \in DOMAIN batch |->
                          Entry(batch[k], cturn.trigger, <<cturn.trigger, cturn.round + 1, k>>)]
      OBVIOUS
    <2>3. PICK m : m = IF cturn.uses
                        THEN s.maps \cup {<<<<cturn.trigger, cturn.round + 1, k>>,
                                            <<cturn.trigger, cturn.round + 1, k, 0>>>> : k \in DOMAIN batch}
                        ELSE s.maps
      OBVIOUS
    <2>4. cturn' = [s EXCEPT !.pc = "tools", !.batch = batch, !.maps = m, !.out = s.out \o f]
      BY <1>6, <2>1, <2>2, <2>3, <1>d DEF CallUsesTools, ContextFields
    <2>5. /\ DOMAIN cturn' = ContextFields /\ cturn'.trigger = cturn.trigger /\ cturn'.res = cturn.res
          /\ cturn'.pc = "tools" /\ cturn'.out = cturn.out \o f
          /\ cturn'.batch = batch /\ cturn'.acts = cturn.acts
      BY <2>1, <2>4, <1>d DEF ContextFields
    <2>6. batch \in Seq(UseTypes)
      BY ContextAssumption
    <2>7. IsSequence(batch) /\ Len(batch) \in Nat /\ DOMAIN batch = 1..Len(batch)
      BY <2>6 DEF IsSequence
    <2>8. IsSequence(cturn'.out)
      BY <2>2, <2>5, <2>7, <1>a, OutGrows
    <2> QED BY <1>6, <2>5, <2>7, <2>8, <1>a, TurnMoves DEF CallUsesTools
  <1>7. ASSUME NEW batch \in ToolBatches, CallFails(batch) PROVE ContextInv'
    <2>1. PICK k : k = Responded(Uses(cturn, batch))
      OBVIOUS
    <2>2. /\ DOMAIN k = ContextFields /\ k.trigger = cturn.trigger /\ k.res = cturn.res
          /\ k.out = cturn.out /\ k.batch = cturn.batch /\ k.acts = cturn.acts
      BY <2>1, <1>d
    <2> QED BY <1>7, <2>1, <2>2, <1>a, TurnEnds DEF CallFails
  <1>8. CASE CallGivesUp
    <2>1. PICK ask : End(cturn, ask)
      BY <1>8 DEF CallGivesUp
    <2> QED BY <1>8, <2>1, <1>a, TurnEnds DEF CallGivesUp
  <1>9. CASE ExecuteTools
    <2> DEFINE batch   == cturn.batch
               results == Message("user", ResultBlocks(Len(batch)))
               asked   == Message("assistant",
                            [k \in DOMAIN batch |-> Block("use", {ProviderUse(k)})])
    <2>1. PICK acts : acts = {PublicId(k) : k \in DOMAIN batch \ Executable(batch)}
      OBVIOUS
    <2>2. PICK d : d = IF cturn.uses THEN AppendMerging(cturn.delta, <<results>>) ELSE cturn.delta
      OBVIOUS
    <2>3. PICK s : s = [cturn EXCEPT !.out = cturn.out \o ResultEntries(Len(batch)), !.acts = acts, !.delta = d]
      OBVIOUS
    <2>4. /\ DOMAIN s = ContextFields /\ s.trigger = cturn.trigger /\ s.res = cturn.res
          /\ s.out = cturn.out \o ResultEntries(Len(batch)) /\ s.batch = cturn.batch /\ s.acts = acts
      BY <2>3, <1>a DEF ContextFields
    <2>5. IF acts # {} THEN End(s, "done")
          ELSE \E m : cturn' = [s EXCEPT !.pc = "call", !.msgs = m]
      <3>1. s = [cturn EXCEPT !.out = @ \o ResultEntries(Len(batch)),
                              !.acts = {PublicId(k) : k \in DOMAIN batch \ Executable(batch)},
                              !.delta = IF cturn.uses THEN AppendMerging(@, <<results>>) ELSE @]
        BY <2>1, <2>2, <2>3, <1>a DEF ContextFields
      <3>2. IF acts # {} THEN End(s, "done")
            ELSE cturn' = [s EXCEPT !.pc = "call", !.msgs = AppendMerging(@, <<asked, results>>)]
        BY <1>9, <2>1, <3>1 DEF ExecuteTools
      <3>3. PICK m : m = AppendMerging(s.msgs, <<asked, results>>)
        OBVIOUS
      <3> HIDE DEF asked, results
      <3>4. CASE acts = {}
        <4>1. cturn' = [s EXCEPT !.pc = "call", !.msgs = m]
          BY <3>2, <3>3, <3>4, <2>4 DEF ContextFields
        <4> QED BY <4>1, <3>4
      <3> QED BY <3>2, <3>4
    <2>6. IsSequence(s.out)
      <3>1. Len(batch) \in Nat
        BY <1>a, SequenceDomain
      <3>2. IsSequence(ResultEntries(Len(batch)))
        BY <3>1, <1>a, ResultEntriesSeq
      <3> QED BY <3>2, <2>4, <1>a, JoinGrows
    <2>7. IsFiniteSet(acts)
      <3> DEFINE K == DOMAIN batch \ Executable(batch)
      <3>1. IsFiniteSet(DOMAIN batch)
        <4>1. DOMAIN cturn.batch = 1..Len(cturn.batch) /\ Len(cturn.batch) \in Nat
          BY <1>a, SequenceDomain
        <4> QED BY <4>1, FS_Interval
      <3>2. IsFiniteSet(K)
        BY <3>1, FS_Subset
      <3> HIDE DEF K
      <3>3. IsFiniteSet({PublicId(k) : k \in K})
        <4> DEFINE f == [k \in K |-> PublicId(k)]
        <4>1. f \in Surjection(K, {PublicId(k) : k \in K})
          BY DEF Surjection
        <4> QED BY <4>1, <3>2, FS_Surjection
      <3> QED BY <3>3, <2>1 DEF K
    <2>8. cturn.pc = "tools" /\ UNCHANGED <<ledger, Rest>>
      BY <1>9 DEF ExecuteTools
    <2> HIDE DEF batch
    <2>9. CASE acts # {}
      BY <2>4, <2>5, <2>6, <2>7, <2>8, <2>9, <1>a, TurnEnds
    <2>10. CASE acts = {}
      <3>1. PICK m : cturn' = [s EXCEPT !.pc = "call", !.msgs = m]
        BY <2>5, <2>10
      <3>2. /\ DOMAIN cturn' = ContextFields /\ cturn'.trigger = cturn.trigger /\ cturn'.res = cturn.res
            /\ cturn'.pc = "call" /\ cturn'.out = s.out /\ cturn'.batch = s.batch /\ cturn'.acts = acts
        BY <3>1, <2>4 DEF ContextFields
      <3> QED BY <3>2, <2>4, <2>6, <2>7, <2>8, <1>a, TurnMoves
    <2> QED BY <2>9, <2>10
  <1>10. CASE ToolsStop
    <2>1. PICK k, ask : /\ End(k, ask)
                        /\ DOMAIN k = ContextFields /\ k.trigger = cturn.trigger /\ k.res = cturn.res
                        /\ k.batch = cturn.batch /\ k.acts = cturn.acts
                        /\ (k.out = cturn.out \/ \E n \in Nat : k.out = cturn.out \o ResultEntries(n))
      <3>1. CASE End(cturn, "fail")
        BY <3>1, <1>a
      <3>2. CASE \E n \in 0 .. Len(cturn.batch) :
               End([cturn EXCEPT
                 !.out = @ \o ResultEntries(n),
                 !.delta = IF cturn.uses
                             THEN AppendMerging(@, <<Message("user", CloseToolRound(n))>>) ELSE @,
                 !.maps = {m \in @ : \A k \in DOMAIN cturn.batch :
                             m[1] = PublicId(k) => k \in Executable(cturn.batch) /\ k <= n}],
                 "stopped")
        <4>1. PICK n \in 0 .. Len(cturn.batch) :
               End([cturn EXCEPT
                 !.out = @ \o ResultEntries(n),
                 !.delta = IF cturn.uses
                             THEN AppendMerging(@, <<Message("user", CloseToolRound(n))>>) ELSE @,
                 !.maps = {m \in @ : \A k \in DOMAIN cturn.batch :
                             m[1] = PublicId(k) => k \in Executable(cturn.batch) /\ k <= n}],
                 "stopped")
          BY <3>2
        <4>2. PICK d : d = IF cturn.uses
                           THEN AppendMerging(cturn.delta, <<Message("user", CloseToolRound(n))>>)
                           ELSE cturn.delta
          OBVIOUS
        <4>3. PICK m : m = {l \in cturn.maps : \A k \in DOMAIN cturn.batch :
                             l[1] = PublicId(k) => k \in Executable(cturn.batch) /\ k <= n}
          OBVIOUS
        <4>4. End([cturn EXCEPT !.out = cturn.out \o ResultEntries(n), !.delta = d, !.maps = m], "stopped")
          BY <4>1, <4>2, <4>3, <1>a DEF ContextFields
        <4>5. n \in Nat
          <5>1. Len(cturn.batch) \in Nat
            BY <1>a, SequenceDomain
          <5> QED BY <5>1
        <4>6. PICK k : k = [cturn EXCEPT !.out = cturn.out \o ResultEntries(n), !.delta = d, !.maps = m]
          OBVIOUS
        <4>7. End(k, "stopped")
          BY <4>4, <4>6
        <4>8. /\ DOMAIN k = ContextFields /\ k.trigger = cturn.trigger /\ k.res = cturn.res
              /\ k.batch = cturn.batch /\ k.acts = cturn.acts /\ k.out = cturn.out \o ResultEntries(n)
          BY <4>6, <1>a DEF ContextFields
        <4> QED BY <4>5, <4>7, <4>8
      <3> QED BY <1>10, <3>1, <3>2 DEF ToolsStop
    <2>2. IsSequence(k.out)
      BY <2>1, <1>a, ResultEntriesSeq, JoinGrows
    <2> QED BY <1>10, <2>1, <2>2, <1>a, TurnEnds DEF ToolsStop
  <1> QED BY <1>1, <1>2, <1>3, <1>4, <1>5, <1>6, <1>7, <1>8, <1>9, <1>10

\* A turn starts for an event of the ledger.
LEMMA StartStep ==
    ASSUME ContextInv, StartTurn \/ PrepareAgain
    PROVE  ContextInv'
  <1>1. CASE StartTurn
    <2>1. CASE DOMAIN awaited = {}
      <3>1. PICK t \in {s \in DOMAIN ledger \ handled : ledger[s].type = "message"} :
              \E dropped : PrepareTurn(t, {}, dropped)
        BY <1>1, <2>1 DEF StartTurn
      <3>2. {} \in SUBSET DOMAIN ledger
        OBVIOUS
      <3> QED BY <3>1, <3>2, PrepareStep
    <2>2. CASE DOMAIN awaited # {}
      <3> DEFINE claims == {awaited[a] : a \in DOMAIN awaited}
      <3>1. PICK t \in claims : 0 \notin claims /\ \E dropped : PrepareTurn(t, claims, dropped)
        BY <1>1, <2>2 DEF StartTurn
      <3>2. claims \in SUBSET DOMAIN ledger
        BY <3>1 DEF ContextInv, ContextTypeOK
      <3> HIDE DEF claims
      <3> QED BY <3>1, <3>2, PrepareStep
    <2> QED BY <2>1, <2>2
  <1>2. CASE PrepareAgain
    <2>1. cturn.trigger \in DOMAIN ledger /\ cturn.res \in SUBSET DOMAIN ledger
      BY <1>2 DEF PrepareAgain, ContextInv, TurnTyped
    <2> QED BY <1>2, <2>1, PrepareStep DEF PrepareAgain
  <1> QED BY <1>1, <1>2

\* An interrupt of the ledger, or none.
LEMMA StopOfLedger ==
    ASSUME ContextInv, NEW t
    PROVE  StopOf(t) \in {0} \cup DOMAIN ledger
  <1> DEFINE later == {s \in DOMAIN ledger \ handled : ledger[s].type = "interrupt" /\ s > t}
  <1>1. later \in SUBSET Nat
    <2>1. DOMAIN ledger = 1..Len(ledger) /\ Len(ledger) \in Nat
      BY SequenceDomain DEF ContextInv
    <2> QED BY <2>1
  <1>2. CASE later = {}
    BY <1>2 DEF StopOf
  <1>3. CASE later # {}
    <2>1. PICK i \in later : \A u \in later : i <= u
      <3> HIDE DEF later
      <3> QED BY <1>1, <1>3, LeastOf
    <2>2. StopOf(t) = CHOOSE e \in later : \A u \in later : e <= u
      BY <1>3 DEF StopOf
    <2>3. StopOf(t) \in later
      <3> HIDE DEF later
      <3> QED BY <2>1, <2>2
    <2> QED BY <2>3
  <1> QED BY <1>2, <1>3

\* A completed turn appends to the ledger what it wrote, and to the transcript its rows.
LEMMA CompleteStep ==
    ASSUME ContextInv, CompleteTurn
    PROVE  ContextInv'
  <1> DEFINE t       == cturn.trigger
             stop    == StopOf(t)
             out     == IF stop = 0 THEN cturn.out ELSE InterruptedDrafts(cturn.out)
             delta   == IF stop = 0 THEN cturn.delta ELSE CloseInterrupted(cturn.delta)
             maps    == IF stop = 0 THEN cturn.maps ELSE CommittedMappings(cturn.maps, out)
             acts    == IF stop = 0 THEN cturn.acts ELSE {}
             answers == IF cturn.res = {} THEN {t} ELSE cturn.res
             drained == IF stop = 0 /\ cturn.ask = "exhausted"
                          THEN {s \in DOMAIN ledger : ledger[s].type = "message"} ELSE {}
  <1>1. /\ IsSequence(ledger) /\ IsSequence(rows) /\ handled \subseteq DOMAIN ledger
        /\ Represented \subseteq handled /\ DOMAIN snapshots \subseteq DOMAIN ledger
        /\ IsSequence(cturn.out) /\ IsFiniteSet(cturn.acts)
        /\ t \in DOMAIN ledger /\ cturn.res \subseteq DOMAIN ledger
    BY DEF ContextInv, ContextTypeOK, TurnTyped, CompleteTurn
  <1>2. /\ ledger' = ledger \o out
        /\ rows' = IF cturn.delta = <<>> THEN rows
                   ELSE Append(rows, [represents |-> answers, messages |-> delta, maps |-> maps])
        /\ handled' = handled \cup answers \cup ({stop} \ {0}) \cup drained
        /\ awaited' = [a \in acts |-> 0]
        /\ \E pc \in {"terminated", "idle"} : cturn' = [NoContextTurn EXCEPT !.pc = pc]
        /\ UNCHANGED snapshots
    BY DEF CompleteTurn
  <1>3. IsSequence(out)
    BY <1>1, InterruptedDraftsSeq
  <1>4. stop \in {0} \cup DOMAIN ledger
    BY StopOfLedger
  <1>5. answers \subseteq DOMAIN ledger /\ drained \subseteq DOMAIN ledger
    BY <1>1
  <1>6. IsFiniteSet(acts)
    BY <1>1, FS_EmptySet
  <1> HIDE DEF out, delta, maps, acts, answers, drained, stop, t
  <1>7. IsSequence(ledger') /\ DOMAIN ledger \subseteq DOMAIN ledger'
    BY <1>1, <1>2, <1>3, JoinGrows
  <1>8. handled \subseteq handled' /\ answers \subseteq handled' /\ handled' \subseteq DOMAIN ledger
    BY <1>1, <1>2, <1>4, <1>5
  <1>9. IsSequence(rows') /\ Represented' \subseteq Represented \cup answers
    <2>1. CASE rows' = rows
      BY <2>1, <1>1 DEF Represented
    <2>2. CASE rows' = Append(rows, [represents |-> answers, messages |-> delta, maps |-> maps])
      <3>1. PICK row : row = [represents |-> answers, messages |-> delta, maps |-> maps]
        OBVIOUS
      <3>2. row.represents = answers
        BY <3>1
      <3>3. rows' = Append(rows, row)
        BY <2>2, <3>1
      <3>4. /\ IsSequence(rows') /\ DOMAIN rows' = 1..(Len(rows) + 1)
            /\ \A i \in DOMAIN rows : rows'[i] = rows[i]
            /\ rows'[Len(rows) + 1] = row
        BY <3>3, <1>1, AppendGrows
      <3>5. DOMAIN rows = 1..Len(rows) /\ Len(rows) \in Nat
        BY <1>1, SequenceDomain
      <3>6. \A i \in DOMAIN rows' : i \in DOMAIN rows \/ i = Len(rows) + 1
        BY <3>4, <3>5
      <3>7. \A i \in DOMAIN rows' : rows'[i].represents \subseteq Represented \cup answers
        BY <3>2, <3>4, <3>6 DEF Represented
      <3>8. Represented' \subseteq Represented \cup answers
        BY <3>7 DEF Represented
      <3> QED BY <3>4, <3>8
    <2> QED BY <1>2, <2>1, <2>2
  <1>10. /\ DOMAIN awaited' = acts /\ \A a \in DOMAIN awaited' : awaited'[a] = 0
    BY <1>2
  <1>11. /\ DOMAIN cturn' = ContextFields /\ cturn'.pc \in {"idle", "terminated"}
         /\ cturn'.out = <<>> /\ cturn'.batch = <<>> /\ cturn'.acts = {}
    BY <1>2 DEF NoContextTurn, ContextFields
  <1>12. IsSequence(<<>>)
    <2>1. <<>> \in Seq({})
      OBVIOUS
    <2> QED BY <2>1 DEF IsSequence
  <1>13. TurnTyped(cturn)'
    BY <1>11, <1>12, FS_EmptySet DEF TurnTyped
  <1>14. ContextTypeOK'
    BY <1>1, <1>2, <1>7, <1>8, <1>9, <1>10, <1>11 DEF ContextTypeOK
  <1> QED BY <1>6, <1>7, <1>9, <1>10, <1>11, <1>13, <1>14 DEF ContextInv, SnapshotIsShown

\* Every step keeps the invariant.
LEMMA ContextStep == ContextInv /\ [ContextNext]_contextVars => ContextInv'
  <1> SUFFICES ASSUME ContextInv, [ContextNext]_contextVars PROVE ContextInv'
    OBVIOUS
  <1>1. CASE UNCHANGED contextVars
    <2>1. Represented' = Represented
      BY <1>1 DEF Represented, contextVars
    <2> QED BY <1>1, <2>1 DEF contextVars, ContextInv, ContextTypeOK, TurnTyped, SnapshotIsShown
  <1>2. CASE TurnNext
    BY <1>2, TurnStep, CompleteStep DEF TurnNext
  <1> QED BY <1>1, <1>2, AdmitStep, StartStep DEF ContextNext

\* A retried preparation shows the model the first one's projection, and a row
\* of the transcript stands for events that were processed.
THEOREM ContextTypes == ContextSpec => [](ContextTypeOK /\ SnapshotIsShown)
  <1>1. ContextInv => ContextTypeOK /\ SnapshotIsShown
    BY DEF ContextInv
  <1> QED BY <1>1, ContextInitInv, ContextStep, PTL DEF ContextSpec

-----------------------------------------------------------------------------
(* The type invariants of Files, providers and resources                   *)

\* what is published was written, and what is worked at was issued
FilesBounded ==
    /\ written <= MaxOutputs /\ boxOutput <= MaxOutputs
    /\ \A f \in FileIds : fileRows[f].content <= MaxOutputs
    /\ \A r \in ApiRequests : request[r].file <= issued
    /\ \A a \in WorkerAttempts : attempt[a].file <= issued /\ attempt[a].content <= MaxOutputs

\* what a step may publish and work at
RowsMove ==
    \A f \in FileIds : \/ fileRows'[f].content \in {0, fileRows[f].content}
                       \/ \E a \in WorkerAttempts : fileRows'[f].content = attempt[a].content
RequestsMove == \A r \in ApiRequests : request'[r].file = request[r].file \/ request'[r].file \in 0..issued'
AttemptsMove ==
    \A a \in WorkerAttempts : /\ attempt'[a].file = attempt[a].file \/ attempt'[a].file \in 0..issued'
                              /\ attempt'[a].content \in {0, attempt[a].content, boxOutput}

\* Such a step stays within the bounds.
LEMMA BoundsKept ==
    ASSUME FileTyped, FilesBounded, RowsMove, RequestsMove, AttemptsMove,
           issued' \in {issued, issued + 1}, UNCHANGED <<boxOutput, written>>
    PROVE  FilesBounded'
  <1>1. /\ issued \in Nat /\ MaxOutputs \in Nat /\ boxOutput \in Nat
        /\ \A a \in WorkerAttempts : attempt[a].file \in Nat /\ attempt[a].content \in Nat
        /\ \A r \in ApiRequests : request[r].file \in Nat
        /\ \A f \in FileIds : fileRows[f].content \in Nat
    BY FileStoreAssumption DEF FileTyped, SharedTyped, RowType, RequestType, AttemptType
  <1>2. issued' \in Nat /\ issued <= issued'
    BY <1>1
  <1>3. \A f \in FileIds : fileRows'[f].content <= MaxOutputs
    BY <1>1 DEF RowsMove, FilesBounded
  <1>4. \A r \in ApiRequests : request'[r].file <= issued'
    BY <1>1, <1>2 DEF RequestsMove, FilesBounded
  <1>5. \A a \in WorkerAttempts : attempt'[a].file <= issued' /\ attempt'[a].content <= MaxOutputs
    BY <1>1, <1>2 DEF AttemptsMove, FilesBounded
  <1> QED BY <1>3, <1>4, <1>5 DEF FilesBounded

\* Hiding, completing and removing rows change no content.
LEMMA RowsKept ==
    ASSUME FileTyped,
           \/ fileRows' = fileRows
           \/ \E fs, st : fileRows' = SetState(fs, st)
           \/ \E f : RemoveIncomplete(f)
           \/ \E use : InsertUploading(use, 0)
    PROVE  RowsMove
  <1>1. \A f \in FileIds : fileRows[f] \in RowType /\ DOMAIN fileRows = FileIds
    BY DEF FileTyped, SharedTyped
  <1>2. CASE fileRows' = fileRows
    BY <1>2 DEF RowsMove
  <1>3. ASSUME NEW fs, NEW st, fileRows' = SetState(fs, st) PROVE RowsMove
    BY <1>1, <1>3 DEF SetState, RowsMove, RowType
  <1>4. ASSUME NEW f, RemoveIncomplete(f) PROVE RowsMove
    BY <1>1, <1>4 DEF RemoveIncomplete, RowsMove, NoRow
  <1>5. ASSUME NEW use, InsertUploading(use, 0) PROVE RowsMove
    BY <1>1, <1>5 DEF InsertUploading, RowsMove
  <1> QED BY <1>2, <1>3, <1>4, <1>5

\* A request names what it inserts or what is there.
LEMMA RequestBounds ==
    ASSUME FileInv, FilesBounded, NEW r \in ApiRequests, RequestNext(r)
    PROVE  FilesBounded'
  <1>a. /\ FileTyped /\ issued \in Nat /\ MaxFiles \in Nat
        /\ \A f \in FileIds : f \in Nat /\ f > 0
        /\ DOMAIN request = ApiRequests /\ \A q \in ApiRequests : request[q] \in RequestType
    BY FileStoreAssumption DEF FileInv, FileTyped, SharedTyped, FileIds
  <1>b. \A f \in FileIds : fileRows[f].st # "none" \/ attached[f] # "none" => f \in 0..issued
    <2> SUFFICES ASSUME NEW f \in FileIds, fileRows[f].st # "none" \/ attached[f] # "none"
                 PROVE  f \in 0..issued
      OBVIOUS
    <2>1. RowSound(f)
      BY DEF FileInv, RowsSound
    <2> QED BY <2>1, <1>a DEF RowSound, NoRow
  <1>c. UNCHANGED attempt => AttemptsMove
    BY DEF AttemptsMove
  <1>1. CASE BeginUpload(r) \/ BeginVersion(r) \/ BeginCopy(r)
    <2>1. PICK use : BeginPut(r, use)
      BY <1>1 DEF BeginUpload, BeginVersion, BeginCopy
    <2>2. InsertUploading(use, 0) /\ issued' = issued + 1 /\ UNCHANGED <<attempt, boxOutput, written>>
          /\ request' = [request EXCEPT ![r] = [pc |-> "putting", file |-> issued + 1, todo |-> {}]]
      BY <2>1 DEF BeginPut, InsertUploading, RequestStep
    <2>3. RequestsMove
      BY <2>2, <1>a DEF RequestsMove
    <2> QED BY <2>2, <2>3, <1>a, <1>c, RowsKept, BoundsKept
  <1>2. ASSUME NEW f \in FileIds, BeginDelete(r, f) \/ BeginDeleteVersion(r, f) \/ BeginDetach(r, f)
        PROVE  FilesBounded'
    <2>1. f \in 0..issued
      BY <1>2, <1>b DEF BeginDelete, BeginDeleteVersion, BeginDetach, Deletable, DeletableVersion
    <2>2. /\ request' = [request EXCEPT ![r] = [pc |-> "unlinking", file |-> f, todo |-> {}]]
          /\ UNCHANGED <<issued, attempt, boxOutput, written>>
          /\ fileRows' = fileRows \/ \E fs, st : fileRows' = SetState(fs, st)
      BY <1>2 DEF BeginDelete, BeginDeleteVersion, BeginDetach, BeginUnlink, RequestStep
    <2>3. RequestsMove
      BY <2>1, <2>2, <1>a DEF RequestsMove
    <2> QED BY <2>2, <2>3, <1>a, <1>c, RowsKept, BoundsKept
  <1>3. CASE \/ PutBlob(r) \/ CompleteUpload(r) \/ CompleteVersion(r) \/ AddSessionResource(r)
             \/ UnlinkBlob(r) \/ UnlinkRow(r)
             \/ PrepareDeletion(r) \/ ListGarbage(r) \/ PurgeBlob(r) \/ PurgeRow(r)
    <2>1. UNCHANGED <<issued, attempt, boxOutput, written>>
      BY <1>3 DEF PutBlob, CompleteUpload, CompleteVersion, CompletePut, AddSessionResource, UnlinkBlob,
                  UnlinkRow, PrepareDeletion, ListGarbage, PurgeBlob, PurgeRow, RequestStep
    <2>2. \/ fileRows' = fileRows
          \/ \E fs, st : fileRows' = SetState(fs, st)
          \/ \E f : RemoveIncomplete(f)
      BY <1>3 DEF PutBlob, CompleteUpload, CompleteVersion, CompletePut, AddSessionResource, UnlinkBlob,
                  UnlinkRow, PrepareDeletion, ListGarbage, PurgeBlob, PurgeRow
    <2>3. \/ RequestEnds(r)
          \/ \E pc : RequestAt(r, pc)
          \/ \E pc, todo : request' = [request EXCEPT ![r].pc = pc, ![r].todo = todo]
      BY <1>3 DEF PutBlob, CompleteUpload, CompleteVersion, CompletePut, AddSessionResource, UnlinkBlob,
                  UnlinkRow, PrepareDeletion, ListGarbage, PurgeBlob, PurgeRow, RequestAt
    <2>4. RequestsMove
      <3>1. CASE RequestEnds(r)
        BY <2>1, <3>1, <1>a DEF RequestsMove, RequestEnds, NoRequest
      <3>2. ASSUME NEW pc, RequestAt(r, pc) PROVE RequestsMove
        BY <3>2, <1>a DEF RequestsMove, RequestAt, RequestType
      <3>3. ASSUME NEW pc, NEW todo, request' = [request EXCEPT ![r].pc = pc, ![r].todo = todo]
            PROVE  RequestsMove
        BY <3>3, <1>a DEF RequestsMove, RequestType
      <3> QED BY <2>3, <3>1, <3>2, <3>3
    <2> QED BY <2>1, <2>2, <2>4, <1>a, <1>c, RowsKept, BoundsKept
  <1> QED BY <1>1, <1>2, <1>3 DEF RequestNext

\* An attempt publishes what it found and names what it inserts or what is there.
LEMMA AttemptBounds ==
    ASSUME FileInv, FilesBounded, NEW a \in WorkerAttempts, AttemptNext(a)
    PROVE  FilesBounded'
  <1>a. /\ FileTyped /\ issued \in Nat /\ MaxFiles \in Nat
        /\ \A f \in FileIds : f \in Nat /\ f > 0 /\ fileRows[f] \in RowType
        /\ DOMAIN fileRows = FileIds
        /\ DOMAIN attempt = WorkerAttempts /\ \A b \in WorkerAttempts : attempt[b] \in AttemptType
    BY FileStoreAssumption DEF FileInv, FileTyped, SharedTyped, FileIds
  <1>b. \A f \in FileIds : attached[f] # "none" => f \in 0..issued
    <2> SUFFICES ASSUME NEW f \in FileIds, attached[f] # "none"
                 PROVE  f \in 0..issued
      OBVIOUS
    <2>1. RowSound(f)
      BY DEF FileInv, RowsSound
    <2> QED BY <2>1, <1>a DEF RowSound, NoRow
  <1>c. UNCHANGED request => RequestsMove
    BY DEF RequestsMove
  <1>1. CASE PrepareSnapshot(a)
    <2>1. /\ UNCHANGED <<issued, request, boxOutput, written>>
          /\ \E fs, st : fileRows' = SetState(fs, st)
          /\ \E todo : attempt' = [attempt EXCEPT ![a] =
                         [pc |-> "sweepblob", file |-> 0, content |-> boxOutput, todo |-> todo]]
      BY <1>1 DEF PrepareSnapshot, AttemptStep
    <2>2. AttemptsMove
      BY <2>1, <1>a DEF AttemptsMove
    <2> QED BY <2>1, <2>2, <1>a, <1>c, RowsKept, BoundsKept
  <1>2. CASE BeginOutput(a) /\ ~closing
    <2>1. /\ issued' = issued + 1 /\ UNCHANGED <<request, boxOutput, written>>
          /\ fileRows' = [fileRows EXCEPT ![issued + 1] =
                            [st |-> "uploading", kind |-> "output", content |-> attempt[a].content]]
          /\ attempt' = [attempt EXCEPT ![a].pc = "put", ![a].file = issued + 1]
      BY <1>2 DEF BeginOutput, AttemptStep, InsertUploading
    <2>2. AttemptsMove
      BY <2>1, <1>a DEF AttemptsMove, AttemptType
    <2>3. RowsMove
      BY <2>1, <1>a DEF RowsMove
    <2> QED BY <2>1, <2>2, <2>3, <1>a, <1>c, BoundsKept
  <1>3. CASE CompleteSessionOutput(a)
    <2>1. /\ UNCHANGED <<issued, request, boxOutput, written>>
          /\ \/ fileRows' = fileRows
             \/ \E f, fs : fileRows' = [SetState(fs, "deleting") EXCEPT ![f].st = "ready"]
          /\ \/ AttemptEnds(a)
             \/ \E todo : attempt' = [attempt EXCEPT ![a].pc = "sweepblob", ![a].content = 0, ![a].todo = todo]
      BY <1>3 DEF CompleteSessionOutput, AttemptStep
    <2>2. AttemptsMove
      BY <2>1, <1>a DEF AttemptsMove, AttemptType, AttemptEnds, NoAttempt
    <2>3. RowsMove
      <3>1. CASE fileRows' = fileRows
        BY <3>1 DEF RowsMove
      <3>2. ASSUME NEW f, NEW fs, fileRows' = [SetState(fs, "deleting") EXCEPT ![f].st = "ready"]
            PROVE  RowsMove
        <4>1. \A g \in FileIds : SetState(fs, "deleting")[g].content = fileRows[g].content
                                 /\ SetState(fs, "deleting")[g] \in RowType
          BY <1>a DEF SetState, RowType
        <4>2. DOMAIN SetState(fs, "deleting") = FileIds
          BY DEF SetState
        <4>3. \A g \in FileIds : fileRows'[g].content = fileRows[g].content
          BY <3>2, <4>1, <4>2 DEF RowType
        <4> QED BY <4>3 DEF RowsMove
      <3> QED BY <2>1, <3>1, <3>2
    <2> QED BY <2>1, <2>2, <2>3, <1>a, <1>c, BoundsKept
  <1>4. ASSUME NEW f \in FileIds, OpenResource(a, f) \/ DismountResource(a, f) PROVE FilesBounded'
    <2>1. f \in 0..issued
      BY <1>4, <1>b DEF OpenResource, DismountResource
    <2>2. /\ \E pc : attempt' = [attempt EXCEPT ![a] = [pc |-> pc, file |-> f, content |-> 0, todo |-> {}]]
          /\ UNCHANGED <<issued, request, boxOutput, written, fileRows>>
      BY <1>4 DEF OpenResource, DismountResource, AttemptStep
    <2>3. AttemptsMove
      BY <2>1, <2>2, <1>a DEF AttemptsMove
    <2> QED BY <2>2, <2>3, <1>a, <1>c, RowsKept, BoundsKept
  <1>5. CASE \/ SweepBlob(a) \/ SweepRow(a) \/ (BeginOutput(a) /\ closing) \/ PutOutput(a)
             \/ ImportResource(a) \/ RecheckResource(a) \/ DropBlob(a) \/ DropRow(a) \/ FinalizeResource(a)
             \/ AttemptFails(a)
    <2>1. UNCHANGED <<issued, request, boxOutput, written>>
      BY <1>5 DEF SweepBlob, SweepRow, BeginOutput, PutOutput, ImportResource, RecheckResource, DropBlob,
                  DropRow, FinalizeResource, AttemptFails, AttemptStep
    <2>2. fileRows' = fileRows \/ \E f : RemoveIncomplete(f)
      BY <1>5 DEF SweepBlob, SweepRow, BeginOutput, PutOutput, ImportResource, RecheckResource, DropBlob,
                  DropRow, FinalizeResource, AttemptFails
    <2>3. \/ AttemptEnds(a)
          \/ \E pc : AttemptAt(a, pc)
          \/ \E pc, todo : attempt' = [attempt EXCEPT ![a].pc = pc, ![a].todo = todo]
      BY <1>5 DEF SweepBlob, SweepRow, BeginOutput, PutOutput, ImportResource, RecheckResource, DropBlob,
                  DropRow, FinalizeResource, AttemptFails
    <2>4. AttemptsMove
      <3>1. CASE AttemptEnds(a)
        BY <2>1, <3>1, <1>a DEF AttemptsMove, AttemptEnds, NoAttempt
      <3>2. ASSUME NEW pc, AttemptAt(a, pc) PROVE AttemptsMove
        BY <3>2, <1>a DEF AttemptsMove, AttemptAt, AttemptType
      <3>3. ASSUME NEW pc, NEW todo, attempt' = [attempt EXCEPT ![a].pc = pc, ![a].todo = todo]
            PROVE  AttemptsMove
        BY <3>3, <1>a DEF AttemptsMove, AttemptType
      <3> QED BY <2>3, <3>1, <3>2, <3>3
    <2> QED BY <2>1, <2>2, <2>4, <1>a, <1>c, RowsKept, BoundsKept
  <1> QED BY <1>1, <1>2, <1>3, <1>4, <1>5 DEF AttemptNext

\* Every step of the Files, of their requests, attempts and restarts, is such a step.
LEMMA FileBounds == FileInv /\ FilesBounded /\ [FileStoreNext]_fileVars => FilesBounded'
  <1> SUFFICES ASSUME FileInv, FilesBounded, [FileStoreNext]_fileVars PROVE FilesBounded'
    OBVIOUS
  <1>a. FileTyped /\ issued \in Nat /\ written \in Nat /\ MaxOutputs \in Nat
    BY FileStoreAssumption DEF FileInv, FileTyped, SharedTyped
  <1>1. CASE WriteOutput
    <2>1. /\ written' = written + 1 /\ written' <= MaxOutputs /\ boxOutput' \in {0, written'}
          /\ UNCHANGED <<fileRows, issued, request, attempt>>
      BY <1>1, <1>a DEF WriteOutput
    <2> QED BY <2>1, <1>a DEF FilesBounded
  <1>2. CASE \/ \E f \in FileIds : PinVersion(f) \/ Unpin(f)
             \/ RestartApi \/ ReconcileBlob \/ ReconcileRow \/ UNCHANGED fileVars
    <2>1. /\ UNCHANGED <<issued, attempt, boxOutput, written>>
          /\ request' = request \/ request' = [r \in ApiRequests |-> NoRequest]
          /\ fileRows' = fileRows \/ \E f : RemoveIncomplete(f)
      BY <1>2 DEF PinVersion, Unpin, RestartApi, ReconcileBlob, ReconcileRow, fileVars
    <2>2. RequestsMove
      BY <2>1, <1>a DEF RequestsMove, NoRequest
    <2>3. AttemptsMove
      BY <2>1 DEF AttemptsMove
    <2> QED BY <2>1, <2>2, <2>3, <1>a, RowsKept, BoundsKept
  <1> QED BY <1>1, <1>2, RequestBounds, AttemptBounds DEF FileStoreNext

\* The type invariant of the Files: the invariant that keeps them consistent, and the bounds.
LEMMA FileTypes ==
    ASSUME QuietRestarts = TRUE
    PROVE  FileStoreSpec => []FileStoreTypeOK
  <1>1. FileStoreInit => FilesBounded
    BY FileStoreAssumption DEF FileStoreInit, FilesBounded, NoRow, NoRequest, NoAttempt
  <1>2. FileInv /\ FilesBounded => FileStoreTypeOK
    <2> SUFFICES ASSUME FileInv, FilesBounded PROVE FileStoreTypeOK
      OBVIOUS
    <2>1. /\ issued \in 0..MaxFiles /\ MaxFiles \in Nat /\ MaxOutputs \in Nat
          /\ fileRows \in [FileIds -> RowType] /\ blobs \subseteq 1..issued
          /\ \A f \in FileIds : fileRows[f] \in RowType /\ fileRows[f].content \in 0..MaxOutputs
      BY FileStoreAssumption DEF FileInv, FileTyped, SharedTyped, FilesBounded, RowType
    <2>2. fileRows \in [FileIds -> [st : {"none", "uploading", "ready", "deleting"},
                             kind : {"upload", "clone", "output", "skill"},
                             content : 0..MaxOutputs]]
      BY <2>1 DEF RowType
    <2>3. blobs \subseteq FileIds
      BY <2>1 DEF FileIds
    <2>4. \A r \in ApiRequests : request[r].file \in 0..issued /\ request[r].todo \subseteq FileIds
      BY <2>1 DEF FileInv, FileTyped, FilesBounded, RequestType
    <2>5. \A a \in WorkerAttempts : attempt[a].file \in 0..issued /\ attempt[a].todo \subseteq FileIds
      BY <2>1 DEF FileInv, FileTyped, FilesBounded, AttemptType
    <2>6. /\ mounted \subseteq FileIds /\ leftover \subseteq mounted /\ startup.todo \subseteq FileIds /\ pinned \subseteq FileIds
          /\ attached \in [FileIds -> {"none", "active", "deleting"}]
      BY DEF FileInv, FileTyped, SharedTyped
    <2> QED BY <2>2, <2>3, <2>4, <2>5, <2>6 DEF FileStoreTypeOK
  <1> QED BY <1>1, <1>2, FileInvInit, FileInvHolds, FileBounds, PTL DEF FileStoreSpec

\* The type invariant of the sandbox providers follows from theirs.
LEMMA ProviderTypes == ProviderSpec => []ProviderTypeOK
  <1>1. ProviderInv => ProviderTypeOK
    BY ProviderAssumption DEF ProviderInv, ProviderTyped, ProviderTypeOK, BoxType, CreatorType, Existing
  <1> QED BY <1>1, ProviderInvariant, PTL

\* So does that of the materialised resources.
LEMMA MaterializerTypes == MaterializerSpec => []MaterializerTypeOK
  <1>1. MountInv => MaterializerTypeOK
    BY DEF MountInv, MatTyped, CopiesSound, SoundCopy, MaterializerTypeOK
  <1> QED BY <1>1, MountInvariant, PTL

-----------------------------------------------------------------------------
(* The composition                                                         *)

\* What fills a sandbox and a request, side by side: every component keeps its
\* property, whatever the others do.
THEOREM SandboxDataHolds ==
    ASSUME QuietRestarts = TRUE
    PROVE  DataSpec => /\ []DataTypeOK
                       /\ [](MemoryIsConsistent /\ FilesAreConsistent /\ ProvidersAreIdempotent
                              /\ MountIsExact /\ SnapshotIsShown)
  <1>1. DataInit => MemoryInit /\ FileStoreInit /\ ProviderInit /\ MaterializerInit /\ ContextInit
    BY DEF DataInit
  <1>2. [DataNext]_DataVars =>
          /\ [MemoryNext]_memVars /\ [FileStoreNext]_fileVars /\ [ProviderNext]_providerVars
          /\ [MaterializerNext]_matVars /\ [ContextNext]_contextVars
    BY DEF DataNext, DataVars, OthersRest
  <1>3. DataSpec => MemorySpec /\ FileStoreSpec /\ ProviderSpec /\ MaterializerSpec /\ ContextSpec
    BY <1>1, <1>2, PTL DEF DataSpec, MemorySpec, FileStoreSpec, ProviderSpec, MaterializerSpec, ContextSpec
  <1>4. MemoryTypeOK /\ FileStoreTypeOK /\ ProviderTypeOK /\ MaterializerTypeOK /\ ContextTypeOK => DataTypeOK
    BY DEF DataTypeOK
  <1>5. FileStoreSpec => []FileStoreTypeOK /\ []FilesAreConsistent
    BY FileTypes, FilesConsistent
  <1> QED BY <1>3, <1>4, <1>5, ProviderTypes, MaterializerTypes, ContextTypes, HistoryIsKept,
             ProvidersIdempotent, MountExact, PTL

==============================================================================
