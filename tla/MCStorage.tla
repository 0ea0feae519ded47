------------------------------ MODULE MCStorage ------------------------------
(***************************************************************************)
(* What the Runtime keeps on disk, for TLC: the events, the workspaces,    *)
(* the artifact store, the schema upgrade, the Runtime's own start and     *)
(* stop, and the build lock of the knowledge cache.  They run at different *)
(* times and share no state here, so a behaviour of the suite              *)
(* is a behaviour of one of them, chosen at the start.                     *)
(***************************************************************************)
EXTENDS EventStore, TLC

CONSTANTS
    Session, Change, SessionOf, WorkspaceOf, NodesOf, None, Call, MaxEdits,
    Artifact, Owner, Size, MaxSessionCount, MaxSessionBytes, MaxGlobalCount, MaxGlobalBytes,
    MaxRegisters, MaxFaults, Record, MaxCrashes, Process, Nobody, MaxKills, Build, Free

VARIABLES
    part, sessions,
    workspaces, active, change, task, scene, receipts, call, edits,
    owners, row, file, born, step, read, del, up, todo, faults,
    tables, history, work, at, opened, crashes, before,
    holder, token, discovery, stage, seenOwn, kept, kills,
    buildLock, written, old, where, saw, cache, temp, troubled, raced,
    torn       \* history: has a retention counted a row that was no longer available

\* "No process" and "no lock file" are none of the processes and builds
ASSUME NobodyAssumption == Nobody \notin Process
ASSUME FreeAssumption == Free \notin Build
ASSUME KillsAssumption == MaxKills \in Nat

W == INSTANCE Workspaces
A == INSTANCE Artifacts WITH pc <- step, sessions <- owners
U == INSTANCE Upgrade
P == INSTANCE RuntimeProcess
B == INSTANCE BuildLock WITH lock <- buildLock

\* A change is of one session; "no row" is neither a workspace nor a manifest
ManifestRow ==
    [session : Session, run : Change, epoch : Nat,
     nodes : UNION {[ids -> W!Path] : ids \in SUBSET W!NodeId}]
ASSUME WorkspaceAssumption ==
    /\ SessionOf \in [Change -> Session]
    /\ None \notin W!Workspace /\ None \notin ManifestRow

MCSessionOf == [c \in Change |-> "s1"]
MCWorkspaceOf == [c1 |-> "w1", c2 |-> "w2"]
MCNodesOf == [c1 |-> {"n1", "n2"}, c2 |-> {"n3"}]
MCOwner == [a \in Artifact |-> "s1"]
MCSize == [a \in Artifact |-> IF a = 2 THEN 2 ELSE 1]

wVars == <<workspaces, active, change, task, scene, receipts, call, edits>>
aVars == <<owners, row, file, born, step, read, del, up, todo, faults>>
uVars == <<tables, history, work, at, opened, crashes, before>>
pVars == <<holder, token, discovery, stage, seenOwn, kept, kills>>
bVars == <<buildLock, written, old, where, saw, cache, temp, troubled, raced>>

PartInit ==
    /\ part \in {"events", "workspaces", "artifacts", "upgrade", "process", "build"}
    /\ Init /\ W!Init /\ A!Init /\ P!ProcessInit /\ B!LockInit /\ torn = FALSE
    /\ IF part = "upgrade" THEN U!UpgradeInit
       ELSE /\ tables = <<>> /\ history = <<>> /\ work = <<>> /\ at = <<0, 0>>
            /\ opened = FALSE /\ crashes = 0 /\ before = <<>>

PartNext ==
    /\ UNCHANGED part
    /\ \/ /\ part = "events" /\ Next
          /\ UNCHANGED <<sessions, wVars, aVars, uVars, pVars, bVars>>
       \/ /\ part = "workspaces" /\ W!Next
          /\ UNCHANGED <<vars, aVars, uVars, pVars, bVars>>
       \/ /\ part = "artifacts" /\ A!Next
          /\ UNCHANGED <<vars, sessions, wVars, uVars, pVars, bVars>>
       \/ /\ part = "upgrade" /\ U!UpgradeNext
          /\ UNCHANGED <<vars, sessions, wVars, aVars, pVars, bVars>>
       \/ /\ part = "process" /\ P!ProcessNext
          /\ UNCHANGED <<vars, sessions, wVars, aVars, uVars, bVars>>
       \/ /\ part = "build" /\ B!LockNext
          /\ UNCHANGED <<vars, sessions, wVars, aVars, uVars, pVars>>
    /\ torn' = (torn \/ A!TornRead)
PartSpec ==
    PartInit /\ [][PartNext]_<<part, vars, sessions, wVars, aVars, uVars, pVars, bVars, torn>>

\* Workspaces: a workspace belongs to its run's session and is the one it works in, and
\* a bootstrap change that is Applied has its workspace on record, through crashes between
\* the scene and the rows (create_workspace_lifecycle, complete_bootstrap_apply).
WorkspacesHold == W!OneOwner /\ W!BootstrapAllOrNothing

\* Artifacts: a row that says available has its bytes, through evictions, deletions,
\* crashes and recovery (register, retention, reconcile).
ArtifactsHold == A!AvailableHasBytes

\* Artifacts: after undisturbed registers every scope is within its caps although they ran
\* side by side, unless a retention's two queries saw different rows: the row the other
\* register or deletion took meanwhile is then counted as evicted twice (_evict_over_caps).
CapsHold == torn \/ A!CapsHold

\* Upgrade: the tables are exactly those of the versions in the history, wherever the
\* process died (_apply_migration).
WholeVersions == part = "upgrade" => U!WholeVersions

\* RuntimeProcess and BuildLock: a Runtime that serves can be found through its discovery
\* file, whoever started and stopped around it, and one that could remove its files left
\* none; a build of the knowledge cache works only under its own lock, unless a reclaim took
\* a lock that had replaced the stale one, and leaves neither lock nor half-written cache,
\* unless it was interrupted or could not remove them (cleanup_identity_files, build_cache).
LockFilesHold == P!ServingIsFound /\ B!BuildLeavesNothing /\ B!OneBuilder
==============================================================================
