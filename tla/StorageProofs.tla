---------------------------- MODULE StorageProofs ----------------------------
(***************************************************************************)
(* What the Runtime keeps on disk, for any number of callers and           *)
(* cancellations, processes, builds, kills and crashes.                    *)
(***************************************************************************)
EXTENDS MCStorage, FiniteSetTheorems, SequenceTheorems, TLAPS

suiteVars == <<part, vars, sessions, wVars, aVars, uVars, pVars, bVars, torn>>

-----------------------------------------------------------------------------
(* The Runtime's start and stop *)

(* The process that has the lock is the only one between its start and its *)
(* end, and whose the two files are follows from how far it has come.      *)
Holding == P!Stages \ {"new", "over"}
ProcessInv ==
    /\ P!ProcessTypeOK
    /\ \A p \in Process : stage[p] \in Holding => holder = p
    /\ \A p \in Process : stage[p] \in {"new", "locked", "opened", "bound"} =>
          p \notin {token, discovery}
    /\ \A p \in Process : stage[p] = "token" => token = p /\ discovery # p
    /\ \A p \in Process : stage[p] = "serving" => token = p /\ discovery = p
    /\ \A p \in Process \ kept : stage[p] = "unbound" /\ token = p => discovery = p
    /\ \A p \in Process \ kept : stage[p] \in {"cleaned", "closed"} => p \notin {token, discovery}

\* No process has come anywhere yet
LEMMA ProcessStarts == P!ProcessInit => ProcessInv
  BY NobodyAssumption, KillsAssumption DEF P!ProcessInit, ProcessInv, P!ProcessTypeOK, P!Stages, Holding

\* RuntimeProcess: every step of a start, a stop or a kill keeps it so
LEMMA ProcessStep == ProcessInv /\ P!ProcessNext => ProcessInv'
  <1> SUFFICES ASSUME ProcessInv, P!ProcessNext PROVE ProcessInv'
    OBVIOUS
  <1> USE NobodyAssumption, KillsAssumption DEF ProcessInv, P!ProcessTypeOK, P!Stages, Holding, P!Go
  <1>1. PICK p \in Process :
          \/ P!Lock(p) \/ P!OpenService(p) \/ P!BindPort(p) \/ P!WriteToken(p)
          \/ P!WriteDiscovery(p) \/ P!WriteFails(p) \/ P!Unbind(p) \/ P!CheckOwn(p)
          \/ P!RemoveFiles(p) \/ P!RemoveFails(p) \/ P!CloseService(p) \/ P!Unlock(p) \/ P!StartFails(p)
          \/ P!Kill(p)
    BY DEF P!ProcessNext
  <1>2. CASE P!Lock(p)
    BY <1>2 DEF P!Lock
  <1>3. CASE P!OpenService(p)
    BY <1>3 DEF P!OpenService
  <1>4. CASE P!BindPort(p)
    BY <1>4 DEF P!BindPort
  <1>5. CASE P!WriteToken(p)
    BY <1>5 DEF P!WriteToken
  <1>6. CASE P!WriteDiscovery(p)
    BY <1>6 DEF P!WriteDiscovery
  <1>7. CASE P!WriteFails(p)
    BY <1>7 DEF P!WriteFails
  <1>8. CASE P!Unbind(p)
    BY <1>8 DEF P!Unbind
  <1>9. CASE P!CheckOwn(p)
    BY <1>9 DEF P!CheckOwn
  <1>10. CASE P!RemoveFiles(p)
    BY <1>10 DEF P!RemoveFiles
  <1>11. CASE P!CloseService(p)
    BY <1>11 DEF P!CloseService
  <1>12. CASE P!Unlock(p)
    BY <1>12 DEF P!Unlock
  <1>13. CASE P!StartFails(p)
    BY <1>13 DEF P!StartFails
  <1>14. CASE P!Kill(p)
    BY <1>14 DEF P!Kill
  <1>15. CASE P!RemoveFails(p)
    BY <1>15 DEF P!RemoveFails
  <1> QED BY <1>1, <1>2, <1>3, <1>4, <1>5, <1>6, <1>7, <1>8, <1>9, <1>10, <1>11, <1>12, <1>13, <1>14, <1>15

-----------------------------------------------------------------------------
(* The build lock of the knowledge cache *)

(* Only a build past its creation of the lock file, or ended, can find the *)
(* file its own, written once it has begun to build; only one about to     *)
(* replace the cache, dead, or in trouble has a temporary file; and the    *)
(* stale owner a build is about to remove has ended, as it stays.          *)
BuildInv ==
    /\ B!LockTypeOK
    /\ \A b \in Build : buildLock = b =>
          where[b] \in B!Owning \cup {"dead"} \/ b \in troubled
    /\ \A b \in Build : buildLock = b => where[b] \notin {"try", "read", "stale", "retry"}
    /\ \A b \in Build : buildLock = b /\ where[b] \in {"build", "replace", "release"} => written
    /\ \A b \in temp : where[b] \in {"replace", "dead"} \/ b \in troubled
    /\ \A b \in Build : where[b] = "stale" => saw[b] \in Build /\ where[saw[b]] \in B!Ended
    /\ B!OneBuilder

\* No build has begun
LEMMA BuildStarts == B!LockInit => BuildInv
  BY FreeAssumption DEF B!LockInit, BuildInv, B!LockTypeOK, B!OneBuilder, B!Owning, B!Ended

\* BuildLock: every step of a build, whatever the others do, keeps it so
LEMMA BuildStep == BuildInv /\ B!LockNext => BuildInv'
  <1> SUFFICES ASSUME BuildInv, B!LockNext PROVE BuildInv'
    OBVIOUS
  <1> USE FreeAssumption DEF BuildInv, B!LockTypeOK, B!OneBuilder, B!Owning, B!Ended, B!To, B!Looks
  <1>1. CASE B!Age
    BY <1>1 DEF B!Age
  <1>2. ASSUME NEW b \in Build,
               B!TryCreate(b, "try", "write", "read") \/ B!TryCreate(b, "retry", "rewrite", "busy")
        PROVE  BuildInv'
    <2>1. CASE buildLock = Free
      <3>1. B!LockTypeOK'
        BY <1>2, <2>1 DEF B!TryCreate
      <3>2. B!OneBuilder'
        BY <1>2, <2>1 DEF B!TryCreate
      <3> QED BY <1>2, <2>1, <3>1, <3>2 DEF B!TryCreate
    <2>2. CASE buildLock # Free
      BY <1>2, <2>2 DEF B!TryCreate
    <2> QED BY <2>1, <2>2
  <1>3. ASSUME NEW b \in Build, B!WriteOwner(b) PROVE BuildInv'
    <2>1. /\ where[b] \in {"write", "rewrite"} /\ where' = [where EXCEPT ![b] = "build"]
          /\ written' \in BOOLEAN /\ (written \/ buildLock = b => written')
          /\ UNCHANGED <<buildLock, old, saw, cache, temp, troubled, raced>>
      BY <1>3 DEF B!WriteOwner
    <2> QED BY <2>1
  <1>4. ASSUME NEW b \in Build, B!ReadOwner(b) PROVE BuildInv'
    BY <1>4 DEF B!ReadOwner
  <1>5. ASSUME NEW b \in Build, B!Reclaim(b) PROVE BuildInv'
    BY <1>5 DEF B!Reclaim
  <1>6. ASSUME NEW b \in Build, B!WriteCache(b) PROVE BuildInv'
    BY <1>6 DEF B!WriteCache
  <1>7. ASSUME NEW b \in Build, B!ReplaceCache(b) PROVE BuildInv'
    BY <1>7 DEF B!ReplaceCache
  <1>8. ASSUME NEW b \in Build, B!BuildFails(b) PROVE BuildInv'
    BY <1>8 DEF B!BuildFails
  <1>9. ASSUME NEW b \in Build, B!ReadOwn(b) PROVE BuildInv'
    BY <1>9 DEF B!ReadOwn
  <1>10. ASSUME NEW b \in Build, B!UnlinkOwn(b) PROVE BuildInv'
    BY <1>10 DEF B!UnlinkOwn
  <1>11. ASSUME NEW b \in Build, B!BuildDies(b) PROVE BuildInv'
    BY <1>11 DEF B!BuildDies
  <1>12. ASSUME NEW b \in Build, B!WriteOwnerFails(b) PROVE BuildInv'
    BY <1>12 DEF B!WriteOwnerFails
  <1>13. ASSUME NEW b \in Build, B!ReleaseFails(b) PROVE BuildInv'
    BY <1>13 DEF B!ReleaseFails
  <1> QED BY <1>1, <1>2, <1>3, <1>4, <1>5, <1>6, <1>7, <1>8, <1>9, <1>10, <1>11, <1>12, <1>13
          DEF B!LockNext

-----------------------------------------------------------------------------
(* The workspaces *)

(* An operation under way: what it has read and what it is about to write *)
EpochRead == Nat \cup {None}
CallRow ==
    {W!Idle}
    \cup [op : {"create"}, session : Session, epoch : EpochRead]
    \cup [op : {"bind"}, ws : W!Workspace, stored : ManifestRow, epoch : EpochRead]
    \cup [op : {"switch", "switch2", "commitSwitch"}, ws : W!Workspace,
          stored : ManifestRow, epoch : EpochRead, expected : W!Workspace \cup {None}]
    \cup [op : {"commitCreate"}, ws : W!Workspace, new : ManifestRow]
    \cup [op : {"commitBind"}, ws : W!Workspace, stored : ManifestRow, new : ManifestRow]

WorkTypes ==
    /\ sessions \subseteq Session
    /\ workspaces \in [W!Workspace -> ManifestRow \cup {None}]
    /\ active \in [Session -> W!Workspace \cup {None}]
    /\ change \in [Change -> {"Approved", "Applying", "Applied", "CriticalRecovery", "Gone"}]
    /\ scene \in [epoch : Nat, nodes : SUBSET W!Node]
    /\ call \in [Call -> CallRow]

(* A manifest about to be created is of the run its nodes name; one about  *)
(* to be bound has the identity of the row that was read.                  *)
CallTrue(r) ==
    /\ r.op = "commitCreate" =>
          /\ WorkspaceOf[r.new.run] = r.ws
          /\ DOMAIN r.new.nodes \subseteq NodesOf[r.new.run]
    /\ r.op = "commitBind" =>
          /\ r.new.session = r.stored.session /\ r.new.run = r.stored.run
          /\ DOMAIN r.new.nodes = DOMAIN r.stored.nodes

(* The workspace of an Applied change goes only with the change *)
AppliedOwned ==
    \A c \in Change : change[c] = "Applied" =>
        workspaces[WorkspaceOf[c]] # None /\ workspaces[WorkspaceOf[c]].session = SessionOf[c]

WorkInv ==
    /\ WorkTypes /\ (\A k \in Call : CallTrue(call[k])) /\ AppliedOwned
    /\ W!OneOwner /\ W!BootstrapAllOrNothing

(* A manifest is of the session and the run it is made for and owns the    *)
(* nodes it is made of (WorkspaceManifest)                                 *)
LEMMA ManifestFacts ==
    ASSUME NEW s \in Session, NEW c \in Change, NEW e \in Nat, NEW sel \in SUBSET W!Node
    PROVE  LET m == W!Manifest(s, c, e, sel)
           IN /\ m \in ManifestRow /\ m # None
              /\ m.session = s /\ m.run = c /\ DOMAIN m.nodes = {n.id : n \in sel}
  <1> DEFINE ids == {n.id : n \in sel}
             f == [id \in ids |-> (CHOOSE n \in sel : n.id = id).path]
  <1>1. ids \in SUBSET W!NodeId
    BY DEF W!Node
  <1>2. \A id \in ids : (CHOOSE n \in sel : n.id = id).path \in W!Path
    <2> TAKE id \in ids
    <2>1. \E n \in sel : n.id = id
      OBVIOUS
    <2>2. (CHOOSE n \in sel : n.id = id) \in sel
      BY <2>1
    <2> QED BY <2>2 DEF W!Node
  <1>3. f \in [ids -> W!Path] /\ DOMAIN f = ids
    BY <1>2
  <1>4. W!Manifest(s, c, e, sel) = [session |-> s, run |-> c, epoch |-> e, nodes |-> f]
    BY DEF W!Manifest
  <1> HIDE DEF ids, f
  <1>5. f \in UNION {[i -> W!Path] : i \in SUBSET W!NodeId}
    BY <1>1, <1>3
  <1>6. W!Manifest(s, c, e, sel) \in ManifestRow
    BY <1>4, <1>5 DEF ManifestRow
  <1> QED BY <1>3, <1>4, <1>6, WorkspaceAssumption DEF ids

\* derive_bootstrap_manifest: likewise, and all the nodes of the change
LEMMA DeriveFacts ==
    ASSUME NEW c \in Change
    PROVE  LET m == W!DeriveManifest(c)
           IN /\ m \in ManifestRow /\ m # None
              /\ m.session = SessionOf[c] /\ m.run = c /\ DOMAIN m.nodes = NodesOf[c]
  <1> DEFINE f == [id \in NodesOf[c] |-> id]
  <1>1. NodesOf[c] \in SUBSET W!NodeId /\ NodesOf[c] \subseteq W!Path
    BY DEF W!NodeId, W!Path
  <1>2. f \in [NodesOf[c] -> W!Path] /\ DOMAIN f = NodesOf[c]
    BY <1>1
  <1>3. W!DeriveManifest(c) = [session |-> SessionOf[c], run |-> c, epoch |-> 1, nodes |-> f]
    BY DEF W!DeriveManifest, W!BoundEpoch
  <1> HIDE DEF f
  <1>4. f \in UNION {[i -> W!Path] : i \in SUBSET W!NodeId}
    BY <1>1, <1>2
  <1>5. W!DeriveManifest(c) \in ManifestRow
    BY <1>3, <1>4, WorkspaceAssumption DEF ManifestRow
  <1> QED BY <1>2, <1>3, <1>5, WorkspaceAssumption

\* The maker of a node is a change that creates it
LEMMA MakerFacts ==
    ASSUME NEW id \in W!NodeId
    PROVE  /\ W!Maker(id) \in Change /\ id \in NodesOf[W!Maker(id)]
           /\ WorkspaceOf[W!Maker(id)] \in W!Workspace
  <1>1. \E c \in Change : id \in NodesOf[c]
    BY DEF W!NodeId
  <1>2. W!Maker(id) \in Change /\ id \in NodesOf[W!Maker(id)]
    BY <1>1 DEF W!Maker
  <1> QED BY <1>2 DEF W!Workspace

\* What the fields of an operation are
LEMMA CallFacts ==
    ASSUME NEW r \in CallRow
    PROVE  /\ r.op = "create" => r.session \in Session /\ r.epoch \in EpochRead
           /\ r.op \in {"bind", "switch", "switch2", "commitSwitch"} =>
                 r.ws \in W!Workspace /\ r.stored \in ManifestRow
           /\ r.op = "commitCreate" => r.ws \in W!Workspace /\ r.new \in ManifestRow
           /\ r.op = "commitBind" =>
                 r.ws \in W!Workspace /\ r.stored \in ManifestRow /\ r.new \in ManifestRow
           /\ r.op \in {"switch", "switch2", "commitSwitch"} =>
                 r \in [op : {"switch", "switch2", "commitSwitch"}, ws : W!Workspace,
                        stored : ManifestRow, epoch : EpochRead,
                        expected : W!Workspace \cup {None}]
  BY DEF CallRow, W!Idle

\* A step that leaves the rows and the changes alone leaves what they say alone
LEMMA RowsKept ==
    ASSUME WorkInv, UNCHANGED <<sessions, workspaces, active, change>>, WorkTypes',
           \A k \in Call : CallTrue(call'[k])
    PROVE  WorkInv'
  BY DEF WorkInv, CallTrue, AppliedOwned, W!OneOwner, W!BootstrapAllOrNothing, W!Workspace

\* A step of an operation that ends in a record that is true
LEMMA CallKept ==
    ASSUME WorkInv, NEW k \in Call, NEW r \in CallRow, CallTrue(r),
           call' = [call EXCEPT ![k] = r],
           UNCHANGED <<sessions, workspaces, active, change, scene>>
    PROVE  WorkInv'
  <1>1. call \in [Call -> CallRow]
    BY DEF WorkInv, WorkTypes
  <1>2. WorkTypes'
    BY <1>1 DEF WorkInv, WorkTypes
  <1>3. \A j \in Call : CallTrue(call'[j])
    BY <1>1 DEF WorkInv
  <1> QED BY <1>2, <1>3, RowsKept

\* A refusal, or the end of the operation
LEMMA IdleIsCall == W!Idle \in CallRow /\ CallTrue(W!Idle)
  BY DEF CallRow, CallTrue, W!Idle

\* The operations up to the await: what they read is a row
LEMMA ReadStep ==
    ASSUME WorkInv, NEW k \in Call,
           W!Create(k) \/ W!Bind(k) \/ W!Switch(k) \/ W!SwitchActive(k)
    PROVE  WorkInv'
  <1>0. /\ sessions \subseteq Session /\ scene.epoch \in Nat /\ call \in [Call -> CallRow]
        /\ \A w \in W!Workspace : workspaces[w] # None => workspaces[w] \in ManifestRow
        /\ active \in [Session -> W!Workspace \cup {None}]
    BY DEF WorkInv, WorkTypes
  <1>1. CASE W!Create(k)
    <2>1. PICK s \in sessions, e \in {None, scene.epoch} :
            W!Start(k, [op |-> "create", session |-> s, epoch |-> e])
      BY <1>1 DEF W!Create
    <2>2. PICK r : r = [op |-> "create", session |-> s, epoch |-> e]
      OBVIOUS
    <2>3. r \in CallRow /\ CallTrue(r)
      BY <1>0, <2>2 DEF CallRow, CallTrue, EpochRead
    <2> QED BY <2>1, <2>2, <2>3, CallKept DEF W!Start, W!rows
  <1>2. CASE W!Bind(k)
    <2>1. PICK w \in W!Workspace, e \in {None, scene.epoch} :
            /\ workspaces[w] # None
            /\ W!Start(k, [op |-> "bind", ws |-> w, stored |-> workspaces[w], epoch |-> e])
      BY <1>2 DEF W!Bind
    <2>2. PICK r : r = [op |-> "bind", ws |-> w, stored |-> workspaces[w], epoch |-> e]
      OBVIOUS
    <2>3. r \in CallRow /\ CallTrue(r)
      BY <1>0, <2>1, <2>2 DEF CallRow, CallTrue, EpochRead
    <2> QED BY <2>1, <2>2, <2>3, CallKept DEF W!Start, W!rows
  <1>3. CASE W!Switch(k)
    <2>1. PICK w \in W!Workspace, e \in {None, scene.epoch} :
            /\ workspaces[w] # None
            /\ W!Start(k, [op |-> "switch", ws |-> w, stored |-> workspaces[w], epoch |-> e,
                           expected |-> None])
      BY <1>3 DEF W!Switch
    <2>2. PICK r : r = [op |-> "switch", ws |-> w, stored |-> workspaces[w], epoch |-> e,
                        expected |-> None]
      OBVIOUS
    <2>3. r \in CallRow /\ CallTrue(r)
      BY <1>0, <2>1, <2>2 DEF CallRow, CallTrue, EpochRead
    <2> QED BY <2>1, <2>2, <2>3, CallKept DEF W!Start, W!rows
  <1>4. CASE W!SwitchActive(k)
    <2>1. PICK q : q = [call[k] EXCEPT !.op = "switch2"]
      OBVIOUS
    <2>2. PICK r : r = [q EXCEPT !.expected = active[call[k].stored.session]]
      OBVIOUS
    <2>3. call[k].op = "switch" /\ call[k].stored.session \in Session
      BY <1>0, <1>4 DEF W!SwitchActive
    <2>4. active[call[k].stored.session] \in W!Workspace \cup {None}
      BY <1>0, <2>3
    <2>5. call[k] \in [op : {"switch", "switch2", "commitSwitch"}, ws : W!Workspace,
                       stored : ManifestRow, epoch : EpochRead,
                       expected : W!Workspace \cup {None}]
      BY <1>0, <2>3, CallFacts
    <2>6. q \in [op : {"switch2"}, ws : W!Workspace, stored : ManifestRow,
                 epoch : EpochRead, expected : W!Workspace \cup {None}]
      BY <2>1, <2>5
    <2>7. r \in [op : {"switch2"}, ws : W!Workspace, stored : ManifestRow,
                 epoch : EpochRead, expected : W!Workspace \cup {None}]
      BY <2>2, <2>4, <2>6
    <2>8. r \in CallRow /\ CallTrue(r)
      BY <2>7 DEF CallRow, CallTrue
    <2> QED BY <1>4, <2>1, <2>2, <2>8, CallKept DEF W!SwitchActive, W!rows
  <1> QED BY <1>1, <1>2, <1>3, <1>4

(* The answer of the provider: a manifest of the nodes selected is of the  *)
(* run that made them all (_complete_selection)                            *)
LEMMA InspectStep ==
    ASSUME WorkInv, NEW k \in Call,
           W!InspectCreate(k) \/ W!InspectBind(k) \/ W!InspectSwitch(k) \/ W!Unavailable(k)
    PROVE  WorkInv'
  <1>0. /\ scene.epoch \in Nat /\ scene.nodes \subseteq W!Node
        /\ call \in [Call -> CallRow] /\ call[k] \in CallRow
    BY DEF WorkInv, WorkTypes
  <1>1. W!Fails(k) => WorkInv'
    BY IdleIsCall, CallKept DEF W!Fails, W!Answered, W!rows
  <1>2. CASE W!InspectCreate(k)
    <2>1. PICK sel \in SUBSET scene.nodes :
            \/ W!Fails(k)
            \/ /\ W!CompleteSelection(sel, FALSE)
               /\ W!Answered(k, [op |-> "commitCreate",
                     ws |-> WorkspaceOf[W!Maker((CHOOSE n \in sel : TRUE).id)],
                     new |-> W!Manifest(call[k].session, W!Maker((CHOOSE n \in sel : TRUE).id),
                                        scene.epoch, sel)])
      BY <1>2 DEF W!InspectCreate
    <2>2. PICK maker : maker = W!Maker((CHOOSE n \in sel : TRUE).id)
      OBVIOUS
    <2>3. PICK m : m = W!Manifest(call[k].session, maker, scene.epoch, sel)
      OBVIOUS
    <2>4. PICK r : r = [op |-> "commitCreate", ws |-> WorkspaceOf[maker], new |-> m]
      OBVIOUS
    <2>5. ASSUME W!CompleteSelection(sel, FALSE) PROVE r \in CallRow /\ CallTrue(r)
      <3>1. sel # {} /\ \A i, j \in sel : W!Maker(i.id) = W!Maker(j.id)
        BY <2>5 DEF W!CompleteSelection
      <3>2. (CHOOSE n \in sel : TRUE) \in sel
        BY <3>1
      <3>3. \A n \in sel : n.id \in W!NodeId
        BY <1>0 DEF W!Node
      <3>4. \A n \in sel : W!Maker(n.id) = maker
        BY <2>2, <3>1, <3>2
      <3>5. maker \in Change /\ WorkspaceOf[maker] \in W!Workspace
        BY <2>2, <3>2, <3>3, MakerFacts
      <3>6. call[k].session \in Session
        BY <1>0, <1>2, CallFacts DEF W!InspectCreate
      <3>7. sel \in SUBSET W!Node
        BY <1>0
      <3>8. /\ m \in ManifestRow /\ m.run = maker /\ DOMAIN m.nodes = {n.id : n \in sel}
        BY <1>0, <2>3, <3>5, <3>6, <3>7, ManifestFacts
      <3>9. {n.id : n \in sel} \subseteq NodesOf[maker]
        BY <3>3, <3>4, MakerFacts
      <3> QED BY <2>4, <3>5, <3>8, <3>9 DEF CallRow, CallTrue
    <2>6. W!Answered(k, r) /\ r \in CallRow /\ CallTrue(r) => WorkInv'
      BY CallKept DEF W!Answered, W!rows
    <2> QED BY <1>1, <2>1, <2>2, <2>3, <2>4, <2>5, <2>6
  <1>3. CASE W!InspectBind(k)
    <2>0. call[k].op = "bind"
      BY <1>3 DEF W!InspectBind
    <2>1. PICK o : o = call[k].stored
      OBVIOUS
    <2>2. PICK sel \in SUBSET scene.nodes :
            \/ W!Fails(k)
            \/ /\ {n.id : n \in sel} = DOMAIN o.nodes
               /\ W!Answered(k, [op |-> "commitBind", ws |-> call[k].ws, stored |-> o,
                              new |-> W!Manifest(o.session, o.run, scene.epoch, sel)])
      BY <1>3, <2>1 DEF W!InspectBind
    <2>3. PICK m : m = W!Manifest(o.session, o.run, scene.epoch, sel)
      OBVIOUS
    <2>4. PICK r : r = [op |-> "commitBind", ws |-> call[k].ws, stored |-> o, new |-> m]
      OBVIOUS
    <2>5. o \in ManifestRow /\ call[k].ws \in W!Workspace
      BY <1>0, <2>0, <2>1, CallFacts
    <2>6. o.session \in Session /\ o.run \in Change /\ sel \in SUBSET W!Node
      BY <1>0, <2>5 DEF ManifestRow
    <2>7. /\ m \in ManifestRow /\ m.session = o.session /\ m.run = o.run
          /\ DOMAIN m.nodes = {n.id : n \in sel}
      BY <1>0, <2>3, <2>6, ManifestFacts
    <2>8. {n.id : n \in sel} = DOMAIN o.nodes => r \in CallRow /\ CallTrue(r)
      BY <2>4, <2>5, <2>7 DEF CallRow, CallTrue
    <2>9. W!Answered(k, r) /\ r \in CallRow /\ CallTrue(r) => WorkInv'
      BY CallKept DEF W!Answered, W!rows
    <2> QED BY <1>1, <2>2, <2>3, <2>4, <2>8, <2>9
  <1>4. CASE W!InspectSwitch(k)
    <2>1. PICK r : r = [call[k] EXCEPT !.op = "commitSwitch"]
      OBVIOUS
    <2>2. call[k].op = "switch2" /\ (W!Fails(k) \/ W!Answered(k, r))
      BY <1>4, <2>1 DEF W!InspectSwitch
    <2>3. r \in [op : {"commitSwitch"}, ws : W!Workspace, stored : ManifestRow,
                 epoch : EpochRead, expected : W!Workspace \cup {None}]
      BY <1>0, <2>1, <2>2, CallFacts
    <2>4. r \in CallRow /\ CallTrue(r)
      BY <2>3 DEF CallRow, CallTrue
    <2> QED BY <1>1, <2>2, <2>4, CallKept DEF W!Answered, W!rows
  <1>5. CASE W!Unavailable(k)
    BY <1>1, <1>5 DEF W!Unavailable
  <1> QED BY <1>2, <1>3, <1>4, <1>5

(* A workspace put on record for a session that had none: the rows stay    *)
(* true, and so does what they say of the changes that are Applied         *)
(* (create_workspace_lifecycle, complete_bootstrap_apply)                  *)
LEMMA RecordedRows ==
    ASSUME WorkInv, NEW w \in W!Workspace, NEW m \in ManifestRow,
           SessionOf[m.run] = m.session, WorkspaceOf[m.run] = w,
           DOMAIN m.nodes \subseteq NodesOf[m.run],
           workspaces[w] = None, active[m.session] = None,
           workspaces' = [workspaces EXCEPT ![w] = m],
           active' = [active EXCEPT ![m.session] = w],
           \A c \in Change : change'[c] = "Applied" =>
               change[c] = "Applied" \/ (c = m.run /\ DOMAIN m.nodes = NodesOf[c])
    PROVE  AppliedOwned' /\ W!OneOwner' /\ W!BootstrapAllOrNothing'
  <1>0. /\ workspaces \in [W!Workspace -> ManifestRow \cup {None}]
        /\ active \in [Session -> W!Workspace \cup {None}]
        /\ m.session \in Session /\ m.run \in Change /\ m # None /\ w # None
    BY WorkspaceAssumption DEF WorkInv, WorkTypes, ManifestRow
  <1>1. /\ workspaces'[w] = m /\ active'[m.session] = w
        /\ \A v \in W!Workspace : v # w => workspaces'[v] = workspaces[v]
        /\ \A s \in Session : s # m.session => active'[s] = active[s]
    BY <1>0
  <1>2. \A v \in W!Workspace : v # w /\ workspaces[v] # None => workspaces[v].session # m.session
    BY WorkspaceAssumption DEF WorkInv, W!OneOwner
  <1>3. \A v \in W!Workspace : workspaces[v] # None => workspaces[v].session \in Session
    BY <1>0 DEF ManifestRow
  <1>4. W!OneOwner'
    <2>1. ASSUME NEW v \in W!Workspace, workspaces'[v] # None
          PROVE  LET n == workspaces'[v]
                 IN /\ SessionOf[n.run] = n.session /\ active'[n.session] = v
                    /\ WorkspaceOf[n.run] = v /\ DOMAIN n.nodes \subseteq NodesOf[n.run]
      <3>1. CASE v = w
        BY <1>1, <3>1
      <3>2. CASE v # w
        <4>1. workspaces'[v] = workspaces[v]
          BY <1>1, <3>2
        <4>2. workspaces[v].session \in Session /\ workspaces[v].session # m.session
          BY <1>2, <1>3, <2>1, <3>2, <4>1
        <4> QED BY <1>1, <2>1, <4>1, <4>2 DEF WorkInv, W!OneOwner
      <3> QED BY <3>1, <3>2
    <2>2. ASSUME NEW s \in Session, active'[s] # None
          PROVE  workspaces'[active'[s]] # None /\ workspaces'[active'[s]].session = s
      <3>1. CASE s = m.session
        BY <1>0, <1>1, <3>1
      <3>2. CASE s # m.session
        <4>1. active'[s] = active[s] /\ active[s] \in W!Workspace
          BY <1>0, <1>1, <2>2, <3>2
        <4>2. workspaces[active[s]] # None /\ workspaces[active[s]].session = s
          BY <2>2, <4>1 DEF WorkInv, W!OneOwner
        <4>3. active[s] # w
          BY <4>2
        <4> QED BY <1>1, <4>1, <4>2, <4>3
      <3> QED BY <3>1, <3>2
    <2> QED BY <2>1, <2>2 DEF W!OneOwner
  <1>5. ASSUME NEW c \in Change, change'[c] = "Applied"
        PROVE  /\ workspaces'[WorkspaceOf[c]] # None
               /\ workspaces'[WorkspaceOf[c]].session = SessionOf[c]
               /\ DOMAIN workspaces'[WorkspaceOf[c]].nodes = NodesOf[c]
    <2>1. CASE change[c] = "Applied"
      <3>1. WorkspaceOf[c] \in W!Workspace
        BY DEF W!Workspace
      <3>2. /\ workspaces[WorkspaceOf[c]] # None
            /\ workspaces[WorkspaceOf[c]].session = SessionOf[c]
            /\ DOMAIN workspaces[WorkspaceOf[c]].nodes = NodesOf[c]
        BY <2>1 DEF WorkInv, AppliedOwned, W!BootstrapAllOrNothing
      <3> QED BY <1>1, <3>1, <3>2
    <2>2. CASE c = m.run /\ DOMAIN m.nodes = NodesOf[c]
      BY <1>0, <1>1, <2>2
    <2> QED BY <1>5, <2>1, <2>2
  <1> QED BY <1>4, <1>5 DEF AppliedOwned, W!BootstrapAllOrNothing

\* create_workspace_lifecycle
LEMMA CreateStep ==
    ASSUME WorkInv, NEW k \in Call, W!CreateWorkspaceLifecycle(k)
    PROVE  WorkInv'
  <1> DEFINE m == call[k].new
             w == call[k].ws
             ok == /\ m.session \in sessions /\ SessionOf[m.run] = m.session
                   /\ workspaces[w] = None /\ active[m.session] = None
  <1>0. /\ call \in [Call -> CallRow] /\ call[k] \in CallRow /\ call[k].op = "commitCreate"
        /\ call' = [call EXCEPT ![k] = W!Idle]
        /\ UNCHANGED <<sessions, change, scene>>
    BY DEF WorkInv, WorkTypes, W!CreateWorkspaceLifecycle, W!Commit
  <1>1. w \in W!Workspace /\ m \in ManifestRow
    BY <1>0, CallFacts
  <1>2. WorkspaceOf[m.run] = w /\ DOMAIN m.nodes \subseteq NodesOf[m.run]
    BY <1>0 DEF WorkInv, CallTrue
  <1>3. /\ workspaces' = IF ok THEN [workspaces EXCEPT ![w] = m] ELSE workspaces
        /\ active' = IF ok THEN [active EXCEPT ![m.session] = w] ELSE active
    BY DEF W!CreateWorkspaceLifecycle
  <1> HIDE DEF m, w
  <1>4. CASE ok
    <2>1. AppliedOwned' /\ W!OneOwner' /\ W!BootstrapAllOrNothing'
      BY <1>0, <1>1, <1>2, <1>3, <1>4, RecordedRows
    <2>2. WorkTypes'
      <3>1. m.session \in Session
        BY <1>1 DEF ManifestRow
      <3> QED BY <1>0, <1>1, <1>3, <1>4, <3>1, IdleIsCall DEF WorkInv, WorkTypes
    <2>3. \A j \in Call : CallTrue(call'[j])
      BY <1>0, IdleIsCall DEF WorkInv
    <2> QED BY <2>1, <2>2, <2>3 DEF WorkInv
  <1>5. CASE ~ok
    BY <1>0, <1>3, <1>5, IdleIsCall, CallKept
  <1> QED BY <1>4, <1>5

\* bind_workspace: the row is replaced by one of the same session, run and node ids
LEMMA BindStep ==
    ASSUME WorkInv, NEW k \in Call, W!BindWorkspace(k)
    PROVE  WorkInv'
  <1> DEFINE m == call[k].new
             w == call[k].ws
             ok == /\ workspaces[w] # None /\ workspaces[w] = call[k].stored
                   /\ workspaces[w].run = m.run /\ DOMAIN workspaces[w].nodes = DOMAIN m.nodes
  <1>0. /\ call \in [Call -> CallRow] /\ call[k] \in CallRow /\ call[k].op = "commitBind"
        /\ call' = [call EXCEPT ![k] = W!Idle]
        /\ UNCHANGED <<sessions, active, change, scene>>
    BY DEF WorkInv, WorkTypes, W!BindWorkspace, W!Commit
  <1>1. w \in W!Workspace /\ m \in ManifestRow
    BY <1>0, CallFacts
  <1>2. m.session = call[k].stored.session
    BY <1>0 DEF WorkInv, CallTrue
  <1>3. workspaces' = IF ok THEN [workspaces EXCEPT ![w] = m] ELSE workspaces
    BY DEF W!BindWorkspace
  <1>4. CASE ok
    <2>0. workspaces \in [W!Workspace -> ManifestRow \cup {None}] /\ m # None
      BY <1>1, WorkspaceAssumption DEF WorkInv, WorkTypes
    <2>1. workspaces[w].session = m.session
      BY <1>2, <1>4
    <2> HIDE DEF m, w
    <2>2. /\ workspaces[w] # None /\ workspaces[w].run = m.run
          /\ DOMAIN workspaces[w].nodes = DOMAIN m.nodes
      BY <1>4
    <2>3. \A v \in W!Workspace :
            /\ workspaces'[v] # None <=> workspaces[v] # None
            /\ workspaces[v] # None => /\ workspaces'[v].session = workspaces[v].session
                                       /\ workspaces'[v].run = workspaces[v].run
                                       /\ DOMAIN workspaces'[v].nodes = DOMAIN workspaces[v].nodes
      BY <1>1, <1>3, <1>4, <2>0, <2>1, <2>2
    <2>4. /\ active \in [Session -> W!Workspace \cup {None}]
          /\ \A c \in Change : WorkspaceOf[c] \in W!Workspace
      BY DEF WorkInv, WorkTypes, W!Workspace
    <2>5. W!OneOwner'
      BY <1>0, <2>3, <2>4 DEF WorkInv, W!OneOwner
    <2>6. AppliedOwned' /\ W!BootstrapAllOrNothing'
      BY <1>0, <2>3, <2>4 DEF WorkInv, AppliedOwned, W!BootstrapAllOrNothing
    <2>7. WorkTypes'
      BY <1>0, <1>1, <1>3, <1>4, IdleIsCall DEF WorkInv, WorkTypes
    <2>8. \A j \in Call : CallTrue(call'[j])
      BY <1>0, IdleIsCall DEF WorkInv
    <2> QED BY <2>5, <2>6, <2>7, <2>8 DEF WorkInv
  <1>5. CASE ~ok
    BY <1>0, <1>3, <1>5, IdleIsCall, CallKept
  <1> QED BY <1>4, <1>5

\* switch_workspace activates the workspace that is active: a session has one
LEMMA SwitchStep ==
    ASSUME WorkInv, NEW k \in Call, W!SwitchWorkspace(k)
    PROVE  WorkInv'
  <1> DEFINE m == call[k].stored
             w == call[k].ws
  <1>0. /\ call[k] \in CallRow /\ call[k].op = "commitSwitch"
        /\ call' = [call EXCEPT ![k] = W!Idle]
        /\ UNCHANGED <<sessions, workspaces, change, scene>>
    BY DEF WorkInv, WorkTypes, W!SwitchWorkspace, W!Commit
  <1>1. w \in W!Workspace /\ m \in ManifestRow
    BY <1>0, CallFacts
  <1>2. active' = active \/ (workspaces[w] = m /\ active' = [active EXCEPT ![m.session] = w])
    BY DEF W!SwitchWorkspace
  <1> HIDE DEF m, w
  <1>3. workspaces[w] = m => m.session \in Session /\ active[m.session] = w
    BY <1>1, WorkspaceAssumption DEF WorkInv, W!OneOwner, ManifestRow
  <1>4. active' = active
    BY <1>2, <1>3 DEF WorkInv, WorkTypes
  <1> QED BY <1>0, <1>4, IdleIsCall, CallKept

(* complete_bootstrap_apply: the change becomes Applied together with its  *)
(* workspace, or nothing happens                                           *)
LEMMA CompleteStep ==
    ASSUME WorkInv, NEW c \in Change, NEW from, W!CompleteBootstrapApply(c, from)
    PROVE  WorkInv'
  <1> DEFINE w == WorkspaceOf[c]
             s == SessionOf[c]
             m == W!DeriveManifest(c)
             ok == workspaces[w] = None /\ active[s] = None
  <1>0. UNCHANGED <<sessions, scene, call>>
    BY DEF W!CompleteBootstrapApply
  <1>1. /\ change' = IF ok THEN [change EXCEPT ![c] = "Applied"] ELSE change
        /\ workspaces' = IF ok THEN [workspaces EXCEPT ![w] = m] ELSE workspaces
        /\ active' = IF ok THEN [active EXCEPT ![s] = w] ELSE active
    BY DEF W!CompleteBootstrapApply
  <1>2. /\ m \in ManifestRow /\ m.session = s /\ m.run = c /\ DOMAIN m.nodes = NodesOf[c]
        /\ w \in W!Workspace /\ s \in Session
    BY DeriveFacts, WorkspaceAssumption DEF W!Workspace
  <1>3. change \in [Change -> {"Approved", "Applying", "Applied", "CriticalRecovery", "Gone"}]
    BY DEF WorkInv, WorkTypes
  <1> HIDE DEF m
  <1>4. CASE ok
    <2>1. \A d \in Change : change'[d] = "Applied" =>
            change[d] = "Applied" \/ (d = m.run /\ DOMAIN m.nodes = NodesOf[d])
      BY <1>1, <1>2, <1>3, <1>4
    <2>2. SessionOf[m.run] = m.session /\ WorkspaceOf[m.run] = w
          /\ DOMAIN m.nodes \subseteq NodesOf[m.run] /\ active' = [active EXCEPT ![m.session] = w]
          /\ active[m.session] = None
      BY <1>1, <1>2, <1>4
    <2>3. AppliedOwned' /\ W!OneOwner' /\ W!BootstrapAllOrNothing'
      BY <1>1, <1>2, <1>4, <2>1, <2>2, RecordedRows
    <2>4. WorkTypes'
      BY <1>0, <1>1, <1>2, <1>4 DEF WorkInv, WorkTypes
    <2> QED BY <1>0, <2>3, <2>4 DEF WorkInv
  <1>5. CASE ~ok
    <2>1. WorkTypes'
      BY <1>0, <1>1, <1>5 DEF WorkInv, WorkTypes
    <2> QED BY <1>0, <1>1, <1>5, <2>1, RowsKept DEF WorkInv
  <1> QED BY <1>4, <1>5

\* A change whose state moves, but not to Applied, touches no row
LEMMA ChangeStep ==
    ASSUME WorkInv, NEW c \in Change, NEW to \in {"Approved", "Applying", "CriticalRecovery"},
           change' = [change EXCEPT ![c] = to],
           UNCHANGED <<sessions, workspaces, active, scene, call>>
    PROVE  WorkInv'
  <1>1. change \in [Change -> {"Approved", "Applying", "Applied", "CriticalRecovery", "Gone"}]
    BY DEF WorkInv, WorkTypes
  <1>2. \A d \in Change : change'[d] = "Applied" => change[d] = "Applied"
    BY <1>1
  <1>3. WorkTypes'
    BY <1>1 DEF WorkInv, WorkTypes
  <1>4. AppliedOwned' /\ W!BootstrapAllOrNothing'
    BY <1>2 DEF WorkInv, AppliedOwned, W!BootstrapAllOrNothing
  <1>5. W!OneOwner'
    BY DEF WorkInv, W!OneOwner
  <1> QED BY <1>3, <1>4, <1>5 DEF WorkInv

\* The scene may become any scene
LEMMA SceneStep ==
    ASSUME WorkInv, scene' \in [epoch : Nat, nodes : SUBSET W!Node],
           UNCHANGED <<sessions, workspaces, active, change, call>>
    PROVE  WorkInv'
  <1>1. WorkTypes'
    BY DEF WorkInv, WorkTypes
  <1> QED BY <1>1, RowsKept DEF WorkInv

\* The apply task of a bootstrap change, and its recovery
LEMMA ApplyStep ==
    ASSUME WorkInv, NEW c \in Change, W!Apply(c)
    PROVE  WorkInv'
  <1>1. CASE W!Gate(c) \/ W!Rejoin(c) \/ W!ApplyFails(c) \/ W!RecoverPending(c)
    <2>1. UNCHANGED <<sessions, workspaces, active, change, scene, call>>
      BY <1>1 DEF W!Gate, W!Rejoin, W!ApplyFails, W!RecoverPending, W!rows
    <2> QED BY <2>1, SceneStep DEF WorkInv, WorkTypes
  <1>2. CASE W!BeginApply(c)
    BY <1>2, ChangeStep DEF W!BeginApply, W!rows
  <1>3. CASE W!Write(c)
    <2> DEFINE new == {[path |-> id, id |-> id, tags |-> "whole", locked |-> FALSE] :
                          id \in NodesOf[c]}
    <2>1. \A id \in NodesOf[c] : id \in W!NodeId /\ id \in W!Path
      BY DEF W!NodeId, W!Path
    <2>2. new \subseteq W!Node
      <3>1. \A id \in NodesOf[c] :
              [path |-> id, id |-> id, tags |-> "whole", locked |-> FALSE] \in W!Node
        BY <2>1 DEF W!Node
      <3> QED BY <3>1
    <2>3. scene' = [scene EXCEPT !.nodes = scene.nodes \cup new]
          /\ UNCHANGED <<sessions, workspaces, active, change, call>>
      BY <1>3 DEF W!Write, W!rows
    <2> HIDE DEF new
    <2>4. scene \in [epoch : Nat, nodes : SUBSET W!Node]
      BY DEF WorkInv, WorkTypes
    <2>5. scene' \in [epoch : Nat, nodes : SUBSET W!Node]
      BY <2>2, <2>3, <2>4
    <2> QED BY <2>3, <2>5, SceneStep
  <1>4. CASE W!Complete(c)
    BY <1>4, CompleteStep DEF W!Complete
  <1>5. CASE W!Recover(c)
    <2>1. \/ W!CompleteBootstrapApply(c, "recover")
          \/ /\ \/ change' = [change EXCEPT ![c] = "Approved"]
                \/ change' = [change EXCEPT ![c] = "CriticalRecovery"]
             /\ UNCHANGED <<sessions, workspaces, active, scene, call>>
      <3>1. \/ W!CompleteBootstrapApply(c, "recover")
            \/ /\ change' = [change EXCEPT ![c] = "Approved"]
               /\ UNCHANGED <<W!rows, scene, receipts, call, edits>>
            \/ /\ change' = [change EXCEPT ![c] = "CriticalRecovery"]
               /\ UNCHANGED <<W!rows, scene, receipts, call, edits>>
        BY <1>5, Zenon DEF W!Recover
      <3> QED BY <3>1 DEF W!rows
    <2> QED BY <2>1, CompleteStep, ChangeStep
  <1> QED BY <1>1, <1>2, <1>3, <1>4, <1>5 DEF W!Apply

\* Whatever the user does to the scene
LEMMA EditStep ==
    ASSUME WorkInv, W!UserEdits \/ W!UserCopies \/ W!LoadScene
    PROVE  WorkInv'
  <1>0. scene.epoch \in Nat /\ scene.nodes \subseteq W!Node
    BY DEF WorkInv, WorkTypes
  <1>1. ASSUME NEW nodes \in SUBSET W!Node, NEW epoch \in Nat, W!Edit(nodes, epoch)
        PROVE  WorkInv'
    BY <1>1, SceneStep DEF W!Edit, W!rows
  <1>3. CASE W!UserEdits
    <2>1. PICK n \in scene.nodes :
            \/ W!Edit(scene.nodes \ {n}, scene.epoch)
            \/ \E p \in W!Path :
                 W!Edit((scene.nodes \ {n}) \cup {[n EXCEPT !.path = p]}, scene.epoch)
            \/ \E t \in {"none", "part"} :
                 W!Edit((scene.nodes \ {n}) \cup {[n EXCEPT !.tags = t]}, scene.epoch)
            \/ W!Edit((scene.nodes \ {n}) \cup {[n EXCEPT !.locked = TRUE]}, scene.epoch)
      BY <1>3, Zenon DEF W!UserEdits
    <2>0. n \in W!Node
      BY <1>0
    <2>2. \A x \in W!Node : (scene.nodes \ {n}) \cup {x} \in SUBSET W!Node
      BY <1>0
    <2>3. scene.nodes \ {n} \in SUBSET W!Node
      BY <1>0
    <2>4. ASSUME NEW x \in W!Node, W!Edit((scene.nodes \ {n}) \cup {x}, scene.epoch)
          PROVE  WorkInv'
      BY <1>0, <1>1, <2>2, <2>4
    <2>5. W!Edit(scene.nodes \ {n}, scene.epoch) => WorkInv'
      BY <1>0, <1>1, <2>3
    <2>6. \A p \in W!Path : [n EXCEPT !.path = p] \in W!Node
      BY <2>0 DEF W!Node
    <2>7. \A t \in {"none", "part"} : [n EXCEPT !.tags = t] \in W!Node
      BY <2>0 DEF W!Node
    <2>8. [n EXCEPT !.locked = TRUE] \in W!Node
      BY <2>0 DEF W!Node
    <2> QED BY <2>1, <2>4, <2>5, <2>6, <2>7, <2>8, Zenon
  <1>4. CASE W!UserCopies
    <2>1. PICK n \in scene.nodes :
            W!Edit(scene.nodes \cup {[n EXCEPT !.path = W!Away]}, scene.epoch)
      BY <1>4, Zenon DEF W!UserCopies
    <2>2. scene.nodes \cup {[n EXCEPT !.path = W!Away]} \in SUBSET W!Node
      BY <1>0 DEF W!Path, W!Node
    <2> QED BY <1>0, <1>1, <2>1, <2>2
  <1>5. CASE W!LoadScene
    <2>1. PICK nodes \in {{}, scene.nodes} : W!Edit(nodes, scene.epoch + 1)
      BY <1>5 DEF W!LoadScene
    <2>2. nodes \in SUBSET W!Node /\ scene.epoch + 1 \in Nat
      BY <1>0
    <2> QED BY <1>1, <2>1, <2>2
  <1> QED BY <1>3, <1>4, <1>5

\* delete_application_records: a session goes with its workspaces and its changes
LEMMA DeleteStep ==
    ASSUME WorkInv, NEW s \in Session, W!DeleteSession(s)
    PROVE  WorkInv'
  <1>0. /\ workspaces \in [W!Workspace -> ManifestRow \cup {None}]
        /\ active \in [Session -> W!Workspace \cup {None}]
        /\ change \in [Change -> {"Approved", "Applying", "Applied", "CriticalRecovery", "Gone"}]
    BY DEF WorkInv, WorkTypes
  <1>1. /\ sessions' = sessions \ {s} /\ UNCHANGED <<scene, call>>
        /\ workspaces' = [w \in W!Workspace |->
              IF workspaces[w] # None /\ workspaces[w].session = s THEN None ELSE workspaces[w]]
        /\ active' = [active EXCEPT ![s] = None]
        /\ change' = [c \in Change |-> IF SessionOf[c] = s THEN "Gone" ELSE change[c]]
    BY DEF W!DeleteSession
  <1>2. WorkTypes'
    BY <1>0, <1>1 DEF WorkInv, WorkTypes
  <1>3. W!OneOwner'
    <2>1. ASSUME NEW w \in W!Workspace, workspaces'[w] # None
          PROVE  /\ workspaces'[w] = workspaces[w] /\ workspaces[w].session # s
                 /\ workspaces[w].session \in Session
      BY <1>0, <1>1, <2>1 DEF ManifestRow
    <2>2. ASSUME NEW w \in W!Workspace, workspaces'[w] # None
          PROVE  LET n == workspaces'[w]
                 IN /\ SessionOf[n.run] = n.session /\ active'[n.session] = w
                    /\ WorkspaceOf[n.run] = w /\ DOMAIN n.nodes \subseteq NodesOf[n.run]
      <3>1. active'[workspaces[w].session] = active[workspaces[w].session]
        BY <1>0, <1>1, <2>1, <2>2
      <3> QED BY <2>1, <2>2, <3>1 DEF WorkInv, W!OneOwner
    <2>3. ASSUME NEW t \in Session, active'[t] # None
          PROVE  workspaces'[active'[t]] # None /\ workspaces'[active'[t]].session = t
      <3>1. t # s /\ active'[t] = active[t] /\ active[t] \in W!Workspace
        BY <1>0, <1>1, <2>3
      <3>2. workspaces[active[t]] # None /\ workspaces[active[t]].session = t
        BY <2>3, <3>1 DEF WorkInv, W!OneOwner
      <3> QED BY <1>1, <3>1, <3>2
    <2> QED BY <2>2, <2>3 DEF W!OneOwner
  <1>4. ASSUME NEW c \in Change, change'[c] = "Applied"
        PROVE  /\ workspaces'[WorkspaceOf[c]] # None
               /\ workspaces'[WorkspaceOf[c]].session = SessionOf[c]
               /\ DOMAIN workspaces'[WorkspaceOf[c]].nodes = NodesOf[c]
    <2>1. SessionOf[c] # s /\ change[c] = "Applied" /\ WorkspaceOf[c] \in W!Workspace
      BY <1>1, <1>4 DEF W!Workspace
    <2>2. /\ workspaces[WorkspaceOf[c]] # None
          /\ workspaces[WorkspaceOf[c]].session = SessionOf[c]
          /\ DOMAIN workspaces[WorkspaceOf[c]].nodes = NodesOf[c]
      BY <2>1 DEF WorkInv, AppliedOwned, W!BootstrapAllOrNothing
    <2> QED BY <1>1, <2>1, <2>2
  <1>5. AppliedOwned' /\ W!BootstrapAllOrNothing'
    BY <1>4 DEF AppliedOwned, W!BootstrapAllOrNothing
  <1> QED BY <1>1, <1>2, <1>3, <1>5 DEF WorkInv

\* No workspace, no operation and an empty scene
LEMMA WorkStarts == W!Init => WorkInv
  <1> SUFFICES ASSUME W!Init PROVE WorkInv
    OBVIOUS
  <1>1. WorkTypes
    BY IdleIsCall DEF W!Init, WorkTypes, W!BoundEpoch
  <1>2. \A k \in Call : CallTrue(call[k])
    BY IdleIsCall DEF W!Init
  <1>3. AppliedOwned /\ W!OneOwner /\ W!BootstrapAllOrNothing
    BY DEF W!Init, AppliedOwned, W!OneOwner, W!BootstrapAllOrNothing
  <1> QED BY <1>1, <1>2, <1>3 DEF WorkInv

\* Workspaces: every step keeps the invariant
LEMMA WorkStep == WorkInv /\ W!Next => WorkInv'
  <1> SUFFICES ASSUME WorkInv, W!Next PROVE WorkInv'
    OBVIOUS
  <1>1. ASSUME NEW k \in Call, W!Operation(k) PROVE WorkInv'
    BY <1>1, ReadStep, InspectStep, CreateStep, BindStep, SwitchStep DEF W!Operation
  <1>2. CASE W!Restart
    <2>1. call' = [k \in Call |-> W!Idle] /\ UNCHANGED <<sessions, workspaces, active, change, scene>>
      BY <1>2 DEF W!Restart, W!rows
    <2>2. WorkTypes'
      BY <2>1, IdleIsCall DEF WorkInv, WorkTypes
    <2>3. \A k \in Call : CallTrue(call'[k])
      BY <2>1, IdleIsCall
    <2> QED BY <2>1, <2>2, <2>3, RowsKept
  <1>3. CASE W!Forget
    <2>1. UNCHANGED <<sessions, workspaces, active, change, scene, call>>
      BY <1>3 DEF W!Forget, W!rows
    <2> QED BY <2>1, SceneStep DEF WorkInv, WorkTypes
  <1> QED BY <1>1, <1>2, <1>3, ApplyStep, EditStep, DeleteStep DEF W!Next

-----------------------------------------------------------------------------
(* The schema upgrade *)

\* The scripts: all but the seventh create tables, the seventh rebuilds changesets
LEMMA Scripts ==
    /\ U!SchemaVersion = 8
    /\ \A v \in 1..8 : Len(U!Migrations[v]) \in Nat
                       /\ DOMAIN U!Migrations[v] = 1..Len(U!Migrations[v])
    /\ \A v \in 1..8 : v # 7 =>
          \A j \in 1..Len(U!Migrations[v]) :
             /\ U!Migrations[v][j].kind = "create"
             /\ U!Migrations[v][j].table # "changesets_v7"
    /\ Len(U!Migrations[2]) = 4 /\ U!Migrations[2][2].table = "changesets"
    /\ U!Migrations[7] = <<U!Create("changesets_v7"), U!Copy("changesets", "changesets_v7"),
                           U!Drop("changesets"), U!Rename("changesets_v7", "changesets")>>
  <1>1. /\ U!Migrations[1] = <<U!Create("sessions"), U!Create("runs"), U!Create("events"),
                               U!Create("runtime_state")>>
        /\ U!Migrations[2] = <<U!Create("workspaces"), U!Create("changesets"),
                               U!Create("approvals"), U!Create("change_receipts")>>
        /\ U!Migrations[3] = <<U!Create("session_workspace_state")>>
        /\ U!Migrations[4] = <<U!Create("artifacts")>>
        /\ U!Migrations[5] = <<>> /\ U!Migrations[6] = <<>>
        /\ U!Migrations[7] = <<U!Create("changesets_v7"), U!Copy("changesets", "changesets_v7"),
                               U!Drop("changesets"), U!Rename("changesets_v7", "changesets")>>
        /\ U!Migrations[8] = <<U!Create("task_steps"), U!Create("task_nodes")>>
        /\ U!SchemaVersion = 8
    BY DEF U!Migrations, U!SchemaVersion
  <1>2. \A v \in 1..8 : Len(U!Migrations[v]) \in Nat
                       /\ DOMAIN U!Migrations[v] = 1..Len(U!Migrations[v])
    BY <1>1
  <1>3. /\ Len(U!Migrations[1]) = 4 /\ Len(U!Migrations[2]) = 4 /\ Len(U!Migrations[3]) = 1
        /\ Len(U!Migrations[4]) = 1 /\ Len(U!Migrations[5]) = 0 /\ Len(U!Migrations[6]) = 0
        /\ Len(U!Migrations[8]) = 2
    BY <1>1
  <1>4. /\ \A i \in 1..4 : i \in {1, 2, 3, 4}
        /\ \A i \in 1..2 : i \in {1, 2}
        /\ \A i \in 1..1 : i = 1
        /\ 1..0 = {}
    OBVIOUS
  <1>5. ASSUME NEW v \in {1, 2, 3, 4, 5, 6, 8}, NEW j \in 1..Len(U!Migrations[v])
        PROVE  U!Migrations[v][j].kind = "create" /\ U!Migrations[v][j].table # "changesets_v7"
    <2>1. CASE v = 1
      <3>1. j \in {1, 2, 3, 4}
        BY <1>5, <1>3, <1>4, <2>1, Zenon
      <3> QED BY <1>1, <2>1, <3>1 DEF U!Create
    <2>2. CASE v = 2
      <3>1. j \in {1, 2, 3, 4}
        BY <1>5, <1>3, <1>4, <2>2, Zenon
      <3> QED BY <1>1, <2>2, <3>1 DEF U!Create
    <2>3. CASE v \in {3, 4}
      <3>1. j = 1
        BY <1>5, <1>3, <1>4, <2>3, Zenon
      <3> QED BY <1>1, <2>3, <3>1 DEF U!Create
    <2>4. CASE v \in {5, 6}
      BY <1>5, <1>3, <1>4, <2>4, Zenon
    <2>5. CASE v = 8
      <3>1. j \in {1, 2}
        BY <1>5, <1>3, <1>4, <2>5, Zenon
      <3> QED BY <1>1, <2>5, <3>1 DEF U!Create
    <2> QED BY <2>1, <2>2, <2>3, <2>4, <2>5
  <1>6. \A v \in 1..8 : v # 7 => v \in {1, 2, 3, 4, 5, 6, 8}
    OBVIOUS
  <1> QED BY <1>1, <1>2, <1>5, <1>6, <1>3 DEF U!Create

(* The tables of one version more are those of its script *)
ScriptTables(v) == {U!Migrations[v][j].table : j \in 1..Len(U!Migrations[v])}

\* TablesOf is the sum of the scripts, but for the table the rebuild goes through
LEMMA TablesGrow ==
    /\ \A v \in 1..8 : U!TablesOf(v) = U!TablesOf(v - 1) \cup (ScriptTables(v) \ {"changesets_v7"})
    /\ \A v \in 0..8 : "changesets_v7" \notin U!TablesOf(v)
    /\ "changesets" \in U!TablesOf(6)
  <1>1. ASSUME NEW v \in 0..8
        PROVE  U!TablesOf(v) = (UNION {ScriptTables(i) : i \in 1..v}) \ {"changesets_v7"}
    <2>1. \A i \in 1..v : DOMAIN U!Migrations[i] = 1..Len(U!Migrations[i])
      BY SMTT(30), Scripts
    <2>2. \A i \in 1..v : ScriptTables(i) = {m.table : m \in {U!Migrations[i][j] : j \in DOMAIN U!Migrations[i]}}
      BY <2>1 DEF ScriptTables
    <2> DEFINE ops(i) == {U!Migrations[i][j] : j \in DOMAIN U!Migrations[i]}
    <2>3. U!TablesOf(v) = {m.table : m \in UNION {ops(i) : i \in 1..v}} \ {"changesets_v7"}
      BY DEF U!TablesOf
    <2>4. \A i \in 1..v : ScriptTables(i) = {m.table : m \in ops(i)}
      BY <2>2
    <2> HIDE DEF ops
    <2>5. {m.table : m \in UNION {ops(i) : i \in 1..v}} = UNION {ScriptTables(i) : i \in 1..v}
      BY <2>4
    <2> QED BY <2>3, <2>5
  <1>2. ASSUME NEW v \in 1..8
        PROVE  U!TablesOf(v) = U!TablesOf(v - 1) \cup (ScriptTables(v) \ {"changesets_v7"})
    <2>1. v - 1 \in 0..8 /\ v \in 0..8 /\ 1..v = (1..v - 1) \cup {v}
      OBVIOUS
    <2>2. UNION {ScriptTables(i) : i \in 1..v}
            = (UNION {ScriptTables(i) : i \in 1..v - 1}) \cup ScriptTables(v)
      BY <2>1
    <2> QED BY <1>1, <2>1, <2>2
  <1>3. "changesets" \in U!TablesOf(6)
    <2>1. "changesets" \in ScriptTables(2)
      BY Scripts DEF ScriptTables
    <2>2. "changesets" \in UNION {ScriptTables(i) : i \in 1..6}
      BY <2>1
    <2> QED BY <1>1, <2>2
  <1> QED BY <1>1, <1>2, <1>3

(* What the open transaction sees of a script of which the statements      *)
(* before the j-th have run                                                *)
Underway(v, j) ==
    IF v = 7
    THEN (U!TablesOf(6) \cup (IF j \in 2..4 THEN {"changesets_v7"} ELSE {}))
            \ (IF j = 4 THEN {"changesets"} ELSE {})
    ELSE U!TablesOf(v - 1) \cup {U!Migrations[v][i].table : i \in 1..j - 1}

UpgradeInv ==
    /\ history \in Seq(Nat) /\ Len(history) \in 0..8
    /\ U!WholeVersions
    /\ at \in Nat \X Nat
    /\ at # <<0, 0>> =>
          /\ at[1] = Len(history) + 1 /\ at[1] \in 1..8
          /\ at[2] \in 1..Len(U!Migrations[at[1]]) + 1
          /\ DOMAIN work = Underway(at[1], at[2])

\* The database an earlier version left
LEMMA UpgradeStarts == U!UpgradeInit => UpgradeInv
  <1> SUFFICES ASSUME U!UpgradeInit PROVE UpgradeInv
    OBVIOUS
  <1>1. PICK v \in 0..8 : /\ history = [i \in 1..v |-> i]
                          /\ DOMAIN tables = U!TablesOf(v)
    BY Scripts DEF U!UpgradeInit
  <1>2. history \in Seq(Nat) /\ Len(history) = v
    BY <1>1
  <1> QED BY <1>1, <1>2 DEF UpgradeInv, U!WholeVersions, U!UpgradeInit

\* The rebuild of changesets goes through a second table
LEMMA Rebuild ==
    LET T == U!TablesOf(6)
    IN /\ "changesets" \in T /\ "changesets_v7" \notin T
       /\ Underway(7, 1) = T /\ Underway(7, 2) = T \cup {"changesets_v7"}
       /\ Underway(7, 3) = T \cup {"changesets_v7"}
       /\ Underway(7, 4) = (T \cup {"changesets_v7"}) \ {"changesets"}
       /\ Underway(7, 5) = T
  <1>1. /\ 1 \notin 2..4 /\ 2 \in 2..4 /\ 3 \in 2..4 /\ 4 \in 2..4 /\ 5 \notin 2..4
        /\ 1 # 4 /\ 2 # 4 /\ 3 # 4 /\ 5 # 4
    OBVIOUS
  <1>2. "changesets" \in U!TablesOf(6) /\ "changesets_v7" \notin U!TablesOf(6)
    BY TablesGrow
  <1>3. Underway(7, 1) = U!TablesOf(6)
    BY DEF Underway
  <1>4. Underway(7, 2) = U!TablesOf(6) \cup {"changesets_v7"}
    BY DEF Underway
  <1>5. Underway(7, 3) = U!TablesOf(6) \cup {"changesets_v7"}
    BY DEF Underway
  <1>6. Underway(7, 4) = (U!TablesOf(6) \cup {"changesets_v7"}) \ {"changesets"}
    BY <1>1 DEF Underway
  <1>7. Underway(7, 5) = U!TablesOf(6)
    BY DEF Underway
  <1> QED BY <1>2, <1>3, <1>4, <1>5, <1>6, <1>7

\* What one statement does to the tables the transaction sees
LEMMA StatementTables ==
    ASSUME NEW v \in 1..8, NEW j \in 1..Len(U!Migrations[v]), NEW db,
           DOMAIN db = Underway(v, j)
    PROVE  DOMAIN U!Execute(db, U!Migrations[v][j]) = Underway(v, j + 1)
  <1>0. Len(U!Migrations[v]) \in Nat /\ j \in Nat
    BY SMTT(30), Scripts
  <1>1. CASE v # 7
    <2>1. U!Migrations[v][j].kind = "create"
      BY <1>1, Scripts
    <2>2. PICK m : m = U!Migrations[v][j]
      OBVIOUS
    <2>3. DOMAIN U!Execute(db, m) = DOMAIN db \cup {m.table}
      BY <2>1, <2>2 DEF U!Execute, U!With
    <2>4. 1..(j + 1) - 1 = (1..j - 1) \cup {j}
      BY <1>0
    <2>5. {U!Migrations[v][i].table : i \in 1..(j + 1) - 1}
            = {U!Migrations[v][i].table : i \in 1..j - 1} \cup {m.table}
      BY <2>2, <2>4
    <2>6. /\ Underway(v, j) = U!TablesOf(v - 1) \cup {U!Migrations[v][i].table : i \in 1..j - 1}
          /\ Underway(v, j + 1)
               = U!TablesOf(v - 1) \cup {U!Migrations[v][i].table : i \in 1..(j + 1) - 1}
      BY <1>1 DEF Underway
    <2> QED BY <2>2, <2>3, <2>5, <2>6
  <1>2. CASE v = 7
    <2>1. Len(U!Migrations[7]) = 4
      BY Scripts
    <2>2. j \in {1, 2, 3, 4}
      <3>1. \A i \in 1..4 : i \in {1, 2, 3, 4}
        OBVIOUS
      <3> QED BY <1>2, <2>1, <3>1, Zenon
    <2>3. PICK T : T = U!TablesOf(6)
      OBVIOUS
    <2>4. DOMAIN db = Underway(7, j)
      BY <1>2
    <2>5. CASE j = 1
      <3>1. U!Migrations[7][1] = [kind |-> "create", table |-> "changesets_v7"]
        BY Scripts DEF U!Create
      <3>2. DOMAIN U!Execute(db, U!Migrations[7][1]) = DOMAIN db \cup {"changesets_v7"}
        BY <3>1 DEF U!Execute, U!With
      <3>3. Underway(7, 1) = T /\ Underway(7, 2) = T \cup {"changesets_v7"}
        BY <2>3, Rebuild
      <3> QED BY <1>2, <2>4, <2>5, <3>2, <3>3
    <2>6. CASE j = 2
      <3>1. U!Migrations[7][2] = [kind |-> "copy", table |-> "changesets", to |-> "changesets_v7"]
        BY Scripts DEF U!Copy
      <3>2. DOMAIN U!Execute(db, U!Migrations[7][2]) = DOMAIN db \cup {"changesets_v7"}
        BY <3>1 DEF U!Execute, U!With
      <3>3. Underway(7, 2) = T \cup {"changesets_v7"} /\ Underway(7, 3) = T \cup {"changesets_v7"}
        BY <2>3, Rebuild
      <3> QED BY <1>2, <2>4, <2>6, <3>2, <3>3
    <2>7. CASE j = 3
      <3>1. U!Migrations[7][3] = [kind |-> "drop", table |-> "changesets"]
        BY Scripts DEF U!Drop
      <3>2. DOMAIN U!Execute(db, U!Migrations[7][3]) = DOMAIN db \ {"changesets"}
        BY <3>1 DEF U!Execute, U!Without, U!Cascade
      <3>3. /\ Underway(7, 3) = T \cup {"changesets_v7"}
            /\ Underway(7, 4) = (T \cup {"changesets_v7"}) \ {"changesets"}
        BY <2>3, Rebuild
      <3> QED BY <1>2, <2>4, <2>7, <3>2, <3>3
    <2>8. CASE j = 4
      <3>1. U!Migrations[7][4] = [kind |-> "rename", table |-> "changesets_v7", to |-> "changesets"]
        BY Scripts DEF U!Rename
      <3>2. DOMAIN U!Execute(db, U!Migrations[7][4])
              = (DOMAIN db \ {"changesets_v7"}) \cup {"changesets"}
        BY <3>1 DEF U!Execute, U!Without, U!With
      <3>3. /\ Underway(7, 4) = (T \cup {"changesets_v7"}) \ {"changesets"}
            /\ Underway(7, 5) = T /\ "changesets" \in T /\ "changesets_v7" \notin T
        BY <2>3, Rebuild
      <3> QED BY <1>2, <2>4, <2>8, <3>2, <3>3
    <2> QED BY <2>2, <2>5, <2>6, <2>7, <2>8
  <1> QED BY <1>1, <1>2

\* A script that has run to its end has made the tables of its version
LEMMA ScriptEnds ==
    ASSUME NEW v \in 1..8
    PROVE  Underway(v, Len(U!Migrations[v]) + 1) = U!TablesOf(v)
  <1>1. CASE v # 7
    <2>1. Len(U!Migrations[v]) \in Nat /\ (Len(U!Migrations[v]) + 1) - 1 = Len(U!Migrations[v])
      BY Scripts
    <2>2. Underway(v, Len(U!Migrations[v]) + 1) = U!TablesOf(v - 1) \cup ScriptTables(v)
      BY <1>1, <2>1 DEF Underway, ScriptTables
    <2>3. "changesets_v7" \notin ScriptTables(v)
      BY <1>1, Scripts DEF ScriptTables
    <2> QED BY <2>2, <2>3, TablesGrow, ZenonT(30)
  <1>2. CASE v = 7
    <2>1. Len(U!Migrations[7]) = 4
      BY Scripts
    <2>2. Underway(7, 5) = U!TablesOf(6)
      BY Rebuild
    <2>3. ScriptTables(7) = {"changesets", "changesets_v7"}
      <3>1. 1..4 = {1, 2, 3, 4}
        OBVIOUS
      <3>2. /\ U!Migrations[7][1].table = "changesets_v7" /\ U!Migrations[7][2].table = "changesets"
            /\ U!Migrations[7][3].table = "changesets" /\ U!Migrations[7][4].table = "changesets_v7"
        BY Scripts DEF U!Create, U!Copy, U!Drop, U!Rename
      <3> QED BY <2>1, <3>1, <3>2 DEF ScriptTables
    <2>4. U!TablesOf(7) = U!TablesOf(6) \cup (ScriptTables(7) \ {"changesets_v7"})
      BY TablesGrow
    <2>5. Len(U!Migrations[7]) + 1 = 5
      BY <2>1
    <2>6. U!TablesOf(7) = U!TablesOf(6)
      BY <2>3, <2>4, Rebuild
    <2> QED BY <1>2, <2>2, <2>5, <2>6, Zenon
  <1> QED BY <1>1, <1>2

\* RuntimeDatabase.open: every step, a crash included, leaves whole versions on disk
LEMMA UpgradeStep == UpgradeInv /\ U!UpgradeNext => UpgradeInv'
  <1> SUFFICES ASSUME UpgradeInv, U!UpgradeNext PROVE UpgradeInv'
    OBVIOUS
  <1> USE DEF UpgradeInv, U!WholeVersions
  <1>0. <<0, 0>> \in Nat \X Nat
    OBVIOUS
  <1>1. CASE U!Begin
    <2> DEFINE v == Len(history) + 1
    <2>0. U!SchemaVersion = 8 /\ \A i \in 1..8 : Len(U!Migrations[i]) \in Nat
      BY Scripts
    <2>1. v \in 1..8 /\ v - 1 = Len(history)
      <3>1. Len(history) < 8
        BY <1>1, <2>0 DEF U!Begin
      <3>2. Len(history) \in 0..8
        OBVIOUS
      <3>3. \A n \in 0..8 : n < 8 => n + 1 \in 1..8 /\ (n + 1) - 1 = n
        OBVIOUS
      <3> QED BY <3>1, <3>2, <3>3, Zenon
    <2>2. at' = <<v, 1>> /\ work' = tables /\ UNCHANGED <<tables, history>>
      BY <1>1 DEF U!Begin
    <2>3. Len(U!Migrations[v]) \in Nat /\ 1 \in 1..Len(U!Migrations[v]) + 1
      <3> HIDE DEF v
      <3>1. Len(U!Migrations[v]) \in Nat
        BY <2>0, <2>1
      <3> QED BY <3>1
    <2>4. Underway(v, 1) = U!TablesOf(v - 1)
      BY <2>1 DEF Underway
    <2>5. DOMAIN tables = U!TablesOf(v - 1)
      BY <2>1
    <2> HIDE DEF v
    <2>6. at'[1] = v /\ at'[2] = 1 /\ at' \in Nat \X Nat
      BY <2>1, <2>2
    <2>7. v = Len(history') + 1
      BY <2>2 DEF v
    <2> QED BY <2>1, <2>2, <2>3, <2>4, <2>5, <2>6, <2>7
  <1>2. CASE U!Statement
    <2>1. PICK v \in 1..8, j \in Nat : v = at[1] /\ j = at[2] /\ at = <<v, j>>
      BY SMTT(30), <1>2 DEF U!Statement
    <2>0. Len(U!Migrations[v]) \in Nat
      BY Scripts
    <2>2. j \in 1..Len(U!Migrations[v]) /\ DOMAIN work = Underway(v, j) /\ v = Len(history) + 1
      <3>1. DOMAIN work = Underway(at[1], at[2]) /\ at[1] = Len(history) + 1
            /\ at[2] \in 1..Len(U!Migrations[at[1]]) + 1 /\ at[2] <= Len(U!Migrations[at[1]])
        BY <1>2 DEF U!Statement
      <3> QED BY <2>0, <2>1, <3>1
    <2>3. work' = U!Execute(work, U!Migrations[v][j]) /\ at' = [at EXCEPT ![2] = j + 1]
          /\ UNCHANGED <<tables, history>>
      BY <1>2, <2>1 DEF U!Statement
    <2>4. DOMAIN work' = Underway(v, j + 1)
      BY <2>2, <2>3, StatementTables
    <2>5. at' = <<v, j + 1>>
      BY <2>1, <2>3
    <2> QED BY <2>0, <2>2, <2>3, <2>4, <2>5
  <1>3. CASE U!CommitMigration
    <2>1. PICK v \in 1..8 : v = at[1] /\ v = Len(history) + 1
      BY <1>3 DEF U!CommitMigration
    <2>2. DOMAIN work = Underway(v, Len(U!Migrations[v]) + 1)
      BY <1>3, <2>1 DEF U!CommitMigration
    <2>3. tables' = work /\ history' = Append(history, v) /\ at' = <<0, 0>>
      BY <1>3, <2>1 DEF U!CommitMigration
    <2>4. Len(history') = v /\ history' \in Seq(Nat)
      BY <2>1, <2>3
    <2>5. DOMAIN tables' = U!TablesOf(Len(history'))
      BY <2>2, <2>3, <2>4, ScriptEnds
    <2> QED BY <1>0, <2>1, <2>3, <2>4, <2>5
  <1>4. CASE U!Opened
    BY <1>4 DEF U!Opened
  <1>5. CASE U!Interrupted
    BY <1>0, <1>5 DEF U!Interrupted
  <1> QED BY <1>1, <1>2, <1>3, <1>4, <1>5 DEF U!UpgradeNext

-----------------------------------------------------------------------------
(* The artifact store *)

(* A row is made by the insert of its own register, so nothing that has    *)
(* been read from a row can become pending again; what is being evicted is *)
(* not available any more; and while the store is down no register runs.   *)
Unborn == {"idle", "captured", "staged"}
Evicting == {"evictS", "dropS", "evictG", "dropG"}
ArtifactInv ==
    /\ row \in [Artifact -> A!RowStates]
    /\ file \in [Artifact -> {"none", "canonical", "stage"}]
    /\ DOMAIN step = Artifact /\ read \in [Artifact -> SUBSET Artifact]
    /\ ~up => \A a \in Artifact : step[a] \in {"idle", "done"}
    /\ \A a \in Artifact : row[a] # "none" => step[a] \notin Unborn
    /\ \A a \in Artifact : row[a] = "pending" /\ step[a] = "placed" => file[a] = "canonical"
    /\ \A a \in Artifact : \A b \in read[a] :
          /\ row[b] # "pending" /\ step[b] \notin Unborn
          /\ step[a] \in Evicting => row[b] # "available"
    /\ A!AvailableHasBytes

\* Nothing is captured yet
LEMMA ArtifactStarts == A!Init => ArtifactInv
  BY DEF A!Init, ArtifactInv, A!RowStates, A!AvailableHasBytes, Unborn, Evicting

\* register: the file is moved only while there is no row
LEMMA RegisterStep ==
    ASSUME ArtifactInv, NEW a \in Artifact,
           \/ A!Capture(a) \/ A!Stage(a) \/ A!Reject(a) \/ A!Insert(a) \/ A!InsertRefused(a)
           \/ A!MarkAvailable(a) \/ A!MarkFailed(a)
    PROVE  ArtifactInv'
  <1> USE DEF ArtifactInv, A!RowStates, A!AvailableHasBytes, Unborn, Evicting, A!Become
  <1>1. CASE A!Capture(a)
    BY <1>1 DEF A!Capture
  <1>2. CASE A!Stage(a)
    BY <1>2 DEF A!Stage
  <1>3. CASE A!Reject(a)
    BY <1>3 DEF A!Reject
  <1>4. CASE A!Insert(a)
    BY <1>4 DEF A!Insert
  <1>5. CASE A!InsertRefused(a)
    BY <1>5 DEF A!InsertRefused
  <1>6. CASE A!MarkAvailable(a)
    BY <1>6 DEF A!MarkAvailable
  <1>7. CASE A!MarkFailed(a)
    BY <1>7 DEF A!MarkFailed
  <1> QED BY <1>1, <1>2, <1>3, <1>4, <1>5, <1>6, <1>7

\* _evict_over_caps: what is unlinked has been marked
LEMMA RetentionStep ==
    ASSUME ArtifactInv, NEW a \in Artifact, NEW level \in {"S", "G"}, A!Retention(a, level)
    PROVE  ArtifactInv'
  <1> USE DEF ArtifactInv, A!RowStates, A!AvailableHasBytes, Unborn, Evicting, A!Become, A!At
  <1>1. CASE A!ReadRows(a, level)
    BY <1>1 DEF A!ReadRows, A!Available, A!Scope
  <1>2. CASE A!ReadTotals(a, level)
    <2>1. PICK c : c = A!Candidates(a, level)
      OBVIOUS
    <2>2. c \in SUBSET read[a]
      BY <2>1 DEF A!Candidates
    <2> QED BY <1>2, <2>1, <2>2 DEF A!ReadTotals
  <1>3. CASE A!MarkEviction(a, level)
    BY <1>3 DEF A!MarkEviction
  <1>4. CASE A!Unlink(a, level)
    BY <1>4 DEF A!Unlink, A!Rest
  <1>5. CASE A!Evicted(a, level)
    BY <1>5 DEF A!Evicted, A!Rest
  <1> QED BY <1>1, <1>2, <1>3, <1>4, <1>5 DEF A!Retention

\* delete_session: the rows are marked before the files go
LEMMA DeletionStep ==
    ASSUME ArtifactInv, NEW s \in A!Owners,
           A!DeleteList(s) \/ A!DeleteMark(s) \/ A!DeleteEvicted(s) \/ A!DeleteRows(s)
    PROVE  ArtifactInv'
  <1> USE DEF ArtifactInv, A!RowStates, A!AvailableHasBytes, Unborn, Evicting, A!Doomed
  <1>1. CASE A!DeleteList(s)
    BY <1>1 DEF A!DeleteList
  <1>2. CASE A!DeleteMark(s)
    BY <1>2 DEF A!DeleteMark
  <1>3. CASE A!DeleteEvicted(s)
    BY <1>3 DEF A!DeleteEvicted
  <1>4. CASE A!DeleteRows(s)
    BY <1>4 DEF A!DeleteRows
  <1> QED BY <1>1, <1>2, <1>3, <1>4

\* A crash ends every register, and reconcile looks at the file before it answers
LEMMA RecoveryStep ==
    ASSUME ArtifactInv,
           A!Crash \/ A!ReconcileStages \/ \E a \in Artifact : A!ReconcileRow(a)
    PROVE  ArtifactInv'
  <1> USE DEF ArtifactInv, A!RowStates, A!AvailableHasBytes, Unborn, Evicting
  <1>1. CASE A!Crash
    BY <1>1 DEF A!Crash, A!Doomed
  <1>2. CASE A!ReconcileStages
    BY <1>2 DEF A!ReconcileStages
  <1>3. ASSUME NEW a \in Artifact, A!ReconcileRow(a) PROVE ArtifactInv'
    BY <1>3 DEF A!ReconcileRow
  <1> QED BY <1>1, <1>2, <1>3

\* Artifacts: every step keeps the invariant
LEMMA ArtifactStep == ArtifactInv /\ A!Next => ArtifactInv'
  BY RegisterStep, RetentionStep, DeletionStep, RecoveryStep DEF A!Next

-----------------------------------------------------------------------------
(* The theorems *)

(* MCStorage's LockFilesHold, of RuntimeProcess and BuildLock: a Runtime   *)
(* that serves is the one its token and discovery files name, and one that *)
(* has cleaned up and could remove its files has left neither              *)
(* (runtime/__main__.py, lock.py, auth.py); a build works only under its   *)
(* own lock, unless a reclaim removed a lock that had replaced the stale   *)
(* one it read, and a build that has ended, was not interrupted and could  *)
(* remove its files has left neither its lock nor its temporary file       *)
(* (knowledge/lock.py, build.py), for any number of processes, builds,     *)
(* kills and failed file operations.                                       *)
THEOREM LockFiles == PartSpec => []LockFilesHold
  <1>1. PartInit => ProcessInv /\ BuildInv
    BY ProcessStarts, BuildStarts DEF PartInit
  <1>2. ProcessInv /\ BuildInv /\ [PartNext]_suiteVars => (ProcessInv /\ BuildInv)'
    <2> SUFFICES ASSUME ProcessInv, BuildInv, [PartNext]_suiteVars
                 PROVE  ProcessInv' /\ BuildInv'
      OBVIOUS
    <2>1. UNCHANGED pVars => ProcessInv'
      BY DEF ProcessInv, P!ProcessTypeOK, pVars
    <2>2. UNCHANGED bVars => BuildInv'
      BY DEF BuildInv, B!LockTypeOK, B!OneBuilder, bVars
    <2>3. /\ UNCHANGED pVars \/ P!ProcessNext
          /\ UNCHANGED bVars \/ B!LockNext
      BY DEF PartNext, suiteVars
    <2> QED BY <2>1, <2>2, <2>3, ProcessStep, BuildStep
  <1>3. ProcessInv /\ BuildInv => LockFilesHold
    BY DEF ProcessInv, BuildInv, LockFilesHold, P!ServingIsFound, B!BuildLeavesNothing, B!Owning
  <1> QED BY <1>1, <1>2, <1>3, PTL DEF PartSpec, suiteVars

(* MCStorage's WorkspacesHold, of Workspaces: every workspace on record    *)
(* belongs to its run's session, holds nodes of that run only and is the   *)
(* one its session works in, and a bootstrap change that is Applied has    *)
(* its workspace with all its nodes, through user edits, restarts, session *)
(* deletions and operations under way together                             *)
(* (changesets/workspace_service.py, repository.py).                       *)
THEOREM WorkspacesKept == PartSpec => []WorkspacesHold
  <1> DEFINE Inv == part = "workspaces" => WorkInv
             Empty == /\ part # "workspaces" =>
                            /\ workspaces = [w \in W!Workspace |-> None]
                            /\ active = [s \in Session |-> None]
                            /\ change = [c \in Change |-> "Approved"]
  <1>1. PartInit => Inv /\ Empty
    BY WorkStarts DEF PartInit, W!Init
  <1>2. Inv /\ Empty /\ [PartNext]_suiteVars => (Inv /\ Empty)'
    <2> SUFFICES ASSUME Inv, Empty, [PartNext]_suiteVars PROVE Inv' /\ Empty'
      OBVIOUS
    <2>1. UNCHANGED part /\ (UNCHANGED wVars \/ (part = "workspaces" /\ W!Next))
      BY DEF PartNext, suiteVars
    <2>2. UNCHANGED <<sessions, wVars>> \/ part # "workspaces" \/ W!Next
      BY DEF PartNext, suiteVars
    <2>3. ASSUME WorkInv, UNCHANGED <<sessions, wVars>> PROVE WorkInv'
      <3>1. UNCHANGED <<sessions, workspaces, active, change, scene, call>>
        BY <2>3 DEF wVars
      <3> QED BY <2>3, <3>1, SceneStep DEF WorkInv, WorkTypes
    <2>4. Inv'
      BY <2>1, <2>2, <2>3, WorkStep
    <2>5. Empty'
      BY <2>1 DEF wVars
    <2> QED BY <2>4, <2>5
  <1>3. Inv /\ Empty => WorkspacesHold
    BY DEF WorkInv, WorkspacesHold, W!OneOwner, W!BootstrapAllOrNothing
  <1> QED BY <1>1, <1>2, <1>3, PTL DEF PartSpec, suiteVars

(* MCStorage's WholeVersions, of Upgrade: the tables on disk are exactly   *)
(* those of the versions in the history, for any number of interruptions   *)
(* and whatever version the database was left at                           *)
(* (runtime/database.py _apply_migration, runtime/migrations.py).          *)
THEOREM UpgradeIsWhole == PartSpec => []WholeVersions
  <1> DEFINE Inv == part = "upgrade" => UpgradeInv
  <1>1. PartInit => Inv
    BY UpgradeStarts DEF PartInit
  <1>2. Inv /\ [PartNext]_suiteVars => Inv'
    <2> SUFFICES ASSUME Inv, [PartNext]_suiteVars PROVE Inv'
      OBVIOUS
    <2>1. UNCHANGED part /\ (UNCHANGED uVars \/ U!UpgradeNext)
      BY DEF PartNext, suiteVars
    <2>2. UpgradeInv /\ UNCHANGED uVars => UpgradeInv'
      BY DEF UpgradeInv, U!WholeVersions, uVars
    <2> QED BY <2>1, <2>2, UpgradeStep
  <1>3. Inv => WholeVersions
    BY DEF UpgradeInv, WholeVersions
  <1> QED BY <1>1, <1>2, <1>3, PTL DEF PartSpec, suiteVars

(* MCStorage's ArtifactsHold, of Artifacts: a row that says available has  *)
(* its bytes at the canonical path, for any number of artifacts, sessions  *)
(* and faults (runtime/artifacts.py register, _evict_over_caps, reconcile; *)
(* runtime/service.py delete_session).                                     *)
THEOREM AvailableIsThere == PartSpec => []ArtifactsHold
  <1>1. PartInit => ArtifactInv
    BY ArtifactStarts DEF PartInit
  <1>2. ArtifactInv /\ [PartNext]_suiteVars => ArtifactInv'
    <2> SUFFICES ASSUME ArtifactInv, [PartNext]_suiteVars PROVE ArtifactInv'
      OBVIOUS
    <2>1. UNCHANGED aVars \/ A!Next
      BY DEF PartNext, suiteVars
    <2>2. UNCHANGED aVars => ArtifactInv'
      BY DEF ArtifactInv, A!AvailableHasBytes, aVars
    <2> QED BY <2>1, <2>2, ArtifactStep
  <1>3. ArtifactInv => ArtifactsHold
    BY DEF ArtifactInv, ArtifactsHold
  <1> QED BY <1>1, <1>2, <1>3, PTL DEF PartSpec, suiteVars

-----------------------------------------------------------------------------
(* EventStore.append                                                       *)
(*                                                                         *)
(* A cancelled caller leaves statements behind that the thread has still   *)
(* to execute, after the write lock has gone to somebody else.  The        *)
(* invariant says what they can be: at most one statement of a body, then  *)
(* at most one ROLLBACK, then BEGINs (QueueShape); and what the connection *)
(* sees against what is durable before each of them (TxShape).             *)

Steps == {"begin", "check", "bump", "read", "insert"}   \* another statement follows

(* Only the owner of the lock has a statement under way, and only the last *)
(* statement of the queue is awaited.                                      *)
Locking ==
    /\ \A c \in Caller : pc[c] \in Statement => lock = c
    /\ \A c \in Caller : pc[c] \notin Statement => answer[c] = "none"
    /\ \A c \in Caller : pc[c] \in Statement /\ answer[c] # "none" => queue = <<>>
    /\ \A c \in Caller : pc[c] \in Statement /\ answer[c] = "none" =>
          /\ Len(queue) # 0
          /\ queue[Len(queue)].by = c /\ queue[Len(queue)].awaited
    /\ \A i \in 1..Len(queue) : queue[i].awaited =>
          /\ i = Len(queue)
          /\ pc[queue[i].by] = queue[i].op /\ answer[queue[i].by] = "none"

QueueShape ==
    /\ \A i \in 1..Len(queue) : queue[i].op \in Body =>
          /\ i = 1 /\ inTx
          /\ ~queue[i].awaited =>
                Len(queue) # 1 /\ queue[2].op = "rollback" /\ told[queue[i].by] = "cancelled"
    /\ \A i \in 1..Len(queue) : queue[i].op = "rollback" =>
          i = 1 \/ (i = 2 /\ queue[1].op \in Body)

(* UPDATE sessions has run, INSERT INTO events has not *)
Bumped == view.last = disk.last + 1 /\ view.events = disk.events

(* What the connection sees when c's statement op is about to run *)
Ready(c, op) ==
    /\ op \in {"check", "bump"} => view = disk
    /\ op \in {"read", "insert"} => Bumped
    /\ op \in {"insert", "commit"} => seq[c] = disk.last + 1
    /\ op = "commit" =>
          /\ view.last = disk.last + 1
          /\ view.events = Append(disk.events, [by |-> c, seq |-> disk.last + 1])

TxShape ==
    /\ ~inTx => view = disk
    /\ (\A i \in 1..Len(queue) : queue[i].op = "begin") /\ (\A c \in Caller : pc[c] \notin Body)
          => view = disk
    /\ \A i \in 1..Len(queue) : queue[i].op \in Body => Ready(queue[i].by, queue[i].op)
    /\ \A c \in Caller : pc[c] \in Steps /\ answer[c] = "ok" =>
          inTx /\ Ready(c, NextStatement(pc[c]))
    /\ \A c \in Caller : pc[c] = "commit" /\ answer[c] = "ok" => ~inTx

HasEvent(c) == \E i \in 1..Len(disk.events) : disk.events[i].by = c
Numbered(c) == \A i \in 1..Len(disk.events) : disk.events[i].by = c => i = seq[c]

(* Whose event is durable, by where its caller stands *)
Durable ==
    /\ \A i, j \in 1..Len(disk.events) : disk.events[i].by = disk.events[j].by => i = j
    /\ \A c \in Caller : HasEvent(c) => c \in committing
    /\ \A c \in Caller : pc[c] \in Steps \cup {"idle", "waiting"} => c \notin committing
    /\ \A c \in Caller : pc[c] = "commit" /\ answer[c] # "ok" => ~HasEvent(c)
    /\ \A c \in Caller : pc[c] = "commit" /\ answer[c] = "ok" => HasEvent(c) /\ Numbered(c)
    /\ \A i \in 1..Len(queue) : queue[i].op = "commit" =>
          queue[i].by \in committing /\ ~HasEvent(queue[i].by)

(* What callers have been told *)
Told ==
    /\ \A c \in Caller : told[c] = "ok" => pc[c] = "done" /\ HasEvent(c) /\ Numbered(c)
    /\ \A c \in Caller : told[c] = "error" => pc[c] \in {"done", "rollback"} /\ ~HasEvent(c)
    /\ \A c \in Caller : pc[c] \notin {"done", "rollback"} => told[c] = "nothing"

EventInv == TypeOK /\ SequenceIntact /\ Locking /\ QueueShape /\ TxShape /\ Durable /\ Told

----------------------------------------------------------------------------
(* Facts of one state *)

Sent == [by : Caller, op : Statement, awaited : BOOLEAN]
Event == [by : Caller, seq : Nat]

\* The types, in the form the steps use them
LEMMA Typing ==
    ASSUME EventInv
    PROVE  /\ queue \in Seq(Sent) /\ Len(queue) \in Nat
           /\ \A i \in 1..Len(queue) :
                 queue[i] \in Sent /\ queue[i].by \in Caller /\ queue[i].op \in Statement
                    /\ queue[i].awaited \in BOOLEAN
           /\ disk.events \in Seq(Event) /\ view.events \in Seq(Event)
           /\ Len(disk.events) \in Nat /\ disk.last \in Nat /\ view.last \in Nat
           /\ \A i \in 1..Len(disk.events) : disk.events[i] \in Event
           /\ \A c \in Caller : pc[c] \in Statement \cup {"idle", "waiting", "done"}
           /\ \A c \in Caller : answer[c] \in {"none", "ok", "error"}
           /\ \A c \in Caller : seq[c] \in Nat
  <1>1. queue \in Seq(Sent) BY DEF EventInv, TypeOK, Sent
  <1>2. \A i \in 1..Len(queue) : queue[i] \in Sent BY <1>1
  <1>3. disk.events \in Seq(Event) /\ view.events \in Seq(Event) BY DEF EventInv, TypeOK, Table, Event
  <1>4. \A i \in 1..Len(disk.events) : disk.events[i] \in Event BY <1>3
  <1>5. \A i \in 1..Len(queue) : queue[i].by \in Caller /\ queue[i].op \in Statement
                    /\ queue[i].awaited \in BOOLEAN
    BY <1>2 DEF Sent
  <1> QED BY SMTT(30), <1>1, <1>2, <1>3, <1>4, <1>5 DEF EventInv, TypeOK, Table

\* The statement that follows another
LEMMA NextStatements ==
    /\ NextStatement("begin") = "check" /\ NextStatement("check") = "bump"
    /\ NextStatement("bump") = "read" /\ NextStatement("read") = "insert"
    /\ NextStatement("insert") = "commit"
  BY DEF NextStatement

\* The invariant holds what the run checks
LEMMA EventInvSays ==
    ASSUME EventInv
    PROVE  AppendIsExact
  <1> SUFFICES ASSUME NEW c \in Caller
               PROVE  /\ told[c] = "ok" => Stored(c) = {seq[c]}
                      /\ told[c] = "error" => Stored(c) = {}
                      /\ Stored(c) # {} => c \in committing /\ Cardinality(Stored(c)) = 1
    BY DEF AppendIsExact, AnswerIsTruth, EventInv
  <1>1. \A i : i \in Stored(c) <=> i \in 1..Len(disk.events) /\ disk.events[i].by = c
    BY DEF Stored
  <1>2. Stored(c) # {} <=> HasEvent(c) BY <1>1 DEF HasEvent
  <1>3. told[c] = "ok" => Stored(c) = {seq[c]}
    BY <1>1 DEF EventInv, Told, HasEvent, Numbered
  <1>4. ASSUME Stored(c) # {} PROVE Cardinality(Stored(c)) = 1
    <2>1. PICK i : i \in Stored(c) BY <1>4
    <2>2. Stored(c) = {i} BY <1>1, <2>1 DEF EventInv, Durable
    <2> QED BY <2>2, FS_Singleton
  <1> QED BY <1>2, <1>3, <1>4 DEF EventInv, Told, Durable

\* The invariant holds at the start
LEMMA EventsStart == Init => EventInv
  <1> SUFFICES ASSUME Init PROVE EventInv OBVIOUS
  <1>1. Len(queue) = 0 /\ Len(disk.events) = 0 /\ disk = view /\ disk.last = 0 BY DEF Init
  <1>2. TypeOK
    <2>1. \A S : <<>> \in Seq(S) OBVIOUS
    <2>2. view \in Table BY <2>1 DEF Init, Table
    <2> QED BY <1>1, <2>1, <2>2 DEF Init, TypeOK
  <1>3. SequenceIntact BY <1>1 DEF SequenceIntact
  <1>4. Locking /\ QueueShape BY <1>1 DEF Init, Locking, QueueShape, Statement
  <1>5. TxShape BY <1>1 DEF Init, TxShape, Steps
  <1>6. Durable /\ Told BY <1>1 DEF Init, Durable, Told, HasEvent, Steps
  <1> QED BY <1>2, <1>3, <1>4, <1>5, <1>6 DEF EventInv

----------------------------------------------------------------------------
(* The connection's thread *)

\* The thread takes the oldest statement: what remains has no statement of a body, and
\* whoever has an answer awaited this statement.
LEMMA TakeFacts ==
    ASSUME EventInv, NEW op, NEW result \in {"ok", "error"}, Take(op, result)
    PROVE  /\ Locking' /\ QueueShape'
           /\ queue' \in Seq(Sent) /\ answer' \in [Caller -> {"none", "ok", "error"}]
           /\ UNCHANGED <<lock, waiters, pc, told, committing>>
           /\ \A i \in 1..Len(queue') : queue'[i].op \notin Body
           /\ 1 \in 1..Len(queue) /\ queue[1].op = op
           /\ Head(queue).by = queue[1].by /\ queue[1].by \in Caller
           /\ \A d \in Caller : answer'[d] # "none" =>
                 /\ d = queue[1].by /\ queue[1].awaited /\ answer'[d] = result
                 /\ pc[d] = op /\ Len(queue') = 0 /\ answer[d] = "none"
           /\ \A d \in Caller : answer'[d] = "none" => answer[d] = "none"
           /\ \A i \in 1..Len(queue') : i + 1 \in 1..Len(queue) /\ queue'[i] = queue[i + 1]
           /\ \A i \in 1..Len(queue) : i # 1 => i - 1 \in 1..Len(queue') /\ queue'[i - 1] = queue[i]
           /\ ~queue[1].awaited => answer' = answer
  <1> DEFINE n == Len(queue)
  <1>0. queue \in Seq(Sent) /\ queue # <<>> /\ n \in Nat BY Typing DEF Take
  <1>1. 1 \in 1..n /\ Head(queue) = queue[1] /\ n # 0 BY <1>0
  <1>2. queue' \in Seq(Sent) /\ Len(queue') = n - 1 /\ \A i \in 1..n - 1 : queue'[i] = queue[i + 1]
    <2>1. queue' = Tail(queue) BY DEF Take
    <2> QED BY <1>0, <2>1, HeadTailProperties
  <1>3. \A i \in 1..Len(queue') : i + 1 \in 1..n /\ i + 1 # 1 /\ queue'[i] = queue[i + 1]
    BY <1>0, <1>2
  <1>4. \A i \in 1..n : i # 1 => i - 1 \in 1..Len(queue') /\ queue'[i - 1] = queue[i]
    <2> SUFFICES ASSUME NEW i \in 1..n, i # 1
                 PROVE  i - 1 \in 1..Len(queue') /\ queue'[i - 1] = queue[i]
      OBVIOUS
    <2>1. i - 1 \in 1..n - 1 /\ (i - 1) + 1 = i BY <1>0
    <2> QED BY <1>2, <2>1
  <1>5. PICK c \in Caller : c = queue[1].by BY <1>1, Typing
  <1>6. queue[1].op = op /\ answer' = IF queue[1].awaited THEN [answer EXCEPT ![c] = result] ELSE answer
    BY <1>1, <1>5 DEF Take
  <1>7. answer \in [Caller -> {"none", "ok", "error"}] BY DEF EventInv, TypeOK
  <1>8. queue[1].awaited => n = 1 /\ pc[c] = op /\ answer[c] = "none" /\ Len(queue') = 0
    BY <1>0, <1>1, <1>2, <1>5, <1>6 DEF EventInv, Locking
  <1>9. \A d \in Caller : answer[d] = "none"
    BY <1>0, <1>7 DEF EventInv, Locking
  <1>10. \A d \in Caller : answer'[d] # "none" =>
            d = c /\ queue[1].awaited /\ answer'[d] = result /\ pc[d] = op /\ Len(queue') = 0
    BY <1>6, <1>7, <1>8, <1>9
  <1>11. UNCHANGED <<lock, waiters, pc, told, committing>>
    BY DEF Take, lockVars, callerVars
  <1>12. \A i \in 1..Len(queue') : queue'[i].op \notin Body
    BY <1>3 DEF EventInv, QueueShape
  <1>13. QueueShape'
    <2>1. \A i \in 1..Len(queue') : queue'[i].op = "rollback" => i = 1
      <3> SUFFICES ASSUME NEW i \in 1..Len(queue'), queue'[i].op = "rollback" PROVE i = 1
        OBVIOUS
      <3>1. i + 1 = 2 BY <1>3 DEF EventInv, QueueShape
      <3> QED BY <3>1
    <2> QED BY <1>12, <2>1 DEF QueueShape
  <1>14. Locking'
    <2>1. \A d \in Caller : pc[d] \in Statement => lock = d BY DEF EventInv, Locking
    <2>2. op \in Statement BY <1>1, <1>6, Typing
    <2>3. \A d \in Caller : pc[d] \notin Statement => answer'[d] = "none" BY <1>10, <2>2
    <2>4. \A d \in Caller : answer'[d] # "none" => queue' = <<>> BY <1>2, <1>10
    <2>5. ASSUME NEW d \in Caller, pc[d] \in Statement, answer'[d] = "none"
          PROVE  Len(queue') # 0 /\ queue'[Len(queue')].by = d /\ queue'[Len(queue')].awaited
      <3>1. queue[n].by = d /\ queue[n].awaited BY <1>9, <2>5 DEF EventInv, Locking
      <3>2. n # 1
        <4> SUFFICES ASSUME n = 1 PROVE FALSE OBVIOUS
        <4>1. queue[1].awaited /\ d = c BY <1>5, <3>1
        <4>2. answer'[d] = result BY <1>6, <1>7, <4>1
        <4> QED BY <2>5, <4>2
      <3>3. n \in 1..n /\ n - 1 = Len(queue') /\ n - 1 # 0 BY <1>0, <1>2, <3>2, <1>1
      <3> QED BY <1>4, <3>1, <3>2, <3>3
    <2>6. ASSUME NEW i \in 1..Len(queue'), queue'[i].awaited
          PROVE  /\ i = Len(queue') /\ pc[queue'[i].by] = queue'[i].op
                 /\ answer'[queue'[i].by] = "none"
      <3>1. /\ i + 1 \in 1..n /\ queue[i + 1] = queue'[i] /\ queue[i + 1].awaited
            /\ queue[i + 1].by \in Caller
        BY <1>3, <2>6, Typing
      <3>2. i + 1 = n /\ pc[queue[i + 1].by] = queue[i + 1].op BY <3>1 DEF EventInv, Locking
      <3>3. answer'[queue'[i].by] = "none" BY <1>2, <1>10, <3>1
      <3> QED BY <1>0, <1>2, <3>1, <3>2, <3>3
    <2> QED BY <1>11, <2>1, <2>3, <2>4, <2>5, <2>6 DEF Locking
  <1> QED BY <1>1, <1>2, <1>3, <1>4, <1>5, <1>6, <1>7, <1>9, <1>10, <1>11, <1>12, <1>13, <1>14

\* A statement of a body has a caller that has been told nothing, or that it was cancelled;
\* when the thread has taken it, somebody is still inside the transaction.
LEMMA BodyFacts ==
    ASSUME EventInv, NEW op \in Body, NEW result \in {"ok", "error"}, Take(op, result)
    PROVE  /\ inTx /\ Ready(queue[1].by, op) /\ told[queue[1].by] \in {"nothing", "cancelled"}
           /\ ~queue[1].awaited => told[queue[1].by] = "cancelled"
           /\ queue[1].awaited => pc[queue[1].by] = op
           /\ ~ /\ \A i \in 1..Len(queue') : queue'[i].op = "begin"
                /\ \A c \in Caller : pc[c] \notin Body
  <1>1. /\ 1 \in 1..Len(queue) /\ queue[1].op = op /\ queue[1].by \in Caller
        /\ \A i \in 1..Len(queue) : i # 1 => i - 1 \in 1..Len(queue') /\ queue'[i - 1] = queue[i]
    BY TakeFacts
  <1>2. inTx /\ Ready(queue[1].by, op) BY <1>1 DEF EventInv, QueueShape, TxShape
  <1>3. CASE queue[1].awaited
    <2>1. pc[queue[1].by] = op BY <1>1, <1>3 DEF EventInv, Locking
    <2>2. told[queue[1].by] = "nothing" BY <1>1, <2>1 DEF EventInv, Told, Body
    <2> QED BY <1>1, <1>2, <1>3, <2>1, <2>2
  <1>4. CASE ~queue[1].awaited
    <2>1. Len(queue) # 1 /\ queue[2].op = "rollback" /\ told[queue[1].by] = "cancelled"
      BY <1>1, <1>4 DEF EventInv, QueueShape
    <2>2. 2 \in 1..Len(queue) /\ 2 - 1 = 1
      <3>1. PICK n \in Nat : n = Len(queue) BY Typing
      <3>2. n # 1 /\ 1 \in 1..n BY <1>1, <2>1, <3>1
      <3>3. 2 \in 1..n BY <3>2
      <3> QED BY <3>1, <3>3
    <2>3. 1 \in 1..Len(queue') /\ queue'[1].op = "rollback" BY <1>1, <2>1, <2>2
    <2> QED BY <1>2, <1>4, <2>1, <2>3
  <1> QED BY <1>3, <1>4

\* A step that leaves the durable rows alone keeps what was told of them
LEMMA DiskStays ==
    ASSUME EventInv, NEW op, NEW result \in {"ok", "error"}, Take(op, result),
           ~(op = "commit" /\ result = "ok"), disk' = disk,
           \A d \in Caller : told[d] = "ok" => seq'[d] = seq[d]
    PROVE  SequenceIntact' /\ Durable' /\ Told'
  <1>1. \A d : HasEvent(d)' <=> HasEvent(d) BY DEF HasEvent
  <1>2. \A d \in Caller : told[d] = "ok" => (Numbered(d)' <=> Numbered(d)) BY DEF Numbered
  <1>3. /\ UNCHANGED <<pc, told, committing>>
        /\ \A i \in 1..Len(queue') : queue'[i].op # "commit"
        /\ \A d \in Caller : ~(pc[d] = "commit" /\ answer'[d] = "ok")
        /\ \A d \in Caller : answer[d] # "ok"
    <2>1. Len(queue) # 0 BY TakeFacts
    <2> QED BY TakeFacts, <2>1 DEF Body, EventInv, Locking
  <1>4. SequenceIntact' BY DEF EventInv, SequenceIntact
  <1>5. Durable' BY <1>1, <1>3 DEF EventInv, Durable
  <1>6. Told' BY <1>1, <1>2, <1>3 DEF EventInv, Told
  <1> QED BY <1>4, <1>5, <1>6

\* With BEGIN at the head of the queue nobody has written
LEMMA BeginIsClean ==
    ASSUME EventInv, 1 \in 1..Len(queue), queue[1].op = "begin"
    PROVE  view = disk
  <1>1. \A i \in 1..Len(queue) : queue[i].op = "begin"
    <2> TAKE i \in 1..Len(queue)
    <2>1. queue[i].op \notin Body BY DEF EventInv, QueueShape, Body
    <2>2. queue[i].op # "rollback" BY DEF EventInv, QueueShape, Body
    <2> QED BY <2>1, <2>2, Typing DEF Statement, Body
  <1>2. ASSUME NEW d \in Caller, pc[d] \in Body PROVE FALSE
    <2>1. pc[d] \in Statement /\ pc[d] # "begin" BY <1>2 DEF Body, Statement
    <2>2. answer[d] = "none" BY <2>1 DEF EventInv, Locking
    <2>3. Len(queue) \in 1..Len(queue) /\ queue[Len(queue)].by = d /\ queue[Len(queue)].awaited
      BY <2>1, <2>2, Typing DEF EventInv, Locking
    <2>4. pc[d] = queue[Len(queue)].op BY <2>3 DEF EventInv, Locking
    <2> QED BY <1>1, <2>1, <2>3, <2>4
  <1> QED BY <1>1, <1>2 DEF EventInv, TxShape

\* The thread executes BEGIN IMMEDIATE,
LEMMA ExecBeginKeeps ==
    ASSUME EventInv, ExecBegin
    PROVE  EventInv'
  <1>1. PICK result \in {"ok", "error"} : Take("begin", result) BY DEF ExecBegin
  <1>2. inTx' = TRUE /\ UNCHANGED <<view, disk, seq>> BY DEF ExecBegin
  <1>3. view = disk BY <1>1, TakeFacts, BeginIsClean
  <1>4. TypeOK' BY <1>1, <1>2, TakeFacts DEF EventInv, TypeOK, Sent
  <1>5. TxShape'
    <2>1. \A d \in Caller : answer'[d] # "none" => pc'[d] = "begin" BY <1>1, TakeFacts
    <2>2. \A d \in Caller : Ready(d, "check")' BY <1>2, <1>3 DEF Ready
    <2>3. \A i \in 1..Len(queue') : queue'[i].op \notin Body BY <1>1, TakeFacts
    <2> QED BY <1>2, <1>3, <2>1, <2>2, <2>3, NextStatements DEF TxShape
  <1>6. SequenceIntact' /\ Durable' /\ Told' BY <1>1, <1>2, DiskStays
  <1>7. Locking' /\ QueueShape' BY <1>1, TakeFacts
  <1> QED BY <1>4, <1>5, <1>6, <1>7 DEF EventInv

\* COMMIT, which makes the rows durable,
LEMMA ExecCommitKeeps ==
    ASSUME EventInv, ExecCommit
    PROVE  EventInv'
  <1>1. inTx /\ Take("commit", "ok") /\ disk' = view /\ inTx' = FALSE /\ UNCHANGED <<view, seq>>
    BY DEF ExecCommit
  <1>2. PICK c \in Caller : c = queue[1].by BY <1>1, TakeFacts
  <1> DEFINE n == Len(disk.events)
             e == [by |-> c, seq |-> disk.last + 1]
  <1>3. /\ 1 \in 1..Len(queue) /\ queue[1].op = "commit"
        /\ UNCHANGED <<lock, waiters, pc, told, committing>>
        /\ \A i \in 1..Len(queue') : queue'[i].op \notin Body
        /\ \A d \in Caller : answer'[d] # "none" => d = c /\ pc[d] = "commit"
        /\ \A d \in Caller : answer[d] # "ok"
    <2>1. Len(queue) # 0 BY <1>1, TakeFacts
    <2> QED BY <1>1, <1>2, <2>1, TakeFacts DEF EventInv, Locking
  <1>4. /\ Ready(c, "commit") /\ told[c] \in {"nothing", "cancelled"}
        /\ ~queue[1].awaited => told[c] = "cancelled"
    BY <1>1, <1>2, BodyFacts DEF Body
  <1>5. /\ view.last = disk.last + 1 /\ view.events = Append(disk.events, e)
        /\ seq[c] = disk.last + 1
    BY <1>4 DEF Ready
  <1>6. c \in committing /\ ~HasEvent(c) BY <1>2, <1>3 DEF EventInv, Durable
  <1>7. disk.last = n /\ n \in Nat /\ disk.events \in Seq(Event) /\ e \in Event
    BY Typing DEF EventInv, SequenceIntact, Event
  <1>8. e.by = c /\ e.seq = disk.last + 1 OBVIOUS
  <1> HIDE DEF e
  <1>9. /\ disk'.last = n + 1 /\ Len(disk'.events) = n + 1
        /\ \A i \in 1..n : disk'.events[i] = disk.events[i]
        /\ disk'.events[n + 1] = e
    BY <1>1, <1>5, <1>7
  <1>10. /\ \A i \in 1..Len(disk'.events) : i \in 1..n \/ i = n + 1
         /\ n + 1 \in 1..Len(disk'.events) /\ 1..n \subseteq 1..Len(disk'.events)
    BY <1>7, <1>9
  <1>11. \A i \in 1..n : disk.events[i].by # c /\ disk.events[i].seq = i
    BY <1>6 DEF HasEvent, EventInv, SequenceIntact
  <1>12. \A i, j \in 1..n : disk.events[i].by = disk.events[j].by => i = j BY DEF EventInv, Durable
  <1>13. \A d : (HasEvent(d) <=> \E i \in 1..n : disk.events[i].by = d)
             /\ (Numbered(d) <=> \A i \in 1..n : disk.events[i].by = d => i = seq[d])
    BY DEF HasEvent, Numbered
  <1>14. seq[c] = n + 1 /\ e.seq = n + 1 /\ e.by = c BY <1>5, <1>7, <1>8
  <1> HIDE DEF n
  <1>15. \A d : HasEvent(d)' <=> HasEvent(d) \/ d = c
    <2> TAKE d
    <2>1. ASSUME HasEvent(d)' PROVE HasEvent(d) \/ d = c
      BY <1>9, <1>10, <1>13, <1>14, <2>1 DEF HasEvent
    <2>2. ASSUME HasEvent(d) PROVE HasEvent(d)'
      <3>1. PICK i \in 1..n : disk.events[i].by = d BY <1>13, <2>2
      <3>2. disk'.events[i].by = d /\ i \in 1..Len(disk'.events) BY <1>9, <1>10, <3>1
      <3> QED BY <3>2 DEF HasEvent
    <2>3. HasEvent(c)'
      <3>1. disk'.events[n + 1].by = c BY <1>9, <1>14
      <3> QED BY <1>10, <3>1 DEF HasEvent
    <2> QED BY <2>1, <2>2, <2>3
  <1>16. \A d : d # c => (Numbered(d)' <=> Numbered(d))
    <2> TAKE d
    <2>1. HAVE d # c
    <2>2. seq' = seq BY <1>1
    <2>3. Numbered(d)' <=> \A i \in 1..n : disk'.events[i].by = d => i = seq[d]
      BY <1>9, <1>10, <1>14, <2>1, <2>2 DEF Numbered
    <2>4. \A i \in 1..n : disk'.events[i].by = disk.events[i].by BY <1>9
    <2> QED BY <1>13, <2>3, <2>4
  <1>17. Numbered(c)'
    BY <1>1, <1>9, <1>10, <1>11, <1>14 DEF Numbered
  <1>18. SequenceIntact'
    BY <1>9, <1>10, <1>11, <1>14 DEF SequenceIntact
  <1>19. TypeOK' BY <1>1, TakeFacts DEF EventInv, TypeOK, Sent
  <1>20. TxShape' BY <1>1, <1>3 DEF TxShape, Steps
  <1>21. Durable'
    <2>1. \A i, j \in 1..Len(disk'.events) : disk'.events[i].by = disk'.events[j].by => i = j
      BY <1>9, <1>10, <1>11, <1>12, <1>14
    <2>2. pc[c] = "commit" => answer'[c] = "ok"
      <3>1. pc[c] = "commit" => told[c] = "nothing" BY DEF EventInv, Told
      <3>2. queue[1].awaited => answer'[c] = "ok"
        BY <1>1, <1>2 DEF Take, EventInv, TypeOK
      <3> QED BY <1>4, <3>1, <3>2
    <2>3. \A d \in Caller : pc[d] \in Steps \cup {"idle", "waiting"} => d \notin committing
      BY DEF EventInv, Durable
    <2>4. \A d \in Caller : HasEvent(d) => d \in committing BY DEF EventInv, Durable
    <2>5. \A d \in Caller : pc[d] = "commit" => ~HasEvent(d) BY <1>3 DEF EventInv, Durable
    <2>6. \A i \in 1..Len(queue') : queue'[i].op # "commit" BY <1>3 DEF Body
    <2> QED BY <1>3, <1>6, <1>15, <1>17, <2>1, <2>2, <2>3, <2>4, <2>5, <2>6 DEF Durable
  <1>22. Told' BY <1>3, <1>4, <1>15, <1>16 DEF EventInv, Told
  <1>23. Locking' /\ QueueShape' BY <1>1, TakeFacts
  <1> QED BY <1>18, <1>19, <1>20, <1>21, <1>22, <1>23 DEF EventInv

\* ROLLBACK, also one whose caller is gone,
LEMMA ExecRollbackKeeps ==
    ASSUME EventInv, ExecRollback
    PROVE  EventInv'
  <1>1. PICK result \in {"ok", "error"} : Take("rollback", result) BY DEF ExecRollback
  <1>2. view' = disk /\ inTx' = FALSE /\ UNCHANGED <<disk, seq>> BY DEF ExecRollback
  <1>3. TypeOK' BY ZenonT(30), <1>1, <1>2, TakeFacts DEF EventInv, TypeOK, Sent
  <1>4. TxShape'
    <2>1. \A d \in Caller : answer'[d] # "none" => pc'[d] = "rollback" BY <1>1, TakeFacts
    <2>2. \A i \in 1..Len(queue') : queue'[i].op \notin Body BY <1>1, TakeFacts
    <2> QED BY <1>2, <2>1, <2>2 DEF TxShape, Steps
  <1>5. SequenceIntact' /\ Durable' /\ Told' BY <1>1, <1>2, DiskStays
  <1>6. Locking' /\ QueueShape' BY <1>1, TakeFacts
  <1> QED BY <1>3, <1>4, <1>5, <1>6 DEF EventInv

\* A statement of the body that commits nothing
LEMMA ExecBodyKeeps ==
    ASSUME EventInv, NEW op \in Body, NEW result \in {"ok", "error"}, Take(op, result),
           ~(op = "commit" /\ result = "ok"), UNCHANGED <<disk, inTx>>,
           view' \in Table, seq' \in [Caller -> Nat],
           \A d \in Caller : d # queue[1].by => seq'[d] = seq[d],
           result = "ok" => \A d : d = queue[1].by => Ready(d, NextStatement(op))'
    PROVE  EventInv'
  <1>1. TypeOK' BY SMTT(30), TakeFacts DEF EventInv, TypeOK, Sent
  <1>2. \A d \in Caller : told[d] = "ok" => seq'[d] = seq[d]
    <2>1. told[queue[1].by] # "ok" BY BodyFacts
    <2> QED BY <2>1
  <1>3. SequenceIntact' /\ Durable' /\ Told' BY <1>2, DiskStays
  <1>4. Locking' /\ QueueShape' BY TakeFacts
  <1>5. TxShape'
    <2>1. inTx /\ inTx' BY BodyFacts
    <2>2. ~ /\ \A i \in 1..Len(queue') : queue'[i].op = "begin"
            /\ \A c \in Caller : pc'[c] \notin Body
      <3>1. pc' = pc BY TakeFacts
      <3> QED BY <3>1, BodyFacts
    <2>3. /\ \A i \in 1..Len(queue') : queue'[i].op \notin Body
          /\ \A d \in Caller : answer'[d] # "none" =>
                 d = queue[1].by /\ pc'[d] = op /\ answer'[d] = result
      BY TakeFacts
    <2> QED BY <2>1, <2>2, <2>3 DEF TxShape
  <1> QED BY <1>1, <1>3, <1>4, <1>5 DEF EventInv

\* or any statement of the queue
LEMMA ExecStatementKeeps ==
    ASSUME EventInv,
           \/ ExecCommitFails \/ ExecCheck \/ ExecRead
           \/ ExecWrite("bump") \/ ExecWrite("insert")
    PROVE  EventInv'
  <1> USE DEF threadVars
  <1>0. view \in Table /\ seq \in [Caller -> Nat] BY DEF EventInv, TypeOK
  <1>1. CASE ExecCommitFails
    BY <1>0, <1>1, ExecBodyKeeps DEF ExecCommitFails, Body
  <1>2. CASE ExecCheck
    <2>1. PICK result \in {"ok", "error"} : Take("check", result) BY <1>2 DEF ExecCheck
    <2>2. Ready(queue[1].by, "check") BY <2>1, BodyFacts DEF Body
    <2>3. UNCHANGED <<inTx, view, disk, seq>> BY <1>2 DEF ExecCheck
    <2>4. \A d : Ready(d, "bump")' BY <2>2, <2>3 DEF Ready
    <2> QED BY <1>0, <2>1, <2>3, <2>4, ExecBodyKeeps, NextStatements DEF Body
  <1>3. CASE ExecRead
    <2>1. Take("read", "ok") /\ UNCHANGED <<inTx, view, disk>> BY <1>3 DEF ExecRead
    <2>2. PICK c \in Caller : c = queue[1].by /\ c = Head(queue).by BY <2>1, TakeFacts
    <2>3. seq' = [seq EXCEPT ![c] = view.last] BY <1>3, <2>2 DEF ExecRead
    <2>4. Ready(c, "read") BY <2>1, <2>2, BodyFacts DEF Body
    <2>5. seq' \in [Caller -> Nat] /\ seq'[c] = view.last /\ \A d \in Caller : d # c => seq'[d] = seq[d]
      BY <1>0, <2>3, Typing
    <2>6. Ready(c, "insert")' BY <2>1, <2>4, <2>5 DEF Ready, Bumped
    <2> QED BY <1>0, <2>1, <2>2, <2>5, <2>6, ExecBodyKeeps, NextStatements DEF Body
  <1>4. CASE ExecWrite("bump")
    <2>1. /\ Take("bump", "ok") /\ UNCHANGED <<inTx, seq>>
          /\ view' = [last |-> view.last + 1, events |-> view.events]
          /\ disk' = IF inTx THEN disk ELSE view'
      BY <1>4 DEF ExecWrite, Effect
    <2>2. inTx /\ Ready(queue[1].by, "bump") BY <2>1, BodyFacts DEF Body
    <2>3. disk' = disk /\ view' \in Table BY <1>0, <2>1, <2>2 DEF Table
    <2>4. \A d : Ready(d, "read")' BY <2>1, <2>2, <2>3 DEF Ready, Bumped
    <2> QED BY <1>0, <2>1, <2>3, <2>4, ExecBodyKeeps, NextStatements DEF Body
  <1>5. CASE ExecWrite("insert")
    <2>1. /\ Take("insert", "ok") /\ UNCHANGED <<inTx, seq>>
          /\ disk' = IF inTx THEN disk ELSE view'
      BY <1>5 DEF ExecWrite
    <2>2. PICK c \in Caller : c = queue[1].by /\ c = Head(queue).by BY <2>1, TakeFacts
    <2>3. view' = [last |-> view.last, events |-> Append(view.events, [by |-> c, seq |-> seq[c]])]
      BY <1>5, <2>2 DEF ExecWrite, Effect
    <2>4. inTx /\ Ready(c, "insert") BY <2>1, <2>2, BodyFacts DEF Body
    <2>5. view' \in Table
      <3>1. [by |-> c, seq |-> seq[c]] \in Event BY <1>0 DEF Event
      <3> DEFINE e == [by |-> c, seq |-> seq[c]]
      <3>2. Append(view.events, e) \in Seq(Event)
        <4> HIDE DEF e
        <4> QED BY <3>1, Typing DEF e
      <3> QED BY <1>0, <2>3, <3>2 DEF Table, Event
    <2>6. disk' = disk BY <2>1, <2>4
    <2>7. Ready(c, "commit")' BY <2>1, <2>3, <2>4, <2>6 DEF Ready, Bumped
    <2> QED BY <1>0, <2>1, <2>2, <2>5, <2>6, <2>7, ExecBodyKeeps, NextStatements DEF Body
  <1> QED BY <1>1, <1>2, <1>3, <1>4, <1>5

----------------------------------------------------------------------------
(* The event loop *)

\* The lock is handed to a caller or to nobody
LEMMA HandOnTypes ==
    ASSUME EventInv, HandOn(waiters)
    PROVE  lock' \in Caller \cup {NoCaller} /\ waiters' \in Seq(Caller)
  <1>1. waiters \in Seq(Caller) BY DEF EventInv, TypeOK
  <1>2. CASE waiters = <<>> BY <1>2 DEF HandOn
  <1>3. CASE waiters # <<>> BY <1>1, <1>3, HeadTailProperties DEF HandOn
  <1> QED BY <1>2, <1>3

\* The store's own part of the state, when only the callers move
LEMMA StoreStays ==
    ASSUME EventInv, UNCHANGED <<inTx, view, disk, seq>>
    PROVE  /\ SequenceIntact'
           /\ \A c : (HasEvent(c)' <=> HasEvent(c)) /\ (Numbered(c)' <=> Numbered(c))
           /\ \A c, op : Ready(c, op)' <=> Ready(c, op)
  BY DEF EventInv, SequenceIntact, HasEvent, Numbered, Ready, Bumped

\* BEGIN is sent by the owner of the lock, behind what others have left
LEMMA SendBeginKeeps ==
    ASSUME EventInv, NEW c \in Caller, pc[c] \in {"idle", "waiting"}, lock \in {c, NoCaller},
           lock' = c, waiters' \in Seq(Caller), Send(c, "begin"),
           UNCHANGED <<told, threadVars>>
    PROVE  EventInv'
  <1> USE DEF threadVars
  <1> DEFINE n == Len(queue)
             m == [by |-> c, op |-> "begin", awaited |-> TRUE]
  <1>1. \A d \in Caller : pc[d] \notin Statement
    BY CallerAssumption DEF EventInv, Locking, Statement
  <1>2. n \in Nat /\ queue \in Seq(Sent) /\ \A i \in 1..n : queue[i].by \in Caller BY Typing
  <1>3. \A i \in 1..n : ~queue[i].awaited
    <2>1. \A i \in 1..n : queue[i].op \in Statement BY Typing
    <2> QED BY <1>1, <1>2, <2>1 DEF EventInv, Locking
  <1>4. /\ m \in Sent /\ m.by = c /\ m.op = "begin" /\ m.awaited BY DEF Sent, Statement
  <1>5. queue' = Append(queue, m) BY DEF Send
  <1> HIDE DEF m
  <1>6. /\ queue' \in Seq(Sent) /\ Len(queue') = n + 1 /\ queue'[n + 1] = m
        /\ \A i \in 1..n : queue'[i] = queue[i]
        /\ \A i \in 1..Len(queue') : i \in 1..n \/ i = n + 1
    BY <1>2, <1>4, <1>5
  <1>7. /\ pc' = [pc EXCEPT ![c] = "begin"] /\ answer' = [answer EXCEPT ![c] = "none"]
        /\ committing' = committing
    BY DEF Send
  <1>8. /\ \A d \in Caller : pc'[d] = IF d = c THEN "begin" ELSE pc[d]
        /\ \A d \in Caller : answer'[d] = "none"
    BY <1>1, <1>7 DEF EventInv, TypeOK, Locking
  <1>9. TypeOK'
    <2>1. pc' \in [Caller -> Statement \cup {"idle", "waiting", "done"}]
      BY <1>7 DEF EventInv, TypeOK, Statement
    <2>2. answer' \in [Caller -> {"none", "ok", "error"}] BY <1>7 DEF EventInv, TypeOK
    <2> QED BY <1>6, <1>7, <2>1, <2>2 DEF EventInv, TypeOK, Sent
  <1>10. Locking'
    <2>1. Len(queue') # 0 /\ n + 1 = Len(queue') BY <1>2, <1>6
    <2>2. \A i \in 1..Len(queue') : queue'[i].awaited => i = n + 1 BY <1>3, <1>6
    <2> HIDE DEF n
    <2> QED BY <1>1, <1>4, <1>6, <1>8, <2>1, <2>2 DEF Locking
  <1>11. \A i \in 1..n : queue[i].op \in Body => i = 1 /\ n # 1 /\ queue[2].op = "rollback"
                             /\ told[queue[i].by] = "cancelled" /\ inTx
    BY <1>3 DEF EventInv, QueueShape
  <1>12. QueueShape'
    <2>1. 1 \in 1..n /\ n # 1 => 2 \in 1..n
      <3>1. \A k \in Nat : 1 \in 1..k /\ k # 1 => 2 \in 1..k OBVIOUS
      <3> HIDE DEF n
      <3> QED BY <1>2, <3>1
    <2>2. 1 \in 1..n => Len(queue') # 1 BY <1>2, <1>6
    <2>3. \A i \in 1..n : queue[i].op = "rollback" =>
            i = 1 \/ (i = 2 /\ queue[1].op \in Body /\ 1 \in 1..n)
      BY <1>2 DEF EventInv, QueueShape
    <2>4. m.op \notin Body /\ m.op # "rollback" BY <1>4 DEF Body
    <2> HIDE DEF n
    <2>5. ASSUME NEW i \in 1..Len(queue'), queue'[i].op \in Body
          PROVE  /\ i = 1 /\ inTx /\ Len(queue') # 1 /\ queue'[2].op = "rollback"
                 /\ told[queue'[i].by] = "cancelled"
      <3>1. i \in 1..n /\ queue'[i] = queue[i] BY <1>6, <2>4, <2>5
      <3> QED BY <1>6, <1>11, <2>1, <2>2, <2>5, <3>1
    <2>6. ASSUME NEW i \in 1..Len(queue'), queue'[i].op = "rollback"
          PROVE  i = 1 \/ (i = 2 /\ queue'[1].op \in Body)
      BY <1>6, <2>3, <2>4, <2>6
    <2> QED BY <2>5, <2>6 DEF QueueShape
  <1>13. TxShape'
    <2>1. \A i \in 1..n : i \in 1..Len(queue') BY <1>2, <1>6
    <2>2. (\A i \in 1..Len(queue') : queue'[i].op = "begin") =>
              \A i \in 1..n : queue[i].op = "begin"
      BY <1>6, <2>1
    <2>3. \A d \in Caller : pc[d] \notin Body BY <1>1 DEF Body, Statement
    <2>4. \A i \in 1..Len(queue') : queue'[i].op \in Body =>
             \A d, op : d = queue'[i].by /\ op = queue'[i].op => Ready(d, op)'
      <3> HIDE DEF n
      <3>1. \A i \in 1..n : queue[i].op \in Body => Ready(queue[i].by, queue[i].op)
        BY DEF EventInv, TxShape, n
      <3>2. m.op \notin Body BY <1>4 DEF Body
      <3> QED BY <1>6, <3>1, <3>2, StoreStays
    <2> HIDE DEF n
    <2>5. (\A i \in 1..n : queue[i].op = "begin") => view = disk BY <2>3 DEF EventInv, TxShape, n
    <2>6. ~inTx => view = disk BY DEF EventInv, TxShape
    <2> QED BY <1>8, <2>2, <2>4, <2>5, <2>6 DEF TxShape
  <1>14. Durable'
    <2>1. \A i \in 1..Len(queue') : queue'[i].op = "commit" =>
             queue'[i].by \in committing /\ ~HasEvent(queue'[i].by)
      <3>1. \A i \in 1..n : queue[i].op = "commit" =>
               queue[i].by \in committing /\ ~HasEvent(queue[i].by)
        BY DEF EventInv, Durable
      <3> HIDE DEF n
      <3> QED BY <1>4, <1>6, <3>1
    <2>2. \A d \in Caller : pc[d] # "commit" /\ pc'[d] # "commit" BY <1>1, <1>8 DEF Statement
    <2>3. c \notin committing BY DEF EventInv, Durable
    <2> QED BY <1>7, <1>8, <2>1, <2>2, <2>3, StoreStays DEF EventInv, Durable
  <1>15. Told'
    <2>1. told[c] = "nothing" BY DEF EventInv, Told
    <2> QED BY <1>8, <2>1, StoreStays DEF EventInv, Told
  <1> QED BY <1>9, <1>10, <1>12, <1>13, <1>14, <1>15, StoreStays DEF EventInv

\* A caller enters: it has the lock or waits for it
LEMMA EnterKeeps ==
    ASSUME EventInv, NEW c \in Caller, Enter(c)
    PROVE  EventInv'
  <1>1. CASE lock = NoCaller
    <2>1. /\ lock' = c /\ Send(c, "begin") /\ waiters' = waiters /\ pc[c] = "idle"
          /\ UNCHANGED <<told, threadVars>>
      BY <1>1 DEF Enter
    <2>2. waiters' \in Seq(Caller) BY <2>1 DEF EventInv, TypeOK
    <2> QED BY <1>1, <2>1, <2>2, SendBeginKeeps
  <1>2. CASE lock # NoCaller
    <2> USE DEF threadVars
    <2>1. /\ pc[c] = "idle" /\ pc' = [pc EXCEPT ![c] = "waiting"]
          /\ waiters' = Append(waiters, c)
          /\ UNCHANGED <<lock, queue, answer, committing, told, threadVars>>
      BY <1>2 DEF Enter
    <2>2. \A d \in Caller : pc'[d] = IF d = c THEN "waiting" ELSE pc[d] BY <2>1 DEF EventInv, TypeOK
    <2>3. TypeOK'
      <3>1. pc' \in [Caller -> Statement \cup {"idle", "waiting", "done"}]
        BY <2>1 DEF EventInv, TypeOK
      <3>2. waiters' \in Seq(Caller) BY <2>1 DEF EventInv, TypeOK
      <3> QED BY <2>1, <3>1, <3>2 DEF EventInv, TypeOK
    <2>4. "waiting" \notin Statement /\ "idle" \notin Statement /\ "waiting" \notin Body
            /\ "waiting" \notin Steps /\ Body \subseteq Statement
      BY DEF Statement, Body, Steps
    <2>5. \A i \in 1..Len(queue) : queue[i].by \in Caller /\ queue[i].op \in Statement BY Typing
    <2>6. Locking' BY <2>1, <2>2, <2>4, <2>5 DEF EventInv, Locking
    <2>7. QueueShape' BY <2>1 DEF EventInv, QueueShape
    <2>8. TxShape' BY <2>1, <2>2, <2>4, StoreStays DEF EventInv, TxShape
    <2>9. Durable' BY <2>1, <2>2, StoreStays DEF EventInv, Durable
    <2>10. Told' BY <2>1, <2>2, StoreStays DEF EventInv, Told
    <2> QED BY <2>1, <2>3, <2>6, <2>7, <2>8, <2>9, <2>10, StoreStays DEF EventInv
  <1> QED BY <1>1, <1>2

\* The caller the lock was handed to sends its BEGIN
LEMMA AcquiredKeeps ==
    ASSUME EventInv, NEW c \in Caller, Acquired(c)
    PROVE  EventInv'
  <1>1. waiters' \in Seq(Caller) BY DEF Acquired, lockVars, EventInv, TypeOK
  <1> QED BY <1>1, SendBeginKeeps DEF Acquired, lockVars

\* The next statement of a body is sent into an empty queue
LEMMA ProceedKeeps ==
    ASSUME EventInv, NEW c \in Caller, Proceed(c)
    PROVE  EventInv'
  <1> USE DEF threadVars, lockVars
  <1>1. PICK op \in Body : op = NextStatement(pc[c])
    BY NextStatements DEF Proceed, Body
  <1> DEFINE m == [by |-> c, op |-> op, awaited |-> TRUE]
  <1>2. /\ pc[c] \in Steps /\ answer[c] = "ok" /\ queue = <<>> /\ lock = c
        /\ Body \subseteq Statement /\ Steps \subseteq Statement
    BY DEF Proceed, Steps, EventInv, Locking, Statement, Body
  <1>3. inTx /\ Ready(c, op) BY <1>1, <1>2 DEF EventInv, TxShape
  <1>4. /\ pc' = [pc EXCEPT ![c] = op] /\ answer' = [answer EXCEPT ![c] = "none"]
        /\ committing' = IF op = "commit" THEN committing \cup {c} ELSE committing
        /\ queue' = Append(queue, m)
        /\ UNCHANGED <<lock, waiters, told, threadVars>>
    BY <1>1 DEF Proceed, Send
  <1>5. m \in Sent /\ m.by = c /\ m.op = op /\ m.awaited BY <1>2 DEF Sent
  <1> HIDE DEF m
  <1>6. queue' \in Seq(Sent) /\ Len(queue') = 1 /\ queue'[1] = m
          /\ \A i \in 1..Len(queue') : i = 1
    BY <1>2, <1>4, <1>5
  <1>7. /\ \A d \in Caller : pc'[d] = IF d = c THEN op ELSE pc[d]
        /\ \A d \in Caller : answer'[d] = IF d = c THEN "none" ELSE answer[d]
    BY <1>4 DEF EventInv, TypeOK
  <1>8. \A d \in Caller : d # c => pc[d] \notin Statement /\ answer[d] = "none"
    BY <1>2 DEF EventInv, Locking
  <1>9. TypeOK'
    <2>1. pc' \in [Caller -> Statement \cup {"idle", "waiting", "done"}]
      BY <1>2, <1>4 DEF EventInv, TypeOK
    <2>2. answer' \in [Caller -> {"none", "ok", "error"}] BY <1>4 DEF EventInv, TypeOK
    <2>3. committing' \subseteq Caller BY <1>4 DEF EventInv, TypeOK
    <2> QED BY <1>4, <1>6, <2>1, <2>2, <2>3 DEF EventInv, TypeOK, Sent
  <1>10. Locking' BY <1>2, <1>4, <1>5, <1>6, <1>7, <1>8 DEF Locking
  <1>11. QueueShape' BY <1>3, <1>4, <1>5, <1>6 DEF QueueShape, Body
  <1>12. TxShape'
    <2>1. \A i \in 1..Len(queue') : \A d, o : d = queue'[i].by /\ o = queue'[i].op => Ready(d, o)'
      BY <1>3, <1>4, <1>5, <1>6, StoreStays
    <2> QED BY <1>3, <1>4, <1>7, <1>8, <2>1 DEF TxShape
  <1>13. Durable'
    <2>1. c \notin committing BY <1>2 DEF EventInv, Durable
    <2>2. ~HasEvent(c) BY <2>1 DEF EventInv, Durable
    <2>3. op \in Steps => op # "commit" BY DEF Steps
    <2>4. \A d \in Caller : d # c => pc[d] # "commit" BY <1>8 DEF Statement
    <2> QED BY <1>4, <1>5, <1>6, <1>7, <2>1, <2>2, <2>3, <2>4, StoreStays DEF EventInv, Durable, Body, Steps
  <1>14. Told'
    <2>1. told[c] = "nothing" BY <1>2 DEF EventInv, Told, Steps
    <2> QED BY <1>4, <1>7, <2>1, StoreStays DEF EventInv, Told
  <1> QED BY <1>4, <1>9, <1>10, <1>11, <1>12, <1>13, <1>14, StoreStays DEF EventInv

\* A caller leaves write_transaction with no statement of its own awaited
LEMMA LeaveKeeps ==
    ASSUME EventInv, NEW c \in Caller, NEW v \in {"nothing", "ok", "error", "cancelled"},
           pc[c] = "waiting" \/ (pc[c] \in Statement /\ answer[c] # "none"),
           lock = c \/ lock' = lock, lock' \in Caller \cup {NoCaller}, waiters' \in Seq(Caller),
           pc' = [pc EXCEPT ![c] = "done"], told' = [told EXCEPT ![c] = v],
           answer' = [answer EXCEPT ![c] = "none"],
           UNCHANGED <<queue, committing, threadVars>>,
           pc[c] \in Body => view = disk,
           v = "ok" => HasEvent(c) /\ Numbered(c),
           v = "error" => ~HasEvent(c)
    PROVE  EventInv'
  <1> USE DEF threadVars
  <1>1. /\ \A d \in Caller : pc'[d] = IF d = c THEN "done" ELSE pc[d]
        /\ \A d \in Caller : told'[d] = IF d = c THEN v ELSE told[d]
        /\ \A d \in Caller : answer'[d] = IF d = c THEN "none" ELSE answer[d]
    BY DEF EventInv, TypeOK
  <1>2. "done" \notin Statement /\ "done" \notin Body /\ "done" \notin Steps
    BY DEF Statement, Body, Steps
  <1>3. TypeOK'
    <2>1. /\ pc' \in [Caller -> Statement \cup {"idle", "waiting", "done"}]
          /\ told' \in [Caller -> {"nothing", "ok", "error", "cancelled"}]
          /\ answer' \in [Caller -> {"none", "ok", "error"}]
      BY DEF EventInv, TypeOK
    <2> QED BY <2>1 DEF EventInv, TypeOK
  <1>4. \A i \in 1..Len(queue) : queue[i].awaited => queue[i].by # c
    <2>1. ASSUME pc[c] \in Statement PROVE Len(queue) = 0 BY <2>1 DEF EventInv, Locking, Statement
    <2>2. ASSUME pc[c] = "waiting", NEW i \in 1..Len(queue), queue[i].awaited PROVE queue[i].by # c
      <3>1. queue[i].op \in Statement /\ pc[queue[i].by] = queue[i].op
        BY <2>2, Typing DEF EventInv, Locking
      <3> QED BY <2>2, <3>1 DEF Statement
    <2> QED BY <2>1, <2>2
  <1>5. \A d \in Caller : pc[d] \in Statement /\ d # c => lock' = d BY DEF EventInv, Locking, Statement
  <1>6. \A i \in 1..Len(queue) : queue[i].by \in Caller BY Typing
  <1>7. Locking' BY <1>1, <1>2, <1>4, <1>5, <1>6 DEF EventInv, Locking
  <1>8. QueueShape'
    <2>1. \A i \in 1..Len(queue) : queue[i].by = c => told[c] # "cancelled" \/ Len(queue) = 0
      <3>1. pc[c] = "waiting" => told[c] = "nothing" BY DEF EventInv, Told
      <3>2. pc[c] \in Statement => Len(queue) = 0 BY DEF EventInv, Locking, Statement
      <3> QED BY <3>1, <3>2
    <2> QED BY <1>1, <1>6, <2>1 DEF EventInv, QueueShape
  <1>9. TxShape'
    <2>1. (\A d \in Caller : pc'[d] \notin Body) => view = disk \/ \A d \in Caller : pc[d] \notin Body
      BY <1>1
    <2> QED BY <1>1, <1>2, <2>1, StoreStays DEF EventInv, TxShape
  <1>10. Durable'
    <2>1. UNCHANGED <<queue, disk, committing>> OBVIOUS
    <2> QED BY <1>1, <1>2, <2>1, StoreStays DEF EventInv, Durable
  <1>11. Told' BY <1>1, StoreStays DEF EventInv, Told
  <1> QED BY <1>3, <1>7, <1>8, <1>9, <1>10, <1>11, StoreStays DEF EventInv

\* A cancelled caller abandons its statement, and not the other ones
LEMMA AbandonedFacts ==
    ASSUME EventInv, NEW c \in Caller
    PROVE  /\ Abandoned(c) \in Seq(Sent) /\ Len(Abandoned(c)) = Len(queue)
           /\ \A i \in 1..Len(queue) :
                 /\ Abandoned(c)[i].by = queue[i].by /\ Abandoned(c)[i].op = queue[i].op
                 /\ Abandoned(c)[i].awaited <=> queue[i].awaited /\ queue[i].by # c
           /\ queue = <<>> => Abandoned(c) = <<>>
  <1> DEFINE f(i) == [by |-> queue[i].by, op |-> queue[i].op,
                      awaited |-> queue[i].awaited /\ queue[i].by # c]
             n == Len(queue)
  <1>0. n \in Nat BY Typing
  <1>1. \A i \in 1..n : /\ f(i) \in Sent /\ f(i).by = queue[i].by /\ f(i).op = queue[i].op
                        /\ f(i).awaited <=> queue[i].awaited /\ queue[i].by # c
    BY Typing DEF Sent
  <1> HIDE DEF f
  <1>2. Abandoned(c) = [i \in 1..n |-> f(i)] BY DEF Abandoned, f
  <1>3. [i \in 1..n |-> f(i)] \in [1..n -> Sent] BY <1>1
  <1> DEFINE g == [i \in 1..n |-> f(i)]
  <1>4. g \in Seq(Sent) /\ Len(g) = n /\ \A i \in 1..n : g[i] = f(i) BY <1>0, <1>3
  <1>5. queue = <<>> => g = <<>> BY <1>4
  <1> QED BY <1>1, <1>2, <1>4, <1>5

\* What is left when the lock's owner gives up: nothing, or one statement of the body
LEMMA BodyQueue ==
    ASSUME EventInv, NEW c \in Caller, pc[c] \in Body
    PROVE  \/ queue = <<>> /\ Len(queue) = 0
           \/ /\ answer[c] = "none" /\ Len(queue) = 1 /\ queue[1].by = c
              /\ queue[1].op = pc[c] /\ inTx
  <1>1. pc[c] \in Statement BY DEF Body, Statement
  <1>2. CASE answer[c] # "none" BY <1>1, <1>2 DEF EventInv, Locking
  <1>3. CASE answer[c] = "none"
    <2>1. PICK n \in Nat : n = Len(queue) BY Typing
    <2>2. n # 0 /\ queue[n].by = c /\ queue[n].awaited BY <1>1, <1>3, <2>1 DEF EventInv, Locking
    <2>3. n \in 1..n BY <2>1, <2>2
    <2>4. queue[n].op = pc[c] BY <2>1, <2>2, <2>3 DEF EventInv, Locking
    <2>5. n = 1 /\ inTx BY <2>1, <2>3, <2>4 DEF EventInv, QueueShape
    <2> QED BY <1>3, <2>1, <2>2, <2>4, <2>5
  <1> QED BY <1>2, <1>3

\* ROLLBACK is sent after a failure or a cancellation inside the transaction
LEMMA UnwindKeeps ==
    ASSUME EventInv, NEW c \in Caller, pc[c] \in Body, NEW q, NEW v \in {"error", "cancelled"},
           \/ q = Abandoned(c) /\ v = "cancelled"
           \/ q = queue /\ answer[c] # "none" /\ (v = "error" => ~HasEvent(c)),
           Unwind(c, q, v)
    PROVE  EventInv'
  <1> USE DEF threadVars, lockVars
  <1>0. Body \subseteq Statement /\ "rollback" \in Statement /\ "rollback" \notin Body
          /\ "rollback" \notin Steps
    BY DEF Body, Statement, Steps
  <1>1. lock = c /\ pc[c] \in Statement BY <1>0 DEF EventInv, Locking
  <1>2. CASE ~inTx
    <2>1. queue = <<>> /\ q = queue BY <1>2, BodyQueue, AbandonedFacts
    <2>2. answer[c] # "none"
      <3>1. Len(queue) = 0 BY <2>1
      <3> QED BY <1>1, <3>1 DEF EventInv, Locking
    <2>3. view = disk BY <1>2 DEF EventInv, TxShape
    <2>4. /\ pc' = [pc EXCEPT ![c] = "done"] /\ told' = [told EXCEPT ![c] = v]
          /\ answer' = [answer EXCEPT ![c] = "none"] /\ HandOn(waiters)
          /\ UNCHANGED <<queue, committing, threadVars>>
      BY <1>2, <2>1 DEF Unwind
    <2> QED BY <1>1, <2>2, <2>3, <2>4, HandOnTypes, LeaveKeeps
  <1>3. CASE inTx
    <2> DEFINE m == [by |-> c, op |-> "rollback", awaited |-> TRUE]
    <2>1. /\ pc' = [pc EXCEPT ![c] = "rollback"] /\ told' = [told EXCEPT ![c] = v]
          /\ answer' = [answer EXCEPT ![c] = "none"] /\ queue' = Append(q, m)
          /\ UNCHANGED <<lock, waiters, committing, threadVars>>
      BY <1>3 DEF Unwind
    <2>2. \/ q = <<>>
          \/ /\ q \in Seq(Sent) /\ Len(q) = 1 /\ q[1].by = c /\ q[1].op = pc[c]
             /\ ~q[1].awaited /\ v = "cancelled" /\ Len(queue) = 1
             /\ queue[1].by = c /\ queue[1].op = pc[c]
      <3>1. CASE queue = <<>> BY <3>1, AbandonedFacts
      <3>2. CASE queue # <<>>
        <4>1. answer[c] = "none" /\ Len(queue) = 1 /\ queue[1].by = c /\ queue[1].op = pc[c]
          BY <3>2, BodyQueue
        <4>2. q = Abandoned(c) /\ v = "cancelled" /\ 1 \in 1..Len(queue) BY <4>1
        <4> QED BY <4>1, <4>2, AbandonedFacts
      <3> QED BY <3>1, <3>2
    <2>3. m \in Sent /\ m.by = c /\ m.op = "rollback" /\ m.awaited BY <1>0 DEF Sent
    <2> HIDE DEF m
    <2>4. /\ queue' \in Seq(Sent)
          /\ \/ Len(queue') = 1 /\ queue'[1] = m
             \/ /\ Len(queue') = 2 /\ queue'[2] = m /\ queue'[1].by = c /\ queue'[1].op = pc[c]
                /\ ~queue'[1].awaited /\ v = "cancelled"
                /\ Len(queue) = 1 /\ queue[1].by = c /\ queue[1].op = pc[c]
      <3>1. CASE q = <<>>
        <4>1. Append(q, m) \in Seq(Sent) /\ Len(Append(q, m)) = 1 /\ Append(q, m)[1] = m
          BY <2>3, <3>1
        <4> QED BY <2>1, <4>1
      <3>2. CASE q # <<>>
        <4>1. /\ Append(q, m) \in Seq(Sent) /\ Len(Append(q, m)) = 2 /\ Append(q, m)[2] = m
              /\ Append(q, m)[1] = q[1]
          <5>1. \A k \in Nat : k = 1 => k + 1 = 2 /\ 1 \in 1..k OBVIOUS
          <5>2. /\ Append(q, m) \in Seq(Sent) /\ Len(Append(q, m)) = Len(q) + 1
                /\ Append(q, m)[Len(q) + 1] = m /\ \A i \in 1..Len(q) : Append(q, m)[i] = q[i]
            BY <2>2, <2>3, <3>2
          <5>3. Len(q) = 1 /\ Len(q) \in Nat BY <2>2, <3>2
          <5> QED BY <5>1, <5>2, <5>3
        <4> QED BY <2>1, <2>2, <3>2, <4>1
      <3> QED BY <3>1, <3>2
    <2>5. /\ \A d \in Caller : pc'[d] = IF d = c THEN "rollback" ELSE pc[d]
          /\ \A d \in Caller : told'[d] = IF d = c THEN v ELSE told[d]
          /\ \A d \in Caller : answer'[d] = IF d = c THEN "none" ELSE answer[d]
      BY <2>1 DEF EventInv, TypeOK
    <2>6. \A d \in Caller : d # c => pc[d] \notin Statement /\ answer[d] = "none"
      BY <1>1 DEF EventInv, Locking
    <2>7. TypeOK'
      <3>1. /\ pc' \in [Caller -> Statement \cup {"idle", "waiting", "done"}]
            /\ told' \in [Caller -> {"nothing", "ok", "error", "cancelled"}]
            /\ answer' \in [Caller -> {"none", "ok", "error"}]
        BY <1>0, <2>1 DEF EventInv, TypeOK
      <3> QED BY <2>1, <2>4, <3>1 DEF EventInv, TypeOK, Sent
    <2>8. /\ Len(queue') # 0 /\ queue'[Len(queue')] = m
          /\ \A i \in 1..Len(queue') : queue'[i].awaited => i = Len(queue')
      <3>1. (\A i \in 1..1 : i = 1) /\ (\A i \in 1..2 : i = 1 \/ i = 2) /\ 1 # 0 /\ 2 # 0 OBVIOUS
      <3>2. CASE Len(queue') = 1 /\ queue'[1] = m BY <3>1, <3>2
      <3>3. CASE Len(queue') = 2 /\ queue'[2] = m /\ ~queue'[1].awaited BY <3>1, <3>3
      <3> QED BY <2>4, <3>2, <3>3
    <2>9. Locking' BY <1>0, <1>1, <2>1, <2>3, <2>5, <2>6, <2>8 DEF Locking
    <2>10. QueueShape' BY <1>0, <1>3, <2>1, <2>3, <2>4, <2>5 DEF QueueShape
    <2>11. TxShape'
      <3>1. ~(\A i \in 1..Len(queue') : queue'[i].op = "begin")
        <4>1. Len(queue') \in 1..Len(queue') BY <2>4
        <4> QED BY <2>3, <2>8, <4>1
      <3>2. \A i \in 1..Len(queue') : queue'[i].op \in Body =>
               \A d, o : d = queue'[i].by /\ o = queue'[i].op => Ready(d, o)'
        <4>1. Len(queue) = 1 /\ queue[1].op = pc[c] /\ queue[1].by = c => Ready(c, pc[c])
          BY DEF EventInv, TxShape
        <4>2. \A i \in 1..Len(queue') : i = 1 \/ i = 2
          <5>1. (\A i \in 1..1 : i = 1) /\ (\A i \in 1..2 : i = 1 \/ i = 2) OBVIOUS
          <5> QED BY <2>4, <5>1
        <4> QED BY <1>0, <2>1, <2>3, <2>4, <4>1, <4>2, StoreStays
      <3> QED BY <1>0, <1>3, <2>1, <2>5, <2>6, <3>1, <3>2 DEF TxShape
    <2>12. Durable'
      <3>1. UNCHANGED <<disk, committing>> BY <2>1
      <3>2. \A i \in 1..Len(queue') : queue'[i].op = "commit" =>
               queue'[i].by \in committing /\ ~HasEvent(queue'[i].by)
        <4>1. Len(queue) = 1 /\ queue[1].op = pc[c] /\ queue[1].by = c /\ pc[c] = "commit" =>
                  c \in committing /\ ~HasEvent(c)
          BY DEF EventInv, Durable
        <4>2. \A i \in 1..Len(queue') : i = 1 \/ i = 2
          <5>1. (\A i \in 1..1 : i = 1) /\ (\A i \in 1..2 : i = 1 \/ i = 2) OBVIOUS
          <5> QED BY <2>4, <5>1
        <4> QED BY <2>3, <2>4, <4>1, <4>2
      <3>3. "rollback" \notin Steps \cup {"idle", "waiting"} BY DEF Steps
      <3>4. \A d \in Caller : d # c => pc[d] # "commit" BY <2>6 DEF Statement
      <3> QED BY SMTT(30), <2>1, <2>5, <3>1, <3>2, <3>3, <3>4, StoreStays DEF EventInv, Durable
    <2>13. Told'
      <3>1. v = "error" => ~HasEvent(c) OBVIOUS
      <3> QED BY <2>1, <2>5, <3>1, StoreStays DEF EventInv, Told
    <2> QED BY <2>1, <2>7, <2>9, <2>10, <2>11, <2>12, <2>13, StoreStays DEF EventInv
  <1> QED BY <1>2, <1>3

\* The lock is given up with BEGIN or ROLLBACK still to be executed
LEMMA CancelOutsideKeeps ==
    ASSUME EventInv, NEW c \in Caller, CancelOutside(c)
    PROVE  EventInv'
  <1> USE DEF threadVars
  <1>0. /\ pc[c] \in {"begin", "rollback"} /\ queue' = Abandoned(c) /\ HandOn(waiters)
        /\ answer' = [answer EXCEPT ![c] = "none"]
        /\ pc' = [pc EXCEPT ![c] = "done"] /\ told' = [told EXCEPT ![c] = "cancelled"]
        /\ UNCHANGED <<committing, threadVars>>
    BY DEF CancelOutside, Return
  <1>1. /\ pc[c] \in Statement /\ pc[c] \notin Body /\ lock = c
        /\ "done" \notin Statement /\ "done" \notin Body /\ "done" \notin Steps
    BY <1>0 DEF Statement, Body, Steps, EventInv, Locking
  <1>2. lock' \in Caller \cup {NoCaller} /\ waiters' \in Seq(Caller) BY <1>0, HandOnTypes
  <1>3. CASE answer[c] # "none"
    <2>1. queue' = queue BY <1>0, <1>1, <1>3, AbandonedFacts DEF EventInv, Locking
    <2> QED BY <1>0, <1>1, <1>2, <1>3, <2>1, LeaveKeeps
  <1>4. CASE answer[c] = "none"
    <2> DEFINE n == Len(queue)
    <2>1. /\ queue' \in Seq(Sent) /\ Len(queue') = n
          /\ \A i \in 1..n : /\ queue'[i].by = queue[i].by /\ queue'[i].op = queue[i].op
                             /\ queue'[i].awaited <=> queue[i].awaited /\ queue[i].by # c
      BY <1>0, AbandonedFacts
    <2>2. n \in Nat /\ queue[n].by = c BY <1>1, <1>4, Typing DEF EventInv, Locking
    <2>3. \A i \in 1..n : queue[i].awaited => i = n /\ queue[i].op = pc[c]
      BY <2>2 DEF EventInv, Locking
    <2>4. \A i \in 1..n : ~queue'[i].awaited BY <2>1, <2>2, <2>3
    <2>5. \A i \in 1..n : queue[i].op \in Body =>
             /\ i = 1 /\ inTx /\ n # 1 /\ queue[2].op = "rollback" /\ told[queue[i].by] = "cancelled"
      BY <1>1, <2>3 DEF EventInv, QueueShape
    <2>6. \A i \in 1..n : queue[i].op = "rollback" => i = 1 \/ (i = 2 /\ queue[1].op \in Body)
      BY DEF EventInv, QueueShape
    <2>7. /\ \A d \in Caller : pc'[d] = IF d = c THEN "done" ELSE pc[d]
          /\ \A d \in Caller : told'[d] = IF d = c THEN "cancelled" ELSE told[d]
          /\ \A d \in Caller : answer'[d] = IF d = c THEN "none" ELSE answer[d]
      BY <1>0 DEF EventInv, TypeOK
    <2>8. \A d \in Caller : d # c => pc[d] \notin Statement /\ answer[d] = "none"
      BY <1>1 DEF EventInv, Locking
    <2>9. TypeOK'
      <3>1. /\ pc' \in [Caller -> Statement \cup {"idle", "waiting", "done"}]
            /\ told' \in [Caller -> {"nothing", "ok", "error", "cancelled"}]
            /\ answer' \in [Caller -> {"none", "ok", "error"}]
        BY <1>0 DEF EventInv, TypeOK
      <3> QED BY <1>0, <1>2, <2>1, <3>1 DEF EventInv, TypeOK, Sent
    <2>10. Locking' BY <1>1, <2>1, <2>4, <2>7, <2>8 DEF Locking
    <2>11. 1 \in 1..n => queue'[1].op = queue[1].op BY <2>1
    <2>12. 1 \in 1..n /\ n # 1 => queue'[2].op = queue[2].op
      <3>1. \A k \in Nat : 1 \in 1..k /\ k # 1 => 2 \in 1..k OBVIOUS
      <3> HIDE DEF n
      <3> QED BY <2>1, <2>2, <3>1
    <2>13. \A i \in 1..n : queue[i].by \in Caller BY Typing
    <2>14. \A k \in Nat : 2 \in 1..k => 1 \in 1..k OBVIOUS
    <2> HIDE DEF n
    <2>15. QueueShape' BY <1>0, <2>1, <2>2, <2>5, <2>6, <2>7, <2>11, <2>12, <2>13, <2>14 DEF QueueShape
    <2>16. TxShape'
      <3>1. (\A i \in 1..Len(queue') : queue'[i].op = "begin") <=> \A i \in 1..n : queue[i].op = "begin"
        BY <2>1
      <3>2. (\A d \in Caller : pc'[d] \notin Body) <=> (\A d \in Caller : pc[d] \notin Body)
        BY <1>1, <2>7
      <3>3. \A i \in 1..n : queue[i].op \in Body => Ready(queue[i].by, queue[i].op)
        BY DEF EventInv, TxShape, n
      <3>4. \A i \in 1..Len(queue') : queue'[i].op \in Body =>
               \A d, o : d = queue'[i].by /\ o = queue'[i].op => Ready(d, o)'
        BY <1>0, <2>1, <3>3, StoreStays
      <3>5. \A d \in Caller : answer'[d] = "none" BY <2>7, <2>8
      <3>6. (\A i \in 1..n : queue[i].op = "begin") /\ (\A d \in Caller : pc[d] \notin Body) => view = disk
        BY DEF EventInv, TxShape, n
      <3>7. ~inTx => view = disk BY DEF EventInv, TxShape
      <3> QED BY <1>0, <3>1, <3>2, <3>4, <3>5, <3>6, <3>7 DEF TxShape
    <2>17. Durable'
      <3>1. \A i \in 1..n : queue[i].op = "commit" => queue[i].by \in committing /\ ~HasEvent(queue[i].by)
        BY DEF EventInv, Durable, n
      <3>2. \A i \in 1..Len(queue') : queue'[i].op = "commit" =>
               queue'[i].by \in committing /\ ~HasEvent(queue'[i].by)
        BY <2>1, <3>1
      <3> QED BY <1>0, <1>1, <2>7, <3>2, StoreStays DEF EventInv, Durable
    <2>18. Told' BY <1>0, <2>7, StoreStays DEF EventInv, Told
    <2> QED BY <1>0, <2>9, <2>10, <2>15, <2>16, <2>17, <2>18, StoreStays DEF EventInv
  <1> QED BY <1>3, <1>4

\* A caller leaves with its answer or its error
LEMMA LeavesKeep ==
    ASSUME EventInv, NEW c \in Caller, Committed(c) \/ Refused(c) \/ RolledBack(c)
    PROVE  EventInv'
  <1>0. /\ HandOn(waiters) /\ pc[c] \in Statement /\ answer[c] # "none" /\ lock = c
        /\ pc' = [pc EXCEPT ![c] = "done"] /\ answer' = [answer EXCEPT ![c] = "none"]
        /\ UNCHANGED <<queue, committing, threadVars>>
    BY DEF Committed, Refused, RolledBack, Return, Statement, EventInv, Locking
  <1>1. CASE Committed(c)
    <2>1. told' = [told EXCEPT ![c] = "ok"] /\ pc[c] = "commit" /\ answer[c] = "ok"
      BY <1>1 DEF Committed, Return
    <2>2. view = disk /\ HasEvent(c) /\ Numbered(c) BY <2>1 DEF EventInv, TxShape, Durable
    <2> QED BY <1>0, <2>1, <2>2, HandOnTypes, LeaveKeeps
  <1>2. CASE Refused(c)
    <2>1. told' = [told EXCEPT ![c] = "error"] /\ pc[c] = "begin" BY <1>2 DEF Refused, Return
    <2>2. ~HasEvent(c) /\ pc[c] \notin Body BY <2>1 DEF EventInv, Durable, Steps, Body
    <2> QED BY <1>0, <2>1, <2>2, HandOnTypes, LeaveKeeps
  <1>3. CASE RolledBack(c)
    <2>1. told' = told /\ pc[c] = "rollback" /\ pc[c] \notin Body BY <1>3 DEF RolledBack, Body
    <2>2. PICK v \in {"nothing", "ok", "error", "cancelled"} : v = told[c] BY DEF EventInv, TypeOK
    <2>3. told' = [told EXCEPT ![c] = v] BY <2>1, <2>2 DEF EventInv, TypeOK
    <2>4. (v = "ok" => HasEvent(c) /\ Numbered(c)) /\ (v = "error" => ~HasEvent(c))
      BY <2>2 DEF EventInv, Told
    <2> QED BY <1>0, <2>1, <2>3, <2>4, HandOnTypes, LeaveKeeps
  <1> QED BY <1>1, <1>2, <1>3

\* A caller is cancelled while it waits for the lock
LEMMA CancelWaitingKeeps ==
    ASSUME EventInv, NEW c \in Caller, CancelWaiting(c)
    PROVE  EventInv'
  <1>1. /\ pc[c] = "waiting" /\ pc' = [pc EXCEPT ![c] = "done"]
        /\ told' = [told EXCEPT ![c] = "cancelled"]
        /\ UNCHANGED <<queue, answer, committing, threadVars>>
    BY DEF CancelWaiting, Return
  <1>2. answer' = [answer EXCEPT ![c] = "none"]
    <2>1. answer[c] = "none" BY <1>1 DEF EventInv, Locking, Statement
    <2> QED BY <1>1, <2>1 DEF EventInv, TypeOK
  <1>3. /\ lock = c \/ lock' = lock
        /\ lock' \in Caller \cup {NoCaller} /\ waiters' \in Seq(Caller)
    <2>1. CASE lock = c BY <2>1, HandOnTypes DEF CancelWaiting
    <2>2. CASE lock # c
      <3>1. PICK i \in 1..Len(waiters) : waiters' = RemoveAt(waiters, i)
        BY <2>2 DEF CancelWaiting
      <3>2. waiters \in Seq(Caller) /\ lock \in Caller \cup {NoCaller} BY DEF EventInv, TypeOK
      <3>3. RemoveAt(waiters, i) \in Seq(Caller) BY <3>1, <3>2 DEF RemoveAt
      <3> QED BY <2>2, <3>1, <3>2, <3>3 DEF CancelWaiting
    <2> QED BY <2>1, <2>2
  <1>4. pc[c] \notin Body BY <1>1 DEF Body
  <1> QED BY <1>1, <1>2, <1>3, <1>4, LeaveKeeps

\* A statement of the body fails, or its caller is cancelled: the transaction is unwound
LEMMA FailuresKeep ==
    ASSUME EventInv, NEW c \in Caller, Failed(c) \/ CancelInside(c)
    PROVE  EventInv'
  <1>1. CASE Failed(c)
    <2>1. pc[c] \in Body /\ answer[c] = "error" /\ Unwind(c, queue, "error") BY <1>1 DEF Failed
    <2>2. ~HasEvent(c) BY <2>1 DEF EventInv, Durable, Body, Steps
    <2> QED BY <2>1, <2>2, UnwindKeeps
  <1>2. CASE CancelInside(c) BY <1>2, UnwindKeeps DEF CancelInside
  <1> QED BY <1>1, <1>2

\* A step that changes nothing
LEMMA StutterKeeps ==
    ASSUME EventInv, UNCHANGED vars
    PROVE  EventInv'
  <1> USE DEF vars, lockVars, callerVars, threadVars
  <1>1. TypeOK' BY DEF EventInv, TypeOK
  <1>2. Locking' /\ QueueShape' BY DEF EventInv, Locking, QueueShape
  <1>3. TxShape' BY StoreStays DEF EventInv, TxShape
  <1>4. Durable' /\ Told' BY StoreStays DEF EventInv, Durable, Told
  <1> QED BY <1>1, <1>2, <1>3, <1>4, StoreStays DEF EventInv

\* Every step keeps the invariant, one case per action
LEMMA EventsStep == EventInv /\ [Next]_vars => EventInv'
  <1> SUFFICES ASSUME EventInv, [Next]_vars PROVE EventInv' OBVIOUS
  <1>1. CASE Execute
    BY <1>1, ExecBeginKeeps, ExecCommitKeeps, ExecRollbackKeeps, ExecStatementKeeps DEF Execute
  <1>2. ASSUME NEW c \in Caller, Enter(c) PROVE EventInv' BY <1>2, EnterKeeps
  <1>3. ASSUME NEW c \in Caller, Step(c) PROVE EventInv'
    BY <1>3, AcquiredKeeps, ProceedKeeps, LeavesKeep, FailuresKeep DEF Step
  <1>4. ASSUME NEW c \in Caller, CancelWaiting(c) \/ CancelOutside(c) \/ CancelInside(c)
        PROVE  EventInv'
    BY <1>4, CancelWaitingKeeps, CancelOutsideKeeps, FailuresKeep
  <1>5. CASE UNCHANGED vars BY <1>5, StutterKeeps
  <1> QED BY <1>1, <1>2, <1>3, <1>4, <1>5 DEF Next

----------------------------------------------------------------------------
\* Whatever is cancelled when, the statements left to the connection's thread have the shape
\* of the invariant, and what the connection sees belongs to at most one unfinished append.
THEOREM EventsHold == Spec => []EventInv
  BY EventsStart, EventsStep, PTL DEF Spec

\* write_transaction and append: the durable events are numbered 1, 2, 3 ... without a gap
\* or a repetition, and every caller's answer is true of them, for any number of callers and
\* any cancellations.
THEOREM AppendExact == Spec => []AppendIsExact
  BY EventsHold, EventInvSays, PTL
==============================================================================
