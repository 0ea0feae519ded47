----------------------------- MODULE Workspaces -----------------------------
(***************************************************************************)
(* The workspaces of a session: which nodes of the scene the agent owns    *)
(* (eee_agent/changesets/workspace_service.py over the transactions of     *)
(* eee_agent/changesets/repository.py), with the bootstrap change that     *)
(* writes the first nodes and must then record them                        *)
(* (eee_agent/modeling/bootstrap.py, changesets/service.py apply and       *)
(* recover_one, repository.py complete_bootstrap_apply).                   *)
(*                                                                         *)
(* An operation reads the database, awaits one read of the scene through   *)
(* the bridge and ends in one transaction: three steps, between which the  *)
(* user edits the scene, other operations commit and the process may die.  *)
(* A manifest's revision is the hash of its content, so two manifests have *)
(* the same revision when they are equal.  A node's userData is written    *)
(* in one piece when the node is created, so the workspace and the run of  *)
(* a node follow from its id unless the user has removed part of them.     *)
(***************************************************************************)
EXTENDS Naturals, FiniteSets

CONSTANTS
    Session,      \* the sessions
    Change,       \* their bootstrap changes; a change stands for its run too
    SessionOf,    \* [Change -> Session]
    WorkspaceOf,  \* [Change -> the workspace its nodes are tagged with]
    NodesOf,      \* [Change -> the ids of the nodes it creates]
    None,         \* no row, no expectation
    Call,         \* operations that may be under way together
    MaxEdits      \* bound: user edits, scene loads and restarts together

VARIABLES
    sessions,    \* rows of sessions
    workspaces,  \* rows of workspaces: [Workspace -> manifest or None]
    active,      \* session_workspace_state.active_workspace_id
    change,      \* changesets.state
    task,        \* where the change's apply task is
    scene,       \* Houdini: [epoch, nodes]
    receipts,    \* Houdini: the changes whose receipt the executor still has
    call,        \* the operations under way
    edits        \* bound: edits so far

vars == <<sessions, workspaces, active, change, task, scene, receipts, call, edits>>
rows == <<sessions, workspaces, active>>


Away == "away"
BoundEpoch == 1   \* the changes are bound to the scene that is open at first
NodeId == UNION {NodesOf[c] : c \in Change}
Path == NodeId \cup {Away}   \* a node is created at the path named like it
Workspace == {WorkspaceOf[c] : c \in Change}
Maker(id) == CHOOSE c \in Change : id \in NodesOf[c]
Node == [path : Path, id : NodeId, tags : {"none", "part", "whole"}, locked : BOOLEAN]
Idle == [op |-> "idle"]

\* WorkspaceManifest: nodes maps the ids owned to their paths
Manifest(s, c, epoch, nodes) ==
    [session |-> s, run |-> c, epoch |-> epoch,
     nodes |-> [id \in {n.id : n \in nodes} |-> (CHOOSE n \in nodes : n.id = id).path]]

TypeOK ==
    /\ sessions \subseteq Session
    /\ \A w \in Workspace : workspaces[w] = None \/ workspaces[w].session \in Session
    /\ active \in [Session -> Workspace \cup {None}]
    /\ change \in [Change -> {"Approved", "Applying", "Applied", "CriticalRecovery", "Gone"}]
    /\ task \in [Change -> {"none", "gated", "begun", "written", "recover"}]
    /\ receipts \subseteq Change
    /\ scene.nodes \subseteq Node /\ edits \in 0..MaxEdits
    /\ \A m, n \in scene.nodes : m.path = n.path => m = n

Init ==
    /\ sessions = Session
    /\ workspaces = [w \in Workspace |-> None]
    /\ active = [s \in Session |-> None]
    /\ change = [c \in Change |-> "Approved"]
    /\ task = [c \in Change |-> "none"]
    /\ scene = [epoch |-> BoundEpoch, nodes |-> {}]
    /\ receipts = {}
    /\ call = [k \in Call |-> Idle]
    /\ edits = 0

-----------------------------------------------------------------------------
(* Houdini: what the user does and what the inspector reads *)

Edit(nodes, epoch) ==
    /\ edits < MaxEdits /\ edits' = edits + 1
    /\ scene' = [epoch |-> epoch, nodes |-> nodes]
    /\ UNCHANGED <<rows, change, task, receipts, call>>

FreePath(p) == \A n \in scene.nodes : n.path # p
UserEdits ==
    \E n \in scene.nodes :
        LET rest == scene.nodes \ {n}
        IN \/ Edit(rest, scene.epoch)
           \/ \E p \in Path : FreePath(p) /\ Edit(rest \cup {[n EXCEPT !.path = p]}, scene.epoch)
           \/ \E t \in {"none", "part"} :
                 t # n.tags /\ Edit(rest \cup {[n EXCEPT !.tags = t]}, scene.epoch)
           \/ ~n.locked /\ Edit(rest \cup {[n EXCEPT !.locked = TRUE]}, scene.epoch)
\* Copy and paste copies the userData with the node
UserCopies ==
    \E n \in scene.nodes :
        FreePath(Away) /\ Edit(scene.nodes \cup {[n EXCEPT !.path = Away]}, scene.epoch)
\* Another scene, or this one saved and loaded again
LoadScene == \E kept \in {{}, scene.nodes} : Edit(kept, scene.epoch + 1)

\* _require_unique_ids over the whole scene
UniqueIds(ids) ==
    \A m, n \in {x \in scene.nodes : x.tags # "none" /\ x.id \in ids} : m.id = n.id => m = n

\* inspect: does it answer (the expected epoch is the live one, no id occurs twice)
Answers(epoch, ids) == epoch \in {None, scene.epoch} /\ UniqueIds(ids)
\* The observations of a manifest's nodes
Found(ids) == {n \in scene.nodes : n.tags # "none" /\ n.id \in ids}

\* _complete_selection
CompleteSelection(sel, allowLocked) ==
    /\ sel # {} /\ \A n \in sel : n.tags = "whole"
    /\ \A m, n \in sel : WorkspaceOf[Maker(m.id)] = WorkspaceOf[Maker(n.id)]
                         /\ Maker(m.id) = Maker(n.id)
    /\ allowLocked \/ \A n \in sel : ~n.locked

\* _live_health: HEALTHY
LiveHealth(w, m, found) ==
    /\ \A n \in found : /\ n.tags = "whole"
                        /\ WorkspaceOf[Maker(n.id)] = w /\ Maker(n.id) = m.run
    /\ {n.id : n \in found} = DOMAIN m.nodes
    /\ Manifest(m.session, m.run, scene.epoch, found) = m

-----------------------------------------------------------------------------
(* The service's operations, up to the await of the provider *)

Start(k, request) ==
    /\ call[k] = Idle
    /\ call' = [call EXCEPT ![k] = request]
    /\ UNCHANGED <<rows, change, task, scene, receipts, edits>>

\* create_committed: list_workspace_state wants the session's row
Create(k) == \E s \in sessions, e \in {None, scene.epoch} :
    Start(k, [op |-> "create", session |-> s, epoch |-> e])
\* bind_committed: the row, which must be the session's and have the revision expected
Bind(k) == \E w \in Workspace, e \in {None, scene.epoch} :
    /\ workspaces[w] # None
    /\ Start(k, [op |-> "bind", ws |-> w, stored |-> workspaces[w], epoch |-> e])
\* switch_committed: the manifest,
Switch(k) == \E w \in Workspace, e \in {None, scene.epoch} :
    /\ workspaces[w] # None
    /\ Start(k, [op |-> "switch", ws |-> w, stored |-> workspaces[w], epoch |-> e,
                 expected |-> None])
\* and in a second transaction the active workspace the client expects
SwitchActive(k) ==
    /\ call[k].op = "switch" /\ call[k].stored.session \in sessions
    /\ call' = [call EXCEPT ![k] =
                  [@ EXCEPT !.op = "switch2", !.expected = active[call[k].stored.session]]]
    /\ UNCHANGED <<rows, change, task, scene, receipts, edits>>

(* The answer of the provider.  A refusal of the scene, of the bridge or of the
   checks on the answer ends the operation without a write. *)

Answered(k, observed) ==
    /\ call' = [call EXCEPT ![k] = observed]
    /\ UNCHANGED <<rows, change, task, scene, receipts, edits>>
Fails(k) == Answered(k, Idle)

InspectCreate(k) ==
    /\ call[k].op = "create"
    /\ \E sel \in SUBSET scene.nodes :
         LET ok == /\ Answers(call[k].epoch, {n.id : n \in {x \in sel : x.tags # "none"}})
                   /\ CompleteSelection(sel, FALSE)
             maker == Maker((CHOOSE n \in sel : TRUE).id)
         IN IF ok
            THEN Answered(k, [op |-> "commitCreate", ws |-> WorkspaceOf[maker],
                              new |-> Manifest(call[k].session, maker, scene.epoch, sel)])
            ELSE Fails(k)

InspectBind(k) ==
    /\ call[k].op = "bind"
    /\ \E sel \in SUBSET scene.nodes :
         LET m == call[k].stored
             ok == /\ Answers(call[k].epoch, {n.id : n \in {x \in sel : x.tags # "none"}})
                   /\ CompleteSelection(sel, TRUE)
                   /\ {n.id : n \in sel} = DOMAIN m.nodes
                   /\ \A n \in sel : WorkspaceOf[Maker(n.id)] = call[k].ws
                                     /\ Maker(n.id) = m.run
         IN IF ok
            THEN Answered(k, [op |-> "commitBind", ws |-> call[k].ws, stored |-> m,
                              new |-> Manifest(m.session, m.run, scene.epoch, sel)])
            ELSE Fails(k)

InspectSwitch(k) ==
    /\ call[k].op = "switch2"
    /\ LET m == call[k].stored  ids == DOMAIN m.nodes
       IN IF Answers(call[k].epoch, ids) /\ LiveHealth(call[k].ws, m, Found(ids))
          THEN Answered(k, [call[k] EXCEPT !.op = "commitSwitch"])
          ELSE Fails(k)

\* WorkspaceInspectionUnavailable; bridge.stale_scene
Unavailable(k) == call[k].op \in {"create", "bind", "switch2"} /\ Fails(k)

(* The transactions *)

Commit(k, op) == call[k].op = op /\ call' = [call EXCEPT ![k] = Idle]

\* create_workspace_lifecycle: the run must be of the session, and a session that
\* has a workspace gets no other
CreateWorkspaceLifecycle(k) ==
    /\ Commit(k, "commitCreate")
    /\ LET m == call[k].new  w == call[k].ws
           ok == /\ m.session \in sessions /\ SessionOf[m.run] = m.session
                 /\ workspaces[w] = None /\ active[m.session] = None
       IN /\ workspaces' = IF ok THEN [workspaces EXCEPT ![w] = m] ELSE workspaces
          /\ active' = IF ok THEN [active EXCEPT ![m.session] = w] ELSE active
    /\ UNCHANGED <<sessions, change, task, scene, receipts, edits>>

\* _same_bind_identity and the revision expected, then the update
BindWorkspace(k) ==
    /\ Commit(k, "commitBind")
    /\ LET m == call[k].new  w == call[k].ws
           ok == /\ workspaces[w] # None /\ workspaces[w] = call[k].stored
                 /\ workspaces[w].run = m.run /\ DOMAIN workspaces[w].nodes = DOMAIN m.nodes
       IN workspaces' = IF ok THEN [workspaces EXCEPT ![w] = m] ELSE workspaces
    /\ UNCHANGED <<sessions, active, change, task, scene, receipts, edits>>

\* switch_workspace: the revision inspected and the active workspace expected
SwitchWorkspace(k) ==
    /\ Commit(k, "commitSwitch")
    /\ LET m == call[k].stored  w == call[k].ws
           ok == /\ workspaces[w] = m /\ m.session \in sessions
                 /\ active[m.session] = call[k].expected
       IN active' = IF ok THEN [active EXCEPT ![m.session] = w] ELSE active
    /\ UNCHANGED <<sessions, workspaces, change, task, scene, receipts, edits>>

-----------------------------------------------------------------------------
(* The bootstrap change: gate, begin_apply, the write, and its record *)

Step(c, from, to) ==
    /\ task[c] = from /\ change[c] # "Gone"
    /\ task' = [task EXCEPT ![c] = to]

\* _ensure_write_available: a change that is Applying or critical blocks the others
Gate(c) ==
    /\ change[c] = "Approved" /\ Step(c, "none", "gated")
    /\ \A d \in Change \ {c} : change[d] \notin {"Applying", "CriticalRecovery"}
    /\ UNCHANGED <<rows, change, scene, receipts, call, edits>>
\* An apply that finds the change Applying recovers it first, and then passes the gate
\* as if anew, unless there is a receipt to return or the recovery stays pending
Rejoin(c) ==
    /\ change[c] = "Applying" /\ Step(c, "none", "recover")
    /\ UNCHANGED <<rows, change, scene, receipts, call, edits>>
\* begin_apply, in a transaction of its own
BeginApply(c) ==
    /\ Step(c, "gated", "begun")
    /\ change' = [change EXCEPT ![c] = "Applying"]
    /\ UNCHANGED <<rows, scene, receipts, call, edits>>

\* _verify_create_target: neither the path nor the stable id of a node is taken
Absent(c) ==
    \A n \in scene.nodes : /\ n.path \notin NodesOf[c]
                           /\ n.tags # "none" => n.id \notin NodesOf[c]
\* apply in Houdini: the preflight again, and all the nodes are created
Write(c) ==
    /\ Step(c, "begun", "written") /\ scene.epoch = BoundEpoch /\ Absent(c)
    /\ scene' = [scene EXCEPT !.nodes = @ \cup
          {[path |-> id, id |-> id, tags |-> "whole", locked |-> FALSE] : id \in NodesOf[c]}]
    /\ receipts' = receipts \cup {c}
    /\ UNCHANGED <<rows, change, call, edits>>
\* The call fails, before or after the write: recover_one
ApplyFails(c) ==
    /\ \/ Step(c, "begun", "recover") \/ Step(c, "written", "recover")
    /\ UNCHANGED <<rows, change, scene, receipts, call, edits>>

\* derive_bootstrap_manifest: what the typed operations of the change create
DeriveManifest(c) ==
    [session |-> SessionOf[c], run |-> c, epoch |-> BoundEpoch, nodes |-> [id \in NodesOf[c] |-> id]]

CompleteWithoutOwner(c, from) ==   \* mutant: a rival workspace only loses the record
    /\ Step(c, from, "none")
    /\ LET w == WorkspaceOf[c]  s == SessionOf[c]
           ok == workspaces[w] = None /\ active[s] = None
       IN /\ change' = [change EXCEPT ![c] = "Applied"]
          /\ workspaces' = IF ok THEN [workspaces EXCEPT ![w] = DeriveManifest(c)]
                                 ELSE workspaces
          /\ active' = IF ok THEN [active EXCEPT ![s] = w] ELSE active
    /\ UNCHANGED <<sessions, scene, receipts, call, edits>>
\* complete_bootstrap_apply: the receipt, the state, the manifest and the active
\* workspace in one transaction; a session that has a workspace already refuses, and
\* the change stays Applying
CompleteBootstrapApply(c, from) ==
    /\ Step(c, from, "none")
    /\ LET w == WorkspaceOf[c]  s == SessionOf[c]
           ok == workspaces[w] = None /\ active[s] = None
       IN /\ change' = IF ok THEN [change EXCEPT ![c] = "Applied"] ELSE change
          /\ workspaces' = IF ok THEN [workspaces EXCEPT ![w] = DeriveManifest(c)]
                                 ELSE workspaces
          /\ active' = IF ok THEN [active EXCEPT ![s] = w] ELSE active
    /\ UNCHANGED <<sessions, scene, receipts, call, edits>>

Complete(c) == CompleteBootstrapApply(c, "written")

\* recover_one: the receipt, else the preflight, which answers only where it finds the
\* scene without the nodes
Recover(c) ==
    /\ task[c] = "recover" /\ change[c] = "Applying"
    /\ LET clear == scene.epoch = BoundEpoch /\ Absent(c)
           settle(outcome) == /\ Step(c, "recover", "none")
                              /\ change' = [change EXCEPT ![c] = outcome]
                              /\ UNCHANGED <<rows, scene, receipts, call, edits>>
       IN \/ c \in receipts /\ CompleteBootstrapApply(c, "recover")
          \/ c \notin receipts /\ clear /\ settle("Approved")
          \/ c \notin receipts /\ ~clear /\ settle("CriticalRecovery")
\* The bridge is not reachable: the recovery stays pending
RecoverPending(c) ==
    /\ change[c] = "Applying" /\ Step(c, "recover", "none")
    /\ UNCHANGED <<rows, change, scene, receipts, call, edits>>

-----------------------------------------------------------------------------
(* Faults and the session's end *)

\* The Runtime dies and starts again: recover_applying visits every Applying change
Restart ==
    /\ edits < MaxEdits /\ edits' = edits + 1
    /\ task' = [c \in Change |-> IF change[c] = "Applying" THEN "recover" ELSE "none"]
    /\ call' = [k \in Call |-> Idle]
    /\ UNCHANGED <<rows, change, scene, receipts>>
\* The receipt leaves the executor's cache
Forget ==
    /\ edits < MaxEdits /\ edits' = edits + 1 /\ receipts # {}
    /\ \E c \in receipts : receipts' = receipts \ {c}
    /\ UNCHANGED <<rows, change, task, scene, call>>
\* delete_application_records cascades to workspaces, their state and the changesets
DeleteSession(s) ==
    /\ s \in sessions /\ edits < MaxEdits /\ edits' = edits + 1
    /\ sessions' = sessions \ {s}
    /\ workspaces' = [w \in Workspace |->
          IF workspaces[w] # None /\ workspaces[w].session = s THEN None ELSE workspaces[w]]
    /\ active' = [active EXCEPT ![s] = None]
    /\ change' = [c \in Change |-> IF SessionOf[c] = s THEN "Gone" ELSE change[c]]
    /\ task' = [c \in Change |-> IF SessionOf[c] = s THEN "none" ELSE task[c]]
    /\ UNCHANGED <<scene, receipts, call>>

Operation(k) ==
    \/ Create(k) \/ Bind(k) \/ Switch(k) \/ SwitchActive(k)
    \/ InspectCreate(k) \/ InspectBind(k) \/ InspectSwitch(k) \/ Unavailable(k)
    \/ CreateWorkspaceLifecycle(k) \/ BindWorkspace(k) \/ SwitchWorkspace(k)
Apply(c) ==
    \/ Gate(c) \/ Rejoin(c) \/ BeginApply(c) \/ Write(c) \/ ApplyFails(c) \/ Complete(c)
    \/ Recover(c) \/ RecoverPending(c)
Next ==
    \/ \E k \in Call : Operation(k)
    \/ \E c \in Change : Apply(c)
    \/ UserEdits \/ UserCopies \/ LoadScene
    \/ Restart \/ Forget \/ \E s \in Session : DeleteSession(s)

Spec == Init /\ [][Next]_vars

-----------------------------------------------------------------------------
(* What must hold *)

\* Every workspace on record was made by a run of its own session, holds nodes of
\* that run only, and is the one its session works in; a session whose row names an
\* active workspace has that workspace.  list_workspace_state answers record_corrupt
\* to the session for ever when this fails.
OneOwner ==
    /\ \A w \in Workspace : workspaces[w] # None =>
         LET m == workspaces[w]
         IN /\ SessionOf[m.run] = m.session /\ active[m.session] = w
            /\ WorkspaceOf[m.run] = w /\ DOMAIN m.nodes \subseteq NodesOf[m.run]
    /\ \A s \in Session : active[s] # None =>
         workspaces[active[s]] # None /\ workspaces[active[s]].session = s

\* A bootstrap change that is recorded Applied has its workspace on record with
\* exactly the nodes it created, whatever binds, restarts and other creates happened;
\* nodes that are in the scene without it are those of a change that is not settled.
BootstrapAllOrNothing ==
    \A c \in Change : change[c] = "Applied" =>
        /\ workspaces[WorkspaceOf[c]] # None
        /\ DOMAIN workspaces[WorkspaceOf[c]].nodes = NodesOf[c]

====
