------------------------------ MODULE Compiler ------------------------------
(***************************************************************************)
(* The modelling compiler (eee_agent/modeling): a declarative spec of      *)
(* components and nodes becomes a typed ChangeSet (compiler.py), which the *)
(* proposal coordinator validates and persists (proposal.py), the executor *)
(* writes, and which becomes the session's Workspace when it is the first  *)
(* (bootstrap.py).  A run's modelling context (runtime/service.py) is      *)
(* frozen when the run starts: what it proposes later may be compiled from *)
(* a manifest that has moved on.                                           *)
(*                                                                         *)
(* Data abstraction: a node has one parameter and one input; a hash is the *)
(* text it digests; a spec's fields other than its graph are its key.      *)
(***************************************************************************)
EXTENDS ChangeContracts
LOCAL INSTANCE Relation

CONSTANTS
    Run, SessionOf,   \* runs, and the session of each
    Specs,            \* the sets of specs a model may send in a behaviour
    Catalog,          \* node type -> [parents, inputs, default]
    NodeBudget,       \* QualityProfile.max_compiled_nodes
    Epoch,            \* the scene epoch (the scene is not replaced here)
    Repeats           \* bound: proposals over a behaviour beyond one of each spec

VARIABLES
    spec,      \* the specs the model sends in this behaviour
    context,   \* run -> its frozen ModelingToolContext
    manifest,  \* session -> its active Workspace
    scene,     \* the nodes of the scene
    proposed,  \* ChangeSets that await their approval
    tool,      \* the last answer of propose_modeling
    outcome,   \* the last result of an Apply
    count      \* bound: proposals so far

vars == <<spec, context, manifest, scene, proposed, tool, outcome, count>>

-----------------------------------------------------------------------------
(* ProceduralSpec: components with dependencies, nodes in declaration order.  *)
(* A node's parent and source are indices of nodes, 0 when absent.            *)

Components(s) == DOMAIN s.deps
Node(s, i) == s.nodes[i]
Nodes(s) == DOMAIN s.nodes
DependsOn(s, i) == {Node(s, i).parent, Node(s, i).source} \ {0}

Known(s) == \A c \in Components(s) : s.deps[c] \subseteq Components(s)
ComponentClosure(s) ==
    TransitiveClosure([c, d \in Components(s) |-> d \in s.deps[c]], Components(s))

ValidSpec(s) ==
    /\ s.nodes # <<>>
    /\ \A i, j \in Nodes(s) : Node(s, i).name = Node(s, j).name => i = j
    /\ Known(s)
    /\ LET reaches == ComponentClosure(s)
       IN /\ \A c \in Components(s) : ~reaches[c, c]
          /\ \A i \in Nodes(s) : \A d \in DependsOn(s, i) :
                /\ d \in Nodes(s)
                /\ \/ Node(s, d).comp = Node(s, i).comp
                   \/ reaches[Node(s, i).comp, Node(s, d).comp]

-----------------------------------------------------------------------------
(* _topological_nodes, _validate_catalog *)

\* Pass by pass the nodes whose dependencies are out, in declaration order; a
\* cycle leaves nodes behind
TopologicalNodes(s) ==
    LET pass[k \in 0..Len(s.nodes)] ==
            IF k = 0 THEN <<>>
            ELSE LET out == ToSet(pass[k - 1])
                     ready == {i \in Nodes(s) \ out : DependsOn(s, i) \subseteq out}
                 IN pass[k - 1] \o SetToSortSeq(ready, <)
    IN pass[Len(s.nodes)]

CatalogAdmits(s) ==
    \A i \in Nodes(s) : LET n == Node(s, i) IN
        /\ n.type \in DOMAIN Catalog
        /\ n.parm # None => /\ Catalog[n.type].default # None
                            /\ n.parm.shape = Catalog[n.type].default.shape
        /\ n.parent # 0 => Catalog[Node(s, n.parent).type].parents
        /\ n.source # 0 => Catalog[n.type].inputs > 0

-----------------------------------------------------------------------------
(* compile_procedural_spec and compile_bootstrap_procedural_spec *)

\* The references of the spec's nodes, by index: the parent's path and the node's name
NodeRefs(s, root, ws, seed) ==
    LET path[i \in Nodes(s)] ==
            (IF Node(s, i).parent = 0 THEN root.path ELSE path[Node(s, i).parent])
            \o "/" \o Node(s, i).name
    IN [i \in Nodes(s) |-> Ref(seed \o "." \o Node(s, i).name, path[i], ws)]

ParentRef(s, refs, root, i) == IF Node(s, i).parent = 0 THEN root ELSE refs[Node(s, i).parent]

OperationsBlind(s, order, refs, root, ws) ==   \* mutant: no expected old value
    [k \in DOMAIN order |-> LET i == order[k] IN
        Create(refs[i].id, refs[i].path, ws, ParentRef(s, refs, root, i))]
    \o LET set == SelectSeq(order, LAMBDA i : Node(s, i).parm # None)
       IN [k \in DOMAIN set |-> SetParm(refs[set[k]], None, Node(s, set[k]).parm)]
    \o LET wired == SelectSeq(order, LAMBDA i : Node(s, i).source # 0)
       IN [k \in DOMAIN wired |-> Connect(refs[wired[k]], refs[Node(s, wired[k]).source], None)]
\* Every create, then every parameter (the catalog's default is the expected old
\* value), then every wire
Operations(s, order, refs, root, ws) ==
    [k \in DOMAIN order |-> LET i == order[k] IN
        Create(refs[i].id, refs[i].path, ws, ParentRef(s, refs, root, i))]
    \o LET set == SelectSeq(order, LAMBDA i : Node(s, i).parm # None)
       IN [k \in DOMAIN set |-> SetParm(refs[set[k]], Catalog[Node(s, set[k]).type].default,
                                        Node(s, set[k]).parm)]
    \o LET wired == SelectSeq(order, LAMBDA i : Node(s, i).source # 0)
       IN [k \in DOMAIN wired |-> Connect(refs[wired[k]], refs[Node(s, wired[k]).source], None)]

Postconditions(s, refs) ==
    {NodeIdentityEquals(refs[i]) : i \in Nodes(s)}
    \cup {ParmValueEquals(refs[i], Node(s, i).parm) : i \in {j \in Nodes(s) : Node(s, j).parm # None}}
    \cup {WireInputEquals(refs[i], refs[Node(s, i).source]) :
             i \in {j \in Nodes(s) : Node(s, j).source # 0}}

Absent(refs) == {NodeAbsent(r.path, r.id) : r \in refs}

Risk(ops, affected, external) ==
    [external |-> external, wiring |-> \E op \in ToSet(ops) : Is(op, "connect"),
     backup |-> FALSE, count |-> Len(ops), effects |-> Effects(ops),
     paths |-> {r.path : r \in affected}]

RootOf(ws) == CHOOSE r \in ws.roots : TRUE
\* Into the Workspace: everything under its root
InWorkspaceChange(s, ws) ==
    LET root == RootOf(ws)
        seed == s.key \o "@" \o root.id
        refs == NodeRefs(s, root, ws.id, seed)
        ops == Operations(s, TopologicalNodes(s), refs, root, ws.id)
        made == {refs[i] : i \in Nodes(s)}
    IN [ops |-> ops, epoch |-> Epoch, wsid |-> ws.id, mode |-> "OwnedWorkspace", scope |-> {},
        affected |-> made, reads |-> {},
        pre |-> {SceneBindingEquals(Epoch), WorkspaceRevisionEquals(ws.id, ws.rev),
                 NodeIdentityEquals(root)} \cup Absent(made),
        post |-> Postconditions(s, refs), checkpoint |-> {root},
        risk |-> Risk(ops, made, FALSE)]

Scene == Ref(None, "/obj", None)
BootstrapSeed(s, ws) == s.key \o "@" \o ws
BootstrapRoot(s, ws) == Ref(BootstrapSeed(s, ws) \o ".root", "/obj/" \o ws, ws)
BootstrapRefs(s, ws) == NodeRefs(s, BootstrapRoot(s, ws), ws, BootstrapSeed(s, ws))
\* The first graph of a session: a root under /obj, and everything under it
BootstrapChange(s, ws) ==
    LET root == BootstrapRoot(s, ws)
        refs == BootstrapRefs(s, ws)
        ops == <<Create(root.id, root.path, ws, Scene)>>
               \o Operations(s, TopologicalNodes(s), refs, root, ws)
        made == {root} \cup {refs[i] : i \in Nodes(s)}
    IN [ops |-> ops, epoch |-> Epoch, wsid |-> None, mode |-> "ProjectChange", scope |-> {},
        affected |-> made, reads |-> {Scene},
        pre |-> {SceneBindingEquals(Epoch), NodeIdentityEquals(Scene)} \cup Absent(made),
        post |-> {NodeIdentityEquals(root)} \cup Postconditions(s, refs), checkpoint |-> {Scene},
        risk |-> Risk(ops, made, TRUE)]

\* What the graph validator asks before a proposal is persisted (validate_compilation)
GraphCovered(cs) ==
    \A k \in DOMAIN cs.ops : Is(cs.ops[k], "create") =>
        LET parent == cs.ops[k].parent IN
        \/ parent.id = None
        \/ parent.id \in {r.id : r \in cs.checkpoint}
        \/ \E j \in 1..k - 1 : Is(cs.ops[j], "create") /\ cs.ops[j].id = parent.id

ChangeOf(s, ctx) ==
    IF ctx.ws = None THEN BootstrapChange(s, ctx.boot) ELSE InWorkspaceChange(s, ctx.ws)
\* propose: the first check that fails names the refusal; without a context the tool
\* fails closed
Compile(s, ctx) ==
    LET first == ctx.ws = None
        cs == ChangeOf(s, ctx)
    IN CASE ~ctx.available -> [code |-> "unavailable", cs |-> None]
         [] ~ValidSpec(s) -> [code |-> "input_invalid", cs |-> None]
         [] Len(TopologicalNodes(s)) < Len(s.nodes) -> [code |-> "cycle", cs |-> None]
         [] Len(s.nodes) + (IF first THEN 1 ELSE 0) > NodeBudget -> [code |-> "budget", cs |-> None]
         [] ~CatalogAdmits(s) -> [code |-> "catalog_denied", cs |-> None]
         [] Len(cs.ops) > Limits.operations -> [code |-> "operation_budget", cs |-> None]
         [] \/ Cardinality(cs.pre) > Limits.conditions
            \/ Cardinality(cs.post) > Limits.conditions -> [code |-> "condition_budget", cs |-> None]
         [] ~ValidChangeSet(cs) -> [code |-> "changeset_invalid", cs |-> None]
         [] Denials(cs, ctx.ws, {}) # {} -> [code |-> "policy_denied", cs |-> None]
         [] ~GraphCovered(cs) -> [code |-> "graph_invalid", cs |-> None]
         [] OTHER -> [code |-> "ok", cs |-> cs]

-----------------------------------------------------------------------------
(* What the executor makes of it, and the Workspace it leaves *)

\* Houdini gives a new node's parameter the default the catalog records
Untouched == Catalog[CHOOSE t \in DOMAIN Catalog : Catalog[t].default # None].default
At(sc, p) == {n \in sc : n.path = p}
ParentPath(sc, id) == (CHOOSE n \in sc : n.id = id).parent
\* One operation on the scene; None when the HOM refuses it: a wire stays inside
\* one network
Write(sc, op) ==
    IF sc = None THEN None
    ELSE CASE Is(op, "create") ->
                IF (op.parent.path # "/obj" /\ At(sc, op.parent.path) = {}) \/ At(sc, op.path) # {}
                THEN None
                ELSE sc \cup {[id |-> op.id, path |-> op.path, ws |-> op.ws,
                               parent |-> op.parent.path, parm |-> Untouched, wire |-> None]}
           [] Is(op, "set") ->
                LET old == {n \in sc : n.id = op.target.id /\ n.parm = op.old}
                IN IF old = {} THEN None
                   ELSE {n \in sc : n.id # op.target.id} \cup {[n EXCEPT !.parm = op.new] : n \in old}
           [] Is(op, "connect") ->
                LET old == {n \in sc : n.id = op.target.id}
                IN IF old = {} \/ {n \in sc : n.id = op.source.id} = {}
                      \/ ParentPath(sc, op.source.id) # ParentPath(sc, op.target.id)
                   THEN None
                   ELSE {n \in sc : n.id # op.target.id} \cup {[n EXCEPT !.wire = op.source.id] : n \in old}
After(cs, sc) == FoldLeft(Write, sc, cs.ops)

\* The preconditions, checked in the scene and against the stored Workspace
Fresh(cs, ws) ==
    \A c \in cs.pre :
        CASE Is(c, "revision") -> ws # None /\ ws.id = c.ws /\ ws.rev = c.rev
          [] Is(c, "identity") -> c.node = Scene \/ \E n \in scene : n.id = c.node.id /\ n.path = c.node.path
          [] Is(c, "absent")   -> \A n \in scene : n.path # c.path /\ n.id # c.id
          [] OTHER             -> TRUE
Holds(c, sc) ==
    CASE Is(c, "identity") -> \E n \in sc : n.id = c.node.id /\ n.path = c.node.path
      [] Is(c, "parm")     -> \E n \in sc : n.id = c.target.id /\ n.parm = c.value
      [] Is(c, "wire")     -> \E n \in sc : n.id = c.target.id /\ n.wire = c.source.id
      [] OTHER             -> TRUE

\* derive_bootstrap_manifest: one owned root first, then nodes under earlier ones
DerivesManifest(cs) ==
    /\ cs.wsid = None /\ cs.mode = "ProjectChange"
    /\ Is(cs.ops[1], "create") /\ cs.ops[1].parent = Scene
    /\ \A k \in 2..Len(cs.ops) : Is(cs.ops[k], "create") =>
          /\ cs.ops[k].ws = cs.ops[1].ws
          /\ \E j \in 1..k - 1 : Is(cs.ops[j], "create") /\ CreatedRef(cs.ops[j]) = cs.ops[k].parent
BootstrapManifest(cs) ==
    [id |-> cs.ops[1].ws, rev |-> 1, epoch |-> Epoch,
     nodes |-> CreatedRefs(cs.ops), roots |-> {CreatedRef(cs.ops[1])}]

-----------------------------------------------------------------------------
Init ==
    /\ spec \in Specs
    /\ context = [r \in Run |-> None]
    /\ manifest = [t \in {SessionOf[r] : r \in Run} |-> None]
    /\ scene = {} /\ proposed = {} /\ tool = None /\ outcome = None /\ count = 0

\* The run starts: the Workspace of its session, or a fresh id for the first one; none
\* when the catalog, the scene or the inspection fails, the Workspace is not healthy or
\* is another session's or scene's
BuildModelingContext(r) ==
    /\ context[r] = None
    /\ \E available \in BOOLEAN :
          context' = [context EXCEPT ![r] =
              [available |-> available, ws |-> IF available THEN manifest[SessionOf[r]] ELSE None,
               boot |-> "ws_" \o r]]
    /\ UNCHANGED <<spec, manifest, scene, proposed, tool, outcome, count>>

Propose(r) ==
    /\ context[r] # None /\ count < Cardinality(spec) + Repeats
    /\ \E s \in spec : LET answer == Compile(s, context[r]) IN
         /\ tool' = [run |-> r, spec |-> s, code |-> answer.code]
         /\ proposed' = IF answer.cs = None THEN proposed
                        ELSE proposed \cup {[run |-> r, spec |-> s, n |-> count, cs |-> answer.cs]}
    /\ count' = count + 1
    /\ UNCHANGED <<spec, context, manifest, scene, outcome>>

\* complete_apply records the receipt; only the first change records nodes, and the
\* manifest of a Workspace does not grow afterwards
Apply(p) ==
    /\ p \in proposed /\ proposed' = proposed \ {p}
    /\ LET session == SessionOf[p.run]
           ws == manifest[session]
           after == After(p.cs, scene)
           said(code) == outcome' = [code |-> code, p |-> p, before |-> ws]
       IN CASE ~Fresh(p.cs, ws) -> said("refused") /\ UNCHANGED <<scene, manifest>>
            [] Fresh(p.cs, ws) /\ after = None -> said("rolled_back") /\ UNCHANGED <<scene, manifest>>
            [] OTHER ->
                 /\ scene' = after
                 /\ CASE p.cs.wsid # None -> said("applied") /\ UNCHANGED manifest
                      [] p.cs.wsid = None /\ ws = None /\ DerivesManifest(p.cs) ->
                           /\ said("applied")
                           /\ manifest' = [manifest EXCEPT ![session] = BootstrapManifest(p.cs)]
                      [] OTHER -> said("not_finalized") /\ UNCHANGED manifest
    /\ UNCHANGED <<spec, context, tool, count>>

Next ==
    \/ \E r \in Run : BuildModelingContext(r) \/ Propose(r)
    \/ \E p \in proposed : Apply(p)

Spec == Init /\ [][Next]_vars

-----------------------------------------------------------------------------
(* What must hold *)

\* The typed contract, the policy engine and the graph validator are a second line of
\* defence behind the compiler (compiler.py, validation.py): a spec that passes the
\* compiler's own checks is never refused by them, whatever order, parent, wire and
\* dependency it asks for, but for the size of its payload, which the compiler does not
\* foresee (_MAX_CHANGESET_BYTES).
DefencesAgree ==
    tool # None =>
        /\ tool.code \notin {"policy_denied", "graph_invalid"}
        /\ tool.code = "changeset_invalid" =>
              PayloadSize(ChangeOf(tool.spec, context[tool.run])) > Limits.payload

\* The executor in the Houdini process derives the mandatory conditions and the
\* checkpoint from the operations and refuses a change that does not declare them
\* (changeset_executor.py): the compiler, in the other process, declares every one.
CompiledIsCovered ==
    \A p \in proposed :
        LET ws == context[p.run].ws IN
        /\ MandatoryPreconditions(p.cs.ops, Epoch, ws) \subseteq p.cs.pre
        /\ MandatoryPostconditions(p.cs.ops) \subseteq p.cs.post
        /\ MandatoryCheckpoint(p.cs.ops) \subseteq p.cs.checkpoint

\* A compiled change whose preconditions hold runs to its end and its postconditions
\* hold in the scene it leaves, unless the spec wires nodes of two networks, which
\* only the HOM refuses.
BuiltAsAsked ==
    outcome # None =>
        LET asked == outcome.p.spec IN
        /\ outcome.code = "applied" => \A c \in outcome.p.cs.post : Holds(c, scene)
        /\ outcome.code = "rolled_back" =>
              \E i \in Nodes(asked) : LET n == Node(asked, i) IN
                  n.source # 0 /\ Node(asked, n.source).parent # n.parent

\* An approved change is refused, or written and not finalized, only because the
\* session got its Workspace after the change was compiled, or because nodes of its
\* own Workspace already have its names (the compiler compares new paths with one
\* another only): what two sessions build of one spec in one scene never collides.
RefusedOnlyWhenStale ==
    (outcome # None /\ outcome.code \in {"refused", "not_finalized"}) =>
        LET ws == context[outcome.p.run].ws IN
        \/ outcome.before # ws
        \/ ws # None /\ \E n \in scene, r \in outcome.p.cs.affected : n.path = r.path /\ n.ws = ws.id
=============================================================================
