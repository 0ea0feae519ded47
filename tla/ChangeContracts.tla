--------------------------- MODULE ChangeContracts ---------------------------
(***************************************************************************)
(* The vocabulary of a ChangeSet (eee_agent/changesets/contracts.py), the  *)
(* facts the executor derives from its operations, and the policy engine   *)
(* (policy.py).  All of it is pure: a change is checked when it is built,  *)
(* when it is proposed and again right before it is written.               *)
(*                                                                         *)
(* Data abstraction: a node has one parameter and one input; the type,     *)
(* capability, role, schema version and run of origin of a node are one    *)
(* fact, expected or not; a created node's path stands for parent + name.  *)
(***************************************************************************)
EXTENDS Naturals, Sequences, FiniteSets, SequencesExt

CONSTANTS
    None,        \* the absent id, workspace, source, manifest, node
    Limits       \* how much a change may hold: [operations, conditions, refs, payload]

Ref(i, p, w) == [id |-> i, path |-> p, ws |-> w]

Create(i, p, w, parent) == [kind |-> "create", id |-> i, path |-> p, ws |-> w, parent |-> parent]
SetParm(t, old, new) == [kind |-> "set", target |-> t, old |-> old, new |-> new]
Connect(t, src, old) == [kind |-> "connect", target |-> t, source |-> src, old |-> old]

Is(op, kind) == op.kind = kind
CreatedRef(op) == Ref(op.id, op.path, op.ws)
CreateOps(ops) == {op \in ToSet(ops) : Is(op, "create")}
CreatedRefs(ops) == {CreatedRef(op) : op \in CreateOps(ops)}
CreatedIds(ops) == {op.id : op \in CreateOps(ops)}

(* Identity is the stable id when there is one, otherwise the path *)
Identity(ref) == IF ref.id # None THEN ref.id ELSE ref.path

OpRefs(op) ==
    CASE Is(op, "create")  -> {op.parent}
      [] Is(op, "set")     -> {op.target}
      [] Is(op, "connect") -> {op.target, op.source} \cup ({op.old} \ {None})

-----------------------------------------------------------------------------
(* Conditions *)

SceneBindingEquals(e) == [kind |-> "binding", epoch |-> e]
WorkspaceRevisionEquals(w, rev) == [kind |-> "revision", ws |-> w, rev |-> rev]
NodeIdentityEquals(ref) == [kind |-> "identity", node |-> ref]
ParmValueEquals(t, v) == [kind |-> "parm", target |-> t, value |-> v]
WireInputEquals(t, src) == [kind |-> "wire", target |-> t, source |-> src]
NodeAbsent(p, i) == [kind |-> "absent", path |-> p, id |-> i]

CondRefs(c) ==
    CASE Is(c, "identity") -> {c.node}
      [] Is(c, "parm")     -> {c.target}
      [] Is(c, "wire")     -> {c.target} \cup ({c.source} \ {None})
      [] OTHER             -> {}

ConditionKey(c) ==
    CASE Is(c, "binding")  -> <<"binding">>
      [] Is(c, "revision") -> <<"revision", c.ws>>
      [] Is(c, "identity") -> <<"identity", Identity(c.node)>>
      [] Is(c, "parm")     -> <<"parm", Identity(c.target)>>
      [] Is(c, "wire")     -> <<"wire", Identity(c.target)>>
      [] Is(c, "absent")   -> <<"absent", c.path, c.id>>

(* No condition contradicts another, and no path is both absent and present *)
ConditionsConsistent(conds) ==
    /\ \A c, d \in conds : ConditionKey(c) = ConditionKey(d) => c = d
    /\ \A c, d \in conds : (Is(c, "absent") /\ Is(d, "identity")) => c.path # d.node.path

(* A slot the operations write more than once: only the first write has a  *)
(* value that can be known before the transaction, only the last one a     *)
(* value that can be seen after it.                                        *)
FirstWrite(ops, k) ==
    \A j \in 1 .. k - 1 : ~(ops[j].kind = ops[k].kind /\ Identity(ops[j].target) = Identity(ops[k].target))
LastWrite(ops, k) ==
    \A j \in k + 1 .. Len(ops) : ~(ops[j].kind = ops[k].kind /\ Identity(ops[j].target) = Identity(ops[k].target))

MandatoryPreconditions(ops, epoch, ws) ==
    LET old(k) == LET op == ops[k] IN
            IF Is(op, "create")
            THEN {NodeAbsent(op.path, op.id)}
                 \cup (IF op.parent.id \in CreatedIds(ops) THEN {} ELSE {NodeIdentityEquals(op.parent)})
            ELSE (IF op.target.id \in CreatedIds(ops) \/ ~FirstWrite(ops, k) THEN {}
                  ELSE {NodeIdentityEquals(op.target),
                        IF Is(op, "set") THEN ParmValueEquals(op.target, op.old)
                                         ELSE WireInputEquals(op.target, op.old)})
                 \cup (IF Is(op, "connect") /\ op.source.id \notin CreatedIds(ops)
                       THEN {NodeIdentityEquals(op.source)} ELSE {})
    IN {SceneBindingEquals(epoch)}
       \cup (IF ws = None THEN {} ELSE {WorkspaceRevisionEquals(ws.id, ws.rev)})
       \cup UNION {old(k) : k \in DOMAIN ops}

MandatoryPostconditions(ops) ==
    LET after(k) == LET op == ops[k] IN
            CASE Is(op, "create")  -> {NodeIdentityEquals(CreatedRef(op))}
              [] Is(op, "set")     -> IF LastWrite(ops, k) THEN {ParmValueEquals(op.target, op.new)} ELSE {}
              [] Is(op, "connect") -> IF LastWrite(ops, k) THEN {WireInputEquals(op.target, op.source)} ELSE {}
    IN UNION {after(k) : k \in DOMAIN ops}

(* Before-state coverage: every node an operation touches that the change does not create *)
MandatoryCheckpoint(ops) ==
    {r \in UNION {CASE Is(op, "create") -> {op.parent}
                    [] Is(op, "set") -> {op.target}
                    [] Is(op, "connect") -> {op.target, op.source} : op \in ToSet(ops)} :
        r.id \notin CreatedIds(ops)}

-----------------------------------------------------------------------------
(* Construction: what a ChangeSet object cannot be *)

UniqueNodeRefs(refs) ==
    \A r, q \in refs : ((r.id # None /\ r.id = q.id) \/ r.path = q.path) => r = q

UniqueCreates(ops) ==
    \A j, k \in DOMAIN ops : (j # k /\ Is(ops[j], "create") /\ Is(ops[k], "create")) =>
        ops[j].id # ops[k].id /\ ops[j].path # ops[k].path

(* An operation is one of three, what is created has an id and a path,     *)
(* what is connected a source, and an id is never a path: a path starts    *)
(* with a slash, an id with its kind                                       *)
WellFormed(ops) ==
    /\ Len(ops) \in Nat /\ DOMAIN ops = 1 .. Len(ops)
    /\ \A j, k \in DOMAIN ops :
          ~Is(ops[j], "create") /\ ~Is(ops[k], "create") => ops[j].target.id # ops[k].target.path
    /\ \A k \in DOMAIN ops :
          /\ ops[k].kind \in {"create", "set", "connect"}
          /\ Is(ops[k], "create") => ops[k].id \in STRING /\ ops[k].path \in STRING /\ ops[k].ws \in STRING \cup {None}
          /\ Is(ops[k], "connect") => ops[k].source # None

(* A reference that collides with a created node is exactly that node, created earlier *)
CheckCreatedRef(ref, at, ops) ==
    \A k \in DOMAIN ops :
        (Is(ops[k], "create") /\ ((ref.id # None /\ ref.id = ops[k].id) \/ ref.path = ops[k].path))
            => ref = CreatedRef(ops[k]) /\ k < at

(* Nothing that only exists once the change runs can be asked for before it runs *)
NoImpossibleFact(cs) ==
    LET made(r) == r.id \in CreatedIds(cs.ops) \/ r.path \in {op.path : op \in CreateOps(cs.ops)}
    IN /\ \A c \in cs.pre : \A r \in CondRefs(c) : ~made(r)
       /\ \A r \in cs.checkpoint : ~made(r)

(* The canonical payload: every entry of a change counts for its bytes *)
PayloadSize(cs) ==
    Len(cs.ops) + Cardinality(cs.affected) + Cardinality(cs.reads)
    + Cardinality(cs.pre) + Cardinality(cs.post) + Cardinality(cs.checkpoint)

WithinLimits(cs) ==
    /\ Len(cs.ops) <= Limits.operations
    /\ Cardinality(cs.affected) + Cardinality(cs.reads) <= Limits.refs
    /\ Cardinality(cs.pre) <= Limits.conditions /\ Cardinality(cs.post) <= Limits.conditions
    /\ PayloadSize(cs) <= Limits.payload

ValidChangeSet(cs) ==
    /\ cs.ops # <<>> /\ WellFormed(cs.ops)
    /\ WithinLimits(cs)
    /\ UniqueCreates(cs.ops)
    /\ UniqueNodeRefs(cs.affected) /\ UniqueNodeRefs(cs.reads)
    /\ ConditionsConsistent(cs.pre) /\ ConditionsConsistent(cs.post)
    /\ \A k \in DOMAIN cs.ops : \A r \in OpRefs(cs.ops[k]) : CheckCreatedRef(r, k, cs.ops)
    /\ \A r \in cs.affected \cup cs.reads \cup cs.checkpoint
                 \cup UNION {CondRefs(c) : c \in cs.pre \cup cs.post} :
            CheckCreatedRef(r, Len(cs.ops) + 1, cs.ops)
    /\ NoImpossibleFact(cs)

ValidManifest(ws) ==
    /\ ws.id # None
    /\ ws.nodes # {} /\ ws.roots # {} /\ ws.roots \subseteq ws.nodes
    /\ \A n, m \in ws.nodes : (n.id = m.id \/ n.path = m.path) => n = m

(* The request envelope: binding, workspace and epoch agree with one another *)
ValidRequest(r) ==
    /\ ValidChangeSet(r.cs)
    /\ r.epoch = r.cs.epoch
    /\ r.ws = None => r.cs.wsid = None
    /\ r.ws # None => /\ ValidManifest(r.ws)
                      /\ r.cs.wsid = r.ws.id
                      /\ r.ws.epoch = r.cs.epoch

-----------------------------------------------------------------------------
(* The policy engine: a set of denials, allowed when it is empty *)

ChangedTargets(ops) == {op.target : op \in {o \in ToSet(ops) : ~Is(o, "create")}}
WireSources(ops) == {op.source : op \in {o \in ToSet(ops) : Is(o, "connect")}}
CreateParents(ops) == {op.parent : op \in CreateOps(ops)}
Effects(ops) == {op.kind : op \in ToSet(ops)}
TouchedPaths(ops) == {r.path : r \in ChangedTargets(ops) \cup WireSources(ops) \cup CreatedRefs(ops)}

OwnedFact(ref, ws) == {n \in ws.nodes : IF ref.id # None THEN n.id = ref.id ELSE n.path = ref.path}
MatchesManifest(ref, n, ws) == ref.path = n.path /\ ref.ws = ws.id

IsExternal(ref, ops, ws) ==
    /\ ref \notin CreatedRefs(ops)
    /\ \/ ws = None
       \/ ~\E n \in OwnedFact(ref, ws) : MatchesManifest(ref, n, ws)

EffectContradiction(cs, ws) ==
    \/ cs.risk.effects # Effects(cs.ops)
    \/ cs.risk.wiring # ("connect" \in Effects(cs.ops))
    \/ cs.risk.count # Len(cs.ops)
    \/ cs.risk.paths # TouchedPaths(cs.ops)
    \/ cs.risk.external # \E r \in ChangedTargets(cs.ops) \cup WireSources(cs.ops) \cup CreateParents(cs.ops) :
                              IsExternal(r, cs.ops, ws)

EvaluateOwned(cs, ws) ==
    IF ws = None THEN {"missing_workspace"}
    ELSE LET inner == CreatedRefs(cs.ops)
             matched(r) == \E n \in OwnedFact(r, ws) : MatchesManifest(r, n, ws)
         IN (IF ws.epoch # cs.epoch THEN {"stale_workspace"} ELSE {})
            \cup (IF \E t \in ChangedTargets(cs.ops) \ inner : t.id = None THEN {"ownership_ambiguous"} ELSE {})
            \cup (IF \/ cs.wsid # ws.id
                     \/ \E t \in ChangedTargets(cs.ops) \ inner : t.id # None /\ ~matched(t)
                     \/ \E s \in WireSources(cs.ops) \ inner :
                            IF OwnedFact(s, ws) = {}
                            THEN Identity(s) \notin {Identity(r) : r \in cs.reads}
                            ELSE ~matched(s)
                     \/ \E op \in CreateOps(cs.ops) : op.ws # ws.id
                  THEN {"ownership_mismatch"} ELSE {})

EvaluateScoped(cs) ==
    IF \/ CreateOps(cs.ops) # {}
       \/ \E r \in ChangedTargets(cs.ops) \cup WireSources(cs.ops) : r.id = None \/ r.id \notin cs.scope
    THEN {"scope_violation"} ELSE {}

Denials(cs, ws, locked) ==
    (IF EffectContradiction(cs, ws) THEN {"effect_contradiction"} ELSE {})
    \cup (IF cs.risk.backup THEN {"backup_unavailable"} ELSE {})
    \cup (IF \E t \in ChangedTargets(cs.ops) : t.path \in locked THEN {"locked_target"} ELSE {})
    \cup (IF ChangedTargets(cs.ops) \cup WireSources(cs.ops) \cup CreatedRefs(cs.ops) \subseteq cs.affected
          THEN {} ELSE {"affected_target_omitted"})
    \cup (IF ws # None /\ CreatedIds(cs.ops) \cap {n.id : n \in ws.nodes} # {} THEN {"node_id_reused"} ELSE {})
    \cup (IF cs.mode = "OwnedWorkspace" THEN EvaluateOwned(cs, ws) ELSE {})
    \cup (IF cs.mode = "ScopedPatch" THEN EvaluateScoped(cs) ELSE {})
=============================================================================
