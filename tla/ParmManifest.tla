---------------------------- MODULE ParmManifest ----------------------------
(***************************************************************************)
(* The parameter manifest of a scratch build: scratch_commit may declare   *)
(* the parameters the asset is driven by (houdini_bridge/scratch.py), and  *)
(* the coordinator refuses a manifest that does not account for the        *)
(* expressions the run has written (modeling/scratch_coordinator.py).  The *)
(* coordinator does not ask the scene: it remembers the references of the  *)
(* batches it has sent, while a batch may stop at any operation, nodes are *)
(* deleted again, and a failed batch may be kept or taken back.            *)
(*                                                                         *)
(* Data abstraction: a reference is the last node of its path (".." for    *)
(* the parent) and its parameter; an expression is its tree, as a sequence *)
(* of nodes with the indices of their arguments, the root first.           *)
(***************************************************************************)
EXTENDS Naturals, Sequences, FiniteSets, SequencesExt
LOCAL INSTANCE Relation

CONSTANTS Batches, Manifests,      \* what the model may send
          ExprDepth, ExprNodes,    \* _MAX_EXPR_DEPTH, _MAX_EXPR_NODES
          MaxCalls

VARIABLES exprRefs,   \* _expr_refs of the coordinator
          live,       \* the nodes of the sandbox
          exprs,      \* their expressions: [node, parm, ref], one per reference
          batch,      \* the scratch_exec under way, its operations and position
          asset,      \* the last committed asset: its manifest and its expressions
          reply, tools

manifestVars == <<exprRefs, live, exprs, batch, asset, reply, tools>>

-----------------------------------------------------------------------------
(* ScratchExpr and ScratchOp *)

Arity(e) == CASE e.name = "neg" -> {1} [] e.name = "clamp" -> {3}
              [] e.name \in {"min", "max"} -> 1..4 [] OTHER -> {2}
Depth(e) == LET below[i \in DOMAIN e] ==
                    1 + Max({0} \cup {below[j] : j \in ToSet(e[i].args)})
            IN below[1]
ValidExpr(e) ==
    /\ Depth(e) <= ExprDepth /\ Len(e) <= ExprNodes
    /\ \A i \in DOMAIN e : e[i].kind \in {"op", "func"} => Len(e[i].args) \in Arity(e[i])

\* _expr_refs: the references of the whole tree
RefsOf(e) == LET below[i \in DOMAIN e] ==
                     (IF e[i].kind = "ref" THEN {e[i].path} ELSE {})
                     \cup UNION {below[j] : j \in ToSet(e[i].args)}
             IN below[1]
OpRefs(op) == IF op.kind = "set" /\ op.expr # <<>> THEN RefsOf(op.expr) ELSE {}

\* A parameter is set to a value or to an expression; a declared one has an ordered range
ValidOp(op) ==
    CASE op.kind = "set"     -> (op.expr = <<>>) # (op.value = {}) /\ (op.expr # <<>> => ValidExpr(op.expr))
      [] op.kind = "declare" -> op.range[1] <= op.range[2] /\ op.range[2] <= op.range[3]
      [] OTHER               -> TRUE
ParsesOperations(ops) == ops # <<>> /\ \A k \in DOMAIN ops : ValidOp(ops[k])

-----------------------------------------------------------------------------
(* ScratchParmDeclaration and the checks on a manifest *)

ValidDeclaration(d) ==
    CASE d.class = "design_intent" -> /\ d.range # <<>> /\ d.deps = {}
                                      /\ d.range[1] <= d.range[2] /\ d.range[2] <= d.range[3]
      [] d.class = "derived"       -> d.deps # {}
      [] d.class = "constant"      -> d.range = <<>> /\ d.deps = {}
ParsesParameters(m) == \A d \in m : ValidDeclaration(d)
UniqueNames(m) == \A d, c \in m : d.name = c.name => d = c

Declaration(m, name) == CHOOSE d \in m : d.name = name
Names(m) == {d.name : d \in m}
Recorded(d) == \E r \in exprRefs : r.parm = d.parm /\ r.node \in {d.node, ".."}
Derived(m) == {d \in m : d.class = "derived"}
Acyclic(m) ==
    LET on == [a, b \in Names(m) |-> Declaration(m, a).class = "derived" /\ b \in Declaration(m, a).deps]
        reaches == TransitiveClosure(on, Names(m))
    IN \A a \in Names(m) : ~reaches[a, a]
ValidateManifestRefs(m) ==
    \/ m = {}
    \/ /\ \A d \in Derived(m) : /\ d.deps \subseteq Names(m)
                                /\ \A n \in d.deps : Recorded(Declaration(m, n))
       /\ \A r \in exprRefs : \E d \in m : d.parm = r.parm
       /\ Acyclic(m)

-----------------------------------------------------------------------------
Idle == batch = <<>>
Say(what) == reply' = what

\* build: the references are remembered before the batch is sent
Build(ops, preserve) ==
    /\ Idle /\ tools < MaxCalls /\ tools' = tools + 1
    /\ IF ParsesOperations(ops)
       THEN /\ exprRefs' = exprRefs \cup UNION {OpRefs(ops[k]) : k \in DOMAIN ops}
            /\ batch' = [ops |-> ops, i |-> 1, index |-> <<>>, made |-> {}, preserve |-> preserve]
            /\ UNCHANGED reply
       ELSE Say("input_invalid") /\ UNCHANGED <<exprRefs, batch>>
    /\ UNCHANGED <<live, exprs, asset>>

Sending == ~Idle /\ batch.i <= Len(batch.ops)
Op == batch.ops[batch.i]
Without(nodes) == {x \in exprs : x.node \notin nodes}
ResolvesRef(r) == r.node = ".." \/ r.node \in live

\* Houdini renames a node whose name is taken; the batch goes on with the new one
Renamed(n) == IF n \in live THEN n \o "1" ELSE n
Target == IF Op.kind = "create" THEN Renamed(Op.node)
          ELSE IF Op.node \in DOMAIN batch.index THEN batch.index[Op.node] ELSE Op.node

\* One operation lands: what the executor resolves must be in the sandbox
ExecOp ==
    /\ Sending /\ (Target \in live) = (Op.kind # "create")
    /\ \A r \in OpRefs(Op) : ResolvesRef(r)
    /\ batch' = IF Op.kind = "create"
                THEN [batch EXCEPT !.i = @ + 1, !.made = @ \cup {Target}, !.index = (Op.node :> Target) @@ @]
                ELSE [batch EXCEPT !.i = @ + 1]
    /\ live' = CASE Op.kind = "create" -> live \cup {Target}
                 [] Op.kind = "delete" -> live \ {Target}
                 [] OTHER -> live
    /\ exprs' = CASE Op.kind = "set" -> {x \in exprs : <<x.node, x.parm>> # <<Target, Op.parm>>}
                                        \cup {[node |-> Target, parm |-> Op.parm, ref |-> r] : r \in OpRefs(Op)}
                  [] Op.kind = "delete" -> Without({Target})
                  [] OTHER -> exprs
    /\ UNCHANGED <<exprRefs, asset, reply, tools>>

OpRaisesForgetting ==   \* mutant: the references of a batch that failed are forgotten
    /\ Sending /\ batch' = <<>> /\ Say("op_failed")
    /\ LET gone == IF batch.preserve THEN {} ELSE batch.made
       IN live' = live \ gone /\ exprs' = Without(gone)
    /\ exprRefs' = exprRefs \ UNION {OpRefs(batch.ops[k]) : k \in DOMAIN batch.ops}
    /\ UNCHANGED <<asset, tools>>
\* An operation raises: the batch ends there, and what it made is kept or taken back
OpRaises ==
    /\ Sending /\ batch' = <<>> /\ Say("op_failed")
    /\ LET gone == IF batch.preserve THEN {} ELSE batch.made
       IN live' = live \ gone /\ exprs' = Without(gone)
    /\ UNCHANGED <<exprRefs, asset, tools>>

ExecDone ==
    /\ ~Idle /\ ~Sending /\ batch' = <<>> /\ Say("built")
    /\ UNCHANGED <<exprRefs, live, exprs, asset, tools>>

\* commit: the manifest, the request, then the hard gates
Commit(m) ==
    /\ Idle /\ tools < MaxCalls /\ tools' = tools + 1
    /\ \/ ~ParsesParameters(m) /\ Say("input_invalid") /\ UNCHANGED <<live, exprs, asset>>
       \/ /\ ParsesParameters(m)
          /\ ~ValidateManifestRefs(m) /\ Say("manifest_invalid") /\ UNCHANGED <<live, exprs, asset>>
       \/ /\ ParsesParameters(m)
          /\ ValidateManifestRefs(m)
          /\ \/ ~UniqueNames(m) /\ Say("op_failed") /\ UNCHANGED <<live, exprs, asset>>
             \/ UniqueNames(m) /\ Say("refused") /\ UNCHANGED <<live, exprs, asset>>
             \/ /\ UniqueNames(m) /\ live # {}
                /\ Say("committed")
                /\ asset' = [manifest |-> m, exprs |-> exprs]
                /\ live' = {} /\ exprs' = {}
    /\ UNCHANGED <<exprRefs, batch>>

ManifestInit ==
    /\ exprRefs = {} /\ live = {} /\ exprs = {} /\ batch = <<>> /\ asset = <<>>
    /\ reply = "none" /\ tools = 0

ManifestNext ==
    \/ \E ops \in Batches, preserve \in BOOLEAN : Build(ops, preserve)
    \/ ExecOp \/ OpRaises \/ ExecDone
    \/ \E m \in Manifests : Commit(m)

ManifestSpec == ManifestInit /\ [][ManifestNext]_manifestVars

-----------------------------------------------------------------------------
\* An asset committed with a manifest contains no expression on a parameter the
\* manifest does not declare (_validate_manifest_refs, scratch_coordinator.py): also
\* when the batch that wrote the expression failed later on and was kept, or was
\* overwritten, deleted and rebuilt in between.
NoUndeclaredDriver ==
    asset # <<>> /\ asset.manifest # {} =>
        \A x \in asset.exprs : \E d \in asset.manifest : d.parm = x.ref.parm
=============================================================================
