------------------------------ MODULE MCScene -------------------------------
(***************************************************************************)
(* What the agent writes in a Houdini scene, for TLC: approved changes     *)
(* (Executor), the sandbox of a run with its ledger (Sandbox), the         *)
(* parameter manifest of what it commits (ParmManifest), and the probes    *)
(* that measure it (SceneProbes).  The bridge runs one operation at a      *)
(* time and the four write disjoint parts of the scene, so a behaviour is  *)
(* about one of them, chosen at the start.                                 *)
(*                                                                         *)
(* Executor: a workspace w of two owned nodes, /a and its child /a/b, next *)
(* to one node of the artist, /x; three spare node objects for what is     *)
(* created and copied.                                                     *)
(***************************************************************************)
EXTENDS Executor

CONSTANTS a, b, x, n1, n2, n3, SandboxObj

MCObj == {a, b, x, n1, n2, n3}
MCLimits == [operations |-> 256, conditions |-> 256, refs |-> 4096, payload |-> 131072]
Owned(i, p) == [path |-> p, id |-> i, ws |-> "w", facts |-> "ok", locked |-> FALSE, parm |-> 0, wire |-> None]
MCFirstScene ==
    [o \in MCObj |-> CASE o = a -> Owned("ia", "/a")
                       [] o = b -> Owned("ib", "/a/b")
                       [] o = x -> [Owned("ia", "/x") EXCEPT !.id = None, !.ws = None]
                       [] OTHER -> None]

A == Ref("ia", "/a", "w")
B == Ref("ib", "/a/b", "w")
X == Ref(None, "/x", None)
C == Ref("ic", "/a/c", "w")
D == Ref("id", "/a/c/d", "w")
Manifest == [id |-> "w", epoch |-> 1, rev |-> "rev1", nodes |-> {A, B}, roots |-> {A}]

(* The change a proposer derives from its operations; mode and manifest vary *)
Change(name, ops, mode, ws, reads) ==
    LET touched == ChangedTargets(ops) \cup WireSources(ops) \cup CreatedRefs(ops)
    IN [id |-> name, ops |-> ops, epoch |-> 1, wsid |-> IF ws = None THEN None ELSE ws.id,
        mode |-> mode, scope |-> {r.id : r \in touched} \ {None},
        affected |-> touched, reads |-> reads,
        pre |-> MandatoryPreconditions(ops, 1, ws), post |-> MandatoryPostconditions(ops),
        checkpoint |-> MandatoryCheckpoint(ops),
        risk |-> [effects |-> Effects(ops), wiring |-> "connect" \in Effects(ops), count |-> Len(ops),
                  backup |-> FALSE, paths |-> TouchedPaths(ops),
                  external |-> \E r \in ChangedTargets(ops) \cup WireSources(ops) \cup CreateParents(ops) :
                                   IsExternal(r, ops, ws)]]
Ask(cs, ws) == [cs |-> cs, ws |-> ws, epoch |-> cs.epoch]
InWorkspace(name, ops, reads) == Ask(Change(name, ops, "OwnedWorkspace", Manifest, reads), Manifest)

Twice   == InWorkspace("c1", <<SetParm(B, 0, 1), SetParm(B, 1, 2)>>, {})
Build   == InWorkspace("c2", <<Create("ic", "/a/c", "w", A), SetParm(C, 0, 1), Connect(B, C, None)>>, {})
Nested  == InWorkspace("c3", <<Create("ic", "/a/c", "w", A), Create("id", "/a/c/d", "w", C)>>, {})
Rewire  == InWorkspace("c4", <<Connect(B, A, None), Connect(B, X, A)>>, {X})
Other   == InWorkspace("c1", <<SetParm(A, 0, 2)>>, {})
Blind   == LET r == InWorkspace("c5", <<SetParm(B, 0, 1)>>, {})
           IN [r EXCEPT !.cs.pre = {c \in @ : ~Is(c, "parm")}]
Unlisted == LET r == InWorkspace("c6", <<SetParm(B, 0, 1)>>, {}) IN [r EXCEPT !.cs.affected = {A}]
Foreign == InWorkspace("c7", <<SetParm(X, 0, 1)>>, {X})
Scoped  == Ask(Change("c8", <<SetParm(B, 0, 1), Connect(A, B, None)>>, "ScopedPatch", None, {}), None)
Project == Ask(Change("c9", <<SetParm(X, 0, 1), SetParm(B, 0, 2)>>, "ProjectChange", None, {}), None)

MCRequest == {Twice, Build, Nested, Rewire, Other, Blind, Unlisted, Foreign, Scoped, Project}

-----------------------------------------------------------------------------
(* Sandbox: a wired pair, a subnet with a child, a batch that fails        *)
(* half-way, a reference that leaves the sandbox, a deletion               *)

VARIABLES node, made, sandboxPc, tool, rows, storeFailed, told, upset, sandboxEpoch, toolCalls, artistEdits

New(parent, name) == [kind |-> "create", parent |-> parent, name |-> name]
Wire(n, source) == [kind |-> "connect", node |-> n, source |-> source]
Drive(n, ref) == [kind |-> "set", node |-> n, ref |-> ref]
Drop(n) == [kind |-> "delete", node |-> n]
SandboxRoot == <<"obj", "eee_scratch">>
Asset == <<"obj", "ws", "asset">>
Under(p, names) == [i \in DOMAIN names |-> Append(p, names[i])]

SandboxBatch ==
    {<<New(<<>>, "a"), New(<<>>, "b"), Wire(<<"b">>, <<"a">>)>>,
      <<New(<<>>, "g"), New(<<"g">>, "c"), Drive(<<"g", "c">>, <<"..", "size">>)>>,
      <<New(<<>>, "b"), Wire(<<"b">>, <<"missing">>)>>,
      <<Drive(<<"a">>, <<"..", "..", "size">>)>>,
      <<Drop(<<"b">>)>>}
SandboxSelection ==
    {Under(SandboxRoot, <<"a", "b">>), Under(Asset, <<"a", "b">>), Under(SandboxRoot, <<"g", "zz">>)}
SandboxTarget ==
    {Asset, <<"obj", "top">>, <<"nowhere", "asset">>}
S == INSTANCE Sandbox WITH
    Obj <- SandboxObj, HomFails <- TRUE, MaxCalls <- 3, MaxEdits <- 1,
    Batch <- SandboxBatch,
    Selection <- SandboxSelection,
    Target <- SandboxTarget,
    pc <- sandboxPc, call <- tool, said <- told, epoch <- sandboxEpoch, calls <- toolCalls, edits <- artistEdits
sandboxVars == <<node, made, sandboxPc, tool, rows, storeFailed, told, upset, sandboxEpoch, toolCalls, artistEdits>>

-----------------------------------------------------------------------------
(* ParmManifest: a control node with a size, a leg driven by it through a  *)
(* nested expression, a batch that fails after it has driven the leg, an   *)
(* expression of a second parameter                                        *)

CONSTANTS ManifestBatches, ParmManifests, ExprDepth, ExprNodes, ManifestCalls
VARIABLES exprRefs, live, exprs, batch, asset, reply, tools

\* The operations of a batch are numbered from one
ASSUME BatchAssumption == \A ops \in ManifestBatches : Len(ops) \in Nat /\ DOMAIN ops = 1..Len(ops)

To(n, p) == [kind |-> "ref", name |-> "", path |-> [node |-> n, parm |-> p], args |-> <<>>]
Apply(name, args) == [kind |-> "op", name |-> name, path |-> <<>>, args |-> args]
Put(n, p, e) == [kind |-> "set", node |-> n, parm |-> p, value |-> {}, expr |-> e]
Make(n) == [kind |-> "create", node |-> n]
Half == <<Apply("mul", <<2, 3>>), To("ctrl", "size"), To("..", "scale")>>
Deep == <<Apply("neg", <<2>>), Apply("neg", <<3>>), Apply("neg", <<4>>), To("ctrl", "size")>>
Malformed == <<Apply("mul", <<2>>), To("ctrl", "size")>>
Knob(n, node_, p, class, deps) ==
    [name |-> n, class |-> class, node |-> node_, parm |-> p, deps |-> deps,
     range |-> IF class = "design_intent" THEN <<0, 1, 2>> ELSE <<>>]
SizeKnob == Knob("size", "ctrl", "size", "design_intent", {})
ScaleKnob == Knob("scale", "ctrl", "scale", "design_intent", {})

MCManifestBatches ==
    {<<Make("ctrl"), Make("leg")>>,
        <<Put("leg", "height", Half), Put("leg", "width", <<To("ctrl", "size")>>)>>,
        <<Make("leg"), Put("leg", "height", <<To("ctrl", "size")>>), [kind |-> "delete", node |-> "leg"]>>,
        <<Put("leg", "height", Malformed)>>, <<Put("leg", "height", Deep)>>,
        <<[kind |-> "declare", node |-> "ctrl", range |-> <<0, 1, 2>>]>>,
        <<[kind |-> "declare", node |-> "ctrl", range |-> <<0, 3, 2>>]>>}
MCParmManifests ==
    {{}, {SizeKnob}, {SizeKnob, ScaleKnob},
          {SizeKnob, ScaleKnob, Knob("height", "leg", "height", "derived", {"size"})},
          {SizeKnob, ScaleKnob, Knob("height", "leg", "height", "derived", {"size", "width"}),
           Knob("width", "leg", "width", "derived", {"height"})},
          {SizeKnob, Knob("size", "leg", "height", "constant", {})},
          {Knob("height", "leg", "height", "derived", {})}}
M == INSTANCE ParmManifest WITH
    Batches <- ManifestBatches, Manifests <- ParmManifests, MaxCalls <- ManifestCalls
manifestVars == <<exprRefs, live, exprs, batch, asset, reply, tools>>

-----------------------------------------------------------------------------
(* SceneProbes: two samples, one of them of the same parameter twice *)

CONSTANTS Parm, ParmValue, Original, Sample, MaxProbes
VARIABLES parm, probeFrozen, temp, files, at, probe, answer, probes, found, slip

ASSUME ProbeAssumption ==
    /\ Original \in [Parm -> ParmValue]
    /\ Sample \subseteq Seq([parm : Parm, value : ParmValue])

MCOriginal == [q \in Parm |-> 0]
MCSample ==
    {<<[parm |-> "p", value |-> 1], [parm |-> "q", value |-> 1]>>,
       <<[parm |-> "p", value |-> 1], [parm |-> "p", value |-> 2]>>}
P == INSTANCE SceneProbes
probeVars == <<parm, probeFrozen, temp, files, at, probe, answer, probes, found, slip>>

-----------------------------------------------------------------------------
VARIABLE part     \* the writer this behaviour is about

SceneInit ==
    /\ part \in {"executor", "sandbox", "manifest", "probes"}
    /\ Init /\ S!SandboxInit /\ M!ManifestInit /\ P!ProbesInit

SceneNext ==
    /\ UNCHANGED part
    /\ \/ part = "executor" /\ Next /\ UNCHANGED <<sandboxVars, manifestVars, probeVars>>
       \/ part = "sandbox" /\ S!SandboxNext /\ UNCHANGED <<vars, manifestVars, probeVars>>
       \/ part = "manifest" /\ M!ManifestNext /\ UNCHANGED <<vars, sandboxVars, probeVars>>
       \/ part = "probes" /\ P!ProbesNext /\ UNCHANGED <<vars, sandboxVars, manifestVars>>
SceneSpec == SceneInit /\ [][SceneNext]_<<part, vars, sandboxVars, manifestVars, probeVars>>

\* Executor: at every step of a transaction the journal undoes what was done, and what
\* was done is inside the change and the workspace it owns, also when ids were copied,
\* nodes renamed or other scenes loaded meanwhile (_execute_set_parm, _rollback_one, _resolve).
WritesAreUndoable == JournalUndoes /\ WritesStayInside

\* Sandbox: every node a run made is on record for its clean-up while nothing went wrong
\* and no path was used again, no two rows ever name one place, and the node shown after a
\* promotion is the end of its chain (_record_build, record_nodes, _scratch_output_node).
SandboxInOrder == S!EveryNodeIsOnRecord /\ S!OneRowPerPlace /\ S!ShownIsSink

\* Sandbox: a commit promotes the whole sandbox or leaves it as it was, whichever HOM
\* call fails (commit and its rollback).
CommitAllOrNothing == S!CommitAllOrNothing

\* ParmManifest: a committed asset has no expression that its manifest does not declare
\* (_expr_refs, _validate_manifest_refs).
NoUndeclaredDriver == M!NoUndeclaredDriver

\* SceneProbes: a probe that is over has restored what it found, or writes are frozen and
\* the caller was told; the parameter whose own set raised after setting may stay changed,
\* in a probe reported as aborted (sample_sensitivity, capture).
ProbesLeaveNoTrace == P!ProbesLeaveNoTrace
=============================================================================
