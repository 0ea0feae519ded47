------------------------------ MODULE Sandbox -------------------------------
(***************************************************************************)
(* The scratch sandbox of one run: the container /obj/eee_scratch_<run>    *)
(* and the asset it is promoted to (houdini_side/changeset_executor.py),   *)
(* the coordinator behind the agent's tools (modeling/                     *)
(* scratch_coordinator.py) and the ledger of the nodes the run has made    *)
(* (runtime/task_graph.py).                                                *)
(*                                                                         *)
(* A bridge operation is one callable on the Houdini main thread; between  *)
(* two operations, and between an operation and the transaction that       *)
(* records it, the artist edits the scene.  The run issues its tool calls  *)
(* one after the other.  A HOM call that raises has changed nothing; a     *)
(* handle of a destroyed node may raise when it is read; createNode may    *)
(* give a node another name than it was asked for.                         *)
(***************************************************************************)
EXTENDS Naturals, Sequences, FiniteSets, SequencesExt

CONSTANTS Obj,          \* node objects of the Houdini session
          None,
          Batch,        \* the operation lists scratch_build may be given
          Selection,    \* the sequences of nodes cleanup_nodes may be given
          Target,       \* where scratch_commit may promote to: <<parent, name>>
          HomFails,     \* may a HOM call fail or rename?
          MaxCalls, MaxEdits

VARIABLES node,         \* Obj -> [in, name, input, shown], or None
          made,         \* the nodes this run has created and not destroyed
          pc, call,     \* where the tool call stands, and its locals
          rows,         \* the rows of task_nodes, in the order of node_id
          storeFailed,  \* _store_failed
          said,         \* the answer of the last tool call
          upset,        \* a call failed, a name was changed or the artist edited
          epoch, calls, edits

sandboxVars == <<node, made, pc, call, rows, storeFailed, said, upset, epoch, calls, edits>>

Networks == {<<"obj">>, <<"obj", "ws">>}
Obj1 == <<"obj">>
SandboxName == "eee_scratch"
Root == Append(Obj1, SandboxName)

-----------------------------------------------------------------------------
(* The scene *)

Live(s) == {o \in DOMAIN s : s[o] # None}

Path(s) ==
    LET path[o \in Live(s)] == IF s[o].in \in Networks THEN Append(s[o].in, s[o].name)
                               ELSE Append(path[s[o].in], s[o].name)
    IN path
At(s, p) == {o \in Live(s) : Path(s)[o] = p}
ChildrenOf(s, o) == {c \in Live(s) : s[c].in = o}
Consumers(s, o) == {c \in Live(s) : s[c].input = o}
Inside(s, o) == {c \in Live(s) : IsStrictPrefix(Path(s)[o], Path(s)[c])}

(* A destroyed node takes its contents with it and leaves the inputs it fed *)
Destroyed(s, o) ==
    LET gone == {o} \cup Inside(s, o)
    IN [q \in DOMAIN s |-> IF q \in gone \/ s[q] = None THEN None
                           ELSE IF s[q].input \in gone THEN [s[q] EXCEPT !.input = None] ELSE s[q]]
Free(s) == CHOOSE o \in Obj : s[o] = None
New(in, name) == [in |-> in, name |-> name, input |-> None, shown |-> FALSE]

(* A reference is looked up in the index of this call, then below the container *)
ResolveScratchNode(s, index, ref) ==
    IF ref \in DOMAIN index /\ index[ref] # None THEN {index[ref]} ELSE At(s, Root \o ref)

(* An expression reference is walked from the target node; it may not leave the sandbox *)
Walk(at, segment) == IF at = None \/ (segment = ".." /\ at = <<>>) THEN None
                     ELSE IF segment = ".." THEN Front(at) ELSE Append(at, segment)
ResolveScratchRef(s, from, ref) ==
    LET to == FoldLeft(Walk, from, ref)
    IN IF to # None /\ Len(to) >= 2 /\ IsPrefix(Root, Front(to)) THEN At(s, Front(to)) ELSE {}

-----------------------------------------------------------------------------
(* scratch.exec: the operations of a batch, one by one *)

NoCall == [tool |-> "none"]

StartExec(tool, ops, preserve, more) ==
    /\ pc' = "queued"
    /\ call' = more @@ [tool |-> tool, ops |-> ops, preserve |-> preserve, epoch |-> epoch, i |-> 1,
                        index |-> << >>, created |-> {}]

Build(ops, preserve) ==
    /\ pc = "idle" /\ calls < MaxCalls
    /\ StartExec("build", ops, preserve, << >>)
    /\ calls' = calls + 1
    /\ UNCHANGED <<node, made, rows, storeFailed, said, upset, epoch, edits>>

Fail(reason) == pc' = "idle" /\ call' = NoCall /\ said' = reason /\ upset' = TRUE

(* The container is created on the first call and reused by the later ones *)
BeginExec ==
    /\ pc = "queued"
    /\ \/ call.epoch # epoch /\ Fail("stale") /\ UNCHANGED <<node, made>>
       \/ /\ call.epoch = epoch
          /\ IF At(node, Root) = {}
             THEN \/ /\ node' = [node EXCEPT ![Free(node)] = New(Obj1, SandboxName)]
                     /\ made' = made \cup {Free(node)}
                     /\ call' = [call EXCEPT !.created = {Free(node)}]
                     /\ pc' = "exec" /\ UNCHANGED <<said, upset>>
                  \/ HomFails /\ Fail("failed") /\ UNCHANGED <<node, made>>
             ELSE pc' = "exec" /\ UNCHANGED <<node, made, call, said, upset>>
    /\ UNCHANGED <<rows, storeFailed, epoch, calls, edits>>

CurrentOp == call.ops[call.i]
Applied == call' = [call EXCEPT !.i = @ + 1] /\ UNCHANGED pc
OpRaises == pc' = "raised" /\ UNCHANGED <<node, made, call>>
Resolved(ref) == ResolveScratchNode(node, call.index, ref)

(* Houdini gives the first node of a network the display flag *)
ExecCreate ==
    /\ CurrentOp.kind = "create"
    /\ \/ \E parent \in IF CurrentOp.parent = <<>> THEN At(node, Root) ELSE Resolved(CurrentOp.parent) :
          LET o == Free(node)
              taken(n) == At(node, Append(Path(node)[parent], n)) # {}
          IN \E name \in {n \in {CurrentOp.name, "other"} : ~taken(n) /\ (n = "other" => HomFails \/ taken(CurrentOp.name))} :
               /\ node' = [node EXCEPT ![o] = [New(parent, name) EXCEPT !.shown = (ChildrenOf(node, parent) = {})]]
               /\ made' = made \cup {o}
               /\ call' = [call EXCEPT !.i = @ + 1, !.created = @ \cup {o},
                                       !.index = (Append(CurrentOp.parent, CurrentOp.name) :> o) @@ @]
               /\ upset' = (upset \/ name # CurrentOp.name)
               /\ UNCHANGED pc
       \/ /\ HomFails \/ (CurrentOp.parent # <<>> /\ Resolved(CurrentOp.parent) = {})
          /\ OpRaises /\ UNCHANGED upset

ExecSetParm ==
    /\ CurrentOp.kind = "set" /\ UNCHANGED upset
    /\ \/ /\ Resolved(CurrentOp.node) # {}
          /\ CurrentOp.ref # None =>
                \E o \in Resolved(CurrentOp.node) : ResolveScratchRef(node, Path(node)[o], CurrentOp.ref) # {}
          /\ Applied /\ UNCHANGED <<node, made>>
       \/ /\ \/ Resolved(CurrentOp.node) = {} \/ HomFails
             \/ CurrentOp.ref # None
                /\ \A o \in Resolved(CurrentOp.node) : ResolveScratchRef(node, Path(node)[o], CurrentOp.ref) = {}
          /\ OpRaises

ExecConnect ==
    /\ CurrentOp.kind = "connect" /\ UNCHANGED upset
    /\ \/ \E o \in Resolved(CurrentOp.node), q \in Resolved(CurrentOp.source) :
             node' = [node EXCEPT ![o].input = q] /\ Applied /\ UNCHANGED made
       \/ (Resolved(CurrentOp.node) = {} \/ Resolved(CurrentOp.source) = {} \/ HomFails) /\ OpRaises

(* node.path() is read once more after node.destroy() *)
ExecDelete ==
    /\ CurrentOp.kind = "delete" /\ UNCHANGED upset
    /\ \/ \E o \in Resolved(CurrentOp.node) :
             /\ node' = Destroyed(node, o)
             /\ made' = made \cap Live(node')
             /\ call' = [call EXCEPT !.i = @ + 1,
                             !.index = [k \in DOMAIN @ |-> IF @[k] \in Live(node') THEN @[k] ELSE None]]
             /\ IF HomFails THEN pc' \in {"exec", "raised"} ELSE UNCHANGED pc
       \/ (Resolved(CurrentOp.node) = {} \/ HomFails) /\ OpRaises

ExecOp ==
    /\ pc = "exec" /\ call.i <= Len(call.ops)
    /\ ExecCreate \/ ExecSetParm \/ ExecConnect \/ ExecDelete
    /\ UNCHANGED <<rows, storeFailed, said, epoch, calls, edits>>

(* A failed batch is kept for inspection, or what this call created goes, newest first *)
EndExec ==
    /\ \/ /\ pc = "exec" /\ call.i > Len(call.ops)
          /\ pc' = IF call.tool = "build" THEN "record" ELSE "delete"
          /\ UNCHANGED <<node, made, call, said, upset>>
       \/ /\ pc = "raised" /\ Fail("failed")
          /\ node' = IF call.preserve THEN node
                     ELSE FoldLeft(LAMBDA s, o : IF s[o] = None THEN s ELSE Destroyed(s, o), node, SetToSeq(call.created))
          /\ made' = made \cap Live(node')
    /\ UNCHANGED <<rows, storeFailed, epoch, calls, edits>>

-----------------------------------------------------------------------------
(* The ledger *)

LiveRows == {i \in DOMAIN rows : rows[i].status # "deleted"}
ScenePath(r) == IF r.committed # None THEN r.committed ELSE r.path

MarkDeleted(rs, paths) ==
    [i \in DOMAIN rs |-> IF rs[i].path \in paths \/ rs[i].committed \in paths
                         THEN [rs[i] EXCEPT !.status = "deleted"] ELSE rs[i]]

StoreFails == storeFailed' = TRUE /\ upset' = TRUE /\ UNCHANGED rows
RowsOf(ops) ==
    LET creates == SelectSeq(ops, LAMBDA op : op.kind = "create")
    IN [i \in DOMAIN creates |-> [path |-> Root \o Append(creates[i].parent, creates[i].name),
                                  committed |-> None, status |-> "sandbox"]]
DeletedBy(ops) == {Root \o op.node : op \in {o \in ToSet(ops) : o.kind = "delete"}}

(* UNIQUE(run_id, node_path): a path the run has used once is never free again *)
OnePathOneRow(rs) == \A i, j \in DOMAIN rs : rs[i].path = rs[j].path => i = j

(* record_step, record_nodes and mark_deleted are three transactions; the  *)
(* first failure, a path that is used again included, ends the recording   *)
(* for the rest of the run.                                                *)
RecordBuild ==
    /\ pc = "record"
    /\ IF storeFailed THEN UNCHANGED <<rows, storeFailed, upset>>
       ELSE LET recorded == rows \o RowsOf(call.ops) IN
            \/ /\ OnePathOneRow(recorded)
               /\ rows' = MarkDeleted(recorded, DeletedBy(call.ops)) /\ UNCHANGED <<storeFailed, upset>>
            \/ ~OnePathOneRow(recorded) /\ storeFailed' = TRUE /\ UNCHANGED <<rows, upset>>
            \/ /\ HomFails /\ storeFailed' = TRUE /\ upset' = TRUE
               /\ rows' \in {rows} \cup {rs \in {recorded} : OnePathOneRow(rs)}
    /\ pc' = "idle" /\ call' = NoCall /\ said' = "ok"
    /\ UNCHANGED <<node, made, epoch, calls, edits>>

-----------------------------------------------------------------------------
(* scratch.commit: the gates, then rename and move, with a way back *)

(* The unique sink; of several the one with a wired input; else the flag; else a last child *)
OutputNode(s, box) ==
    LET children == ChildrenOf(s, box)
        sinks == {c \in children : Consumers(s, c) = {}}
        wired == {c \in sinks : s[c].input # None}
        flagged == {c \in children : s[c].shown}
    IN CASE children = {}          -> {box}
         [] Cardinality(sinks) = 1 -> sinks
         [] Cardinality(sinks) # 1 /\ wired # {} -> wired
         [] Cardinality(sinks) # 1 /\ wired = {} /\ flagged # {} -> flagged
         [] OTHER -> children

Shown(s, box, o) == [q \in DOMAIN s |-> IF s[q] # None /\ s[q].in = s[o].in /\ o # box
                                        THEN [s[q] EXCEPT !.shown = (q = o)] ELSE s[q]]

Commit(t) ==
    /\ pc = "idle" /\ calls < MaxCalls
    /\ pc' = "commit" /\ call' = [tool |-> "commit", target |-> t, epoch |-> epoch]
    /\ calls' = calls + 1
    /\ UNCHANGED <<node, made, rows, storeFailed, said, upset, epoch, edits>>

Refuse(reason) == Fail(reason) /\ UNCHANGED <<node, made>>

(* mutant: a failed move leaves the new name *)
RolledBackNot(s, box) == s

(* What the way back leaves when it works: the old name below the old parent *)
RolledBack(s, box) == [s EXCEPT ![box].name = SandboxName]

Promote ==
    /\ pc = "commit"
    /\ \/ call.epoch # epoch /\ Refuse("stale")
       \/ call.epoch = epoch /\ At(node, Root) = {} /\ Refuse("failed")
       \/ call.epoch = epoch /\ At(node, Root) # {} /\ Refuse("refused")       \* a gate failed
       \/ \E box \in At(node, Root), out \in UNION {OutputNode(node, b) : b \in At(node, Root)} :
             /\ call.epoch = epoch
             /\ IF Front(call.target) \notin Networks \/ At(node, call.target) \ {box} # {} THEN Refuse("failed")
                ELSE LET renamed == [node EXCEPT ![box].name = Last(call.target)]
                         moved == [renamed EXCEPT ![box].in = Front(call.target)]
                     IN \/ /\ node' = Shown(moved, box, out)
                           /\ pc' = "committed" /\ UNCHANGED <<made, call, said, upset>>
                        \/ HomFails /\ Refuse("failed")                        \* setName raised
                        \/ /\ HomFails /\ Front(call.target) # Obj1           \* move raised
                           /\ \/ node' = RolledBack(renamed, box) /\ Fail("failed")
                              \/ node' = renamed /\ Fail("stranded")           \* and so did the way back
                           /\ UNCHANGED made
    /\ UNCHANGED <<rows, storeFailed, epoch, calls, edits>>

(* mutant: the rows keep the paths of the sandbox *)
MarkCommittedInPlace(rs, final) ==
    [i \in DOMAIN rs |-> IF rs[i].status = "sandbox" THEN [rs[i] EXCEPT !.status = "committed"] ELSE rs[i]]

MarkCommitted(rs, final) ==
    [i \in DOMAIN rs |-> IF rs[i].status = "sandbox"
                         THEN [rs[i] EXCEPT !.status = "committed",
                                            !.committed = final \o SubSeq(rs[i].path, Len(Root) + 1, Len(rs[i].path))]
                         ELSE rs[i]]
RecordCommit ==
    /\ pc = "committed"
    /\ IF storeFailed THEN UNCHANGED <<rows, storeFailed, upset>>
       ELSE \/ rows' = MarkCommitted(rows, call.target) /\ UNCHANGED <<storeFailed, upset>>
            \/ HomFails /\ StoreFails
    /\ pc' = "idle" /\ call' = NoCall /\ said' = "committed"
    /\ UNCHANGED <<node, made, epoch, calls, edits>>

-----------------------------------------------------------------------------
(* cleanup_nodes: classify by the ledger, check the wiring, delete, record *)

Cleanup(paths) ==
    /\ pc = "idle" /\ calls < MaxCalls
    /\ ~storeFailed
    /\ pc' = "topology"
    /\ LET byPath(p) == {i \in LiveRows : ScenePath(rows[i]) = p}
           last(p) == rows[CHOOSE i \in byPath(p) : \A j \in byPath(p) : j <= i]
           known == SelectSeq(paths, LAMBDA p : byPath(p) # {})
       IN call' = [tool |-> "cleanup", epoch |-> epoch,
                   sandbox |-> SelectSeq(known, LAMBDA p : last(p).status = "sandbox" /\ IsStrictPrefix(Root, p)),
                   asset |-> SelectSeq(known, LAMBDA p : last(p).status = "committed"),
                   allowed |-> {ScenePath(rows[i]) : i \in {j \in LiveRows : rows[j].status = "committed"}}]
    /\ calls' = calls + 1
    /\ UNCHANGED <<node, made, rows, storeFailed, said, upset, epoch, edits>>

(* A node whose consumer is not to be deleted stays *)
KeptForConsumers(s, p, chosen) == \E o \in At(s, p) : \E c \in Consumers(s, o) : Path(s)[c] \notin chosen

Topology ==
    /\ pc = "topology"
    /\ \/ call.epoch # epoch /\ Fail("stale")
       \/ /\ call.epoch = epoch
          /\ LET chosen == ToSet(call.sandbox) \cup ToSet(call.asset)
                 safe(p) == At(node, p) # {} /\ ~KeptForConsumers(node, p, chosen)
                 nested == SelectSeq(call.sandbox, safe)
                 deepest == SortSeq(nested, LAMBDA p, q : Len(p) > Len(q))
                 ops == [i \in DOMAIN deepest |-> [kind |-> "delete", node |-> SubSeq(deepest[i], Len(Root) + 1, Len(deepest[i]))]]
                 keep == [asset |-> SelectSeq(call.asset, safe), allowed |-> call.allowed, gone |-> ToSet(nested),
                          wires |-> [o \in Live(node) |-> node[o].input]]   \* for the property only
             IN IF nested # <<>> THEN StartExec("cleanup", ops, TRUE, keep)
                ELSE pc' = "delete" /\ call' = keep @@ [tool |-> "cleanup", epoch |-> epoch]
          /\ UNCHANGED <<said, upset>>
    /\ UNCHANGED <<node, made, rows, storeFailed, epoch, calls, edits>>

(* scratch.delete, path by path, the wiring checked once more against the requested set *)
DeleteNodes ==
    LET deleteOne(acc, p) ==
            IF p \in call.allowed /\ At(acc.scene, p) # {} /\ ~KeptForConsumers(acc.scene, p, ToSet(call.asset))
            THEN [scene |-> Destroyed(acc.scene, CHOOSE o \in At(acc.scene, p) : TRUE), gone |-> acc.gone \cup {p}]
            ELSE acc
    IN
    /\ pc = "delete"
    /\ \/ call.asset # <<>> /\ call.epoch # epoch /\ Fail("stale") /\ UNCHANGED <<node, made>>
       \/ /\ call.asset = <<>> \/ call.epoch = epoch
          /\ \E raising \in IF HomFails THEN SUBSET ToSet(call.asset) ELSE {{}} :
             LET done == FoldLeft(deleteOne, [scene |-> node, gone |-> call.gone],
                                  SelectSeq(call.asset, LAMBDA p : p \notin raising))
             IN /\ node' = done.scene /\ made' = made \cap Live(done.scene)
                /\ call' = [call EXCEPT !.gone = done.gone]
          /\ pc' = "cleaned" /\ UNCHANGED <<said, upset>>
    /\ UNCHANGED <<rows, storeFailed, epoch, calls, edits>>

RecordCleanup ==
    /\ pc = "cleaned"
    /\ \/ rows' = MarkDeleted(rows, call.gone) /\ UNCHANGED <<storeFailed, upset>>
       \/ HomFails /\ call.gone # {} /\ StoreFails
    /\ pc' = "idle" /\ call' = NoCall /\ said' = "ok"
    /\ UNCHANGED <<node, made, epoch, calls, edits>>

-----------------------------------------------------------------------------
(* scratch.destroy, and the artist *)

DestroySandbox ==
    /\ pc = "idle" /\ calls < MaxCalls
    /\ \E box \in At(node, Root) : node' = Destroyed(node, box)
    /\ made' = made \cap Live(node')
    /\ calls' = calls + 1 /\ upset' = TRUE
    /\ UNCHANGED <<pc, call, rows, storeFailed, said, epoch, edits>>

OnMainThread == pc \in {"exec", "raised"}

ArtistEdits ==
    /\ ~OnMainThread /\ edits < MaxEdits
    /\ \/ \E o \in made : /\ node[o].in \notin Networks
                          /\ node' = [node EXCEPT ![Free(node)] = [New(node[o].in, "artist") EXCEPT !.input = o]]
                          /\ At(node, Append(Path(node)[node[o].in], "artist")) = {}
                          /\ UNCHANGED <<made, epoch>>
       \/ \E o \in made : node' = Destroyed(node, o) /\ made' = made \cap Live(node') /\ UNCHANGED epoch
       \/ node' = [o \in Obj |-> None] /\ made' = {} /\ epoch' = epoch + 1
    /\ edits' = edits + 1 /\ upset' = TRUE
    /\ UNCHANGED <<pc, call, rows, storeFailed, said, calls>>

SandboxInit ==
    /\ node = [o \in Obj |-> None] /\ made = {}
    /\ pc = "idle" /\ call = NoCall /\ rows = <<>> /\ storeFailed = FALSE
    /\ said = "nothing" /\ upset = FALSE
    /\ epoch = 1 /\ calls = 0 /\ edits = 0

SandboxNext ==
    \/ \E b \in Batch, preserve \in BOOLEAN : Build(b, preserve)
    \/ BeginExec \/ ExecOp \/ EndExec \/ RecordBuild
    \/ \E t \in Target : Commit(t)
    \/ Promote \/ RecordCommit
    \/ \E paths \in Selection : Cleanup(paths)
    \/ Topology \/ DeleteNodes \/ RecordCleanup
    \/ DestroySandbox \/ ArtistEdits

-----------------------------------------------------------------------------
(* Properties *)

(* As long as no call has failed and the artist has kept out, every node   *)
(* the run has in the scene is on record under the path it has now, so     *)
(* that a clean-up can find it: through builds, promotion and deletions.   *)
(* A path that is used again closes the ledger for the rest of the run.    *)
Contents == {o \in made : node[o].in \notin Networks}
EveryNodeIsOnRecord ==
    (pc = "idle" /\ ~upset) =>
        storeFailed \/ {Path(node)[o] : o \in Contents} \subseteq {ScenePath(rows[i]) : i \in LiveRows}

(* Whatever fails and whoever edits, no two rows that clean-up may act on  *)
(* name one place in the scene: a node made again where an earlier one was *)
(* is not taken for it, nor marked deleted with it.                        *)
OneRowPerPlace ==
    \A i, j \in LiveRows : ScenePath(rows[i]) = ScenePath(rows[j]) => i = j

(* A commit that does not answer "committed" leaves the scene as it was,   *)
(* however its steps fail, unless it reports that the way back failed too. *)
CommitAllOrNothing ==
    [][(pc = "commit" /\ pc' = "idle" /\ said' # "stranded") => node' = node]_sandboxVars

(* The node shown after a promotion is the end of a chain: no other node   *)
(* of the asset is built from it.                                          *)
ShownIsSink ==
    pc = "committed" => \A o \in Live(node) :
        (node[o].shown /\ At(node, call.target) = {node[o].in} /\ edits = 0) => Consumers(node, o) = {}

(* Clean-up takes nothing that a remaining node is built from: the nodes   *)
(* that are left when it ends have the inputs they had when it began.      *)
CleanupCutsNothing ==
    pc = "cleaned" => \A o \in DOMAIN call.wires \cap Live(node) : node[o].input = call.wires[o]
=============================================================================
