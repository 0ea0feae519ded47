------------------------------ MODULE Executor ------------------------------
(***************************************************************************)
(* The transactional ChangeSet executor that runs inside Houdini           *)
(* (houdini_side/changeset_executor.py): preflight, the short write        *)
(* transaction with its journal of inverses, reconciliation, rollback, the *)
(* receipt and the freeze.                                                 *)
(*                                                                         *)
(* apply runs as one callable on the Houdini main thread, so nothing runs  *)
(* between its steps; between two calls the artist edits the scene.  What  *)
(* makes it hard is the HOM: any call that changes the scene may do        *)
(* something else than it was asked, and may raise before or after doing   *)
(* it.  The one assumption: createNode that raises has created nothing.    *)
(***************************************************************************)
EXTENDS ChangeContracts

CONSTANTS Obj,            \* node objects of the Houdini session
          Value,          \* parameter values
          FirstScene,     \* the scene before the first call
          Request,        \* the apply requests that may arrive
          StrayPath,      \* where Houdini puts a node it renames
          DefaultValue,   \* the value of a new node's parameter
          CacheMax,       \* _receipt_cache_max
          MaxEdits, MaxCalls

ASSUME ExecutorAssumption ==
    /\ \A r \in Request : ValidRequest(r)
    /\ \A r \in Request : \A op \in ToSet(r.cs.ops) : Is(op, "set") => op.new \in Value
    /\ CacheMax \in Nat \ {0} /\ MaxEdits \in Nat /\ MaxCalls \in Nat

VARIABLES scene,      \* Obj -> node record, or None for a node that is not there
          epoch,      \* the tracked scene epoch
          receipts,   \* the receipt cache, oldest first: [cs, status]
          frozen,     \* _write_frozen
          pc, req,    \* where the call stands, and its request
          before,     \* the scene when the transaction began
          journal,    \* inverses, in the order of the writes
          step,       \* the operation being executed
          results,    \* what the inverses reported, last write first
          said,       \* the answer of the last call
          edits, calls

vars == <<scene, epoch, receipts, frozen, pc, req, before, journal, step, results, said, edits, calls>>
call == <<req, before, journal, step, results>>

Node == [path : STRING, id : STRING \cup {None}, ws : STRING \cup {None}, facts : {"ok", "other", "unset"},
         locked : BOOLEAN, parm : Value, wire : Obj \cup {None}]

-----------------------------------------------------------------------------
(* Reading the scene *)

Live(s) == {o \in DOMAIN s : s[o] # None}
At(s, p) == {o \in Live(s) : s[o].path = p}
Mirrors(s, i) == {o \in Live(s) : s[o].id = i}
Free(s) == {o \in Obj : s[o] = None}
NewObj(s) == CHOOSE o \in Free(s) : TRUE

(* A path is the path of one node, and an input is fed by a node that is there *)
SceneOK(s) ==
    /\ s \in [Obj -> Node \cup {None}]
    /\ \A o, q \in Live(s) : s[o].path = s[q].path => o = q
    /\ \A o \in Live(s) : s[o].wire # None => s[o].wire \in Live(s)

ASSUME SceneAssumption ==
    /\ IsFiniteSet(Obj) /\ SceneOK(FirstScene) /\ DefaultValue \in Value /\ StrayPath \in STRING
    /\ None \notin Obj \cup Node \cup STRING \cup [id : STRING \cup {None}, path : STRING, ws : STRING \cup {None}]

(* Stable id first, then the path; more than one mirror is an ambiguity *)
Resolve(s, ref) ==
    IF ref.id = None \/ Mirrors(s, ref.id) = {} THEN At(s, ref.path) ELSE Mirrors(s, ref.id)

(* The reference a wire is read back as *)
SourceRef(s, src) == IF src = None \/ s[src] = None THEN None ELSE Ref(s[src].id, s[src].path, s[src].ws)

WireEqual(actual, expected) ==
    IF expected = None \/ actual = None THEN actual = expected
    ELSE /\ actual.path = expected.path
         /\ expected.id # None => actual.id = expected.id
         /\ expected.ws # None => actual.ws = expected.ws

IdentityHolds(s, o, ref) ==
    /\ s[o].path = ref.path
    /\ s[o].facts # "other"
    /\ ref.id # None => s[o].id = ref.id
    /\ ref.ws # None => s[o].ws = ref.ws

-----------------------------------------------------------------------------
(* Preflight: everything that is verified before the first write *)

CollectedRefs(cs) ==
    cs.affected \cup cs.reads
    \cup UNION {IF Is(op, "create") THEN {op.parent, CreatedRef(op)} ELSE OpRefs(op) \ {IF Is(op, "connect") THEN op.old ELSE None} : op \in ToSet(cs.ops)}
    \cup UNION {CASE Is(c, "identity") -> {c.node} [] Is(c, "parm") -> {c.target} [] Is(c, "wire") -> {c.target} [] OTHER -> {} : c \in cs.pre}

(* Preflight resolves an owned reference by its id only, an external one by its path only *)
PreflightNodes(ref) == IF ref.id = None THEN At(scene, ref.path) ELSE Mirrors(scene, ref.id)

ExistingVerified(ref, ws) ==
    \E o \in PreflightNodes(ref) :
        /\ Cardinality(PreflightNodes(ref)) = 1
        /\ scene[o].facts = "ok"
        /\ ref.id # None =>
             /\ LET expected == IF ref.ws # None THEN ref.ws ELSE IF ws # None THEN ws.id ELSE None
                IN expected # None => scene[o].ws = expected
             /\ ws # None => \E n \in ws.nodes : n.id = ref.id /\ n.path = scene[o].path

CreateTargetFree(ref) == PreflightNodes(ref) = {} /\ At(scene, ref.path) = {}

(* The facts a condition is compared with, read where the reference resolves now *)
ParmFacts(s, ref) == {s[o].parm : o \in Resolve(s, ref)}
WireFacts(s, ref) == {SourceRef(s, s[o].wire) : o \in Resolve(s, ref)}

ConditionHolds(c, s, ws) ==
    \/ Is(c, "binding")  /\ epoch = c.epoch
    \/ Is(c, "revision") /\ ws # None /\ ws.id = c.ws /\ ws.rev = c.rev
    \/ Is(c, "identity") /\ \E o \in Resolve(s, c.node) : IdentityHolds(s, o, c.node)
    \/ Is(c, "parm")     /\ c.value \in ParmFacts(s, c.target)
    \/ Is(c, "wire")     /\ \E fact \in WireFacts(s, c.target) : WireEqual(fact, c.source)
    \/ Is(c, "absent")   /\ At(s, c.path) = {}

Preflight(r) ==
    /\ epoch = r.epoch
    /\ \A ref \in CollectedRefs(r.cs) :
          IF ref.id \in CreatedIds(r.cs.ops) THEN CreateTargetFree(ref) ELSE ExistingVerified(ref, r.ws)
    /\ \A c \in r.cs.pre : ConditionHolds(c, scene, r.ws)

LockedPaths(cs) == {ref.path : ref \in {q \in CollectedRefs(cs) : \E o \in PreflightNodes(q) : scene[o].locked}}

(* The change carries every fact the executor derives from its operations *)
CoversMandatory(r) ==
    /\ MandatoryPreconditions(r.cs.ops, r.cs.epoch, r.ws) \subseteq r.cs.pre
    /\ MandatoryPostconditions(r.cs.ops) \subseteq r.cs.post
    /\ MandatoryCheckpoint(r.cs.ops) \subseteq r.cs.checkpoint

Admissible(r) ==
    /\ ~r.cs.risk.backup
    /\ Preflight(r)
    /\ (ChangedTargets(r.cs.ops) \cup WireSources(r.cs.ops)) \cap {q \in CollectedRefs(r.cs) : q.path \in LockedPaths(r.cs)} = {}
    /\ CoversMandatory(r)
    /\ Denials(r.cs, r.ws, LockedPaths(r.cs)) = {}

-----------------------------------------------------------------------------
(* The receipt cache *)

Cached(cs) == {i \in DOMAIN receipts : receipts[i].cs = cs}
Conflicting(cs) == \E i \in DOMAIN receipts : receipts[i].cs.id = cs.id /\ receipts[i].cs # cs

Cache(status) ==
    LET all == Append(receipts, [cs |-> req.cs, status |-> status])
    IN receipts' = IF Len(all) > CacheMax THEN Tail(all) ELSE all

-----------------------------------------------------------------------------
(* One call of apply *)

Answer(status) == said' = status /\ pc' = "idle" /\ UNCHANGED <<scene, frozen, receipts>> /\ UNCHANGED call

(* Frozen, replayed, in conflict or not admissible: answered without a write *)
ApplyWithoutWrite(r) ==
    /\ pc = "idle" /\ calls < MaxCalls
    /\ \/ frozen /\ Answer("refused")
       \/ ~frozen /\ \E i \in Cached(r.cs) :
              Answer(IF receipts[i].status = "Applied" THEN "AlreadyApplied" ELSE receipts[i].status)
       \/ ~frozen /\ Cached(r.cs) = {} /\ (Conflicting(r.cs) \/ ~Admissible(r)) /\ Answer("refused")
    /\ calls' = calls + 1
    /\ UNCHANGED <<epoch, edits>>

BeginTransaction(r) ==
    /\ pc = "idle" /\ calls < MaxCalls /\ ~frozen
    /\ Cached(r.cs) = {} /\ ~Conflicting(r.cs)
    /\ Admissible(r)
    /\ pc' = "execute" /\ req' = r /\ before' = scene
    /\ journal' = <<>> /\ step' = 1 /\ results' = <<>>
    /\ calls' = calls + 1
    /\ UNCHANGED <<scene, epoch, receipts, frozen, said, edits>>

Op == req.cs.ops[step]
CreatedHere(ref) == ref.id \in CreatedIds(req.cs.ops)

(* A node created by this transaction is used only while its whole identity is intact *)
Usable(ref, o) == CreatedHere(ref) => IdentityHolds(scene, o, ref) /\ scene[o].facts = "ok" /\ scene[o].ws = ref.ws

(* The operation raised: on to the rollback *)
Raise == pc' = "rollback" /\ step' = step
Proceed == IF step = Len(req.cs.ops) THEN pc' = "reconcile" /\ step' = step ELSE pc' = "execute" /\ step' = step + 1

NewNode(i, p, w, f) ==
    [path |-> p, id |-> i, ws |-> w, facts |-> f, locked |-> FALSE, parm |-> DefaultValue, wire |-> None]

(* createNode, its inverse in the journal, then the six ownership keys one by one, the id first *)
ExecuteCreate ==
    /\ pc = "execute" /\ Is(Op, "create")
    /\ \/ /\ ~\E o \in Resolve(scene, Op.parent) : Cardinality(Resolve(scene, Op.parent)) = 1 /\ Usable(Op.parent, o)
          /\ Raise /\ UNCHANGED <<scene, journal>>
       \/ \E parent \in Resolve(scene, Op.parent) :
          /\ Cardinality(Resolve(scene, Op.parent)) = 1 /\ Usable(Op.parent, parent)
          /\ \/ Raise /\ UNCHANGED <<scene, journal>>
             \/ LET o == NewObj(scene) IN
                \E p \in {q \in {Op.path, StrayPath} : At(scene, q) = {}}, keys \in 0 .. 3 :
                /\ Free(scene) # {}
                /\ scene' = [scene EXCEPT ![o] = NewNode(IF keys > 0 THEN Op.id ELSE None, p,
                                 IF keys > 1 THEN Op.ws ELSE None, IF keys > 2 THEN "ok" ELSE "unset")]
                /\ journal' = Append(journal, [tag |-> "create", obj |-> o, path |-> Op.path, id |-> Op.id, ws |-> Op.ws])
                /\ IF keys = 3 THEN Proceed ELSE Raise
    /\ UNCHANGED <<epoch, receipts, frozen, req, before, results, said, edits, calls>>

(* What a write of slot f of node o may leave behind: any value, raising or not *)
HomWrite(s, o, f, domain) ==
    {[scene |-> [s EXCEPT ![o][f] = v], raised |-> b] : v \in domain, b \in BOOLEAN}

(* mutant: the inverse is journaled only once the write has returned *)
ExecuteSetParmLateJournal ==
    /\ pc = "execute" /\ Is(Op, "set")
    /\ LET nodes == Resolve(scene, Op.target)
           ready == {o \in nodes : Cardinality(nodes) = 1 /\ Usable(Op.target, o) /\ scene[o].parm = Op.old}
       IN \/ ready = {} /\ Raise /\ UNCHANGED <<scene, journal>>
          \/ \E o \in ready : \E w \in HomWrite(scene, o, "parm", Value) :
                /\ journal' = IF w.raised THEN journal
                              ELSE Append(journal, [tag |-> "parm", ref |-> Op.target, old |-> scene[o].parm])
                /\ scene' = w.scene
                /\ IF w.raised THEN Raise ELSE Proceed
    /\ UNCHANGED <<epoch, receipts, frozen, req, before, results, said, edits, calls>>

ExecuteSetParm ==
    /\ pc = "execute" /\ Is(Op, "set")
    /\ LET nodes == Resolve(scene, Op.target)
           ready == {o \in nodes : Cardinality(nodes) = 1 /\ Usable(Op.target, o) /\ scene[o].parm = Op.old}
       IN \/ ready = {} /\ Raise /\ UNCHANGED <<scene, journal>>
          \/ \E o \in ready : \E w \in HomWrite(scene, o, "parm", Value) :
                /\ journal' = Append(journal, [tag |-> "parm", ref |-> Op.target, old |-> scene[o].parm])
                /\ scene' = w.scene
                /\ IF w.raised THEN Raise ELSE Proceed
    /\ UNCHANGED <<epoch, receipts, frozen, req, before, results, said, edits, calls>>

ExecuteConnect ==
    /\ pc = "execute" /\ Is(Op, "connect")
    /\ LET targets == Resolve(scene, Op.target)
           sources == Resolve(scene, Op.source)
           ready == {o \in targets :
                       /\ Cardinality(targets) = 1 /\ Cardinality(sources) = 1
                       /\ Usable(Op.target, o) /\ \A q \in sources : Usable(Op.source, q)
                       /\ WireEqual(SourceRef(scene, scene[o].wire), Op.old)
                       /\ (Op.old # None /\ CreatedHere(Op.old)) =>
                              \E q \in Resolve(scene, Op.old) : Usable(Op.old, q)}
       IN \/ ready = {} /\ Raise /\ UNCHANGED <<scene, journal>>
          \/ \E o \in ready : \E w \in HomWrite(scene, o, "wire", sources \cup {scene[o].wire, None}) :
                /\ journal' = Append(journal, [tag |-> "wire", ref |-> Op.target, old |-> SourceRef(scene, scene[o].wire)])
                /\ scene' = w.scene
                /\ IF w.raised THEN Raise ELSE Proceed
    /\ UNCHANGED <<epoch, receipts, frozen, req, before, results, said, edits, calls>>

(* The scene is read again: every postcondition holds, or the reading itself fails *)
PostconditionsHold == \A c \in req.cs.post : ConditionHolds(c, scene, req.ws)

Reconcile ==
    /\ pc = "reconcile"
    /\ \/ /\ PostconditionsHold
          /\ Cache("Applied") /\ said' = "Applied" /\ pc' = "idle"
       \/ pc' = "rollback" /\ UNCHANGED <<receipts, said>>
    /\ UNCHANGED <<scene, epoch, frozen, edits, calls>> /\ UNCHANGED call

-----------------------------------------------------------------------------
(* Rollback: the inverses in strict reverse order, each one verified *)

LastInverse == journal[Len(journal)]

(* A destroyed node leaves the inputs it fed *)
Destroyed(s, o) == [q \in DOMAIN s |-> IF q = o THEN None
                                       ELSE IF s[q] # None /\ s[q].wire = o THEN [s[q] EXCEPT !.wire = None] ELSE s[q]]

(* Destroyed only at its own path and with no key that says otherwise *)
RollbackCreate ==
    LET o == LastInverse.obj
        ours == /\ scene[o].path = LastInverse.path
                /\ scene[o].id \in {None, LastInverse.id} /\ scene[o].ws \in {None, LastInverse.ws}
                /\ scene[o].facts # "other"
    IN IF ours
       THEN \/ scene' = Destroyed(scene, o) /\ results' = Append(results, At(Destroyed(scene, o), LastInverse.path) = {})
            \/ scene' \in {scene, Destroyed(scene, o)} /\ results' = Append(results, FALSE)
       ELSE scene' = scene /\ results' = Append(results, FALSE)

RollbackParm ==
    LET nodes == Resolve(scene, LastInverse.ref) IN
    \/ \E o \in nodes : \E w \in HomWrite(scene, o, "parm", Value) :
          /\ scene' = w.scene
          /\ results' = Append(results, ~w.raised /\ w.scene[o].parm = LastInverse.old)
    \/ nodes = {} /\ scene' = scene /\ results' = Append(results, FALSE)

RollbackWire ==
    LET nodes == Resolve(scene, LastInverse.ref)
        old == IF LastInverse.old = None THEN {None} ELSE Resolve(scene, LastInverse.old)
    IN \/ \E o \in nodes : \E w \in HomWrite(scene, o, "wire", old \cup {scene[o].wire, None}) :
             /\ old # {}
             /\ scene' = w.scene
             /\ results' = Append(results, ~w.raised /\ WireEqual(SourceRef(w.scene, w.scene[o].wire), LastInverse.old))
       \/ (nodes = {} \/ old = {}) /\ scene' = scene /\ results' = Append(results, FALSE)

RollbackOne ==
    /\ pc = "rollback" /\ journal # <<>>
    /\ \/ LastInverse.tag = "create" /\ RollbackCreate
       \/ LastInverse.tag = "parm" /\ RollbackParm
       \/ LastInverse.tag = "wire" /\ RollbackWire
    /\ journal' = Front(journal)
    /\ UNCHANGED <<epoch, receipts, frozen, pc, req, before, step, said, edits, calls>>

(* mutant: one restored slot is taken for all of them *)
ClassifyHopeful(rs, ok) ==
    IF ~ok THEN "CriticalRecovery"
    ELSE IF rs = <<>> \/ \E i \in DOMAIN rs : rs[i] THEN "RolledBack"
    ELSE "CriticalRecovery"

Classify(rs, ok) ==
    IF ~ok THEN "CriticalRecovery"
    ELSE IF \A i \in DOMAIN rs : rs[i] THEN "RolledBack"
    ELSE IF \A i \in DOMAIN rs : ~rs[i] THEN "CriticalRecovery"
    ELSE "Partial"

(* The rollback has run, or the scene could not even be indexed for it *)
FinishRollback ==
    /\ pc = "rollback"
    /\ \E ok \in {TRUE, FALSE} :
         /\ ok => journal = <<>>
         /\ ~ok => results = <<>>
         /\ LET status == Classify(results, ok) IN
              /\ frozen' = (frozen \/ status # "RolledBack")
              /\ Cache(status) /\ said' = status
    /\ pc' = "idle"
    /\ UNCHANGED <<scene, epoch, edits, calls>> /\ UNCHANGED call

-----------------------------------------------------------------------------
(* The artist, between two calls *)

EditsOf(s) ==
    {[s EXCEPT ![o].parm = v] : o \in Live(s), v \in Value}
    \cup {[s EXCEPT ![o].locked = TRUE] : o \in Live(s)}
    \cup {[s EXCEPT ![o].path = StrayPath] : o \in {x \in Live(s) : At(s, StrayPath) = {}}}
    \cup {[s EXCEPT ![o].facts = "other"] : o \in Live(s)}
    \cup {Destroyed(s, o) : o \in Live(s)}
    \cup {[s EXCEPT ![c] = [s[o] EXCEPT !.path = StrayPath]] :
             c \in {f \in Free(s) : f = NewObj(s)}, o \in {x \in Live(s) : At(s, StrayPath) = {}}}

UserEdits ==
    /\ pc = "idle" /\ edits < MaxEdits
    /\ \/ scene' \in EditsOf(scene) \ {scene} /\ UNCHANGED epoch
       \/ scene' = FirstScene /\ epoch' = epoch + 1     \* another scene is loaded
    /\ edits' = edits + 1
    /\ UNCHANGED <<receipts, frozen, pc, said, calls>> /\ UNCHANGED call

Init ==
    /\ scene = FirstScene /\ epoch = 1 /\ receipts = <<>> /\ frozen = FALSE
    /\ pc = "idle" /\ req = None /\ before = FirstScene
    /\ journal = <<>> /\ step = 1 /\ results = <<>>
    /\ said = "nothing" /\ edits = 0 /\ calls = 0

Next ==
    \/ \E r \in Request : ApplyWithoutWrite(r) \/ BeginTransaction(r)
    \/ ExecuteCreate \/ ExecuteSetParm \/ ExecuteConnect \/ Reconcile
    \/ RollbackOne \/ FinishRollback
    \/ UserEdits

Spec == Init /\ [][Next]_vars

-----------------------------------------------------------------------------
(* Properties *)

TypeOK ==
    /\ scene \in [Obj -> Node \cup {None}]
    /\ epoch \in 1 .. MaxEdits + 1
    /\ receipts \in BoundedSeq([cs : {r.cs : r \in Request}, status : {"Applied", "RolledBack", "Partial", "CriticalRecovery"}], CacheMax)
    /\ pc \in {"idle", "execute", "reconcile", "rollback"}
    /\ req \in Request \cup {None}
    /\ Len(journal) <= step /\ Len(results) <= step
    /\ calls \in 0 .. MaxCalls /\ edits \in 0 .. MaxEdits

(* What a request makes of a scene when every HOM call does what it is asked *)
Effect(s, op) ==
    IF Is(op, "create")
    THEN [s EXCEPT ![NewObj(s)] = NewNode(op.id, op.path, op.ws, "ok")]
    ELSE [o \in Obj |-> IF o \notin Resolve(s, op.target) THEN s[o]
                        ELSE IF Is(op, "set") THEN [s[o] EXCEPT !.parm = op.new]
                        ELSE [s[o] EXCEPT !.wire = CHOOSE q \in Resolve(s, op.source) : TRUE]]
Stages(r, s) ==
    LET after[k \in 0 .. Len(r.cs.ops)] == IF k = 0 THEN s ELSE Effect(after[k - 1], r.cs.ops[k])
    IN after
TargetScene(r, s) == Stages(r, s)[Len(r.cs.ops)]

(* apply is a transaction: it writes the whole change, or nothing is left  *)
(* of it, or it reports an uncertain scene and freezes further changes;    *)
(* while it runs nobody sees the scene.                                    *)
Transaction == INSTANCE SceneTransaction WITH
    scene <- IF pc = "idle" THEN scene ELSE before,
    asked <- req,
    Target <- TargetScene
ImplementsTransaction == Transaction!Spec

(* At every point of a transaction the journal knows the way back: undoing *)
(* the oldest entry of each slot it names gives the scene the transaction  *)
(* began with, however the HOM misbehaved, as long as no inverse failed.   *)
EntriesFor(tag, o) ==
    {i \in DOMAIN journal : journal[i].tag = tag /\ o \in Resolve(before, journal[i].ref)}
Oldest(S) == CHOOSE i \in S : \A j \in S : i <= j
JournalUndoes ==
    (pc # "idle" /\ \A i \in DOMAIN results : results[i]) =>
        \A o \in Obj :
            IF before[o] = None
            THEN scene[o] # None => \E i \in DOMAIN journal : journal[i].tag = "create" /\ journal[i].obj = o
            ELSE /\ scene[o] # None
                 /\ \A f \in {"path", "id", "ws", "facts", "locked"} : scene[o][f] = before[o][f]
                 /\ before[o].parm = IF EntriesFor("parm", o) = {} THEN scene[o].parm
                                     ELSE journal[Oldest(EntriesFor("parm", o))].old
                 /\ SourceRef(before, before[o].wire) =
                        IF EntriesFor("wire", o) = {} THEN SourceRef(scene, scene[o].wire)
                        ELSE journal[Oldest(EntriesFor("wire", o))].old

(* A transaction touches only what the change names, and in an owned       *)
(* workspace only what the workspace owns and nobody has locked: not even  *)
(* when ids were copied, nodes renamed or other scenes loaded meanwhile.   *)
WritesStayInside ==
    pc # "idle" => \A o \in Obj : (scene[o] # before[o] /\ before[o] # None) =>
        /\ ~before[o].locked
        /\ \E r \in req.cs.affected : r.path = before[o].path
        /\ req.cs.mode = "OwnedWorkspace" =>
               before[o].ws = req.ws.id /\ before[o].id \in {n.id : n \in req.ws.nodes}
=============================================================================
