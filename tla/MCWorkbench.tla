----------------------------- MODULE MCWorkbench -----------------------------
(***************************************************************************)
(* What the artist works with, for TLC: the panel and the launch of its    *)
(* Runtime, the agent's loop, the compiler of modeling proposals, the      *)
(* evidence taken of an applied change, and the knowledge cache.  They     *)
(* share no state here: a behaviour is a behaviour of one of them, chosen  *)
(* at the start.                                                           *)
(***************************************************************************)
EXTENDS Panel

CONSTANTS
    s1, s2, d1, d2, NoDigest,
    Change, Made, Numeric, MaxEdits, MaxCrashes, MaxJoins,   \* of Evidence
    Corpora                                                  \* of Knowledge

VARIABLES
    part,
    worker, child, outcome, box, closing, ui, owned,
    menu, msgs, node, steps, writes, issued,
    spec, context, manifest, scene, proposed, tool, result, count,
    opened, facts, row, pc, results, capture, vision, seen, log, edits, crashes, joins,
    busy, source, todo, draft, cache, due, ready

launchVars == <<worker, child, outcome, box, closing, ui, owned>>
agentVars == <<menu, msgs, node, steps, writes, issued>>
compilerVars == <<spec, context, manifest, scene, proposed, tool, result, count>>
evidenceVars == <<opened, facts, row, pc, results, capture, vision, seen, log, edits,
                  crashes, joins>>
knowledgeVars == <<busy, source, todo, draft, cache, due, ready>>

-----------------------------------------------------------------------------
(* The panel opens on a Runtime with one finished conversation, on an      *)
(* empty one, and on the placeholder that an earlier Houdini left.         *)

Start(old, untitled, preferred, auto, past, clicks) ==
    [old |-> old, untitled |-> untitled, preferred |-> preferred, auto |-> auto,
     past |-> past, ops |-> clicks]
MCStarts ==
    {Start({s1}, {}, s1, FALSE, "Failed", 2), Start({}, {}, None, TRUE, "none", 1),
     Start({s1}, {s1}, None, FALSE, "none", 1)}

-----------------------------------------------------------------------------
(* The model's turns: design, review and building, for two requests; then  *)
(* calls of every form, without a gate in their way, among them one that   *)
(* comes again under the id it had.                                        *)

ToolCall(name, operations, digest) ==
    [tool |-> name, ops |-> operations, digest |-> digest, asks |-> FALSE, complete |-> TRUE,
     malformed |-> FALSE, anonymous |-> FALSE, id |-> 0]
Brief(d) == ToolCall("prepare_modeling_brief", "none", d)
Question(d) == [Brief(d) EXCEPT !.asks = TRUE, !.complete = FALSE]
Render(d) == ToolCall("render_sketch", "none", d)
Build(operations) == ToolCall("scratch_build", operations, NoDigest)
Malformed(anonymous) == [Build("raw") EXCEPT !.malformed = TRUE, !.anonymous = anonymous]
Again == [Malformed(FALSE) EXCEPT !.id = 2]

Task == [task |-> TRUE, approves |-> FALSE]
Approval == [task |-> FALSE, approves |-> TRUE]
Other == [task |-> FALSE, approves |-> FALSE]

Gated ==
    [turns |-> {<<>>, <<Brief(d1)>>, <<Render(d1)>>, <<Build("a")>>, <<Brief(d2), Render(d1)>>,
                <<Render(d1), Build("a")>>},
     said |-> {Task, Approval}, size |-> 8, runs |-> 3]
Stormy ==
    [turns |-> {<<>>, <<Question(d1)>>, <<Build("a")>>, <<Build("b")>>, <<Malformed(FALSE)>>,
                <<ToolCall("scratch_commit", "target", NoDigest)>>,
                <<Build("a"), Malformed(TRUE)>>, <<Malformed(TRUE), Malformed(TRUE)>>,
                <<Again>>, <<Question(d1), Again>>},
     said |-> {Task, Other}, size |-> 7, runs |-> 2]
MenusOfTurns == {Gated, Stormy}

-----------------------------------------------------------------------------
(* Specs of three nodes in two components, with every parent inside a      *)
(* container that is declared first or last and every wire, each sent      *)
(* alone, as are two chains over the budgets of nodes and of operations;   *)
(* and one of them sent beside a chain that fits in, or that is over the   *)
(* budget of conditions first and over the payload a change may have next. *)

Catalogue ==
    LET zero == [shape |-> "number", value |-> 0]
    IN [geo |-> [parents |-> TRUE, inputs |-> 0, default |-> None],
        sop |-> [parents |-> FALSE, inputs |-> 1, default |-> zero]]
ModelingRuns == {"r1", "r2", "r3"}
SessionOfRun == [r1 |-> "s1", r2 |-> "s1", r3 |-> "s2"]

Triple(types, parents, wires, deps) ==
    [key |-> ToString(<<types, parents, wires, deps>>), deps |-> deps,
     nodes |-> [i \in 1..3 |->
                   [comp |-> IF i = 3 THEN "B" ELSE "A", name |-> <<"x", "y", "z">>[i],
                    type |-> types[i], parent |-> parents[i], source |-> wires[i],
                    parm |-> IF i = 2 THEN [shape |-> "number", value |-> 1] ELSE None]]]
Wires == {w \in [1..3 -> 0..3] : w[1] \in {0, 3} /\ w[2] # 2 /\ w[3] # 3}
BFirst == [A |-> {"B"}, B |-> {}]
AFirst == [A |-> {}, B |-> {"A"}]
GeoFirst == <<"geo", "sop", "sop">>
GeoLast == <<"sop", "sop", "geo">>
Chain(length, set) ==
    [key |-> ToString(<<length, set>>), deps |-> [A |-> {}],
     nodes |-> [i \in 1..length |->
                   [comp |-> "A", name |-> <<"p", "q", "r", "s", "t">>[i], type |-> "sop",
                    parent |-> 0, source |-> i - 1,
                    parm |-> IF i <= set THEN [shape |-> "number", value |-> 2] ELSE None]]]
SpecsOfThree ==
    {Triple(GeoFirst, parents, w, AFirst) : parents \in [1..3 -> {0, 1}], w \in Wires}
    \cup {Triple(GeoLast, parents, w, BFirst) : parents \in [1..3 -> {0, 3}], w \in Wires}
    \cup {Triple(GeoFirst, parents, <<0, 0, 0>>, BFirst) : parents \in [1..3 -> {0, 1}]}
    \cup {Triple(GeoLast, parents, <<0, 0, 0>>, AFirst) : parents \in [1..3 -> {0, 3}]}
    \cup {Triple(GeoLast, <<0, 1, 0>>, <<0, 0, 0>>, [A |-> {}, B |-> {}]),
          Triple(GeoFirst, <<0, 0, 0>>, <<0, 0, 0>>, [A |-> {"B"}, B |-> {"A"}])}
Network == Triple(GeoFirst, <<0, 1, 1>>, <<0, 0, 2>>, AFirst)
SpecsSent ==
    {{s} : s \in SpecsOfThree \cup {Chain(4, 4), Chain(5, 0)}}
    \cup {{Network, Chain(1, 1)}, {Network, Chain(4, 1)}}

-----------------------------------------------------------------------------
(* A change that made a container with an input and an output *)

MCChange == {"c1"}
MCMade == [c1 |-> [nodes |-> {"root", "in", "out"}, containers |-> {"root"}, sources |-> {"in"}]]

-----------------------------------------------------------------------------
(* Pages about an operator of today, of version 1.0 and of before; about   *)
(* another that calls itself box internally; about functions of the same   *)
(* name, one of them twice, a skill, a class, and a function of Python.    *)

Page(name, version, documented, internal, title, refs) ==
    [kind |-> "node", name |-> name, version |-> version, documented |-> documented,
     internal |-> internal, title |-> title, refs |-> refs]
Refer(predicate, kind, target) == [predicate |-> predicate, kind |-> kind, target |-> target]
ToBox == Refer("references", "node", <<"box">>)
Pages == <<
    Page("box", "legacy", "1.0", <<"box">>, <<"box">>, {ToBox}),
    Page("box", "1.0", None, None, <<"box">>, {Refer("includes", None, <<"sop", "box">>)}),
    Page("cube", "current", "2.0", <<"box">>, <<"Box">>,
         {ToBox, Refer("references", "node", <<"box", "1.0">>)}),
    [kind |-> "vex", name |-> "box", title |-> <<"Box">>,
     refs |-> {Refer("related_to", None, <<"box">>), Refer("references", "node", <<"Box">>)}],
    [kind |-> "vex", name |-> "box", title |-> <<"other">>, refs |-> {}],
    Page("box", "current", None, None, <<"Box">>,
         {Refer("references", "hom", <<"hou.Box", "#", "size">>)}),
    [kind |-> "skill", name |-> "boxes", title |-> <<"Boxes">>,
     refs |-> {Refer("references", "vex", <<"box">>), Refer("references", None, <<"box">>)}],
    [kind |-> "hom_class", name |-> "hou.Box", short |-> <<"Box">>, methods |-> {"size"},
     refs |-> {Refer("inherits_from", None, <<"hou.Solid">>),
               Refer("references", "hom", <<"hou.Box", "#", "gone">>)}],
    [kind |-> "hom_function", name |-> "hou.box", short |-> <<"box">>, methods |-> {"size"},
     refs |-> {Refer("references", "hom", <<"hou.box", "#", "size">>)}]>>
Corpus(absent, inventory) ==
    [pages |-> SelectSeq(Pages, LAMBDA x : x \notin absent), inventory |-> inventory]
MCCorpora ==
    {Corpus(absent, {<<"box">>, <<"cube", "2.0">>}) : absent \in SUBSET {Pages[i] : i \in 1..5}}
    \cup {Corpus(absent \cup {Pages[5]}, {}) : absent \in SUBSET {Pages[i] : i \in 1..3}}

-----------------------------------------------------------------------------
L == INSTANCE PanelLaunch
A == INSTANCE AgentLoop WITH
    Digest <- {d1, d2}, Menus <- MenusOfTurns, RepairLimit <- 2, Soft <- 2, Hard <- 3,
    Window <- 3, RecursionLimit <- 3
C == INSTANCE Compiler WITH
    Run <- ModelingRuns, SessionOf <- SessionOfRun, Specs <- SpecsSent,
    Limits <- [operations |-> 9, conditions |-> 8, refs |-> 9, payload |-> 26],
    Catalog <- Catalogue, NodeBudget <- 5, Epoch <- 1, Repeats <- 1, outcome <- result
E == INSTANCE Evidence
K == INSTANCE Knowledge

\* None is neither a report nor a row, and what is asked of a page's name
ASSUME NoneAssumption ==
    /\ None \notin [passed : BOOLEAN, long : BOOLEAN]
    /\ None \notin [change : Change, accepted : BOOLEAN]
ASSUME CorpusAssumption == \A corpus \in Corpora : K!CorpusOK(corpus)

\* Every part at its beginning; a part that does not run has one beginning
MCInit ==
    /\ part \in {"panel", "launch", "agent", "compiler", "evidence", "knowledge"}
    /\ L!LaunchInit /\ E!Init /\ K!KnowledgeInit
    /\ IF part = "panel" THEN Init ELSE p = None /\ rt = None /\ ops = 0
    /\ IF part = "agent" THEN A!Init
       ELSE /\ menu = Gated /\ msgs = <<>> /\ node = "done" /\ steps = 0 /\ writes = {}
            /\ issued = <<>>
    /\ IF part = "compiler" THEN C!Init
       ELSE /\ spec = None /\ context = None /\ manifest = None /\ scene = None
            /\ proposed = None /\ tool = None /\ result = None /\ count = 0

MCNext ==
    /\ UNCHANGED part
    /\ \/ /\ part = "panel" /\ Next
          /\ UNCHANGED <<launchVars, agentVars, compilerVars, evidenceVars, knowledgeVars>>
       \/ /\ part = "launch" /\ L!LaunchNext
          /\ UNCHANGED <<vars, agentVars, compilerVars, evidenceVars, knowledgeVars>>
       \/ /\ part = "agent" /\ A!Next
          /\ UNCHANGED <<vars, launchVars, compilerVars, evidenceVars, knowledgeVars>>
       \/ /\ part = "compiler" /\ C!Next
          /\ UNCHANGED <<vars, launchVars, agentVars, evidenceVars, knowledgeVars>>
       \/ /\ part = "evidence" /\ E!Next
          /\ UNCHANGED <<vars, launchVars, agentVars, compilerVars, knowledgeVars>>
       \/ /\ part = "knowledge" /\ K!KnowledgeNext
          /\ UNCHANGED <<vars, launchVars, agentVars, compilerVars, evidenceVars>>

MCSpec ==
    MCInit /\ [][MCNext]_<<part, vars, launchVars, agentVars, compilerVars, evidenceVars,
                           knowledgeVars>>

-----------------------------------------------------------------------------
\* Panel: with nothing on its way, what the panel shows is the session it says as far
\* as the Runtime has come, and Send is enabled unless that session has a run
\* (_on_snapshot, _handle_event, _on_connection, _handle_response).
PanelKeepsUp == part = "panel" => ProjectionIsCurrent /\ ComposerNeverWedges

\* Panel: no card of a run of one session is shown in another, the result of the last run
\* is shown, whichever of answer and terminal status came first, however switches,
\* snapshots, replays and late commands overtake one another, and no result is shown twice
\* but an error or a notice that a replay and its own snapshot both draw (_on_session,
\* _replay_history, _maybe_render_output).
CardsAreRight == part = "panel" => SessionsDoNotMix /\ LastResultIsShown /\ ResultsAreShownOnce

\* PanelLaunch: a Runtime that the window spawned does not outlive it, wherever in the
\* launch the window was closed (backend_launcher).
SpawnedIsReaped == L!SpawnedIsReaped

\* AgentLoop: "a procedural/parametric request must compile a ready modeling brief" and "a
\* later Human message must explicitly approve that rendered sketch" before a write: each
\* request of the session, not only its first (html_workflow_guard.py).
EachRequestIsReviewed == part = "agent" => A!EachRequestIsReviewed

\* AgentLoop: every call is answered, one that could not be parsed too until its id has
\* been answered RepairLimit times, and a storm of equal writing calls brings a directive
\* into the next turn, then the directive to stop; neither guard refuses anything (the
\* tool-call guard and the loop guard).
GuardsAnswer == part = "agent" => A!MalformedIsAnswered /\ A!StormIsSteered

\* Compiler: the checks behind the compiler never refuse what it compiled, the executor
\* finds every condition it insists on, a change that is applied built the spec, and one
\* that is refused was overtaken (compile_procedural_spec against the executor).
CompiledIsBuilt ==
    part = "compiler" =>
        C!DefencesAgree /\ C!CompiledIsCovered /\ C!BuiltAsAsked /\ C!RefusedOnlyWhenStale

\* Evidence: an accepted evaluation rests on geometry that was inspected in full in the
\* scene the change was approved for and on a picture taken at its scene epoch; one change
\* has one story, and the panel can read it, whoever asked again or crashed in between.
EvidenceIsSound ==
    part = "evidence" => E!AcceptedIsVerified /\ E!EvaluationIsReadable /\ E!OneStoryPerChange

\* Knowledge: a page of an older version never passes for the current operator, and the
\* search of a symbol never finds another page than the one the linker linked
\* (_isolate_historical_operator_aliases, alias_candidates).
NamesResolve == part = "knowledge" => K!OperatorNameIsCurrent /\ K!SearchAgreesWithLinks
=============================================================================
