----------------------------- MODULE AgentLoop -----------------------------
(***************************************************************************)
(* The agent of one session: the message history its checkpointer keeps,   *)
(* the loop of model and tool steps over it (runtime/agent_runner.py, the  *)
(* middleware of app.py) and the three guards that read nothing but that   *)
(* history: the invalid-call guard, the HTML workflow gate and the loop    *)
(* guard.  The model is external: it may call any tools, several in one    *)
(* turn, with malformed arguments, whenever it is asked.                   *)
(*                                                                         *)
(* A run starts with the user's message.  It ends when the model calls no  *)
(* tool, at the recursion limit, or when it is cancelled between two       *)
(* nodes of the graph.                                                     *)
(***************************************************************************)
EXTENDS Naturals, Sequences, SequencesExt, FiniteSets

CONSTANTS
    Digest,         \* digests of modeling briefs
    Menus,          \* what may be said: the model's turns, sequences of calls of which <<>> is
                    \* plain text, the user's messages, records [task, approves], and
                    \* `size` and `runs`, the bounds on the history and on its runs
    NoDigest,
    RepairLimit,    \* EEE_TOOL_CALL_REPAIR_LIMIT
    Soft, Hard,     \* EEE_LOOP_REPEAT, EEE_LOOP_HARD
    Window,         \* EEE_LOOP_WINDOW
    RecursionLimit  \* model turns of one run (recursion_limit)

VARIABLES
    menu,           \* the bounds of this behaviour
    msgs,           \* the checkpointed messages
    node,           \* where the graph is: "model", "guard", "tools"; it has ended by
                    \* itself ("done") or was cut off ("cut")
    steps,          \* model turns of this run
    writes,         \* executed writes: the history their gate was evaluated on, as its length
    issued          \* the writing calls of this run, in order, as the model made them

vars == <<menu, msgs, node, steps, writes, issued>>

Mutative == {"scratch_build", "scratch_commit"}

\* ids: a call's own, none at all, or the "" that stands for none in an answer
NoId == 0
Blank == 1
IdText(id) == IF id = NoId THEN Blank ELSE id

-----------------------------------------------------------------------------
(* html_workflow_guard: the gate, from the history alone.                    *)

Humans(h) == {i \in DOMAIN h : h[i].kind = "human"}
Answers(h, tool) == {i \in DOMAIN h : h[i].kind = "tool" /\ h[i].tool = tool /\ h[i].ok}
ReadyBriefs(h) == {i \in Answers(h, "prepare_modeling_brief") : h[i].digest # NoDigest}

Triggers(h) == {i \in Humans(h) : h[i].task}
TriggerIndex(h) == IF Triggers(h) = {} THEN 0 ELSE Min(Triggers(h))

\* the newest of S between two positions, 0 if there is none
Newest(S, from, to) ==
    LET T == {i \in S : from < i /\ i < to} IN IF T = {} THEN 0 ELSE Max(T)

LatestHuman(h, to) ==
    LET t == TriggerIndex(h) IN IF Newest(Humans(h), t, to) = 0 THEN t ELSE Newest(Humans(h), t, to)

\* _latest_ready_brief_after_latest_human
ReadyBrief(h) ==
    LET b == Newest(ReadyBriefs(h), TriggerIndex(h), Len(h) + 1)
    IN  IF b > LatestHuman(h, Len(h) + 1) THEN h[b].digest ELSE NoDigest

\* the renders that count: of the newest brief, which is newer than the last message
BoundRenders(h) ==
    {i \in Answers(h, "render_sketch") :
        LET b == Newest(ReadyBriefs(h), TriggerIndex(h), i)
        IN  b # 0 /\ b > LatestHuman(h, i) /\ h[i].digest = h[b].digest}

ApprovedAfter(h, r) == \E i \in Humans(h) : i > r /\ h[i].approves

RenderIndex(h) == Newest(BoundRenders(h), TriggerIndex(h), Len(h) + 1)

\* _blocked_result: is this call let through on this history?
Passes(h, c) ==
    \/ c.tool \notin {"render_sketch"} \cup Mutative
    \/ TriggerIndex(h) = 0
    \/ c.tool = "render_sketch" /\ ReadyBrief(h) # NoDigest /\ c.digest = ReadyBrief(h)
    \/ c.tool \in Mutative /\ RenderIndex(h) # 0 /\ ApprovedAfter(h, RenderIndex(h))

-----------------------------------------------------------------------------
(* loop_guard: how often the last writing call occurs among the recent ones. *)

Signatures(m) ==
    IF m.kind # "ai" THEN <<>>
    ELSE LET Sig(c) == <<c.tool, c.ops>>
             Writing(c) == c.tool \in Mutative
         IN  [i \in DOMAIN SelectSeq(m.calls \o m.invalid, Writing) |->
                Sig(SelectSeq(m.calls \o m.invalid, Writing)[i])]

SuffixOf(s, n) == IF Len(s) <= n THEN s ELSE SubSeq(s, Len(s) - n + 1, Len(s))

RecentOfAllCalls(h) ==
    FlattenSeq([i \in DOMAIN SuffixOf(h, Window) |-> Signatures(SuffixOf(h, Window)[i])])

RecentCalls(h) == SuffixOf(FlattenSeq([i \in DOMAIN h |-> Signatures(h[i])]), Window)

Directive(calls) ==
    LET n == IF calls = <<>> THEN 0
             ELSE Cardinality({i \in DOMAIN calls : calls[i] = Last(calls)})
    IN  IF n >= Hard THEN "stop" ELSE IF n >= Soft THEN "change" ELSE "none"

-----------------------------------------------------------------------------
(* tool_call_guard: malformed calls become answered ones.                    *)

LastAI(h) == Max({i \in DOMAIN h : h[i].kind = "ai"})
RepairCount(h, id) == Cardinality({i \in DOMAIN h : h[i].kind = "tool" /\ h[i].id = id})

ToolMessage(tool, id, ok, digest) ==
    [kind |-> "tool", tool |-> tool, id |-> id, ok |-> ok, digest |-> digest]

Promoted(c) == [c EXCEPT !.id = IdText(@), !.ops = "none", !.digest = NoDigest]

MaybePatch(h) ==
    LET a == LastAI(h)
        Repairable(c) == RepairCount(h, c.id) < RepairLimit
        repair == SelectSeq(h[a].invalid, Repairable)
    IN  [h EXCEPT ![a].calls = @ \o [i \in DOMAIN repair |-> Promoted(repair[i])],
                  ![a].invalid = SelectSeq(@, LAMBDA c : ~Repairable(c))]
        \o [i \in DOMAIN repair |-> ToolMessage(repair[i].tool, IdText(repair[i].id), FALSE, NoDigest)]

-----------------------------------------------------------------------------
(* The graph.                                                                *)

\* calls of the last AI message that no tool message answers
Pending(h) ==
    LET a == LastAI(h)
        Open(c) == ~\E j \in DOMAIN h : j > a /\ h[j].kind = "tool" /\ h[j].id = c.id
    IN  SelectSeq(h[a].calls, Open)

\* deepagents answers, before a run, the calls that a cancelled one left open
PatchDangling(h) ==
    FlattenSeq([i \in DOMAIN h |->
        IF h[i].kind # "ai" THEN <<h[i]>>
        ELSE LET Open(c) == ~\E j \in DOMAIN h : j > i /\ h[j].kind = "tool" /\ h[j].id = c.id
                 open == SelectSeq(h[i].calls, Open)
             IN  <<h[i]>> \o [k \in DOMAIN open |->
                                ToolMessage(open[k].tool, open[k].id, FALSE, NoDigest)]])

\* stream(): the user's message is added to the session's thread
StartRun ==
    /\ node \in {"done", "cut"} /\ Len(msgs) < menu.size /\ Cardinality(Humans(msgs)) < menu.runs
    /\ \E s \in menu.said :
        msgs' = PatchDangling(Append(msgs, [kind |-> "human", task |-> s.task, approves |-> s.approves]))
    /\ node' = "model" /\ steps' = 0 /\ issued' = <<>>
    /\ UNCHANGED <<menu, writes>>

\* a turn of the model; a call has a new id, one it has used before, or none
ModelTurn ==
    /\ node = "model" /\ steps < RecursionLimit /\ Len(msgs) < menu.size
    /\ \E turn \in menu.turns :
        LET Named(c, i) == [c EXCEPT !.id = IF c.anonymous \/ c.id # NoId THEN @
                                                ELSE 10 * Len(msgs) + i]
            all == [i \in DOMAIN turn |-> Named(turn[i], i)]
            Pick(bad) == LET idx == SelectSeq([i \in DOMAIN turn |-> i], LAMBDA i : turn[i].malformed = bad)
                         IN  [i \in DOMAIN idx |-> all[idx[i]]]
        IN  /\ msgs' = Append(msgs, [kind |-> "ai", calls |-> Pick(FALSE), invalid |-> Pick(TRUE)])
            /\ issued' = issued \o SelectSeq([i \in DOMAIN turn |-> <<turn[i].tool, turn[i].ops>>],
                                             LAMBDA c : c[1] \in Mutative)
    /\ node' = "guard" /\ steps' = steps + 1
    /\ UNCHANGED <<menu, writes>>

\* after_model, then the edge: no calls ends the run, open calls go to the tools
AfterModel ==
    /\ node = "guard"
    /\ msgs' = MaybePatch(msgs)
    /\ node' = IF msgs'[LastAI(msgs')].calls = <<>> THEN "done"
               ELSE IF Pending(msgs') # <<>> THEN "tools" ELSE "model"
    /\ UNCHANGED <<menu, steps, writes, issued>>

\* normalize_modeling_brief: a brief without questions must say everything else
Normalizes(c) == c.asks \/ c.complete

\* prepare_modeling_brief: a digest only when nothing is left to ask
BriefAnswer(c) ==
    ToolMessage(c.tool, c.id, Normalizes(c), IF Normalizes(c) /\ ~c.asks THEN c.digest ELSE NoDigest)

\* a call that is refused or fails answers with an error; render_sketch repeats the digest
Result(c, done) ==
    IF ~done THEN ToolMessage(c.tool, c.id, FALSE, NoDigest)
    ELSE IF c.tool = "prepare_modeling_brief" THEN BriefAnswer(c)
    ELSE ToolMessage(c.tool, c.id, TRUE, c.digest)

\* wrap_tool_call: all calls of the turn see the same history; the results follow in order
RunTools ==
    /\ node = "tools"
    /\ LET calls == Pending(msgs)
           through == {i \in DOMAIN calls : Passes(msgs, calls[i])}
       IN  \E done \in SUBSET through :
            /\ msgs' = msgs \o [i \in DOMAIN calls |-> Result(calls[i], i \in done)]
            /\ writes' = writes \cup {Len(msgs) : i \in {j \in through : calls[j].tool \in Mutative}}
    /\ node' = "model"
    /\ UNCHANGED <<menu, steps, issued>>

\* the recursion limit, or a stop of the run: the checkpoint keeps what it has
EndRun ==
    /\ node \in {"model", "guard", "tools"}
    /\ node' = "cut"
    /\ UNCHANGED <<menu, msgs, steps, writes, issued>>

Init == menu \in Menus /\ msgs = <<>> /\ node = "done" /\ steps = 0 /\ writes = {} /\ issued = <<>>
Next == StartRun \/ ModelTurn \/ AfterModel \/ RunTools \/ EndRun
Spec == Init /\ [][Next]_vars

-----------------------------------------------------------------------------
(* Properties.                                                               *)

\* "a procedural/parametric request must compile a ready modeling brief" ... "a
\* later Human message must explicitly approve that rendered sketch": each
\* request, not only the first of the session (html_workflow_guard.py:8-11).
EachRequestIsReviewed ==
    \A w \in writes :
        LET h == SubSeq(msgs, 1, w)
        IN  \A t \in Triggers(h) : \E r \in BoundRenders(h) : t < r /\ ApprovedAfter(h, r)

\* Every call gets its answer: unless the run is cut off, a call is answered after the
\* turn that made it before the model goes on or the run ends; one whose arguments could
\* not be parsed is among them, also next to well-formed calls of the same turn, and is
\* left as it is only when its id has been answered RepairLimit times before, which a
\* call without an id never has (InvalidToolCallGuardMiddleware._maybe_patch).
MalformedIsAnswered ==
    node \in {"model", "tools", "done"} =>
        \A i \in DOMAIN msgs :
            (msgs[i].kind = "ai" /\ \A j \in Humans(msgs) : j < i) =>
                /\ \A c \in Range(msgs[i].invalid) :
                        c.id # NoId /\ RepairCount(SubSeq(msgs, 1, i), c.id) >= RepairLimit
                /\ node # "tools" =>
                        \A c \in Range(msgs[i].calls) :
                            RepairCount(SubSeq(msgs, i, Len(msgs)), c.id) > 0

\* A retry storm is seen: when the model has just made the same writing call Soft times
\* running in a run, well-formed or not and whatever else it called in between, its next
\* turn carries a directive, and the one to stop after Hard times.  Nothing is refused:
\* the guard only adds to the system message (_recent_calls, _directive, _maybe_steer).
\* A call left unparsed for good counts afresh, since its arguments stay in its signature.
Storm(n) ==
    /\ node = "model" /\ Len(issued) >= n
    /\ \A i \in Len(issued) - n + 1 .. Len(issued) : issued[i] = Last(issued)
    /\ msgs[LastAI(msgs)].invalid = <<>>
StormIsSteered ==
    /\ Storm(Soft) => Directive(RecentCalls(msgs)) # "none"
    /\ Storm(Hard) => Directive(RecentCalls(msgs)) = "stop"

=============================================================================
