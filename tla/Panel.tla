------------------------------- MODULE Panel -------------------------------
(***************************************************************************)
(* The docked panel: the WebSocket client (houdini_side/runtime_panel/     *)
(* client.py), its projection of one session (panel/runtime_state.py,      *)
(* panel/client_state.py) and the window that draws it (main_window.py,    *)
(* conversation.py, view_models.py).  All of it runs on Houdini's main     *)
(* thread, so a handler and every Qt signal it emits are one step; the     *)
(* record p holds the attributes of the three objects and the connection.  *)
(*                                                                         *)
(* The Runtime is on the other side of the socket.  Here it is only what   *)
(* its protocol promises: one active run at a time, a log per session, a   *)
(* snapshot that is never older than an event already sent, and the events *)
(* of the subscribed session in order (EventDelivery, RunLifecycle).  A    *)
(* run is Created until it is stopped or ends.                             *)
(***************************************************************************)
EXTENDS Naturals, Sequences, FiniteSets, SequencesExt, TLC

CONSTANTS
    Session,        \* session ids the Runtime may hand out
    Run,            \* run ids, 1..n, handed out in order
    None,
    Starts          \* what the panel opens on: the sessions, the untitled ones, the preferred
                    \* session, the auto-execute choice, the end of an old run in it, and
                    \* `ops`, the bound on clicks and lost connections together

ASSUME PanelAssumption ==
    /\ None \notin Session
    /\ Run = 1 .. Cardinality(Run)
    /\ Starts \subseteq [old : SUBSET Session, untitled : SUBSET Session,
                         preferred : Session \cup {None}, auto : BOOLEAN,
                         past : {"none", "Completed", "Failed"}, ops : Nat]

VARIABLES
    p,              \* the panel and its connection
    rt,             \* the Runtime: sessions, runs, logs, changes awaiting approval
    ops             \* clicks and losses left

vars == <<p, rt, ops>>

Terminal == {"Completed", "Cancelled", "Failed"}

\* client_state._PANEL_COMMANDS, as far as the modelled handlers use them
PanelCommands ==
    {"session.list", "session.create", "session.subscribe", "session.snapshot",
     "session.archive", "session.delete", "run.start", "run.stop", "run.force_stop",
     "changeset.list", "changeset.approve", "changeset.reject"}

-----------------------------------------------------------------------------
(* The conversation: cards of a run, and notices about anything else (r = 0), *)
(* of which only the last of several in a row is kept.                       *)

Notice == [kind |-> "notice", r |-> 0]
AppendItem(cards, card) ==
    IF card = Notice /\ cards # <<>> /\ Last(cards) = Notice THEN cards ELSE Append(cards, card)
Say(q) == [q EXCEPT !.cards = AppendItem(@, Notice)]

UpdateStreaming(cards, r) ==
    IF cards # <<>> /\ Last(cards).kind = "streaming"
    THEN [cards EXCEPT ![Len(cards)].r = r]
    ELSE Append(cards, [kind |-> "streaming", r |-> r])

ReplaceLastAssistant(cards, card) ==
    Append(IF cards # <<>> /\ Last(cards).kind \in {"assistant", "streaming"}
           THEN Front(cards) ELSE cards, card)

\* view_models.terminal_result_items: `said` when there is text to show
TerminalItems(r, status, said) ==
    LET text == IF said THEN <<[kind |-> "assistant", r |-> r]>> ELSE <<>>
    IN  CASE status = "Failed" -> Append(text, [kind |-> "error", r |-> r])
          [] status \in {"Completed", "Cancelled"} ->
                IF said THEN text ELSE <<[kind |-> "notice", r |-> r]>>
          [] OTHER -> <<>>

-----------------------------------------------------------------------------
(* RuntimePanelState: the projection of one session.                         *)

EmptyState ==
    [session |-> None, seq |-> 0, order |-> <<>>, active |-> 0,
     status |-> [r \in Run |-> "none"], final |-> [r \in Run |-> FALSE],
     output |-> [r \in Run |-> FALSE]]

Selected(st) == IF st.active # 0 THEN st.active
                ELSE IF st.order # <<>> THEN Last(st.order) ELSE 0

LoadSnapshot(d) ==
    [session |-> d.session, seq |-> d.seq, order |-> d.order, active |-> d.active,
     status |-> d.status, final |-> d.final, output |-> d.final]

Advances(st, e) == e.seq > st.seq /\ e.session = st.session

ApplyEvent(st, e) ==
    LET known == e.r \in Range(st.order)
        new == CASE e.type = "run.created" ->
                    [st EXCEPT !.order = IF known THEN @ ELSE Append(@, e.r), !.active = e.r,
                               !.status[e.r] = "Created", !.final[e.r] = FALSE,
                               !.output[e.r] = FALSE]
                 [] e.type = "run.state_changed" /\ known ->
                    [st EXCEPT !.status[e.r] = e.to,
                               !.active = IF e.to \in Terminal /\ @ = e.r THEN 0 ELSE @]
                 [] e.type = "model.text_delta" /\ known -> [st EXCEPT !.output[e.r] = TRUE]
                 [] e.type = "message.assistant_final" /\ known ->
                    [st EXCEPT !.output[e.r] = TRUE, !.final[e.r] = TRUE]
                 [] OTHER -> st
    IN  [new EXCEPT !.seq = e.seq]

-----------------------------------------------------------------------------
(* The window's handlers of the client's signals.                            *)

OnConnection(q, state) ==
    [q EXCEPT !.connection = state,
              !.composer = IF state \in {"offline", "error"} /\ q.activeRun = 0
                           THEN "idle" ELSE @]

OnSessionUncleared(q, s) ==
    IF s \in {None, q.window} THEN q
    ELSE [q EXCEPT !.window = s, !.replay = TRUE, !.shown = 0]

OnSession(q, s) ==
    IF s \in {None, q.window} THEN q
    ELSE [q EXCEPT !.window = s, !.replay = TRUE, !.shown = 0,
                   !.cards = IF q.window # None THEN <<Notice>> ELSE <<>>]

\* _replay_history runs before the window's active run is brought up to date
ReplayHistory(q) ==
    LET st == q.state
        Cards(r) ==
            <<[kind |-> "user", r |-> r]>> \o
            (IF r = q.activeRun /\ st.status[r] \notin Terminal
             THEN <<[kind |-> "streaming", r |-> r]>>
             ELSE TerminalItems(r, st.status[r], st.final[r]))
        seen == q.activeRun \in Range(st.order) /\ st.status[q.activeRun] \in Terminal
    IN  [q EXCEPT !.cards = @ \o FlattenSeq([i \in DOMAIN st.order |-> Cards(st.order[i])]),
                  !.shown = IF seen THEN q.activeRun ELSE @,
                  !.over = {r \in Range(st.order) : st.status[r] \in Terminal}]

MaybeRenderOutput(q) ==
    LET st == q.state
        r == Selected(st)
        items == TerminalItems(r, st.status[r], st.output[r])
    IN  IF r = 0 THEN q
        ELSE IF st.status[r] \notin Terminal
             THEN IF st.output[r] THEN [q EXCEPT !.cards = UpdateStreaming(@, r)] ELSE q
        ELSE IF r = q.shown THEN q
        ELSE [q EXCEPT !.cards = ReplaceLastAssistant(@, Head(items)) \o Tail(items),
                       !.shown = r]

\* runtimeSnapshotChanged.emit(self._runtime_state.snapshot())
OnSnapshot(q) ==
    LET a == q.state.active
        status == IF a = 0 THEN "" ELSE q.state.status[a]
        replayed == IF q.replay THEN ReplayHistory(q) ELSE q
    IN  MaybeRenderOutput(
            [replayed EXCEPT !.replay = FALSE, !.activeRun = a, !.activeStatus = status,
                             !.composer = IF status = "StopRequested" THEN "forceable"
                                          ELSE IF a # 0 /\ status \notin Terminal THEN "running"
                                          ELSE "idle"])

\* runtimeSnapshotChanged.emit({})
OnNoSnapshot(q) ==
    [q EXCEPT !.activeRun = 0, !.activeStatus = "", !.shown = 0, !.composer = "idle"]

OnStreamingDelta(q) ==
    LET r == Selected(q.state)
    IN  IF r # 0 /\ r = q.activeRun /\ q.activeStatus \notin Terminal /\ q.state.output[r]
        THEN [q EXCEPT !.cards = UpdateStreaming(@, r)] ELSE q

-----------------------------------------------------------------------------
(* The client: sending, connecting and disconnecting.                        *)

Command(type, s, r, purpose) == [type |-> type, session |-> s, r |-> r, purpose |-> purpose]

\* build_command refuses what is not in _PANEL_COMMANDS
Send(q, c) ==
    IF q.link # "open" THEN q
    ELSE IF c.type \notin PanelCommands THEN OnConnection(q, "error")
    ELSE [q EXCEPT !.up = Append(@, c)]

Ask(q, type, s, r) == Send(q, Command(type, s, r, type))

\* the socket goes; a write it still carries may yet reach the Runtime
Mutating(c) == c.type \notin {"session.list", "session.snapshot", "session.subscribe", "changeset.list"}
Abandon(q) ==
    [q EXCEPT !.link = "timer", !.up = <<>>, !.down = <<>>, !.sub = None, !.pos = 0,
              !.late = IF q.link = "open" THEN SelectSeq(q.up, Mutating) ELSE @]

ReconnectNow(q) == Abandon(OnSession([q EXCEPT !.cur = None], None))

RequestSnapshot(q, purpose) ==
    IF q.cur = None THEN q
    ELSE Send(q, Command("session.snapshot", q.cur, 0, purpose))

RefreshChangesets(q) ==
    IF q.cur = None THEN [q EXCEPT !.drawer = None]
    ELSE Ask(q, "changeset.list", q.cur, 0)

RefreshTaskGraph(q) ==
    IF Selected(q.state) = 0 THEN q
    ELSE Ask(q, "task_graph.list", None, Selected(q.state))

ScheduleChangesetRefresh(q) == [RefreshTaskGraph(q) EXCEPT !.changesetTimer = TRUE]

CreateUnnamedSession(q) ==
    IF q.inflight \/ (q.cur \in q.sessions \cap q.untitled /\ q.state.order = <<>>) THEN q
    ELSE Ask([q EXCEPT !.inflight = TRUE], "session.create", None, 0)

ActivateSession(q, s) ==
    LET asked == RefreshChangesets(RequestSnapshot([q EXCEPT !.preferred = s, !.cur = s],
                                                   "session.bootstrap_snapshot"))
    IN  IF q.held THEN Ask([asked EXCEPT !.held = FALSE], "run.start", s, 0) ELSE asked

StartRun(q) ==
    IF q.cur = None THEN CreateUnnamedSession([q EXCEPT !.held = TRUE])
    ELSE Ask(q, "run.start", q.cur, 0)

-----------------------------------------------------------------------------
(* The client: responses.                                                    *)

\* choose_empty_placeholder, and choose_active_session with its order on last_seq
EmptyPlaceholders(d) == d.sessions \cap d.untitled
MostActive(d) == {s \in d.sessions : \A t \in d.sessions : d.last[t] <= d.last[s]}
ChooseActive(d, preferred) ==
    IF preferred \in d.sessions THEN {preferred} ELSE MostActive(d)

OnFailure(q, purpose) ==
    LET told == IF purpose = "session.list" THEN OnConnection(q, "error") ELSE q
        reset == CASE purpose = "session.create" ->
                        [told EXCEPT !.inflight = FALSE, !.held = FALSE]
                   [] purpose = "session.archive" -> [told EXCEPT !.archiving = FALSE]
                   [] purpose = "run.start" -> [told EXCEPT !.composer = "idle"]
                   [] OTHER -> told
    IN  Say(reset)

OnCreated(q, s) == ReconnectNow([q EXCEPT !.inflight = FALSE, !.preferred = s])

OnRemoved(q, purpose, s) ==
    LET dropped == [q EXCEPT !.sessions = @ \ {s}]
    IN  IF purpose = "session.archive" /\ q.archiving
        THEN CreateUnnamedSession([dropped EXCEPT !.archiving = FALSE])
        ELSE IF s \in {q.cur, q.preferred}
        THEN ReconnectNow([dropped EXCEPT !.preferred = None])
        ELSE dropped

OnSnapshotAnswer(q, purpose, d) ==
    LET loaded == [q EXCEPT !.state = LoadSnapshot(d), !.cursor[d.session] = IF d.seq > @ THEN d.seq ELSE @]
    IN  IF purpose = "session.snapshot" THEN OnSnapshot(loaded)
        ELSE IF d.session # q.cur THEN loaded
        ELSE OnSnapshot(OnSession(
                Send(loaded, [type |-> "session.subscribe", session |-> d.session,
                              r |-> d.seq, purpose |-> "session.subscribe"]), d.session))

\* an actionable change opens the drawer, or is approved at once
OnChangesets(q, s, waiting) ==
    IF ~waiting THEN [q EXCEPT !.drawer = None]
    ELSE IF q.auto THEN Ask([q EXCEPT !.drawer = None], "changeset.approve", s, 0)
    ELSE [q EXCEPT !.drawer = s]

\* session.list: the first answer after the panel opened starts a new conversation
OnSessionList(q, d) ==
    LET bootstrap == ~q.bootstrapped
        listed == [q EXCEPT !.bootstrapped = TRUE, !.sessions = d.sessions,
                            !.untitled = d.sessions \cap d.untitled]
        choice == IF bootstrap THEN EmptyPlaceholders(d) ELSE ChooseActive(d, q.preferred)
    IN  IF choice = {}
        THEN IF bootstrap THEN {CreateUnnamedSession(listed)}
             ELSE {[OnNoSnapshot([listed EXCEPT !.cur = None]) EXCEPT !.drawer = None]}
        ELSE IF bootstrap /\ ~q.archiving
        THEN {Ask([listed EXCEPT !.archiving = TRUE], "session.archive", s, 0) : s \in choice}
        ELSE {ActivateSession(listed, s) : s \in choice}

HandleResponse(q, m) ==
    IF ~m.ok THEN {OnFailure(q, m.purpose)}
    ELSE CASE m.purpose = "session.create" -> {OnCreated(q, m.data.session)}
           [] m.purpose \in {"session.delete", "session.archive"} ->
                {OnRemoved(q, m.purpose, m.data.session)}
           [] m.purpose \in {"session.snapshot", "session.bootstrap_snapshot"} ->
                {OnSnapshotAnswer(q, m.purpose, m.data)}
           [] m.purpose = "changeset.list" -> {OnChangesets(q, m.data.session, m.data.waiting)}
           [] m.purpose \in {"run.start", "run.stop", "run.force_stop"} ->
                {RequestSnapshot(q, "session.snapshot")}
           [] m.purpose \in {"changeset.approve", "changeset.reject"} ->
                {ScheduleChangesetRefresh(Say(q))}
           [] m.purpose = "session.list" -> OnSessionList(q, m.data)
           [] OTHER -> {q}

-----------------------------------------------------------------------------
(* The client: events of the subscribed session.                             *)

Flushing == {"run.state_changed", "message.assistant_final", "run.failed", "run.created"}

SnapshotEventUnread(q, e) ==
    OnSnapshot([q EXCEPT !.cursor[e.session] = IF e.seq > @ THEN e.seq ELSE @,
                         !.state.seq = e.seq, !.dirty = FALSE])

\* a session.snapshot event: the server could not replay, so it starts afresh
OnSnapshotEvent(q, e) ==
    OnSnapshot([q EXCEPT !.cursor[e.session] = IF e.seq > @ THEN e.seq ELSE @,
                         !.state = LoadSnapshot(e.data), !.dirty = FALSE])

OnLogEvent(q, e) ==
    LET newer == Advances(q.state, e)
        applied == IF newer THEN [q EXCEPT !.state = ApplyEvent(@, e)] ELSE q
        seen == [applied EXCEPT !.cursor[e.session] = IF e.seq > @ THEN e.seq ELSE @]
        drawn == IF ~newer THEN seen
                 ELSE IF e.type = "model.text_delta"
                 THEN [OnStreamingDelta(seen) EXCEPT !.dirty = TRUE]
                 ELSE IF e.type \in Flushing \/ ~q.dirty
                 THEN OnSnapshot([seen EXCEPT !.dirty = FALSE])
                 ELSE seen
        titled == IF e.type = "session.renamed"
                  THEN [drawn EXCEPT !.untitled = @ \ {e.session}] ELSE drawn
        changed == IF e.type = "changeset" THEN ScheduleChangesetRefresh(titled) ELSE titled
    IN  IF e.seq > q.cursor[e.session] THEN changed ELSE applied

HandleEvent(q, e) == IF e.type = "session.snapshot" THEN OnSnapshotEvent(q, e) ELSE OnLogEvent(q, e)

-----------------------------------------------------------------------------
(* The Runtime, as its protocol promises.                                    *)

Active(r) == rt.run[r].status \notin Terminal \cup {"none"}
RunsOf(s) == {r \in Run : rt.run[r].session = s}
ActiveSessions == {s \in Session : rt.status[s] = "active"}
Untitled == {s \in Session : ~rt.titled[s]}

SnapshotOf(s) ==
    [session |-> s, seq |-> Len(rt.log[s]),
     order |-> SetToSortSeq(RunsOf(s), <),
     active |-> IF \E r \in RunsOf(s) : Active(r) THEN CHOOSE r \in RunsOf(s) : Active(r) ELSE 0,
     status |-> [r \in Run |-> IF r \in RunsOf(s) THEN rt.run[r].status ELSE "none"],
     final |-> [r \in Run |-> r \in RunsOf(s) /\ rt.run[r].final]]

Event(type, r, to) == [type |-> type, r |-> r, to |-> to]
Logged(R, s, events) == [R EXCEPT !.log[s] = @ \o events]
StatusSet(R, r, status, events) ==
    Logged([R EXCEPT !.run[r].status = status], R.run[r].session,
           events \o <<Event("run.state_changed", r, status)>>)

Placeholders == {s \in ActiveSessions \cap Untitled : RunsOf(s) = {}}
Unused == {s \in Session : rt.status[s] = "none"}
NewRun == {r \in Run : rt.run[r].status = "none" /\ \A t \in 1 .. r - 1 : rt.run[t].status # "none"}

\* the outcomes [rt, ok, data] a command may have
Ok(R, d) == [rt |-> R, ok |-> TRUE, data |-> d]
Refused == [rt |-> rt, ok |-> FALSE, data |-> None]
Outcomes(c) ==
    CASE c.type = "session.list" ->
            {Ok(rt, [sessions |-> ActiveSessions, untitled |-> Untitled,
                     last |-> [s \in Session |-> Len(rt.log[s])]])}
      [] c.type = "session.create" ->
            IF Placeholders # {} THEN {Ok(rt, [session |-> s]) : s \in Placeholders}
            ELSE IF Unused = {} THEN {Refused}
            ELSE LET s == CHOOSE x \in Unused : TRUE
                 IN  {Ok(Logged([rt EXCEPT !.status[s] = "active"], s,
                                <<Event("session.created", 0, "")>>), [session |-> s])}
      [] c.type \in {"session.archive", "session.delete"} ->
            IF rt.status[c.session] # "active" \/ \E r \in RunsOf(c.session) : Active(r)
            THEN {Refused}
            ELSE {Ok([rt EXCEPT !.status[c.session] = "gone"], [session |-> c.session])}
      [] c.type = "session.snapshot" -> {Ok(rt, SnapshotOf(c.session))}
      [] c.type = "run.start" ->
            IF rt.status[c.session] # "active" \/ (\E r \in Run : Active(r)) \/ NewRun = {}
            THEN {Refused}
            ELSE {Ok(Logged([rt EXCEPT !.run[r] = [session |-> c.session, status |-> "Created",
                                                   said |-> FALSE, final |-> FALSE]],
                            c.session, <<Event("run.created", r, "")>>), None) : r \in NewRun}
      [] c.type = "run.stop" ->
            {Ok(IF rt.run[c.r].status = "Created" THEN StatusSet(rt, c.r, "StopRequested", <<>>)
                ELSE rt, None)}
      [] c.type = "run.force_stop" ->
            {Ok(IF Active(c.r) THEN StatusSet(rt, c.r, "Cancelled", <<>>) ELSE rt, None)}
      [] c.type = "changeset.list" ->
            {Ok(rt, [session |-> c.session, waiting |-> rt.change[c.session] = "waiting"])}
      [] c.type \in {"changeset.approve", "changeset.reject"} ->
            IF rt.change[c.session] # "waiting" THEN {Refused}
            ELSE {Ok(Logged([rt EXCEPT !.change[c.session] = "decided"], c.session,
                            <<Event("changeset", 0, "")>>), None)}
      [] OTHER -> {Ok(rt, None)}

\* the events of R not yet sent to the subscriber
Unsent(q, R) ==
    IF q.sub = None THEN <<>>
    ELSE [i \in 1 .. Len(R.log[q.sub]) - q.pos |->
            [kind |-> "event", session |-> q.sub, seq |-> q.pos + i] @@ R.log[q.sub][q.pos + i]]

PushAll(q, R) ==
    [q EXCEPT !.down = @ \o Unsent(q, R), !.pos = @ + Len(Unsent(q, R))]

Answer(q, c, o) ==
    [q EXCEPT !.down = Append(@, [kind |-> "response", purpose |-> c.purpose,
                                  ok |-> o.ok, data |-> o.data])]

\* a command's own events are sent before its answer (_notify, then _put)
Serve ==
    /\ p.link = "open" /\ p.up # <<>>
    /\ LET c == Head(p.up)
           q == [p EXCEPT !.up = Tail(@)]
       IN  \E o \in Outcomes(c) :
            /\ rt' = o.rt
            /\ p' = CASE c.type = "session.subscribe" ->
                            Answer([q EXCEPT !.sub = c.session, !.pos = c.r], c, o)
                      [] Mutating(c) -> Answer(PushAll(q, o.rt), c, o)
                      [] OTHER -> Answer(q, c, o)
    /\ UNCHANGED ops

\* a command of a connection that is gone: served without an answer, or lost
ServeLate ==
    /\ p.late # <<>>
    /\ \/ \E o \in Outcomes(Head(p.late)) : rt' = o.rt
       \/ UNCHANGED rt
    /\ p' = [p EXCEPT !.late = Tail(@)]
    /\ UNCHANGED ops

Push ==
    /\ p.link = "open" /\ Unsent(p, rt) # <<>>
    /\ p' = PushAll(p, rt)
    /\ UNCHANGED <<rt, ops>>

\* the replay is too long or the buffer full: a snapshot takes the place of the events
PushSnapshot ==
    /\ p.link = "open" /\ Unsent(p, rt) # <<>>
    /\ p' = [p EXCEPT !.down = Append(@, [kind |-> "event", type |-> "session.snapshot",
                                          session |-> p.sub, seq |-> Len(rt.log[p.sub]),
                                          data |-> SnapshotOf(p.sub)]),
                      !.pos = Len(rt.log[p.sub])]
    /\ UNCHANGED <<rt, ops>>

\* the agent speaks, proposes a change or ends its run; the first answer names the
\* session.  It goes on when its last event is on its way to the subscriber.
AgentStep ==
    /\ Unsent(p, rt) = <<>>
    /\ \E r \in Run :
        \/ /\ rt.run[r].status = "Created" /\ ~rt.run[r].said
           /\ rt' = Logged([rt EXCEPT !.run[r].said = TRUE], rt.run[r].session,
                           <<Event("model.text_delta", r, "")>>)
        \/ /\ rt.run[r].status = "Created" /\ rt.change[rt.run[r].session] = "none"
           /\ rt' = Logged([rt EXCEPT !.change[rt.run[r].session] = "waiting"],
                           rt.run[r].session, <<Event("changeset", r, "")>>)
        \/ /\ rt.run[r].status = "Created"
           /\ LET s == rt.run[r].session
                  done == StatusSet([rt EXCEPT !.run[r].final = TRUE, !.titled[s] = TRUE], r,
                                    "Completed", <<Event("message.assistant_final", r, "")>>)
              IN  rt' = IF rt.titled[s] THEN done
                        ELSE Logged(done, s, <<Event("session.renamed", 0, "")>>)
        \/ /\ rt.run[r].status = "Created"
           /\ rt' = StatusSet(rt, r, "Failed", <<Event("run.failed", r, "")>>)
        \/ /\ rt.run[r].status = "StopRequested"
           /\ rt' = StatusSet(rt, r, "Cancelled", <<>>)
    /\ UNCHANGED <<p, ops>>

-----------------------------------------------------------------------------
(* The panel's steps.                                                        *)

External(q) == ops > 0 /\ ops' = ops - 1 /\ p' = q /\ UNCHANGED rt

\* _connect: the credentials are read and a socket opened; _on_connected follows
Connect ==
    /\ p.link = "timer"
    /\ p' = Ask(OnConnection(OnSession([p EXCEPT !.link = "open", !.cur = None], None), "online"),
                "session.list", None, 0)
    /\ UNCHANGED <<rt, ops>>

ConnectFails ==
    /\ p.link = "timer"
    /\ External(OnConnection(p, "offline"))

OnDisconnected ==
    /\ p.link = "open"
    /\ External(OnConnection(OnSession(Abandon([p EXCEPT !.cur = None, !.inflight = FALSE]), None),
                             "offline"))

ProcessMessage ==
    /\ p.link = "open" /\ p.down # <<>>
    /\ LET m == Head(p.down)
           q == [p EXCEPT !.down = Tail(@)]
       IN  p' \in IF m.kind = "response" THEN HandleResponse(q, m) ELSE {HandleEvent(q, m)}
    /\ UNCHANGED <<rt, ops>>

FlushSnapshot ==
    /\ p.dirty
    /\ p' = OnSnapshot([p EXCEPT !.dirty = FALSE])
    /\ UNCHANGED <<rt, ops>>

ChangesetTimer ==
    /\ p.changesetTimer
    /\ p' = RefreshChangesets([p EXCEPT !.changesetTimer = FALSE])
    /\ UNCHANGED <<rt, ops>>

\* _send_run: refused while the window thinks it is offline
SendRun ==
    /\ p.composer = "idle"
    /\ External(IF p.connection # "online" THEN Say(p)
             ELSE [StartRun([p EXCEPT !.cards = Append(@, [kind |-> "user", r |-> 0])])
                    EXCEPT !.composer = "running"])

StopRun ==
    /\ p.composer \in {"running", "forceable"}
    /\ External(IF p.connection # "online" THEN [Say(p) EXCEPT !.composer = "idle"]
             ELSE IF p.activeRun = 0 THEN p
             ELSE Ask([p EXCEPT !.composer = "stopping"],
                      IF p.activeStatus = "StopRequested" THEN "run.force_stop" ELSE "run.stop",
                      None, p.activeRun))

DecideChangeset ==
    /\ p.drawer # None
    /\ \E type \in {"changeset.approve", "changeset.reject"} :
        External(Ask([p EXCEPT !.drawer = None], type, p.drawer, 0))

NewSession == External(CreateUnnamedSession(p))

SelectSession ==
    \E s \in p.sessions :
        LET q == [p EXCEPT !.preferred = s, !.bootstrapped = TRUE]
        IN  External(IF s # p.cur THEN ReconnectNow(q) ELSE q)

RemoveSession ==
    \E s \in p.sessions, type \in {"session.archive", "session.delete"} : External(Ask(p, type, s, 0))

Init ==
    /\ \E u \in Starts :
        /\ rt = [status |-> [s \in Session |-> IF s \in u.old THEN "active" ELSE "none"],
                 titled |-> [s \in Session |-> s \in u.old \ u.untitled],
                 log |-> [s \in Session |->
                            (IF s \in u.old THEN <<Event("session.created", 0, "")>> ELSE <<>>) \o
                            (IF s = u.preferred /\ u.past # "none"
                             THEN <<Event("run.created", 1, ""),
                                    Event("run.state_changed", 1, u.past)>> ELSE <<>>)],
                 run |-> [r \in Run |->
                            [session |-> IF r = 1 /\ u.past # "none" THEN u.preferred ELSE None,
                             status |-> IF r = 1 THEN u.past ELSE "none",
                             said |-> FALSE, final |-> r = 1 /\ u.past = "Completed"]],
                 change |-> [s \in Session |-> "none"]]
        /\ p = [link |-> "timer", up |-> <<>>, down |-> <<>>, sub |-> None, pos |-> 0, late |-> <<>>,
                cur |-> None, preferred |-> u.preferred, sessions |-> {}, untitled |-> {},
                bootstrapped |-> FALSE, archiving |-> FALSE, inflight |-> FALSE, held |-> FALSE,
                dirty |-> FALSE, changesetTimer |-> FALSE, state |-> EmptyState,
                cursor |-> [s \in Session |-> 0], auto |-> u.auto,
                connection |-> "connecting", window |-> None, activeRun |-> 0, activeStatus |-> "",
                replay |-> FALSE, shown |-> 0, composer |-> "idle", drawer |-> None, cards |-> <<>>,
                over |-> {}]
        /\ ops = u.ops

Next ==
    \/ Serve \/ ServeLate \/ Push \/ PushSnapshot \/ AgentStep
    \/ Connect \/ ConnectFails \/ OnDisconnected \/ ProcessMessage
    \/ FlushSnapshot \/ ChangesetTimer
    \/ SendRun \/ StopRun \/ DecideChangeset \/ NewSession \/ SelectSession \/ RemoveSession

Spec == Init /\ [][Next]_vars

-----------------------------------------------------------------------------
(* Properties.                                                               *)

\* nothing is on its way between the panel and the Runtime
Settled ==
    /\ p.link = "open" /\ p.up = <<>> /\ p.down = <<>> /\ p.late = <<>>
    /\ p.cur # None /\ p.sub = p.cur /\ p.pos = Len(rt.log[p.cur])
    /\ ~p.dirty /\ ~p.changesetTimer

\* The projection catches up: once everything sent has arrived, what the panel
\* shows of the current session - its runs, its active run, the change that
\* waits in the drawer - is what the Runtime has, after any switch, loss and
\* snapshot on the way (load_snapshot, apply_event, _on_snapshot).
ProjectionIsCurrent ==
    Settled =>
        LET now == SnapshotOf(p.cur)
        IN  /\ p.window = p.cur
            /\ p.state.order = now.order /\ p.state.status = now.status
            /\ p.activeRun = now.active
            /\ p.drawer # None => p.drawer = p.cur /\ rt.change[p.cur] = "waiting"

\* "interrupts the conversation for a pending ChangeSet": once nothing is on its
\* way, a change that waits for approval is in the drawer (approval_drawer.py:1).
DrawerShowsPending ==
    Settled /\ ~p.auto /\ rt.change[p.cur] = "waiting" => p.drawer = p.cur

\* The composer never wedges: online and with nothing on its way, Send is enabled
\* unless the session has a run, whatever was refused, lost or overtaken before
\* (_on_snapshot, _on_connection, _on_command_failed).
ComposerNeverWedges ==
    Settled /\ p.connection = "online" /\ p.composer # "idle" =>
        \E r \in RunsOf(p.cur) : Active(r)

\* "A different Session's history must never mix into this view": every card
\* of a run belongs to the session of the window (_on_session, _replay_history).
SessionsDoNotMix ==
    \A i \in DOMAIN p.cards :
        p.cards[i].r # 0 => rt.run[p.cards[i].r].session = p.window

\* The result of the session's last run is in the conversation, whether its events
\* arrived live, in a replay or only inside a snapshot, and no result is there twice
\* except in one case: a run that was over when the history was replayed and ended on an
\* error or a notice is drawn by the replay and once more by the same snapshot, though
\* _replay_history marks the active run "so _maybe_render_output does not double-emit it".
Copies(r, kind) == Cardinality({i \in DOMAIN p.cards : p.cards[i] = [kind |-> kind, r |-> r]})
Results == {"assistant", "error", "notice"}
LastResultIsShown ==
    Settled /\ p.state.order # <<>> =>
        LET r == Last(p.state.order)
        IN  rt.run[r].status \in Terminal => \E kind \in Results : Copies(r, kind) > 0
ResultsAreShownOnce ==
    \A r \in Run, kind \in Results : Copies(r, kind) > 1 =>
        r \in p.over /\ kind # "assistant" /\ Copies(r, kind) = 2
=============================================================================
