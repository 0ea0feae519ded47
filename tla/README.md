# TLA+ models of the EEE Agent

EEE Agent lets a language model build procedural scenes in SideFX Houdini. A
panel inside Houdini talks to a local **Runtime** process over a WebSocket; the
Runtime keeps sessions, runs and an event log in SQLite, drives the model, and
reaches back into Houdini through a **Secure Bridge** whose operations run on
Houdini's main thread. What is written into the scene goes through a *changeset*
the user has approved, or stays in a *sandbox* until it is promoted.

This directory models the parts whose correctness depends on order,
interleaving, failure or agreement between two processes, checks them with TLC
on small instances and proves with TLAPS, for every instance, the safety of the
core (run lifecycle, changesets, main-thread queue, bridge link, event store and
event delivery), of what is kept on disk, of the executor and the other writers of
the scene, and of the launch, the evidence and the knowledge cache.

    tlc -workers 2 -config runs.cfg MCRunLifecycle           # a run
    tlapm ChangeSetsProofs.tla                               # proofs

`PROJECT.json` is the index: components, runs, the source lines behind each
definition, the mutants that show each property can fail, findings, hazards and
theorems. Paths below are relative to `src/`; `runtime/`, `modeling/` and the
like stand for `eee_agent/runtime/` and so on, `changeset_executor.py` and
`secure_bridge*.py` are in `houdini_side/`.

## 1. Inventory

| Component (source) | State | Operations | Hard part | What makes it correct | Model |
|---|---|---|---|---|---|
| Main-thread queue (`houdini_bridge/queue.py`) | pending entries, the running one, futures | submit, cancel, pump, shutdown | two threads; disconnects, deadlines, close at any moment | one answer each, and it agrees with the scene | `MainThreadQueue` |
| Bridge link (`houdini_bridge/client.py`, `auth.py`, providers, `secure_bridge*.py`) | identity files, connections, scene epoch, freeze | publish, connect, call, time out, retry, close | files read and removed by several processes; answers lost after the frame was sent | "nothing happened" is true when it is said; an answer is one's own; calls return | `BridgeLink`, `BridgeOperations` |
| Run lifecycle (`runtime/service.py`, `runs.py`, `sessions.py`, `models.py`) | session and run rows, active slot, log, one task per run | start, execute, stop, fail, converge, shutdown, reconcile, delete | cancellation at any await, stop against failure, crash between a row and its event | one active run, one verdict, the log tells the row's history, a stop converges | `RunLifecycle`, `RunSpec` |
| Event store (`runtime/events.py`, `database.py`) | one connection and its thread, the write lock, `last_seq` | append within `write_transaction` | a cancelled caller abandons a statement that still runs | gapless sequence, truthful answers, the lock comes back | `EventStore` |
| Event delivery (`runtime/server.py`, panel cursor) | subscription, buffer, bounded queue, replay floor, cursor | subscribe, replay, snapshot, flush, send, prune, reconnect | events during initialisation, slow consumers, retention | no gap, nothing twice or out of order | `EventDelivery` |
| Changesets (`changesets/service.py`, `repository.py`) | changeset, approval and receipt rows | propose, decide, apply, recover | a bridge deadline while the write runs, restarts of either side | consent covers every write, none is made twice, the record is true | `ChangeSets`, `ChangeContracts` |
| Executor (`changeset_executor.py`) | journal of inverses, receipts, freeze | preflight, write, verify, roll back | failure of an operation and of its inverse, after its effect | all, nothing, or frozen and said | `Executor` implements `SceneTransaction` |
| Sandbox (`modeling/scratch_coordinator.py`, `runtime/task_graph.py`, `changeset_executor.py`) | container per run, ledger of its nodes | build, commit, clean up, destroy | HOM errors half-way, an artist beside it, paths reused | every node on record, promotion whole or not at all | `Sandbox` |
| Parameter manifest (`houdini_bridge/scratch.py`, `scratch_coordinator.py`) | remembered references | build, commit | memory and scene drift apart | no undeclared driver in an asset | `ParmManifest` |
| Probes (`changeset_executor.py`, `capture.py`, `sensitivity.py`) | temporary nodes, sampled values | sample, capture | a failure at any call | the scene is the artist's afterwards | `SceneProbes` |
| Workspaces (`changesets/workspace_service.py`, `repository.py`, `modeling/bootstrap.py`) | manifests, the active one of a session | create, bind, switch, bootstrap, recover | read, inspect, commit are three steps | one owner; a bootstrap is recorded as a whole | `Workspaces` |
| Artifacts (`runtime/artifacts.py`) | files and rows | capture, register, evict, delete, reconcile | no transaction covers both | an available row has its bytes; caps hold unless a retention read torn rows | `Artifacts` |
| Schema (`runtime/migrations.py`, `database.py`) | tables, migration history | open | crash between statements | whole versions, no record lost | `Upgrade` |
| Process start (`runtime/__main__.py`, `lock.py`, `auth.py`) | lock, token and discovery file | start, serve, stop | several processes, kills | a serving Runtime can be found | `RuntimeProcess` |
| Panel (`houdini_side/runtime_panel/`, `panel/`) | projection, cards, commands under way | render, send, switch, reconnect | snapshots, events and answers overtake one another | shows its session, as far as it has come | `Panel`, `PanelLaunch` |
| Agent guards (`html_workflow_guard.py`, `tool_call_guard.py`, `loop_guard.py`, `runtime/agent_runner.py`) | message history | model turn, guard, tools | any history, parallel and malformed calls | every request reviewed before its writes (the code does less, section 5), every call answered, a retry storm steered | `AgentLoop` |
| Modeling compiler (`modeling/compiler.py`, `proposal.py`, `validation.py`) | context of a run | propose, apply | compiled for a scene that moves on | what it compiles the executor can build | `Compiler`, `ChangeContracts` |
| Evidence (`runtime/service.py`, `vision/`, `panel/runtime_state.py`) | verdicts, evaluation rows | inspect, sample, capture, evaluate | every step an await | accepted means verified | `Evidence` |
| Knowledge (`knowledge/`, `runtime/knowledge.py`) | cache, its lock, facade status | build, link, publish, search | clashing names, builds in other processes | a name means the current operator, to linker and search alike | `Knowledge`, `BuildLock` |
| Providers, configuration, widgets, geometry | none that outlives a call | | | | not modelled, section 7 |

How they interact: `service.py` appends to the event store within the same
database as its rows and, after a commit, notifies `server.py`'s subscribers on
the same event loop. The changeset service commits `Applying`, calls the bridge
(each call a new authenticated connection with a 5 s deadline) and commits the
receipt. The bridge server runs on its own thread and hands each request to the
main-thread queue; Houdini's idle callback pumps it. At start-up the Runtime
fails interrupted runs and then reconciles interrupted applies, before it
serves. Panel and Runtime share only the cursor and the event stream.

## 2. Modules

Composition: `ChangeContracts` is what `Executor` and `Compiler` both use, so the
compiler in one process and the executor in the other are held against the same
text of the contract. `Executor` implements `SceneTransaction`
(`ImplementsTransaction`), `RunLifecycle` implements `RunSpec`
(`ImplementsRunSpec`); `RunStates` holds the statuses both run modules use.
`BridgeLink` is over `BridgeOperations`. A module `XProofs` extends `X` with its
theorems; `StorageProofs`, `SceneProofs` and `WorkbenchProofs` extend `MCStorage`,
`MCScene` and `MCWorkbench` with those about the components that meet there. `Panel` assumes of the Runtime what
`EventDelivery` and `RunLifecycle` show, `ChangeSets` assumes of one write what
`Executor` shows.

The `MC*` modules define the values that a configuration gives to the constants
(those of `Upgrade` are plain enough to be written there). What a component is
given stays a constant with a named assumption in its `MC*` module too, so that a
theorem about it holds for every value and not for the instance. `MCDelivery`, `MCScene`, `MCStorage` and `MCWorkbench`
hold several components that share no variable: the variable `part` chooses which
one a behaviour is about, so one run asks the questions of a whole layer. A
property of such a module is that of the component it extends (`EventDelivery` in
`MCDelivery`, `EventStore` in `MCStorage`), or the conjunction of what the
components' own modules state and comment one by one. Operators marked
*mutant* or *Bug*, or named `Mut...`, are the plausible bugs that show a property
can fail; no specification uses them.

**MainThreadQueue.** One step is one critical section of the queue's lock with
the thread-local code around it. The loop thread submits, polls for EOF, runs
`call_soon_threadsafe` callbacks in order and closes the server; the main thread
reads the clock, takes an entry, finishes it, resolves it, and stops the host.
`started` and `accepted` are histories.

**RunLifecycle.** One step is one committed transaction or the code between two
awaits. A status change and its events are separate transactions; the state lock
and `_run_uncancelled` keep them together: `left` is what the lock holder has
still to append. Tasks walk `_run` by `pc`; a `cancel()` not yet observed
is in `cancelled`. `Crash` may happen in every state; `_reconcile` follows it.
`start_run` may lose its caller in the COMMIT of `create_and_acquire`, and a stop may
come before the task is registered or has run: `cut` records the runs that either of
them left without an execution.

**EventStore.** Statement by statement: the caller hands each statement to the
connection's thread and may be cancelled at any await, which abandons the future
and not the statement. `view` is what the connection sees, `disk` what survives.

**EventDelivery.** An event is its number. `_do_subscribe` is split where it
suspends: registration, replay (with or without a snapshot first), one
`_put_initial` after another, flush. The client keeps a cursor and may lose its
connection with anything in flight. `prune_operational` moves the floor. Three
things the server does lose events (section 6): a replay cut off by its limit, an
announcement during the flush, an event that overtakes a bundle. The history
variable `lossy` records that one of them has happened; `NoGap` and `CatchesUp` are
about the behaviours in which none has yet, `NewsOnly` about all of them.

**ChangeSets.** Durable rows (`state`, `decision`, `bound`, `approvedIn`,
`receipt`), one task per change (`pc`, `wire`), and Houdini (`scene`, `queue`,
`cache`, `frozen`, `effect`). The content of a change is what its preflight can
tell: the scene is before it, after it, half way or edited. `CallFails` is any
end of a call without its answer; an abandoned apply may still run
(`Abandon`, `Pump`) or expire (`DropAbandoned`), any other abandoned request would
change nothing and is dropped. `writes` is a history. Assumed:
requests arrive in the order they are sent (a frame is sent only on a connection
the bridge has authenticated, and after the previous call ended), and a bridge is
restarted inside one Houdini process only before another scene is loaded (see
section 6). Partial receipts are treated as CriticalRecovery receipts, from which
no code of the Runtime tells them apart. Validation of a receipt's binding is left
out: the executor has compared it before it wrote.

**Executor, SceneTransaction.** `apply` is walked operation by operation: the
journal entry, the HOM call, the check of what it did, reconciliation, the
inverses in reverse order, the receipt. Any HOM call may do something else than
it was asked and may raise before or after (`HomWrite`); a `createNode` that
raises has created nothing. Between calls an artist edits, copies, renames,
locks and loads. Nodes are looked up by id index, then by path, as the code does.
`Free` are the nodes not made yet, `SceneOK` what Houdini itself guarantees: a path
is the path of one node, and an input is fed by a node that is there. Ids and paths
are strings that are never equal (`WellFormed`: an id starts with its kind, a path
with a slash).

**Sandbox, ParmManifest, SceneProbes.** A bridge operation is one callable on the
main thread, its ledger entry a transaction after it. In `Sandbox` a batch stops
at the operation that raises and a promotion is rolled back move by move.
`ParmManifest` keeps what the coordinator remembers (`exprRefs`) beside what the
scene holds (`exprs`). A path that a run has used is never free again in the ledger
(`OnePathOneRow`, the UNIQUE of `task_nodes`): the second use ends the recording.
`SceneProbes` fails at every call of sampling and capture, before or after the
effect; `slip` is the parameter whose set raised after it had set.

**BridgeLink.** A bridge is one run of `SecureBridgeHost`; its token, port and
fingerprint are fresh, so the bridge stands for all of them. The two identity
files are separate variables because they are written, read and removed
separately, and an unlink may fail. `BridgeOperations` is the table of the twelve operations: what each
needs, compares and changes, on either side.

**Workspaces, Artifacts, Upgrade, RuntimeProcess, BuildLock.** What survives a
process. An operation of `Workspaces` reads rows, awaits an inspection of the
scene and commits; a revision is a content hash, so equal manifests have equal
revisions. `Artifacts` has one step per await, file operations included.
What either has read may be stale when it commits. `Upgrade`
runs the scripts of all eight versions over sets of rows, with SQLite's cascade.
`RuntimeProcess` and `BuildLock` take every file operation as a step, and let those
fail that the code lets fail: `kept` and `troubled` are the processes and builds to
which it happened, or that were interrupted; `raced` says that a reclaim has removed
another lock than the stale one it had read.

**Panel, PanelLaunch.** All of the panel runs on Houdini's main thread: a handler
and the Qt signals it emits are one step, and the record `p` holds the attributes
of client, projection and window. The Runtime behind the socket (`rt`) is reduced to
what a panel sees of `server.py` and of `RuntimeService._run`, which `EventDelivery`
and `RunLifecycle` model in full: it answers, pushes and ends runs at will within its
protocol. `PanelLaunch` is the launch thread.

**AgentLoop.** The guards read nothing but the message history, so the history is
the state. The model is a menu of turns, single, parallel, malformed, without an id
or with one it has used before, from which it chooses at will.

**Compiler, Evidence.** `Compiler` compiles every small spec, in a workspace and as
bootstrap, proposes it from a context frozen at the start of the run and applies
it later, with the executor's conditions evaluated in the scene of that moment; a
session may be sent two specs, so that one is built in the workspace of the other or
overtakes it. The budgets of the compiler and the limits of the contract are
constants; the payload of a change is measured in entries. (`propose_modeling` is
retired: `runtime/service.py:1912-1914` keeps its context for a revival, and no
registered tool consumes it. The model is of the library as its tests drive it.)
`Evidence` is the chain around an Apply, each await a step: the task that is started,
joined or finds the change half-done, the recovery beside it, inspection, samples,
capture, verdict and evaluation, with edits, another file or another Houdini, calls
and stores that fail, and a crash in between.

**Knowledge.** Pages become entities, aliases and references; aliases are ranked
and linked against the operators Houdini reports; `Search` is the symbol search
over the published cache. `PageOK` is what is assumed of a page: a node with a version,
if only *current* or *legacy*, a function of VEX, a skill, or a class, function, module
or package of HOM. Names are compared as they are written: the aliases in lower case
(`parse_hom.py:121-130`), of the lowest rank, are left out. Recursion is avoided throughout, so that every module
stays within reach of proofs.

## 3. Runs

| Run | Instance | Shows |
|---|---|---|
| `mtq_safety` | 3 requests, two with one id, queue of 2 | `InTurnAndOnce`, `ReportAgreesWithScene`, `AdapterOutlivesOperation` |
| `delivery` | delivery: 3 events, replay of 2, queue of 2, bundles of 2; store: 3 callers cancelled anywhere; queue: 2 requests with own ids | `NewsOnly`, `NoGap`; under fairness `CatchesUp`, `NobodyWaitsForever` |
| `runs` | 2 runs, 1 session, 1 process end, callers and stops that interrupt `start_run` | `SlotIsActiveRun`, `RecordTellsTheRun`, `AcceptedIsServed`, `TerminalIsFinal`; refinement of `RunSpec`; under fairness `StopConverges`, `ShutdownCompletes` |
| `chg_safety` | 2 changes (one creates a node), queue of 2, cache of 1, 2 incidents | `ConsentCoversWrite`, `WrittenAtMostOnce`, `RecordsAreTrue` |
| `scene` | executor: 10 requests, 2 calls, 1 edit; sandbox of 8 nodes; 7 manifests; 2 samples | `WritesAreUndoable`, refinement of `SceneTransaction`, `SandboxInOrder`, `CommitAllOrNothing`, `NoUndeclaredDriver`, `ProbesLeaveNoTrace` |
| `bridge_link` | 4 set-ups of 2 bridges in one or two processes, one of them older, and 1 or 2 calls, 1 scene load | `HonestCertainty`, `AnswersAreOwn`; under fairness `EveryCallReturns` |
| `storage` | 3 appends cancelled anywhere; 2 sessions, 2 bootstrap changes; 3 artifacts of a session at their caps; every schema version; 3 processes, 2 kills or failing unlinks; 3 builds | `AppendIsExact`, `WorkspacesHold`, `ArtifactsHold`, `CapsHold`, `WholeVersions`, `LockFilesHold` |
| `workbench` | panel: 2 sessions, 2 runs, 3 ways to open; agent: 2 menus of turns, 2 or 3 runs; compiler: every 3-node spec in a container, chains at each budget, two pairs of specs, one proposal more than specs; 1 change asked for twice, 2 edits, a crash; 40 corpora of pages | `PanelKeepsUp`, `CardsAreRight`, `SpawnedIsReaped`, `GuardsAnswer`, `CompiledIsBuilt`, `EvidenceIsSound`, `NamesResolve` |
| `evs_leak` | 2 callers | *violation*: an open transaction is left behind |
| `chg_recovered` | as `chg_safety`, no incidents | *violation*: a half-written create is "recovered" |
| `upgrade_v7` | 2 rows per table, any version | *violation*: approvals and receipts are deleted |
| `sketch_once` | the agent of `workbench` | *violation*: a later request is built without its own review |

*Bounds.* Two of a kind exercise every race between two actors: two runs compete
for one slot, two changes for the write barrier, two bridges for the identity
files; a third request is needed for "one running, one queued, one refused", a
third process for "one dead, one stopping, one starting", a third build for a
reclaim that meets another reclaim. Queue, cache, replay,
cap and repair limits are set so small that they are reached; some spec exceeds each
of the limits of a change (9 operations, 8 conditions, a payload of 26 entries) and of
a spec (5 nodes). A restart keeps only
durable state, so one process end per behaviour already meets every point at which
a run can be interrupted and what the next incarnation makes of it (the
theorems hold for any number of them); in `ChangeSets` two incidents allow a crash
of either side and an edit or load in the window after it. `MaxStream`, `MaxSeq`,
`MaxRestarts`, `MaxIncidents`, `MaxEdits`, `MaxCalls`, `MaxProbes`, `MaxFaults`,
`MaxKills`, `MaxLoads`, `Repeats`, `MaxJoins` and the turns of a menu only
stop counters.

*Deadlock* is not checked: every system here may come to rest (all requests
answered, all runs ended, all bounds used up).

*Fairness.* Weak fairness of a coroutine's next step and of callbacks: asyncio's
ready queue is FIFO and no model step blocks the loop. Weak fairness of the
connection's thread (`EventStore`): it takes statements off a FIFO. Weak fairness
of the pump: Houdini runs the idle callback while the host is open; nothing is
assumed about how long an operation takes. `RunLifecycle` assumes nothing of the
model stream: it may never end, and a stop must converge all the same.
`EventDelivery` assumes the server's handler and sender run; the client is free
to disconnect, and the liveness property asks only that a client that stays gets
every event or is disconnected. `BridgeLink` assumes of a client only its own
steps and its deadline, of the bridge nothing: it may hang or die. The other
modules state safety only.

## 4. Proofs

Every theorem holds for all values of the constants its modules' named ASSUMEs
allow: null values lie outside the sets they complete, bounds are naturals, queues
have room for one entry, a bridge's process is one of the
processes, the set of changes is finite. For the three composed modules:

- `WorkspaceAssumption`: every bootstrap change has a session.
- `ExecutorAssumption`, `SceneAssumption`: a request is one the contract lets through
  (`ValidRequest`: the constructors of `contracts.py` reject any other), what it sets is
  a parameter value and what it connects has a source, the first scene is one Houdini
  can be in, and there are finitely many nodes.
- `BatchAssumption`, `ProbeAssumption`: a batch is a sequence, a sample plan a sequence
  of values for existing parameters.
- `NoneAssumption`, `CorpusAssumption`: `None` is no report and no evaluation; every
  page is one the parsers can make (`PageOK`).

None bounds the number of runs, changes, calls, callers, processes, nodes, pages,
events or incidents. Each proof has one shape: an inductive invariant, which TLC
checked on the runs' instances before it was proved, a lemma for the initial state, a
step or a lemma per action, and the promise as a consequence. What each invariant
adds is the reason why the code is right.

| Module | Theorem | States |
|---|---|---|
| `RunLifecycleProofs` | `SlotSafety`, `TypeSafety` | `SlotIsActiveRun`, `TypeOK` |
| | `Refinement`, `Finality` | `ImplementsRunSpec`, `TerminalIsFinal` |
| | `RecordIsTrue` | `RecordTellsTheRun` |
| | `Served` | `AcceptedIsServed` |
| `ChangeSetsProofs` | `ConsentCovers`, `WrittenOnce`, `RecordsTrue` | `ConsentCoversWrite`, `WrittenAtMostOnce`, `RecordsAreTrue` |
| `MainThreadQueueProofs` | `ServedInTurnAndOnce`, `ReportsAgree`, `AdapterOutlives` | `InTurnAndOnce`, `ReportAgreesWithScene`, `AdapterOutlivesOperation` |
| `StorageProofs` | `AppendExact` (with `EventsHold`) | `AppendIsExact` |
| | `LockFiles`, `UpgradeIsWhole` | `LockFilesHold`, `WholeVersions` |
| | `WorkspacesKept`, `AvailableIsThere` | `WorkspacesHold`, `ArtifactsHold` |
| `SceneProofs` | `UndoableWrites` (with `ExecutorHolds`) | `WritesAreUndoable` |
| | `ApplyIsATransaction` | `ImplementsTransaction`, the refinement of `SceneTransaction` |
| | `FailureIsUndoneOrFrozen` | `UndoneOrFrozen`, the failing half of it, as an action property |
| | `NoHiddenDriver`, `ProbesAreClean` | `NoUndeclaredDriver`, `ProbesLeaveNoTrace` |
| `WorkbenchProofs` | `SpawnedOneIsReaped` | `SpawnedIsReaped` |
| | `AcceptanceIsEarned` | `EvidenceIsSound` |
| | `NamesResolveRight` | `NamesResolve` |
| `BridgeLinkProofs` | `CertaintyIsHonest`, `AnswersOwned` | `HonestCertainty`, `AnswersAreOwn` |
| `EventDeliveryProofs` | `DeliveryIsNews` | `NewsOnly` |
| | `DeliveryIsComplete` | `NoGap` |

**Run lifecycle.** The slot alone is not inductive: the appending region and the
shutdown sweep write the status of a run they chose earlier. `IInv` adds which run
each of them holds, that the sweep owns the lock only while it writes, and that it
runs only while the service stops. For the refinement each step is one legal edge of
one run, the creation of a run while none is active, a deletion of ended ones, or a
stutter (`RunsTableStep`, `StepRefines`).

**Run record.** `RecordInv` says of one run (`Rec`) how its status, the trail of
statuses it went through, its log, and the events still to be appended lie to one
another: what is missing in the log is coming, or was lost with a process, one
change per process end. Around it: who may have events to append (`Regions`,
`OwedToFailed`), that the final answer is written once (`Answers`), and that
convergence and sweep only aim at the stop (`Sweeping`). `Served` needs in addition
where a task can be when its run is fresh, stopped at its start or ended
(`ServeInv`). It holds of every behaviour: a run without a task is one whose start was
cut (section 6), and of such a run the log has nothing but its creation and its stop.

**Changesets.** The record is true because of the order of the queue: the entry a
caller waits for is the last of its change (`AwaitedIsLast`), so when it is
answered nothing of the change can still run; an unanswered apply finds the change
unwritten, and an answer not yet read is final (`AnswerIsFinal`). `EffectTellsWrites`
and `CacheTellsWrites` are what preflight and the receipt cache know, `Consent` and
`TaskInStep` tie approval and task to the row. Two lemmas carry the environment:
whatever thins the queue keeps the invariant (`Thins`, `ThinnerKeeps`), and so does
whatever happens to the scene.

**Main-thread queue.** An entry is in one place at a time, and every unsettled entry
is somewhere (`HeldOnce`); the answer on its way there is true (`AnswersTrue`); the
queue continues in the order of acceptance what has been started (`InOrder`);
whoever stops the bridge has emptied the queue for good before the adapter goes
(`Stopping`, `Stages`).

**Event store.** What a cancelled caller leaves to the connection's thread is at most
one statement of a body, then a ROLLBACK, then BEGINs (`QueueShape`); `TxShape` says
what the connection sees against what is durable before each of them, `Durable` and
`Told` whose event is on disk and what its caller may know of it.

**Bridge link.** One call is followed from the identity files to its answer by a
predicate of its own state (`Journey`), so that a step of one call leaves the others
alone (`ClientLocal`, `ServerLocal`, `HostLocal`). A write leaves an answer behind, and
whoever reports certainty has no write behind it or ahead of it. `TablesAgree` is
what the client's table of operations and the server's owe each other; `Current`
is why a query answers for the scene of its binding.

**Event delivery.** The stream to the client is the item in the sender's hand, the
queue, and what `_do_subscribe` has still to enqueue. `Stream` says that these three
are ordered, one after the other, and news to the client; `Position` where
`last_delivered` stands among them at each stage; `Remembered` bounds what was
received. For completeness, `Complete` adds that each event in the stream comes
after everything older (`Chain`), that an event not in the stream is known, or held
back with its bundle or buffered, and behind `last_delivered` (`Awaited`), that a
bundle is newer than the buffer, and that of a slow consumer only the first item
counts, because it is closed after it. It holds as long as `~lossy`, and `lossy` is
final (`LossIsFinal`), so the three ways named in `EventDelivery` are the only ways
in which this design loses an event.

**Start, stop and build lock.** The process that holds the lock is the only one
between its start and its end, and how far it has come says whose the two files are
(`ProcessInv`). A build finds the lock its own only past its creation, and only one
about to replace the cache, dead or troubled has a temporary file; a lock is taken for
stale only when its owner has ended, so until a reclaim has raced every build that
works has its own lock at the path (`BuildInv`).

**Schema.** `Underway` is the set of tables before each statement of each migration,
the detour of version 7 through a second table included. The working copy has exactly
these, and the durable tables those of the history (`UpgradeInv`).

**Workspaces.** Between its read and its commit an operation holds a manifest. What it
is about to create is of the run that its nodes name, what it is about to bind has the
owner and the nodes of the row that was read (`CallTrue`); so a stale commit may lose
against a newer path but never moves a node to another owner. `AppliedOwned` ties the
workspace of an Applied change to the session, which goes only with its changes.

**Artifacts.** A row is made by the insert of its own register and a file is moved only
while there is no row, so nothing that a concurrent eviction has read can become
pending or available again (`ArtifactInv`).

**Executor.** Preflight is why a rollback can work at all: `Checked` says of the scene
at the start that every target is exactly one node, unlocked, of the change and its
workspace, and that what is to be created is not there. No step changes the path, the
id or the owner of an old node (`Kept`), and new nodes carry new ids or none
(`NewNodes`), so each reference still finds the node it meant then (`StaysResolved`),
although the journal keeps references and not nodes. Then the first entry of a slot
has its original value, and a slot without entry is as it was (`WayBack`), as long as
no inverse has failed. With an empty journal nothing of the transaction is left
(`NothingLeft`): that is `FailureIsUndoneOrFrozen`, the step of a failed transaction
in the refinement of `SceneTransaction`.

The other step, the commit, has to leave exactly the scene that the operations make one
after the other (`Stages`, `TargetScene`), although the HOM may have done otherwise than
it was told, and although only the declared postconditions are compared. `Follows` holds
between scene and stage while the operations run: as long as Houdini renamed no new node
(`Placed`) both have the same nodes, and a slot in which they differ was last written by
an operation that asked for what the stage has there (`WriteFollows`, `CreateFollows`).
The mandatory postconditions, which the policy demands, name every new node and the last
write of every slot (`Assured`), so a scene in which they hold is the target
(`CommitIsTarget`). `Answered` adds that a receipt of an uncertain outcome is there only
while writes are frozen. That `Stages` computes the target for a
sequence of any length needs induction; it is done with the least-number principle
(`Least`, from the well-founded minimum of the naturals): the first stage at which the
claim fails cannot be the first one.

**Parameter manifest and probes.** The coordinator's memory covers the expressions in
the scene and those of the batch under way (`Remembered`). A sample has still the
original value to restore of each parameter it wrote (`SampleInv`); what the first
probe has made is on its stack of things to destroy (`FirstInv`). What a sample may
leave is named: the one parameter whose set raised after it had set (`slip`), with
the answer that the probe was aborted.

**Launch.** `LaunchInv` says who answers for a running child: the thread while it
runs, the mailbox once it has published, the window until it is closed.

**Evidence.** A change is past the point from which each of its events is told
(`ToldInOrder`), which makes its story one. Until the verdict the first two results
are those of the reading (`ResultsOfReading`), although scene and log move on; a
picture is one of the epoch it was asked for, and before the capture there is none
(`Unshot`); a validation begins once, since a task that brings no new event does not
begin one; a
complete verdict rests on a sound reading and passed stages (`VerdictsSound`); what
the router made of it is on its way to the log no more accepted than the verdict
(`OutcomesHold`, `EvaluationsRest`) and has the shape the panel parses.

**Knowledge.** A name of one part of a historical page ranks at most 60 after
`_isolate_historical_operator_aliases`, the name of a current operator at 100 or more
(`RowsOK`), so the top rank of a shared name is the current page's
(`ResolvesToCurrent`). Ids are unique (`EntitiesOK`), and a link leads where the
linker's own rule says (`LinkOK`), which is compared with the rule of the search in
`SearchAndLinks`.

*Only model-checked.*

- Liveness (fairness and ENABLED are outside the prover): `NobodyWaitsForever`,
  `CatchesUp`, `StopConverges`, `ShutdownCompletes`, `EveryCallReturns`.
- `SandboxInOrder`: `EveryNodeIsOnRecord` is about the checked batches; it is false of a
  batch that deletes and creates one path (section 6), so it is no theorem.
- `CommitAllOrNothing`: the path of a sandbox node is a recursive function over the
  scene, and every create, delete and rename would have to be shown to leave one.
- `CapsHold`: totals are folded sums. `CompiledIsBuilt`: the compiler is folds and
  closures over a spec. The provers know nothing of the folds.
- `PanelKeepsUp`, `CardsAreRight`, `GuardsAnswer`: they are about
  what is selected from and concatenated into a log or a message history (`SelectSeq`, `FlattenSeq`), of which the provers know nothing.

## 5. Findings

Each has a run whose counterexample TLC prints.

- `evs_leak` (`runtime/database.py:199`): a caller cancelled while awaiting
  `BEGIN IMMEDIATE` leaves the transaction open; each later BEGIN is refused. The
  sequence stays intact (`storage` includes these behaviours).
- `chg_recovered` (`changesets/service.py:538`): `recover_critical` takes
  `changeset.stale` for an unreachable scene; preflight raises it when a node to be
  created already exists, i.e. for a half-written create in the live scene.
- `upgrade_v7` (`runtime/migrations.py:228`): migration 7 drops the old
  `changesets` table with foreign keys enforced; the implicit deletion cascades to
  `approvals` and `change_receipts`.
- `sketch_once` (`html_workflow_guard.py:122`): the gate starts from the first request
  of a session and asks for one approved sketch since, so the writes of every later
  request pass on the review of an earlier one, against the module's own text at
  `:8-11`.

## 6. Further observations

Met while modelling. Where a property or a constant is named, adding the property
to a run's configuration, or changing the constant, makes TLC print the behaviour.

*Runs, log and delivery*

- `runtime/service.py:934` awaits `create_and_acquire` plainly: a caller cancelled
  in its COMMIT leaves a run that holds the slot and that nobody executes until the
  process restarts, although the comment at `:937-941` excludes it.
- `runtime/service.py:1036`: two stops around the registration of a run's task
  cancel it before its first step; the run stays `StopRequested` until shutdown.
  Both are in every run of the model: the history `cut` names them, and without
  `cut` in `AcceptedRunHasTask` or `StopConverges` the `runs` run refutes each.
- `runtime/service.py:2173`: a crash between the `Failed` row and its events leaves
  a log that never reports the failure; `_reconcile` only looks at active runs.
- `runtime/server.py:757`: `_do_subscribe` replays at most 1000 events but takes the
  session's newest number as boundary; a client further behind never gets the rest
  (the first of the losses that `lossy` records). The comment at `:752` and
  `docs/superpowers/specs/2026-07-14-runtime-design.md:867` promise the contrary.
- `runtime/server.py:791`: an event committed while the buffer is flushed is
  appended behind the copy being flushed and then cleared (the second);
  `:723`: `_failure_persist` commits three events before it notifies, and an event
  announced in between makes `on_event` drop the lower numbers (the third).
- Cancelling a bridge request by id cancels whoever holds that id; ids are uuid4.

*Changesets, workspaces, executor*

- `changesets/service.py:434`: `_ensure_write_available` and `begin_apply` are two
  transactions, so two changes approved together may both be `Applying`, although
  the design says a new Apply begins only when no other is.
- `changesets/service.py:487`: the docstring lets recovery proceed while the bridge
  is unavailable; the code returns pending. `runtime/service.py:1492`: a change that
  went back to `Approved` with a consumed approval can be applied again only by the
  trusted seam, which no command reaches.
- `changesets/repository.py:2019`: a bootstrap change whose session got a workspace
  meanwhile is written in the scene and then refused; it stays `Applying`, blocks
  the write gate, and start-up recovery meets the same refusal.
- `switch_workspace` can never change the active workspace: a session has at most
  one. A revision is a content hash, so the compare-and-set of `bind` sees no
  difference after a change and its reversal. An in-workspace Apply never updates
  the workspace manifest.
- The compiler foresees the operation and condition budgets of a change and not its
  128 KiB (`changesets/contracts.py:1305-1307`): such a spec compiles and is refused as
  `changeset_invalid` (`DefencesAgree` allows that and nothing else).
- Compiled wires may cross networks; only the HOM refuses them, at apply. The
  compiler compares new paths only with one another.

*Sandbox and probes*

- `changeset_executor.py:2431` says "refusing nodes with external consumers"; the
  clean-up of a chain deletes a node whose consumer is kept
  (`CleanupCutsNothing`).
- `_record_build` of *delete p, create p* marks the new `p` deleted; deleting a
  subnet leaves its children's rows live; the nodes of a failed batch are never
  recorded; `delete_node` reads `node.path()` after `destroy()`.
  `EveryNodeIsOnRecord` is therefore about runs in which none of this happened.
- `task_nodes` has UNIQUE(run_id, node_path) (`runtime/migrations.py:263`) and its rows
  are never removed: a run that makes a node where it had deleted one cannot record it,
  and `_store_failed` (`scratch_coordinator.py:289-302`) then ends the recording of
  everything it does afterwards.
- `scratch_coordinator.py:172`: `_expr_refs` never shrinks, so a manifest must go
  on declaring drivers that were deleted.
- A capture that fails before its scope is open leaves its temporary directory.
- `changeset_executor.py:1798`: a sample is noted as written after `parm.set` has
  returned. One that sets and then raises is neither restored nor freezes writes,
  although the docstring at `:1748-1757` says "every written parameter is restored";
  without `slip` the `scene` run refutes `ParmsRestored`.

*Bridge*

- `houdini_bridge/auth.py:288`: `remove_bridge_identity_files` removes whatever is
  there, also what another bridge has just published; `from_state_dir` reads the
  discovery file twice. An unlink that fails is passed over (`:300-301`), and the file
  stays.
- `secure_bridge.py:165`: a bridge restarted in the same Houdini process counts
  epochs from 1 again, so a binding can name two scenes (`LandsWhereObserved` with
  `Setups <- RestartSetups`; the design excludes it,
  `docs/superpowers/specs/2026-07-15-secure-houdini-bridge-readonly-design.md:170`).
- `secure_bridge.py:1268`: sandbox writes that were queued before a freeze pass it
  (`FrozenRefusesSandbox` with `Setups <- FreezeSetups`); `scratch.destroy` checks
  neither epoch nor freeze.
- `_exchange` does not catch the `OSError` of a write; `current_binding` looks at
  no more than 4096 nodes.

*Storage and start-up*

- `runtime/artifacts.py:223`: `_evict_over_caps` reads the rows and the totals in two
  queries. A row that another register or a session's deletion takes in between is
  missing in the totals and still counted as an eviction, so the store may stay above
  its caps until the next register. `torn` records it, and `CapsHold` speaks of
  histories without it; without `torn` the `storage` run refutes it.
- `runtime/service.py:908`: `delete_session` evicts artifact bytes before the
  deletion of the rows may be refused. A crash before `register` orphans a canonical
  file; `register` raises when its retention clean-up fails although its row is
  available, and returns a reference to a row it evicted itself.
- `knowledge/lock.py:139`: a stale reclaim may remove the lock of a build that has
  just reclaimed it, and two builds work at once, although `:6-8` says "one build can
  never delete another active build's lock" (`raced`; without it the `storage` run
  refutes `OneBuilder`).
- `knowledge/build.py:347-349` promises that the temporary file is removed and the lock
  always released. A KeyboardInterrupt is not caught (`:389-394`) and `_cleanup_temp`
  swallows an OSError (`:327-330`), so the file may stay; a build that fails or dies
  between creating the lock and writing its owner leaves an empty lock file, which
  blocks the cache for ever.

*Panel*

- `client.py:1097`: a snapshot swallows the changeset events it covers, so the
  approval drawer may stay closed over a waiting change (`DrawerShowsPending`).
- `client.py:659`: `task_graph.list` is not among the panel's commands, so a
  refresh with a run selected sets the connection to *error*. Successes of
  `changeset.recover` and `knowledge.rebuild` are never announced, and
  `_CHANGESET_STATES` lacks `Recovered`.
- `_session_create_inflight`, `_bootstrap_archiving` and `_workspace_id` survive a
  disconnect or a switch; a failed `session.create` leaves the composer running; a
  held prompt may go to the previous session; a snapshot in mid-stream erases what
  was streamed.
- `main_window.py:511-512` marks the active run so that `_maybe_render_output` "does not
  double-emit it"; a run that was over when the history was replayed, and failed or was
  cancelled, is drawn twice all the same. `ResultsAreShownOnce` names this case and
  excludes every other.

*Agent*

- `html_workflow_guard.py`: approval markers also match inside negations.
- The repair budget counts per call id: a retry under a fresh id starts it again, and a
  call without an id never uses it up, because it is counted under no id and answered
  under an empty one. Under a used id a malformed call is left as it is once the budget
  is spent, and the turn may end on it. A run cut between model and guard leaves its broken call behind.
- The loop guard refuses nothing, it adds a directive to the system message. A call
  that is left unparsed keeps its arguments in its signature, so it is counted apart
  from those that were repaired.

*Evidence and vision*

- A capture is compared with the change by its epoch alone (`secure_bridge.py:1223`):
  another Houdini at the same epoch gives a picture of another scene.
- `_record_delivery_evaluation` swallows every error of the run, the approval, the
  router and the event store (`runtime/service.py:1265-1309`); a picture too large for
  a delivery (`vision/evaluation.py:62-67`) loses its evaluation in the same way.
- A report summary of 1025 to 2048 characters passes `NormalizedVisualReport` but not
  `FinalVisionDecision`: the evaluation is lost. The sample plan is keyed by node type
  on one side and by expected type on the other, so aliased types are not sampled.
- After a crash between apply and validation a change is never validated, although
  `_apply_changeset_task` says its original owner did.
  `modeling.artifact_state_changed` is parsed by the panel and emitted by nobody.

*Knowledge*

- `runtime/knowledge.py` refreshes after the build lock is released: a build of
  another process in between makes it report *unavailable* until the next rebuild
  (`RebuiltIsServed`, against "sees real results without a restart").
- `alias_candidates` takes the top priority before it filters kinds, the linker
  filters first: a search restricted to a kind may find nothing where a link exists.
  `NamesResolve` therefore asks that a search finds the linked page or none.
- Two VEX pages of one stem fail the whole build, and so does a corpus without links.

## 7. Not modelled

Model providers and configuration (construction of external clients), framing,
orientation and the measurements of the verification gates (floating-point
geometry; their verdicts are nondeterministic inputs), message authentication codes
and nonces (abstracted to the token), codecs and canonical JSON (formats), the
full-text search, the case-folded aliases and the text of knowledge pages, the inventory that hython prints,
the conversation summarising of the agent library, panel layout and styling, and
reads that only display. Of modelled components the following is left out: rename
and automatic titles of sessions, the events appended with changeset transitions,
the knowledge, provider and artifact dialogs of the panel, the join timeout of the
bridge host.

## 8. Plan

1. Done: the modules of section 2; the theorems of section 4.
2. Next, within reach: the session guard of the panel (`CardsAreRight`) with the
   selections of a log replaced by quantifiers, as `Evidence` does it.
3. With more work: `CommitAllOrNothing` and `CapsHold`, with paths and sums as recursive
   functions and `Least` for the induction, as the refinement of `SceneTransaction` does it.
4. Liveness of `ChangeSets` (every Apply is settled, from `EveryCallReturns` of
   `BridgeLink`), by model checking.
